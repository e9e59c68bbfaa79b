CONSTANTS
    a = a
    b = b
    c = c
    pub1 = pub1
    pub2 = pub2
    weth = weth
    usdc = usdc
    Strategies = {a, b, c}
    Tokens = {weth, usdc}
    ProgramsOf <- MCPrograms
    Amounts = {0, 2}
    MaxHeld = 4
    TokenOut = weth
    Pubs = {pub1, pub2}
    Terms <- MCTerms
    Promises <- MCPromises
    Opening = 2
    MaxListed = 1
    MaxMoves = 2
    Base = 256
    WordBytes = 2
    ShortBytes = 2
    ArgsLimit = 255
    HashNo <- MCHashNo
    Salts <- MCSalts
    Curves <- MCCurves
    MaxDeclared = 12
    One = 4
    MaxStalenessSeconds = 1
    Legs <- MCLegs
    Sizes = {1, 2, 3, 7, 12, 30}
    Chart = 3
    Answers = {0, 1, 2}
    Times = {0, 1, 3}
    FeedUnit = 2
SYMMETRY MCSymmetry
SPECIFICATION PSpec
INVARIANTS  InstructionsAreRead
PROPERTIES DeclaresItsBook 
CHECK_DEADLOCK FALSE
