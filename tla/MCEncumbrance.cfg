CONSTANTS
    a = a
    b = b
    weth = weth
    usdc = usdc
    Strategies = {a, b}
    Tokens = {weth, usdc}
    ProgramsOf <- PairPrograms
    Amounts = {0, 1, 2}
    MaxHeld = 3
SPECIFICATION Spec
INVARIANTS EncumbranceInv
PROPERTIES SiblingsStayCovered NoFillAtMaxUtil
CHECK_DEADLOCK FALSE
