CONSTANTS
    a = a
    b = b
    c = c
    weth = weth
    usdc = usdc
    ours = ours
    Strategies = {a, b, c}
    Tokens = {weth, usdc}
    AppOf <- OneApp
    HashOf <- Hash
    UsesEncumbrance <- Capped
    DeclaredSiblings <- Lists
    ShipLists <- OneTokenSiblings
    ReshipsLive = FALSE
    Amounts = {1}
    MaxBalance = 1
    MaxLag = 3
    Bps = 100
    MaxI32 = 1000
SPECIFICATION Spec
INVARIANTS BooksInv  UtilIsOneInstant
CHECK_DEADLOCK FALSE
