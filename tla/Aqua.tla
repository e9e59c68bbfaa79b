-------------------------------- MODULE Aqua --------------------------------
(***************************************************************************)
(* The balances a Bone Dry swap moves, for one direction tokenIn ->        *)
(* tokenOut.  Aqua itself (ship, dock, pull, push) is a library outside    *)
(* this repository: it is modelled from how contracts/src calls it.  The   *)
(* Lens, which turns Aqua's books into "what can this maker deliver right  *)
(* now", is the repository's own.                                          *)
(***************************************************************************)
EXTENDS Integers, FiniteSets

CONSTANTS
    Makers,       \* maker wallets
    Strategies,   \* strategies shipped to the app (the SwapVM router)
    OwnerOf       \* the maker whose wallet backs a strategy

ASSUME OwnerAssumption == OwnerOf \in [Strategies -> Makers]

\* Aqua's per-token marker: 0 = never shipped, 0xff = docked, otherwise the
\* number of tokens of the strategy.
NeverShipped == 0
Shipped == 2
Docked == 255

(***************************************************************************)
(* One ledger.  The tokenOut side of a maker is wallet, allowance (to      *)
(* Aqua) and, per strategy, the virtual balance Aqua keeps.  proceeds is   *)
(* the tokenIn a maker has been paid.  pm is the Uniswap v4 PoolManager,   *)
(* hook is Tap, user is the swapper behind Wellhead.                       *)
(***************************************************************************)
Ledger ==
    [wallet: [Makers -> Nat], allowance: [Makers -> Nat],
     proceeds: [Makers -> Nat],
     virtual: [Strategies -> Nat],
     tokensCount: [Strategies -> {NeverShipped, Shipped, Docked}],
     pmIn: Nat, pmOut: Nat,
     hookIn: Nat, hookOut: Nat, hookAllowance: Nat,
     userIn: Nat, userOut: Nat]

Lesser(a, b) == IF a <= b THEN a ELSE b

IsLive(l, s) == l.tokensCount[s] = Shipped

\* What ERC-20 lets Aqua pull from the strategy's maker.
Backing(l, s) == Lesser(l.wallet[OwnerOf[s]], l.allowance[OwnerOf[s]])

\* The largest amount of tokenOut the strategy can deliver in this state.
QuotableDepth(l, s) ==
    IF IsLive(l, s) THEN Lesser(l.virtual[s], Backing(l, s)) ELSE 0

\* A pull succeeds only within the virtual balance, the wallet and the allowance.
CanPull(l, s, out) == IsLive(l, s) /\ out <= Lesser(l.virtual[s], Backing(l, s))

(***************************************************************************)
(* One SwapVM fill between Tap and a maker: Aqua pulls out from the        *)
(* maker's wallet to the hook, and the hook's tokenIn is pushed to the     *)
(* maker against the allowance the hook gave the router.                   *)
(***************************************************************************)
Exchanged(l, s, used, out) ==
    [l EXCEPT !.wallet[OwnerOf[s]] = @ - out,
              !.allowance[OwnerOf[s]] = @ - out,
              !.virtual[s] = @ - out,
              !.proceeds[OwnerOf[s]] = @ + used,
              !.hookOut = @ + out,
              !.hookIn = @ - used,
              !.hookAllowance = @ - used]

ShippedTo(l, s, amount) ==
    [l EXCEPT !.tokensCount[s] = Shipped, !.virtual[s] = amount]

DockedIn(l, s) == [l EXCEPT !.tokensCount[s] = Docked, !.virtual[s] = 0]
=============================================================================
