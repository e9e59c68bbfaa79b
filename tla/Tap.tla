--------------------------------- MODULE Tap ---------------------------------
(***************************************************************************)
(* One exact-input swap through Wellhead, the PoolManager and the Tap hook, *)
(* for tokenIn -> tokenOut.  The swap is one EVM transaction: its steps    *)
(* never interleave with the makers' own transactions, but a maker may     *)
(* have moved anything since the route was computed, two strategies of a   *)
(* route may share a wallet, and any fill may fail.  A revert anywhere     *)
(* restores the ledger of the transaction's start (snap).                  *)
(***************************************************************************)
EXTENDS Aqua, Sequences

CONSTANTS
    Faithful,       \* strategies whose program quotes x \div Rate[s] and then honours it
    Rate,           \* tokenIn per tokenOut of a faithful program
    QuoteLevels,    \* what the program of any other strategy may quote
    MaxDelta,       \* type(int128).max, the width of a v4 delta
    Routes,         \* candidate lists a caller may submit (any order, duplicates too)
    Requests,       \* amountIn values a caller may submit
    Floors,         \* minOut values a caller may submit
    WalletLevels, AllowanceLevels, VirtualLevels, PoolLevels, \* initial and later balances
    Budget          \* the swapper's tokenIn

ASSUME TapAssumption ==
    /\ Faithful \subseteq Strategies
    /\ Rate \in [Strategies -> Nat \ {0}]
    /\ MaxDelta \in Nat
    /\ Budget \in Nat
    /\ QuoteLevels \subseteq Nat
    /\ Routes \subseteq Seq(Strategies)
    /\ Requests \subseteq Nat
    /\ Floors \subseteq Nat
    /\ WalletLevels \subseteq Nat
    /\ AllowanceLevels \subseteq Nat
    /\ VirtualLevels \subseteq Nat
    /\ PoolLevels \subseteq Nat

VARIABLES
    led,         \* the ledger, as the transaction sees it
    snap,        \* the ledger before the transaction: what a revert restores
    pc,          \* where in Wellhead.swap / Tap.beforeSwap the transaction is
    i,           \* the loop index
    route,       \* hookData: the strategies to fill from
    requested,   \* amountIn
    minOut,      \* Wellhead's floor
    depth,       \* pass 1: what each strategy could deliver
    totalDepth,
    dust,        \* what integer division leaves of the input
    remaining, unplaced, totalOut,   \* Ctx
    borrowed,    \* the hook's negative tokenIn delta in the PoolManager
    skipped,     \* has this swap emitted a MakerSkipped event
    outcome      \* how the last transaction ended

ctx == <<i, route, requested, minOut, depth, totalDepth, dust, remaining,
         unplaced, totalOut, borrowed, skipped>>
vars == <<led, snap, pc, ctx, outcome>>

Reverts ==
    {"ExactInputOnly", "ExactOutputNotSupported", "NativeCurrencyNotSupported",
     "NoSolventMaker", "CouldNotFillEntireSwap", "Underflow", "TakeFailed",
     "TransferFailed", "AmountOverflowsDelta", "SwapperCannotPay",
     "CurrencyNotSettled", "TooLittleReceived"}

N == Len(route)
TypeOK ==
    /\ led \in Ledger
    /\ snap \in Ledger
    /\ pc \in {"idle", "depth", "dust", "place", "sweep", "settle", "pay"}
    /\ route \in Seq(Strategies)
    /\ i \in 1 .. N + 1
    /\ requested \in Nat
    /\ minOut \in Nat
    /\ depth \in [1 .. N -> Nat]
    /\ totalDepth \in Nat
    /\ dust \in Nat
    /\ remaining \in Nat
    /\ unplaced \in Nat
    /\ totalOut \in Nat
    /\ borrowed \in Int
    /\ skipped \in BOOLEAN
    /\ outcome \in Reverts \cup {"none", "filled"}

InitialLedgers ==
    {[wallet |-> w, allowance |-> a, proceeds |-> [m \in Makers |-> 0],
      virtual |-> [s \in Strategies |-> IF t[s] = Shipped THEN v[s] ELSE 0],
      tokensCount |-> t,
      pmIn |-> p, pmOut |-> 0, hookIn |-> 0, hookOut |-> 0, hookAllowance |-> 0,
      userIn |-> Budget, userOut |-> 0] :
        w \in [Makers -> WalletLevels], a \in [Makers -> AllowanceLevels],
        v \in [Strategies -> VirtualLevels],
        t \in [Strategies -> {NeverShipped, Shipped}], p \in PoolLevels}

NoSwap ==
    /\ i = 1 /\ route = <<>> /\ depth = <<>>
    /\ requested = 0 /\ minOut = 0 /\ totalDepth = 0 /\ dust = 0
    /\ remaining = 0 /\ unplaced = 0 /\ totalOut = 0 /\ borrowed = 0 /\ skipped = FALSE

Init ==
    /\ led \in InitialLedgers
    /\ snap = led
    /\ pc = "idle"
    /\ NoSwap
    /\ outcome = "none"

-----------------------------------------------------------------------------
(* Ends of the transaction.  Every exit forgets the call's memory.          *)

End(ledger, how) ==
    /\ led' = ledger
    /\ snap' = ledger
    /\ pc' = "idle"
    /\ i' = 1 /\ route' = <<>> /\ depth' = <<>>
    /\ requested' = 0 /\ minOut' = 0 /\ totalDepth' = 0 /\ dust' = 0
    /\ remaining' = 0 /\ unplaced' = 0 /\ totalOut' = 0 /\ borrowed' = 0
    /\ skipped' = FALSE
    /\ outcome' = how

Revert(why) == End(snap, why)

Goto(where) == pc' = where /\ i' = 1

-----------------------------------------------------------------------------
(* Between swaps: makers and other pools' traders act as they please.       *)

Elsewhere(ledger) ==
    /\ pc = "idle"
    /\ led' = ledger
    /\ snap' = ledger
    /\ outcome' = "none"
    /\ UNCHANGED <<pc, ctx>>

MakerMovesFunds(m) ==
    \E w \in WalletLevels : Elsewhere([led EXCEPT !.wallet[m] = w])
MakerApproves(m) ==
    \E a \in AllowanceLevels : Elsewhere([led EXCEPT !.allowance[m] = a])
MakerShips(s) ==
    /\ led.tokensCount[s] = NeverShipped
    /\ \E v \in VirtualLevels : Elsewhere(ShippedTo(led, s, v))
MakerDocks(s) == IsLive(led, s) /\ Elsewhere(DockedIn(led, s))
OtherPoolsMove ==
    \E p \in PoolLevels : Elsewhere([led EXCEPT !.pmIn = p])

-----------------------------------------------------------------------------
(* Wellhead.swap up to Tap.beforeSwap.                                      *)

\* A zero input, an exact-output call or a native-currency pool: refused first.
RejectCall ==
    /\ pc = "idle"
    /\ \E why \in {"ExactInputOnly", "ExactOutputNotSupported",
                   "NativeCurrencyNotSupported"} : End(led, why)

Swap(amountIn, least, candidates) ==
    /\ pc = "idle"
    /\ amountIn > 0
    /\ requested' = amountIn
    /\ minOut' = least
    /\ route' = candidates
    /\ depth' = [j \in 1 .. Len(candidates) |-> 0]
    /\ remaining' = amountIn
    /\ outcome' = "none"
    /\ Goto("depth")
    /\ UNCHANGED <<led, snap, totalDepth, dust, unplaced, totalOut, borrowed, skipped>>

\* Pass 1, one candidate: ask the Lens what the strategy can deliver.
ReadDepth ==
    /\ pc = "depth"
    /\ i <= N
    /\ depth' = [depth EXCEPT ![i] = QuotableDepth(led, route[i])]
    /\ totalDepth' = totalDepth + depth'[i]
    /\ i' = i + 1
    /\ UNCHANGED <<led, snap, pc, route, requested, minOut, dust, remaining,
                   unplaced, totalOut, borrowed, skipped, outcome>>

\* Pass 1 ends: nobody solvent, or more asked than the PoolManager holds.
AfterDepth ==
    /\ pc = "depth"
    /\ i > N
    /\ \/ totalDepth = 0 /\ Revert("NoSolventMaker")
       \/ totalDepth > 0 /\ requested > led.pmIn /\ Revert("CouldNotFillEntireSwap")
       \/ /\ totalDepth > 0
          /\ requested <= led.pmIn
          /\ dust' = requested
          /\ Goto("dust")
          /\ UNCHANGED <<led, snap, route, requested, minOut, depth, totalDepth,
                         remaining, unplaced, totalOut, borrowed, skipped, outcome>>

ProRata(j) == (requested * depth[j]) \div totalDepth

\* The remainder of the integer divisions, in Solidity's checked arithmetic.
CountDust ==
    /\ pc = "dust"
    /\ \/ /\ i <= N
          /\ IF dust < ProRata(i)
               THEN Revert("Underflow")
               ELSE /\ dust' = dust - ProRata(i)
                    /\ i' = i + 1
                    /\ UNCHANGED <<led, snap, pc, route, requested, minOut, depth,
                                   totalDepth, remaining, unplaced, totalOut,
                                   borrowed, skipped, outcome>>
       \/ /\ i > N
          /\ Goto("place")
          /\ UNCHANGED <<led, snap, route, requested, minOut, depth, totalDepth, dust,
                         remaining, unplaced, totalOut, borrowed, skipped, outcome>>

-----------------------------------------------------------------------------
(* Tap._fill: one maker, one slice.                                         *)

\* Fault: a sweep offers the whole input again, placed shares included.
Offer_SweepAll ==
    IF pc = "sweep" THEN requested
    ELSE Lesser(ProRata(i) + (IF i = 1 THEN dust ELSE 0), remaining)

\* Fault: the remainder is left for the sweep.
Offer_DustApart == IF pc = "sweep" THEN remaining ELSE Lesser(ProRata(i), remaining)

\* Pass 2 offers the pro-rata share (the first one with the dust), a sweep
\* everything that is left.
Offer ==
    IF pc = "sweep" THEN remaining
    ELSE Lesser(ProRata(i) + (IF i = 1 THEN dust ELSE 0), remaining)

\* router.quote: a program outside this repository.  It may revert.
QuoteReverts(s, x) == s \notin Faithful \/ x \div Rate[s] > led.virtual[s]
Quotes(s, x) ==
    IF s \notin Faithful THEN QuoteLevels
    ELSE {q \in {x \div Rate[s]} : q <= led.virtual[s]}

\* router.swap: what Aqua cannot pull reverts; a program that is not faithful
\* may also revert, use part of the slice or pay another amount than quoted.
SwapReverts(s, x) == s \notin Faithful \/ ~CanPull(led, s, x \div Rate[s])
SwapResults(s, x) ==
    IF s \notin Faithful
      THEN {r \in [used: 0 .. x, out: 0 .. led.virtual[s]] : CanPull(led, s, r.out)}
      ELSE {r \in {[used |-> x, out |-> x \div Rate[s]]} : CanPull(led, s, r.out)}

Filling == pc \in {"place", "sweep"} /\ i <= N /\ remaining > 0

Worth == depth[i] > 0 /\ Offer > 0

Unaffected == <<snap, pc, route, requested, minOut, depth, totalDepth, dust, outcome>>

\* Nothing to offer, or nobody to offer it to.
PassOver ==
    /\ Filling
    /\ ~Worth
    /\ i' = i + 1
    /\ UNCHANGED <<led, remaining, unplaced, totalOut, borrowed, skipped, Unaffected>>

Usable(q) == q > 0 /\ q <= depth[i]

\* The quote reverts, is zero, or exceeds the depth of pass 1: nothing is borrowed.
SkipOnQuote ==
    /\ Filling
    /\ Worth
    /\ \/ QuoteReverts(route[i], Offer)
       \/ \E q \in Quotes(route[i], Offer) : ~Usable(q)
    /\ skipped' = TRUE
    /\ i' = i + 1
    /\ UNCHANGED <<led, remaining, unplaced, totalOut, borrowed, Unaffected>>

Quoted == Filling /\ Worth /\ \E q \in Quotes(route[i], Offer) : Usable(q)

\* poolManager.take is outside the try: a PoolManager without the slice
\* reverts the swap.
TakeFails ==
    /\ Quoted
    /\ led.pmIn < Offer
    /\ Revert("TakeFailed")

\* The ledger once the slice is borrowed and the router approved for it.
Borrow(x) ==
    [led EXCEPT !.pmIn = @ - x, !.hookIn = @ + x, !.hookAllowance = x]

Fill ==
    /\ Quoted
    /\ led.pmIn >= Offer
    /\ \E r \in SwapResults(route[i], Offer) :
         /\ led' = Exchanged(Borrow(Offer), route[i], r.used, r.out)
         /\ remaining' = remaining - r.used
         /\ unplaced' = unplaced + (Offer - r.used)
         /\ totalOut' = totalOut + r.out
    /\ borrowed' = borrowed + Offer
    /\ i' = i + 1
    /\ UNCHANGED <<skipped, Unaffected>>

\* Fault: a reverted fill forgets that the slice is still in the hook.
Keep_Forgotten(x) == unplaced' = unplaced
Keep(x) == unplaced' = unplaced + x

\* The maker's swap reverts: the slice stays with the hook until the end.
SkipOnSwap ==
    /\ Quoted
    /\ led.pmIn >= Offer
    /\ SwapReverts(route[i], Offer)
    /\ led' = Borrow(Offer)
    /\ Keep(Offer)
    /\ borrowed' = borrowed + Offer
    /\ skipped' = TRUE
    /\ i' = i + 1
    /\ UNCHANGED <<remaining, totalOut, Unaffected>>

Done == i > N \/ remaining = 0
Onwards(where) ==
    /\ Goto(where)
    /\ UNCHANGED <<led, snap, route, requested, minOut, depth, totalDepth, dust,
                   remaining, unplaced, totalOut, borrowed, skipped, outcome>>

\* Faults: no sweep at all; sweeping for as long as something is left.
NextPass_NoSweep ==
    /\ pc \in {"place", "sweep"}
    /\ Done
    /\ Onwards("settle")
NextPass_Persist ==
    /\ pc \in {"place", "sweep"}
    /\ Done
    /\ Onwards(IF remaining > 0 THEN "sweep" ELSE "settle")

\* A loop ends: pass 2 goes on to the sweep, the sweep to settlement.
NextPass ==
    /\ pc \in {"place", "sweep"}
    /\ Done
    /\ Onwards(IF pc = "place" THEN "sweep" ELSE "settle")

-----------------------------------------------------------------------------
(* The end of beforeSwap, and Wellhead's settlement of the swapper.         *)

FilledIn == requested - remaining

\* Fault: any fill will do.
Placed_Partly == TRUE
Placed == FilledIn = requested

\* Fault: the slices nobody spent stay in the hook.
HandBack_Nothing ==
    [led EXCEPT !.hookAllowance = 0,
                !.hookOut = @ - totalOut, !.pmOut = @ + totalOut]

\* Clear the allowance, return what was borrowed and not spent, pay the fill's
\* output into the PoolManager.
HandBack ==
    [led EXCEPT !.hookAllowance = 0,
                !.hookIn = @ - unplaced, !.pmIn = @ + unplaced,
                !.hookOut = @ - totalOut, !.pmOut = @ + totalOut]

\* Why beforeSwap reverts at its end, in the order the code finds out.
SettleError ==
    IF totalOut = 0 THEN "NoSolventMaker"
    ELSE IF ~Placed THEN "CouldNotFillEntireSwap"
    ELSE IF led.hookIn < unplaced \/ led.hookOut < totalOut THEN "TransferFailed"
    ELSE IF FilledIn > MaxDelta \/ totalOut > MaxDelta THEN "AmountOverflowsDelta"
    ELSE "none"

SettleHook ==
    /\ pc = "settle"
    /\ \/ SettleError # "none" /\ Revert(SettleError)
       \/ /\ SettleError = "none"
          /\ led' = HandBack
          /\ borrowed' = borrowed - unplaced - FilledIn
          /\ Goto("pay")
          /\ UNCHANGED <<snap, route, requested, minOut, depth, totalDepth, dust,
                         remaining, unplaced, totalOut, skipped, outcome>>

\* Wellhead pays the swapper's debt and forwards the swapper's credit.
Paid ==
    [led EXCEPT !.userIn = @ - FilledIn, !.pmIn = @ + FilledIn,
                !.pmOut = @ - totalOut, !.userOut = @ + totalOut]

Received == Paid.userOut - snap.userOut


PayError ==
    IF led.userIn < FilledIn THEN "SwapperCannotPay"
    ELSE IF borrowed # 0 THEN "CurrencyNotSettled"
    ELSE IF Received >= minOut THEN "none" ELSE "TooLittleReceived"

Pay ==
    /\ pc = "pay"
    /\ \/ PayError # "none" /\ Revert(PayError)
       \/ PayError = "none" /\ End(Paid, "filled")

-----------------------------------------------------------------------------
Makers_ ==
    \/ \E m \in Makers : MakerMovesFunds(m) \/ MakerApproves(m)
    \/ \E s \in Strategies : MakerShips(s) \/ MakerDocks(s)
    \/ OtherPoolsMove

Call ==
    \/ RejectCall
    \/ \E amountIn \in Requests, least \in Floors, candidates \in Routes :
         Swap(amountIn, least, candidates)

Execute ==
    \/ ReadDepth \/ AfterDepth \/ CountDust
    \/ PassOver \/ SkipOnQuote \/ TakeFails \/ Fill \/ SkipOnSwap \/ NextPass
    \/ SettleHook \/ Pay

Next == Makers_ \/ Call \/ Execute

Spec == Init /\ [][Next]_vars

\* The EVM runs a transaction to its end once it has begun it.
FairSpec == Spec /\ WF_vars(Execute)

-----------------------------------------------------------------------------
(* Properties.                                                              *)

InSwap == pc \in {"place", "sweep", "settle"}

\* Between transactions the hook holds no token and has no standing allowance
\* for the router, whatever the makers did: nothing is stranded in Tap.
HookKeepsNothing ==
    pc = "idle" => led.hookIn = 0 /\ led.hookOut = 0 /\ led.hookAllowance = 0

\* While fills are placed, every unit of the input is either still to be
\* placed or taken by a maker, the hook holds exactly the slices that were
\* borrowed and not spent and the output it was paid, and its debt to the
\* PoolManager is the two together.
FillAccounts ==
    InSwap =>
      /\ remaining <= requested
      /\ led.hookIn = unplaced
      /\ led.hookOut = totalOut
      /\ borrowed = FilledIn + unplaced
      /\ led.pmIn + borrowed = snap.pmIn

\* The PoolManager never finds the hook's delta open, the hook can always make
\* the transfers of its settlement, and the dust subtraction never underflows:
\* whatever makers do, those reverts do not happen.
BooksAlwaysClose ==
    outcome \notin {"CurrencyNotSettled", "TransferFailed", "Underflow"}

\* A completed swap charges the swapper exactly the amount asked for, pays at
\* least minOut, and leaves the PoolManager with the tokens it started with;
\* any other end of the transaction leaves every balance as it was.
AllOrNothing ==
    [][(pc # "idle" /\ pc' = "idle") =>
         IF outcome' = "filled"
           THEN /\ led'.userIn = snap.userIn - requested
                /\ led'.userOut >= snap.userOut + minOut
                /\ led'.pmIn = snap.pmIn
                /\ led'.pmOut = snap.pmOut
           ELSE led' = snap]_vars

Occurrences(s) == {j \in 1 .. N : route[j] = s}

\* A faithful strategy listed once on the route, whose owner no other listed
\* strategy shares, deep enough for the whole swap at one for one.
CanCarry(s) ==
    /\ s \in Faithful
    /\ Rate[s] = 1
    /\ Cardinality(Occurrences(s)) = 1
    /\ \A j \in 1 .. N : OwnerOf[route[j]] = OwnerOf[s] => route[j] = s
    /\ QuotableDepth(snap, s) >= requested

\* The transaction ends with part of the input never placed.
Refused == pc # "idle" /\ pc' = "idle" /\ remaining > 0

\* Makers who cannot deliver are skipped, not fatal: if one listed maker could
\* carry the whole swap, and the PoolManager could lend every offer of the two
\* passes at once, no other maker can prevent the fill.
OneGoodMakerIsEnough ==
    [][(/\ \E s \in Strategies : CanCarry(s)
        /\ snap.pmIn >= 2 * N * requested) => ~Refused]_vars

\* The remainder of the pro-rata division is not offered on its own: the first
\* slice carries it, so a sweep finds something left only when a maker was
\* skipped.  A dry first candidate is passed over without counting as skipped,
\* and is the exception; so is a fill that leaves input over.
RemainderRidesFirst ==
    (/\ pc = "sweep" /\ skipped = FALSE
     /\ depth[1] > 0
     /\ \A j \in 1 .. N : route[j] \in Faithful) => remaining = 0

\* A swap once begun ends: no route keeps the loops of beforeSwap going.
SwapEnds == pc # "idle" ~> pc = "idle"

\* Outside the transaction only its ends are visible: what the chain has
\* committed is the ledger between swaps, and snap while one runs.
Committed == IF pc = "idle" THEN led ELSE snap

Atomic == INSTANCE AtomicSwap WITH
    userIn <- Committed.userIn, userOut <- Committed.userOut,
    pmIn <- Committed.pmIn, pmOut <- Committed.pmOut,
    hook <- [in |-> Committed.hookIn, out |-> Committed.hookOut,
             allowance |-> Committed.hookAllowance]

\* Tap behind Wellhead implements the atomic swap.
IsAtomic == Atomic!Spec

(***************************************************************************)
(* Between any two fills of a swap its accounts are well formed, add up    *)
(* and can be settled, whatever the makers answered (Tap.sol:115-215).     *)
(***************************************************************************)
TapInv == TypeOK /\ HookKeepsNothing /\ FillAccounts /\ BooksAlwaysClose
=============================================================================
