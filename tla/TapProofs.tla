------------------------------ MODULE TapProofs ------------------------------
(***************************************************************************)
(* What holds of Tap for every set of makers, every router program, every  *)
(* route and every amount.  The inductive invariant describes the ledger   *)
(* relative to snap, the ledger of the transaction's start, at each stage  *)
(* of the swap.  Then what holds of the planner: its plans stand on the    *)
(* ledger they were drawn from, and the hook goes through a planned swap   *)
(* as the planner's replay of it did.                                      *)
(***************************************************************************)
EXTENDS PlannedSwap, FiniteSetTheorems, SequenceTheorems, WellFoundedInduction, TLAPS

Clean(l) == l.hookIn = 0 /\ l.hookOut = 0 /\ l.hookAllowance = 0

\* Fills move nothing of the swapper's and nothing of the PoolManager's output.
Untouched == led.userIn = snap.userIn /\ led.userOut = snap.userOut /\ led.pmOut = snap.pmOut

Resting ==
    pc = "idle" => led = snap /\ unplaced = 0 /\ totalOut = 0 /\ borrowed = 0

Starting ==
    pc \in {"depth", "dust"} =>
      /\ led = snap
      /\ remaining = requested /\ unplaced = 0 /\ totalOut = 0 /\ borrowed = 0

Placing == InSwap => FillAccounts /\ Untouched

Paying ==
    pc = "pay" =>
      /\ Clean(led)
      /\ borrowed = 0
      /\ remaining = 0
      /\ totalOut > 0 /\ totalOut <= MaxDelta /\ requested <= MaxDelta
      /\ led.userIn = snap.userIn /\ led.userOut = snap.userOut
      /\ led.pmIn + requested = snap.pmIn
      /\ led.pmOut = snap.pmOut + totalOut

NoOpenBooks == outcome \notin {"CurrencyNotSettled", "TransferFailed"}

IInv ==
    /\ TypeOK
    /\ Clean(snap)
    /\ pc # "idle" => requested > 0
    /\ pc \notin {"idle", "depth"} => totalDepth > 0
    /\ Resting
    /\ Starting
    /\ Placing
    /\ Paying
    /\ NoOpenBooks

\* The hook as anyone may call it: any route, amount and floor, not only those
\* of the constants or of a plan.
AnyCall ==
    \/ RejectCall
    \/ \E amountIn \in Nat, least \in Nat, candidates \in Seq(Strategies) : Swap(amountIn, least, candidates)

AnyNext == Makers_ \/ AnyCall \/ Execute

AnySpec == Init /\ [][AnyNext]_vars

-----------------------------------------------------------------------------
LEMMA EmptyDepth == <<>> \in [1 .. Len(<<>>) -> Nat] /\ Len(<<>>) = 0 /\ <<>> \in Seq(Strategies)
<1>1. <<>> \in Seq(Nat) /\ <<>> \in Seq(Strategies)
  OBVIOUS
<1>2. Len(<<>>) = 0
  OBVIOUS
<1> QED
  BY <1>1, <1>2, LenProperties

\* The Lens answers with an amount.
LEMMA DepthIsAmount ==
    ASSUME NEW l \in Ledger, NEW s \in Strategies
    PROVE  QuotableDepth(l, s) \in Nat
BY OwnerAssumption DEF QuotableDepth, Backing, Lesser, Ledger, IsLive

\* A fill within what Aqua can pull and what the hook approved keeps every
\* balance an amount, and touches neither the swapper nor the PoolManager.
LEMMA ExchangeKeepsAmounts ==
    ASSUME NEW l \in Ledger, NEW s \in Strategies, NEW used \in Nat, NEW out \in Nat,
           CanPull(l, s, out), used <= l.hookIn, used <= l.hookAllowance
    PROVE  LET l2 == Exchanged(l, s, used, out)
           IN  /\ l2 \in Ledger
               /\ l2.hookIn = l.hookIn - used
               /\ l2.hookOut = l.hookOut + out
               /\ l2.pmIn = l.pmIn /\ l2.pmOut = l.pmOut
               /\ l2.userIn = l.userIn /\ l2.userOut = l.userOut
<1>1. OwnerOf[s] \in Makers
  BY OwnerAssumption
<1>2. out <= l.wallet[OwnerOf[s]] /\ out <= l.allowance[OwnerOf[s]] /\ out <= l.virtual[s]
  BY <1>1 DEF CanPull, Backing, Lesser, Ledger
<1>3. /\ l.wallet \in [Makers -> Nat] /\ l.allowance \in [Makers -> Nat]
      /\ l.proceeds \in [Makers -> Nat] /\ l.virtual \in [Strategies -> Nat]
      /\ l.hookIn \in Nat /\ l.hookOut \in Nat /\ l.hookAllowance \in Nat
  BY DEF Ledger
<1>4. [l.wallet EXCEPT ![OwnerOf[s]] = @ - out] \in [Makers -> Nat]
  BY <1>1, <1>2, <1>3
<1>5. [l.allowance EXCEPT ![OwnerOf[s]] = @ - out] \in [Makers -> Nat]
  BY <1>1, <1>2, <1>3
<1>6. [l.virtual EXCEPT ![s] = @ - out] \in [Strategies -> Nat]
  BY <1>2, <1>3
<1>7. [l.proceeds EXCEPT ![OwnerOf[s]] = @ + used] \in [Makers -> Nat]
  BY <1>1, <1>3
<1>8. l.hookIn - used \in Nat /\ l.hookAllowance - used \in Nat /\ l.hookOut + out \in Nat
  BY <1>3
<1>9. Exchanged(l, s, used, out) \in Ledger
  BY <1>4, <1>5, <1>6, <1>7, <1>8 DEF Exchanged, Ledger
<1> QED
  BY <1>9 DEF Exchanged, Ledger

LEMMA DivisionIsAmount ==
    ASSUME NEW a \in Nat, NEW b \in Nat, NEW c \in Nat, c > 0
    PROVE  (a * b) \div c \in Nat
<1>1. a * b \in Nat
  OBVIOUS
<1>2. \A x \in Nat : x \div c \in Nat
  OBVIOUS
<1> QED
  BY <1>1, <1>2

\* A slice never exceeds what is still to be placed.
LEMMA OfferIsAmount ==
    ASSUME TypeOK, pc \in {"place", "sweep"}, i <= N, totalDepth > 0
    PROVE  Offer \in Nat /\ Offer <= remaining
<1>1. i \in 1 .. N /\ depth[i] \in Nat
  BY DEF TypeOK, N
<1>2. ProRata(i) \in Nat
  BY <1>1, DivisionIsAmount DEF TypeOK, ProRata
<1> QED
  BY <1>2 DEF TypeOK, Offer, Lesser

-----------------------------------------------------------------------------
(* The initial states, and every end of a transaction.                      *)

LEMMA Initially == Init => IInv
<1> SUFFICES ASSUME Init PROVE IInv
  OBVIOUS
<1>1. led \in Ledger
  <2>1. PICK w \in [Makers -> WalletLevels], a \in [Makers -> AllowanceLevels],
             v \in [Strategies -> VirtualLevels],
             t \in [Strategies -> {NeverShipped, Shipped}], p \in PoolLevels :
          led = [wallet |-> w, allowance |-> a, proceeds |-> [m \in Makers |-> 0],
                 virtual |-> [s \in Strategies |-> IF t[s] = Shipped THEN v[s] ELSE 0],
                 tokensCount |-> t,
                 pmIn |-> p, pmOut |-> 0, hookIn |-> 0, hookOut |-> 0,
                 hookAllowance |-> 0, userIn |-> Budget, userOut |-> 0]
    BY DEF Init, InitialLedgers
  <2>2. w \in [Makers -> Nat] /\ a \in [Makers -> Nat]
    BY <2>1, TapAssumption
  <2>3. [s \in Strategies |-> IF t[s] = Shipped THEN v[s] ELSE 0] \in [Strategies -> Nat]
    BY <2>1, TapAssumption
  <2>4. t \in [Strategies -> {NeverShipped, Shipped, Docked}]
    BY <2>1
  <2>5. [m \in Makers |-> 0] \in [Makers -> Nat]
    OBVIOUS
  <2>6. p \in Nat /\ Budget \in Nat
    BY <2>1, TapAssumption
  <2> QED
    BY <2>1, <2>2, <2>3, <2>4, <2>5, <2>6 DEF Ledger
<1>2. Clean(led)
  BY DEF Init, InitialLedgers, Clean
<1>3. skipped \in BOOLEAN
  BY DEF Init, NoSwap
<1>4. TypeOK
  BY <1>1, <1>3, EmptyDepth DEF Init, NoSwap, TypeOK, N
<1> QED
  BY <1>1, <1>2, <1>4 DEF Init, NoSwap, IInv, Resting, Starting, Placing, Paying, InSwap, NoOpenBooks

LEMMA EndKeeps ==
    ASSUME NEW l \in Ledger, Clean(l),
           NEW how \in (Reverts \cup {"none", "filled"}) \ {"CurrencyNotSettled", "TransferFailed"},
           End(l, how)
    PROVE  IInv'
<1>1. skipped' \in BOOLEAN
  BY DEF End
<1>2. TypeOK'
  BY <1>1, EmptyDepth DEF End, TypeOK, N
<1> QED
  BY <1>2 DEF End, IInv, Resting, Starting, Placing, Paying, InSwap, NoOpenBooks, Clean

LEMMA RevertKeeps ==
    ASSUME IInv,
           NEW why \in Reverts \ {"CurrencyNotSettled", "TransferFailed"},
           Revert(why)
    PROVE  IInv'
BY EndKeeps DEF Revert, IInv, TypeOK

LEMMA ElsewhereKeeps ==
    ASSUME IInv, NEW l \in Ledger, Clean(l), Elsewhere(l)
    PROVE  IInv'
<1>1. TypeOK'
  BY DEF Elsewhere, IInv, TypeOK, ctx, N
<1> QED
  BY <1>1 DEF Elsewhere, ctx, IInv, Resting, Starting, Placing, Paying, InSwap, NoOpenBooks, Clean

-----------------------------------------------------------------------------
(* One lemma per part of the next-state relation.                           *)

LEMMA MakersKeep == IInv /\ Makers_ => IInv'
<1> SUFFICES ASSUME IInv, Makers_ PROVE IInv'
  OBVIOUS
<1>0. pc = "idle" /\ led \in Ledger /\ Clean(led)
  BY DEF IInv, TypeOK, Resting, Makers_, MakerMovesFunds, MakerApproves, MakerShips,
         MakerDocks, OtherPoolsMove, Elsewhere
<1>1. ASSUME NEW m \in Makers, MakerMovesFunds(m) PROVE IInv'
  <2>1. PICK w \in WalletLevels : Elsewhere([led EXCEPT !.wallet[m] = w])
    BY <1>1 DEF MakerMovesFunds
  <2>2. [led EXCEPT !.wallet[m] = w] \in Ledger /\ Clean([led EXCEPT !.wallet[m] = w])
    BY <1>0, <2>1, TapAssumption DEF Ledger, Clean
  <2> QED
    BY <2>1, <2>2, ElsewhereKeeps
<1>2. ASSUME NEW m \in Makers, MakerApproves(m) PROVE IInv'
  <2>1. PICK a \in AllowanceLevels : Elsewhere([led EXCEPT !.allowance[m] = a])
    BY <1>2 DEF MakerApproves
  <2>2. [led EXCEPT !.allowance[m] = a] \in Ledger /\ Clean([led EXCEPT !.allowance[m] = a])
    BY <1>0, <2>1, TapAssumption DEF Ledger, Clean
  <2> QED
    BY <2>1, <2>2, ElsewhereKeeps
<1>3. ASSUME NEW s \in Strategies, MakerShips(s) PROVE IInv'
  <2>1. PICK v \in VirtualLevels : Elsewhere(ShippedTo(led, s, v))
    BY <1>3 DEF MakerShips
  <2>2. ShippedTo(led, s, v) \in Ledger /\ Clean(ShippedTo(led, s, v))
    BY <1>0, <2>1, TapAssumption DEF Ledger, Clean, ShippedTo
  <2> QED
    BY <2>1, <2>2, ElsewhereKeeps
<1>4. ASSUME NEW s \in Strategies, MakerDocks(s) PROVE IInv'
  <2>1. DockedIn(led, s) \in Ledger /\ Clean(DockedIn(led, s))
    BY <1>0 DEF Ledger, Clean, DockedIn
  <2> QED
    BY <1>4, <2>1, ElsewhereKeeps DEF MakerDocks
<1>5. ASSUME OtherPoolsMove PROVE IInv'
  <2>1. PICK p \in PoolLevels : Elsewhere([led EXCEPT !.pmIn = p])
    BY <1>5 DEF OtherPoolsMove
  <2>2. [led EXCEPT !.pmIn = p] \in Ledger /\ Clean([led EXCEPT !.pmIn = p])
    BY <1>0, <2>1, TapAssumption DEF Ledger, Clean
  <2> QED
    BY <2>1, <2>2, ElsewhereKeeps
<1> QED
  BY <1>1, <1>2, <1>3, <1>4, <1>5 DEF Makers_

LEMMA CallKeeps == IInv /\ AnyCall => IInv'
<1> SUFFICES ASSUME IInv, AnyCall PROVE IInv'
  OBVIOUS
<1>1. CASE RejectCall
  <2>1. led \in Ledger /\ Clean(led)
    BY <1>1 DEF RejectCall, IInv, TypeOK, Resting
  <2> QED
    BY <1>1, <2>1, EndKeeps DEF RejectCall, Reverts
<1>2. ASSUME NEW amountIn \in Nat, NEW least \in Nat, NEW candidates \in Seq(Strategies),
             Swap(amountIn, least, candidates)
      PROVE  IInv'
  <2>1. candidates \in Seq(Strategies) /\ Len(candidates) \in Nat
        /\ amountIn \in Nat /\ least \in Nat
    BY TapAssumption
  <2>2. TypeOK'
    BY <1>2, <2>1 DEF Swap, Goto, IInv, TypeOK, N
  <2> QED
    BY <1>2, <2>2 DEF Swap, Goto, IInv, TypeOK, Resting, Starting, Placing, Paying,
                      InSwap, NoOpenBooks, Clean, Resting
<1> QED
  BY <1>1, <1>2 DEF AnyCall

LEMMA ReadDepthKeeps == IInv /\ ReadDepth => IInv'
<1> SUFFICES ASSUME IInv, ReadDepth PROVE IInv'
  OBVIOUS
<1>1. i \in 1 .. N /\ route[i] \in Strategies /\ N \in Nat
  BY DEF IInv, TypeOK, ReadDepth, N
<1>2. QuotableDepth(led, route[i]) \in Nat
  BY <1>1, DepthIsAmount DEF IInv, TypeOK
<1>3. depth' \in [1 .. N -> Nat] /\ depth'[i] \in Nat
  BY <1>1, <1>2 DEF ReadDepth, IInv, TypeOK
<1>4. TypeOK'
  BY <1>1, <1>3 DEF ReadDepth, IInv, TypeOK, N
<1> QED
  BY <1>4 DEF ReadDepth, IInv, Resting, Starting, Placing, Paying, InSwap, NoOpenBooks, Clean

LEMMA AfterDepthKeeps == IInv /\ AfterDepth => IInv'
<1> SUFFICES ASSUME IInv, AfterDepth PROVE IInv'
  OBVIOUS
<1>1. CASE Revert("NoSolventMaker") \/ Revert("CouldNotFillEntireSwap")
  BY <1>1, RevertKeeps DEF Reverts
<1>2. CASE /\ totalDepth > 0 /\ dust' = requested /\ Goto("dust")
           /\ UNCHANGED <<led, snap, route, requested, minOut, depth, totalDepth,
                          remaining, unplaced, totalOut, borrowed, skipped, outcome>>
  <2>1. TypeOK'
    BY <1>2 DEF Goto, IInv, TypeOK, N
  <2> QED
    BY <1>2, <2>1 DEF AfterDepth, Goto, IInv, Resting, Starting, Placing, Paying, InSwap,
                      NoOpenBooks, Clean
<1> QED
  BY <1>1, <1>2 DEF AfterDepth

LEMMA CountDustKeeps == IInv /\ CountDust => IInv'
<1> SUFFICES ASSUME IInv, CountDust PROVE IInv'
  OBVIOUS
<1>1. CASE Revert("Underflow")
  BY <1>1, RevertKeeps DEF Reverts
<1>2. CASE /\ i <= N /\ dust >= ProRata(i) /\ dust' = dust - ProRata(i) /\ i' = i + 1
           /\ UNCHANGED <<led, snap, pc, route, requested, minOut, depth, totalDepth,
                          remaining, unplaced, totalOut, borrowed, skipped, outcome>>
  <2>1. i \in 1 .. N /\ depth[i] \in Nat /\ N \in Nat
    BY <1>2 DEF IInv, TypeOK, N
  <2>2. ProRata(i) \in Nat
    BY <2>1, DivisionIsAmount DEF CountDust, IInv, TypeOK, ProRata
  <2>3. dust' \in Nat
    BY <1>2, <2>2 DEF IInv, TypeOK
  <2>4. TypeOK'
    BY <1>2, <2>1, <2>3 DEF IInv, TypeOK, N
  <2> QED
    BY <1>2, <2>4 DEF CountDust, IInv, Resting, Starting, Placing, Paying, InSwap,
                      NoOpenBooks, Clean
<1>3. CASE /\ Goto("place")
           /\ UNCHANGED <<led, snap, route, requested, minOut, depth, totalDepth, dust,
                          remaining, unplaced, totalOut, borrowed, skipped, outcome>>
  <2>1. TypeOK'
    BY <1>3 DEF Goto, IInv, TypeOK, N
  <2>2. pc = "dust"
    BY DEF CountDust
  <2>3. led.hookIn = 0 /\ led.hookOut = 0 /\ led = snap /\ remaining = requested
    BY <2>2 DEF IInv, Starting, Clean
  <2>4. Placing'
    BY <1>3, <2>2, <2>3 DEF Goto, IInv, TypeOK, Starting, Placing, FillAccounts, Untouched,
                          InSwap, FilledIn, Ledger
  <2> QED
    BY <1>3, <2>1, <2>2, <2>4 DEF Goto, IInv, Resting, Starting, Paying, NoOpenBooks, Clean
<1>4. i <= N /\ ~(dust < ProRata(i)) => dust >= ProRata(i)
  <2> SUFFICES ASSUME i <= N PROVE ~(dust < ProRata(i)) => dust >= ProRata(i)
    OBVIOUS
  <2>1. i \in 1 .. N /\ depth[i] \in Nat
    BY DEF IInv, TypeOK, N
  <2>2. ProRata(i) \in Nat
    BY <2>1, DivisionIsAmount DEF CountDust, IInv, TypeOK, ProRata
  <2> QED
    BY <2>2 DEF IInv, TypeOK
<1> QED
  BY <1>1, <1>2, <1>3, <1>4 DEF CountDust

-----------------------------------------------------------------------------
(* The fills.                                                               *)

LEMMA FillContext ==
    ASSUME IInv, Filling
    PROVE  /\ i \in 1 .. N /\ N \in Nat
           /\ route[i] \in Strategies
           /\ Offer \in Nat /\ Offer <= remaining
           /\ InSwap /\ FillAccounts /\ Untouched
<1>1. i \in 1 .. N /\ N \in Nat
  BY DEF IInv, TypeOK, Filling, N
<1>2. route[i] \in Strategies
  BY <1>1 DEF IInv, TypeOK, N
<1>3. Offer \in Nat /\ Offer <= remaining
  BY OfferIsAmount DEF IInv, Filling
<1> QED
  BY <1>1, <1>2, <1>3 DEF IInv, Placing, Filling, InSwap

\* Borrowing a slice the PoolManager holds keeps every balance an amount.
LEMMA BorrowKeepsAmounts ==
    ASSUME led \in Ledger, NEW x \in Nat, x <= led.pmIn
    PROVE  /\ Borrow(x) \in Ledger
           /\ Borrow(x).hookIn = led.hookIn + x
           /\ Borrow(x).hookAllowance = x
           /\ Borrow(x).hookOut = led.hookOut
           /\ Borrow(x).pmIn = led.pmIn - x
           /\ Borrow(x).pmOut = led.pmOut
           /\ Borrow(x).userIn = led.userIn
           /\ Borrow(x).userOut = led.userOut
           /\ Borrow(x).virtual = led.virtual
<1>1. led.pmIn - x \in Nat /\ led.hookIn + x \in Nat
  BY DEF Ledger
<1>2. Borrow(x) \in Ledger
  BY <1>1 DEF Borrow, Ledger
<1> QED
  BY <1>1, <1>2 DEF Borrow, Ledger

LEMMA SkipsKeep == IInv /\ (PassOver \/ SkipOnQuote) => IInv'
<1> SUFFICES ASSUME IInv, PassOver \/ SkipOnQuote PROVE IInv'
  OBVIOUS
<1>1. Filling
  BY DEF PassOver, SkipOnQuote
<1>2. i' = i + 1 /\ skipped' \in BOOLEAN
      /\ UNCHANGED <<led, remaining, unplaced, totalOut, borrowed, Unaffected>>
  BY DEF PassOver, SkipOnQuote, IInv, TypeOK
<1>3. TypeOK'
  BY <1>1, <1>2, FillContext DEF IInv, TypeOK, Unaffected, N
<1> QED
  BY <1>1, <1>2, <1>3 DEF Unaffected, IInv, Resting, Starting, Placing, Paying, InSwap,
                          FillAccounts, Untouched, FilledIn, NoOpenBooks, Clean

LEMMA TakeFailsKeeps == IInv /\ TakeFails => IInv'
BY RevertKeeps DEF TakeFails, Reverts

LEMMA FillKeeps == IInv /\ Fill => IInv'
<1> SUFFICES ASSUME IInv, Fill PROVE IInv'
  OBVIOUS
<1>1. Filling
  BY DEF Fill, Quoted
<1>2. PICK r \in SwapResults(route[i], Offer) :
        /\ led' = Exchanged(Borrow(Offer), route[i], r.used, r.out)
        /\ remaining' = remaining - r.used
        /\ unplaced' = unplaced + (Offer - r.used)
        /\ totalOut' = totalOut + r.out
  BY DEF Fill
<1>3. led \in Ledger /\ Offer <= led.pmIn /\ Offer \in Nat /\ Offer <= remaining
  BY <1>1, FillContext DEF IInv, TypeOK, Fill, Ledger
<1>4. r.used \in Nat /\ r.used <= Offer /\ r.out \in Nat /\ CanPull(led, route[i], r.out)
  <2>1. CASE route[i] \notin Faithful
    BY <2>1, <1>3 DEF SwapResults, Ledger
  <2>2. CASE route[i] \in Faithful
    <3>0. route[i] \in Strategies
      BY <1>1, FillContext
    <3>1. Offer \div Rate[route[i]] \in Nat
      BY <1>3, <3>0, TapAssumption
    <3> QED
      BY <2>2, <3>1, <1>3 DEF SwapResults
  <2> QED
    BY <2>1, <2>2
<1>5. CanPull(Borrow(Offer), route[i], r.out)
  BY <1>3, <1>4 DEF CanPull, Borrow, Backing, IsLive, Ledger
<1>6. /\ led' \in Ledger
      /\ led'.hookIn = (led.hookIn + Offer) - r.used
      /\ led'.hookOut = led.hookOut + r.out
      /\ led'.pmIn = led.pmIn - Offer /\ led'.pmOut = led.pmOut
      /\ led'.userIn = led.userIn /\ led'.userOut = led.userOut
  <2>1. route[i] \in Strategies
    BY <1>1, FillContext
  <2>2. Borrow(Offer) \in Ledger /\ r.used <= Borrow(Offer).hookIn
        /\ r.used <= Borrow(Offer).hookAllowance
    BY <1>3, <1>4, BorrowKeepsAmounts DEF Ledger
  <2>3. /\ led' \in Ledger
        /\ led'.hookIn = Borrow(Offer).hookIn - r.used
        /\ led'.hookOut = Borrow(Offer).hookOut + r.out
        /\ led'.pmIn = Borrow(Offer).pmIn /\ led'.pmOut = Borrow(Offer).pmOut
        /\ led'.userIn = Borrow(Offer).userIn /\ led'.userOut = Borrow(Offer).userOut
    BY <1>2, <1>4, <1>5, <2>1, <2>2, ExchangeKeepsAmounts
  <2>4. /\ Borrow(Offer).hookIn = led.hookIn + Offer
        /\ Borrow(Offer).hookOut = led.hookOut
        /\ Borrow(Offer).pmIn = led.pmIn - Offer /\ Borrow(Offer).pmOut = led.pmOut
        /\ Borrow(Offer).userIn = led.userIn /\ Borrow(Offer).userOut = led.userOut
    BY <1>3, BorrowKeepsAmounts
  <2> QED
    BY <2>3, <2>4
<1>7. TypeOK'
  <2>1. remaining' \in Nat /\ unplaced' \in Nat /\ totalOut' \in Nat /\ borrowed' \in Int
    <3>1. remaining \in Nat /\ unplaced \in Nat /\ totalOut \in Nat /\ borrowed \in Int
      BY DEF IInv, TypeOK
    <3>2. borrowed' = borrowed + Offer
      BY DEF Fill
    <3> QED
      BY <1>2, <1>3, <1>4, <3>1, <3>2
  <2>2. i' \in 1 .. N + 1
    BY <1>1, FillContext DEF Fill
  <2> QED
    BY <1>6, <2>1, <2>2 DEF Fill, IInv, TypeOK, Unaffected, N
<1>8. Placing'
  <2>1. /\ led.hookIn \in Nat /\ led.hookOut \in Nat /\ led.pmIn \in Nat
    BY <1>3 DEF Ledger
  <2>2. snap.pmIn \in Nat /\ requested \in Nat /\ remaining \in Nat /\ unplaced \in Nat
        /\ totalOut \in Nat /\ borrowed \in Int
    BY DEF IInv, TypeOK, Ledger
  <2>3. InSwap /\ FillAccounts /\ Untouched
    BY <1>1, FillContext
  <2>4. /\ borrowed' = borrowed + Offer
        /\ UNCHANGED <<snap, pc, requested>>
    BY DEF Fill, Unaffected
  <2>5. /\ remaining <= requested /\ led.hookIn = unplaced /\ led.hookOut = totalOut
        /\ borrowed = (requested - remaining) + unplaced
        /\ led.pmIn + borrowed = snap.pmIn
    BY <2>3 DEF FillAccounts, FilledIn
  <2>6. led'.hookIn = unplaced' /\ led'.hookOut = totalOut' /\ remaining' <= requested
    BY <1>2, <1>3, <1>4, <1>6, <2>1, <2>2, <2>5
  <2>7. borrowed' = (requested - remaining') + unplaced'
    BY <1>2, <1>3, <1>4, <2>2, <2>4, <2>5
  <2>8. led'.pmIn + borrowed' = snap.pmIn
    BY <1>3, <1>6, <2>1, <2>2, <2>4, <2>5
  <2>9. FillAccounts'
    BY <2>4, <2>6, <2>7, <2>8 DEF FillAccounts, FilledIn
  <2>10. Untouched'
    BY <1>6, <2>3, <2>4 DEF Untouched
  <2> QED
    BY <2>9, <2>10 DEF Placing
<1> QED
  BY <1>1, <1>7, <1>8 DEF Fill, Unaffected, Filling, IInv, Resting, Starting, Paying,
                          NoOpenBooks, Clean

LEMMA SkipOnSwapKeeps == IInv /\ SkipOnSwap => IInv'
<1> SUFFICES ASSUME IInv, SkipOnSwap PROVE IInv'
  OBVIOUS
<1>1. Filling
  BY DEF SkipOnSwap, Quoted
<1>2. led \in Ledger /\ Offer <= led.pmIn /\ Offer \in Nat
  BY <1>1, FillContext DEF IInv, TypeOK, SkipOnSwap, Ledger
<1>3. /\ led' \in Ledger
      /\ led'.hookIn = led.hookIn + Offer /\ led'.hookOut = led.hookOut
      /\ led'.pmIn = led.pmIn - Offer /\ led'.pmOut = led.pmOut
      /\ led'.userIn = led.userIn /\ led'.userOut = led.userOut
  BY <1>2, BorrowKeepsAmounts DEF SkipOnSwap
<1>4. TypeOK'
  BY <1>1, <1>2, <1>3, FillContext DEF SkipOnSwap, Keep, IInv, TypeOK, Unaffected, N
<1>5. Placing'
  <2>1. /\ led.hookIn \in Nat /\ led.hookOut \in Nat /\ led.pmIn \in Nat
    BY <1>2 DEF Ledger
  <2>2. snap.pmIn \in Nat /\ requested \in Nat /\ remaining \in Nat /\ unplaced \in Nat
        /\ totalOut \in Nat /\ borrowed \in Int
    BY DEF IInv, TypeOK, Ledger
  <2>3. InSwap /\ FillAccounts /\ Untouched
    BY <1>1, FillContext
  <2> QED
    BY <1>2, <1>3, <2>1, <2>2, <2>3
       DEF SkipOnSwap, Keep, Unaffected, Placing, InSwap, FillAccounts, Untouched, FilledIn
<1> QED
  BY <1>1, <1>4, <1>5 DEF SkipOnSwap, Unaffected, Filling, IInv, Resting, Starting, Paying,
                          NoOpenBooks, Clean

LEMMA NextPassKeeps == IInv /\ NextPass => IInv'
<1> SUFFICES ASSUME IInv, NextPass PROVE IInv'
  OBVIOUS
<1>1. TypeOK'
  BY DEF NextPass, Onwards, Goto, IInv, TypeOK, N
<1> QED
  BY <1>1 DEF NextPass, Onwards, Goto, IInv, Resting, Starting, Placing, Paying, InSwap,
              FillAccounts, Untouched, FilledIn, NoOpenBooks, Clean

-----------------------------------------------------------------------------
(* Settlement.                                                              *)

LEMMA SettledLedger ==
    ASSUME NEW l \in Ledger, NEW a \in Nat, NEW b \in Nat, NEW c \in Nat, NEW d \in Nat
    PROVE  [l EXCEPT !.hookAllowance = 0, !.hookIn = a, !.pmIn = b,
                     !.hookOut = c, !.pmOut = d] \in Ledger
BY DEF Ledger

LEMMA SettleHookKeeps == IInv /\ SettleHook => IInv'
<1> SUFFICES ASSUME IInv, SettleHook PROVE IInv'
  OBVIOUS
<1>1. /\ pc = "settle" /\ led \in Ledger /\ snap \in Ledger
      /\ FillAccounts /\ Untouched /\ InSwap
  BY DEF IInv, TypeOK, SettleHook, Placing, InSwap
<1>2. /\ led.hookIn \in Nat /\ led.hookOut \in Nat /\ led.pmIn \in Nat /\ led.pmOut \in Nat
      /\ snap.pmIn \in Nat /\ requested \in Nat /\ remaining \in Nat /\ unplaced \in Nat
      /\ totalOut \in Nat /\ borrowed \in Int
  BY <1>1 DEF IInv, TypeOK, Ledger
<1>3. CASE SettleError # "none" /\ Revert(SettleError)
  <2>1. SettleError \in {"NoSolventMaker", "CouldNotFillEntireSwap", "AmountOverflowsDelta"}
    BY <1>1, <1>2, <1>3 DEF SettleError, FillAccounts
  <2> QED
    BY <1>3, <2>1, RevertKeeps DEF Reverts
<1>4. CASE /\ SettleError = "none"
           /\ led' = HandBack
           /\ borrowed' = borrowed - unplaced - FilledIn
           /\ Goto("pay")
           /\ UNCHANGED <<snap, route, requested, minOut, depth, totalDepth, dust,
                          remaining, unplaced, totalOut, skipped, outcome>>
  <2>1. /\ totalOut > 0 /\ remaining = 0
        /\ requested <= MaxDelta /\ totalOut <= MaxDelta
    BY <1>2, <1>4, TapAssumption DEF SettleError, Placed, FilledIn
  <2>2. led.hookIn - unplaced = 0 /\ led.hookOut - totalOut = 0
        /\ led.pmIn + unplaced \in Nat /\ led.pmOut + totalOut \in Nat
    BY <1>1, <1>2 DEF FillAccounts
  <2>3. /\ led' \in Ledger /\ Clean(led')
        /\ led'.pmIn = led.pmIn + unplaced /\ led'.pmOut = led.pmOut + totalOut
        /\ led'.userIn = led.userIn /\ led'.userOut = led.userOut
    <3>1. HandBack \in Ledger
      BY <1>1, <2>2, SettledLedger DEF HandBack
    <3> QED
      BY <1>1, <1>4, <2>2, <3>1 DEF HandBack, Ledger, Clean
  <2>4. borrowed' = 0
    BY <1>1, <1>2, <1>4 DEF FillAccounts, FilledIn
  <2>5. TypeOK'
    BY <1>4, <2>3, <2>4 DEF Goto, IInv, TypeOK, N
  <2>6. Paying'
    BY <1>1, <1>2, <1>4, <2>1, <2>3, <2>4 DEF Goto, Paying, FillAccounts, Untouched, FilledIn
  <2> QED
    BY <1>1, <1>4, <2>5, <2>6 DEF Goto, IInv, Resting, Starting, Placing, InSwap,
                                  NoOpenBooks, Clean
<1> QED
  BY <1>3, <1>4 DEF SettleHook

LEMMA PayKeeps == IInv /\ Pay => IInv'
<1> SUFFICES ASSUME IInv, Pay PROVE IInv'
  OBVIOUS
<1>1. /\ pc = "pay" /\ led \in Ledger /\ Clean(led) /\ borrowed = 0 /\ remaining = 0
      /\ led.pmOut = snap.pmOut + totalOut
  BY DEF IInv, TypeOK, Pay, Paying
<1>2. /\ led.userIn \in Nat /\ led.userOut \in Nat /\ led.pmIn \in Nat /\ snap.pmOut \in Nat
      /\ requested \in Nat /\ totalOut \in Nat
  BY <1>1 DEF IInv, TypeOK, Ledger
<1>3. CASE PayError # "none" /\ Revert(PayError)
  <2>1. PayError \in {"SwapperCannotPay", "TooLittleReceived"}
    BY <1>1, <1>3 DEF PayError
  <2> QED
    BY <1>3, <2>1, RevertKeeps DEF Reverts
<1>4. CASE PayError = "none" /\ End(Paid, "filled")
  <2>1. FilledIn = requested /\ led.userIn >= requested
    BY <1>1, <1>2, <1>4 DEF PayError, FilledIn
  <2>2. /\ led.userIn - requested \in Nat /\ led.pmIn + requested \in Nat
        /\ led.pmOut - totalOut \in Nat /\ led.userOut + totalOut \in Nat
    BY <1>1, <1>2, <2>1
  <2>3. Paid \in Ledger /\ Clean(Paid)
    BY <1>1, <2>1, <2>2 DEF Paid, Ledger, Clean
  <2> QED
    BY <1>4, <2>3, EndKeeps
<1> QED
  BY <1>3, <1>4 DEF Pay

LEMMA StutterKeeps == IInv /\ UNCHANGED vars => IInv'
BY DEF vars, ctx, IInv, TypeOK, Resting, Starting, Placing, Paying, InSwap, FillAccounts,
       Untouched, FilledIn, NoOpenBooks, Clean, N

LEMMA AnyKeeps == IInv /\ [AnyNext]_vars => IInv'
BY MakersKeep, CallKeeps, ReadDepthKeeps, AfterDepthKeeps, CountDustKeeps, SkipsKeep,
   TakeFailsKeeps, FillKeeps, SkipOnSwapKeeps, NextPassKeeps, SettleHookKeeps, PayKeeps,
   StutterKeeps DEF AnyNext, Execute

LEMMA AnyInductive == AnySpec => []IInv
BY AnyKeeps, Initially, PTL DEF AnySpec

-----------------------------------------------------------------------------
(* What the invariant gives.                                                *)

LEMMA AnyTypeCorrect == AnySpec => []TypeOK
<1>1. IInv => TypeOK
  BY DEF IInv
<1> QED
  BY <1>1, AnyInductive, PTL

LEMMA AnyNothingStranded == AnySpec => []HookKeepsNothing
<1>1. IInv => HookKeepsNothing
  BY DEF IInv, Resting, HookKeepsNothing, Clean
<1> QED
  BY <1>1, AnyInductive, PTL

LEMMA AnyAccountsAgree == AnySpec => []FillAccounts
<1>1. IInv => FillAccounts
  BY DEF IInv, Placing, FillAccounts
<1> QED
  BY <1>1, AnyInductive, PTL

\* An end of the transaction is a revert or the payment.
LEMMA EndsAre ==
    ASSUME IInv, [AnyNext]_vars, pc # "idle", pc' = "idle"
    PROVE  \/ \E why \in Reverts : Revert(why)
           \/ Pay /\ PayError = "none" /\ End(Paid, "filled")
<1>1. Execute
  BY DEF AnyNext, Makers_, MakerMovesFunds, MakerApproves, MakerShips, MakerDocks,
         OtherPoolsMove, Elsewhere, AnyCall, RejectCall, Swap, vars
<1>2. CASE AfterDepth \/ CountDust \/ TakeFails
  BY <1>2 DEF AfterDepth, CountDust, TakeFails, Goto, Reverts
<1>3. CASE SettleHook
  BY <1>3 DEF SettleHook, SettleError, Goto, Reverts
<1>4. CASE Pay
  BY <1>4 DEF Pay, PayError, Reverts
<1>5. CASE ReadDepth \/ PassOver \/ SkipOnQuote \/ Fill \/ SkipOnSwap \/ NextPass
  BY <1>5 DEF ReadDepth, PassOver, SkipOnQuote, Fill, SkipOnSwap, NextPass, Onwards, Goto, Unaffected
<1> QED
  BY <1>1, <1>2, <1>3, <1>4, <1>5 DEF Execute

LEMMA AnyWholeOrNothing == AnySpec => AllOrNothing
<1>1. ASSUME IInv, [AnyNext]_vars, pc # "idle", pc' = "idle"
      PROVE  IF outcome' = "filled"
               THEN /\ led'.userIn = snap.userIn - requested
                    /\ led'.userOut >= snap.userOut + minOut
                    /\ led'.pmIn = snap.pmIn
                    /\ led'.pmOut = snap.pmOut
               ELSE led' = snap
  <2>1. CASE \E why \in Reverts : Revert(why)
    BY <2>1 DEF Revert, End, Reverts
  <2>2. CASE Pay /\ PayError = "none" /\ End(Paid, "filled")
    <3>1. /\ remaining = 0 /\ led.userIn = snap.userIn /\ led.userOut = snap.userOut
          /\ led.pmIn + requested = snap.pmIn /\ led.pmOut = snap.pmOut + totalOut
          /\ led \in Ledger /\ snap \in Ledger
          /\ requested \in Nat /\ totalOut \in Nat /\ minOut \in Nat
      BY <1>1, <2>2 DEF Pay, IInv, Paying, TypeOK
    <3>2. /\ Paid.userIn = led.userIn - requested
          /\ Paid.userOut = led.userOut + totalOut
          /\ Paid.pmIn = led.pmIn + requested
          /\ Paid.pmOut = led.pmOut - totalOut
      BY <3>1 DEF Paid, FilledIn, Ledger
    <3>3. Paid.userOut - snap.userOut >= minOut
      BY <2>2 DEF PayError, Received
    <3>4. /\ led.userIn \in Nat /\ led.userOut \in Nat /\ led.pmIn \in Nat
          /\ snap.pmIn \in Nat /\ snap.pmOut \in Nat /\ snap.userOut \in Nat
      BY <3>1 DEF Ledger
    <3> QED
      BY <2>2, <3>1, <3>2, <3>3, <3>4 DEF End
  <2>3. (\E why \in Reverts : Revert(why)) \/ (Pay /\ PayError = "none" /\ End(Paid, "filled"))
    BY <1>1, EndsAre
  <2> QED
    BY <2>1, <2>2, <2>3
<1>2. IInv /\ [AnyNext]_vars =>
        [(pc # "idle" /\ pc' = "idle") =>
           IF outcome' = "filled"
             THEN /\ led'.userIn = snap.userIn - requested
                  /\ led'.userOut >= snap.userOut + minOut
                  /\ led'.pmIn = snap.pmIn
                  /\ led'.pmOut = snap.pmOut
             ELSE led' = snap]_vars
  BY <1>1
<1> QED
  BY <1>2, AnyInductive, PTL DEF AnySpec, AllOrNothing

-----------------------------------------------------------------------------
(* The implementation of AtomicSwap.                                        *)

\* While a transaction runs, what is committed is not touched.
LEMMA SnapStays == ASSUME IInv, [AnyNext]_vars, pc' # "idle" PROVE snap' = snap
<1>1. CASE Makers_ \/ RejectCall
  BY <1>1 DEF Makers_, MakerMovesFunds, MakerApproves, MakerShips, MakerDocks, OtherPoolsMove,
              Elsewhere, RejectCall, End
<1>2. CASE \E amountIn \in Nat, least \in Nat, candidates \in Seq(Strategies) : Swap(amountIn, least, candidates)
  BY <1>2 DEF Swap
<1>3. CASE ReadDepth \/ AfterDepth \/ CountDust
  BY <1>3 DEF ReadDepth, AfterDepth, CountDust, Revert, End
<1>4. CASE PassOver \/ SkipOnQuote \/ TakeFails \/ Fill \/ SkipOnSwap \/ NextPass
  BY <1>4 DEF PassOver, SkipOnQuote, TakeFails, Fill, SkipOnSwap, NextPass, Onwards, Unaffected, Revert, End
<1>5. CASE SettleHook \/ Pay
  BY <1>5 DEF SettleHook, Pay, Revert, End
<1>6. CASE UNCHANGED vars
  BY <1>6 DEF vars
<1> QED
  BY <1>1, <1>2, <1>3, <1>4, <1>5, <1>6 DEF AnyNext, AnyCall, Execute

\* The abstract state of a ledger.
Same(l, k) ==
    /\ l.userIn = k.userIn /\ l.userOut = k.userOut /\ l.pmIn = k.pmIn /\ l.pmOut = k.pmOut
    /\ l.hookIn = k.hookIn /\ l.hookOut = k.hookOut /\ l.hookAllowance = k.hookAllowance

\* The swapper paid a and got b.
Traded(l, k, a, b) ==
    /\ k.userIn = l.userIn - a /\ k.userOut = l.userOut + b
    /\ k.pmIn = l.pmIn /\ k.pmOut = l.pmOut
    /\ k.hookIn = l.hookIn /\ k.hookOut = l.hookOut /\ k.hookAllowance = l.hookAllowance

\* Between transactions nobody reaches what a swap promises, but for the
\* PoolManager's stock.
LEMMA RestSteps ==
    ASSUME IInv, [AnyNext]_vars, pc = "idle", pc' = "idle"
    PROVE  \/ Same(led, led')
           \/ Same([led EXCEPT !.pmIn = led'.pmIn], led')
<1>1. led \in Ledger
  BY DEF IInv, TypeOK
<1>2. CASE Makers_
  <2>1. ASSUME NEW m \in Makers, MakerMovesFunds(m) \/ MakerApproves(m) PROVE Same(led, led')
    BY <1>1, <2>1 DEF MakerMovesFunds, MakerApproves, Elsewhere, Same, Ledger
  <2>2. ASSUME NEW s \in Strategies, MakerShips(s) \/ MakerDocks(s) PROVE Same(led, led')
    BY <1>1, <2>2 DEF MakerShips, MakerDocks, ShippedTo, DockedIn, Elsewhere, Same, Ledger
  <2>3. ASSUME OtherPoolsMove PROVE Same([led EXCEPT !.pmIn = led'.pmIn], led')
    <3>1. PICK p \in PoolLevels : led' = [led EXCEPT !.pmIn = p]
      BY <2>3 DEF OtherPoolsMove, Elsewhere
    <3> QED
      BY <1>1, <3>1 DEF Same, Ledger
  <2> QED
    BY <1>2, <2>1, <2>2, <2>3 DEF Makers_
<1>3. CASE RejectCall
  BY <1>3 DEF RejectCall, End, Same
<1>4. CASE UNCHANGED vars
  BY <1>4 DEF vars, Same
<1>5. Makers_ \/ RejectCall \/ UNCHANGED vars
  BY DEF AnyNext, AnyCall, Swap, Goto, Execute, ReadDepth, AfterDepth, CountDust, PassOver, SkipOnQuote,
         TakeFails, Quoted, Fill, SkipOnSwap, Filling, NextPass, SettleHook, Pay
<1> QED
  BY <1>2, <1>3, <1>4, <1>5

\* Seen from outside, a step is a swap as a whole, a move of other pools, or nothing.
LEMMA CommittedSteps ==
    ASSUME IInv, IInv', [AnyNext]_vars
    PROVE  \/ Same(Committed, Committed')
           \/ Same([Committed EXCEPT !.pmIn = Committed'.pmIn], Committed')
           \/ \E a, b \in 1 .. MaxDelta : Traded(Committed, Committed', a, b)
<1>1. pc = "idle" => led = snap
  BY DEF IInv, Resting
<1>2. CASE pc = "idle" /\ pc' = "idle"
  BY <1>2, RestSteps DEF Committed
<1>3. CASE pc' # "idle"
  BY <1>1, <1>3, SnapStays DEF Committed, Same
<1>4. CASE pc # "idle" /\ pc' = "idle"
  <2>1. Committed = snap /\ Committed' = led'
    BY <1>4 DEF Committed
  <2>2. CASE \E why \in Reverts : Revert(why)
    BY <2>1, <2>2 DEF Revert, End, Same
  <2>3. CASE Pay /\ PayError = "none" /\ End(Paid, "filled")
    <3>1. /\ Clean(led) /\ remaining = 0 /\ totalOut > 0 /\ totalOut <= MaxDelta /\ requested <= MaxDelta
          /\ requested > 0 /\ led.userIn = snap.userIn /\ led.userOut = snap.userOut
          /\ led.pmIn + requested = snap.pmIn /\ led.pmOut = snap.pmOut + totalOut
          /\ led \in Ledger /\ snap \in Ledger /\ Clean(snap) /\ requested \in Nat /\ totalOut \in Nat
      BY <2>3 DEF Pay, IInv, Paying, TypeOK
    <3>2. led' = Paid /\ FilledIn = requested
      BY <2>3, <3>1 DEF End, FilledIn
    <3>3. /\ Paid.userIn = led.userIn - requested /\ Paid.userOut = led.userOut + totalOut
          /\ Paid.pmIn = led.pmIn + requested /\ Paid.pmOut = led.pmOut - totalOut
          /\ Paid.hookIn = led.hookIn /\ Paid.hookOut = led.hookOut /\ Paid.hookAllowance = led.hookAllowance
      BY <3>1, <3>2 DEF Paid, Ledger
    <3>4. snap.pmOut \in Nat /\ snap.pmIn \in Nat /\ led.pmIn \in Nat
      BY <3>1 DEF Ledger
    <3>5. Traded(snap, led', requested, totalOut)
      BY <3>1, <3>2, <3>3, <3>4 DEF Traded, Clean
    <3>6. requested \in 1 .. MaxDelta /\ totalOut \in 1 .. MaxDelta
      BY <3>1, TapAssumption
    <3> QED
      BY <2>1, <3>5, <3>6
  <2> QED
    BY <1>4, <2>2, <2>3, EndsAre
<1> QED
  BY <1>2, <1>3, <1>4

LEMMA AtomicInit == Init => Atomic!Init
<1> SUFFICES ASSUME Init PROVE Atomic!Init
  OBVIOUS
<1>1. Committed = led /\ led \in Ledger /\ Clean(led) /\ led.userOut = 0 /\ led.pmOut = 0
  BY Initially DEF Init, InitialLedgers, Committed, IInv, TypeOK, Clean
<1> QED
  BY <1>1 DEF Atomic!Init, Atomic!Empty, Ledger, Clean

LEMMA AtomicStep == IInv /\ IInv' /\ [AnyNext]_vars => [Atomic!Next]_(Atomic!vars)
<1> SUFFICES ASSUME IInv, IInv', [AnyNext]_vars PROVE [Atomic!Next]_(Atomic!vars)
  OBVIOUS
<1>1. Committed \in Ledger /\ Committed' \in Ledger
  BY DEF IInv, TypeOK, Committed
<1>2. /\ Committed.userIn \in Nat /\ Committed.userOut \in Nat
      /\ Committed'.userIn \in Nat /\ Committed'.userOut \in Nat /\ Committed'.pmIn \in Nat
  BY <1>1 DEF Ledger
<1>3. CASE Same(Committed, Committed')
  BY <1>3 DEF Same, Atomic!vars
<1>4. CASE Same([Committed EXCEPT !.pmIn = Committed'.pmIn], Committed')
  <2>1. /\ Committed'.userIn = Committed.userIn /\ Committed'.userOut = Committed.userOut
        /\ Committed'.pmOut = Committed.pmOut /\ Committed'.hookIn = Committed.hookIn
        /\ Committed'.hookOut = Committed.hookOut /\ Committed'.hookAllowance = Committed.hookAllowance
    BY <1>1, <1>4 DEF Same, Ledger
  <2> QED
    BY <1>2, <2>1 DEF Atomic!Next, Atomic!Liquidity
<1>5. ASSUME NEW a \in 1 .. MaxDelta, NEW b \in 1 .. MaxDelta, Traded(Committed, Committed', a, b)
      PROVE  Atomic!Next
  <2>1. a \in Nat /\ b \in Nat /\ a > 0 /\ b > 0 /\ a <= MaxDelta /\ b <= MaxDelta /\ MaxDelta \in Nat
    BY TapAssumption
  <2>2. /\ Committed'.userIn = Committed.userIn - a /\ Committed'.userOut = Committed.userOut + b
        /\ Committed'.pmIn = Committed.pmIn /\ Committed'.pmOut = Committed.pmOut
        /\ Committed'.hookIn = Committed.hookIn /\ Committed'.hookOut = Committed.hookOut
        /\ Committed'.hookAllowance = Committed.hookAllowance
    BY <1>5 DEF Traded
  <2>3. /\ Committed'.userIn < Committed.userIn /\ Committed.userIn - Committed'.userIn <= MaxDelta
        /\ Committed'.userOut > Committed.userOut /\ Committed'.userOut - Committed.userOut <= MaxDelta
    BY <1>2, <2>1, <2>2
  <2>4. Atomic!Exchange
    BY <1>2, <2>2, <2>3 DEF Atomic!Exchange
  <2> QED
    BY <2>4 DEF Atomic!Next
<1> QED
  BY <1>3, <1>4, <1>5, CommittedSteps

LEMMA AnySwapsAreAtomic == AnySpec => IsAtomic
<1>1. AnySpec => Atomic!Init /\ [][Atomic!Next]_(Atomic!vars)
  BY AtomicInit, AtomicStep, AnyInductive, PTL DEF AnySpec
<1> QED
  BY <1>1 DEF IsAtomic, Atomic!Spec

-----------------------------------------------------------------------------
(* The dust subtraction never underflows: the shares of a route, rounded    *)
(* down, sum to at most the input.  The depths summed so far are carried    *)
(* as a function the swap itself builds in pass 1.                          *)

Summed(sum, n) ==
    /\ sum \in [1 .. n -> 0 .. totalDepth]
    /\ sum[1] = 0 /\ sum[n] = totalDepth
    /\ \A j \in 1 .. n - 1 : sum[j + 1] = sum[j] + depth[j]

Counting ==
    /\ pc = "idle" => totalDepth = 0
    /\ pc = "depth" => \E sum \in [1 .. i -> 0 .. totalDepth] : Summed(sum, i)
    /\ pc = "dust" =>
         \E sum \in [1 .. N + 1 -> 0 .. totalDepth] :
            /\ Summed(sum, N + 1)
            /\ requested * totalDepth <= dust * totalDepth + requested * sum[i]
    /\ outcome # "Underflow"

LEMMA Quotient ==
    ASSUME NEW a \in Nat, NEW b \in Nat, b > 0
    PROVE  a \div b \in Nat /\ (a \div b) * b <= a
OBVIOUS

\* One share taken from the dust.
LEMMA ShareFits ==
    ASSUME NEW r \in Nat, NEW d \in Nat, NEW t \in Nat, t > 0, NEW left \in Nat, NEW s \in Nat,
           s + d <= t, r * t <= left * t + r * s
    PROVE  LET share == (r * d) \div t IN
           share \in Nat /\ share <= left /\ r * t <= (left - share) * t + r * (s + d)
<1> DEFINE q == (r * d) \div t
<1>1. r * d \in Nat /\ r * s \in Nat /\ r * t \in Nat /\ left * t \in Nat
  OBVIOUS
<1>2. q \in Nat /\ q * t <= r * d
  BY <1>1, Quotient
<1> HIDE DEF q
<1>3. r * (s + d) = r * s + r * d
  OBVIOUS
<1>4. r * (s + d) <= r * t
  <2>1. PICK e \in Nat : t = (s + d) + e
    <3>1. t - (s + d) \in Nat /\ t = (s + d) + (t - (s + d))
      OBVIOUS
    <3> QED
      BY <3>1
  <2>2. r * t = r * (s + d) + r * e /\ r * e \in Nat /\ r * (s + d) \in Nat
    BY <2>1
  <2> QED
    BY <2>2
<1>5. q * t \in Nat /\ q * t <= left * t
  BY <1>1, <1>2, <1>3, <1>4
<1>6. q <= left
  <2> SUFFICES ASSUME left + 1 <= q PROVE FALSE
    BY <1>2
  <2>1. PICK e \in Nat : q = (left + 1) + e
    <3>1. q - (left + 1) \in Nat /\ q = (left + 1) + (q - (left + 1))
      BY <1>2
    <3> QED
      BY <3>1
  <2>2. q * t = left * t + t + e * t /\ e * t \in Nat
    BY <2>1
  <2> QED
    BY <1>1, <1>5, <2>2
<1>7. (left - q) * t = left * t - q * t
  BY <1>2
<1> QED
  BY <1>1, <1>2, <1>3, <1>5, <1>6, <1>7 DEF q

LEMMA SwapCounts ==
    ASSUME IInv, Counting, NEW amountIn \in Nat, NEW least \in Nat, NEW candidates \in Seq(Strategies),
           Swap(amountIn, least, candidates)
    PROVE  Counting'
<1>1. pc' = "depth" /\ i' = 1 /\ totalDepth' = 0 /\ outcome' = "none"
  BY DEF Swap, Goto, Counting
<1> DEFINE sum == [k \in 1 .. 1 |-> 0]
<1>2. sum \in [1 .. 1 -> 0 .. 0] /\ sum[1] = 0
  OBVIOUS
<1>3. Summed(sum, 1)'
  BY <1>1, <1>2 DEF Summed
<1> QED
  BY <1>1, <1>2, <1>3 DEF Counting

LEMMA ReadCounts == IInv /\ Counting /\ ReadDepth => Counting'
<1> SUFFICES ASSUME IInv, Counting, ReadDepth PROVE Counting'
  OBVIOUS
<1>1. /\ pc = "depth" /\ pc' = "depth" /\ i \in 1 .. N /\ N \in Nat /\ i' = i + 1 /\ outcome' = outcome
      /\ totalDepth \in Nat /\ depth \in [1 .. N -> Nat]
  BY DEF IInv, TypeOK, ReadDepth, N
<1>2. route[i] \in Strategies /\ led \in Ledger
  BY <1>1 DEF IInv, TypeOK, N
<1> DEFINE d == QuotableDepth(led, route[i])
<1>3. d \in Nat
  BY <1>2, DepthIsAmount
<1>4. depth' = [depth EXCEPT ![i] = d] /\ totalDepth' = totalDepth + depth'[i]
  BY DEF ReadDepth
<1> HIDE DEF d
<1>5. depth'[i] = d /\ totalDepth' = totalDepth + d /\ \A j \in 1 .. N : j # i => depth'[j] = depth[j]
  BY <1>1, <1>4
<1>6. PICK sum \in [1 .. i -> 0 .. totalDepth] : Summed(sum, i)
  BY <1>1 DEF Counting
<1>7. sum[1] = 0 /\ sum[i] = totalDepth /\ \A j \in 1 .. i - 1 : sum[j + 1] = sum[j] + depth[j]
  BY <1>6 DEF Summed
<1> DEFINE next == [k \in 1 .. i + 1 |-> IF k <= i THEN sum[k] ELSE totalDepth + d]
<1>8. \A k \in 1 .. i : k \in 1 .. i + 1 /\ next[k] = sum[k] /\ sum[k] \in 0 .. totalDepth
  BY <1>1, <1>6
<1>9. next[i + 1] = totalDepth + d
  BY <1>1
<1>10. next \in [1 .. i + 1 -> 0 .. totalDepth + d]
  <2>1. \A k \in 1 .. i + 1 : next[k] \in 0 .. totalDepth + d
    <3> SUFFICES ASSUME NEW k \in 1 .. i + 1 PROVE next[k] \in 0 .. totalDepth + d
      OBVIOUS
    <3>1. k \in 1 .. i \/ k = i + 1
      BY <1>1
    <3>2. \A x \in 0 .. totalDepth : x \in 0 .. totalDepth + d
      BY <1>1, <1>3
    <3>3. totalDepth + d \in 0 .. totalDepth + d
      BY <1>1, <1>3
    <3> QED
      BY <1>8, <1>9, <3>1, <3>2, <3>3
  <2> QED
    BY <2>1
<1> HIDE DEF next
<1>11. next[1] = 0
  BY <1>1, <1>7, <1>8
<1>12. ASSUME NEW j \in 1 .. (i + 1) - 1 PROVE next[j + 1] = next[j] + depth'[j]
  <2>1. CASE j = i
    BY <1>1, <1>5, <1>7, <1>8, <1>9, <2>1
  <2>2. CASE j # i
    <3>1. j \in 1 .. i - 1 /\ j \in 1 .. i /\ j + 1 \in 1 .. i /\ j \in 1 .. N
      BY <1>1, <2>2
    <3> QED
      BY <1>5, <1>7, <1>8, <2>2, <3>1
  <2> QED
    BY <2>1, <2>2
<1>13. /\ next \in [1 .. i' -> 0 .. totalDepth'] /\ next[1] = 0 /\ next[i'] = totalDepth'
       /\ \A j \in 1 .. i' - 1 : next[j + 1] = next[j] + depth'[j]
  BY <1>1, <1>5, <1>9, <1>10, <1>11, <1>12
<1>14. \E s \in [1 .. i' -> 0 .. totalDepth'] : Summed(s, i)'
  BY <1>13 DEF Summed
<1> QED
  BY <1>1, <1>14 DEF Counting

LEMMA AfterCounts == IInv /\ Counting /\ AfterDepth => Counting'
<1> SUFFICES ASSUME IInv, Counting, AfterDepth PROVE Counting'
  OBVIOUS
<1>1. CASE \E why \in Reverts \ {"Underflow"} : Revert(why)
  BY <1>1 DEF Revert, End, Counting, Reverts
<1>2. CASE /\ dust' = requested
           /\ Goto("dust")
           /\ UNCHANGED <<led, snap, route, requested, minOut, depth, totalDepth,
                          remaining, unplaced, totalOut, borrowed, skipped, outcome>>
  <2>1. pc = "depth" /\ i = N + 1 /\ N' = N /\ requested \in Nat /\ totalDepth \in Nat /\ N \in Nat
    BY <1>2 DEF AfterDepth, IInv, TypeOK, N
  <2>2. PICK sum \in [1 .. N + 1 -> 0 .. totalDepth] : Summed(sum, N + 1)
    BY <2>1 DEF Counting
  <2>3. sum[1] = 0
    BY <2>2 DEF Summed
  <2>4. Summed(sum, N + 1)'
    BY <1>2, <2>1, <2>2 DEF Summed
  <2>5. requested * totalDepth <= requested * totalDepth + requested * 0
    BY <2>1
  <2>6. /\ dust' = requested /\ i' = 1 /\ pc' = "dust" /\ requested' = requested
        /\ totalDepth' = totalDepth /\ outcome' = outcome
    BY <1>2 DEF Goto
  <2>7. requested' * totalDepth' <= dust' * totalDepth' + requested' * sum[i']
    BY <2>3, <2>5, <2>6
  <2> QED
    BY <2>1, <2>2, <2>4, <2>6, <2>7 DEF Counting
<1> QED
  BY <1>1, <1>2 DEF AfterDepth, Reverts

LEMMA DustCounts == IInv /\ Counting /\ CountDust => Counting'
<1> SUFFICES ASSUME IInv, Counting, CountDust PROVE Counting'
  OBVIOUS
<1>1. /\ pc = "dust" /\ N \in Nat /\ i \in 1 .. N + 1 /\ requested \in Nat /\ totalDepth \in Nat
      /\ totalDepth > 0 /\ dust \in Nat /\ depth \in [1 .. N -> Nat]
  BY DEF CountDust, IInv, TypeOK, N
<1>2. PICK sum \in [1 .. N + 1 -> 0 .. totalDepth] :
         Summed(sum, N + 1) /\ requested * totalDepth <= dust * totalDepth + requested * sum[i]
  BY <1>1 DEF Counting
<1>3. CASE i <= N
  <2>1. i \in 1 .. N /\ depth[i] \in Nat /\ i \in 1 .. (N + 1) - 1 /\ i + 1 \in 1 .. N + 1
    BY <1>1, <1>3
  <2>2. sum[i + 1] = sum[i] + depth[i]
    BY <1>2, <2>1 DEF Summed
  <2>3. sum[i] \in Nat /\ sum[i + 1] \in 0 .. totalDepth
    BY <1>1, <1>2, <2>1
  <2>4. sum[i] + depth[i] <= totalDepth
    BY <1>1, <2>2, <2>3
  <2>5. /\ ProRata(i) \in Nat /\ ProRata(i) <= dust
        /\ requested * totalDepth <= (dust - ProRata(i)) * totalDepth + requested * (sum[i] + depth[i])
    BY <1>1, <1>2, <2>1, <2>3, <2>4, ShareFits DEF ProRata
  <2>6. ~ (dust < ProRata(i))
    BY <1>1, <2>5
  <2>7. /\ dust' = dust - ProRata(i) /\ i' = i + 1
        /\ UNCHANGED <<led, snap, pc, route, requested, minOut, depth, totalDepth, outcome>>
    BY <1>1, <1>3, <2>6 DEF CountDust
  <2>8. requested' * totalDepth' <= dust' * totalDepth' + requested' * sum[i']
    BY <2>2, <2>5, <2>7
  <2>9. N' = N /\ Summed(sum, N + 1)'
    BY <1>2, <2>7 DEF Summed, N
  <2> QED
    BY <1>1, <1>2, <2>7, <2>8, <2>9 DEF Counting
<1>4. CASE ~ (i <= N)
  BY <1>4 DEF CountDust, Goto, Counting
<1> QED
  BY <1>3, <1>4

LEMMA OthersCount ==
    IInv /\ Counting /\ (PassOver \/ SkipOnQuote \/ TakeFails \/ Fill \/ SkipOnSwap \/ NextPass \/ SettleHook \/ Pay)
        => Counting'
<1> SUFFICES ASSUME IInv, Counting,
                    PassOver \/ SkipOnQuote \/ TakeFails \/ Fill \/ SkipOnSwap \/ NextPass \/ SettleHook \/ Pay
             PROVE  Counting'
  OBVIOUS
<1>1. CASE PassOver \/ SkipOnQuote \/ Fill \/ SkipOnSwap
  BY <1>1 DEF PassOver, SkipOnQuote, Fill, SkipOnSwap, Quoted, Filling, Unaffected, Counting
<1>2. CASE NextPass
  BY <1>2 DEF NextPass, Onwards, Goto, Counting
<1>3. CASE TakeFails
  BY <1>3 DEF TakeFails, Revert, End, Counting
<1>4. CASE SettleHook
  BY <1>4 DEF SettleHook, SettleError, Goto, Revert, End, Counting
<1>5. CASE Pay
  BY <1>5 DEF Pay, PayError, Revert, End, Counting
<1> QED
  BY <1>1, <1>2, <1>3, <1>4, <1>5

LEMMA NextCounts == IInv /\ Counting /\ [AnyNext]_vars => Counting'
<1> SUFFICES ASSUME IInv, Counting, [AnyNext]_vars PROVE Counting'
  OBVIOUS
<1>1. CASE Makers_
  BY <1>1 DEF Makers_, MakerMovesFunds, MakerApproves, MakerShips, MakerDocks, OtherPoolsMove,
              Elsewhere, ctx, Counting
<1>2. CASE RejectCall
  BY <1>2 DEF RejectCall, End, Counting
<1>3. CASE UNCHANGED vars
  BY <1>3 DEF vars, ctx, Counting, Summed, N
<1> QED
  BY <1>1, <1>2, <1>3, SwapCounts, ReadCounts, AfterCounts, DustCounts, OthersCount DEF AnyNext, AnyCall, Execute

LEMMA AnyBooksClose == AnySpec => []BooksAlwaysClose
<1>1. Init => Counting
  BY DEF Init, NoSwap, Counting
<1>2. AnySpec => []Counting
  BY <1>1, NextCounts, AnyInductive, PTL DEF AnySpec
<1>3. IInv /\ Counting => BooksAlwaysClose
  BY DEF IInv, NoOpenBooks, Counting, BooksAlwaysClose
<1> QED
  BY <1>2, <1>3, AnyInductive, PTL

-----------------------------------------------------------------------------
(* One good maker is enough.  Whoever else is on the route, and whatever    *)
(* their programs do, what the good maker can deliver keeps up with what is *)
(* left to place, and the PoolManager with the offers that may still come.  *)

Good(s) == CanCarry(s) /\ snap.pmIn >= 2 * N * requested

\* The offers that the two passes may still make.
OffersLeft == IF pc = "place" THEN 2 * N + 1 - i ELSE N + 1 - i

\* Pass 1 has met the maker and found it deep enough.
Reached(s) ==
    \A k \in 1 .. N : route[k] = s /\ (pc = "depth" => k < i) =>
        requested <= depth[k] /\ depth[k] <= totalDepth

CarriesOn(s) ==
    /\ led.pmIn >= OffersLeft * requested
    /\ QuotableDepth(led, s) >= remaining

\* The sweep has passed the maker, who took all there was.
SweptUp(s) == \A k \in 1 .. N : route[k] = s /\ k < i => remaining = 0

Carried(s) ==
    Good(s) =>
      /\ pc # "idle" => Reached(s)
      /\ pc \in {"place", "sweep"} => CarriesOn(s)
      /\ pc = "sweep" => SweptUp(s)
      /\ pc = "settle" => remaining = 0

LEMMA GoodIsListed ==
    ASSUME TypeOK, NEW s, Good(s)
    PROVE  /\ s \in Faithful /\ s \in Strategies /\ Rate[s] = 1
           /\ \E j \in 1 .. N : route[j] = s
           /\ \A j \in 1 .. N : OwnerOf[route[j]] = OwnerOf[s] => route[j] = s
           /\ \A j, k \in 1 .. N : route[j] = s /\ route[k] = s => j = k
           /\ QuotableDepth(snap, s) >= requested
           /\ snap.pmIn >= 2 * N * requested
<1>1. CanCarry(s) /\ snap.pmIn >= 2 * N * requested
  BY DEF Good
<1>2. N \in Nat
  BY DEF TypeOK, N
<1>3. IsFiniteSet(Occurrences(s))
  <2>1. IsFiniteSet(1 .. N)
    BY <1>2, FS_Interval
  <2>2. Occurrences(s) \in SUBSET (1 .. N)
    BY DEF Occurrences
  <2> QED
    BY <2>1, <2>2, FS_Subset
<1>4. Cardinality(Occurrences(s)) = 1
  BY <1>1 DEF CanCarry
<1>5. PICK j : Occurrences(s) = {j}
  BY <1>3, <1>4, FS_Singleton
<1>6. \A k : k \in Occurrences(s) <=> k = j
  BY <1>5
<1>7. \A k : k \in Occurrences(s) <=> k \in 1 .. N /\ route[k] = s
  BY DEF Occurrences
<1> QED
  BY <1>1, <1>6, <1>7, TapAssumption DEF CanCarry

\* Within a transaction the question does not change.
LEMMA GoodStays ==
    ASSUME NEW s, route' = route, snap' = snap, requested' = requested, Good(s)'
    PROVE  Good(s)
BY DEF Good, CanCarry, Occurrences, N

LEMMA EndCarries == ASSUME NEW s, pc' = "idle" PROVE Carried(s)'
BY DEF Carried

LEMMA Twice ==
    ASSUME NEW n \in Nat, NEW k \in 1 .. n + 1, NEW r \in Nat, NEW p \in Nat,
           p >= (2 * n + 1 - k) * r
    PROVE  p >= n * r
<1>1. PICK e \in Nat : 2 * n + 1 - k = n + e
  <2>1. n + 1 - k \in Nat /\ 2 * n + 1 - k = n + (n + 1 - k)
    OBVIOUS
  <2> QED
    BY <2>1
<1>2. (n + e) * r = n * r + e * r /\ e * r \in Nat /\ n * r \in Nat
  BY <1>1
<1> QED
  BY <1>1, <1>2

\* One offer less to come.
LEMMA OneLess ==
    ASSUME NEW m \in Nat, NEW r \in Nat, NEW p \in Nat, NEW x \in Nat, x <= r, p >= (m + 1) * r
    PROVE  x <= p /\ r <= p /\ p - x >= m * r /\ p >= m * r
<1>1. (m + 1) * r = m * r + r /\ m * r \in Nat
  OBVIOUS
<1> QED
  BY <1>1

LEMMA SwapCarries ==
    ASSUME IInv, NEW s, NEW amountIn \in Nat, NEW least \in Nat, NEW candidates \in Seq(Strategies),
           Swap(amountIn, least, candidates)
    PROVE  Carried(s)'
<1>1. pc' = "depth" /\ i' = 1
  BY DEF Swap, Goto
<1> QED
  BY <1>1 DEF Carried, Reached

LEMMA ReadCarries ==
    ASSUME IInv, NEW s, Carried(s), ReadDepth
    PROVE  Carried(s)'
<1> SUFFICES ASSUME Good(s)' PROVE Reached(s)'
  BY DEF ReadDepth, Carried
<1>1. Good(s)
  BY GoodStays DEF ReadDepth
<1>2. /\ pc = "depth" /\ pc' = "depth" /\ i \in 1 .. N /\ N \in Nat /\ i' = i + 1
      /\ totalDepth \in Nat /\ depth \in [1 .. N -> Nat] /\ route' = route /\ requested' = requested
      /\ requested \in Nat /\ N' = N /\ led = snap
  BY DEF IInv, TypeOK, ReadDepth, N, Starting
<1>3. route[i] \in Strategies /\ led \in Ledger
  BY <1>2 DEF IInv, TypeOK, N
<1> DEFINE d == QuotableDepth(led, route[i])
<1>4. d \in Nat
  BY <1>3, DepthIsAmount
<1>5. depth' = [depth EXCEPT ![i] = d] /\ totalDepth' = totalDepth + depth'[i]
  BY DEF ReadDepth
<1>6. route[i] = s => d >= requested
  BY <1>1, <1>2, GoodIsListed DEF IInv
<1> HIDE DEF d
<1>7. depth'[i] = d /\ totalDepth' = totalDepth + d /\ \A j \in 1 .. N : j # i => depth'[j] = depth[j]
  BY <1>2, <1>5
<1>8. Reached(s)
  BY <1>1, <1>2 DEF Carried
<1>9. ASSUME NEW k \in 1 .. N, route[k] = s, k < i + 1
      PROVE  requested <= depth'[k] /\ depth'[k] <= totalDepth'
  <2>1. CASE k = i
    BY <1>2, <1>4, <1>6, <1>7, <1>9, <2>1
  <2>2. CASE k # i
    <3>1. k < i /\ depth[k] \in Nat
      BY <1>2, <2>2, <1>9
    <3>2. requested <= depth[k] /\ depth[k] <= totalDepth
      BY <1>2, <1>8, <1>9, <3>1 DEF Reached
    <3> QED
      BY <1>2, <1>4, <1>7, <2>2, <3>1, <3>2
  <2> QED
    BY <2>1, <2>2
<1> QED
  BY <1>2, <1>9 DEF Reached

LEMMA AfterCarries ==
    ASSUME IInv, NEW s, Carried(s), AfterDepth
    PROVE  Carried(s)'
<1>1. CASE pc' = "idle"
  BY <1>1, EndCarries
<1>2. CASE pc' # "idle"
  <2>1. Goto("dust") /\ UNCHANGED <<led, snap, route, requested, depth, totalDepth>>
    BY <1>2 DEF AfterDepth, Revert, End
  <2>2. pc' = "dust" /\ pc = "depth" /\ i = N + 1 /\ N' = N /\ N \in Nat
    BY <2>1 DEF AfterDepth, Goto, IInv, TypeOK, N
  <2> SUFFICES ASSUME Good(s)' PROVE Reached(s)'
    BY <2>2 DEF Carried
  <2>3. Reached(s)
    BY <2>1, <2>2, GoodStays DEF Carried
  <2> QED
    BY <2>1, <2>2, <2>3 DEF Reached
<1> QED
  BY <1>1, <1>2

LEMMA DustCarries ==
    ASSUME IInv, NEW s, Carried(s), CountDust
    PROVE  Carried(s)'
<1>1. CASE pc' = "idle"
  BY <1>1, EndCarries
<1>2. CASE pc' # "idle"
  <2>1. UNCHANGED <<led, snap, route, requested, depth, totalDepth, remaining>> /\ pc = "dust"
        /\ (pc' = "dust" \/ (pc' = "place" /\ i' = 1))
    BY <1>2 DEF CountDust, Revert, End, Goto
  <2>2. N' = N /\ N \in Nat /\ snap \in Ledger /\ requested \in Nat /\ led = snap /\ remaining = requested
    BY <2>1 DEF IInv, TypeOK, N, Starting
  <2> SUFFICES ASSUME Good(s)' PROVE Reached(s)' /\ (pc' = "place" => CarriesOn(s)')
    BY <2>1 DEF Carried
  <2>3. Good(s) /\ Reached(s)
    BY <2>1, GoodStays DEF Carried
  <2>4. Reached(s)'
    BY <2>1, <2>2, <2>3 DEF Reached
  <2>5. ASSUME pc' = "place" PROVE CarriesOn(s)'
    <3>1. QuotableDepth(led, s) >= remaining /\ led.pmIn >= 2 * N * requested
      BY <2>2, <2>3, GoodIsListed DEF IInv
    <3>2. i' = 1 /\ led' = led /\ remaining' = remaining /\ requested' = requested
      BY <2>1, <2>5
    <3>3. OffersLeft' = 2 * N
      BY <2>2, <2>5, <3>2 DEF OffersLeft
    <3>4. QuotableDepth(led, s)' = QuotableDepth(led, s)
      BY <3>2
    <3> QED
      BY <3>1, <3>2, <3>3, <3>4 DEF CarriesOn
  <2> QED
    BY <2>4, <2>5
<1> QED
  BY <1>1, <1>2

LEMMA NextPassCarries ==
    ASSUME IInv, NEW s, Carried(s), NextPass
    PROVE  Carried(s)'
<1>1. UNCHANGED <<led, snap, route, requested, depth, totalDepth, remaining>> /\ Done /\ i' = 1
      /\ ((pc = "place" /\ pc' = "sweep") \/ (pc = "sweep" /\ pc' = "settle"))
  BY DEF NextPass, Onwards, Goto
<1>2. N' = N /\ N \in Nat /\ requested \in Nat /\ i \in 1 .. N + 1 /\ led.pmIn \in Nat
  BY <1>1 DEF IInv, TypeOK, N, Ledger
<1> SUFFICES ASSUME Good(s)'
             PROVE  /\ Reached(s)'
                    /\ pc' = "sweep" => CarriesOn(s)' /\ SweptUp(s)'
                    /\ pc' = "settle" => remaining' = 0
  BY <1>1 DEF Carried
<1>3. Good(s) /\ Reached(s) /\ CarriesOn(s) /\ (pc = "sweep" => SweptUp(s))
  BY <1>1, GoodStays DEF Carried
<1>4. Reached(s)'
  BY <1>1, <1>2, <1>3 DEF Reached
<1>5. ASSUME pc' = "sweep" PROVE CarriesOn(s)' /\ SweptUp(s)'
  <2>1. pc = "place" /\ i' = 1 /\ led' = led /\ remaining' = remaining /\ requested' = requested
    BY <1>1, <1>5
  <2>2. led.pmIn >= (2 * N + 1 - i) * requested /\ QuotableDepth(led, s) >= remaining
    BY <1>3, <2>1 DEF CarriesOn, OffersLeft
  <2>3. led.pmIn >= N * requested
    BY <1>2, <2>2, Twice
  <2>4. OffersLeft' = N
    BY <1>2, <1>5, <2>1 DEF OffersLeft
  <2>5. QuotableDepth(led, s)' = QuotableDepth(led, s)
    BY <2>1
  <2>6. CarriesOn(s)'
    BY <2>1, <2>2, <2>3, <2>4, <2>5 DEF CarriesOn
  <2>7. SweptUp(s)'
    BY <2>1, <1>2 DEF SweptUp
  <2> QED
    BY <2>6, <2>7
<1>6. ASSUME pc' = "settle" PROVE remaining' = 0
  <2>1. pc = "sweep" /\ SweptUp(s)
    BY <1>1, <1>3, <1>6
  <2>2. PICK j \in 1 .. N : route[j] = s
    BY <1>3, GoodIsListed DEF IInv
  <2> QED
    BY <1>1, <1>2, <2>1, <2>2 DEF Done, SweptUp
<1> QED
  BY <1>4, <1>5, <1>6

LEMMA UsedIsAmount ==
    ASSUME NEW s \in Strategies, NEW x \in Nat, NEW r \in SwapResults(s, x)
    PROVE  r.used \in Nat /\ r.used <= x
<1>1. CASE s \notin Faithful
  BY <1>1 DEF SwapResults
<1>2. CASE s \in Faithful
  BY <1>2 DEF SwapResults
<1> QED
  BY <1>1, <1>2

\* What an offer needs of the good maker, and of the PoolManager.
LEMMA OfferCarries ==
    ASSUME IInv, NEW s, Carried(s), Good(s), Filling
    PROVE  /\ Offer \in Nat /\ Offer <= remaining /\ Offer <= requested /\ Offer <= led.pmIn
           /\ OffersLeft - 1 \in Nat
           /\ led.pmIn - Offer >= (OffersLeft - 1) * requested
           /\ led.pmIn >= (OffersLeft - 1) * requested
<1>1. /\ i \in 1 .. N /\ N \in Nat /\ Offer \in Nat /\ Offer <= remaining /\ remaining <= requested
      /\ requested \in Nat /\ remaining \in Nat /\ led.pmIn \in Nat
  BY FillContext DEF FillAccounts, IInv, TypeOK, Ledger
<1>2. led.pmIn >= OffersLeft * requested
  BY DEF Filling, Carried, CarriesOn
<1>3. PICK m \in Nat : OffersLeft = m + 1
  <2>1. OffersLeft - 1 \in Nat /\ OffersLeft = (OffersLeft - 1) + 1
    BY <1>1 DEF OffersLeft
  <2> QED
    BY <2>1
<1>4. Offer <= requested
  BY <1>1
<1>5. led.pmIn >= (m + 1) * requested
  BY <1>2, <1>3
<1>6. Offer <= led.pmIn /\ led.pmIn - Offer >= m * requested /\ led.pmIn >= m * requested
  BY <1>1, <1>4, <1>5, OneLess
<1>7. OffersLeft - 1 = m
  BY <1>3
<1> QED
  BY <1>1, <1>4, <1>6, <1>7

\* Offered anything, the good maker quotes it and delivers it.
LEMMA GoodDelivers ==
    ASSUME IInv, NEW s, Carried(s), Good(s), Filling, route[i] = s
    PROVE  /\ depth[i] > 0
           /\ ~ SkipOnQuote
           /\ ~ SkipOnSwap
           /\ SwapResults(s, Offer) \subseteq {[used |-> Offer, out |-> Offer]}
<1>1. /\ i \in 1 .. N /\ Offer \in Nat /\ Offer <= remaining /\ Offer <= requested
      /\ requested \in Nat /\ remaining \in Nat /\ led \in Ledger /\ depth[i] \in Nat /\ requested > 0
  BY FillContext, OfferCarries DEF IInv, TypeOK, Filling
<1>2. s \in Faithful /\ s \in Strategies /\ Rate[s] = 1
  BY GoodIsListed DEF IInv
<1>3. QuotableDepth(led, s) >= remaining /\ Reached(s)
  BY DEF Filling, Carried, CarriesOn
<1>4. requested <= depth[i]
  BY <1>1, <1>3 DEF Reached, Filling
<1>5. remaining > 0
  BY DEF Filling
<1>6. QuotableDepth(led, s) \in Nat /\ QuotableDepth(led, s) > 0
  BY <1>1, <1>2, <1>3, <1>5, DepthIsAmount
<1>7. IsLive(led, s) /\ QuotableDepth(led, s) = Lesser(led.virtual[s], Backing(led, s))
  BY <1>6 DEF QuotableDepth
<1>8. Backing(led, s) \in Nat /\ led.virtual[s] \in Nat
  BY <1>1, <1>2, OwnerAssumption DEF Backing, Lesser, Ledger
<1>9. Offer <= Lesser(led.virtual[s], Backing(led, s)) /\ Offer <= led.virtual[s]
  BY <1>1, <1>3, <1>7, <1>8 DEF Lesser
<1>10. Offer \div Rate[s] = Offer
  BY <1>1, <1>2
<1>11. CanPull(led, s, Offer)
  BY <1>7, <1>9 DEF CanPull
<1>12. ~ QuoteReverts(s, Offer) /\ Quotes(s, Offer) = {Offer}
  BY <1>1, <1>2, <1>8, <1>9, <1>10 DEF QuoteReverts, Quotes
<1>13. Worth => Usable(Offer)
  BY <1>1, <1>4 DEF Worth, Usable
<1>14. ~ SwapReverts(s, Offer) /\ SwapResults(s, Offer) \subseteq {[used |-> Offer, out |-> Offer]}
  BY <1>2, <1>10, <1>11 DEF SwapReverts, SwapResults
<1> QED
  BY <1>1, <1>4, <1>12, <1>13, <1>14 DEF SkipOnQuote, SkipOnSwap

\* A fill by another maker leaves the good one what it had.
LEMMA OthersLeave ==
    ASSUME NEW l \in Ledger, NEW s \in Strategies, NEW r \in Strategies, OwnerOf[r] # OwnerOf[s],
           NEW used, NEW out
    PROVE  QuotableDepth(Exchanged(l, r, used, out), s) = QuotableDepth(l, s)
<1> DEFINE l2 == Exchanged(l, r, used, out)
<1>1. OwnerOf[s] \in Makers /\ OwnerOf[r] \in Makers /\ r # s
  BY OwnerAssumption
<1>2. l.wallet \in [Makers -> Nat] /\ l.allowance \in [Makers -> Nat] /\ l.virtual \in [Strategies -> Nat]
  BY DEF Ledger
<1>3. /\ l2.wallet = [l.wallet EXCEPT ![OwnerOf[r]] = @ - out]
      /\ l2.allowance = [l.allowance EXCEPT ![OwnerOf[r]] = @ - out]
      /\ l2.virtual = [l.virtual EXCEPT ![r] = @ - out]
      /\ l2.tokensCount = l.tokensCount
  BY DEF Exchanged, Ledger
<1> HIDE DEF l2
<1>4. l2.wallet[OwnerOf[s]] = l.wallet[OwnerOf[s]] /\ l2.allowance[OwnerOf[s]] = l.allowance[OwnerOf[s]]
      /\ l2.virtual[s] = l.virtual[s]
  BY <1>1, <1>2, <1>3
<1>5. QuotableDepth(l2, s) = QuotableDepth(l, s)
  BY <1>3, <1>4 DEF QuotableDepth, Backing, IsLive
<1> QED
  BY <1>5 DEF l2

\* Its own fill takes as much from it as from what is left.
LEMMA OwnTakes ==
    ASSUME NEW l \in Ledger, NEW s \in Strategies, NEW used, NEW out \in Nat, IsLive(l, s),
           NEW d \in Nat, QuotableDepth(l, s) >= d
    PROVE  QuotableDepth(Exchanged(l, s, used, out), s) >= d - out
<1> DEFINE l2 == Exchanged(l, s, used, out)
<1>1. OwnerOf[s] \in Makers
  BY OwnerAssumption
<1>2. l.wallet \in [Makers -> Nat] /\ l.allowance \in [Makers -> Nat] /\ l.virtual \in [Strategies -> Nat]
  BY DEF Ledger
<1>3. /\ l2.wallet = [l.wallet EXCEPT ![OwnerOf[s]] = @ - out]
      /\ l2.allowance = [l.allowance EXCEPT ![OwnerOf[s]] = @ - out]
      /\ l2.virtual = [l.virtual EXCEPT ![s] = @ - out]
      /\ l2.tokensCount = l.tokensCount
  BY DEF Exchanged, Ledger
<1> HIDE DEF l2
<1>4. /\ l2.wallet[OwnerOf[s]] = l.wallet[OwnerOf[s]] - out
      /\ l2.allowance[OwnerOf[s]] = l.allowance[OwnerOf[s]] - out
      /\ l2.virtual[s] = l.virtual[s] - out
  BY <1>1, <1>2, <1>3
<1>5. l.wallet[OwnerOf[s]] >= d /\ l.allowance[OwnerOf[s]] >= d /\ l.virtual[s] >= d
  BY <1>1, <1>2 DEF QuotableDepth, Backing, Lesser
<1>6. IsLive(l2, s)
  BY <1>3 DEF IsLive
<1>7. QuotableDepth(l2, s) >= d - out
  BY <1>1, <1>2, <1>4, <1>5, <1>6 DEF QuotableDepth, Backing, Lesser
<1> QED
  BY <1>7 DEF l2

\* A fill or a skip moves on to the next candidate, and is an offer less to come.
LEMMA StepCarries ==
    ASSUME IInv, NEW s, Carried(s), Filling,
           i' = i + 1, UNCHANGED <<snap, pc, route, requested, depth, totalDepth>>,
           Good(s) =>
             /\ led'.pmIn >= (OffersLeft - 1) * requested
             /\ QuotableDepth(led', s) >= remaining'
             /\ pc = "sweep" /\ route[i] = s => remaining' = 0
    PROVE  Carried(s)'
<1>1. i \in 1 .. N /\ N' = N /\ N \in Nat /\ pc \in {"place", "sweep"} /\ remaining > 0
  BY FillContext DEF Filling, N
<1> SUFFICES ASSUME Good(s)' PROVE Reached(s)' /\ CarriesOn(s)' /\ (pc = "sweep" => SweptUp(s)')
  BY <1>1 DEF Carried
<1>2. Good(s) /\ Reached(s) /\ (pc = "sweep" => SweptUp(s))
  BY <1>1, GoodStays DEF Carried
<1>3. Reached(s)'
  BY <1>1, <1>2 DEF Reached
<1>4. OffersLeft' = OffersLeft - 1
  BY <1>1 DEF OffersLeft
<1>5. CarriesOn(s)'
  BY <1>2, <1>4 DEF CarriesOn
<1>6. ASSUME pc = "sweep", NEW k \in 1 .. N, route[k] = s, k < i + 1 PROVE remaining' = 0
  <2>1. ~ (k < i)
    BY <1>1, <1>2, <1>6 DEF SweptUp
  <2>2. k = i
    BY <1>1, <1>6, <2>1
  <2> QED
    BY <1>2, <1>6, <2>2
<1>7. pc = "sweep" => SweptUp(s)'
  BY <1>1, <1>6 DEF SweptUp
<1> QED
  BY <1>3, <1>5, <1>7

LEMMA PassOverCarries ==
    ASSUME IInv, NEW s, Carried(s), PassOver
    PROVE  Carried(s)'
<1>1. Filling /\ ~Worth /\ i' = i + 1 /\ UNCHANGED <<led, remaining, snap, pc, route, requested, depth, totalDepth>>
  BY DEF PassOver, Unaffected
<1>2. ASSUME Good(s)
      PROVE  /\ led'.pmIn >= (OffersLeft - 1) * requested
             /\ QuotableDepth(led', s) >= remaining'
             /\ pc = "sweep" /\ route[i] = s => remaining' = 0
  <2>1. led.pmIn >= (OffersLeft - 1) * requested
    BY <1>1, <1>2, OfferCarries
  <2>2. QuotableDepth(led, s) >= remaining
    BY <1>1, <1>2 DEF Filling, Carried, CarriesOn
  <2>3. ASSUME pc = "sweep", route[i] = s PROVE FALSE
    <3>1. depth[i] > 0
      BY <1>1, <1>2, <2>3, GoodDelivers
    <3>2. Offer > 0
      BY <1>1, <2>3 DEF Offer, Filling
    <3> QED
      BY <1>1, <3>1, <3>2 DEF Worth
  <2> QED
    BY <1>1, <2>1, <2>2, <2>3
<1> QED
  BY <1>1, <1>2, StepCarries

LEMMA SkipOnQuoteCarries ==
    ASSUME IInv, NEW s, Carried(s), SkipOnQuote
    PROVE  Carried(s)'
<1>1. Filling /\ i' = i + 1 /\ UNCHANGED <<led, remaining, snap, pc, route, requested, depth, totalDepth>>
  BY DEF SkipOnQuote, Unaffected
<1>2. ASSUME Good(s)
      PROVE  /\ led'.pmIn >= (OffersLeft - 1) * requested
             /\ QuotableDepth(led', s) >= remaining'
             /\ pc = "sweep" /\ route[i] = s => remaining' = 0
  <2>1. led.pmIn >= (OffersLeft - 1) * requested
    BY <1>1, <1>2, OfferCarries
  <2>2. QuotableDepth(led, s) >= remaining
    BY <1>1, <1>2 DEF Filling, Carried, CarriesOn
  <2>3. route[i] # s
    BY <1>1, <1>2, GoodDelivers
  <2> QED
    BY <1>1, <2>1, <2>2, <2>3
<1> QED
  BY <1>1, <1>2, StepCarries

LEMMA BorrowLeaves ==
    ASSUME NEW s, NEW x PROVE QuotableDepth(Borrow(x), s) = QuotableDepth(led, s)
BY DEF QuotableDepth, Backing, IsLive, Borrow

LEMMA SkipOnSwapCarries ==
    ASSUME IInv, NEW s, Carried(s), SkipOnSwap
    PROVE  Carried(s)'
<1>1. /\ Filling /\ i' = i + 1 /\ UNCHANGED <<remaining, snap, pc, route, requested, depth, totalDepth>>
      /\ led' = Borrow(Offer)
  BY DEF SkipOnSwap, Quoted, Unaffected
<1>2. ASSUME Good(s)
      PROVE  /\ led'.pmIn >= (OffersLeft - 1) * requested
             /\ QuotableDepth(led', s) >= remaining'
             /\ pc = "sweep" /\ route[i] = s => remaining' = 0
  <2>1. Offer \in Nat /\ Offer <= led.pmIn /\ led.pmIn - Offer >= (OffersLeft - 1) * requested
    BY <1>1, <1>2, OfferCarries
  <2>2. led'.pmIn = led.pmIn - Offer
    BY <1>1, <2>1, BorrowKeepsAmounts DEF IInv, TypeOK
  <2>3. QuotableDepth(led, s) >= remaining
    BY <1>1, <1>2 DEF Filling, Carried, CarriesOn
  <2>4. QuotableDepth(led', s) = QuotableDepth(led, s)
    BY <1>1, BorrowLeaves
  <2>5. route[i] # s
    BY <1>1, <1>2, GoodDelivers
  <2> QED
    BY <1>1, <2>1, <2>2, <2>3, <2>4, <2>5
<1> QED
  BY <1>1, <1>2, StepCarries

LEMMA FillCarries ==
    ASSUME IInv, NEW s, Carried(s), Fill
    PROVE  Carried(s)'
<1>1. Filling /\ i' = i + 1 /\ UNCHANGED <<snap, pc, route, requested, depth, totalDepth>>
  BY DEF Fill, Quoted, Unaffected
<1>2. PICK r \in SwapResults(route[i], Offer) :
        /\ led' = Exchanged(Borrow(Offer), route[i], r.used, r.out)
        /\ remaining' = remaining - r.used
  BY DEF Fill
<1>3. ASSUME Good(s)
      PROVE  /\ led'.pmIn >= (OffersLeft - 1) * requested
             /\ QuotableDepth(led', s) >= remaining'
             /\ pc = "sweep" /\ route[i] = s => remaining' = 0
  <2>1. Offer \in Nat /\ Offer <= led.pmIn /\ led.pmIn - Offer >= (OffersLeft - 1) * requested
    BY <1>1, <1>3, OfferCarries
  <2>2. /\ Borrow(Offer) \in Ledger /\ Borrow(Offer).pmIn = led.pmIn - Offer
        /\ led \in Ledger /\ remaining \in Nat /\ i \in 1 .. N /\ route[i] \in Strategies
    BY <1>1, <2>1, BorrowKeepsAmounts, FillContext DEF IInv, TypeOK
  <2>3. led'.pmIn = led.pmIn - Offer
    BY <1>2, <2>2 DEF Exchanged, Ledger
  <2>4. QuotableDepth(led, s) >= remaining
    BY <1>1, <1>3 DEF Filling, Carried, CarriesOn
  <2>5. QuotableDepth(Borrow(Offer), s) = QuotableDepth(led, s)
    BY BorrowLeaves
  <2>6. /\ s \in Strategies
        /\ \A j \in 1 .. N : OwnerOf[route[j]] = OwnerOf[s] => route[j] = s
    BY <1>3, GoodIsListed DEF IInv
  <2>7. CASE route[i] = s
    <3>1. r.used = Offer /\ r.out = Offer
      BY <1>1, <1>2, <1>3, <2>7, GoodDelivers
    <3>2. remaining > 0
      BY <1>1 DEF Filling
    <3>3. IsLive(Borrow(Offer), s)
      BY <2>2, <2>4, <2>5, <3>2 DEF QuotableDepth
    <3>4. QuotableDepth(led', s) >= remaining - Offer
      BY <1>2, <2>1, <2>2, <2>4, <2>5, <2>6, <2>7, <3>1, <3>3, OwnTakes
    <3>5. pc = "sweep" => Offer = remaining
      BY DEF Offer
    <3> QED
      BY <1>2, <2>1, <2>2, <2>3, <3>1, <3>4, <3>5
  <2>8. CASE route[i] # s
    <3>1. QuotableDepth(led', s) = QuotableDepth(led, s)
      BY <1>2, <2>2, <2>5, <2>6, <2>8, OthersLeave
    <3>2. remaining' <= remaining
      BY <1>2, <2>1, <2>2, UsedIsAmount
    <3>3. QuotableDepth(led, s) \in Nat /\ remaining' \in Int
      BY <1>2, <2>1, <2>2, <2>6, DepthIsAmount, UsedIsAmount
    <3> QED
      BY <2>1, <2>2, <2>3, <2>4, <2>8, <3>1, <3>2, <3>3
  <2> QED
    BY <2>7, <2>8
<1> QED
  BY <1>1, <1>3, StepCarries

LEMMA NextCarries ==
    ASSUME IInv, NEW s, Carried(s), [AnyNext]_vars
    PROVE  Carried(s)'
<1>1. CASE Makers_ \/ RejectCall
  <2>1. pc' = "idle"
    BY <1>1 DEF Makers_, MakerMovesFunds, MakerApproves, MakerShips, MakerDocks, OtherPoolsMove,
              Elsewhere, ctx, RejectCall, End
  <2> QED
    BY <2>1, EndCarries
<1>2. CASE TakeFails \/ Pay
  <2>1. pc' = "idle"
    BY <1>2 DEF TakeFails, Pay, Revert, End
  <2> QED
    BY <2>1, EndCarries
<1>3. CASE SettleHook
  <2>1. CASE pc' = "idle"
    BY <2>1, EndCarries
  <2>2. CASE pc' # "idle"
    <3>1. pc = "settle" /\ pc' = "pay" /\ UNCHANGED <<snap, route, requested, depth, totalDepth>> /\ N' = N
      BY <1>3, <2>2 DEF SettleHook, Goto, Revert, End, N
    <3> SUFFICES ASSUME Good(s)' PROVE Reached(s)'
      BY <3>1 DEF Carried
    <3>2. Reached(s)
      BY <3>1, GoodStays DEF Carried
    <3> QED
      BY <3>1, <3>2 DEF Reached
  <2> QED
    BY <2>1, <2>2
<1>4. CASE UNCHANGED vars
  <2>1. UNCHANGED <<led, snap, pc, i, route, requested, depth, totalDepth, remaining>> /\ N' = N
    BY <1>4 DEF vars, ctx, N
  <2>2. OffersLeft' = OffersLeft /\ QuotableDepth(led, s)' = QuotableDepth(led, s)
    BY <2>1 DEF OffersLeft
  <2>3. Good(s)' => Good(s)
    BY <2>1, GoodStays
  <2>4. Reached(s) => Reached(s)'
    BY <2>1 DEF Reached
  <2>5. CarriesOn(s) => CarriesOn(s)'
    BY <2>1, <2>2 DEF CarriesOn
  <2>6. SweptUp(s) => SweptUp(s)'
    BY <2>1 DEF SweptUp
  <2> QED
    BY <2>1, <2>3, <2>4, <2>5, <2>6 DEF Carried
<1> QED
  BY <1>1, <1>2, <1>3, <1>4, SwapCarries, ReadCarries, AfterCarries, DustCarries, NextPassCarries,
     PassOverCarries, SkipOnQuoteCarries, FillCarries, SkipOnSwapCarries DEF AnyNext, AnyCall, Execute

\* With a good maker on the route no revert finds input left.
LEMMA GoodIsFilled ==
    ASSUME IInv, Counting', NEW s, Good(s), Carried(s), [AnyNext]_vars
    PROVE  ~Refused
<1> SUFFICES ASSUME pc # "idle", pc' = "idle", remaining > 0 PROVE FALSE
  BY DEF Refused
<1>0. remaining \in Nat /\ requested \in Nat /\ requested > 0 /\ N \in Nat /\ led \in Ledger /\ snap \in Ledger
  BY DEF IInv, TypeOK, N
<1>1. Execute
  BY DEF AnyNext, Makers_, MakerMovesFunds, MakerApproves, MakerShips, MakerDocks,
         OtherPoolsMove, Elsewhere, AnyCall, RejectCall, Swap, vars
<1>2. CASE AfterDepth
  <2>1. pc = "depth" /\ i > N /\ i \in 1 .. N + 1 /\ led = snap /\ Reached(s) /\ totalDepth \in Nat
    BY <1>2 DEF AfterDepth, IInv, TypeOK, Starting, Carried, N
  <2>2. PICK j \in 1 .. N : route[j] = s
    BY GoodIsListed DEF IInv
  <2>3. depth[j] \in Nat
    BY <2>2 DEF IInv, TypeOK, N
  <2>4. requested <= depth[j] /\ depth[j] <= totalDepth
    BY <1>0, <2>1, <2>2 DEF Reached
  <2>5. totalDepth > 0
    BY <1>0, <2>1, <2>3, <2>4
  <2>6. requested <= led.pmIn
    <3>1. led.pmIn >= 2 * N * requested /\ led.pmIn \in Nat
      BY <1>0, <2>1 DEF Good, Ledger
    <3>2. PICK m \in Nat : 2 * N = m + 1
      <4>1. 2 * N - 1 \in Nat /\ 2 * N = (2 * N - 1) + 1
        BY <1>0, <2>2
      <4> QED
        BY <4>1
    <3>3. led.pmIn >= (m + 1) * requested
      BY <3>1, <3>2
    <3> QED
      BY <1>0, <3>1, <3>3, OneLess
  <2> QED
    BY <1>0, <1>2, <2>5, <2>6 DEF AfterDepth, Goto, Ledger
<1>3. CASE CountDust
  <2>1. outcome' = "Underflow"
    BY <1>3 DEF CountDust, Revert, End, Goto
  <2> QED
    BY <2>1 DEF Counting
<1>4. CASE TakeFails
  <2>1. Filling /\ led.pmIn < Offer
    BY <1>4 DEF TakeFails, Quoted
  <2>2. Offer <= led.pmIn /\ Offer \in Nat /\ led.pmIn \in Nat
    BY <1>0, <2>1, OfferCarries DEF Ledger
  <2> QED
    BY <2>1, <2>2
<1>5. CASE SettleHook
  BY <1>5, <1>0 DEF SettleHook, Carried
<1>6. CASE Pay
  BY <1>6, <1>0 DEF Pay, IInv, Paying
<1>7. CASE ReadDepth \/ PassOver \/ SkipOnQuote \/ Fill \/ SkipOnSwap \/ NextPass
  BY <1>7 DEF ReadDepth, PassOver, SkipOnQuote, Fill, SkipOnSwap, NextPass, Onwards, Goto, Unaffected
<1> QED
  BY <1>1, <1>2, <1>3, <1>4, <1>5, <1>6, <1>7 DEF Execute

AllCarried == \A s \in Strategies : Carried(s)

LEMMA AnyGoodMakerSuffices == AnySpec => OneGoodMakerIsEnough
<1>1. Init => AllCarried
  BY DEF Init, AllCarried, Carried
<1>2. IInv /\ AllCarried /\ [AnyNext]_vars => AllCarried'
  BY NextCarries DEF AllCarried
<1>3. Init => Counting
  BY DEF Init, NoSwap, Counting
<1>4. AnySpec => []Counting
  BY <1>3, NextCounts, AnyInductive, PTL DEF AnySpec
<1>5. AnySpec => []AllCarried
  BY <1>1, <1>2, AnyInductive, PTL DEF AnySpec
<1>6. IInv /\ Counting' /\ AllCarried /\ [AnyNext]_vars =>
        [(/\ \E s \in Strategies : CanCarry(s)
          /\ snap.pmIn >= 2 * N * requested) => ~Refused]_vars
  BY GoodIsFilled DEF AllCarried, Good
<1> QED
  BY <1>4, <1>5, <1>6, AnyInductive, PTL DEF AnySpec, OneGoodMakerIsEnough

-----------------------------------------------------------------------------
(* The remainder of the division travels with the first slice.  The rounded *)
(* shares are carried as the sums that the dust loop goes through.          *)

Cuts(sum, n) ==
    /\ sum[1] = 0 /\ sum[n] + dust = requested
    /\ \A j \in 1 .. n - 1 : sum[j + 1] = sum[j] + ProRata(j)

Undisturbed == skipped = FALSE /\ depth[1] > 0 /\ \A j \in 1 .. N : route[j] \in Faithful

\* What the shares before the i-th, and the dust once it is under way, amount to.
Rides ==
    /\ pc \notin {"idle", "depth"} => N > 0
    /\ pc = "dust" => \E sum \in [1 .. i -> 0 .. requested - dust] : Cuts(sum, i)
    /\ pc = "place" =>
         \E sum \in [1 .. N + 1 -> 0 .. requested - dust] :
            /\ Cuts(sum, N + 1)
            /\ Undisturbed => remaining + sum[i] + (IF i = 1 THEN 0 ELSE dust) = requested
    /\ pc = "sweep" => (Undisturbed => remaining = 0)

LEMMA AfterRides == IInv /\ Counting /\ AfterDepth => Rides'
<1> SUFFICES ASSUME IInv, Counting, AfterDepth PROVE Rides'
  OBVIOUS
<1>1. CASE pc' = "idle"
  BY <1>1 DEF Rides
<1>2. CASE pc' # "idle"
  <2>1. pc' = "dust" /\ i' = 1 /\ dust' = requested /\ UNCHANGED <<route, requested, depth, totalDepth>> /\ totalDepth > 0
    BY <1>2 DEF AfterDepth, Revert, End, Goto
  <2>2. pc = "depth" /\ i = N + 1 /\ N \in Nat /\ N' = N /\ requested \in Nat
    BY <2>1 DEF AfterDepth, IInv, TypeOK, N
  <2>3. N > 0
    <3>1. PICK sum \in [1 .. N + 1 -> 0 .. totalDepth] : Summed(sum, N + 1)
      BY <2>2 DEF Counting
    <3>2. sum[1] = 0 /\ sum[N + 1] = totalDepth
      BY <3>1 DEF Summed
    <3> QED
      BY <2>1, <2>2, <3>2
  <2> DEFINE sum == [k \in 1 .. 1 |-> 0]
  <2>4. sum \in [1 .. 1 -> 0 .. 0] /\ sum[1] = 0
    OBVIOUS
  <2>5. requested' - dust' = 0 /\ 0 + dust' = requested'
    BY <2>1, <2>2
  <2> HIDE DEF sum
  <2>6. Cuts(sum, 1)'
    BY <2>4, <2>5 DEF Cuts
  <2> QED
    BY <2>1, <2>2, <2>3, <2>4, <2>5, <2>6 DEF Rides
<1> QED
  BY <1>1, <1>2

LEMMA ShareIsAmount ==
    ASSUME IInv, pc \notin {"idle", "depth"}, NEW j \in 1 .. N
    PROVE  ProRata(j) \in Nat /\ (depth[j] = 0 => ProRata(j) = 0)
<1>1. depth[j] \in Nat /\ requested \in Nat /\ totalDepth \in Nat /\ totalDepth > 0
  BY DEF IInv, TypeOK, N
<1>2. ProRata(j) \in Nat
  BY <1>1, DivisionIsAmount DEF ProRata
<1>3. ASSUME depth[j] = 0 PROVE ProRata(j) = 0
  <2>1. requested * 0 = 0 /\ 0 \div totalDepth = 0
    BY <1>1
  <2> QED
    BY <1>3, <2>1 DEF ProRata
<1> QED
  BY <1>2, <1>3

LEMMA DustRides == IInv /\ Rides /\ CountDust => Rides'
<1> SUFFICES ASSUME IInv, Rides, CountDust PROVE Rides'
  OBVIOUS
<1>1. CASE pc' = "idle"
  BY <1>1 DEF Rides
<1>2. CASE pc' = "dust"
  <2>1. /\ pc = "dust" /\ i \in 1 .. N /\ N \in Nat /\ i' = i + 1 /\ dust' = dust - ProRata(i)
        /\ UNCHANGED <<route, requested, depth, totalDepth>> /\ ~ (dust < ProRata(i))
        /\ requested \in Nat /\ dust \in Nat
    BY <1>2 DEF CountDust, Revert, End, Goto, IInv, TypeOK, N
  <2>2. ProRata(i) \in Nat
    BY <2>1, ShareIsAmount
  <2>3. N' = N /\ N > 0 /\ \A j : ProRata(j)' = ProRata(j)
    BY <2>1 DEF Rides, N, ProRata
  <2>4. PICK sum \in [1 .. i -> 0 .. requested - dust] : Cuts(sum, i)
    BY <2>1 DEF Rides
  <2>5. sum[1] = 0 /\ sum[i] + dust = requested /\ \A j \in 1 .. i - 1 : sum[j + 1] = sum[j] + ProRata(j)
    BY <2>4 DEF Cuts
  <2>14. PICK p \in Nat : p = ProRata(i)
    BY <2>2
  <2>15. PICK top \in Int : top = requested - dust'
    BY <2>1, <2>14
  <2> DEFINE next == [k \in 1 .. i + 1 |-> IF k <= i THEN sum[k] ELSE top]
  <2>6. top \in Nat /\ top = (requested - dust) + p /\ dust' \in Nat /\ dust' + top = requested /\ p \in Nat
    <3>1. sum[i] \in 0 .. requested - dust
      BY <2>1
    <3>2. dust' = dust - p /\ p <= dust
      BY <2>1, <2>14
    <3> QED
      BY <2>1, <2>5, <2>15, <3>1, <3>2
  <2>7. \A k \in 1 .. i : next[k] = sum[k] /\ sum[k] \in 0 .. requested - dust
    BY <2>1, <2>4
  <2>8. next[i + 1] = top
    BY <2>1
  <2>9. next \in [1 .. i + 1 -> 0 .. top]
    <3>1. \A k \in 1 .. i + 1 : next[k] \in 0 .. top
      <4> SUFFICES ASSUME NEW k \in 1 .. i + 1 PROVE next[k] \in 0 .. top
        OBVIOUS
      <4>1. k \in 1 .. i \/ k = i + 1
        BY <2>1
      <4>2. \A x \in 0 .. requested - dust : x \in 0 .. top
        BY <2>1, <2>6
      <4>3. top \in 0 .. top
        BY <2>6
      <4> QED
        BY <2>7, <2>8, <4>1, <4>2, <4>3
    <3> QED
      BY <3>1
  <2> HIDE DEF next
  <2>10. next[1] = 0
    BY <2>1, <2>5, <2>7
  <2>11. ASSUME NEW j \in 1 .. (i + 1) - 1 PROVE next[j + 1] = next[j] + ProRata(j)
    <3>1. CASE j = i
      <4>1. next[j] = sum[i] /\ next[j + 1] = top /\ sum[i] \in 0 .. requested - dust
        BY <2>1, <2>7, <2>8, <3>1
      <4>2. ProRata(j) = p
        BY <2>14, <3>1
      <4>3. sum[i] = requested - dust
        <5>1. requested \in Nat /\ dust \in Nat /\ sum[i] \in Int /\ sum[i] + dust = requested
          BY <2>1, <2>5, <4>1
        <5> QED
          BY <5>1
      <4>4. top = (requested - dust) + p
        BY <2>6
      <4> QED
        BY <4>1, <4>2, <4>3, <4>4
    <3>2. CASE j # i
      <4>1. j \in 1 .. i - 1 /\ j \in 1 .. i /\ j + 1 \in 1 .. i
        BY <2>1, <3>2
      <4> QED
        BY <2>5, <2>7, <4>1
    <3> QED
      BY <3>1, <3>2
  <2>12. /\ next \in [1 .. i' -> 0 .. requested' - dust'] /\ next[1] = 0 /\ next[i'] + dust' = requested'
         /\ \A j \in 1 .. i' - 1 : next[j + 1] = next[j] + ProRata(j)'
    <3>0. requested' = requested
      BY <2>1
    <3>1. requested' - dust' = top /\ top + dust' = requested'
      BY <2>6, <2>15, <3>0
    <3> QED
      BY <2>1, <2>3, <2>8, <2>9, <2>10, <2>11, <3>1
  <2>13. \E s \in [1 .. i' -> 0 .. requested' - dust'] : Cuts(s, i)'
    BY <2>12 DEF Cuts
  <2> QED
    BY <1>2, <2>3, <2>13 DEF Rides
<1>3. CASE pc' = "place"
  <2>1. /\ pc = "dust" /\ i = N + 1 /\ N \in Nat /\ i' = 1 /\ remaining = requested /\ requested \in Nat
        /\ UNCHANGED <<route, requested, depth, totalDepth, dust, remaining, skipped>>
    BY <1>3 DEF CountDust, Revert, End, Goto, IInv, TypeOK, Starting, N
  <2>2. N' = N /\ N > 0 /\ \A j : ProRata(j)' = ProRata(j)
    BY <2>1 DEF Rides, N, ProRata
  <2>3. PICK sum \in [1 .. N + 1 -> 0 .. requested - dust] : Cuts(sum, N + 1)
    BY <2>1 DEF Rides
  <2>4. Cuts(sum, N + 1)'
    BY <2>1, <2>2, <2>3 DEF Cuts
  <2>5. remaining' + sum[i'] + (IF i' = 1 THEN 0 ELSE dust') = requested'
    BY <2>1, <2>3 DEF Cuts
  <2> QED
    BY <1>3, <2>1, <2>2, <2>3, <2>4, <2>5 DEF Rides
<1> QED
  BY <1>1, <1>2, <1>3 DEF CountDust, Revert, End, Goto

\* Among faithful makers the slice is the share, the first one's with the dust.
LEMMA OfferRides ==
    ASSUME IInv, Rides, Filling, Undisturbed
    PROVE  /\ pc = "place" /\ i \in 1 .. N
           /\ \A sum \in [1 .. N + 1 -> 0 .. requested - dust] :
                Cuts(sum, N + 1) /\ remaining + sum[i] + (IF i = 1 THEN 0 ELSE dust) = requested
                  => remaining - Offer + sum[i + 1] + dust = requested
           /\ ~Worth => Offer = 0
<1>1. pc = "place" /\ i \in 1 .. N /\ N \in Nat
  BY FillContext DEF Filling, Rides
<1>2. /\ remaining \in Nat /\ requested \in Nat /\ dust \in Nat /\ ProRata(i) \in Nat /\ Offer \in Nat
      /\ (depth[i] = 0 => ProRata(i) = 0) /\ depth[i] \in Nat
  BY <1>1, FillContext, ShareIsAmount DEF IInv, TypeOK
<1>3. Offer = Lesser(ProRata(i) + (IF i = 1 THEN dust ELSE 0), remaining)
  BY <1>1 DEF Offer
<1>4. ~Worth => Offer = 0
  <2>1. CASE i = 1
    BY <1>2, <2>1 DEF Worth, Undisturbed
  <2>2. CASE i # 1
    BY <1>2, <1>3, <2>2 DEF Worth, Lesser
  <2> QED
    BY <2>1, <2>2
<1>5. ASSUME NEW sum \in [1 .. N + 1 -> 0 .. requested - dust], Cuts(sum, N + 1),
             remaining + sum[i] + (IF i = 1 THEN 0 ELSE dust) = requested
      PROVE  remaining - Offer + sum[i + 1] + dust = requested
  <2>1. sum[i] \in 0 .. requested - dust /\ sum[i + 1] \in 0 .. requested - dust
    BY <1>1
  <2>2. sum[1] = 0 /\ sum[i + 1] = sum[i] + ProRata(i)
    BY <1>1, <1>5 DEF Cuts
  <2>3. ProRata(i) + (IF i = 1 THEN dust ELSE 0) <= remaining
    BY <1>2, <1>5, <2>1, <2>2
  <2>4. Offer = ProRata(i) + (IF i = 1 THEN dust ELSE 0)
    BY <1>2, <1>3, <2>3 DEF Lesser
  <2>5. CASE i = 1
    <3>1. Offer = sum[i + 1] + dust /\ remaining = requested
      BY <1>2, <1>5, <2>1, <2>2, <2>4, <2>5
    <3>2. sum[i + 1] \in Int /\ dust \in Int /\ requested \in Int
      BY <1>2, <2>1
    <3> QED
      BY <3>1, <3>2
  <2>6. CASE i # 1
    <3>1. Offer = ProRata(i) /\ remaining + sum[i] + dust = requested
      BY <1>2, <1>5, <2>4, <2>6
    <3> QED
      BY <1>2, <2>1, <2>2, <3>1
  <2> QED
    BY <2>5, <2>6
<1> QED
  BY <1>1, <1>4, <1>5

LEMMA FillRides == IInv /\ Rides /\ (PassOver \/ Fill \/ SkipOnQuote \/ SkipOnSwap) => Rides'
<1> SUFFICES ASSUME IInv, Rides, PassOver \/ Fill \/ SkipOnQuote \/ SkipOnSwap PROVE Rides'
  OBVIOUS
<1>1. /\ Filling /\ i' = i + 1 /\ i \in 1 .. N /\ N \in Nat
      /\ UNCHANGED <<pc, route, requested, depth, totalDepth, dust>>
  BY FillContext DEF PassOver, SkipOnQuote, Fill, SkipOnSwap, Quoted, Unaffected
<1>2. N' = N /\ \A j : ProRata(j)' = ProRata(j)
  BY <1>1 DEF N, ProRata
<1>3. Undisturbed' => Undisturbed /\ (PassOver \/ Fill)
  BY <1>1, <1>2 DEF Undisturbed, PassOver, Fill, SkipOnQuote, SkipOnSwap
<1>4. ASSUME Undisturbed, PassOver \/ Fill PROVE remaining' = remaining - Offer
  <2>1. CASE PassOver
    <3>1. Offer = 0 /\ remaining' = remaining /\ remaining \in Nat
      BY <1>4, <1>1, <2>1, OfferRides DEF PassOver, IInv, TypeOK
    <3> QED
      BY <3>1
  <2>2. CASE Fill
    <3>1. PICK r \in SwapResults(route[i], Offer) : remaining' = remaining - r.used
      BY <2>2 DEF Fill
    <3>2. route[i] \in Faithful
      BY <1>1, <1>4 DEF Undisturbed
    <3>3. r.used = Offer
      BY <3>2 DEF SwapResults
    <3> QED
      BY <3>1, <3>3
  <2> QED
    BY <1>4, <2>1, <2>2
<1>5. CASE pc = "place"
  <2>1. PICK sum \in [1 .. N + 1 -> 0 .. requested - dust] :
            /\ Cuts(sum, N + 1)
            /\ Undisturbed => remaining + sum[i] + (IF i = 1 THEN 0 ELSE dust) = requested
    BY <1>5 DEF Rides
  <2>2. Cuts(sum, N + 1)'
    BY <1>1, <1>2, <2>1 DEF Cuts
  <2>3. ASSUME Undisturbed' PROVE remaining' + sum[i'] + (IF i' = 1 THEN 0 ELSE dust') = requested'
    <3>1. Undisturbed /\ remaining' = remaining - Offer
      BY <1>3, <1>4, <2>3
    <3>2. remaining - Offer + sum[i + 1] + dust = requested
      BY <1>1, <2>1, <3>1, OfferRides
    <3> QED
      BY <1>1, <3>1, <3>2
  <2> QED
    BY <1>1, <1>2, <1>5, <2>1, <2>2, <2>3 DEF Rides
<1>6. CASE pc = "sweep"
  <2>1. ~Undisturbed
    BY <1>1, <1>6, OfferRides
  <2> QED
    BY <1>1, <1>2, <1>3, <1>6, <2>1 DEF Rides
<1> QED
  BY <1>1, <1>5, <1>6 DEF Filling

LEMMA NextPassRides == IInv /\ Rides /\ NextPass => Rides'
<1> SUFFICES ASSUME IInv, Rides, NextPass PROVE Rides'
  OBVIOUS
<1>1. /\ UNCHANGED <<route, requested, depth, totalDepth, dust, remaining, skipped>> /\ Done
      /\ pc \in {"place", "sweep"} /\ pc' = (IF pc = "place" THEN "sweep" ELSE "settle")
      /\ i \in 1 .. N + 1 /\ N \in Nat /\ N' = N /\ N > 0 /\ remaining \in Nat /\ dust \in Nat /\ requested \in Nat
  BY DEF NextPass, Onwards, Goto, IInv, TypeOK, Rides, N
<1>2. Undisturbed' = Undisturbed
  BY <1>1 DEF Undisturbed
<1>3. ASSUME pc = "place", Undisturbed PROVE remaining = 0
  <2>1. PICK sum \in [1 .. N + 1 -> 0 .. requested - dust] :
            /\ Cuts(sum, N + 1)
            /\ remaining + sum[i] + (IF i = 1 THEN 0 ELSE dust) = requested
    BY <1>3 DEF Rides
  <2>2. ASSUME i = N + 1 PROVE remaining = 0
    <3>1. sum[N + 1] + dust = requested /\ sum[N + 1] \in 0 .. requested - dust
      BY <1>1, <2>1 DEF Cuts
    <3>2. remaining + sum[N + 1] + dust = requested
      BY <1>1, <2>1, <2>2
    <3> QED
      BY <1>1, <3>1, <3>2
  <2> QED
    BY <1>1, <2>2 DEF Done
<1> QED
  BY <1>1, <1>2, <1>3 DEF Rides

LEMMA NextRides == IInv /\ Counting /\ Rides /\ [AnyNext]_vars => Rides'
<1> SUFFICES ASSUME IInv, Counting, Rides, [AnyNext]_vars PROVE Rides'
  OBVIOUS
<1>1. CASE Makers_ \/ AnyCall
  <2>1. pc' = "idle" \/ pc' = "depth"
    BY <1>1 DEF Makers_, MakerMovesFunds, MakerApproves, MakerShips, MakerDocks, OtherPoolsMove,
              Elsewhere, ctx, AnyCall, RejectCall, Swap, Goto, End
  <2> QED
    BY <2>1 DEF Rides
<1>2. CASE ReadDepth
  BY <1>2 DEF ReadDepth, Rides
<1>3. CASE TakeFails \/ Pay
  BY <1>3 DEF TakeFails, Pay, Revert, End, Rides
<1>4. CASE SettleHook
  BY <1>4 DEF SettleHook, Goto, Revert, End, Rides, N
<1>5. CASE UNCHANGED vars
  <2>1. UNCHANGED <<pc, i, route, requested, depth, totalDepth, dust, remaining, skipped>> /\ N' = N
    BY <1>5 DEF vars, ctx, N
  <2>2. Undisturbed' = Undisturbed /\ \A sum, n : Cuts(sum, n)' = Cuts(sum, n)
    BY <2>1 DEF Undisturbed, Cuts, ProRata
  <2> QED
    BY <2>1, <2>2 DEF Rides, Cuts, ProRata
<1> QED
  BY <1>1, <1>2, <1>3, <1>4, <1>5, AfterRides, DustRides, FillRides, NextPassRides DEF AnyNext, Execute

LEMMA AnyNoSliceOfDust == AnySpec => []RemainderRidesFirst
<1>1. Init => Counting /\ Rides
  BY DEF Init, NoSwap, Counting, Rides
<1>2. AnySpec => []Counting
  BY <1>1, NextCounts, AnyInductive, PTL DEF AnySpec
<1>3. AnySpec => []Rides
  BY <1>1, <1>2, NextRides, AnyInductive, PTL DEF AnySpec
<1>4. Rides => RemainderRidesFirst
  BY DEF Rides, RemainderRidesFirst, Undisturbed
<1> QED
  BY <1>3, <1>4, PTL

-----------------------------------------------------------------------------
(* The theorems, for the calls of Tap's own specification.                  *)

LEMMA Called == Spec => AnySpec
<1>1. [Next]_vars => [AnyNext]_vars
  BY TapAssumption DEF Next, Call, AnyNext, AnyCall
<1> QED
  BY <1>1, PTL DEF Spec, AnySpec

\* Every variable of the swap keeps its type: no balance, share or remainder of
\* beforeSwap ever goes below zero, whatever the router answers.
THEOREM TypeCorrect == Spec => []TypeOK
BY AnyTypeCorrect, Called, PTL

\* Tap strands nothing: between transactions it holds no token and has no
\* allowance standing, for every route, program and maker.
THEOREM NothingStranded == Spec => []HookKeepsNothing
BY AnyNothingStranded, Called, PTL

\* The accounts of beforeSwap between fills: input placed plus input left, the
\* hook's holdings and its debt to the PoolManager always agree.
THEOREM AccountsAgree == Spec => []FillAccounts
BY AnyAccountsAgree, Called, PTL

\* A swap is whole or nothing: it charges exactly the amount asked for and pays
\* at least the floor, or leaves every balance as it was.
THEOREM WholeOrNothing == Spec => AllOrNothing
BY AnyWholeOrNothing, Called, PTL

(***************************************************************************)
(* Tap behind Wellhead implements the atomic swap: whatever makers, their  *)
(* programs and the route do, what anyone but a maker sees of a swap       *)
(* happens in one step or not at all (Wellhead.sol, Tap.sol:91-275).       *)
(***************************************************************************)
THEOREM SwapsAreAtomic == Spec => IsAtomic
BY AnySwapsAreAtomic, Called, PTL

(***************************************************************************)
(* The PoolManager never finds the hook's delta open, settlement never     *)
(* lacks the tokens it owes, and the rounded shares never sum to more than *)
(* the input, whatever makers, depths and routes there are                 *)
(* (Tap.sol:115-203).                                                      *)
(***************************************************************************)
THEOREM BooksClose == Spec => []BooksAlwaysClose
BY AnyBooksClose, Called, PTL

\* The accounts of beforeSwap are well formed, add up between any two of its
\* steps and can be settled, and nothing is left in the hook between swaps
\* (Tap.sol:91-215).
THEOREM Consistent == Spec => []TapInv
<1>1. TypeOK /\ HookKeepsNothing /\ FillAccounts /\ BooksAlwaysClose => TapInv
  BY DEF TapInv
<1> QED
  BY <1>1, TypeCorrect, NothingStranded, AccountsAgree, BooksClose, PTL

(***************************************************************************)
(* A maker who could carry the whole swap makes it succeed: whatever the   *)
(* others on the route quote, take, keep or refuse, nothing of the input   *)
(* stays unplaced, provided the PoolManager can lend every offer of both   *)
(* passes (Tap.sol:137-188, 246-272).                                      *)
(***************************************************************************)
THEOREM GoodMakerSuffices == Spec => OneGoodMakerIsEnough
BY AnyGoodMakerSuffices, Called, PTL

(***************************************************************************)
(* The remainder of the pro-rata division is never offered on its own: on  *)
(* a route of faithful makers whose first has any depth, a sweep finds     *)
(* something left only when a maker was skipped (Tap.sol:141-171).         *)
(***************************************************************************)
THEOREM NoSliceOfDust == Spec => []RemainderRidesFirst
BY AnyNoSliceOfDust, Called, PTL

-----------------------------------------------------------------------------
(* Numbers, finite sets, and functions defined by recursion.                *)

LEMMA Least == ASSUME NEW T, T \subseteq Nat, T # {} PROVE \E n \in T : \A m \in T : n <= m
<1> DEFINE R == OpToRel(<, Nat)
<1>1. IsWellFoundedOn(R, Nat)
  BY NatLessThanWellFounded
<1>2. \A m, n \in Nat : m < n => <<m, n>> \in R
  BY DEF OpToRel
<1> HIDE DEF R
<1>3. PICK n \in T : \A m \in T : ~ (<<m, n>> \in R)
  BY <1>1, WFMin
<1>4. \A m \in T : ~ (m < n)
  BY <1>2, <1>3
<1> QED
  BY <1>3, <1>4

\* What holds of 0, and of a number when it holds of the one before, holds up to n.
LEMMA Climb ==
    ASSUME NEW n \in Nat, NEW Fine, 0 \in Fine, \A k \in 1 .. n : k - 1 \in Fine => k \in Fine
    PROVE  \A k \in 0 .. n : k \in Fine
<1> DEFINE Bad == {k \in 0 .. n : k \notin Fine}
<1>1. SUFFICES ASSUME Bad # {} PROVE FALSE
  OBVIOUS
<1>5. Bad \subseteq Nat
  OBVIOUS
<1>2. PICK k \in Bad : \A j \in Bad : k <= j
  BY <1>1, <1>5, Least
<1>3. k \in 1 .. n /\ k - 1 \in 0 .. n /\ k - 1 < k
  BY <1>2
<1>4. k - 1 \in Fine
  BY <1>2, <1>3
<1> QED
  BY <1>2, <1>3, <1>4

\* What holds of a finite set if it holds of every set whose smaller parts have it.
LEMMA Subsets ==
    ASSUME NEW S, IsFiniteSet(S), NEW Fine,
           ASSUME NEW T \in SUBSET S, \A U \in SUBSET T : U # T => U \in Fine PROVE T \in Fine
    PROVE  S \in Fine
<1> DEFINE Bad == {T \in SUBSET S : T \notin Fine}
<1>1. SUFFICES ASSUME Bad # {} PROVE FALSE
  OBVIOUS
<1>2. IsWellFoundedOn(StrictSubsetOrdering(S), FiniteSubsetsOf(S))
  BY FS_StrictSubsetOrderingWellFounded
<1>3. Bad \subseteq FiniteSubsetsOf(S)
  BY FS_FiniteSubsetsOfFinite
<1> HIDE DEF Bad
<1>4. PICK T \in Bad : \A U \in Bad : ~ (<<U, T>> \in StrictSubsetOrdering(S))
  BY <1>1, <1>2, <1>3, WFMin
<1>5. T \in SUBSET S /\ T \notin Fine
  BY DEF Bad
<1>6. ASSUME NEW U \in SUBSET T, U # T PROVE U \in Fine
  <2>1. U \in SUBSET S /\ <<U, T>> \in StrictSubsetOrdering(S)
    BY <1>5, <1>6 DEF StrictSubsetOrdering
  <2> QED
    BY <1>4, <2>1 DEF Bad
<1> QED
  BY <1>5, <1>6

LEMMA Extremes ==
    ASSUME NEW S \in SUBSET Int, IsFiniteSet(S), S # {}
    PROVE  /\ Max(S) \in S /\ \A y \in S : y <= Max(S)
           /\ Min(S) \in S /\ \A y \in S : Min(S) <= y
<1> DEFINE Fine == {T \in SUBSET S : T # {} => (\E x \in T : \A y \in T : x >= y) /\ (\E x \in T : \A y \in T : x <= y)}
<1>1. ASSUME NEW T \in SUBSET S, \A U \in SUBSET T : U # T => U \in Fine PROVE T \in Fine
  <2> SUFFICES ASSUME T # {}
               PROVE  (\E x \in T : \A y \in T : x >= y) /\ (\E x \in T : \A y \in T : x <= y)
    OBVIOUS
  <2>1. PICK p : p \in T
    OBVIOUS
  <2> DEFINE U == T \ {p}
  <2>2. U \in Fine /\ p \in Int /\ U \subseteq Int
    BY <1>1, <2>1
  <2>3. CASE U = {}
    <3>1. \A y \in T : y = p
      BY <2>3
    <3> QED
      BY <2>1, <2>2, <3>1
  <2>4. CASE U # {}
    <3>1. PICK a \in U : \A y \in U : a >= y
      BY <2>2, <2>4
    <3>2. PICK c \in U : \A y \in U : c <= y
      BY <2>2, <2>4
    <3>3. \A y \in T : y = p \/ y \in U
      OBVIOUS
    <3>4. \E x \in T : \A y \in T : x >= y
      <4>1. CASE a >= p
        BY <3>1, <3>3, <4>1, <2>2
      <4>2. CASE ~ (a >= p)
        BY <3>1, <3>3, <4>2, <2>1, <2>2
      <4> QED
        BY <4>1, <4>2
    <3>5. \E x \in T : \A y \in T : x <= y
      <4>1. CASE c <= p
        BY <3>2, <3>3, <4>1, <2>2
      <4>2. CASE ~ (c <= p)
        BY <3>2, <3>3, <4>2, <2>1, <2>2
      <4> QED
        BY <4>1, <4>2
    <3> QED
      BY <3>4, <3>5
  <2> QED
    BY <2>3, <2>4
<1> HIDE DEF Fine
<1>2. S \in Fine
  BY <1>1, Subsets
<1>3. (\E x \in S : \A y \in S : x >= y) /\ (\E x \in S : \A y \in S : x <= y)
  BY <1>2 DEF Fine
<1>4. Max(S) \in S /\ \A y \in S : Max(S) >= y
  BY <1>3 DEF Max
<1>5. Min(S) \in S /\ \A y \in S : Min(S) <= y
  BY <1>3 DEF Min
<1> QED
  BY <1>4, <1>5

\* A recursion over 0 .. n that stays in T.
Recurs(f, n, base, F) == f[0] = base /\ \A k \in 1 .. n : f[k] = F[k][f[k - 1]]

LEMMA Chains ==
    ASSUME NEW n \in Nat, NEW T, NEW base \in T, NEW F \in [1 .. n -> [T -> T]]
    PROVE  \E f \in [0 .. n -> T] : Recurs(f, n, base, F)
<1> DEFINE Fine == {m \in 0 .. n : \E f \in [0 .. m -> T] : f[0] = base /\ \A k \in 1 .. m : f[k] = F[k][f[k - 1]]}
<1>1. 0 \in Fine
  <2> DEFINE f == [k \in 0 .. 0 |-> base]
  <2>1. f \in [0 .. 0 -> T] /\ f[0] = base /\ \A k \in 1 .. 0 : f[k] = F[k][f[k - 1]]
    OBVIOUS
  <2> HIDE DEF f
  <2>2. 0 \in 0 .. n
    OBVIOUS
  <2> QED
    BY <2>1, <2>2
<1>2. ASSUME NEW m \in 1 .. n, m - 1 \in Fine PROVE m \in Fine
  <2>1. PICK f \in [0 .. m - 1 -> T] : f[0] = base /\ \A k \in 1 .. m - 1 : f[k] = F[k][f[k - 1]]
    BY <1>2
  <2>2. m - 1 \in 0 .. m - 1 /\ f[m - 1] \in T /\ F[m][f[m - 1]] \in T
    BY <2>1
  <2> DEFINE v == F[m][f[m - 1]]
             g == [k \in 0 .. m |-> IF k = m THEN v ELSE f[k]]
  <2>3. g \in [0 .. m -> T] /\ g[m] = v /\ \A k \in 0 .. m - 1 : g[k] = f[k]
    BY <2>1, <2>2
  <2>4. ASSUME NEW k \in 1 .. m PROVE g[k] = F[k][g[k - 1]]
    <3>1. k - 1 \in 0 .. m - 1 /\ g[k - 1] = f[k - 1]
      BY <2>3
    <3>2. CASE k = m
      BY <2>3, <3>1, <3>2
    <3>3. CASE k # m
      <4>1. k \in 1 .. m - 1 /\ k \in 0 .. m - 1
        BY <3>3
      <4> QED
        BY <2>1, <2>3, <3>1, <4>1
    <3> QED
      BY <3>2, <3>3
  <2>5. g[0] = base
    BY <2>1, <2>3
  <2> HIDE DEF g
  <2> QED
    BY <2>3, <2>4, <2>5
<1> HIDE DEF Fine
<1>3. \A k \in 0 .. n : k \in Fine
  BY <1>1, <1>2, Climb
<1>4. n \in Fine
  BY <1>3
<1> QED
  BY <1>4 DEF Fine, Recurs

-----------------------------------------------------------------------------
(* Sums.                                                                    *)

Total(w, S) == FoldFunctionOnSet(+, 0, w, S)

Pick(s) == CHOOSE x \in s : TRUE

\* What the sum over every part of a set is.
IsFold(w, S, f) ==
    f = [s \in SUBSET S |-> IF s = {} THEN 0 ELSE LET x == CHOOSE x \in s : TRUE IN w[x] + f[s \ {x}]]

LEMMA Folded == ASSUME NEW w, NEW S PROVE Total(w, S) = (CHOOSE f : IsFold(w, S, f))[S]
BY DEF Total, FoldFunctionOnSet, MapThenFoldSet, IsFold

LEMMA SumIs == ASSUME NEW w PROVE SumOf(w) = Total(w, DOMAIN w)
BY DEF SumOf, FoldFunction, Total

LEMMA FoldStep ==
    ASSUME NEW w, NEW S, NEW f, IsFold(w, S, f), NEW s \in SUBSET S
    PROVE  f[s] = IF s = {} THEN 0 ELSE w[Pick(s)] + f[s \ {Pick(s)}]
<1> DEFINE g == [t \in SUBSET S |-> IF t = {} THEN 0 ELSE LET x == CHOOSE x \in t : TRUE IN w[x] + f[t \ {x}]]
<1>1. f = g
  BY DEF IsFold
<1>2. g[s] = IF s = {} THEN 0 ELSE LET x == CHOOSE x \in s : TRUE IN w[x] + f[s \ {x}]
  OBVIOUS
<1> HIDE DEF g
<1> QED
  BY <1>1, <1>2 DEF Pick

LEMMA Picked == ASSUME NEW s, s # {} PROVE Pick(s) \in s
BY DEF Pick

LEMMA FoldUnique ==
    ASSUME NEW w, NEW S, NEW T, NEW f, NEW g, IsFold(w, S, f), IsFold(w, T, g), NEW U, U \in SUBSET S, U \in SUBSET T,
           IsFiniteSet(U)
    PROVE  f[U] = g[U]
<1> DEFINE Fine == {V \in SUBSET U : f[V] = g[V]}
<1>1. ASSUME NEW V \in SUBSET U, \A W \in SUBSET V : W # V => W \in Fine PROVE V \in Fine
  <2>1. CASE V = {}
    BY <2>1, FoldStep
  <2>2. CASE V # {}
    <3> DEFINE W == V \ {Pick(V)}
    <3>1. W \in SUBSET V /\ W # V
      BY <2>2, Picked
    <3>2. f[W] = g[W]
      BY <1>1, <3>1
    <3>3. V \in SUBSET S /\ V \in SUBSET T
      OBVIOUS
    <3>4. f[V] = w[Pick(V)] + f[W]
      <4>1. f[V] = IF V = {} THEN 0 ELSE w[Pick(V)] + f[V \ {Pick(V)}]
        BY <3>3, FoldStep
      <4> QED
        BY <2>2, <4>1
    <3>5. g[V] = w[Pick(V)] + g[W]
      <4>1. g[V] = IF V = {} THEN 0 ELSE w[Pick(V)] + g[V \ {Pick(V)}]
        BY <3>3, FoldStep
      <4> QED
        BY <2>2, <4>1
    <3> QED
      BY <3>2, <3>4, <3>5
  <2> QED
    BY <2>1, <2>2
<1> HIDE DEF Fine
<1>2. U \in Fine
  BY <1>1, Subsets
<1> QED
  BY <1>2 DEF Fine

LEMMA FoldExists == ASSUME NEW w, NEW S, IsFiniteSet(S) PROVE \E f : IsFold(w, S, f)
<1> DEFINE Fine == {T \in SUBSET S : \E f : IsFold(w, T, f)}
<1>1. ASSUME NEW T \in SUBSET S, \A U \in SUBSET T : U # T => U \in Fine PROVE T \in Fine
  <2> DEFINE h(U) == CHOOSE f : IsFold(w, U, f)
             f == [s \in SUBSET T |-> IF s = {} THEN 0
                       ELSE LET x == CHOOSE x \in s : TRUE IN w[x] + h(s \ {x})[s \ {x}]]
             g == [s \in SUBSET T |-> IF s = {} THEN 0
                       ELSE LET x == CHOOSE x \in s : TRUE IN w[x] + f[s \ {x}]]
  <2>1. ASSUME NEW U \in SUBSET T, U # T PROVE IsFold(w, U, h(U)) /\ IsFiniteSet(U)
    <3>1. \E k : IsFold(w, U, k)
      BY <1>1, <2>1
    <3>2. IsFiniteSet(U)
      BY FS_Subset
    <3> QED
      BY <3>1, <3>2
  <2>2. ASSUME NEW s \in SUBSET T
        PROVE f[s] = IF s = {} THEN 0 ELSE w[Pick(s)] + h(s \ {Pick(s)})[s \ {Pick(s)}]
    BY DEF Pick
  <2>7. ASSUME NEW s \in SUBSET T
        PROVE g[s] = IF s = {} THEN 0 ELSE w[Pick(s)] + f[s \ {Pick(s)}]
    BY DEF Pick
  <2>8. f = [s \in SUBSET T |-> f[s]] /\ g = [s \in SUBSET T |-> g[s]]
    OBVIOUS
  <2>9. IsFold(w, T, f) <=> f = g
    BY DEF IsFold
  <2> HIDE DEF h, f, g
  <2>3. ASSUME NEW U \in SUBSET T, U # T PROVE f[U] = h(U)[U]
    <3>1. IsFold(w, U, h(U))
      BY <2>1, <2>3
    <3>2. CASE U = {}
      <4>1. h(U)[U] = 0
        BY <3>1, <3>2, FoldStep
      <4> QED
        BY <2>2, <3>2, <4>1
    <3>3. CASE U # {}
      <4> DEFINE W == U \ {Pick(U)}
      <4>1. W \in SUBSET U /\ W \in SUBSET T /\ W # T
        BY <3>3, <2>3, Picked
      <4>2. h(U)[U] = w[Pick(U)] + h(U)[W]
        BY <3>1, <3>3, FoldStep
      <4>3. IsFold(w, W, h(W)) /\ IsFiniteSet(W)
        BY <2>1, <4>1
      <4>4. h(U)[W] = h(W)[W]
        BY <3>1, <4>1, <4>3, FoldUnique
      <4>5. f[U] = w[Pick(U)] + h(W)[W]
        BY <2>2, <3>3
      <4> QED
        BY <4>2, <4>4, <4>5
    <3> QED
      BY <3>2, <3>3
  <2>4. ASSUME NEW s \in SUBSET T PROVE f[s] = g[s]
    <3>1. CASE s = {}
      BY <2>2, <2>7, <3>1
    <3>2. CASE s # {}
      <4> DEFINE W == s \ {Pick(s)}
      <4>1. W \in SUBSET T /\ W # T
        BY <3>2, Picked
      <4>2. f[W] = h(W)[W]
        BY <2>3, <4>1
      <4> QED
        BY <2>2, <2>7, <3>2, <4>2
    <3> QED
      BY <3>1, <3>2
  <2>5. f = g
    BY <2>4, <2>8
  <2> QED
    BY <2>5, <2>9
<1> HIDE DEF Fine
<1>2. S \in Fine
  BY <1>1, Subsets
<1> QED
  BY <1>2 DEF Fine

LEMMA FoldOf ==
    ASSUME NEW w, NEW S, IsFiniteSet(S), NEW f, IsFold(w, S, f), NEW T \in SUBSET S
    PROVE  Total(w, T) = f[T]
<1> DEFINE g == CHOOSE f_1 : IsFold(w, T, f_1)
<1>1. IsFiniteSet(T)
  BY FS_Subset
<1>2. IsFold(w, T, g)
  BY <1>1, FoldExists
<1>3. Total(w, T) = g[T]
  BY Folded
<1> HIDE DEF g
<1> QED
  BY <1>1, <1>2, <1>3, FoldUnique

LEMMA TotalStep ==
    ASSUME NEW w, NEW S, IsFiniteSet(S)
    PROVE  Total(w, S) = IF S = {} THEN 0 ELSE w[Pick(S)] + Total(w, S \ {Pick(S)})
<1>1. PICK f : IsFold(w, S, f)
  BY FoldExists
<1>2. Total(w, S) = f[S] /\ Total(w, S \ {Pick(S)}) = f[S \ {Pick(S)}]
  BY <1>1, FoldOf
<1> QED
  BY <1>1, <1>2, FoldStep

Weighed(w, S) == \A s \in S : w[s] \in Nat

LEMMA TotalNat == ASSUME NEW w, NEW S, IsFiniteSet(S), Weighed(w, S) PROVE Total(w, S) \in Nat
<1> DEFINE Fine == {T \in SUBSET S : Total(w, T) \in Nat}
<1>1. ASSUME NEW T \in SUBSET S, \A U \in SUBSET T : U # T => U \in Fine PROVE T \in Fine
  <2>1. IsFiniteSet(T)
    BY FS_Subset
  <2>2. CASE T = {}
    <3>1. Total(w, T) = 0
      BY <2>1, <2>2, TotalStep
    <3> QED
      BY <3>1
  <2>3. CASE T # {}
    <3>1. Pick(T) \in T
      BY <2>3, Picked
    <3>2. Total(w, T \ {Pick(T)}) \in Nat /\ w[Pick(T)] \in Nat
      BY <1>1, <3>1 DEF Weighed
    <3> QED
      BY <2>1, <2>3, <3>2, TotalStep
  <2> QED
    BY <2>2, <2>3
<1> HIDE DEF Fine
<1>2. S \in Fine
  BY <1>1, Subsets
<1> QED
  BY <1>2 DEF Fine

LEMMA TotalLess ==
    ASSUME NEW w, NEW S, IsFiniteSet(S), Weighed(w, S), NEW x \in S
    PROVE  Total(w, S) = w[x] + Total(w, S \ {x})
<1> DEFINE Fine == {T \in SUBSET S : \A y \in T : Total(w, T) = w[y] + Total(w, T \ {y})}
<1>1. ASSUME NEW T \in SUBSET S, \A U \in SUBSET T : U # T => U \in Fine PROVE T \in Fine
  <2>1. SUFFICES ASSUME NEW y \in T PROVE Total(w, T) = w[y] + Total(w, T \ {y})
    OBVIOUS
  <2> DEFINE p == Pick(T)
             U == T \ {p}
             V == T \ {y}
             W == T \ {p, y}
  <2>2. p \in T /\ IsFiniteSet(T) /\ IsFiniteSet(U) /\ IsFiniteSet(V) /\ IsFiniteSet(W)
    BY Picked, FS_Subset
  <2>3. Total(w, T) = w[p] + Total(w, U)
    BY <2>2, TotalStep
  <2>4. CASE y = p
    BY <2>3, <2>4
  <2>5. CASE y # p
    <3>1. U \in Fine /\ V \in Fine
      BY <1>1, <2>2
    <3>2. y \in U /\ p \in V /\ U \ {y} = W /\ V \ {p} = W
      BY <2>2, <2>5
    <3>3. Total(w, U) = w[y] + Total(w, W) /\ Total(w, V) = w[p] + Total(w, W)
      BY <3>1, <3>2
    <3>4. w[y] \in Nat /\ w[p] \in Nat
      BY <2>2 DEF Weighed
    <3>5. Total(w, W) \in Nat
      <4>1. Weighed(w, W)
        BY DEF Weighed
      <4> QED
        BY <2>2, <4>1, TotalNat
    <3> HIDE DEF p, U, V, W, Fine
    <3>6. Total(w, T) = w[y] + Total(w, V)
      BY <2>3, <3>3, <3>4, <3>5
    <3> QED
      BY <3>6 DEF V
  <2> QED
    BY <2>4, <2>5
<1> HIDE DEF Fine
<1>2. S \in Fine
  BY <1>1, Subsets
<1> QED
  BY <1>2 DEF Fine

LEMMA TotalSame ==
    ASSUME NEW w, NEW v, NEW S, IsFiniteSet(S), \A x \in S : w[x] = v[x]
    PROVE  Total(w, S) = Total(v, S)
<1> DEFINE Fine == {T \in SUBSET S : Total(w, T) = Total(v, T)}
<1>1. ASSUME NEW T \in SUBSET S, \A U \in SUBSET T : U # T => U \in Fine PROVE T \in Fine
  <2>1. IsFiniteSet(T)
    BY FS_Subset
  <2>2. Total(w, T) = IF T = {} THEN 0 ELSE w[Pick(T)] + Total(w, T \ {Pick(T)})
    BY <2>1, TotalStep
  <2>3. Total(v, T) = IF T = {} THEN 0 ELSE v[Pick(T)] + Total(v, T \ {Pick(T)})
    BY <2>1, TotalStep
  <2>4. CASE T = {}
    BY <2>2, <2>3, <2>4
  <2>5. CASE T # {}
    <3>1. Pick(T) \in T
      BY <2>5, Picked
    <3>2. T \ {Pick(T)} \in Fine
      BY <1>1, <3>1
    <3>3. Total(w, T \ {Pick(T)}) = Total(v, T \ {Pick(T)}) /\ w[Pick(T)] = v[Pick(T)]
      BY <3>1, <3>2
    <3> QED
      BY <2>2, <2>3, <2>5, <3>3
  <2> QED
    BY <2>4, <2>5
<1> HIDE DEF Fine
<1>2. S \in Fine
  BY <1>1, Subsets
<1> QED
  BY <1>2 DEF Fine

LEMMA SumNat == ASSUME NEW D, IsFiniteSet(D), NEW w \in [D -> Nat] PROVE SumOf(w) \in Nat
<1>1. Weighed(w, D) /\ DOMAIN w = D
  BY DEF Weighed
<1> QED
  BY <1>1, SumIs, TotalNat

LEMMA SumPut ==
    ASSUME NEW D, IsFiniteSet(D), NEW w \in [D -> Nat], NEW k \in D, NEW a \in Nat
    PROVE  SumOf([w EXCEPT ![k] = @ + a]) = SumOf(w) + a
<1> DEFINE v == [w EXCEPT ![k] = @ + a]
<1>1. v \in [D -> Nat] /\ v[k] = w[k] + a /\ \A x \in D \ {k} : v[x] = w[x]
  OBVIOUS
<1> HIDE DEF v
<1>2. Weighed(w, D) /\ Weighed(v, D) /\ DOMAIN w = D /\ DOMAIN v = D /\ IsFiniteSet(D \ {k}) /\ Weighed(w, D \ {k})
  BY <1>1, FS_Subset DEF Weighed
<1>3. Total(w, D) = w[k] + Total(w, D \ {k})
  BY <1>2, TotalLess
<1>4. Total(v, D) = v[k] + Total(v, D \ {k})
  BY <1>2, TotalLess
<1>5. Total(v, D \ {k}) = Total(w, D \ {k})
  BY <1>1, <1>2, TotalSame
<1>6. Total(w, D \ {k}) \in Nat
  BY <1>2, TotalNat
<1>7. SumOf(v) = Total(v, D) /\ SumOf(w) = Total(w, D)
  BY <1>2, SumIs
<1>8. w[k] \in Nat
  OBVIOUS
<1>9. SumOf(v) = SumOf(w) + a
  BY <1>1, <1>3, <1>4, <1>5, <1>6, <1>7, <1>8
<1> QED
  BY <1>9 DEF v

LEMMA SumPositive ==
    ASSUME NEW D, IsFiniteSet(D), NEW w \in [D -> Nat], NEW k \in D, w[k] > 0
    PROVE  SumOf(w) \in Nat /\ SumOf(w) > 0
<1>1. Weighed(w, D) /\ DOMAIN w = D /\ IsFiniteSet(D \ {k}) /\ Weighed(w, D \ {k})
  BY FS_Subset DEF Weighed
<1>2. Total(w, D) = w[k] + Total(w, D \ {k})
  BY <1>1, TotalLess
<1>3. Total(w, D \ {k}) \in Nat /\ w[k] \in Nat /\ SumOf(w) = Total(w, D)
  BY <1>1, TotalNat, SumIs
<1> QED
  BY <1>2, <1>3

\* A running sum over 1 .. n ends on the sum.
Runs(sum, w, n) == sum[1] = 0 /\ \A j \in 1 .. n : sum[j + 1] = sum[j] + w[j]

LEMMA SumRuns ==
    ASSUME NEW n \in Nat, NEW w \in [1 .. n -> Nat], NEW sum \in [1 .. n + 1 -> Nat], Runs(sum, w, n)
    PROVE  SumOf(w) = sum[n + 1]
<1> DEFINE Fine == {k \in 0 .. n : Total(w, 1 .. k) = sum[k + 1]}
<1>1. 0 \in Fine
  <2>1. 1 .. 0 = {} /\ IsFiniteSet(1 .. 0) /\ 0 \in 0 .. n
    BY FS_Interval
  <2>2. Total(w, 1 .. 0) = 0
    BY <2>1, TotalStep
  <2> QED
    BY <2>1, <2>2 DEF Runs
<1>2. ASSUME NEW k \in 1 .. n, k - 1 \in Fine PROVE k \in Fine
  <2>1. Total(w, 1 .. k - 1) = sum[k] /\ sum[k + 1] = sum[k] + w[k]
    BY <1>2 DEF Runs
  <2>2. PICK K : K = 1 .. k
    OBVIOUS
  <2>3. k \in K /\ \A x \in K : x \in 1 .. n
    BY <2>2
  <2>4. K \ {k} = 1 .. k - 1
    <3>1. \A x \in K : x # k <=> x \in 1 .. k - 1
      BY <2>2
    <3>2. \A x \in 1 .. k - 1 : x \in K
      BY <2>2
    <3> QED
      BY <3>1, <3>2
  <2>5. IsFiniteSet(K) /\ Weighed(w, K)
    <3>1. IsFiniteSet(1 .. k)
      BY FS_Interval
    <3> QED
      BY <2>2, <2>3, <3>1 DEF Weighed
  <2>6. Total(w, K) = w[k] + Total(w, K \ {k})
    BY <2>3, <2>5, TotalLess
  <2>7. w[k] \in Nat /\ sum[k] \in Nat
    OBVIOUS
  <2>8. Total(w, K) = sum[k + 1]
    <3>1. Total(w, K \ {k}) = sum[k]
      BY <2>1, <2>4
    <3> QED
      BY <2>1, <2>6, <2>7, <3>1
  <2> QED
    BY <2>2, <2>8
<1> HIDE DEF Fine
<1>3. n \in Fine
  <2>1. \A k \in 0 .. n : k \in Fine
    BY <1>1, <1>2, Climb
  <2> QED
    BY <2>1
<1>4. DOMAIN w = 1 .. n
  OBVIOUS
<1> QED
  BY <1>3, <1>4, SumIs DEF Fine

-----------------------------------------------------------------------------
(* Sorting: places given by the number of those before.                    *)

LEMMA RankedIs ==
    ASSUME NEW S, IsFiniteSet(S), NEW R,
           \A a \in S : <<a, a>> \notin R,
           \A a, b, c \in S : <<a, b>> \in R /\ <<b, c>> \in R => <<a, c>> \in R,
           \A a, b \in S : a # b => <<a, b>> \in R \/ <<b, a>> \in R
    PROVE  /\ Cardinality(S) \in Nat
           /\ Ranked(S, R) \in [1 .. Cardinality(S) -> S]
           /\ \A j, k \in 1 .. Cardinality(S) : Ranked(S, R)[j] = Ranked(S, R)[k] => j = k
<1> DEFINE n == Cardinality(S)
           Pred(k) == {j \in S : <<j, k>> \in R}
           place == [k \in S |-> Cardinality(Pred(k)) + 1]
<1>1. n \in Nat
  BY FS_CardinalityType
<1>2. ASSUME NEW k \in S PROVE /\ IsFiniteSet(Pred(k)) /\ Cardinality(Pred(k)) \in Nat /\ Cardinality(Pred(k)) < n
  <2>1. Pred(k) \in SUBSET S /\ k \notin Pred(k)
    OBVIOUS
  <2>2. IsFiniteSet(Pred(k)) /\ Cardinality(Pred(k)) <= n /\ (n = Cardinality(Pred(k)) => S = Pred(k))
    BY <2>1, FS_Subset
  <2>3. Cardinality(Pred(k)) \in Nat
    BY <2>2, FS_CardinalityType
  <2> QED
    BY <1>1, <2>1, <2>2, <2>3
<1>3. ASSUME NEW j \in S, NEW k \in S, <<j, k>> \in R PROVE Cardinality(Pred(j)) < Cardinality(Pred(k))
  <2>1. Pred(j) \in SUBSET Pred(k) /\ j \in Pred(k) /\ j \notin Pred(j)
    BY <1>3
  <2>2. /\ IsFiniteSet(Pred(k)) /\ Cardinality(Pred(k)) \in Nat /\ Cardinality(Pred(j)) \in Nat
    BY <1>2
  <2>3. Cardinality(Pred(j)) <= Cardinality(Pred(k)) /\ (Cardinality(Pred(k)) = Cardinality(Pred(j)) => Pred(k) = Pred(j))
    BY <2>1, <2>2, FS_Subset
  <2> QED
    BY <2>1, <2>2, <2>3
<1>4. place \in [S -> 1 .. n]
  BY <1>1, <1>2
<1>6. \A k \in S : place[k] = Cardinality(Pred(k)) + 1
  OBVIOUS
<1>7. \A k \in S : Cardinality(Pred(k)) \in Nat
  BY <1>2
<1> HIDE DEF place
<1>5. ASSUME NEW j \in S, NEW k \in S, place[j] = place[k] PROVE j = k
  <2>1. Cardinality(Pred(j)) = Cardinality(Pred(k)) /\ Cardinality(Pred(j)) \in Nat
    <3> HIDE DEF Pred
    <3> QED
      BY <1>5, <1>6, <1>7
  <2>2. ~ (Cardinality(Pred(j)) < Cardinality(Pred(k))) /\ ~ (Cardinality(Pred(k)) < Cardinality(Pred(j)))
    BY <2>1
  <2>3. ~ (<<j, k>> \in R) /\ ~ (<<k, j>> \in R)
    BY <1>3, <2>2
  <2> QED
    BY <2>3
<1>8. place \in Injection(S, 1 .. n)
  BY <1>4, <1>5 DEF Injection, IsInjective
<1>9. IsFiniteSet(1 .. n) /\ Cardinality(1 .. n) = n
  BY <1>1, FS_Interval
<1>10. place \in Surjection(S, 1 .. n)
  BY <1>8, <1>9, FS_Injection
<1>11. \A m \in 1 .. n : \E k \in S : place[k] = m
  BY <1>10 DEF Surjection
<1>12. \A m \in 1 .. n : \E k \in S : Cardinality(Pred(k)) = m - 1
  <2> SUFFICES ASSUME NEW m \in 1 .. n PROVE \E k \in S : Cardinality(Pred(k)) = m - 1
    OBVIOUS
  <2>1. PICK k \in S : place[k] = m
    BY <1>11
  <2>2. Cardinality(Pred(k)) = m - 1
    BY <1>6, <1>7, <2>1
  <2> QED
    BY <2>2
<1> DEFINE q == Ranked(S, R)
<1>18. q = [m \in 1 .. n |-> CHOOSE k \in S : Cardinality(Pred(k)) = m - 1]
  BY DEF Ranked
<1> HIDE DEF q, n, Pred
<1>13. \A m \in 1 .. n : q[m] = CHOOSE k \in S : Cardinality(Pred(k)) = m - 1
  BY <1>18
<1>14. q = [m \in 1 .. n |-> q[m]]
  BY <1>18
<1>15. \A m \in 1 .. n : q[m] \in S /\ Cardinality(Pred(q[m])) = m - 1
  BY <1>12, <1>13
<1>16. q \in [1 .. n -> S]
  BY <1>14, <1>15
<1>17. \A j, k \in 1 .. n : q[j] = q[k] => j = k
  <2> SUFFICES ASSUME NEW j \in 1 .. n, NEW k \in 1 .. n, q[j] = q[k] PROVE j = k
    OBVIOUS
  <2>1. j - 1 = k - 1 /\ j \in Int /\ k \in Int
    BY <1>15, <1>1
  <2> QED
    BY <2>1
<1> QED
  BY <1>1, <1>16, <1>17 DEF q, n

LEMMA AscendingIs ==
    ASSUME NEW S \in SUBSET Int, IsFiniteSet(S)
    PROVE  /\ Cardinality(S) \in Nat
           /\ Ascending(S) \in [1 .. Cardinality(S) -> S]
           /\ \A j, k \in 1 .. Cardinality(S) : Ascending(S)[j] = Ascending(S)[k] => j = k
<1> DEFINE R == {e \in S \X S : e[1] < e[2]}
<1>1. \A a, b \in S : <<a, b>> \in R <=> a < b
  OBVIOUS
<1>2. Ascending(S) = Ranked(S, R)
  BY DEF Ascending
<1> HIDE DEF R
<1>3. \A a \in S : <<a, a>> \notin R
  BY <1>1
<1>4. \A a, b, c \in S : <<a, b>> \in R /\ <<b, c>> \in R => <<a, c>> \in R
  BY <1>1
<1>5. \A a, b \in S : a # b => <<a, b>> \in R \/ <<b, a>> \in R
  BY <1>1
<1>6. /\ Cardinality(S) \in Nat
      /\ Ranked(S, R) \in [1 .. Cardinality(S) -> S]
      /\ \A j, k \in 1 .. Cardinality(S) : Ranked(S, R)[j] = Ranked(S, R)[k] => j = k
  BY <1>3, <1>4, <1>5, RankedIs
<1> QED
  BY <1>2, <1>6

\* Those of a sequence that are in a set: a sequence of places, none twice.
LEMMA AmongIs ==
    ASSUME NEW T, NEW seq \in Seq(T), NEW S
    PROVE  /\ Among(seq, S) \in Seq(T)
           /\ (\E k \in DOMAIN seq : seq[k] \in S) => Among(seq, S) # <<>>
           /\ \E at \in [DOMAIN Among(seq, S) -> DOMAIN seq] :
                 /\ \A k \in DOMAIN Among(seq, S) : Among(seq, S)[k] = seq[at[k]] /\ seq[at[k]] \in S
                 /\ \A j, k \in DOMAIN Among(seq, S) : at[j] = at[k] => j = k
<1> DEFINE P == {k \in DOMAIN seq : seq[k] \in S}
           at == Ascending(P)
           n == Cardinality(P)
           r == Among(seq, S)
<1>1. DOMAIN seq = 1 .. Len(seq) /\ Len(seq) \in Nat
  OBVIOUS
<1>2. IsFiniteSet(P) /\ P \in SUBSET Int
  <2>1. IsFiniteSet(DOMAIN seq)
    BY <1>1, FS_Interval
  <2>2. P \in SUBSET DOMAIN seq
    OBVIOUS
  <2> QED
    BY <1>1, <2>1, <2>2, FS_Subset
<1>3. \A k \in P : k \in DOMAIN seq /\ seq[k] \in S /\ seq[k] \in T
  OBVIOUS
<1>9. (\E k \in DOMAIN seq : seq[k] \in S) => P # {}
  OBVIOUS
<1>4. r = [k \in DOMAIN at |-> seq[at[k]]]
  BY DEF Among
<1> HIDE DEF P
<1>5. n \in Nat /\ at \in [1 .. n -> P] /\ \A j, k \in 1 .. n : at[j] = at[k] => j = k
  BY <1>2, AscendingIs
<1>10. P # {} => n # 0
  BY <1>2, FS_EmptySet
<1> HIDE DEF at, n, r
<1>6. DOMAIN r = 1 .. n /\ \A k \in 1 .. n : r[k] = seq[at[k]] /\ at[k] \in P
  BY <1>4, <1>5
<1>7. r \in Seq(T)
  <2>1. r \in [1 .. n -> T]
    BY <1>3, <1>4, <1>5, <1>6
  <2> QED
    BY <1>5, <2>1
<1>8. at \in [DOMAIN r -> DOMAIN seq]
  BY <1>3, <1>5, <1>6
<1>11. (\E k \in DOMAIN seq : seq[k] \in S) => r # <<>>
  BY <1>5, <1>6, <1>9, <1>10
<1>12. (\A k \in DOMAIN r : r[k] = seq[at[k]] /\ seq[at[k]] \in S) /\ (\A j, k \in DOMAIN r : at[j] = at[k] => j = k)
  BY <1>3, <1>5, <1>6
<1>13. \E at_1 \in [DOMAIN r -> DOMAIN seq] :
                 /\ \A k \in DOMAIN r : r[k] = seq[at_1[k]] /\ seq[at_1[k]] \in S
                 /\ \A j, k \in DOMAIN r : at_1[j] = at_1[k] => j = k
  BY <1>8, <1>12
<1> QED
  BY <1>7, <1>11, <1>13 DEF r

-----------------------------------------------------------------------------
(* The candidates: able strategies, no two of one maker.                    *)

Able == {s \in Faithful : Measured(s) > 0}

Lineups == {q \in Seq(Able) : \A j, k \in DOMAIN q : OwnerOf[q[j]] = OwnerOf[q[k]] => j = k}

LEMMA AbleAre ==
    ASSUME led \in Ledger
    PROVE  /\ Able \subseteq Strategies
           /\ \A s \in Strategies : Measured(s) \in Nat
           /\ \A s \in Able : s \in Faithful /\ Measured(s) > 0
BY TapAssumption, DepthIsAmount DEF Able, Measured

LEMMA QuoteIs ==
    ASSUME NEW s \in Strategies, NEW x \in Int
    PROVE  /\ Quote(s, x) \in Int
           /\ x \in Nat => Quote(s, x) \in Nat
           /\ Quote(s, x) > 0 => s \in Faithful /\ x > 0
<1>1. PICK r : r = Rate[s]
  OBVIOUS
<1>2. r \in Nat /\ r > 0
  BY <1>1, TapAssumption
<1>3. x \div r \in Int /\ (x \in Nat => x \div r \in Nat) /\ (x \div r > 0 => x > 0)
  BY <1>2
<1> QED
  BY <1>1, <1>3 DEF Quote, QuoteReverts

LEMMA ProbeIs == ASSUME NEW x \in Nat PROVE Probe(x) \in Nat
<1>1. ProbeShare \in Nat /\ ProbeShare > 0
  BY PlannedAssumption
<1>2. x \div ProbeShare \in Nat
  BY <1>1
<1>3. {x, 1} \in SUBSET Int /\ {x, 1} # {} /\ \A y \in {x, 1} : y \in Nat
  OBVIOUS
<1>4. IsFiniteSet({x, 1})
  <2>1. IsFiniteSet({x}) /\ {x, 1} = {x} \cup {1}
    BY FS_Singleton
  <2> QED
    BY <2>1, FS_AddElement
<1>5. Max({x, 1}) \in {x, 1}
  BY <1>3, <1>4, Extremes
<1> QED
  BY <1>2, <1>3, <1>5 DEF Probe

\* One place of many tops all others, and strictly those before it.
Tops(A, B, j, k) == A[j] > A[k] \/ (A[j] = A[k] /\ B[j] > B[k])

LEMMA TopExists ==
    ASSUME NEW n \in Nat, n > 0, NEW A \in [1 .. n -> Nat], NEW B \in [1 .. n -> Nat]
    PROVE  \E k \in 1 .. n : \A j \in 1 .. n : ~ Tops(A, B, j, k) /\ (j < k => Tops(A, B, k, j))
<1> DEFINE Fine == {m \in 0 .. n : m > 0 => \E k \in 1 .. m : \A j \in 1 .. m :
                                                ~ Tops(A, B, j, k) /\ (j < k => Tops(A, B, k, j))}
<1>1. 0 \in Fine
  OBVIOUS
<1>2. ASSUME NEW m \in 1 .. n, m - 1 \in Fine PROVE m \in Fine
  <2>1. \A j \in 1 .. m : j \in 1 .. n /\ A[j] \in Nat /\ B[j] \in Nat /\ (j \in 1 .. m - 1 \/ j = m)
    OBVIOUS
  <2>2. CASE m = 1
    <3>1. \A j \in 1 .. m : ~ Tops(A, B, j, 1) /\ ~ (j < 1)
      BY <2>1, <2>2 DEF Tops
    <3> QED
      BY <2>2, <3>1
  <2>3. CASE m # 1
    <3>1. m - 1 > 0
      BY <2>3
    <3>2. PICK k \in 1 .. m - 1 : \A j \in 1 .. m - 1 : ~ Tops(A, B, j, k) /\ (j < k => Tops(A, B, k, j))
      BY <1>2, <3>1
    <3>3. CASE Tops(A, B, m, k)
      <4>1. \A j \in 1 .. m - 1 : Tops(A, B, m, j) /\ ~ Tops(A, B, j, m)
        <5> SUFFICES ASSUME NEW j \in 1 .. m - 1 PROVE Tops(A, B, m, j) /\ ~ Tops(A, B, j, m)
          OBVIOUS
        <5>1. /\ A[j] \in Nat /\ B[j] \in Nat /\ A[k] \in Nat /\ B[k] \in Nat /\ A[m] \in Nat /\ B[m] \in Nat
          BY <2>1
        <5>2. ~ Tops(A, B, j, k)
          BY <3>2
        <5> QED
          BY <3>3, <5>1, <5>2 DEF Tops
      <4>2. ~ Tops(A, B, m, m) /\ ~ (m < m)
        BY <2>1 DEF Tops
      <4>3. \A j \in 1 .. m : ~ Tops(A, B, j, m) /\ (j < m => Tops(A, B, m, j))
        BY <2>1, <4>1, <4>2
      <4> QED
        BY <4>3
    <3>4. CASE ~ Tops(A, B, m, k)
      <4>1. \A j \in 1 .. m : ~ Tops(A, B, j, k) /\ (j < k => Tops(A, B, k, j))
        BY <2>1, <3>2, <3>4
      <4> QED
        BY <4>1
    <3> QED
      BY <3>3, <3>4
  <2> QED
    BY <2>2, <2>3
<1> HIDE DEF Fine
<1>3. \A m \in 0 .. n : m \in Fine
  BY <1>1, <1>2, Climb
<1>4. n \in Fine
  BY <1>3
<1> QED
  BY <1>4 DEF Fine

LEMMA BestOfIs ==
    ASSUME led \in Ledger, NEW x \in Nat, NEW seq \in Seq(Able), NEW m, \E k \in DOMAIN seq : OwnerOf[seq[k]] = m
    PROVE  BestOf(m, seq, x) \in Able /\ OwnerOf[BestOf(m, seq, x)] = m
<1> DEFINE own == Among(seq, {s \in Strategies : OwnerOf[s] = m})
<1>1. \A k \in DOMAIN seq : seq[k] \in Able /\ seq[k] \in Strategies
  BY AbleAre
<1>2. \E k \in DOMAIN seq : seq[k] \in {s \in Strategies : OwnerOf[s] = m}
  BY <1>1
<1>3. own \in Seq(Able) /\ own # <<>>
  BY <1>2, AmongIs
<1>4. \E at \in [DOMAIN own -> DOMAIN seq] :
         /\ \A k \in DOMAIN own : own[k] = seq[at[k]] /\ seq[at[k]] \in {s \in Strategies : OwnerOf[s] = m}
         /\ \A j, k \in DOMAIN own : at[j] = at[k] => j = k
  BY <1>2, AmongIs
<1>5. \A k \in DOMAIN own : own[k] \in Strategies /\ OwnerOf[own[k]] = m
  BY <1>4
<1>6. BestOf(m, seq, x) = own[CHOOSE k \in DOMAIN own :
             \A j \in DOMAIN own : ~Better(own[j], own[k], x) /\ (j < k => Better(own[k], own[j], x))]
  BY DEF BestOf
<1> HIDE DEF own
<1> DEFINE n == Len(own)
           A == [k \in 1 .. n |-> Quote(own[k], Probe(x))]
           B == [k \in 1 .. n |-> Measured(own[k])]
<1>7. n \in Nat /\ n > 0 /\ DOMAIN own = 1 .. n
  BY <1>3
<1>8. Probe(x) \in Nat
  BY ProbeIs
<1>9. \A k \in 1 .. n : Quote(own[k], Probe(x)) \in Nat /\ Measured(own[k]) \in Nat
  BY <1>5, <1>7, <1>8, QuoteIs, AbleAre
<1>10. A \in [1 .. n -> Nat] /\ B \in [1 .. n -> Nat]
  BY <1>9
<1>11. \A j, k \in 1 .. n : Tops(A, B, j, k) <=> Better(own[j], own[k], x)
  BY DEF Tops, Better
<1> HIDE DEF A, B, n
<1>12. \E k \in 1 .. n : \A j \in 1 .. n : ~ Tops(A, B, j, k) /\ (j < k => Tops(A, B, k, j))
  BY <1>7, <1>10, TopExists
<1>13. \E k \in DOMAIN own : \A j \in DOMAIN own : ~ Better(own[j], own[k], x) /\ (j < k => Better(own[k], own[j], x))
  BY <1>7, <1>11, <1>12
<1>14. PICK k \in DOMAIN own : BestOf(m, seq, x) = own[k]
  BY <1>6, <1>13
<1>15. own[k] \in Able
  BY <1>3
<1> QED
  BY <1>5, <1>14, <1>15

LEMMA ByDepthIs ==
    ASSUME led \in Ledger, NEW seq \in Seq(Able)
    PROVE  /\ ByDepth(seq) \in Seq(Able)
           /\ \E at \in [DOMAIN ByDepth(seq) -> DOMAIN seq] :
                 /\ \A k \in DOMAIN ByDepth(seq) : ByDepth(seq)[k] = seq[at[k]]
                 /\ \A j, k \in DOMAIN ByDepth(seq) : at[j] = at[k] => j = k
<1> DEFINE D == DOMAIN seq
           R == {e \in D \X D : LET a == Measured(seq[e[1]])
                                    b == Measured(seq[e[2]])
                                IN a > b \/ (a = b /\ e[1] < e[2])}
           order == Ranked(D, R)
           r == ByDepth(seq)
<1>1. D = 1 .. Len(seq) /\ Len(seq) \in Nat
  OBVIOUS
<1>2. IsFiniteSet(D) /\ Cardinality(D) = Len(seq)
  BY <1>1, FS_Interval
<1>3. \A k \in D : k \in Int /\ seq[k] \in Able /\ Measured(seq[k]) \in Nat
  BY <1>1, AbleAre
<1>4. \A a, b \in D : <<a, b>> \in R <=>
         Measured(seq[a]) > Measured(seq[b]) \/ (Measured(seq[a]) = Measured(seq[b]) /\ a < b)
  OBVIOUS
<1>5. r = [k \in D |-> seq[order[k]]]
  BY DEF ByDepth
<1> HIDE DEF R, D, r
<1>6. \A a \in D : <<a, a>> \notin R
  BY <1>3, <1>4
<1>7. \A a, b, c \in D : <<a, b>> \in R /\ <<b, c>> \in R => <<a, c>> \in R
  BY <1>3, <1>4
<1>8. \A a, b \in D : a # b => <<a, b>> \in R \/ <<b, a>> \in R
  BY <1>3, <1>4
<1>9. order \in [1 .. Len(seq) -> D] /\ \A j, k \in 1 .. Len(seq) : order[j] = order[k] => j = k
  <2>1. /\ Ranked(D, R) \in [1 .. Cardinality(D) -> D]
        /\ \A j, k \in 1 .. Cardinality(D) : Ranked(D, R)[j] = Ranked(D, R)[k] => j = k
    BY <1>2, <1>6, <1>7, <1>8, RankedIs
  <2> QED
    BY <1>2, <2>1
<1> HIDE DEF order
<1>10. DOMAIN r = 1 .. Len(seq) /\ r \in [1 .. Len(seq) -> Able] /\ order \in [DOMAIN r -> D]
       /\ \A k \in DOMAIN r : r[k] = seq[order[k]]
  BY <1>1, <1>3, <1>5, <1>9
<1>11. r \in Seq(Able)
  BY <1>1, <1>10
<1>12. \A j, k \in DOMAIN r : order[j] = order[k] => j = k
  BY <1>9, <1>10
<1>13. \E at \in [DOMAIN r -> D] :
          /\ \A k \in DOMAIN r : r[k] = seq[at[k]]
          /\ \A j, k \in DOMAIN r : at[j] = at[k] => j = k
  BY <1>10, <1>12
<1> QED
  BY <1>11, <1>13 DEF r, D

LEMMA FillableIs ==
    ASSUME led \in Ledger, NEW b, NEW x \in Nat
    PROVE  Fillable(b, x) \in Seq(Able)
<1> DEFINE G == {s \in Strategies : Measured(s) > 0 /\ Quote(s, Probe(x)) > 0}
           r == Fillable(b, x)
<1>1. Listed \in Seq(Strategies)
  BY PlannedAssumption
<1>2. Depths(b) \in Seq(Strategies)
  BY <1>1, AmongIs DEF Depths
<1>3. r = Among(Depths(b), G)
  BY DEF Fillable
<1>4. G \subseteq Able
  <2>1. Probe(x) \in Int
    BY ProbeIs
  <2> QED
    BY <2>1, QuoteIs DEF Able
<1> HIDE DEF G, r
<1>5. r \in Seq(Strategies)
  BY <1>2, <1>3, AmongIs
<1>6. \E at \in [DOMAIN r -> DOMAIN Depths(b)] :
         /\ \A k \in DOMAIN r : r[k] = Depths(b)[at[k]] /\ Depths(b)[at[k]] \in G
         /\ \A j, k \in DOMAIN r : at[j] = at[k] => j = k
  BY <1>2, <1>3, AmongIs
<1>7. \A k \in DOMAIN r : r[k] \in Able
  BY <1>4, <1>6
<1>8. r \in Seq(Able)
  BY <1>5, <1>7
<1> QED
  BY <1>8 DEF r

LEMMA CandidatesAre ==
    ASSUME led \in Ledger, NEW b, NEW x \in Nat
    PROVE  Candidates(b, x) \in Lineups
<1> DEFINE seq == Fillable(b, x)
           first == {k \in DOMAIN seq : \A j \in 1 .. k - 1 : OwnerOf[seq[j]] # OwnerOf[seq[k]]}
           met == Ascending(first)
           best == [k \in DOMAIN met |-> BestOf(OwnerOf[seq[met[k]]], seq, x)]
           n == Cardinality(first)
<1>1. seq \in Seq(Able)
  BY FillableIs
<1>2. Candidates(b, x) = ByDepth(best)
  BY DEF Candidates
<1> HIDE DEF seq
<1>3. DOMAIN seq = 1 .. Len(seq) /\ Len(seq) \in Nat
  BY <1>1
<1>4. first \in SUBSET Int /\ first \subseteq DOMAIN seq
  BY <1>3
<1>5. \A j, k \in first : OwnerOf[seq[j]] = OwnerOf[seq[k]] => j = k
  <2> SUFFICES ASSUME NEW j \in first, NEW k \in first, OwnerOf[seq[j]] = OwnerOf[seq[k]], j # k PROVE FALSE
    OBVIOUS
  <2>1. j \in 1 .. Len(seq) /\ k \in 1 .. Len(seq)
    BY <1>3
  <2>2. j \in 1 .. k - 1 \/ k \in 1 .. j - 1
    BY <2>1, <1>3
  <2> QED
    BY <2>2
<1>6. IsFiniteSet(first)
  <2>1. IsFiniteSet(DOMAIN seq)
    BY <1>3, FS_Interval
  <2> QED
    BY <1>4, <2>1, FS_Subset
<1> HIDE DEF first
<1>7. n \in Nat /\ met \in [1 .. n -> first] /\ \A j, k \in 1 .. n : met[j] = met[k] => j = k
  BY <1>4, <1>6, AscendingIs
<1> HIDE DEF met, n
<1>8. \A k \in 1 .. n : met[k] \in first /\ met[k] \in DOMAIN seq
  BY <1>4, <1>7
<1>9. ASSUME NEW k \in 1 .. n
      PROVE  LET m == OwnerOf[seq[met[k]]] IN BestOf(m, seq, x) \in Able /\ OwnerOf[BestOf(m, seq, x)] = m
  <2>1. \E j \in DOMAIN seq : OwnerOf[seq[j]] = OwnerOf[seq[met[k]]]
    BY <1>8
  <2> QED
    BY <1>1, <2>1, BestOfIs
<1>10. DOMAIN best = 1 .. n /\ best \in [1 .. n -> Able] /\ \A k \in 1 .. n : OwnerOf[best[k]] = OwnerOf[seq[met[k]]]
  BY <1>7, <1>9
<1> HIDE DEF best
<1>11. best \in Seq(Able)
  BY <1>7, <1>10
<1>12. \A j, k \in 1 .. n : OwnerOf[best[j]] = OwnerOf[best[k]] => j = k
  BY <1>5, <1>7, <1>8, <1>10
<1> DEFINE r == ByDepth(best)
<1>13. r \in Seq(Able)
  BY <1>11, ByDepthIs
<1>14. PICK at \in [DOMAIN r -> DOMAIN best] :
          /\ \A k \in DOMAIN r : r[k] = best[at[k]]
          /\ \A j, k \in DOMAIN r : at[j] = at[k] => j = k
  BY <1>11, ByDepthIs
<1> HIDE DEF r
<1>15. \A j, k \in DOMAIN r : OwnerOf[r[j]] = OwnerOf[r[k]] => j = k
  <2> SUFFICES ASSUME NEW j \in DOMAIN r, NEW k \in DOMAIN r, OwnerOf[r[j]] = OwnerOf[r[k]] PROVE j = k
    OBVIOUS
  <2>1. at[j] \in 1 .. n /\ at[k] \in 1 .. n
    BY <1>10, <1>14
  <2>2. OwnerOf[best[at[j]]] = OwnerOf[best[at[k]]]
    BY <1>14
  <2> QED
    BY <1>12, <1>14, <2>1, <2>2
<1>16. r \in Lineups
  BY <1>13, <1>15 DEF Lineups
<1> QED
  BY <1>2, <1>16 DEF r

LEMMA AmongLineup == ASSUME NEW q \in Lineups, NEW S PROVE Among(q, S) \in Lineups
<1> DEFINE r == Among(q, S)
<1>1. q \in Seq(Able) /\ \A j, k \in DOMAIN q : OwnerOf[q[j]] = OwnerOf[q[k]] => j = k
  BY DEF Lineups
<1>2. r \in Seq(Able)
  BY <1>1, AmongIs
<1>3. PICK at \in [DOMAIN r -> DOMAIN q] :
          /\ \A k \in DOMAIN r : r[k] = q[at[k]] /\ q[at[k]] \in S
          /\ \A j, k \in DOMAIN r : at[j] = at[k] => j = k
  BY <1>1, AmongIs
<1> HIDE DEF r
<1>4. \A j, k \in DOMAIN r : OwnerOf[r[j]] = OwnerOf[r[k]] => j = k
  <2> SUFFICES ASSUME NEW j \in DOMAIN r, NEW k \in DOMAIN r, OwnerOf[r[j]] = OwnerOf[r[k]] PROVE j = k
    OBVIOUS
  <2>1. at[j] \in DOMAIN q /\ at[k] \in DOMAIN q /\ OwnerOf[q[at[j]]] = OwnerOf[q[at[k]]]
    BY <1>3
  <2> QED
    BY <1>1, <1>3, <2>1
<1>5. r \in Lineups
  BY <1>2, <1>4 DEF Lineups
<1> QED
  BY <1>5 DEF r

\* An infinite recursion that stays in T.
LEMMA EndlessChains ==
    ASSUME NEW T, NEW base \in T, NEW F \in [T -> T]
    PROVE  \E f \in [Nat -> T] : f[0] = base /\ \A k \in Nat \ {0} : f[k] = F[f[k - 1]]
<1> DEFINE Is(n, f) == f \in [0 .. n -> T] /\ f[0] = base /\ \A k \in 1 .. n : f[k] = F[f[k - 1]]
           h(n) == CHOOSE f : Is(n, f)
           g == [n \in Nat |-> h(n)[n]]
<1>1. ASSUME NEW n \in Nat PROVE \E f : Is(n, f)
  <2>1. PICK G : G = [k \in 1 .. n |-> F]
    OBVIOUS
  <2>4. G \in [1 .. n -> [T -> T]]
    BY <2>1
  <2>5. \A k \in 1 .. n : G[k] = F
    BY <2>1
  <2> HIDE DEF Is, h, g
  <2>6. \E f \in [0 .. n -> T] : Recurs(f, n, base, G)
    BY <2>4, Chains
  <2>2. PICK f \in [0 .. n -> T] : f[0] = base /\ \A k \in 1 .. n : f[k] = G[k][f[k - 1]]
    BY <2>6 DEF Recurs
  <2>3. \A k \in 1 .. n : f[k - 1] \in T /\ f[k] = F[f[k - 1]]
    BY <2>5, <2>2
  <2> QED
    BY <2>2, <2>3 DEF Is
<1>2. \A n \in Nat : Is(n, h(n))
  BY <1>1
<1> HIDE DEF h
<1>3. ASSUME NEW n \in Nat, NEW f, NEW m \in Nat, m >= n, NEW e, Is(n, f), Is(m, e) PROVE f[n] = e[n]
  <2> DEFINE Fine == {k \in 0 .. n : f[k] = e[k]}
  <2>1. 0 \in Fine
    BY <1>3
  <2>2. ASSUME NEW k \in 1 .. n, k - 1 \in Fine PROVE k \in Fine
    <3>1. k \in 1 .. m /\ f[k - 1] = e[k - 1]
      BY <1>3, <2>2
    <3> QED
      BY <1>3, <3>1
  <2> HIDE DEF Fine
  <2>3. \A k \in 0 .. n : k \in Fine
    BY <2>1, <2>2, Climb
  <2> QED
    BY <2>3 DEF Fine
<1>4. \A n \in Nat : g[n] = h(n)[n] /\ h(n)[n] \in T
  BY <1>2
<1>5. g \in [Nat -> T]
  BY <1>4
<1> HIDE DEF g
<1>6. g[0] = base
  BY <1>2, <1>4
<1>7. ASSUME NEW k \in Nat \ {0} PROVE g[k] = F[g[k - 1]]
  <2>1. k - 1 \in Nat /\ k >= k - 1 /\ k \in 1 .. k
    OBVIOUS
  <2>2. Is(k, h(k)) /\ Is(k - 1, h(k - 1))
    BY <1>2, <2>1
  <2> HIDE DEF Is
  <2>3. h(k - 1)[k - 1] = h(k)[k - 1]
    BY <1>3, <2>1, <2>2
  <2>4. h(k)[k] = F[h(k)[k - 1]]
    BY <2>1, <2>2 DEF Is
  <2> QED
    BY <1>4, <2>1, <2>3, <2>4
<1> QED
  BY <1>5, <1>6, <1>7

LEMMA TrimmedIs == ASSUME NEW seq \in Lineups, NEW x PROVE Trimmed(seq, x) \in Lineups
<1> DEFINE Kept(prev) == Among(prev, {s \in Strategies : Ceiling(s, (x * Measured(s)) \div TotalOf(prev)) > 0})
           F == [prev \in Lineups |-> Kept(prev)]
           Is(f) == f = [n \in Nat |-> IF n = 0 THEN seq ELSE Kept(f[n - 1])]
           trim == CHOOSE f : Is(f)
<1>1. \A prev \in Lineups : Kept(prev) \in Lineups
  BY AmongLineup
<1>2. Trimmed(seq, x) = trim[TrimPasses]
  BY DEF Trimmed
<1> HIDE DEF Kept
<1>3. F \in [Lineups -> Lineups] /\ \A prev \in Lineups : F[prev] = Kept(prev)
  BY <1>1
<1> HIDE DEF F
<1>4. PICK f \in [Nat -> Lineups] : f[0] = seq /\ \A k \in Nat \ {0} : f[k] = F[f[k - 1]]
  BY <1>3, EndlessChains
<1>5. \A k \in Nat \ {0} : f[k - 1] \in Lineups /\ f[k] = Kept(f[k - 1])
  BY <1>3, <1>4
<1>6. Is(f)
  <2>1. \A n \in Nat : f[n] = IF n = 0 THEN seq ELSE Kept(f[n - 1])
    BY <1>4, <1>5
  <2> QED
    BY <1>4, <2>1
<1>7. Is(trim)
  BY <1>6
<1> HIDE DEF trim
<1>8. trim[0] = seq /\ \A n \in Nat \ {0} : trim[n] = Kept(trim[n - 1])
  BY <1>7
<1> DEFINE Fine == {n \in Nat : trim[n] \in Lineups}
<1>9. TrimPasses \in Nat
  BY PlannedAssumption
<1>10. 0 \in Fine
  BY <1>8
<1>11. \A k \in 1 .. TrimPasses : k - 1 \in Fine => k \in Fine
  BY <1>1, <1>8, <1>9
<1> HIDE DEF Fine
<1>12. \A k \in 0 .. TrimPasses : k \in Fine
  BY <1>9, <1>10, <1>11, Climb
<1> QED
  BY <1>2, <1>9, <1>12 DEF Fine

-----------------------------------------------------------------------------
(* The total: ceilings, limits and the lowering of a refused total.         *)

LEMMA FiniteImage == ASSUME NEW S, IsFiniteSet(S), NEW f PROVE IsFiniteSet({f[t] : t \in S})
<1> DEFINE T == {f[t] : t \in S}
           g == [t \in S |-> f[t]]
<1>1. g \in [S -> T] /\ \A y \in T : \E t \in S : g[t] = y
  OBVIOUS
<1> HIDE DEF T, g
<1>2. g \in Surjection(S, T)
  BY <1>1 DEF Surjection
<1>3. IsFiniteSet(T)
  BY <1>2, FS_Surjection
<1> QED
  BY <1>3 DEF T

\* The largest of a number and of those that fit is that number or fits.
LEMMA LargestFit ==
    ASSUME NEW s \in Strategies, NEW lo \in Nat, NEW S \in SUBSET Int, IsFiniteSet(S)
    PROVE  Max({lo} \cup {x \in S : Fits(s, x)}) \in Nat
<1> DEFINE F == {x \in S : Fits(s, x)}
           U == {lo} \cup F
<1>1. \A x \in F : x \in Nat
  <2> SUFFICES ASSUME NEW x \in F PROVE x \in Nat
    OBVIOUS
  <2>1. x \in Int /\ Quote(s, x) > 0
    BY DEF Fits
  <2>2. x > 0
    BY <2>1, QuoteIs
  <2> QED
    BY <2>1, <2>2
<1>2. IsFiniteSet(F)
  <2>1. F \in SUBSET S
    OBVIOUS
  <2> QED
    BY <2>1, FS_Subset
<1> HIDE DEF F
<1>3. IsFiniteSet(F \cup {lo})
  BY <1>2, FS_AddElement
<1>4. U = F \cup {lo} /\ U \in SUBSET Int /\ U # {} /\ \A x \in U : x \in Nat
  BY <1>1
<1> HIDE DEF U
<1>5. Max(U) \in U
  BY <1>3, <1>4, Extremes
<1>6. Max(U) \in Nat
  BY <1>4, <1>5
<1> QED
  BY <1>6 DEF U, F

LEMMA RefinedIs ==
    ASSUME NEW s \in Strategies, NEW lo \in Nat, NEW hi \in Int
    PROVE  Refined(s, lo, hi) \in Nat
<1>1. PICK step : step = (hi - lo) \div LinearSteps
  OBVIOUS
<1>2. LinearSteps \in Nat /\ LinearSteps > 0
  BY PlannedAssumption
<1>3. step \in Int
  BY <1>1, <1>2
<1>4. PICK f : f = [t \in 1 .. LinearSteps |-> lo + step * t]
  OBVIOUS
<1> DEFINE S == {f[t] : t \in 1 .. LinearSteps}
<1>5. \A t \in 1 .. LinearSteps : step * t \in Int
  <2>1. \A a, b \in Int : a * b \in Int
    OBVIOUS
  <2>2. \A t \in 1 .. LinearSteps : t \in Int
    BY <1>2
  <2> QED
    BY <1>3, <2>1, <2>2
<1>6. \A t \in 1 .. LinearSteps : f[t] = lo + step * t /\ f[t] \in Int
  <2>1. \A t \in 1 .. LinearSteps : f[t] = lo + step * t
    BY <1>4
  <2> QED
    BY <1>5, <2>1
<1>7. S = {lo + step * t : t \in 1 .. LinearSteps}
  BY <1>6
<1>8. S \in SUBSET Int
  BY <1>6
<1>9. IsFiniteSet(S)
  <2>1. IsFiniteSet(1 .. LinearSteps)
    BY <1>2, FS_Interval
  <2> QED
    BY <2>1, FiniteImage
<1>10. Refined(s, lo, hi) = Max({lo} \cup {x \in S : Fits(s, x)})
  BY <1>1, <1>7 DEF Refined
<1> HIDE DEF S
<1> QED
  BY <1>8, <1>9, <1>10, LargestFit

LEMMA CeilingIs == ASSUME NEW s \in Strategies, NEW top \in Nat PROVE Ceiling(s, top) \in Nat
<1> DEFINE S == Halvings(top)
           lo == Max({0} \cup {x \in S : Fits(s, x)})
           T == {2 * lo, top}
<1>1. S \in SUBSET (1 .. top)
  BY DEF Halvings
<1>2. IsFiniteSet(S)
  <2>1. IsFiniteSet(1 .. top)
    BY FS_Interval
  <2> QED
    BY <1>1, <2>1, FS_Subset
<1>3. S \in SUBSET Int
  BY <1>1
<1>4. Ceiling(s, top) = Refined(s, lo, IF lo = 0 THEN top ELSE Min(T))
  BY DEF Ceiling, Bracketed
<1> HIDE DEF S
<1>5. lo \in Nat
  BY <1>2, <1>3, LargestFit
<1> HIDE DEF lo
<1>6. T \in SUBSET Int /\ T # {}
  BY <1>5
<1>7. IsFiniteSet(T)
  <2>1. IsFiniteSet({2 * lo}) /\ T = {2 * lo} \cup {top}
    BY FS_Singleton
  <2> HIDE DEF T
  <2> QED
    BY <2>1, FS_AddElement
<1> HIDE DEF T
<1>8. Min(T) \in Int
  <2>1. Min(T) \in T
    BY <1>6, <1>7, Extremes
  <2> QED
    BY <1>6, <2>1
<1>9. (IF lo = 0 THEN top ELSE Min(T)) \in Int
  BY <1>8
<1> QED
  BY <1>4, <1>5, <1>9, RefinedIs

LEMMA LineupIs ==
    ASSUME led \in Ledger, NEW seq \in Lineups, seq # <<>>
    PROVE  /\ Len(seq) \in Nat /\ Len(seq) > 0 /\ DOMAIN seq = 1 .. Len(seq)
           /\ \A k \in DOMAIN seq : seq[k] \in Able /\ seq[k] \in Strategies /\ Measured(seq[k]) \in Nat /\ Measured(seq[k]) > 0
           /\ TotalOf(seq) \in Nat /\ TotalOf(seq) > 0
<1>1. seq \in Seq(Able)
  BY DEF Lineups
<1>2. Len(seq) \in Nat /\ Len(seq) > 0 /\ DOMAIN seq = 1 .. Len(seq)
  BY <1>1
<1>3. \A k \in DOMAIN seq : seq[k] \in Able /\ seq[k] \in Strategies /\ Measured(seq[k]) \in Nat /\ Measured(seq[k]) > 0
  BY <1>1, AbleAre
<1> DEFINE D == DOMAIN seq
           w == [k \in D |-> Measured(seq[k])]
<1>4. w \in [D -> Nat] /\ 1 \in D /\ w[1] > 0
  BY <1>2, <1>3
<1>5. TotalOf(seq) = SumOf(w)
  BY DEF TotalOf
<1>6. IsFiniteSet(D)
  BY <1>2, FS_Interval
<1> HIDE DEF w, D
<1>7. SumOf(w) \in Nat /\ SumOf(w) > 0
  BY <1>4, <1>6, SumPositive
<1> QED
  BY <1>2, <1>3, <1>5, <1>7

LEMMA SliceIs ==
    ASSUME led \in Ledger, NEW seq \in Lineups, seq # <<>>, NEW x \in Nat, NEW k \in DOMAIN seq
    PROVE  SliceAt(seq, x, k) \in Nat
<1>1. Measured(seq[k]) \in Nat /\ TotalOf(seq) \in Nat /\ TotalOf(seq) > 0
  BY LineupIs
<1> QED
  BY <1>1, DivisionIsAmount DEF SliceAt

LEMMA TakeInIs ==
    ASSUME led \in Ledger, NEW seq \in Lineups, seq # <<>>, NEW x \in Nat
    PROVE  TakeIn(seq, x) \in Nat /\ TakeIn(seq, x) <= x
<1> DEFINE limit == Limits(seq, x)
           U == {x} \cup Range(limit)
<1>1. /\ Len(seq) \in Nat /\ DOMAIN seq = 1 .. Len(seq) /\ TotalOf(seq) \in Nat
      /\ \A k \in DOMAIN seq : seq[k] \in Strategies /\ Measured(seq[k]) \in Nat /\ Measured(seq[k]) > 0
  BY LineupIs
<1>2. ASSUME NEW k \in DOMAIN seq PROVE Ceilings(seq, x)[k] \in Nat
  <2>1. Ceilings(seq, x)[k] = Ceiling(seq[k], SliceAt(seq, x, k))
    BY DEF Ceilings
  <2> QED
    BY <1>1, <2>1, SliceIs, CeilingIs
<1>3. DOMAIN limit = DOMAIN seq /\ \A k \in DOMAIN seq : limit[k] = (Ceilings(seq, x)[k] * TotalOf(seq)) \div Measured(seq[k])
  BY DEF Limits
<1> HIDE DEF limit
<1>4. ASSUME NEW k \in DOMAIN seq PROVE limit[k] \in Nat
  <2>1. PICK c \in Nat : c = Ceilings(seq, x)[k]
    BY <1>2
  <2>2. PICK t \in Nat : t = TotalOf(seq)
    BY <1>1
  <2>3. PICK d \in Nat : d = Measured(seq[k]) /\ d > 0
    BY <1>1
  <2>4. (c * t) \div d \in Nat
    BY <2>3, DivisionIsAmount
  <2> QED
    BY <1>3, <2>1, <2>2, <2>3, <2>4
<1>5. Range(limit) = {limit[k] : k \in DOMAIN seq}
  BY <1>3 DEF Range
<1>6. IsFiniteSet(Range(limit))
  <2>1. IsFiniteSet(DOMAIN seq)
    BY <1>1, FS_Interval
  <2> QED
    BY <1>5, <2>1, FiniteImage
<1>7. \A y \in Range(limit) : y \in Nat
  BY <1>4, <1>5
<1>8. IsFiniteSet(Range(limit) \cup {x})
  BY <1>6, FS_AddElement
<1>9. U = Range(limit) \cup {x} /\ U \in SUBSET Int /\ U # {} /\ x \in U /\ \A y \in U : y \in Nat
  BY <1>7
<1> HIDE DEF U
<1>10. Min(U) \in U /\ \A y \in U : Min(U) <= y
  BY <1>8, <1>9, Extremes
<1>11. Min(U) \in Nat /\ Min(U) <= x
  BY <1>9, <1>10
<1> QED
  BY <1>11 DEF TakeIn, U, limit

LEMMA LoweredIs == ASSUME NEW x \in Nat, NEW n \in Nat PROVE Lowered(x, n) \in Nat /\ Lowered(x, n) <= x
<1> DEFINE T == 0 .. x
           Is(f) == f = [m \in 0 .. n |-> IF m = 0 THEN x ELSE (f[m - 1] * 995) \div 1000]
           low == CHOOSE f : Is(f)
<1>1. Lowered(x, n) = low[n]
  BY DEF Lowered
<1>2. PICK H : H = [t \in T |-> (t * 995) \div 1000]
  OBVIOUS
<1>3. H \in [T -> T]
  <2>1. \A t \in Nat : (t * 995) \div 1000 \in Nat /\ (t * 995) \div 1000 <= t
    OBVIOUS
  <2>2. \A t \in T : t \in Nat /\ t <= x
    OBVIOUS
  <2>3. \A t \in T : (t * 995) \div 1000 \in T
    <3> SUFFICES ASSUME NEW t \in T PROVE (t * 995) \div 1000 \in T
      OBVIOUS
    <3>1. t \in Nat /\ t <= x /\ (t * 995) \div 1000 \in Nat /\ (t * 995) \div 1000 <= t
      BY <2>1, <2>2
    <3> QED
      BY <3>1
  <2> QED
    BY <1>2, <2>3
<1>4. \A t \in T : H[t] = (t * 995) \div 1000
  BY <1>2
<1>5. PICK G : G = [k \in 1 .. n |-> H]
  OBVIOUS
<1>6. G \in [1 .. n -> [T -> T]] /\ \A k \in 1 .. n : G[k] = H
  BY <1>3, <1>5
<1>7. x \in T
  OBVIOUS
<1> HIDE DEF T
<1>8. \E f \in [0 .. n -> T] : Recurs(f, n, x, G)
  BY <1>6, <1>7, Chains
<1>9. PICK f \in [0 .. n -> T] : f[0] = x /\ \A k \in 1 .. n : f[k] = G[k][f[k - 1]]
  BY <1>8 DEF Recurs
<1>10. \A k \in 1 .. n : f[k - 1] \in T /\ f[k] = H[f[k - 1]]
  BY <1>6, <1>9
<1>11. \A k \in 1 .. n : f[k] = (f[k - 1] * 995) \div 1000
  <2> SUFFICES ASSUME NEW k \in 1 .. n PROVE f[k] = (f[k - 1] * 995) \div 1000
    OBVIOUS
  <2>1. PICK t \in T : t = f[k - 1]
    BY <1>10
  <2>2. f[k] = H[t] /\ H[t] = (t * 995) \div 1000
    BY <1>4, <1>10, <2>1
  <2> QED
    BY <2>1, <2>2
<1>12. Is(f)
  <2>1. \A m \in 0 .. n : f[m] = IF m = 0 THEN x ELSE (f[m - 1] * 995) \div 1000
    BY <1>9, <1>11
  <2> QED
    BY <1>9, <2>1
<1>13. Is(low)
  <2> HIDE DEF Is
  <2> QED
    BY <1>12
<1> HIDE DEF low
<1>14. low[0] = x /\ \A m \in 1 .. n : low[m] = (low[m - 1] * 995) \div 1000
  BY <1>13
<1> DEFINE Fine == {m \in 0 .. n : low[m] \in T}
<1>15. 0 \in Fine
  BY <1>7, <1>14
<1>16. \A k \in 1 .. n : k - 1 \in Fine => k \in Fine
  <2> SUFFICES ASSUME NEW k \in 1 .. n, k - 1 \in Fine PROVE k \in Fine
    OBVIOUS
  <2>1. low[k] = H[low[k - 1]] /\ low[k - 1] \in T
    BY <1>4, <1>14
  <2> QED
    BY <1>3, <2>1
<1> HIDE DEF Fine
<1>17. \A k \in 0 .. n : k \in Fine
  BY <1>15, <1>16, Climb
<1>18. low[n] \in T
  BY <1>17 DEF Fine
<1> QED
  BY <1>1, <1>18 DEF T

-----------------------------------------------------------------------------
(* The replay, on a ledger of its own.                                      *)

Progress(D) == [left: Int, filled: [D -> Int], got: [D -> Nat], twice: BOOLEAN]

QuoteAt(l, s, x) == IF s \in Faithful /\ x \div Rate[s] <= l.virtual[s] THEN x \div Rate[s] ELSE 0

FitsAt(l, s, x) == QuoteAt(l, s, x) > 0 /\ QuoteAt(l, s, x) <= QuotableDepth(l, s)

OfferedAt(l, run, k, s, slice, offer) ==
    IF run.left = 0 \/ slice = 0 \/ ~FitsAt(l, s, offer) THEN run
    ELSE [left |-> run.left - slice, filled |-> [run.filled EXCEPT ![k] = @ + slice],
          got |-> [run.got EXCEPT ![k] = @ + QuoteAt(l, s, offer)],
          twice |-> run.twice \/ run.filled[k] > 0]

DepthsAt(l, seq) == [k \in DOMAIN seq |-> QuotableDepth(l, seq[k])]

CutAt(l, seq, x) == [k \in DOMAIN seq |-> (x * QuotableDepth(l, seq[k])) \div SumOf(DepthsAt(l, seq))]

SharesAt(l, seq, x) == [CutAt(l, seq, x) EXCEPT ![1] = @ + (x - SumOf(CutAt(l, seq, x)))]

\* What pass 2 does to the run at the k-th candidate, and what the sweep does.
PlacesAt(l, seq, x, P) ==
    \A k \in 1 .. Len(seq) :
        P[k] = OfferedAt(l, P[k - 1], k, seq[k], Lesser(SharesAt(l, seq, x)[k], P[k - 1].left), SharesAt(l, seq, x)[k])

SweepsAt(l, seq, rest, W) ==
    \A k \in 1 .. Len(seq) : W[k] = OfferedAt(l, W[k - 1], k, seq[k], rest, rest)

IsPlacing(l, seq, x, P) ==
    /\ P \in [0 .. Len(seq) -> Progress(DOMAIN seq)]
    /\ P[0] = Start(seq, x)
    /\ PlacesAt(l, seq, x, P)

IsSweeping(l, seq, placed, W) ==
    /\ W \in [0 .. Len(seq) -> Progress(DOMAIN seq)]
    /\ W[0] = placed
    /\ SweepsAt(l, seq, placed.left, W)

Foreseen(l, p, P, W) ==
    /\ IsPlacing(l, p.route, p.takeIn, P)
    /\ IsSweeping(l, p.route, P[Len(p.route)], W)
    /\ W[Len(p.route)].left = 0
    /\ p.amountOut = SumOf(W[Len(p.route)].got) /\ p.amountOut > 0
    /\ p.swept = W[Len(p.route)].twice

\* A plan is NoPlan or what two passes over able makers come to.
Stands(l, p) ==
    /\ p.route \in Seq(Faithful) /\ p.route # <<>>
    /\ \A k \in DOMAIN p.route : QuotableDepth(l, p.route[k]) > 0
    /\ \A j, k \in DOMAIN p.route : OwnerOf[p.route[j]] = OwnerOf[p.route[k]] => j = k
    /\ p.takeIn \in Nat /\ p.takeIn > 0
    /\ \E P, W : Foreseen(l, p, P, W)

LEMMA QuoteSame == ASSUME NEW s, NEW x \in Int, s \in Strategies, led \in Ledger PROVE Quote(s, x) = QuoteAt(led, s, x)
<1>1. x \div Rate[s] \in Int
  <2>1. PICK r : r = Rate[s]
    OBVIOUS
  <2>2. r \in Nat /\ r > 0
    BY <2>1, TapAssumption
  <2>3. x \div r \in Int
    BY <2>2
  <2> QED
    BY <2>1, <2>3
<1>2. led.virtual[s] \in Nat
  BY DEF Ledger
<1> QED
  BY <1>1, <1>2 DEF Quote, QuoteAt, QuoteReverts

LEMMA OfferedSame ==
    ASSUME led \in Ledger, NEW s \in Strategies, NEW offer \in Int, NEW run, NEW k, NEW slice
    PROVE  Offered(run, k, s, slice, offer) = OfferedAt(led, run, k, s, slice, offer)
<1>1. Quote(s, offer) = QuoteAt(led, s, offer)
  BY QuoteSame
<1> QED
  BY <1>1 DEF Offered, OfferedAt, Fits, FitsAt, Measured

LEMMA OfferedType ==
    ASSUME led \in Ledger, NEW D, NEW run \in Progress(D), NEW k \in D, NEW s \in Strategies, NEW slice \in Int, NEW offer \in Int
    PROVE  Offered(run, k, s, slice, offer) \in Progress(D)
<1>1. run.left \in Int /\ run.filled \in [D -> Int] /\ run.got \in [D -> Nat] /\ run.twice \in BOOLEAN
  BY DEF Progress
<1>2. PICK q : q = Quote(s, offer)
  OBVIOUS
<1>3. q \in Int
  BY <1>2, QuoteIs
<1>4. CASE Fits(s, offer)
  <2>1. q \in Nat
    BY <1>2, <1>3, <1>4 DEF Fits
  <2>2. [run.filled EXCEPT ![k] = @ + slice] \in [D -> Int] /\ [run.got EXCEPT ![k] = @ + q] \in [D -> Nat] /\ run.left - slice \in Int
    BY <1>1, <2>1
  <2>3. (run.twice \/ run.filled[k] > 0) \in BOOLEAN
    OBVIOUS
  <2>4. [left |-> run.left - slice, filled |-> [run.filled EXCEPT ![k] = @ + slice],
          got |-> [run.got EXCEPT ![k] = @ + q],
          twice |-> run.twice \/ run.filled[k] > 0] \in Progress(D)
    BY <2>2, <2>3 DEF Progress
  <2> QED
    BY <1>2, <2>4 DEF Offered
<1>5. CASE ~Fits(s, offer)
  BY <1>5 DEF Offered
<1> QED
  BY <1>4, <1>5

LEMMA SharesAre ==
    ASSUME led \in Ledger, NEW seq \in Lineups, seq # <<>>, NEW x \in Nat
    PROVE  /\ Shares(seq, x) = SharesAt(led, seq, x)
           /\ \A k \in DOMAIN seq : Shares(seq, x)[k] \in Int
<1> DEFINE cut == [k \in DOMAIN seq |-> SliceAt(seq, x, k)]
<1>1. TotalOf(seq) = SumOf(DepthsAt(led, seq))
  BY DEF TotalOf, DepthsAt, Measured
<1>2. cut = CutAt(led, seq, x)
  BY <1>1 DEF CutAt, SliceAt, Measured
<1>3. Shares(seq, x) = [cut EXCEPT ![1] = @ + (x - SumOf(cut))]
  BY DEF Shares
<1>4. cut \in [DOMAIN seq -> Nat]
  BY SliceIs
<1>5. IsFiniteSet(DOMAIN seq)
  <2>1. Len(seq) \in Nat /\ DOMAIN seq = 1 .. Len(seq)
    BY LineupIs
  <2> QED
    BY <2>1, FS_Interval
<1> HIDE DEF cut
<1>6. SumOf(cut) \in Nat
  BY <1>4, <1>5, SumNat
<1>7. \A k \in DOMAIN seq : [cut EXCEPT ![1] = @ + (x - SumOf(cut))][k] \in Int
  BY <1>4, <1>6
<1> QED
  BY <1>2, <1>3, <1>7 DEF SharesAt

LEMMA StartIs == ASSUME NEW seq, NEW x \in Nat PROVE Start(seq, x) \in Progress(DOMAIN seq)
BY DEF Start, Progress

LEMMA LesserIs == ASSUME NEW a \in Int, NEW b \in Int PROVE Lesser(a, b) \in Int
BY DEF Lesser

LEMMA PlacedIs ==
    ASSUME led \in Ledger, NEW seq \in Lineups, seq # <<>>, NEW x \in Nat
    PROVE  \E P : IsPlacing(led, seq, x, P) /\ PlacedIn(seq, x) = P[Len(seq)]
<1> DEFINE n == Len(seq)
           T == Progress(DOMAIN seq)
           share == Shares(seq, x)
           Next_(k, r) == Offered(r, k, seq[k], Lesser(share[k], r.left), share[k])
           Is(f) == f = [k \in 0 .. n |-> IF k = 0 THEN Start(seq, x) ELSE Next_(k, f[k - 1])]
           P == CHOOSE f : Is(f)
<1>1. PlacedIn(seq, x) = P[n]
  BY DEF PlacedIn
<1>2. n \in Nat /\ n > 0 /\ DOMAIN seq = 1 .. n /\ \A k \in 1 .. n : seq[k] \in Strategies
  BY LineupIs
<1>3. share = SharesAt(led, seq, x) /\ \A k \in 1 .. n : share[k] \in Int
  BY <1>2, SharesAre
<1>4. ASSUME NEW k \in 1 .. n, NEW r \in T
      PROVE  /\ Next_(k, r) \in T
             /\ Next_(k, r) = OfferedAt(led, r, k, seq[k], Lesser(share[k], r.left), share[k])
  <2>1. r.left \in Int
    BY DEF Progress
  <2>2. Lesser(share[k], r.left) \in Int
    BY <1>3, <2>1, LesserIs
  <2>3. seq[k] \in Strategies /\ share[k] \in Int /\ k \in DOMAIN seq
    BY <1>2, <1>3
  <2>4. PICK y \in Int : y = Lesser(share[k], r.left)
    BY <2>2
  <2>5. PICK z \in Int : z = share[k]
    BY <2>3
  <2>6. PICK s \in Strategies : s = seq[k]
    BY <2>3
  <2>7. Offered(r, k, s, y, z) \in T
    BY <2>3, OfferedType
  <2>8. Offered(r, k, s, y, z) = OfferedAt(led, r, k, s, y, z)
    BY OfferedSame
  <2> QED
    BY <2>4, <2>5, <2>6, <2>7, <2>8
<1>5. Start(seq, x) \in T
  BY StartIs
<1> HIDE DEF T, share
<1>6. PICK G : G = [k \in 1 .. n |-> [r \in T |-> Next_(k, r)]]
  OBVIOUS
<1>7. G \in [1 .. n -> [T -> T]]
  BY <1>4, <1>6
<1>8. \A k \in 1 .. n, r \in T : G[k][r] = Next_(k, r)
  BY <1>6
<1> HIDE DEF Next_, n
<1>9. \E f \in [0 .. n -> T] : Recurs(f, n, Start(seq, x), G)
  BY <1>2, <1>5, <1>7, Chains
<1>10. PICK f \in [0 .. n -> T] : f[0] = Start(seq, x) /\ \A k \in 1 .. n : f[k] = G[k][f[k - 1]]
  BY <1>9 DEF Recurs
<1>11. \A k \in 1 .. n : f[k] = Next_(k, f[k - 1])
  <2> SUFFICES ASSUME NEW k \in 1 .. n PROVE f[k] = Next_(k, f[k - 1])
    OBVIOUS
  <2>1. k - 1 \in 0 .. n
    BY <1>2
  <2>2. PICK t \in T : t = f[k - 1]
    BY <1>10, <2>1
  <2>3. f[k] = G[k][t]
    BY <1>10, <2>2
  <2> QED
    BY <1>8, <2>2, <2>3
<1>12. Is(f)
  <2>1. \A k \in 0 .. n : f[k] = IF k = 0 THEN Start(seq, x) ELSE Next_(k, f[k - 1])
    BY <1>10, <1>11, <1>2
  <2> QED
    BY <1>10, <2>1
<1>13. Is(P)
  <2> HIDE DEF Is
  <2> QED
    BY <1>12
<1> HIDE DEF P
<1>14. P[0] = Start(seq, x) /\ DOMAIN P = 0 .. n /\ P = [k \in 0 .. n |-> P[k]] /\ \A k \in 1 .. n : P[k] = Next_(k, P[k - 1])
  BY <1>2, <1>13
<1> DEFINE Fine == {k \in 0 .. n : P[k] \in T}
<1>15. 0 \in Fine
  BY <1>2, <1>5, <1>14
<1>16. \A k \in 1 .. n : k - 1 \in Fine => k \in Fine
  <2> SUFFICES ASSUME NEW k \in 1 .. n, k - 1 \in Fine PROVE k \in Fine
    OBVIOUS
  <2>1. P[k] = Next_(k, P[k - 1]) /\ P[k - 1] \in T
    BY <1>14
  <2>2. Next_(k, P[k - 1]) \in T
    BY <1>4, <2>1
  <2> QED
    BY <1>2, <2>1, <2>2
<1> HIDE DEF Fine
<1>17. \A k \in 0 .. n : k \in Fine
  BY <1>2, <1>15, <1>16, Climb
<1>18. \A k \in 0 .. n : P[k] \in T
  BY <1>17 DEF Fine
<1>19. P \in [0 .. n -> T]
  BY <1>14, <1>18
<1>20. \A k \in 1 .. n : P[k] = OfferedAt(led, P[k - 1], k, seq[k], Lesser(share[k], P[k - 1].left), share[k])
  <2> SUFFICES ASSUME NEW k \in 1 .. n PROVE P[k] = OfferedAt(led, P[k - 1], k, seq[k], Lesser(share[k], P[k - 1].left), share[k])
    OBVIOUS
  <2>1. k - 1 \in 0 .. n
    BY <1>2
  <2>2. P[k - 1] \in T
    BY <1>18, <2>1
  <2> QED
    BY <1>4, <1>14, <2>2
<1>21. PlacesAt(led, seq, x, P)
  BY <1>3, <1>20 DEF PlacesAt, n
<1>22. IsPlacing(led, seq, x, P)
  BY <1>14, <1>19, <1>21 DEF IsPlacing, n, T
<1> QED
  BY <1>1, <1>22 DEF n

LEMMA SweptIs ==
    ASSUME led \in Ledger, NEW seq \in Lineups, seq # <<>>, NEW placed \in Progress(DOMAIN seq)
    PROVE  \E W : IsSweeping(led, seq, placed, W) /\ SweptIn(seq, placed) = W[Len(seq)]
<1> DEFINE n == Len(seq)
           T == Progress(DOMAIN seq)
           Next_(k, r) == Offered(r, k, seq[k], placed.left, placed.left)
           Is(f) == f = [k \in 0 .. n |-> IF k = 0 THEN placed ELSE Next_(k, f[k - 1])]
           W == CHOOSE f : Is(f)
<1>1. SweptIn(seq, placed) = W[n]
  BY DEF SweptIn
<1>2. n \in Nat /\ n > 0 /\ DOMAIN seq = 1 .. n /\ \A k \in 1 .. n : seq[k] \in Strategies
  BY LineupIs
<1>3. placed.left \in Int
  BY DEF Progress
<1>4. ASSUME NEW k \in 1 .. n, NEW r \in T
      PROVE  /\ Next_(k, r) \in T
             /\ Next_(k, r) = OfferedAt(led, r, k, seq[k], placed.left, placed.left)
  <2>1. seq[k] \in Strategies /\ k \in DOMAIN seq
    BY <1>2
  <2>2. PICK z \in Int : z = placed.left
    BY <1>3
  <2>3. PICK s \in Strategies : s = seq[k]
    BY <2>1
  <2>4. Offered(r, k, s, z, z) \in T
    BY <2>1, OfferedType
  <2>5. Offered(r, k, s, z, z) = OfferedAt(led, r, k, s, z, z)
    BY OfferedSame
  <2> QED
    BY <2>2, <2>3, <2>4, <2>5
<1>5. placed \in T
  OBVIOUS
<1> HIDE DEF T
<1>6. PICK G : G = [k \in 1 .. n |-> [r \in T |-> Next_(k, r)]]
  OBVIOUS
<1>7. G \in [1 .. n -> [T -> T]]
  BY <1>4, <1>6
<1>8. \A k \in 1 .. n, r \in T : G[k][r] = Next_(k, r)
  BY <1>6
<1> HIDE DEF Next_, n
<1>9. \E f \in [0 .. n -> T] : Recurs(f, n, placed, G)
  BY <1>2, <1>5, <1>7, Chains
<1>10. PICK f \in [0 .. n -> T] : f[0] = placed /\ \A k \in 1 .. n : f[k] = G[k][f[k - 1]]
  BY <1>9 DEF Recurs
<1>11. \A k \in 1 .. n : f[k] = Next_(k, f[k - 1])
  <2> SUFFICES ASSUME NEW k \in 1 .. n PROVE f[k] = Next_(k, f[k - 1])
    OBVIOUS
  <2>1. k - 1 \in 0 .. n
    BY <1>2
  <2>2. PICK t \in T : t = f[k - 1]
    BY <1>10, <2>1
  <2>3. f[k] = G[k][t]
    BY <1>10, <2>2
  <2> QED
    BY <1>8, <2>2, <2>3
<1>12. Is(f)
  <2>1. \A k \in 0 .. n : f[k] = IF k = 0 THEN placed ELSE Next_(k, f[k - 1])
    BY <1>10, <1>11, <1>2
  <2> QED
    BY <1>10, <2>1
<1>13. Is(W)
  <2> HIDE DEF Is
  <2> QED
    BY <1>12
<1> HIDE DEF W
<1>14. W[0] = placed /\ DOMAIN W = 0 .. n /\ W = [k \in 0 .. n |-> W[k]] /\ \A k \in 1 .. n : W[k] = Next_(k, W[k - 1])
  BY <1>2, <1>13
<1> DEFINE Fine == {k \in 0 .. n : W[k] \in T}
<1>15. 0 \in Fine
  BY <1>2, <1>5, <1>14
<1>16. \A k \in 1 .. n : k - 1 \in Fine => k \in Fine
  <2> SUFFICES ASSUME NEW k \in 1 .. n, k - 1 \in Fine PROVE k \in Fine
    OBVIOUS
  <2>1. W[k] = Next_(k, W[k - 1]) /\ W[k - 1] \in T
    BY <1>14
  <2>2. Next_(k, W[k - 1]) \in T
    BY <1>4, <2>1
  <2> QED
    BY <1>2, <2>1, <2>2
<1> HIDE DEF Fine
<1>17. \A k \in 0 .. n : k \in Fine
  BY <1>2, <1>15, <1>16, Climb
<1>18. \A k \in 0 .. n : W[k] \in T
  BY <1>17 DEF Fine
<1>19. W \in [0 .. n -> T]
  BY <1>14, <1>18
<1>20. \A k \in 1 .. n : W[k] = OfferedAt(led, W[k - 1], k, seq[k], placed.left, placed.left)
  <2> SUFFICES ASSUME NEW k \in 1 .. n PROVE W[k] = OfferedAt(led, W[k - 1], k, seq[k], placed.left, placed.left)
    OBVIOUS
  <2>1. k - 1 \in 0 .. n
    BY <1>2
  <2>2. W[k - 1] \in T
    BY <1>18, <2>1
  <2> QED
    BY <1>4, <1>14, <2>2
<1>21. SweepsAt(led, seq, placed.left, W)
  BY <1>20 DEF SweepsAt, n
<1>22. IsSweeping(led, seq, placed, W)
  BY <1>14, <1>19, <1>21 DEF IsSweeping, n, T
<1> QED
  BY <1>1, <1>22 DEF n

-----------------------------------------------------------------------------
(* The plans.                                                               *)

Sound(p, x) == Stands(led, p) /\ p.takeIn <= x /\ p # NoPlan /\ p.amountOut \in Nat

LEMMA PlanStands ==
    ASSUME led \in Ledger, NEW seq \in Lineups, seq # <<>>, NEW x \in Nat, NEW y \in Nat, y > 0, y <= x, NEW b,
           Honours(Replay(seq, y))
    PROVE  Sound(PlanOf(seq, y, b, Replay(seq, y)), x)
<1> DEFINE run == Replay(seq, y)
           p == PlanOf(seq, y, b, run)
<1>1. p.takeIn = y /\ p.route = seq /\ p.amountOut = SumOf(run.got) /\ p.swept = run.twice
  BY DEF PlanOf
<1>2. run.left = 0 /\ SumOf(run.got) > 0
  BY DEF Honours
<1> HIDE DEF p
<1>3. run = SweptIn(seq, PlacedIn(seq, y))
  BY DEF Replay
<1> HIDE DEF run
<1>4. /\ Len(seq) \in Nat /\ Len(seq) > 0 /\ DOMAIN seq = 1 .. Len(seq)
      /\ \A k \in DOMAIN seq : seq[k] \in Able
  BY LineupIs
<1>5. PICK P : IsPlacing(led, seq, y, P) /\ PlacedIn(seq, y) = P[Len(seq)]
  BY PlacedIs
<1>6. P[Len(seq)] \in Progress(DOMAIN seq)
  BY <1>4, <1>5 DEF IsPlacing
<1>7. PICK W : IsSweeping(led, seq, P[Len(seq)], W) /\ SweptIn(seq, P[Len(seq)]) = W[Len(seq)]
  BY <1>6, SweptIs
<1>8. run = W[Len(seq)]
  BY <1>3, <1>5, <1>7
<1>9. Foreseen(led, p, P, W)
  BY <1>1, <1>2, <1>5, <1>7, <1>8 DEF Foreseen
<1>10. /\ seq \in Seq(Faithful)
       /\ \A k \in DOMAIN seq : QuotableDepth(led, seq[k]) > 0
       /\ \A j, k \in DOMAIN seq : OwnerOf[seq[j]] = OwnerOf[seq[k]] => j = k
  <2>1. seq \in Seq(Able) /\ \A j, k \in DOMAIN seq : OwnerOf[seq[j]] = OwnerOf[seq[k]] => j = k
    BY DEF Lineups
  <2>2. \A s \in Able : s \in Faithful /\ QuotableDepth(led, s) > 0
    BY AbleAre DEF Measured
  <2>3. seq \in Seq(Faithful)
    BY <2>1, <2>2
  <2> QED
    BY <1>4, <2>1, <2>2, <2>3
<1>11. Stands(led, p)
  BY <1>1, <1>9, <1>10 DEF Stands
<1>12. p # NoPlan
  BY <1>1 DEF NoPlan
<1>13. SumOf(run.got) \in Nat
  <2>1. run \in Progress(DOMAIN seq)
    BY <1>4, <1>7, <1>8 DEF IsSweeping
  <2>2. run.got \in [DOMAIN seq -> Nat]
    BY <2>1 DEF Progress
  <2>3. IsFiniteSet(DOMAIN seq)
    BY <1>4, FS_Interval
  <2> QED
    BY <2>2, <2>3, SumNat
<1>14. Sound(p, x)
  BY <1>1, <1>11, <1>12, <1>13 DEF Sound
<1> QED
  BY <1>14 DEF p, run

LEMMA FirstHonouredIs ==
    ASSUME led \in Ledger, NEW seq \in Lineups, seq # <<>>, NEW x \in Nat, NEW z \in Nat, z <= x, NEW tries \in Nat, NEW b
    PROVE  FirstHonoured(seq, z, tries, b) = NoPlan \/ Sound(FirstHonoured(seq, z, tries, b), x)
<1> DEFINE all == {Lowered(z, n) : n \in 0 .. tries - 1}
           U == {y \in all \ {0} : Honours(Replay(seq, y))}
<1>1. FirstHonoured(seq, z, tries, b) = IF U = {} THEN NoPlan ELSE PlanOf(seq, Max(U), b, Replay(seq, Max(U)))
  BY DEF FirstHonoured, FirstOf
<1>2. PICK f : f = [n \in 0 .. tries - 1 |-> Lowered(z, n)]
  OBVIOUS
<1>3. \A n \in 0 .. tries - 1 : f[n] = Lowered(z, n) /\ f[n] \in Nat /\ f[n] <= x
  <2> SUFFICES ASSUME NEW n \in 0 .. tries - 1 PROVE f[n] = Lowered(z, n) /\ f[n] \in Nat /\ f[n] <= x
    OBVIOUS
  <2>1. n \in Nat
    OBVIOUS
  <2>2. Lowered(z, n) \in Nat /\ Lowered(z, n) <= z
    BY <2>1, LoweredIs
  <2> QED
    BY <1>2, <2>2
<1>4. all = {f[n] : n \in 0 .. tries - 1}
  BY <1>3
<1>5. IsFiniteSet(all)
  <2>1. IsFiniteSet(0 .. tries - 1)
    BY FS_Interval
  <2> HIDE DEF all
  <2> QED
    BY <1>4, <2>1, FiniteImage
<1>6. \A y \in all : y \in Nat /\ y <= x
  BY <1>3, <1>4
<1> HIDE DEF all
<1>7. U \in SUBSET all /\ \A y \in U : y \in Nat /\ y > 0 /\ y <= x /\ Honours(Replay(seq, y))
  BY <1>6
<1>8. IsFiniteSet(U)
  BY <1>5, <1>7, FS_Subset
<1> HIDE DEF U
<1>9. ASSUME U # {} PROVE Max(U) \in U
  <2>1. U \in SUBSET Int
    BY <1>7
  <2> QED
    BY <1>8, <1>9, <2>1, Extremes
<1>10. ASSUME U # {} PROVE Sound(PlanOf(seq, Max(U), b, Replay(seq, Max(U))), x)
  <2>1. PICK y \in U : y = Max(U)
    BY <1>9, <1>10
  <2>2. Sound(PlanOf(seq, y, b, Replay(seq, y)), x)
    BY <1>7, PlanStands
  <2> QED
    BY <2>1, <2>2
<1> QED
  BY <1>1, <1>10

LEMMA SoloIs ==
    ASSUME led \in Ledger, NEW s \in Able, NEW x \in Nat
    PROVE  SoloPlan(s, x, SoloTake(s, x)) = NoPlan \/ Sound(SoloPlan(s, x, SoloTake(s, x)), x)
<1>1. <<s>> \in Lineups /\ <<s>> # <<>>
  <2>1. <<s>> \in Seq(Able) /\ DOMAIN <<s>> = {1}
    OBVIOUS
  <2> QED
    BY <2>1 DEF Lineups
<1>2. Ceiling(s, x) \in Nat
  BY AbleAre, CeilingIs
<1> DEFINE U == {Ceiling(s, x), x}
<1>3. U \in SUBSET Int /\ U # {} /\ x \in U /\ \A y \in U : y \in Nat
  BY <1>2
<1>4. IsFiniteSet(U)
  <2>1. IsFiniteSet({x}) /\ U = {x} \cup {Ceiling(s, x)}
    BY FS_Singleton
  <2> HIDE DEF U
  <2> QED
    BY <2>1, FS_AddElement
<1> HIDE DEF U
<1>5. Min(U) \in U /\ Min(U) <= x
  BY <1>3, <1>4, Extremes
<1>6. PICK take \in Nat : take = SoloTake(s, x) /\ take <= x
  BY <1>3, <1>5 DEF SoloTake, U
<1>7. PICK b : SoloPlan(s, x, take) = FirstHonoured(<<s>>, take, 3, b)
  BY DEF SoloPlan
<1>8. 3 \in Nat
  OBVIOUS
<1>9. FirstHonoured(<<s>>, take, 3, b) = NoPlan \/ Sound(FirstHonoured(<<s>>, take, 3, b), x)
  BY <1>1, <1>6, <1>8, FirstHonouredIs
<1> QED
  BY <1>6, <1>7, <1>9

LEMMA PlanLiveIs ==
    ASSUME led \in Ledger, NEW live \in Lineups, NEW x \in Nat
    PROVE  PlanLive(live, x) = NoPlan \/ Sound(PlanLive(live, x), x)
<1>1. CASE live = <<>>
  BY <1>1 DEF PlanLive
<1>2. CASE live # <<>>
  <2>1. PlanLive(live, x) = OrSolo(Split(live, x), live, x)
    BY <1>2 DEF PlanLive
  <2>2. TakeIn(live, x) \in Nat /\ TakeIn(live, x) <= x
    BY <1>2, TakeInIs
  <2>3. 4 \in Nat
    OBVIOUS
  <2>4. Split(live, x) = FirstHonoured(live, TakeIn(live, x), 4, Binding(live, x))
    BY DEF Split
  <2>5. Split(live, x) = NoPlan \/ Sound(Split(live, x), x)
    BY <1>2, <2>2, <2>3, <2>4, FirstHonouredIs
  <2>6. live[1] \in Able
    BY <1>2, LineupIs
  <2>7. SoloPlan(live[1], x, SoloTake(live[1], x)) = NoPlan \/ Sound(SoloPlan(live[1], x, SoloTake(live[1], x)), x)
    BY <2>6, SoloIs
  <2>8. PlanLive(live, x) = Split(live, x) \/ PlanLive(live, x) = SoloPlan(live[1], x, SoloTake(live[1], x))
    BY <2>1 DEF OrSolo
  <2> QED
    BY <2>5, <2>7, <2>8
<1> QED
  BY <1>1, <1>2

LEMMA PlanBookIs ==
    ASSUME led \in Ledger, NEW b, NEW x \in Nat
    PROVE  PlanBook(b, x) = NoPlan \/ Sound(PlanBook(b, x), x)
<1>1. Candidates(b, x) \in Lineups
  BY CandidatesAre
<1>2. Trimmed(Candidates(b, x), x) \in Lineups
  BY <1>1, TrimmedIs
<1>3. PlanBook(b, x) = PlanLive(Trimmed(Candidates(b, x), x), x)
  BY DEF PlanBook, PlanLikeTap
<1> QED
  BY <1>2, <1>3, PlanLiveIs

LEMMA BestOfBooksIs == ASSUME NEW attempt PROVE BestOfBooks(attempt) \in DOMAIN Books
<1> DEFINE S == {b \in DOMAIN Books : Books[b].hook}
           at == FillableBooks
           n == Len(at)
           T == DOMAIN Books
           base == Head(at \o <<1>>)
           Next_(k, r) == IF BetterRate(attempt[at[k]], attempt[r]) THEN at[k] ELSE r
           Is(f) == f = [k \in 0 .. n |-> IF k = 0 THEN base ELSE Next_(k, f[k - 1])]
           best == CHOOSE f : Is(f)
<1>1. BestOfBooks(attempt) = best[n]
  BY DEF BestOfBooks
<1>2. T = 1 .. Len(Books) /\ Len(Books) \in Nat /\ 1 \in T
  BY PlannedAssumption
<1>3. S \in SUBSET Int /\ IsFiniteSet(S) /\ S \subseteq T
  <2>1. IsFiniteSet(T) /\ S \in SUBSET T
    BY <1>2, FS_Interval
  <2>2. IsFiniteSet(S)
    BY <2>1, FS_Subset
  <2> QED
    BY <1>2, <2>1, <2>2
<1>4. at = Ascending(S)
  BY DEF FillableBooks
<1> HIDE DEF S, T
<1>5. Cardinality(S) \in Nat /\ at \in [1 .. Cardinality(S) -> S]
  BY <1>3, <1>4, AscendingIs
<1> HIDE DEF at
<1>6. at \in Seq(T) /\ 1 \in T
  <2>1. at \in [1 .. Cardinality(S) -> T]
    BY <1>3, <1>5
  <2>2. PICK c \in Nat : c = Cardinality(S)
    BY <1>5
  <2>3. at \in [1 .. c -> T]
    BY <2>1, <2>2
  <2> QED
    BY <1>2, <2>3
<1>7. n \in Nat /\ DOMAIN at = 1 .. n /\ \A k \in 1 .. n : at[k] \in T
  BY <1>6
<1>8. base \in T
  <2>1. at \o <<1>> \in Seq(T) /\ at \o <<1>> # <<>>
    BY <1>6
  <2> QED
    BY <2>1
<1>9. \A k \in 1 .. n, r \in T : Next_(k, r) \in T
  BY <1>7
<1> HIDE DEF base, n
<1>10. PICK G : G = [k \in 1 .. n |-> [r \in T |-> Next_(k, r)]]
  OBVIOUS
<1>11. G \in [1 .. n -> [T -> T]]
  BY <1>9, <1>10
<1>12. \A k \in 1 .. n, r \in T : G[k][r] = Next_(k, r)
  BY <1>10
<1> HIDE DEF Next_
<1>13. \E f \in [0 .. n -> T] : Recurs(f, n, base, G)
  BY <1>7, <1>8, <1>11, Chains
<1>14. PICK f \in [0 .. n -> T] : f[0] = base /\ \A k \in 1 .. n : f[k] = G[k][f[k - 1]]
  BY <1>13 DEF Recurs
<1>15. \A k \in 1 .. n : f[k] = Next_(k, f[k - 1])
  <2> SUFFICES ASSUME NEW k \in 1 .. n PROVE f[k] = Next_(k, f[k - 1])
    OBVIOUS
  <2>1. k - 1 \in 0 .. n
    BY <1>7
  <2>2. PICK t \in T : t = f[k - 1]
    BY <1>14, <2>1
  <2>3. f[k] = G[k][t]
    BY <1>14, <2>2
  <2> QED
    BY <1>12, <2>2, <2>3
<1>16. Is(f)
  <2>1. \A k \in 0 .. n : f[k] = IF k = 0 THEN base ELSE Next_(k, f[k - 1])
    BY <1>14, <1>15, <1>7
  <2> QED
    BY <1>14, <2>1
<1>17. Is(best)
  <2> HIDE DEF Is
  <2> QED
    BY <1>16
<1> HIDE DEF best
<1>18. best[0] = base /\ \A k \in 1 .. n : best[k] = Next_(k, best[k - 1])
  BY <1>7, <1>17
<1> DEFINE Fine == {k \in 0 .. n : best[k] \in T}
<1>19. 0 \in Fine
  BY <1>7, <1>8, <1>18
<1>20. \A k \in 1 .. n : k - 1 \in Fine => k \in Fine
  <2> SUFFICES ASSUME NEW k \in 1 .. n, k - 1 \in Fine PROVE k \in Fine
    OBVIOUS
  <2>1. best[k] = Next_(k, best[k - 1]) /\ best[k - 1] \in T
    BY <1>18
  <2>2. Next_(k, best[k - 1]) \in T
    BY <1>9, <2>1
  <2> QED
    BY <1>7, <2>1, <2>2
<1> HIDE DEF Fine
<1>21. \A k \in 0 .. n : k \in Fine
  BY <1>7, <1>19, <1>20, Climb
<1>22. best[n] \in T
  BY <1>7, <1>21 DEF Fine
<1> QED
  BY <1>1, <1>22 DEF T

LEMMA PlanRouteIs ==
    ASSUME led \in Ledger, NEW x \in Requests, PlanRoute(x)
    PROVE  plan' = NoPlan \/ Sound(plan', x)
<1>1. PICK best : best = BestOfBooks(Attempts(x))
  OBVIOUS
<1>2. best \in DOMAIN Books
  BY <1>1, BestOfBooksIs
<1>3. plan' = IF Books[best].hook THEN Attempts(x)[best] ELSE NoPlan
  BY <1>1 DEF PlanRoute
<1>4. Attempts(x)[best] = PlanBook(best, x)
  BY <1>2 DEF Attempts
<1>5. x \in Nat
  BY TapAssumption
<1>6. PlanBook(best, x) = NoPlan \/ Sound(PlanBook(best, x), x)
  BY <1>5, PlanBookIs
<1> QED
  BY <1>3, <1>4, <1>6

-----------------------------------------------------------------------------
(* What holds of the plan while the swap it was made for runs, and when     *)
(* somebody has moved since.                                                *)

\* A plan is one of the planner's, and until somebody moves it is one for the
\* ledger of the transaction's start.
Drawn(p) ==
    /\ p.takeIn \in Nat /\ p.takeIn > 0 /\ p.amountOut \in Nat
    /\ p.route \in Seq(Faithful)
    /\ \A j, k \in DOMAIN p.route : OwnerOf[p.route[j]] = OwnerOf[p.route[k]] => j = k
    /\ \E x \in Requests : p.takeIn <= x

PlanInv ==
    /\ plan # NoPlan => Drawn(plan)
    /\ fresh /\ plan # NoPlan => Stands(snap, plan)
    /\ fresh /\ pc # "idle" => plan # NoPlan

LEMMA NoPlanIs ==
    /\ NoPlan.takeIn = 0 /\ NoPlan.amountOut = 0 /\ NoPlan.route = <<>>
    /\ \A p : Drawn(p) => p # NoPlan
BY DEF NoPlan, Drawn

\* Every step of the planned swap is one of the hook's.
LEMMA PlannedSteps == PlanInv /\ [PlannedNext]_PlannedVars => [AnyNext]_vars
<1> SUFFICES ASSUME PlanInv, [PlannedNext]_PlannedVars PROVE [AnyNext]_vars
  OBVIOUS
<1>1. CASE SwapAsPlanned
  <2>1. plan # NoPlan
    BY <1>1, NoPlanIs DEF SwapAsPlanned
  <2>2. plan.takeIn \in Nat /\ plan.amountOut \in Nat /\ plan.route \in Seq(Strategies)
    BY <2>1, TapAssumption DEF PlanInv, Drawn
  <2>3. \E amountIn \in Nat, least \in Nat, candidates \in Seq(Strategies) : Swap(amountIn, least, candidates)
    BY <1>1, <2>2 DEF SwapAsPlanned
  <2> QED
    BY <2>3 DEF AnyNext, AnyCall
<1>2. CASE SwapOtherwise
  BY <1>2, TapAssumption DEF SwapOtherwise, Call, AnyNext, AnyCall
<1>3. CASE MakersMove \/ Run
  BY <1>3 DEF MakersMove, Run, AnyNext
<1>4. CASE (\E x \in Requests : PlanRoute(x)) \/ UNCHANGED PlannedVars
  BY <1>4 DEF PlanRoute, PlannedVars
<1> QED
  BY <1>1, <1>2, <1>3, <1>4 DEF PlannedNext

LEMMA PlanKeeps == IInv /\ PlanInv /\ [PlannedNext]_PlannedVars => PlanInv'
<1> SUFFICES ASSUME IInv, PlanInv, [PlannedNext]_PlannedVars PROVE PlanInv'
  OBVIOUS
<1>1. [AnyNext]_vars
  BY PlannedSteps
<1>2. CASE \E x \in Requests : PlanRoute(x)
  <2>1. PICK x \in Requests : PlanRoute(x)
    BY <1>2
  <2>2. led \in Ledger /\ led = snap /\ snap' = snap /\ pc' = "idle"
    BY <2>1 DEF IInv, TypeOK, Resting, PlanRoute, vars
  <2>3. plan' = NoPlan \/ Sound(plan', x)
    BY <2>1, <2>2, PlanRouteIs
  <2>4. Sound(plan', x) => Drawn(plan') /\ Stands(snap', plan')
    BY <2>2 DEF Sound, Drawn, Stands
  <2> QED
    BY <2>2, <2>3, <2>4 DEF PlanInv
<1>3. CASE SwapAsPlanned
  <2>1. plan' = plan /\ fresh' = fresh /\ snap' = snap
    BY <1>3 DEF SwapAsPlanned, Swap
  <2>2. plan # NoPlan
    BY <1>3, NoPlanIs DEF SwapAsPlanned
  <2> QED
    BY <2>1, <2>2 DEF PlanInv
<1>4. CASE SwapOtherwise
  BY <1>4 DEF SwapOtherwise, PlanInv
<1>5. CASE MakersMove
  BY <1>5 DEF MakersMove, PlanInv
<1>6. CASE Run
  <2>1. CASE pc' = "idle"
    BY <1>6, <2>1 DEF Run, PlanInv
  <2>2. CASE pc' # "idle"
    <3>1. snap' = snap
      BY <1>1, <2>2, SnapStays
    <3>2. pc # "idle"
      BY <1>6, <2>2 DEF Run, Execute, ReadDepth, AfterDepth, CountDust, PassOver, SkipOnQuote, TakeFails, Quoted, Filling,
                        Fill, SkipOnSwap, NextPass, SettleHook, Pay
    <3>3. plan' = plan /\ fresh' = fresh
      BY <1>6, <2>2 DEF Run
    <3> QED
      BY <3>1, <3>2, <3>3 DEF PlanInv
  <2> QED
    BY <2>1, <2>2
<1>7. CASE UNCHANGED PlannedVars
  BY <1>7 DEF PlannedVars, vars, PlanInv
<1> QED
  BY <1>2, <1>3, <1>4, <1>5, <1>6, <1>7 DEF PlannedNext

LEMMA PlannedInductive == PlannedSpec => [](IInv /\ PlanInv)
<1>1. PlannedInit => IInv /\ PlanInv
  BY Initially DEF PlannedInit, PlanInv
<1>2. IInv /\ PlanInv /\ [PlannedNext]_PlannedVars => (IInv /\ PlanInv)'
  <2> SUFFICES ASSUME IInv, PlanInv, [PlannedNext]_PlannedVars PROVE (IInv /\ PlanInv)'
    OBVIOUS
  <2>1. PlanInv'
    BY PlanKeeps
  <2>2. [AnyNext]_vars
    BY PlannedSteps
  <2>3. IInv'
    BY <2>2, AnyKeeps
  <2> QED
    BY <2>1, <2>3
<1> QED
  BY <1>1, <1>2, PTL DEF PlannedSpec

LEMMA PlannedCalls == PlannedSpec => AnySpec
<1>1. IInv /\ PlanInv /\ [PlannedNext]_PlannedVars => [AnyNext]_vars
  BY PlannedSteps
<1>2. PlannedInit => Init
  BY DEF PlannedInit
<1> QED
  BY <1>1, <1>2, PlannedInductive, PTL DEF PlannedSpec, AnySpec

LEMMA PlanTyped == PlanInv => PlanTypeOK
<1> SUFFICES ASSUME PlanInv PROVE PlanTypeOK
  OBVIOUS
<1>1. CASE plan = NoPlan
  BY <1>1, NoPlanIs DEF PlanTypeOK
<1>2. CASE plan # NoPlan
  <2>1. Drawn(plan)
    BY <1>2 DEF PlanInv
  <2> QED
    BY <1>2, <2>1 DEF PlanTypeOK, Drawn
<1> QED
  BY <1>1, <1>2

-----------------------------------------------------------------------------
(* The transaction follows the replay, candidate by candidate.              *)

\* A candidate's books are as the replay read them.
Spared(k) ==
    /\ led.wallet[OwnerOf[route[k]]] = snap.wallet[OwnerOf[route[k]]]
    /\ led.allowance[OwnerOf[route[k]]] = snap.allowance[OwnerOf[route[k]]]
    /\ led.virtual[route[k]] = snap.virtual[route[k]]
    /\ led.tokensCount[route[k]] = snap.tokensCount[route[k]]

\* The hook stands where the run does.
At(run) ==
    /\ remaining = run.left /\ totalOut = SumOf(run.got) /\ unplaced = 0
    /\ \A k \in 1 .. N : /\ run.filled[k] >= 0
                         /\ run.filled[k] = 0 => Spared(k)
                         /\ led.virtual[route[k]] <= snap.virtual[route[k]]

\* What is left covers the shares still to be offered.
Room ==
    \E sum \in [1 .. N + 1 -> 0 .. requested - dust] :
        Cuts(sum, N + 1) /\ remaining + sum[i] + (IF i = 1 THEN 0 ELSE dust) >= requested

Read(n) == \A k \in 1 .. n : depth[k] = QuotableDepth(snap, route[k])

Agrees(P, W) ==
    /\ pc = "depth" => Read(i - 1)
    /\ pc # "depth" => Read(N) /\ totalDepth = SumOf(DepthsAt(snap, route))
    /\ pc = "place" => At(P[i - 1]) /\ (\A k \in i .. N : P[i - 1].filled[k] = 0) /\ Room
    /\ pc = "sweep" => At(W[i - 1]) /\ (remaining = 0 \/ remaining = P[N].left)
    /\ pc \in {"settle", "pay"} => remaining = 0 /\ totalOut = plan.amountOut

AsPlanned == route = plan.route /\ requested = plan.takeIn /\ minOut = plan.amountOut

\* Nobody moved, no maker serves both passes, and the PoolManager can lend.
Clear == fresh /\ pc # "idle" /\ ~plan.swept /\ snap.pmIn >= 2 * requested

Followed ==
    /\ fresh /\ pc # "idle" => AsPlanned
    /\ Clear => \E P, W : Foreseen(snap, plan, P, W) /\ Agrees(P, W)

-----------------------------------------------------------------------------
LEMMA RouteIs ==
    ASSUME IInv, PlanInv, Followed, fresh, pc # "idle"
    PROVE  /\ N \in Nat /\ N > 0 /\ DOMAIN route = 1 .. N /\ N = Len(plan.route)
           /\ \A k \in 1 .. N : /\ route[k] \in Faithful /\ route[k] \in Strategies
                                /\ QuotableDepth(snap, route[k]) \in Nat /\ QuotableDepth(snap, route[k]) > 0
           /\ \A j, k \in 1 .. N : OwnerOf[route[j]] = OwnerOf[route[k]] => j = k
           /\ requested \in Nat /\ requested > 0 /\ plan.takeIn = requested /\ plan.route = route /\ plan.amountOut = minOut
<1>1. plan # NoPlan /\ Stands(snap, plan) /\ AsPlanned
  BY DEF PlanInv, Followed
<1>2. route \in Seq(Faithful) /\ route # <<>>
  BY <1>1 DEF Stands, AsPlanned
<1>3. N \in Nat /\ N > 0 /\ DOMAIN route = 1 .. N /\ \A k \in 1 .. N : route[k] \in Faithful /\ route[k] \in Strategies
  BY <1>2, TapAssumption DEF N
<1>4. \A k \in 1 .. N : QuotableDepth(snap, route[k]) > 0
  BY <1>1, <1>3 DEF Stands, AsPlanned
<1>5. snap \in Ledger
  BY DEF IInv, TypeOK
<1>6. \A k \in 1 .. N : QuotableDepth(snap, route[k]) \in Nat
  BY <1>3, <1>5, DepthIsAmount
<1>7. \A j, k \in 1 .. N : OwnerOf[route[j]] = OwnerOf[route[k]] => j = k
  BY <1>1, <1>3 DEF Stands, AsPlanned
<1> QED
  BY <1>1, <1>3, <1>4, <1>6, <1>7 DEF Stands, AsPlanned, N

\* A run with nothing left stays.
LEMMA Stays ==
    ASSUME NEW n \in Nat, NEW f, NEW m \in 0 .. n, f[m].left = 0,
           \A k \in 1 .. n : f[k - 1].left = 0 => f[k] = f[k - 1]
    PROVE  f[n] = f[m]
<1> DEFINE Fine == {k \in 0 .. n : k >= m => f[k] = f[m]}
<1>1. 0 \in Fine
  OBVIOUS
<1>2. \A k \in 1 .. n : k - 1 \in Fine => k \in Fine
  <2> SUFFICES ASSUME NEW k \in 1 .. n, k - 1 \in Fine, k >= m PROVE f[k] = f[m]
    OBVIOUS
  <2>1. CASE k = m
    BY <2>1
  <2>2. CASE k # m
    <3>1. k - 1 >= m
      BY <2>2
    <3>2. f[k - 1] = f[m]
      BY <3>1
    <3> QED
      BY <3>2
  <2> QED
    BY <2>1, <2>2
<1> HIDE DEF Fine
<1>3. \A k \in 0 .. n : k \in Fine
  BY <1>1, <1>2, Climb
<1>4. n \in Fine
  BY <1>3
<1> QED
  BY <1>4 DEF Fine

\* A run whose end has no maker twice never had.
LEMMA NeverTwice ==
    ASSUME NEW n \in Nat, NEW f, ~f[n].twice, \A k \in 1 .. n : f[k - 1].twice => f[k].twice
    PROVE  \A k \in 0 .. n : ~f[k].twice
<1> DEFINE Fine == {k \in 0 .. n : ~f[n - k].twice}
<1>1. 0 \in Fine
  OBVIOUS
<1>2. \A k \in 1 .. n : k - 1 \in Fine => k \in Fine
  <2> SUFFICES ASSUME NEW k \in 1 .. n, k - 1 \in Fine PROVE ~f[n - k].twice
    OBVIOUS
  <2>1. PICK j \in 1 .. n : j = n - (k - 1)
    OBVIOUS
  <2>2. ~f[j].twice /\ j - 1 = n - k
    BY <2>1
  <2> QED
    BY <2>2
<1> HIDE DEF Fine
<1>3. \A k \in 0 .. n : k \in Fine
  BY <1>1, <1>2, Climb
<1>4. ASSUME NEW k \in 0 .. n PROVE ~f[k].twice
  <2>1. n - k \in Fine /\ n - (n - k) = k
    BY <1>3
  <2> QED
    BY <2>1 DEF Fine
<1> QED
  BY <1>4

LEMMA RunsAre ==
    ASSUME IInv, PlanInv, Followed, fresh, pc # "idle", NEW P, NEW W, Foreseen(snap, plan, P, W)
    PROVE  /\ P \in [0 .. N -> Progress(1 .. N)] /\ P[0] = Start(route, requested)
           /\ PlacesAt(snap, route, requested, P)
           /\ W \in [0 .. N -> Progress(1 .. N)] /\ W[0] = P[N]
           /\ SweepsAt(snap, route, P[N].left, W)
           /\ W[N].left = 0 /\ SumOf(W[N].got) = plan.amountOut /\ plan.amountOut > 0
           /\ \A m \in 0 .. N : P[m].left = 0 => P[N] = P[m]
           /\ \A m \in 0 .. N : W[m].left = 0 => W[N] = W[m]
           /\ ~plan.swept => \A k \in 0 .. N : ~W[k].twice
<1>1. N \in Nat /\ N > 0 /\ DOMAIN route = 1 .. N /\ plan.takeIn = requested /\ plan.route = route /\ N = Len(route)
  BY RouteIs DEF N
<1>2. IsPlacing(snap, route, requested, P) /\ IsSweeping(snap, route, P[N], W)
  BY <1>1 DEF Foreseen
<1>3. /\ P \in [0 .. N -> Progress(1 .. N)] /\ P[0] = Start(route, requested)
      /\ PlacesAt(snap, route, requested, P)
      /\ W \in [0 .. N -> Progress(1 .. N)] /\ W[0] = P[N]
      /\ SweepsAt(snap, route, P[N].left, W)
  BY <1>1, <1>2 DEF IsPlacing, IsSweeping
<1>4. W[N].left = 0 /\ SumOf(W[N].got) = plan.amountOut /\ plan.amountOut > 0 /\ plan.swept = W[N].twice
  BY <1>1 DEF Foreseen
<1>5. \A k \in 1 .. N : P[k - 1].left = 0 => P[k] = P[k - 1]
  BY <1>1, <1>3 DEF PlacesAt, OfferedAt
<1>6. \A k \in 1 .. N : W[k - 1].left = 0 => W[k] = W[k - 1]
  BY <1>1, <1>3 DEF SweepsAt, OfferedAt
<1>7. \A k \in 1 .. N : W[k - 1].twice => W[k].twice
  <2> SUFFICES ASSUME NEW k \in 1 .. N, W[k - 1].twice PROVE W[k].twice
    OBVIOUS
  <2>1. W[k] = OfferedAt(snap, W[k - 1], k, route[k], P[N].left, P[N].left)
    BY <1>1, <1>3 DEF SweepsAt
  <2>2. CASE W[k] = W[k - 1]
    BY <2>2
  <2>3. CASE W[k] # W[k - 1]
    <3>1. W[k].twice = (W[k - 1].twice \/ W[k - 1].filled[k] > 0)
      BY <2>1, <2>3 DEF OfferedAt
    <3> QED
      BY <3>1
  <2> QED
    BY <2>2, <2>3
<1>8. \A m \in 0 .. N : P[m].left = 0 => P[N] = P[m]
  BY <1>1, <1>5, Stays
<1>9. \A m \in 0 .. N : W[m].left = 0 => W[N] = W[m]
  BY <1>1, <1>6, Stays
<1>10. ASSUME ~plan.swept PROVE \A k \in 0 .. N : ~W[k].twice
  <2>1. ~W[N].twice
    BY <1>4, <1>10
  <2> QED
    BY <1>1, <1>7, <2>1, NeverTwice
<1> QED
  BY <1>3, <1>4, <1>8, <1>9, <1>10

\* What a spared candidate can deliver is what the replay thought.
LEMMA SparedFits ==
    ASSUME IInv, NEW k \in 1 .. N, route[k] \in Faithful, Spared(k), NEW x \in Nat
    PROVE  /\ FitsAt(snap, route[k], x) =>
                /\ ~QuoteReverts(route[k], x) /\ ~SwapReverts(route[k], x)
                /\ Quotes(route[k], x) = {QuoteAt(snap, route[k], x)}
           /\ ~QuoteReverts(route[k], x) => QuoteAt(snap, route[k], x) = x \div Rate[route[k]]
<1> DEFINE s == route[k]
<1>1. s \in Strategies /\ OwnerOf[s] \in Makers
  BY TapAssumption, OwnerAssumption
<1>2. PICK r : r = Rate[s]
  OBVIOUS
<1>3. r \in Nat /\ r > 0
  BY <1>1, <1>2, TapAssumption
<1>4. PICK q : q = x \div r
  OBVIOUS
<1>5. q \in Nat
  BY <1>3, <1>4
<1>6. led \in Ledger /\ snap \in Ledger
  BY DEF IInv, TypeOK
<1>7. led.virtual[s] \in Nat /\ led.virtual[s] = snap.virtual[s]
  BY <1>1, <1>6 DEF Ledger, Spared
<1>8. QuotableDepth(led, s) = QuotableDepth(snap, s)
  BY DEF QuotableDepth, Backing, IsLive, Spared
<1>9. QuoteAt(snap, s, x) = IF q <= led.virtual[s] THEN q ELSE 0
  BY <1>2, <1>4, <1>7 DEF QuoteAt
<1>10. QuoteReverts(s, x) <=> q > led.virtual[s]
  BY <1>2, <1>4 DEF QuoteReverts
<1>11. ASSUME FitsAt(snap, s, x) PROVE ~QuoteReverts(s, x) /\ ~SwapReverts(s, x) /\ Quotes(s, x) = {QuoteAt(snap, s, x)}
  <2>1. QuoteAt(snap, s, x) = q /\ q > 0 /\ q <= led.virtual[s] /\ q <= QuotableDepth(led, s)
    BY <1>5, <1>7, <1>8, <1>9, <1>11 DEF FitsAt
  <2>2. ~QuoteReverts(s, x)
    BY <1>5, <1>7, <1>10, <2>1
  <2>3. CanPull(led, s, q)
    <3>1. IsLive(led, s)
      BY <1>5, <2>1 DEF QuotableDepth
    <3> QED
      BY <2>1, <3>1 DEF CanPull, QuotableDepth
  <2>4. ~SwapReverts(s, x)
    BY <1>2, <1>4, <2>3 DEF SwapReverts
  <2>5. Quotes(s, x) = {q}
    BY <1>2, <1>4, <2>1 DEF Quotes
  <2> QED
    BY <2>1, <2>2, <2>4, <2>5
<1>12. ~QuoteReverts(s, x) => QuoteAt(snap, s, x) = x \div Rate[s]
  BY <1>2, <1>4, <1>5, <1>7, <1>9, <1>10
<1> QED
  BY <1>11, <1>12

-----------------------------------------------------------------------------
(* One candidate.                                                           *)

LEMMA SkipMeans ==
    ASSUME IInv, SkipOnQuote, depth[i] = QuotableDepth(snap, route[i]), route[i] \in Faithful, Spared(i)
    PROVE  ~FitsAt(snap, route[i], Offer)
<1>1. i \in 1 .. N /\ Offer \in Nat
  BY FillContext DEF SkipOnQuote
<1>2. SUFFICES ASSUME FitsAt(snap, route[i], Offer) PROVE FALSE
  OBVIOUS
<1>3. ~QuoteReverts(route[i], Offer) /\ Quotes(route[i], Offer) = {QuoteAt(snap, route[i], Offer)}
  BY <1>1, <1>2, SparedFits
<1>4. PICK q \in Quotes(route[i], Offer) : ~Usable(q)
  BY <1>3 DEF SkipOnQuote
<1>5. q = QuoteAt(snap, route[i], Offer)
  BY <1>3, <1>4
<1> QED
  BY <1>2, <1>4, <1>5 DEF FitsAt, Usable

LEMMA QuotedMeans ==
    ASSUME IInv, Quoted, depth[i] = QuotableDepth(snap, route[i]), route[i] \in Faithful,
           led.virtual[route[i]] <= snap.virtual[route[i]]
    PROVE  FitsAt(snap, route[i], Offer) /\ Offer > 0
<1>1. i \in 1 .. N /\ Offer \in Nat /\ route[i] \in Strategies
  BY FillContext DEF Quoted
<1>2. PICK q \in Quotes(route[i], Offer) : Usable(q)
  BY DEF Quoted
<1>3. PICK r : r = Rate[route[i]]
  OBVIOUS
<1>4. r \in Nat /\ r > 0
  BY <1>1, <1>3, TapAssumption
<1>5. q = Offer \div r /\ q <= led.virtual[route[i]]
  BY <1>2, <1>3 DEF Quotes
<1>6. Offer \div r \in Nat
  BY <1>1, <1>4
<1>7. led.virtual[route[i]] \in Nat /\ snap.virtual[route[i]] \in Nat
  BY <1>1 DEF IInv, TypeOK, Ledger
<1>8. q <= snap.virtual[route[i]]
  BY <1>5, <1>6, <1>7
<1>9. QuoteAt(snap, route[i], Offer) = q
  BY <1>3, <1>5, <1>8 DEF QuoteAt
<1> QED
  BY <1>1, <1>2, <1>9 DEF FitsAt, Usable, Quoted, Worth

LEMMA LentInFull ==
    ASSUME IInv, Filling, unplaced = 0, snap.pmIn >= 2 * requested
    PROVE  led.pmIn >= Offer
<1>1. /\ Offer \in Nat /\ Offer <= remaining /\ FillAccounts /\ InSwap
      /\ remaining \in Nat /\ requested \in Nat /\ borrowed \in Int /\ led.pmIn \in Nat /\ snap.pmIn \in Nat
  BY FillContext DEF IInv, TypeOK, Ledger
<1>2. remaining <= requested /\ borrowed = requested - remaining + 0 /\ led.pmIn + borrowed = snap.pmIn
  BY <1>1 DEF FillAccounts, FilledIn
<1> QED
  BY <1>1, <1>2

LEMMA RunStays ==
    ASSUME NEW run, At(run), UNCHANGED <<led, snap, route, remaining, totalOut, unplaced>>
    PROVE  At(run)'
BY DEF At, Spared, N

\* The totals of a run whose progress is put down at one place.
LEMMA GotAdds ==
    ASSUME NEW n \in Nat, NEW run \in Progress(1 .. n), NEW k \in 1 .. n, NEW q \in Nat
    PROVE  SumOf([run.got EXCEPT ![k] = @ + q]) = SumOf(run.got) + q
<1>1. run.got \in [1 .. n -> Nat]
  BY DEF Progress
<1>2. IsFiniteSet(1 .. n)
  BY FS_Interval
<1> QED
  BY <1>1, <1>2, SumPut

LEMMA FillAdvances ==
    ASSUME IInv, Fill, NEW run \in Progress(1 .. N), At(run), run.filled[i] = 0,
           FitsAt(snap, route[i], Offer), Offer > 0, route[i] \in Faithful,
           \A j, k \in 1 .. N : OwnerOf[route[j]] = OwnerOf[route[k]] => j = k,
           NEW next, next = OfferedAt(snap, run, i, route[i], Offer, Offer)
    PROVE  /\ At(next)' /\ remaining' = remaining - Offer
           /\ \A k \in 1 .. N : k # i => next.filled[k] = run.filled[k]
<1>1. /\ Filling /\ i \in 1 .. N /\ N \in Nat /\ Offer \in Nat /\ route[i] \in Strategies /\ remaining \in Nat
      /\ UNCHANGED <<snap, route>> /\ Offer <= led.pmIn /\ led \in Ledger /\ snap \in Ledger /\ totalOut \in Nat
  BY FillContext DEF Fill, Quoted, Unaffected, IInv, TypeOK, Ledger
<1>2. PICK s : s = route[i]
  OBVIOUS
<1>3. PICK x \in Nat : x = Offer
  BY <1>1
<1>4. PICK q : q = QuoteAt(snap, s, x)
  OBVIOUS
<1>5. run.left = remaining /\ remaining > 0 /\ totalOut = SumOf(run.got) /\ unplaced = 0 /\ Spared(i)
  BY <1>1 DEF At, Filling
<1>6. ~QuoteReverts(s, x) /\ QuoteAt(snap, s, x) = x \div Rate[s] /\ s \in Faithful /\ s \in Strategies
  BY <1>1, <1>2, <1>3, <1>5, SparedFits
<1>7. q = x \div Rate[s] /\ q > 0
  BY <1>2, <1>3, <1>4, <1>6 DEF FitsAt
<1>8. q \in Nat
  <2>1. PICK r : r = Rate[s]
    OBVIOUS
  <2>2. r \in Nat /\ r > 0
    BY <1>6, <2>1, TapAssumption
  <2>3. x \div r \in Nat
    BY <2>2
  <2> QED
    BY <1>7, <2>1, <2>3
<1>9. /\ led' = Exchanged(Borrow(x), s, x, q)
      /\ remaining' = remaining - x /\ unplaced' = unplaced + (x - x) /\ totalOut' = totalOut + q
  <2>1. PICK r \in SwapResults(s, x) :
           /\ led' = Exchanged(Borrow(x), s, r.used, r.out)
           /\ remaining' = remaining - r.used /\ unplaced' = unplaced + (x - r.used) /\ totalOut' = totalOut + r.out
    BY <1>2, <1>3 DEF Fill
  <2>2. r.used = x /\ r.out = q
    BY <1>6, <1>7 DEF SwapResults
  <2> QED
    BY <2>1, <2>2
<1>10. unplaced' = 0
  BY <1>5, <1>9
<1>11. next = [left |-> run.left - x, filled |-> [run.filled EXCEPT ![i] = @ + x],
               got |-> [run.got EXCEPT ![i] = @ + q],
               twice |-> run.twice \/ run.filled[i] > 0]
  <2>1. ~(run.left = 0 \/ Offer = 0 \/ ~FitsAt(snap, route[i], Offer))
    BY <1>1, <1>5
  <2> QED
    BY <1>2, <1>3, <1>4, <2>1 DEF OfferedAt
<1>12. next.left = run.left - x /\ next.filled = [run.filled EXCEPT ![i] = @ + x] /\ next.got = [run.got EXCEPT ![i] = @ + q]
  BY <1>11
<1>13. run.filled \in [1 .. N -> Int]
  BY DEF Progress
<1>14. next.filled[i] = x /\ \A k \in 1 .. N : k # i => next.filled[k] = run.filled[k]
  BY <1>1, <1>12, <1>13
<1>15. SumOf(next.got) = SumOf(run.got) + q
  BY <1>1, <1>8, <1>12, GotAdds
<1>16. remaining' = next.left /\ totalOut' = SumOf(next.got)
  BY <1>5, <1>9, <1>12, <1>15
<1> DEFINE l == Borrow(x)
<1>17. /\ l.wallet = led.wallet /\ l.allowance = led.allowance /\ l.virtual = led.virtual /\ l.tokensCount = led.tokensCount
       /\ l \in Ledger
  BY <1>1, <1>3, BorrowKeepsAmounts DEF Borrow, Ledger
<1> HIDE DEF l
<1>18. /\ led'.wallet = [led.wallet EXCEPT ![OwnerOf[s]] = @ - q]
       /\ led'.allowance = [led.allowance EXCEPT ![OwnerOf[s]] = @ - q]
       /\ led'.virtual = [led.virtual EXCEPT ![s] = @ - q]
       /\ led'.tokensCount = led.tokensCount
  <2>1. led' = Exchanged(l, s, x, q)
    BY <1>9 DEF l
  <2> QED
    BY <1>17, <2>1 DEF Exchanged, Ledger
<1>19. led.wallet \in [Makers -> Nat] /\ led.allowance \in [Makers -> Nat] /\ led.virtual \in [Strategies -> Nat]
  BY <1>1 DEF Ledger
<1>20. ASSUME NEW k \in 1 .. N
       PROVE  /\ next.filled[k] >= 0
              /\ next.filled[k] = 0 => /\ led'.wallet[OwnerOf[route[k]]] = snap.wallet[OwnerOf[route[k]]]
                                       /\ led'.allowance[OwnerOf[route[k]]] = snap.allowance[OwnerOf[route[k]]]
                                       /\ led'.virtual[route[k]] = snap.virtual[route[k]]
                                       /\ led'.tokensCount[route[k]] = snap.tokensCount[route[k]]
              /\ led'.virtual[route[k]] <= snap.virtual[route[k]]
  <2>0. route[k] \in Strategies /\ OwnerOf[route[k]] \in Makers
    BY OwnerAssumption DEF IInv, TypeOK, N
  <2>1. CASE k = i
    <3>1. led'.virtual[route[k]] = led.virtual[s] - q /\ led.virtual[s] \in Nat
      BY <1>2, <1>6, <1>18, <1>19, <2>1
    <3>2. led.virtual[s] = snap.virtual[s]
      BY <1>2, <1>5 DEF Spared
    <3>3. led'.virtual[route[k]] <= snap.virtual[route[k]]
      BY <1>2, <1>8, <2>1, <3>1, <3>2
    <3>4. next.filled[k] > 0
      BY <1>3, <1>14, <2>1
    <3> QED
      BY <3>3, <3>4, <1>3, <1>14, <2>1
  <2>2. CASE k # i
    <3>1. OwnerOf[route[k]] # OwnerOf[s] /\ route[k] # s
      BY <1>1, <1>2, <2>2
    <3>2. /\ led'.wallet[OwnerOf[route[k]]] = led.wallet[OwnerOf[route[k]]]
          /\ led'.allowance[OwnerOf[route[k]]] = led.allowance[OwnerOf[route[k]]]
          /\ led'.virtual[route[k]] = led.virtual[route[k]]
          /\ led'.tokensCount[route[k]] = led.tokensCount[route[k]]
      BY <1>18, <1>19, <2>0, <3>1
    <3>3. next.filled[k] = run.filled[k]
      BY <1>14, <2>2
    <3>4. /\ run.filled[k] >= 0 /\ (run.filled[k] = 0 => Spared(k)) /\ led.virtual[route[k]] <= snap.virtual[route[k]]
      BY DEF At
    <3> QED
      BY <3>2, <3>3, <3>4 DEF Spared
  <2> QED
    BY <2>1, <2>2
<1>21. N' = N
  BY <1>1 DEF N
<1>22. At(next)'
  BY <1>1, <1>10, <1>16, <1>20, <1>21 DEF At, Spared
<1> QED
  BY <1>3, <1>9, <1>14, <1>22

-----------------------------------------------------------------------------
(* The phases.                                                              *)

\* What a step must show to go on as planned.
LEMMA Follows ==
    ASSUME Followed, pc # "idle", UNCHANGED <<snap, plan, fresh, route, requested, minOut>>,
           ASSUME NEW P, NEW W, Clear, Foreseen(snap, plan, P, W), Agrees(P, W) PROVE Agrees(P, W)'
    PROVE  Followed'
<1>1. (fresh /\ pc # "idle" => AsPlanned)'
  BY DEF Followed, AsPlanned
<1>2. ASSUME Clear' PROVE \E P, W : Foreseen(snap', plan', P, W) /\ Agrees(P, W)'
  <2>1. Clear
    BY <1>2 DEF Clear
  <2>2. PICK P, W : Foreseen(snap, plan, P, W) /\ Agrees(P, W)
    BY <2>1 DEF Followed
  <2>3. Agrees(P, W)'
    BY <2>1, <2>2
  <2>4. Foreseen(snap', plan', P, W)
    BY <2>2
  <2> QED
    BY <2>3, <2>4
<1>3. (Clear => \E P, W : Foreseen(snap, plan, P, W) /\ Agrees(P, W))'
  BY <1>2
<1> QED
  BY <1>1, <1>3 DEF Followed

LEMMA SwapFollows == ASSUME IInv, PlanInv, SwapAsPlanned PROVE Followed'
<1>1. /\ pc' = "depth" /\ i' = 1 /\ UNCHANGED <<snap, plan, fresh>>
      /\ route' = plan.route /\ requested' = plan.takeIn /\ minOut' = plan.amountOut
  BY DEF SwapAsPlanned, Swap, Goto
<1>2. plan # NoPlan
  BY NoPlanIs DEF SwapAsPlanned
<1>3. AsPlanned'
  BY <1>1 DEF AsPlanned
<1>4. ASSUME fresh PROVE \E P, W : Foreseen(snap', plan', P, W) /\ Agrees(P, W)'
  <2>1. PICK P, W : Foreseen(snap, plan, P, W)
    BY <1>2, <1>4 DEF PlanInv, Stands
  <2>2. Agrees(P, W)'
    BY <1>1 DEF Agrees, Read
  <2>3. Foreseen(snap', plan', P, W)
    BY <1>1, <2>1
  <2> QED
    BY <2>2, <2>3
<1>5. (Clear => \E P, W : Foreseen(snap, plan, P, W) /\ Agrees(P, W))'
  BY <1>1, <1>4 DEF Clear
<1> QED
  BY <1>3, <1>5 DEF Followed

LEMMA ReadFollows == ASSUME IInv, Followed, ReadDepth, UNCHANGED <<plan, fresh>> PROVE Followed'
<1>1. /\ pc = "depth" /\ pc' = "depth" /\ i \in 1 .. N /\ N \in Nat /\ i' = i + 1 /\ led = snap
      /\ UNCHANGED <<snap, route, requested, minOut>>
      /\ depth \in [1 .. N -> Nat] /\ depth' = [depth EXCEPT ![i] = QuotableDepth(led, route[i])]
  BY DEF ReadDepth, IInv, TypeOK, Starting, N
<1>2. ASSUME NEW P, NEW W, Agrees(P, W) PROVE Agrees(P, W)'
  <2>1. \A k \in 1 .. i - 1 : depth[k] = QuotableDepth(snap, route[k])
    BY <1>1, <1>2 DEF Agrees, Read
  <2>2. ASSUME NEW k \in 1 .. i PROVE depth'[k] = QuotableDepth(snap, route[k])
    <3>1. k \in 1 .. N /\ (k = i \/ k \in 1 .. i - 1)
      BY <1>1
    <3>2. CASE k = i
      BY <1>1, <3>2
    <3>3. CASE k # i
      BY <1>1, <2>1, <3>1, <3>3
    <3> QED
      BY <3>2, <3>3
  <2>3. i' - 1 = i
    BY <1>1
  <2>4. Read(i - 1)'
    BY <1>1, <2>2, <2>3 DEF Read
  <2> QED
    BY <1>1, <2>4 DEF Agrees
<1> QED
  BY <1>1, <1>2, Follows

LEMMA AllRead ==
    ASSUME IInv, PlanInv, Counting, Followed, fresh, pc = "depth", i = N + 1, Read(N)
    PROVE  totalDepth = SumOf(DepthsAt(snap, route)) /\ totalDepth > 0
<1>1. /\ N \in Nat /\ N > 0 /\ DOMAIN route = 1 .. N
      /\ \A k \in 1 .. N : QuotableDepth(snap, route[k]) \in Nat /\ QuotableDepth(snap, route[k]) > 0
  BY RouteIs
<1> DEFINE w == DepthsAt(snap, route)
<1>2. w \in [1 .. N -> Nat] /\ w[1] > 0 /\ \A k \in 1 .. N : w[k] = QuotableDepth(snap, route[k])
  BY <1>1 DEF DepthsAt
<1> HIDE DEF w
<1>3. PICK sum \in [1 .. N + 1 -> 0 .. totalDepth] : Summed(sum, N + 1)
  BY DEF Counting
<1>4. totalDepth \in Nat
  BY DEF IInv, TypeOK
<1>5. sum \in [1 .. N + 1 -> Nat] /\ sum[N + 1] = totalDepth
  BY <1>3, <1>4 DEF Summed
<1>6. Runs(sum, w, N)
  <2>1. sum[1] = 0 /\ \A j \in 1 .. (N + 1) - 1 : sum[j + 1] = sum[j] + depth[j]
    BY <1>3 DEF Summed
  <2>2. (N + 1) - 1 = N
    BY <1>1
  <2>3. \A j \in 1 .. N : depth[j] = w[j]
    BY <1>2 DEF Read
  <2>4. ASSUME NEW j \in 1 .. N PROVE sum[j + 1] = sum[j] + w[j]
    BY <2>1, <2>2, <2>3
  <2> QED
    BY <2>1, <2>4 DEF Runs
<1>7. SumOf(w) = totalDepth
  BY <1>1, <1>2, <1>5, <1>6, SumRuns
<1>8. IsFiniteSet(1 .. N) /\ 1 \in 1 .. N
  BY <1>1, FS_Interval
<1>9. SumOf(w) > 0
  BY <1>2, <1>8, SumPositive
<1> QED
  BY <1>7, <1>9 DEF w

LEMMA AfterFollows ==
    ASSUME IInv, PlanInv, Counting, Followed, AfterDepth, UNCHANGED <<plan, fresh>>, pc' # "idle"
    PROVE  Followed'
<1>1. /\ pc = "depth" /\ i = N + 1 /\ pc' = "dust" /\ N \in Nat
      /\ UNCHANGED <<snap, route, requested, minOut, depth, totalDepth>>
  BY DEF AfterDepth, Revert, End, Goto, IInv, TypeOK, N
<1>2. ASSUME NEW P, NEW W, Clear, Agrees(P, W) PROVE Agrees(P, W)'
  <2>1. Read(N)
    BY <1>1, <1>2 DEF Agrees
  <2>2. totalDepth = SumOf(DepthsAt(snap, route))
    BY <1>1, <1>2, <2>1, AllRead DEF Clear
  <2>3. Read(N)' /\ (totalDepth = SumOf(DepthsAt(snap, route)))'
    BY <1>1, <2>1, <2>2 DEF Read, N
  <2> QED
    BY <1>1, <2>3 DEF Agrees
<1> QED
  BY <1>1, <1>2, Follows

LEMMA SumZero == ASSUME NEW n \in Nat PROVE SumOf([k \in 1 .. n |-> 0]) = 0
<1> DEFINE w == [k \in 1 .. n |-> 0]
           sum == [k \in 1 .. n + 1 |-> 0]
<1>1. w \in [1 .. n -> Nat] /\ sum \in [1 .. n + 1 -> Nat] /\ sum[n + 1] = 0
  OBVIOUS
<1>2. Runs(sum, w, n)
  BY DEF Runs
<1> HIDE DEF w, sum
<1>3. SumOf(w) = sum[n + 1]
  BY <1>1, <1>2, SumRuns
<1> QED
  BY <1>1, <1>3 DEF w

LEMMA DustFollows ==
    ASSUME IInv, PlanInv, Followed, Rides', CountDust, UNCHANGED <<plan, fresh>>, pc' # "idle"
    PROVE  Followed'
<1>1. /\ pc = "dust" /\ UNCHANGED <<led, snap, route, requested, minOut, depth, totalDepth, remaining, totalOut, unplaced>>
      /\ remaining = requested /\ unplaced = 0 /\ totalOut = 0 /\ led = snap
      /\ pc' = "dust" \/ (pc' = "place" /\ i' = 1)
  <2>1. pc = "dust" /\ led = snap /\ remaining = requested /\ unplaced = 0 /\ totalOut = 0
    BY DEF CountDust, IInv, Starting
  <2> QED
    BY <2>1 DEF CountDust, Revert, End, Goto
<1>2. ASSUME NEW P, NEW W, Clear, Foreseen(snap, plan, P, W), Agrees(P, W) PROVE Agrees(P, W)'
  <2>1. (Read(N) /\ totalDepth = SumOf(DepthsAt(snap, route)))'
    BY <1>1, <1>2 DEF Agrees, Read, N
  <2>2. CASE pc' = "dust"
    BY <2>1, <2>2 DEF Agrees
  <2>3. CASE pc' = "place" /\ i' = 1
    <3>1. /\ N \in Nat /\ N > 0 /\ DOMAIN route = 1 .. N /\ N' = N /\ requested \in Nat
          /\ \A k \in 1 .. N : route[k] \in Strategies
      BY <1>1, <1>2, RouteIs DEF Clear, N
    <3>2. P[0] = Start(route, requested)
      BY <1>1, <1>2, RunsAre DEF Clear
    <3>3. P[0].left = requested /\ P[0].got = [k \in 1 .. N |-> 0] /\ \A k \in 1 .. N : P[0].filled[k] = 0
      BY <3>1, <3>2 DEF Start
    <3>4. SumOf(P[0].got) = 0
      BY <3>1, <3>3, SumZero
    <3>5. \A k \in 1 .. N : led.virtual[route[k]] <= snap.virtual[route[k]]
      <4>1. \A k \in 1 .. N : snap.virtual[route[k]] \in Nat
        BY <3>1 DEF IInv, TypeOK, Ledger
      <4> QED
        BY <1>1, <4>1
    <3>6. At(P[0])'
      BY <1>1, <3>1, <3>3, <3>4, <3>5 DEF At, Spared
    <3>7. PICK sum \in [1 .. N' + 1 -> 0 .. requested' - dust'] : Cuts(sum, N + 1)'
      BY <2>3 DEF Rides
    <3>8. sum[1] = 0
      BY <3>7 DEF Cuts
    <3>9. remaining' + sum[i'] + (IF i' = 1 THEN 0 ELSE dust') >= requested'
      BY <1>1, <2>3, <3>1, <3>8
    <3>10. Room'
      BY <3>7, <3>9 DEF Room
    <3>11. i' - 1 = 0
      BY <2>3
    <3>12. (At(P[i - 1]) /\ (\A k \in i .. N : P[i - 1].filled[k] = 0))'
      BY <2>3, <3>1, <3>3, <3>6, <3>11
    <3> QED
      BY <2>1, <2>3, <3>10, <3>12 DEF Agrees
  <2> QED
    BY <1>1, <2>2, <2>3
<1> QED
  BY <1>1, <1>2, Follows

-----------------------------------------------------------------------------
(* Pass 2.                                                                  *)

LEMMA RoomLeft ==
    ASSUME NEW r \in Nat, NEW left \in Nat, NEW a \in Nat, NEW p \in Nat, NEW d \in Nat, NEW j \in Nat,
           j = 1 => a = 0, a + p + d <= r, left + a + (IF j = 1 THEN 0 ELSE d) >= r,
           NEW x, x = p + (IF j = 1 THEN d ELSE 0)
    PROVE  x <= left /\ \A y \in Int : y >= left - x => y + (a + p) + d >= r
<1>1. CASE j = 1
  BY <1>1
<1>2. CASE j # 1
  BY <1>2
<1> QED
  BY <1>1, <1>2

\* The slice the hook offers is the replay's share, whole.
LEMMA OfferIsShare ==
    ASSUME IInv, PlanInv, Followed, Clear, Filling, pc = "place", Read(N), totalDepth = SumOf(DepthsAt(snap, route)), Room
    PROVE  /\ Offer = SharesAt(snap, route, requested)[i]
           /\ /\ i' = i + 1 /\ UNCHANGED <<route, requested, depth, totalDepth, dust>>
              /\ remaining' \in Int /\ remaining' >= remaining - Offer
              => Room'
<1>1. /\ N \in Nat /\ N > 0 /\ DOMAIN route = 1 .. N /\ requested \in Nat
      /\ \A k \in 1 .. N : QuotableDepth(snap, route[k]) \in Nat
  BY RouteIs DEF Clear
<1>2. i \in 1 .. N /\ remaining \in Nat /\ dust \in Nat
  BY FillContext DEF IInv, TypeOK
<1>3. PICK sum \in [1 .. N + 1 -> 0 .. requested - dust] :
        Cuts(sum, N + 1) /\ remaining + sum[i] + (IF i = 1 THEN 0 ELSE dust) >= requested
  BY DEF Room
<1> DEFINE cut == CutAt(snap, route, requested)
<1>4. \A k \in 1 .. N : ProRata(k) \in Nat
  BY ShareIsAmount
<1>5. DOMAIN cut = 1 .. N /\ \A k \in 1 .. N : cut[k] = ProRata(k)
  BY <1>1 DEF CutAt, ProRata, Read
<1>6. cut = [k \in 1 .. N |-> ProRata(k)]
  BY <1>5 DEF CutAt
<1>7. SharesAt(snap, route, requested) = [cut EXCEPT ![1] = @ + (requested - SumOf(cut))]
  BY DEF SharesAt
<1> HIDE DEF cut
<1>8. cut \in [1 .. N -> Nat]
  BY <1>4, <1>6
<1>9. sum \in [1 .. N + 1 -> Nat] /\ Runs(sum, cut, N) /\ sum[N + 1] + dust = requested
  <2>1. sum[1] = 0 /\ sum[N + 1] + dust = requested
    BY <1>3 DEF Cuts
  <2>2. \A j \in 1 .. N : sum[j + 1] = sum[j] + cut[j]
    BY <1>1, <1>3, <1>5 DEF Cuts
  <2>3. sum \in [1 .. N + 1 -> Nat]
    BY <1>1, <1>2, <1>3
  <2> QED
    BY <2>1, <2>2, <2>3 DEF Runs
<1>10. SumOf(cut) = sum[N + 1]
  BY <1>1, <1>8, <1>9, SumRuns
<1>11. requested - SumOf(cut) = dust
  <2>1. sum[N + 1] \in Nat
    BY <1>1, <1>9
  <2> QED
    BY <1>1, <1>2, <1>9, <1>10, <2>1
<1>12. SharesAt(snap, route, requested)[i] = ProRata(i) + (IF i = 1 THEN dust ELSE 0)
  <2>1. cut[i] \in Nat /\ cut[i] = ProRata(i)
    BY <1>2, <1>5, <1>8
  <2> QED
    BY <1>2, <1>7, <1>8, <1>11, <2>1
<1>13. sum[i] \in Nat /\ sum[i + 1] \in Nat /\ sum[1] = 0 /\ sum[i + 1] = sum[i] + ProRata(i) /\ ProRata(i) \in Nat
       /\ sum[i + 1] + dust <= requested
  <2>1. i \in 1 .. N + 1 /\ i + 1 \in 1 .. N + 1 /\ i \in 1 .. (N + 1) - 1
    BY <1>1, <1>2
  <2>2. sum[i + 1] \in 0 .. requested - dust
    BY <2>1
  <2>3. sum[1] = 0 /\ sum[i + 1] = sum[i] + ProRata(i)
    BY <1>3, <2>1 DEF Cuts
  <2>4. ProRata(i) \in Nat /\ sum[i] \in Nat /\ sum[i + 1] \in Nat
    BY <1>2, <1>4, <1>9, <2>1
  <2> QED
    BY <1>1, <1>2, <2>2, <2>3, <2>4
<1>14. PICK a \in Nat : a = sum[i]
  BY <1>13
<1>17. PICK p \in Nat : p = ProRata(i)
  BY <1>13
<1>18. (i = 1 => a = 0) /\ a + p + dust <= requested /\ remaining + a + (IF i = 1 THEN 0 ELSE dust) >= requested
       /\ sum[i + 1] = a + p
  BY <1>3, <1>13, <1>14, <1>17
<1>19. i \in Nat
  BY <1>2
<1>20. PICK x : x = p + (IF i = 1 THEN dust ELSE 0)
  OBVIOUS
<1>21. x <= remaining /\ \A y \in Int : y >= remaining - x => y + (a + p) + dust >= requested
  BY <1>1, <1>2, <1>18, <1>19, <1>20, RoomLeft
<1>15. Offer = ProRata(i) + (IF i = 1 THEN dust ELSE 0) /\ Offer = x
  BY <1>17, <1>20, <1>21 DEF Offer, Lesser
<1>16. ASSUME i' = i + 1, UNCHANGED <<route, requested, depth, totalDepth, dust>>,
              remaining' \in Int, remaining' >= remaining - Offer
       PROVE  Room'
  <2>1. N' = N /\ Cuts(sum, N + 1)'
    BY <1>3, <1>16 DEF Cuts, ProRata, N
  <2>2. remaining' + sum[i + 1] + dust >= requested
    BY <1>15, <1>16, <1>18, <1>21
  <2>3. remaining' + sum[i'] + (IF i' = 1 THEN 0 ELSE dust') >= requested'
    <3>1. i' = i + 1 /\ i' # 1 /\ dust' = dust /\ requested' = requested
      BY <1>2, <1>16
    <3> QED
      BY <2>2, <3>1
  <2>4. sum \in [1 .. N' + 1 -> 0 .. requested' - dust']
    BY <1>16, <2>1
  <2> QED
    BY <2>1, <2>3, <2>4 DEF Room
<1> QED
  BY <1>12, <1>15, <1>16

-----------------------------------------------------------------------------
(* One candidate of pass 2.                                                 *)

LEMMA PlaceFollows ==
    ASSUME IInv, PlanInv, Followed, IInv', Filling, pc = "place", UNCHANGED <<plan, fresh>>,
           PassOver \/ SkipOnQuote \/ Fill \/ SkipOnSwap
    PROVE  Followed'
<1>1. /\ UNCHANGED <<snap, route, requested, minOut, depth, totalDepth, dust, pc>> /\ i' = i + 1 /\ pc # "idle" /\ N' = N
  BY DEF PassOver, SkipOnQuote, Fill, SkipOnSwap, Unaffected, N
<1>2. ASSUME NEW P, NEW W, Clear, Foreseen(snap, plan, P, W), Agrees(P, W) PROVE Agrees(P, W)'
  <2>1. /\ Read(N) /\ totalDepth = SumOf(DepthsAt(snap, route)) /\ Room
        /\ At(P[i - 1]) /\ \A k \in i .. N : P[i - 1].filled[k] = 0
    BY <1>2 DEF Agrees
  <2>2. /\ N \in Nat /\ N > 0 /\ DOMAIN route = 1 .. N /\ requested \in Nat /\ Len(route) = N
        /\ \A k \in 1 .. N : route[k] \in Faithful /\ route[k] \in Strategies
        /\ \A k \in 1 .. N : QuotableDepth(snap, route[k]) \in Nat /\ QuotableDepth(snap, route[k]) > 0
        /\ \A j, k \in 1 .. N : OwnerOf[route[j]] = OwnerOf[route[k]] => j = k
    BY <1>1, <1>2, RouteIs DEF Clear, N
  <2>3. P \in [0 .. N -> Progress(1 .. N)] /\ PlacesAt(snap, route, requested, P)
    BY <1>2, RunsAre DEF Clear
  <2>4. i \in 1 .. N /\ Offer \in Nat /\ Offer <= remaining /\ remaining \in Nat /\ remaining > 0
    BY FillContext DEF IInv, TypeOK, Filling
  <2>5. PICK run \in Progress(1 .. N) : run = P[i - 1]
    <3>1. i - 1 \in 0 .. N
      BY <2>2, <2>4
    <3> QED
      BY <2>3, <3>1
  <2>6. /\ Offer = SharesAt(snap, route, requested)[i]
        /\ (/\ i' = i + 1 /\ UNCHANGED <<route, requested, depth, totalDepth, dust>>
            /\ remaining' \in Int /\ remaining' >= remaining - Offer
            => Room')
    BY <1>2, <2>1, OfferIsShare
  <2>7. run.left = remaining /\ run.filled[i] = 0 /\ At(run) /\ \A k \in i .. N : run.filled[k] = 0
    BY <2>1, <2>4, <2>5 DEF At
  <2>8. P[i] = OfferedAt(snap, run, i, route[i], Offer, Offer)
    <3>1. P[i] = OfferedAt(snap, run, i, route[i], Lesser(SharesAt(snap, route, requested)[i], run.left), SharesAt(snap, route, requested)[i])
      BY <2>2, <2>3, <2>4, <2>5 DEF PlacesAt
    <3>2. Lesser(Offer, remaining) = Offer
      BY <2>4 DEF Lesser
    <3> QED
      BY <2>6, <2>7, <3>1, <3>2
  <2>9. depth[i] = QuotableDepth(snap, route[i]) /\ depth[i] > 0 /\ route[i] \in Faithful /\ Spared(i)
        /\ led.virtual[route[i]] <= snap.virtual[route[i]]
    BY <2>1, <2>2, <2>4, <2>7 DEF Read, At
  <2>10. Read(N)' /\ (totalDepth = SumOf(DepthsAt(snap, route)))'
    BY <1>1, <2>1 DEF Read, N
  <2>11. remaining' \in Nat
    BY DEF IInv, TypeOK
  <2>12. i' - 1 = i
    BY <1>1, <2>4
  <2>13. ASSUME P[i] = run, UNCHANGED <<led, remaining, totalOut, unplaced>>
         PROVE Agrees(P, W)'
    <3>1. At(run)'
      BY <1>1, <2>7, <2>13, RunStays
    <3>2. Room'
      BY <1>1, <2>4, <2>6, <2>11, <2>13
    <3>3. \A k \in i' .. N' : run.filled[k] = 0
      BY <1>1, <2>2, <2>4, <2>7
    <3>4. (At(P[i - 1]) /\ \A k \in i .. N : P[i - 1].filled[k] = 0)'
      BY <2>12, <2>13, <3>1, <3>3
    <3> QED
      BY <1>1, <2>10, <3>2, <3>4 DEF Agrees
  <2>14. CASE PassOver
    <3>1. Offer = 0
      BY <2>4, <2>9, <2>14 DEF PassOver, Worth
    <3>2. P[i] = run
      BY <2>8, <3>1 DEF OfferedAt
    <3> QED
      BY <2>13, <2>14, <3>2 DEF PassOver
  <2>15. CASE SkipOnQuote
    <3>1. ~FitsAt(snap, route[i], Offer)
      BY <2>9, <2>15, SkipMeans
    <3>2. P[i] = run
      BY <2>8, <3>1 DEF OfferedAt
    <3> QED
      BY <2>13, <2>15, <3>2 DEF SkipOnQuote
  <2>16. ASSUME Quoted PROVE FitsAt(snap, route[i], Offer) /\ Offer > 0
    BY <2>9, <2>16, QuotedMeans
  <2>17. CASE Fill
    <3>1. FitsAt(snap, route[i], Offer) /\ Offer > 0
      BY <2>16, <2>17 DEF Fill
    <3>2. PICK next : next = OfferedAt(snap, run, i, route[i], Offer, Offer)
      OBVIOUS
    <3>3. /\ At(next)' /\ remaining' = remaining - Offer
          /\ \A k \in 1 .. N : k # i => next.filled[k] = run.filled[k]
      BY <2>2, <2>7, <2>9, <2>17, <3>1, <3>2, FillAdvances
    <3>4. P[i] = next
      BY <2>8, <3>2
    <3>5. Room'
      BY <1>1, <2>4, <2>6, <2>11, <3>3
    <3>6. \A k \in i' .. N' : next.filled[k] = 0
      <4> SUFFICES ASSUME NEW k \in i + 1 .. N PROVE next.filled[k] = 0
        BY <1>1
      <4>1. k \in 1 .. N /\ k # i /\ k \in i .. N
        BY <2>2, <2>4
      <4> QED
        BY <2>7, <3>3, <4>1
    <3>7. (At(P[i - 1]) /\ \A k \in i .. N : P[i - 1].filled[k] = 0)'
      BY <2>12, <3>3, <3>4, <3>6
    <3> QED
      BY <1>1, <2>10, <3>5, <3>7 DEF Agrees
  <2>18. CASE SkipOnSwap
    <3>1. FitsAt(snap, route[i], Offer)
      BY <2>16, <2>18 DEF SkipOnSwap
    <3>2. ~SwapReverts(route[i], Offer)
      BY <2>4, <2>9, <3>1, SparedFits
    <3> QED
      BY <2>18, <3>2 DEF SkipOnSwap
  <2> QED
    BY <2>14, <2>15, <2>17, <2>18
<1> QED
  BY <1>1, <1>2, Follows

-----------------------------------------------------------------------------
(* One candidate of the sweep.                                              *)

LEMMA SweepFollows ==
    ASSUME IInv, PlanInv, Followed, IInv', Filling, pc = "sweep", UNCHANGED <<plan, fresh>>,
           PassOver \/ SkipOnQuote \/ Fill \/ SkipOnSwap
    PROVE  Followed'
<1>1. /\ UNCHANGED <<snap, route, requested, minOut, depth, totalDepth, dust, pc>> /\ i' = i + 1 /\ pc # "idle" /\ N' = N
  BY DEF PassOver, SkipOnQuote, Fill, SkipOnSwap, Unaffected, N
<1>2. ASSUME NEW P, NEW W, Clear, Foreseen(snap, plan, P, W), Agrees(P, W) PROVE Agrees(P, W)'
  <2>1. /\ Read(N) /\ totalDepth = SumOf(DepthsAt(snap, route))
        /\ At(W[i - 1]) /\ (remaining = 0 \/ remaining = P[N].left)
    BY <1>2 DEF Agrees
  <2>2. /\ N \in Nat /\ N > 0 /\ DOMAIN route = 1 .. N /\ requested \in Nat /\ Len(route) = N
        /\ \A k \in 1 .. N : route[k] \in Faithful /\ route[k] \in Strategies
        /\ \A k \in 1 .. N : QuotableDepth(snap, route[k]) \in Nat /\ QuotableDepth(snap, route[k]) > 0
        /\ \A j, k \in 1 .. N : OwnerOf[route[j]] = OwnerOf[route[k]] => j = k
    BY <1>1, <1>2, RouteIs DEF Clear, N
  <2>3. W \in [0 .. N -> Progress(1 .. N)] /\ SweepsAt(snap, route, P[N].left, W) /\ \A k \in 0 .. N : ~W[k].twice
    BY <1>2, RunsAre DEF Clear
  <2>4. i \in 1 .. N /\ Offer \in Nat /\ remaining \in Nat /\ remaining > 0 /\ Offer = remaining
    BY FillContext DEF IInv, TypeOK, Filling, Offer
  <2>5. PICK run \in Progress(1 .. N) : run = W[i - 1]
    <3>1. i - 1 \in 0 .. N
      BY <2>2, <2>4
    <3> QED
      BY <2>3, <3>1
  <2>6. Offer = P[N].left
    BY <2>1, <2>4
  <2>7. run.left = remaining /\ At(run)
    BY <2>1, <2>5 DEF At
  <2>8. W[i] = OfferedAt(snap, run, i, route[i], Offer, Offer)
    BY <2>2, <2>3, <2>4, <2>5, <2>6 DEF SweepsAt
  <2>9. depth[i] = QuotableDepth(snap, route[i]) /\ depth[i] > 0 /\ route[i] \in Faithful
        /\ led.virtual[route[i]] <= snap.virtual[route[i]]
    BY <2>1, <2>2, <2>4, <2>7 DEF Read, At
  <2>10. Read(N)' /\ (totalDepth = SumOf(DepthsAt(snap, route)))'
    BY <1>1, <2>1 DEF Read, N
  <2>11. ASSUME FitsAt(snap, route[i], Offer) PROVE run.filled[i] = 0 /\ Spared(i)
    <3>1. W[i].twice = (run.twice \/ run.filled[i] > 0)
      BY <2>4, <2>7, <2>8, <2>11 DEF OfferedAt
    <3>2. ~W[i].twice
      BY <2>3, <2>4
    <3>5. ~(run.filled[i] > 0)
      BY <3>1, <3>2
    <3>3. run.filled[i] \in Int
      BY <2>4 DEF Progress
    <3>4. run.filled[i] >= 0 /\ (run.filled[i] = 0 => Spared(i))
      BY <2>4, <2>7 DEF At
    <3> QED
      BY <3>5, <3>3, <3>4
  <2>12. i' - 1 = i
    BY <1>1, <2>4
  <2>13. ASSUME W[i] = run, UNCHANGED <<led, remaining, totalOut, unplaced>>
         PROVE Agrees(P, W)'
    <3>1. At(run)'
      BY <1>1, <2>7, <2>13, RunStays
    <3>2. At(W[i - 1])'
      BY <2>12, <2>13, <3>1
    <3>3. (remaining = 0 \/ remaining = P[N].left)'
      BY <1>1, <2>1, <2>13
    <3> QED
      BY <1>1, <2>10, <3>2, <3>3 DEF Agrees
  <2>14. CASE PassOver
    BY <2>4, <2>9, <2>14 DEF PassOver, Worth
  <2>15. CASE SkipOnQuote
    <3>1. ~FitsAt(snap, route[i], Offer)
      BY <2>9, <2>11, <2>15, SkipMeans
    <3>2. W[i] = run
      BY <2>8, <3>1 DEF OfferedAt
    <3> QED
      BY <2>13, <2>15, <3>2 DEF SkipOnQuote
  <2>16. ASSUME Quoted PROVE FitsAt(snap, route[i], Offer) /\ Offer > 0
    BY <2>9, <2>16, QuotedMeans
  <2>17. CASE Fill
    <3>1. FitsAt(snap, route[i], Offer) /\ Offer > 0 /\ run.filled[i] = 0
      BY <2>11, <2>16, <2>17 DEF Fill
    <3>2. PICK next : next = OfferedAt(snap, run, i, route[i], Offer, Offer)
      OBVIOUS
    <3>3. At(next)' /\ remaining' = remaining - Offer
      BY <2>2, <2>7, <2>9, <2>17, <3>1, <3>2, FillAdvances
    <3>4. W[i] = next
      BY <2>8, <3>2
    <3>5. At(W[i - 1])'
      BY <2>12, <3>3, <3>4
    <3>6. remaining' = 0
      BY <2>4, <3>3
    <3> QED
      BY <1>1, <2>10, <3>5, <3>6 DEF Agrees
  <2>18. CASE SkipOnSwap
    <3>1. FitsAt(snap, route[i], Offer)
      BY <2>16, <2>18 DEF SkipOnSwap
    <3>2. ~SwapReverts(route[i], Offer)
      BY <2>4, <2>9, <2>11, <3>1, SparedFits
    <3> QED
      BY <2>18, <3>2 DEF SkipOnSwap
  <2> QED
    BY <2>14, <2>15, <2>17, <2>18
<1> QED
  BY <1>1, <1>2, Follows

-----------------------------------------------------------------------------
(* From pass to pass, and to the end.                                       *)

LEMMA NextPassFollows ==
    ASSUME IInv, PlanInv, Followed, NextPass, UNCHANGED <<plan, fresh>>
    PROVE  Followed'
<1>1. /\ UNCHANGED <<led, snap, route, requested, minOut, depth, totalDepth, remaining, totalOut, unplaced>> /\ i' = 1
      /\ pc # "idle" /\ N' = N /\ Done
  BY DEF NextPass, Onwards, Goto, N
<1>2. (pc = "place" /\ pc' = "sweep") \/ (pc = "sweep" /\ pc' = "settle")
  BY DEF NextPass, Onwards, Goto
<1>3. i \in 1 .. N + 1 /\ N \in Nat /\ remaining \in Nat
  BY DEF IInv, TypeOK, N
<1>4. i - 1 \in 0 .. N /\ i' - 1 = 0 /\ (i > N => i - 1 = N)
  BY <1>1, <1>3
<1>5. ASSUME NEW P, NEW W, Clear, Foreseen(snap, plan, P, W), Agrees(P, W) PROVE Agrees(P, W)'
  <2>1. Read(N) /\ totalDepth = SumOf(DepthsAt(snap, route))
    BY <1>2, <1>5 DEF Agrees
  <2>2. Read(N)' /\ (totalDepth = SumOf(DepthsAt(snap, route)))'
    BY <1>1, <2>1 DEF Read, N
  <2>3. /\ W[0] = P[N]
        /\ W[N].left = 0 /\ SumOf(W[N].got) = plan.amountOut
        /\ \A m \in 0 .. N : P[m].left = 0 => P[N] = P[m]
        /\ \A m \in 0 .. N : W[m].left = 0 => W[N] = W[m]
    BY <1>5, RunsAre DEF Clear
  <2>4. CASE pc = "place" /\ pc' = "sweep"
    <3>1. At(P[i - 1])
      BY <1>5, <2>4 DEF Agrees
    <3>2. P[i - 1].left = remaining
      BY <3>1 DEF At
    <3>3. P[N] = P[i - 1]
      BY <1>1, <1>4, <2>3, <3>2 DEF Done
    <3>4. At(W[0])'
      BY <1>1, <2>3, <3>1, <3>3, RunStays
    <3>5. remaining' = P[N].left
      BY <1>1, <3>2, <3>3
    <3>6. At(W[i - 1])'
      BY <1>4, <3>4
    <3> QED
      BY <2>2, <2>4, <1>1, <3>5, <3>6 DEF Agrees
  <2>5. CASE pc = "sweep" /\ pc' = "settle"
    <3>1. At(W[i - 1])
      BY <1>5, <2>5 DEF Agrees
    <3>2. W[i - 1].left = remaining /\ totalOut = SumOf(W[i - 1].got)
      BY <3>1 DEF At
    <3>3. W[N] = W[i - 1]
      BY <1>1, <1>4, <2>3, <3>2 DEF Done
    <3>4. remaining' = 0 /\ totalOut' = plan.amountOut
      BY <1>1, <2>3, <3>2, <3>3
    <3>5. plan' = plan
      OBVIOUS
    <3> QED
      BY <2>2, <2>5, <3>4, <3>5 DEF Agrees
  <2> QED
    BY <1>2, <2>4, <2>5
<1> QED
  BY <1>1, <1>5, Follows

LEMMA SettleFollows ==
    ASSUME IInv, PlanInv, Followed, SettleHook, UNCHANGED <<plan, fresh>>, pc' # "idle"
    PROVE  Followed'
<1>1. /\ pc = "settle" /\ pc' = "pay"
      /\ UNCHANGED <<snap, route, requested, minOut, depth, totalDepth, remaining, totalOut>>
  BY DEF SettleHook, Revert, End, Goto
<1>2. ASSUME NEW P, NEW W, Agrees(P, W) PROVE Agrees(P, W)'
  <2>1. Read(N) /\ totalDepth = SumOf(DepthsAt(snap, route)) /\ remaining = 0 /\ totalOut = plan.amountOut
    BY <1>1, <1>2 DEF Agrees
  <2>2. Read(N)' /\ (totalDepth = SumOf(DepthsAt(snap, route)))'
    BY <1>1, <2>1 DEF Read, N
  <2> QED
    BY <1>1, <2>1, <2>2 DEF Agrees
<1> QED
  BY <1>1, <1>2, Follows

LEMMA StutterFollows == ASSUME Followed, UNCHANGED PlannedVars PROVE Followed'
<1>1. UNCHANGED <<led, snap, plan, fresh, pc, i, route, requested, minOut, depth, totalDepth, dust, remaining, totalOut, unplaced>>
  BY DEF PlannedVars, vars, ctx
<1>2. CASE pc = "idle"
  BY <1>1, <1>2 DEF Followed, Clear
<1>3. CASE pc # "idle"
  <2>1. N' = N
    BY <1>1 DEF N
  <2>2. \A run : At(run) => At(run)'
    BY <1>1, RunStays
  <2>3. Room => Room'
    BY <1>1, <2>1 DEF Room, Cuts, ProRata
  <2>4. \A n : Read(n)' = Read(n)
    BY <1>1 DEF Read
  <2>5. ASSUME NEW P, NEW W, Agrees(P, W) PROVE Agrees(P, W)'
    <3>1. (pc = "depth" => Read(i - 1))' /\ (pc # "depth" => Read(N) /\ totalDepth = SumOf(DepthsAt(snap, route)))'
      BY <1>1, <2>1, <2>4, <2>5 DEF Agrees
    <3>2. (pc = "place" => At(P[i - 1]) /\ (\A k \in i .. N : P[i - 1].filled[k] = 0) /\ Room)'
      BY <1>1, <2>1, <2>2, <2>3, <2>5 DEF Agrees
    <3>3. (pc = "sweep" => At(W[i - 1]) /\ (remaining = 0 \/ remaining = P[N].left))'
      BY <1>1, <2>1, <2>2, <2>5 DEF Agrees
    <3>4. (pc \in {"settle", "pay"} => remaining = 0 /\ totalOut = plan.amountOut)'
      BY <1>1, <2>5 DEF Agrees
    <3> QED
      BY <3>1, <3>2, <3>3, <3>4 DEF Agrees
  <2> QED
    BY <1>1, <1>3, <2>5, Follows
<1> QED
  BY <1>2, <1>3

LEMMA RunFollows ==
    ASSUME IInv, PlanInv, Counting, Rides', Followed, IInv', Run
    PROVE  Followed'
<1>1. CASE pc' = "idle"
  BY <1>1 DEF Followed, Clear
<1>2. CASE pc' # "idle"
  <2>1. UNCHANGED <<plan, fresh>> /\ Execute
    BY <1>2 DEF Run
  <2>2. CASE ReadDepth \/ AfterDepth \/ CountDust
    BY <1>2, <2>1, <2>2, ReadFollows, AfterFollows, DustFollows
  <2>3. CASE PassOver \/ SkipOnQuote \/ Fill \/ SkipOnSwap
    <3>1. Filling
      BY <2>3 DEF PassOver, SkipOnQuote, Fill, SkipOnSwap, Quoted
    <3>2. pc = "place" \/ pc = "sweep"
      BY <3>1 DEF Filling
    <3> QED
      BY <2>1, <2>3, <3>1, <3>2, PlaceFollows, SweepFollows
  <2>4. CASE NextPass
    BY <2>1, <2>4, NextPassFollows
  <2>5. CASE SettleHook
    BY <1>2, <2>1, <2>5, SettleFollows
  <2>6. CASE TakeFails \/ Pay
    BY <1>2, <2>6 DEF TakeFails, Pay, Revert, End
  <2> QED
    BY <2>1, <2>2, <2>3, <2>4, <2>5, <2>6 DEF Execute
<1> QED
  BY <1>1, <1>2

LEMMA NextFollowed ==
    IInv /\ PlanInv /\ Counting /\ Rides /\ Followed /\ [PlannedNext]_PlannedVars => Followed'
<1> SUFFICES ASSUME IInv, PlanInv, Counting, Rides, Followed, [PlannedNext]_PlannedVars PROVE Followed'
  OBVIOUS
<1>1. [AnyNext]_vars
  BY PlannedSteps
<1>2. IInv' /\ Rides'
  BY <1>1, AnyKeeps, NextRides
<1>3. CASE \E x \in Requests : PlanRoute(x)
  BY <1>3 DEF PlanRoute, vars, Followed, Clear
<1>4. CASE SwapOtherwise
  BY <1>4 DEF SwapOtherwise, Followed, Clear
<1>5. CASE MakersMove
  BY <1>5 DEF MakersMove, Followed, Clear
<1>6. CASE SwapAsPlanned
  BY <1>6, SwapFollows
<1>7. CASE Run
  BY <1>2, <1>7, RunFollows
<1>8. CASE UNCHANGED PlannedVars
  BY <1>8, StutterFollows
<1> QED
  BY <1>3, <1>4, <1>5, <1>6, <1>7, <1>8 DEF PlannedNext

-----------------------------------------------------------------------------
(* Only the payment ends a swap that goes as planned.                       *)

LEMMA Honoured ==
    ASSUME IInv, PlanInv, Counting, Counting', Followed, [PlannedNext]_PlannedVars, EndsAsPlanned, ~plan.swept
    PROVE  outcome' = "filled" /\ led'.userOut = snap.userOut + plan.amountOut
<1>1. pc # "idle" /\ pc' = "idle" /\ fresh /\ snap.userIn >= requested /\ snap.pmIn >= 2 * requested
      /\ requested <= MaxDelta /\ plan.amountOut <= MaxDelta
  BY DEF EndsAsPlanned
<1>2. Clear
  BY <1>1 DEF Clear
<1>3. PICK P, W : Foreseen(snap, plan, P, W) /\ Agrees(P, W)
  BY <1>2 DEF Followed
<1>4. plan.amountOut > 0
  BY <1>1, <1>3, RunsAre
<1>5. requested \in Nat /\ requested > 0 /\ plan.amountOut = minOut /\ plan.amountOut \in Nat
  <2>1. plan # NoPlan
    BY <1>1 DEF PlanInv
  <2> QED
    BY <1>1, <2>1, RouteIs DEF PlanInv, Drawn
<1>6. /\ led \in Ledger /\ snap \in Ledger /\ remaining \in Nat /\ totalOut \in Nat /\ i \in 1 .. N + 1 /\ N \in Nat
      /\ MaxDelta \in Nat /\ snap.pmIn \in Nat /\ snap.userOut \in Nat
  <2>1. led \in Ledger /\ snap \in Ledger /\ remaining \in Nat /\ totalOut \in Nat /\ i \in 1 .. N + 1
    BY DEF IInv, TypeOK
  <2>2. N \in Nat
    BY DEF IInv, TypeOK, N
  <2>3. snap.pmIn \in Nat /\ snap.userOut \in Nat
    BY <2>1 DEF Ledger
  <2> QED
    BY <2>1, <2>2, <2>3, TapAssumption
<1>7. [AnyNext]_vars
  BY PlannedSteps
<1>8. Execute
  BY <1>1, <1>7 DEF AnyNext, Makers_, MakerMovesFunds, MakerApproves, MakerShips, MakerDocks,
         OtherPoolsMove, Elsewhere, AnyCall, RejectCall, Swap, vars
<1>9. CASE AfterDepth
  <2>1. pc = "depth" /\ i = N + 1
    BY <1>6, <1>9 DEF AfterDepth
  <2>2. i - 1 = N
    BY <1>6, <2>1
  <2>3. Read(N)
    BY <1>3, <2>1, <2>2 DEF Agrees
  <2>4. totalDepth > 0
    BY <1>1, <2>1, <2>3, AllRead
  <2>5. totalDepth # 0
    BY <2>4 DEF IInv, TypeOK
  <2>6. led = snap
    BY <2>1 DEF IInv, Starting
  <2>7. ~(requested > led.pmIn)
    BY <1>1, <1>5, <1>6, <2>6
  <2> QED
    BY <1>1, <1>9, <2>5, <2>7 DEF AfterDepth, Goto
<1>10. CASE CountDust
  <2>1. outcome' = "Underflow"
    BY <1>1, <1>10 DEF CountDust, Goto, Revert, End
  <2> QED
    BY <2>1 DEF Counting
<1>11. CASE TakeFails
  <2>1. Filling /\ led.pmIn < Offer
    BY <1>11 DEF TakeFails, Quoted
  <2>2. pc = "place" \/ pc = "sweep"
    BY <2>1 DEF Filling
  <2>3. unplaced = 0
    BY <1>3, <2>2 DEF Agrees, At
  <2>4. led.pmIn >= Offer
    BY <1>1, <2>1, <2>3, LentInFull
  <2>5. Offer \in Nat /\ led.pmIn \in Nat
    BY <1>6, <2>1, FillContext DEF Ledger
  <2> QED
    BY <2>1, <2>4, <2>5
<1>12. CASE SettleHook
  <2>1. pc = "settle" /\ SettleError # "none"
    BY <1>1, <1>12 DEF SettleHook, Goto
  <2>2. remaining = 0 /\ totalOut = plan.amountOut
    BY <1>3, <2>1 DEF Agrees
  <2>3. FillAccounts /\ InSwap
    BY <2>1 DEF IInv, Placing, InSwap
  <2>4. led.hookIn = unplaced /\ led.hookOut = totalOut
    BY <2>3 DEF FillAccounts
  <2>5. FilledIn = requested
    BY <1>5, <2>2 DEF FilledIn
  <2>6. led.hookIn \in Nat /\ led.hookOut \in Nat
    BY <1>6 DEF Ledger
  <2>7. ~(totalOut = 0) /\ Placed /\ ~(led.hookIn < unplaced \/ led.hookOut < totalOut) /\ ~(FilledIn > MaxDelta \/ totalOut > MaxDelta)
    BY <1>1, <1>4, <1>5, <1>6, <2>2, <2>4, <2>5, <2>6 DEF Placed
  <2>8. SettleError = "none"
    BY <2>7 DEF SettleError
  <2> QED
    BY <2>1, <2>8
<1>13. CASE Pay
  <2>1. pc = "pay"
    BY <1>13 DEF Pay
  <2>2. remaining = 0 /\ totalOut = plan.amountOut
    BY <1>3, <2>1 DEF Agrees
  <2>3. led.userIn = snap.userIn /\ led.userOut = snap.userOut /\ borrowed = 0
    BY <2>1 DEF IInv, Paying
  <2>4. FilledIn = requested
    BY <1>5, <2>2 DEF FilledIn
  <2>5. Paid.userOut = snap.userOut + totalOut
    BY <1>6, <2>3 DEF Paid, Ledger
  <2>6. Received = totalOut
    BY <1>6, <2>5 DEF Received
  <2>7. led.userIn \in Nat
    BY <1>6 DEF Ledger
  <2>8. PayError = "none"
    BY <1>1, <1>5, <2>2, <2>3, <2>4, <2>6, <2>7 DEF PayError
  <2>9. End(Paid, "filled")
    BY <1>13, <2>8 DEF Pay
  <2> QED
    BY <2>2, <2>5, <2>9 DEF End
<1>14. CASE ReadDepth \/ PassOver \/ SkipOnQuote \/ Fill \/ SkipOnSwap \/ NextPass
  BY <1>1, <1>14 DEF ReadDepth, PassOver, SkipOnQuote, Fill, SkipOnSwap, Quoted, Filling, NextPass, Onwards, Goto, Unaffected
<1> QED
  BY <1>8, <1>9, <1>10, <1>11, <1>12, <1>13, <1>14 DEF Execute

-----------------------------------------------------------------------------
(* The theorems, for the swaps the site sends.                              *)

(***************************************************************************)
(* The planner never promises more input than it was asked about, names    *)
(* one candidate per maker, and an empty plan takes nothing, whatever the  *)
(* books, the depths and the programs (router.ts, planLikeTap).            *)
(***************************************************************************)
THEOREM PlansAreTyped == PlannedSpec => []PlanTypeOK
<1>1. IInv /\ PlanInv => PlanTypeOK
  BY PlanTyped
<1> QED
  BY <1>1, PlannedInductive, PTL

(***************************************************************************)
(* Of a swap sent from a plan, too, the sweep finds something left only    *)
(* when a maker was skipped: the remainder of the division travelled with  *)
(* the first slice (Tap.sol:141-171).                                      *)
(***************************************************************************)
THEOREM PlannedSliceOfDust == PlannedSpec => []RemainderRidesFirst
BY AnyNoSliceOfDust, PlannedCalls, PTL

(***************************************************************************)
(* The two together: every plan is one the hook can carry, and it places   *)
(* the remainder with the first slice (router.ts:227-350, Tap.sol:160-163).*)
(***************************************************************************)
THEOREM PlansAreCarried == PlannedSpec => []PlannedInv
<1>1. PlanTypeOK /\ RemainderRidesFirst => PlannedInv
  BY DEF PlannedInv
<1> QED
  BY <1>1, PlansAreTyped, PlannedSliceOfDust, PTL

(***************************************************************************)
(* A swap sent from a plan is the atomic swap, too: with the plan's floor  *)
(* and candidates, makers moving between plan and transaction              *)
(* (Wellhead.sol, Tap.sol:91-275).                                         *)
(***************************************************************************)
THEOREM PlannedSwapsAreAtomic == PlannedSpec => IsAtomic
BY AnySwapsAreAtomic, PlannedCalls, PTL

(***************************************************************************)
(* The quote is what the hook does: when nobody moved since the plan was   *)
(* made, the swap fills and pays the quoted output to the unit, for every  *)
(* set of makers, programs, books, depths and amounts, unless the plan has *)
(* one maker serve both passes (router.ts, replayTapFill; Tap.sol:91-215). *)
(***************************************************************************)
THEOREM QuotesAreHonoured == PlannedSpec => QuoteIsHonoured
<1>1. PlannedInit => Counting /\ Rides /\ Followed
  BY DEF PlannedInit, Init, NoSwap, Counting, Rides, Followed, Clear
<1>2. IInv /\ PlanInv /\ [PlannedNext]_PlannedVars => [AnyNext]_vars
  BY PlannedSteps
<1>3. PlannedSpec => []Counting
  BY <1>1, <1>2, NextCounts, PlannedInductive, PTL DEF PlannedSpec
<1>4. PlannedSpec => []Rides
  BY <1>1, <1>2, <1>3, NextRides, PlannedInductive, PTL DEF PlannedSpec
<1>5. PlannedSpec => []Followed
  BY <1>1, <1>3, <1>4, NextFollowed, PlannedInductive, PTL DEF PlannedSpec
<1>6. IInv /\ PlanInv /\ Counting /\ Counting' /\ Followed /\ [PlannedNext]_PlannedVars =>
        [(EndsAsPlanned /\ ~plan.swept) =>
           /\ outcome' = "filled"
           /\ led'.userOut = snap.userOut + plan.amountOut]_PlannedVars
  BY Honoured
<1> QED
  BY <1>3, <1>5, <1>6, PlannedInductive, PTL DEF PlannedSpec, QuoteIsHonoured
=============================================================================
