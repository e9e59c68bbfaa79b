----------------------------- MODULE MakerLedger -----------------------------
(***************************************************************************)
(* One maker and one token on one chain, block by block: what each         *)
(* strategy still promises, under which app, what the wallet holds and     *)
(* what Aqua may move of it.  Readers look at different blocks of the same *)
(* history, so all of it is kept.  Aqua and the ERC-20 are outside the     *)
(* repository; Lens is the contract that reads them.                       *)
(***************************************************************************)
EXTENDS Integers, Sequences, FiniteSetsExt

CONSTANTS
    Strategies,
    Router,         \* the app the site calls its own
    AppOf,          \* the app each strategy is shipped to
    Genesis,        \* the books the history may begin with
    MaxAmt,         \* bound on what a strategy promises
    MaxHeld,        \* bound on the wallet and the allowance
    MaxBlock,       \* bound on the history
    MaxMoves        \* bound on the blocks in which something moves

VARIABLE hist       \* hist[k] is the book at the end of block k

Books == [st : [Strategies -> {"new", "live", "docked"}], amt : [Strategies -> 0 .. MaxAmt],
          wallet : 0 .. MaxHeld, allow : 0 .. MaxHeld]

ASSUME LedgerAssumption ==
    /\ IsFiniteSet(Strategies) /\ Router \in {AppOf[s] : s \in Strategies} /\ Genesis \subseteq Books /\ Genesis # {}
    /\ MaxAmt \in Nat /\ MaxHeld \in Nat /\ MaxBlock \in Nat \ {0} /\ MaxMoves \in Nat

Bps == 10000
Lesser(a, b) == IF a < b THEN a ELSE b
Now == Len(hist)

-----------------------------------------------------------------------------
\* Reads what docking has left behind as a promise (fault).
Virtual_Raw(b, s) == b.amt[s]

\* rawBalances, as every reader takes it: a strategy that was never shipped or
\* was docked promises nothing, whatever amount its books still show.
Virtual(b, s) == IF b.st[s] = "live" THEN b.amt[s] ELSE 0
Live(b) == {s \in Strategies : b.st[s] = "live"}
Committed(b, set) == MapThenSumSet(LAMBDA s : Virtual(b, s), set)
Backing(b) == Lesser(b.wallet, b.allow)

\* Lens.coverage: the strategies it is given, as far as they are under app.
LensBps(b, app, hashes) ==
    LET committed == Committed(b, {s \in hashes : AppOf[s] = app}) IN
    IF committed = 0 THEN Bps ELSE Lesser(Bps, (Backing(b) * Bps) \div committed)

-----------------------------------------------------------------------------
Shipped(b) ==
    {[st |-> [b.st EXCEPT ![s] = "live"], amt |-> [b.amt EXCEPT ![s] = a], wallet |-> b.wallet, allow |-> b.allow] :
        s \in {x \in Strategies : b.st[x] = "new"}, a \in 1 .. MaxAmt}
Docked(b) == {[b EXCEPT !.st[s] = "docked"] : s \in Live(b)}
\* A taker's fill takes the token out of the wallet and off the promise.
Pulled(b) ==
    {[b EXCEPT !.amt[s] = @ - 1, !.wallet = @ - 1, !.allow = @ - 1] :
        s \in {x \in Live(b) : b.amt[x] > 0 /\ Backing(b) > 0}}
Moved(b) == {[b EXCEPT !.wallet = w] : w \in {b.wallet - 1, b.wallet + 1} \cap (0 .. MaxHeld)}
Approved(b) == {[b EXCEPT !.allow = a] : a \in {0, MaxHeld} \ {b.allow}}

Moves == Cardinality({k \in 2 .. Now : hist[k] # hist[k - 1]})

Block ==
    /\ Now < MaxBlock
    /\ LET b == hist[Now]
           moved == Shipped(b) \cup Docked(b) \cup Pulled(b) \cup Moved(b) \cup Approved(b)
       IN \E next \in {b} \cup IF Moves < MaxMoves THEN moved ELSE {} : hist' = Append(hist, next)
=============================================================================
