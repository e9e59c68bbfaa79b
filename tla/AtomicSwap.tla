----------------------------- MODULE AtomicSwap -----------------------------
(***************************************************************************)
(* What a Bone Dry swap promises everyone but the makers: seen from        *)
(* outside, it happens in one step or not at all.  Tokens go from the      *)
(* swapper to makers and back; the PoolManager that lent the input and the *)
(* hook that placed it are as they were.                                   *)
(***************************************************************************)
EXTENDS Integers

CONSTANT MaxDelta     \* the widest amount a swap may move

VARIABLES userIn, userOut, pmIn, pmOut, hook

vars == <<userIn, userOut, pmIn, pmOut, hook>>

Empty == [in |-> 0, out |-> 0, allowance |-> 0]

Init ==
    /\ userIn \in Nat /\ userOut = 0
    /\ pmIn \in Nat /\ pmOut = 0
    /\ hook = Empty

\* Up to MaxDelta of tokenIn leaves the swapper and some tokenOut arrives.
Exchange ==
    /\ userIn' \in Nat /\ userIn' < userIn /\ userIn - userIn' <= MaxDelta
    /\ userOut' \in Nat /\ userOut' > userOut /\ userOut' - userOut <= MaxDelta
    /\ UNCHANGED <<pmIn, pmOut, hook>>

\* Traders of other pools change what the PoolManager holds.
Liquidity ==
    /\ pmIn' \in Nat
    /\ UNCHANGED <<userIn, userOut, pmOut, hook>>

Next == Exchange \/ Liquidity

Spec == Init /\ [][Next]_vars
=============================================================================
