------------------------------- MODULE Ranking ------------------------------
(***************************************************************************)
(* What Array.prototype.sort and filter do, by the places elements end up  *)
(* in: no recursion, so that facts about it can be proved.                 *)
(***************************************************************************)
EXTENDS Integers, Sequences, FiniteSets

\* The members of a finite set in the order of a strict total order on it.
Ranked(S, before) ==
    [n \in 1 .. Cardinality(S) |->
        CHOOSE k \in S : Cardinality({j \in S : <<j, k>> \in before}) = n - 1]

Ascending(S) == Ranked(S, {e \in S \X S : e[1] < e[2]})

\* The elements of seq that are in S.
Among(seq, S) ==
    LET at == Ascending({k \in DOMAIN seq : seq[k] \in S}) IN [n \in DOMAIN at |-> seq[at[n]]]
=============================================================================
