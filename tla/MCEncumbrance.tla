-------------------------- MODULE MCEncumbrance --------------------------
(***************************************************************************)
(* Instances of Encumbrance for TLC: one capped strategy with a choice of  *)
(* arguments, beside siblings it lists.                                    *)
(***************************************************************************)
EXTENDS Encumbrance, TLC

CONSTANTS a, b, weth, usdc

Capped(list, total, max, widen) ==
    [capped |-> TRUE, app |-> "BoneDryRouter", declared |-> total,
     siblings |-> list, maxUtilBps |-> max, widenBps |-> widen]

Plain(where) ==
    [capped |-> FALSE, app |-> where, declared |-> 0, siblings |-> <<>>,
     maxUtilBps |-> 0, widenBps |-> 0]

\* a samples b, once or twice; b samples nothing (a list can only name hashes
\* older than its own) and is plain, here or under another app, or capped.
PairPrograms ==
    (a :> {Capped(<<b>>, 1, 7500, 2000), Capped(<<b, b>>, 2, 20000, 15000)})
    @@ (b :> {Plain("BoneDryRouter"), Plain("AnotherApp"), Capped(<<>>, 1, 10000, 6000)})
==========================================================================
