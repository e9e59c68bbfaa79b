----------------------------- MODULE MCRecords ------------------------------
(***************************************************************************)
(* One maker's hash under two apps and another maker's strategy; pages of  *)
(* two blocks, and for the hook's logs a budget that ends before the       *)
(* window does.                                                            *)
(***************************************************************************)
EXTENDS Records, TLC

MCOwner == [s \in Strategies |-> IF s = "b" THEN "m2" ELSE "m1"]
MCAppOf == [s \in Strategies |-> IF s = "x" THEN "other" ELSE "router"]
MCHashOf == [s \in Strategies |-> IF s = "b" THEN "h2" ELSE "h1"]
MCTokensOf == [s \in Strategies |-> IF s = "x" THEN {"weth"} ELSE {"weth", "usdc"}]
MCOutcomes == {<<"fill">>, <<"skip", "skip">>, <<"skip", "fill">>}
MCBudgetOf == [k \in Kinds |-> IF k \in {"fills", "refusals"} THEN 1 ELSE 2]
MCWindowOf == [k \in Kinds |-> IF k = "swaps" THEN 1 ELSE 2]
=============================================================================
