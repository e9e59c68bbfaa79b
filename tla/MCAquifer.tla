----------------------------- MODULE MCAquifer -----------------------------
(***************************************************************************)
(* Instances of Aquifer for TLC: three strategies of one maker, the first  *)
(* of which is capped.                                                     *)
(***************************************************************************)
EXTENDS Aquifer, TLC

CONSTANTS a, b, c, weth, usdc, ours

\* a is capped and lists b but not c.
Hash == [s \in Strategies |-> s]
Capped == [s \in Strategies |-> s = a]
Lists == [s \in Strategies |-> IF s = a THEN {b} ELSE {}]

OneApp == [s \in Strategies |-> ours]

\* a trades the pair; b holds one token and may move to the other; c one.
OneTokenSiblings ==
    [s \in Strategies |-> IF s = a THEN {<<weth, usdc>>}
                          ELSE IF s = b THEN {<<weth>>, <<usdc>>} ELSE {<<usdc>>}]
============================================================================
