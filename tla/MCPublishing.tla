---------------------------- MODULE MCPublishing ----------------------------
(***************************************************************************)
(* Two publications over one wallet and a sibling of either router; an     *)
(* instruction has room for one sibling, so some are counted unsampled.    *)
(***************************************************************************)
EXTENDS Beacon, TLC

CONSTANTS a, b, c, pub1, pub2, weth, usdc

MCPrograms == [s \in Strategies |-> {}]
MCSymmetry == Permutations({pub1, pub2})
MCTerms == {[maxUtilBps |-> 9500, widenBps |-> 1500]}
\* Two bytes to a word; a hash, a salt and a fee that hold the byte 35.
MCHashNo == (a :> 291) @@ (b :> 8995) @@ (c :> 65535)
MCSalts == {<<>>, <<35, 0, 35, 255>>}
MCCurves == {[pricing |-> "oracle", feeBps |-> 0], [pricing |-> "xyc", feeBps |-> 0], [pricing |-> "xyc", feeBps |-> 35]}
MCLegs ==
    {[price |-> (weth :> 5) @@ (usdc :> 2), feedUnit |-> (weth :> 1) @@ (usdc :> 2),
      unit |-> (weth :> 3) @@ (usdc :> u), spreadBps |-> s] : u \in {1, 2}, s \in {0, 900}}
MCPromises == {(weth :> 2) @@ (usdc :> 1)}
=============================================================================
