-------------------------------- MODULE MCTap --------------------------------
(* Small instances of Tap for TLC.                                          *)
EXTENDS Tap

CONSTANTS a1, b1, alice, bob

MCMakers == {alice, bob}
MCStrategies == {a1, b1}
MCOwnerOf == [s \in MCStrategies |-> IF s = b1 THEN bob ELSE alice]
OneForOne == [s \in Strategies |-> 1]
MCRoutes == {<<a1>>, <<a1, b1>>, <<a1, a1>>}
=============================================================================
