---------------------------- MODULE MCMakerViews -----------------------------
(***************************************************************************)
(* Two strategies of the site's router, more than the cap lets through,    *)
(* and one of another; one of each is live to begin with, and the wallet   *)
(* backs half of what they promise.                                        *)
(***************************************************************************)
EXTENDS MakerViews

MCAppOf == [s \in Strategies |-> IF s = "c" THEN "bonedry" ELSE "router"]
MCGenesis ==
    {[st |-> [s \in Strategies |-> IF s = "b" THEN "new" ELSE "live"],
      amt |-> [s \in Strategies |-> IF s = "b" THEN 0 ELSE 1], wallet |-> 1, allow |-> 2]}

MCAsk(first, second) == [r \in Readers |-> IF r = "r1" THEN first ELSE second]
MCAsks == {MCAsk("coverage", "exposure"), MCAsk("makers", "makers")}
=============================================================================
