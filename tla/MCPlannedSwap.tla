---------------------------- MODULE MCPlannedSwap ----------------------------
(* Small instances of Answer for TLC: four strategies in two books, two *)
(* strategies of a book on one wallet, a wallet in both books.              *)
EXTENDS Answer

CONSTANTS a1, a2, b1, b2, alice, bob

MCMakers == {alice, bob}
MCStrategies == {a1, a2, b1, b2}
MCOwnerOf == [s \in MCStrategies |-> IF s \in {b1, b2} THEN bob ELSE alice]
MCRate == [s \in MCStrategies |-> IF s \in {a2, b1} THEN 2 ELSE 1]
MCListed == <<a1, b2, a2, b1>>
MCBooks == <<[shipped |-> {a1, a2, b1}, hook |-> TRUE], [shipped |-> {b2}, hook |-> TRUE]>>
MCPrices ==
    LET fair == [priceIn |-> 10, priceOut |-> 10, unitIn |-> 1, unitOut |-> 1, staleIn |-> FALSE, staleOut |-> FALSE]
    IN {fair, [fair EXCEPT !.priceOut = 15], [fair EXCEPT !.unitOut = 10],
        [fair EXCEPT !.priceIn = 0], [fair EXCEPT !.staleOut = TRUE]}
MCRoutes == {<<a1, a2, b1>>}
=============================================================================
