------------------------------- MODULE MCRadar -------------------------------
EXTENDS Discovery

MCKeys == {[pair |-> "p", amount |-> 1], [pair |-> "p", amount |-> 2], [pair |-> "q", amount |-> 1]}

\* Nothing; all of it at a fair price, or far below it; all but dust; exactly the
\* last share that is not called partial; a sliver at the best price of all.
MCValues ==
    {[filled |-> 0, out |-> 0, makers |-> 0, dev |-> 0],
     [filled |-> 2000, out |-> 19, makers |-> 1, dev |-> 0],
     [filled |-> 2000, out |-> 4, makers |-> 1, dev |-> -100],
     [filled |-> 1999, out |-> 4, makers |-> 5, dev |-> -99],
     [filled |-> 1998, out |-> 20, makers |-> 2, dev |-> 10],
     [filled |-> 100, out |-> 2, makers |-> 5, dev |-> 0]}
=============================================================================
