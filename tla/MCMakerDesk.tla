---------------------------- MODULE MCMakerDesk ----------------------------
EXTENDS MakerDesk

\* The second row's list misses a token.
MCHome == [r \in Rows |-> "base"]
=============================================================================
