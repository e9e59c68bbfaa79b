----------------------------- MODULE MCSwapDesk -----------------------------
(***************************************************************************)
(* Two chains and two pairs; two offers, of two books and on both sides    *)
(* of the 1% margin.                                                       *)
(***************************************************************************)
EXTENDS SwapDesk

MCOffers ==
    {[hook |-> "h1", out |-> 100], [hook |-> "h2", out |-> 98]}
=============================================================================
