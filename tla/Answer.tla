------------------------------- MODULE Answer -------------------------------
(***************************************************************************)
(* The answer of /api/route and the waterfall the desk draws from it: the  *)
(* receipt's amounts, the wallets that fill, the ghosts and the wallets    *)
(* that refuse, the comparison with the deepest maker alone and each       *)
(* slice's distance from the oracle.                                       *)
(***************************************************************************)
EXTENDS PlannedSwap

CONSTANTS
    Whole,     \* basis points in one
    Tolerance, \* of the badge, 100
    Prices     \* what the two oracles may say, and the tokens' units

ASSUME AnswerAssumption ==
    /\ Whole \in Nat \ {0} /\ Tolerance \in Nat
    /\ \A p \in Prices : {p.priceIn, p.priceOut, p.unitIn, p.unitOut} \subseteq Nat
                         /\ {p.staleIn, p.staleOut} \subseteq BOOLEAN

-----------------------------------------------------------------------------
(* The payload.                                                             *)

Owners(seq) == [k \in DOMAIN seq |-> OwnerOf[seq[k]]]

MakersSkipped(b) == Owners(SelectSeq(Depths(b), LAMBDA s : Measured(s) = 0))

MakersUnfillable(b, x) ==
    Owners(SelectSeq(Depths(b), LAMBDA s : Measured(s) > 0 /\ Quote(s, Probe(x)) = 0))

\* Integer division of the site's bigints: towards zero.
Towards0(a, n) == IF a < 0 THEN -((-a) \div n) ELSE a \div n

ImprovementBps(out, single) == IF single > 0 THEN Towards0((out - single) * Whole, single) ELSE 0

\* The same input through the deepest candidate alone, when there is a plan.
Single(b, p, x) == IF p = NoPlan THEN NoPlan ELSE PlanLikeTap(<<Candidates(b, x)[1]>>, p.takeIn)

AnswerOf(b, p, x) ==
    LET single == Single(b, p, x) IN
       [amountIn |-> x, amountFilled |-> p.takeIn, unfilled |-> x - p.takeIn,
        slices |-> p.slices, amountOut |-> p.amountOut, clamped |-> p.binding,
        makersConsidered |-> Len(Depths(b)), makersUsed |-> Len(p.slices),
        makersSkipped |-> MakersSkipped(b), makersUnfillable |-> MakersUnfillable(b, x),
        singleMakerAmountOut |-> single.amountOut,
        improvementBps |-> ImprovementBps(p.amountOut, single.amountOut)]

-----------------------------------------------------------------------------
(* attachOracleDeviations.                                                  *)

DeviationBps(paid, fair) == IF fair = 0 THEN 0 ELSE Towards0((paid - fair) * Whole, fair)

NoDeviation == <<>>

\* The values are compared over the product of both units.
SliceDeviation(in, out, p) ==
    LET termOut == out * p.priceOut * p.unitIn
        termIn  == in * p.priceIn * p.unitOut
    IN IF in = 0 \/ out = 0 \/ termIn = 0 THEN NoDeviation ELSE <<DeviationBps(termOut, termIn)>>

Deviation(e, p) ==
    IF p.staleIn \/ p.staleOut \/ p.priceIn = 0 \/ p.priceOut = 0 THEN NoDeviation
    ELSE SliceDeviation(e.amountIn, e.amountOut, p)

-----------------------------------------------------------------------------
(* buildSolvencyWaterfall: one row per slice, ghost and refusing strategy.  *)

Share(e, a) == (e.amountIn * Whole) \div a.amountFilled

FilledRows(a) ==
    [k \in DOMAIN a.slices |->
        LET m == OwnerOf[a.slices[k].strategy]
        IN [maker |-> m, share |-> Share(a.slices[k], a),
            status |-> IF m \in a.clamped THEN "CLAMPED" ELSE "SOLVENT"]]

Idle(makers, status) == [k \in DOMAIN makers |-> [maker |-> makers[k], share |-> 0, status |-> status]]

\* Both lists name the same wallet: both rows are shown (fault).
Refusing_Twice(a) == a.makersUnfillable

\* A wallet reported both skipped and unfillable is counted once, as skipped.
Refusing(a) == SelectSeq(a.makersUnfillable, LAMBDA m : m \notin Range(a.makersSkipped))

DedupedOverlap(a) == Len(a.makersUnfillable) - Len(Refusing(a))

Waterfall(a) ==
    FilledRows(a) \o Idle(a.makersSkipped, "SKIPPED_GHOST") \o Idle(Refusing(a), "UNFILLABLE")

RowsOf(a, statuses) == SelectSeq(Waterfall(a), LAMBDA r : r.status \in statuses)

\* The badge of an improvement, withheld when a slice is far below the oracle.
PriceOk(a, p) ==
    \A k \in DOMAIN a.slices :
        LET d == Deviation(a.slices[k], p) IN d = NoDeviation \/ d[1] > -Tolerance

-----------------------------------------------------------------------------
\* No book a hook reaches offers a better rate.
BestRate(best, attempt) ==
    \A b \in Range(FillableBooks) :
        /\ best.amountOut * attempt[b].takeIn >= attempt[b].amountOut * best.takeIn
        /\ best.takeIn = 0 => attempt[b].takeIn = 0

\* The slices are the amounts, each wallet once and within its depth.
ReceiptAdds(a) ==
    /\ SumOf([k \in DOMAIN a.slices |-> a.slices[k].amountIn]) = a.amountFilled
    /\ SumOf([k \in DOMAIN a.slices |-> a.slices[k].amountOut]) = a.amountOut
    /\ a.amountFilled \in 0 .. a.amountIn
    /\ IsInjective([k \in DOMAIN a.slices |-> OwnerOf[a.slices[k].strategy]])

\* Every strategy considered is a row, a wallet counted once, or a fillable
\* strategy that drew no slice; no wallet both refuses and haunts.
RowsAccount(a, b, x) ==
    LET rows == Waterfall(a)
        drawn == Len(Fillable(b, x)) - Len(a.slices)
        share == SumOf([k \in DOMAIN rows |-> rows[k].share])
        named(status) == {r.maker : r \in Range(RowsOf(a, {status}))}
    IN
    /\ a.makersConsidered = Len(rows) + DedupedOverlap(a) + drawn
    /\ named("SKIPPED_GHOST") \cap named("UNFILLABLE") = {}
    /\ a.amountFilled > 0 => share \in Whole - Len(a.slices) + 1 .. Whole

\* The input is left over only because some wallet's ceiling held it back, and
\* the deepest maker alone improves on itself by nothing.
ComparisonIsFair(a, p, b, x) ==
    /\ a.amountFilled \in 1 .. a.amountIn - 1 => RowsOf(a, {"CLAMPED"}) # <<>>
    /\ ~p.swept /\ Len(a.slices) = 1 /\ a.slices[1].strategy = Candidates(b, x)[1] => a.improvementBps = 0

\* The swap as a whole is no further from the oracle than its slices, so a badge
\* that no slice withholds is not shown over a bad price.
DeviationsBracket(a) ==
    \A p \in Prices :
        LET each == {Deviation(e, p) : e \in Range(a.slices)}
            all  == Deviation([amountIn |-> a.amountFilled, amountOut |-> a.amountOut], p)
        IN each # {} =>
             IF all = NoDeviation THEN each = {all}
             ELSE /\ \E lo, hi \in each : lo[1] <= all[1] /\ all[1] <= hi[1]
                  /\ PriceOk(a, p) => all[1] > -Tolerance

Asked(x) ==
    \A attempt \in {Attempts(x)} : \A b \in {BestOfBooks(attempt)} : \A a \in {AnswerOf(b, attempt[b], x)} :
        /\ BestRate(attempt[b], attempt) /\ ReceiptAdds(a) /\ RowsAccount(a, b, x)
        /\ ComparisonIsFair(a, attempt[b], b, x) /\ DeviationsBracket(a)

(***************************************************************************)
(* What an answer shows is the plan it carries: the best rate among the    *)
(* books a hook reaches, rows that add up to the receipt and account for   *)
(* every strategy considered, and comparisons that flatter nobody          *)
(* (route/route.ts:138-305, solvencyEngine.ts:64-179).  It depends on the   *)
(* balances alone: how the last transaction ended does not matter.         *)
(***************************************************************************)
AnswersAddUp ==
    pc = "idle" /\ plan = NoPlan /\ outcome = "none" => \A x \in Requests : Asked(x)
=============================================================================
