----------------------------- MODULE PlannedSwap -----------------------------
(***************************************************************************)
(* A swap as the site sends it: for every book /api/route chooses one      *)
(* strategy per maker, finds the largest input whose pro-rata slices all   *)
(* fit and replays the hook to see that they do.  The best book's input    *)
(* and candidates go to its Tap.  Between the plan and the transaction     *)
(* makers may move.                                                        *)
(***************************************************************************)
EXTENDS Tap, Ranking, SequencesExt

CONSTANTS
    Listed,          \* the strategies in the order the index returns them
    Books,           \* the Aqua apps in their order: their strategies, whether a hook reaches them
    ProbeShare,      \* filterFillable probes this fraction of the input (1000)
    GeometricSteps,  \* halvings tried when bracketing a ceiling (16)
    LinearSteps,     \* steps tried inside the bracket (12)
    TrimPasses       \* rounds of dropping candidates worth nothing (4)

ASSUME PlannedAssumption ==
    /\ Listed \in Seq(Strategies)
    /\ Books \in Seq([shipped: SUBSET Strategies, hook: BOOLEAN]) /\ Books # <<>>
    /\ \A b, c \in DOMAIN Books : b # c => Books[b].shipped \cap Books[c].shipped = {}
    /\ {ProbeShare, LinearSteps, TrimPasses} \subseteq Nat \ {0}
    /\ GeometricSteps \in Nat

VARIABLES
    plan,    \* the last answer of /api/route
    fresh    \* has nobody moved since it was computed

NoPlan == [takeIn |-> 0, route |-> <<>>, amountOut |-> 0, slices |-> <<>>, binding |-> {},
           swept |-> FALSE]

-----------------------------------------------------------------------------
(* The candidates: measureDepth, filterFillable, dedupeByMaker.             *)

Measured(s) == QuotableDepth(led, s)

\* quoteRoute: a quote that reverts counts as a payout of nothing.
Quote(s, x) == IF QuoteReverts(s, x) THEN 0 ELSE x \div Rate[s]

Probe(x) == IF x \div ProbeShare > 0 THEN x \div ProbeShare ELSE Max({x, 1})

Depths(b) == Among(Listed, Books[b].shipped)

Fillable(b, x) ==
    Among(Depths(b), {s \in Strategies : Measured(s) > 0 /\ Quote(s, Probe(x)) > 0})

Better(s, r, x) ==
    LET a == Quote(s, Probe(x))
        b == Quote(r, Probe(x))
    IN a > b \/ (a = b /\ Measured(s) > Measured(r))

\* The maker's best strategy, the earliest of equals.
BestOf(m, seq, x) ==
    LET own == Among(seq, {s \in Strategies : OwnerOf[s] = m})
    IN own[CHOOSE k \in DOMAIN own :
             \A j \in DOMAIN own : ~Better(own[j], own[k], x)
                                   /\ (j < k => Better(own[k], own[j], x))]

\* Deepest first; equals stay in the order their makers were met.
ByDepth(seq) ==
    LET deeper == {e \in (DOMAIN seq) \X (DOMAIN seq) :
                     LET a == Measured(seq[e[1]])
                         b == Measured(seq[e[2]])
                     IN a > b \/ (a = b /\ e[1] < e[2])}
        order == Ranked(DOMAIN seq, deeper)
    IN [k \in DOMAIN seq |-> seq[order[k]]]

\* Fault: every fillable strategy is a candidate.
Candidates_All(b, x) == ByDepth(Fillable(b, x))

\* One candidate per maker: a wallet delivers once.
Candidates(b, x) ==
    LET seq == Fillable(b, x)
        first == {k \in DOMAIN seq : \A j \in 1 .. k - 1 : OwnerOf[seq[j]] # OwnerOf[seq[k]]}
        met == Ascending(first)
    IN ByDepth([k \in DOMAIN met |-> BestOf(OwnerOf[seq[met[k]]], seq, x)])

-----------------------------------------------------------------------------
(* planLikeTap: the largest total at which no candidate is skipped.         *)

SumOf(f) == FoldFunction(+, 0, f)

TotalOf(seq) == SumOf([k \in DOMAIN seq |-> Measured(seq[k])])

\* The slice Tap will compute for the k-th candidate of seq out of x.
SliceAt(seq, x, k) == (x * Measured(seq[k])) \div TotalOf(seq)

Fits(s, x) == Quote(s, x) > 0 /\ Quote(s, x) <= Measured(s)

Halvings(top) == {x \in 1 .. top : \E k \in 0 .. GeometricSteps - 1 : x = top \div 2^k}

\* maxSliceWithinDepth: the largest slice found to fit, by halving and then by
\* one pass of equal steps inside the bracket.  0 when none fits.
Refined(s, lo, hi) ==
    Max({lo} \cup {x \in {lo + ((hi - lo) \div LinearSteps) * t : t \in 1 .. LinearSteps} : Fits(s, x)})

Bracketed(s, lo, top) == Refined(s, lo, IF lo = 0 THEN top ELSE Min({2 * lo, top}))

Ceiling(s, top) == Bracketed(s, Max({0} \cup {x \in Halvings(top) : Fits(s, x)}), top)

Ceilings(seq, x) == [k \in DOMAIN seq |-> Ceiling(seq[k], SliceAt(seq, x, k))]

\* Candidates whose share is worth nothing are dropped; the others' shares grow.
Trimmed(seq, x) ==
    LET trim[n \in Nat] ==
          IF n = 0 THEN seq
          ELSE LET prev == trim[n - 1] IN
               Among(prev, {s \in Strategies : Ceiling(s, (x * Measured(s)) \div TotalOf(prev)) > 0})
    IN trim[TrimPasses]

\* Each ceiling, inverted: the largest input that keeps that maker's slice
\* under it.  The smallest of them binds.
Limits(seq, x) ==
    [k \in DOMAIN seq |-> (Ceilings(seq, x)[k] * TotalOf(seq)) \div Measured(seq[k])]

TakeIn(seq, x) == Min({x} \cup Range(Limits(seq, x)))

\* The makers that lowered the total, one after the other.
Binding(seq, x) ==
    LET limit == Limits(seq, x)
    IN {OwnerOf[seq[k]] : k \in {k \in DOMAIN seq : \A l \in {x} \cup {limit[j] : j \in 1 .. k - 1} :
                                                     limit[k] < l}}

-----------------------------------------------------------------------------
(* replayTapFill: the hook's two passes on quotes read beforehand.          *)

Shares(seq, x) ==
    LET cut == [k \in DOMAIN seq |-> SliceAt(seq, x, k)]
    IN [cut EXCEPT ![1] = @ + (x - SumOf(cut))]

Start(seq, x) == [left |-> x, filled |-> [k \in DOMAIN seq |-> 0], got |-> [k \in DOMAIN seq |-> 0],
                  twice |-> FALSE]

\* One maker offered one slice: filled whole or passed over.
Offered(run, k, s, slice, offer) ==
    IF run.left = 0 \/ slice = 0 \/ ~Fits(s, offer) THEN run
    ELSE [left |-> run.left - slice, filled |-> [run.filled EXCEPT ![k] = @ + slice],
          got |-> [run.got EXCEPT ![k] = @ + Quote(s, offer)],
          twice |-> run.twice \/ run.filled[k] > 0]

PlacedIn(seq, x) ==
    LET share == Shares(seq, x)
        run[k \in 0 .. Len(seq)] ==
          IF k = 0 THEN Start(seq, x)
          ELSE Offered(run[k - 1], k, seq[k], Lesser(share[k], run[k - 1].left), share[k])
    IN run[Len(seq)]

\* The sweep's quotes are all for what pass 2 left over.
SweptIn(seq, placed) ==
    LET run[k \in 0 .. Len(seq)] ==
          IF k = 0 THEN placed
          ELSE Offered(run[k - 1], k, seq[k], placed.left, placed.left)
    IN run[Len(seq)]

Replay(seq, x) == SweptIn(seq, PlacedIn(seq, x))

Honours(run) == run.left = 0 /\ SumOf(run.got) > 0

PlanOf(seq, x, binding, run) ==
    [takeIn |-> x, route |-> seq, amountOut |-> SumOf(run.got),
     slices |-> SelectSeq([k \in DOMAIN seq |-> [strategy |-> seq[k], amountIn |-> run.filled[k],
                                                 amountOut |-> run.got[k], depth |-> Measured(seq[k])]],
                          LAMBDA e : e.amountIn > 0),
     binding |-> binding, swept |-> run.twice]

\* A total that the replay refuses is lowered by half a percent, a few times.
Lowered(x, times) ==
    LET low[n \in 0 .. times] == IF n = 0 THEN x ELSE (low[n - 1] * 995) \div 1000
    IN low[times]

\* The first of the totals tried that the replay accepts.
FirstOf(seq, totals, binding) ==
    IF totals = {} THEN NoPlan ELSE PlanOf(seq, Max(totals), binding, Replay(seq, Max(totals)))

FirstHonoured(seq, x, tries, binding) ==
    FirstOf(seq, {y \in {Lowered(x, n) : n \in 0 .. tries - 1} \ {0} : Honours(Replay(seq, y))}, binding)

SoloTake(s, x) == Min({Ceiling(s, x), x})

\* When no split survives, the deepest maker alone.
SoloPlan(s, x, take) == FirstHonoured(<<s>>, take, 3, IF take < x THEN {OwnerOf[s]} ELSE {})

OrSolo(split, live, x) ==
    IF split # NoPlan \/ Len(live) = 1 THEN split ELSE SoloPlan(live[1], x, SoloTake(live[1], x))

Split(live, x) == FirstHonoured(live, TakeIn(live, x), 4, Binding(live, x))

PlanLive(live, x) == IF live = <<>> THEN NoPlan ELSE OrSolo(Split(live, x), live, x)

PlanLikeTap(seq, x) == PlanLive(Trimmed(seq, x), x)

-----------------------------------------------------------------------------
(* The books compete by rate, and only those a hook can reach.              *)

PlanBook(b, x) == PlanLikeTap(Candidates(b, x), x)

\* The larger output wins, however much input it takes (fault).
BetterRate_Output(p, q) == p.takeIn > 0 /\ p.amountOut > q.amountOut

BetterRate(p, q) ==
    /\ p.takeIn > 0
    /\ LET lhs == p.amountOut * q.takeIn
           rhs == q.amountOut * p.takeIn
       IN q.takeIn = 0 \/ lhs > rhs \/ (lhs = rhs /\ p.takeIn > q.takeIn)

FillableBooks == Ascending({b \in DOMAIN Books : Books[b].hook})

Attempts(x) == [b \in DOMAIN Books |-> PlanBook(b, x)]

\* The first book stands when none has a hook.
BestOfBooks(attempt) ==
    LET best[n \in 0 .. Len(FillableBooks)] ==
          IF n = 0 THEN Head(FillableBooks \o <<1>>)
          ELSE IF BetterRate(attempt[FillableBooks[n]], attempt[best[n - 1]]) THEN FillableBooks[n]
          ELSE best[n - 1]
    IN best[Len(FillableBooks)]

-----------------------------------------------------------------------------
\* Bound: the swapper asks only about what they can still pay.
PlanRoute(x) ==
    /\ pc = "idle"
    /\ x <= led.userIn
    /\ \E attempt \in {Attempts(x)} : \E best \in {BestOfBooks(attempt)} :
          plan' = IF Books[best].hook THEN attempt[best] ELSE NoPlan
    /\ fresh' = TRUE
    /\ UNCHANGED vars

\* The planned swap, with the quoted output as its floor.
SwapAsPlanned ==
    /\ plan.takeIn > 0
    /\ Swap(plan.takeIn, plan.amountOut, plan.route)
    /\ UNCHANGED <<plan, fresh>>

\* A swap somebody else sends, whatever candidates they name.
SwapOtherwise == Call /\ plan' = NoPlan /\ fresh' = FALSE

MakersMove == Makers_ /\ fresh' = FALSE /\ UNCHANGED plan

Run ==
    /\ Execute
    /\ IF pc' = "idle" THEN plan' = NoPlan /\ fresh' = FALSE
       ELSE UNCHANGED <<plan, fresh>>

PlannedInit == Init /\ plan = NoPlan /\ fresh = FALSE

PlannedNext ==
    \/ \E x \in Requests : PlanRoute(x)
    \/ SwapAsPlanned \/ SwapOtherwise \/ MakersMove \/ Run

PlannedVars == <<vars, plan, fresh>>

PlannedSpec == PlannedInit /\ [][PlannedNext]_PlannedVars /\ WF_PlannedVars(Run)

-----------------------------------------------------------------------------
(***************************************************************************)
(* The planner never promises more than the input it was asked about, its  *)
(* candidates have distinct makers, and an empty plan takes nothing.       *)
(***************************************************************************)
PlanTypeOK ==
    /\ plan.takeIn > 0 => \E x \in Requests : plan.takeIn <= x
    /\ plan.takeIn \in Nat
    /\ plan.amountOut \in Nat
    /\ plan.takeIn = 0 <=> plan = NoPlan
    /\ \A j, k \in DOMAIN plan.route : OwnerOf[plan.route[j]] = OwnerOf[plan.route[k]] => j = k

\* A swap sent as planned ends, and only the makers could have stopped it.
EndsAsPlanned ==
    /\ pc # "idle" /\ pc' = "idle"
    /\ fresh
    /\ snap.userIn >= requested
    /\ snap.pmIn >= 2 * requested
    /\ requested <= MaxDelta /\ plan.amountOut <= MaxDelta

(***************************************************************************)
(* What the quote says is what the hook does: if nobody moved since the    *)
(* plan was made, the swap fills, and pays the quoted output to the unit,  *)
(* for a swapper who can pay, a PoolManager that can lend and amounts that *)
(* a v4 delta can hold.  Plans in which one maker serves both passes are   *)
(* set apart: the replay counts that maker's wallet twice.                 *)
(***************************************************************************)
QuoteIsHonoured ==
    [][(EndsAsPlanned /\ ~plan.swept) =>
         /\ outcome' = "filled"
         /\ led'.userOut = snap.userOut + plan.amountOut]_PlannedVars

(***************************************************************************)
(* A plan is one the hook can carry, and when it is carried out the        *)
(* remainder of the division travels with its first slice                  *)
(* (router.ts:227-350, Tap.sol:160-163).                                   *)
(***************************************************************************)
PlannedInv == PlanTypeOK /\ RemainderRidesFirst
=============================================================================
