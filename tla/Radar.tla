-------------------------------- MODULE Radar --------------------------------
(***************************************************************************)
(* The radar beside the swap form: the desk's own quote, the panel that    *)
(* asks the other chain for the same trade, and the comparison that        *)
(* decides whether to send the swapper there (lib/crossChain.ts).          *)
(***************************************************************************)
EXTENDS Panels

CONSTANTS
    Unit            \* raw amount of input that a key's amount of one stands for

VARIABLES
    here            \* the desk's quote on this chain and of what, or Blank

radarVars == <<panelVars, here>>

ASSUME RadarAssumption ==
    /\ Unit \in Nat \ {0}
    /\ Values \subseteq [filled : 0 .. Unit, out : Nat, makers : Nat, dev : Int]

-----------------------------------------------------------------------------
\* A quote by its share of the size asked for, as raw amounts; none is no route.
Route(x) ==
    [in |-> x.of.amount * Unit, filled |-> x.of.amount * x.what.filled,
     out |-> IF x = Blank THEN 0 ELSE x.of.amount * x.what.out,
     makers |-> IF x = Blank THEN 0 ELSE x.what.makers, dev |-> IF x = Blank THEN 0 ELSE x.what.dev]

\* Per mille of the input with no maker; dust below that is not unfilled.
unfilledShare(r) == IF r.in > 0 THEN ((r.in - r.filled) * 1000) \div r.in ELSE 1000

altFilledShareBps(r) == IF r.in > 0 THEN (r.filled * 10000) \div r.in ELSE 0

altPartial(r) == altFilledShareBps(r) < 9990

currentHasSevereSlippage(cur) == cur.dev <= -100

\* Without the test that the price is better at all (fault).
better_rate_Always(cur, alt) ==
    /\ cur.out > 0 /\ cur.filled > 0 /\ alt.filled > 0
    /\ \/ alt.out * cur.filled * 100 >= cur.out * alt.filled * 101
       \/ currentHasSevereSlippage(cur)

\* Output per unit filled, never output against output; the ratio is cut to four digits.
better_rate(cur, alt) ==
    LET num == alt.out * cur.filled
        den == cur.out * alt.filled IN
    /\ cur.out > 0 /\ cur.filled > 0 /\ alt.filled > 0
    /\ (num - den) * 10000 >= den
    /\ num * 100 >= den * 101 \/ currentHasSevereSlippage(cur)

\* A fill elsewhere, whatever it pays (fault).
unfilled_current_AnyPrice(cur, alt) == (cur.out = 0 \/ unfilledShare(cur) > 0) /\ unfilledShare(alt) = 0

unfilled_current(cur, alt) ==
    /\ cur.out = 0 \/ unfilledShare(cur) > 0
    /\ unfilledShare(alt) = 0 /\ alt.out >= cur.out

deeper_solvency(cur, alt) == alt.makers >= 5 /\ cur.makers <= 2

\* The reasons are tried in this order, and none without a quote over there.
Reason(cur, alt) ==
    CASE alt.out = 0 -> "none"
      [] alt.out # 0 /\ better_rate(cur, alt) -> "better_rate"
      [] alt.out # 0 /\ ~ better_rate(cur, alt) /\ unfilled_current(cur, alt) -> "unfilled_current"
      [] OTHER -> IF deeper_solvency(cur, alt) THEN "deeper_solvency" ELSE "none"

-----------------------------------------------------------------------------
\* The quote of the pair left behind stays on the desk (fault).
Follows_NoDrop == here' = here

\* The desk drops its quote when a token changes, and keeps it while the size does.
Follows == here' = IF sel' # Nobody /\ sel'.pair = here.of.pair THEN here ELSE Blank

\* The desk's own quote lands, or fails.
Lands ==
    /\ panel = altRoute /\ sel # Nobody
    /\ here' \in {[of |-> sel, what |-> v] : v \in Values} \cup {Blank}
    /\ UNCHANGED panelVars

RadarInit == PanelsInit /\ here = Blank

RadarNext == (PanelsNext /\ Follows) \/ Lands

RadarSpec == RadarInit /\ [][RadarNext]_radarVars

-----------------------------------------------------------------------------
\* Both quotes are of the same trade.
SameTrade == panel = altRoute /\ shown # Blank /\ here.of = shown.of

(***************************************************************************)
(* "Only call the other chain a full fill if it actually is one and pays   *)
(* at least as much" (src/web/lib/crossChain.ts:133-135): where the card   *)
(* says that the whole trade fills over there, all but dust of it does,    *)
(* and switching does not cost more output than that dust.                 *)
(***************************************************************************)
FullFillPaysAsMuch ==
    LET cur == Route(here)  alt == Route(shown) IN
    SameTrade =>
        \/ Reason(cur, alt) \notin {"better_rate", "unfilled_current"}
        \/ Reason(cur, alt) = "better_rate" /\ altPartial(alt)
        \/ alt.filled * 1000 >= alt.in * 999 /\ alt.out * 1000 >= cur.out * 999

(***************************************************************************)
(* A swapper who follows the card is not sent back for the same reason:    *)
(* with the chains exchanged the comparison never gives it again.          *)
(***************************************************************************)
NotBothWays ==
    LET there == Reason(Route(here), Route(shown))
        back == Reason(Route(shown), Route(here)) IN
    SameTrade => there = "none" \/ back # there

TypeOK ==
    /\ PanelsTypeOK
    /\ here \in [of : Keys \cup {Nobody}, what : Values]
    /\ here # Blank => sel # Nobody /\ here.of.pair = sel.pair

(***************************************************************************)
(* The advice to switch chains costs the swapper no more than dust, and is *)
(* never given back on the other chain for the same reason                 *)
(* (crossChain.ts:93-234).                                                 *)
(***************************************************************************)
AdviceHolds == FullFillPaysAsMuch /\ NotBothWays
=============================================================================
