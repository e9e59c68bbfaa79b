------------------------------- MODULE Beacon -------------------------------
(***************************************************************************)
(* A strategy priced off Chainlink: SwapVM hands the order to              *)
(* BeaconStrategy, which fills in the side that was not given at oracle    *)
(* mid less a spread, and opcode 35 widens what comes back.  The site      *)
(* reads the same feeds for the price and the chart it shows, and the      *)
(* Beacon contract repeats the normalisation.                              *)
(***************************************************************************)
EXTENDS Wire, Ranking

CONSTANTS
    One,                   \* 10^18
    MaxStalenessSeconds,   \* 90,000
    Legs,                  \* deployments: the feed and the units of each token, and the spread
    Sizes,                 \* amounts a taker may give
    Chart,                 \* rounds a chart asks for
    Answers, Times,        \* what a round of a feed may say, and when
    FeedUnit               \* 10^decimals of that feed

ASSUME BeaconAssumption ==
    /\ {One, MaxStalenessSeconds, Chart, FeedUnit} \subseteq Nat \ {0}
    /\ Legs \subseteq [price: [Tokens -> Nat \ {0}], feedUnit: [Tokens -> Nat \ {0}],
                       unit: [Tokens -> Nat \ {0}], spreadBps: 0 .. 999]
    /\ \A leg \in Legs, t \in Tokens : leg.feedUnit[t] <= One   \* a feed has at most 18 decimals
    /\ Sizes \subseteq Nat \ {0} /\ Answers \subseteq Int /\ Times \subseteq Nat

Reverts == <<>>

\* Three copies of one normalisation.
Normalised(answer, feedUnit) == (answer * One) \div feedUnit

-----------------------------------------------------------------------------
(* A feed is the sequence of its rounds.                                    *)

Latest(rounds) == rounds[Len(rounds)]

\* The Beacon contract shows a price however old it is.
OnChainPrice(rounds, unit) ==
    IF Latest(rounds).answer <= 0 THEN Reverts ELSE <<Normalised(Latest(rounds).answer, unit)>>

\* BeaconStrategy._priceUsdE18: the subtraction is checked.
SettledPrice(rounds, unit, now) ==
    LET r == Latest(rounds) IN
    IF r.answer <= 0 \/ now < r.updatedAt \/ now - r.updatedAt > MaxStalenessSeconds THEN Reverts
    ELSE <<Normalised(r.answer, unit)>>

\* lib/oracle.ts: nothing for a price that is not one, else whether it is stale.
oraclePriceUsd(rounds, unit, now) ==
    LET r == Latest(rounds) IN
    IF r.answer <= 0 THEN Reverts
    ELSE <<[priceUsdE18 |-> Normalised(r.answer, unit), updatedAt |-> r.updatedAt,
            stale |-> now - r.updatedAt > MaxStalenessSeconds]>>

Genuine(r) == r.answer > 0 /\ r.updatedAt > 0
Point(r) == [time |-> r.updatedAt, value |-> Normalised(r.answer, FeedUnit)]

\* Points of one time are all drawn (fault).
Distinct_No(points) == points

Distinct(points) ==
    LET later == Ascending({k \in DOMAIN points : k = 1 \/ points[k].time > points[k - 1].time})
    IN [k \in DOMAIN later |-> points[later[k]]]

\* The latest round, then those before it that are prices, sorted by time; the
\* sort is stable.
oraclePriceHistory(rounds) ==
    LET n == Len(rounds)
        back(k) == rounds[n - k]
        read == {0} \cup {k \in 1 .. Min({Chart, n}) - 1 : Genuine(back(k))}
        before == {e \in read \X read :
                     \/ back(e[1]).updatedAt < back(e[2]).updatedAt
                     \/ back(e[1]).updatedAt = back(e[2]).updatedAt /\ e[1] < e[2]}
        order == Ranked(read, before)
    IN IF Latest(rounds).answer <= 0 THEN <<>>
       ELSE Distinct([k \in DOMAIN order |-> Point(back(order[k]))])

\* /api/price: two reads that may see different heads, either of which may fail.
Shown(quote, history) ==
    IF quote = Reverts THEN [spot |-> Reverts, history |-> <<>>]
    ELSE [spot |-> quote,
          history |-> IF history # <<>> THEN history
                      ELSE <<[time |-> quote[1].updatedAt, value |-> quote[1].priceUsdE18]>>]

-----------------------------------------------------------------------------
(* BeaconStrategy.extruction: two divisions each way, so nothing can wrap.  *)

Less(value, leg) == (value * (Bps - leg.spreadBps)) \div Bps

\* Divides by what it should multiply by (fault).
More_Less(value, leg) == Less(value, leg)

More(value, leg) == (value * Bps) \div (Bps - leg.spreadBps)

PriceOf(t, leg) == Normalised(leg.price[t], leg.feedUnit[t])
ValueOf(amount, t, leg) == (amount * PriceOf(t, leg)) \div leg.unit[t]
AmountOf(value, t, leg) == (value * leg.unit[t]) \div PriceOf(t, leg)

Extruded(o, leg) ==
    IF o.isExactIn
    THEN [o EXCEPT !.amountOut = AmountOf(Less(ValueOf(o.amountIn, o.tokenIn, leg), leg), o.tokenOut, leg)]
    ELSE [o EXCEPT !.amountIn = AmountOf(More(ValueOf(o.amountOut, o.tokenOut, leg), leg), o.tokenIn, leg)]

-----------------------------------------------------------------------------
Given(leg) ==
    {Extruded([tokenIn |-> t, tokenOut |-> u, isExactIn |-> e, amountIn |-> x, amountOut |-> x], leg) :
        t \in Tokens, u \in Tokens, e \in BOOLEAN, x \in Sizes}

(***************************************************************************)
(* Whoever trades with an oracle strategy pays oracle mid and the spread:  *)
(* to the unit when the input is given.  When the output is given every    *)
(* division favours the taker, together by less than a unit of the input   *)
(* and two and a ninth of the smallest value.  Opcode 35 never makes it    *)
(* better for the taker.                                                   *)
(***************************************************************************)
PaysTheSpread(o, leg) ==
    LET out == o.amountOut * PriceOf(o.tokenOut, leg) * leg.unit[o.tokenIn]
        in == o.amountIn * PriceOf(o.tokenIn, leg) * leg.unit[o.tokenOut]
        units == leg.unit[o.tokenIn] * leg.unit[o.tokenOut]
        slack == PriceOf(o.tokenIn, leg) * leg.unit[o.tokenOut] + units
        kept == Bps - leg.spreadBps
    IN IF o.isExactIn THEN out * Bps <= in * kept
       ELSE out * Bps < (in + slack) * kept + units * Bps

SpreadIsPaid ==
    \A leg \in Legs : \A o \in {o \in Given(leg) : o.tokenIn # o.tokenOut} :
        /\ PaysTheSpread(o, leg)
        /\ \A d \in Amounts, x \in Terms, b \in Sizes :
              LET capped == [declared |-> d, maxUtilBps |-> x.maxUtilBps, widenBps |-> x.widenBps]
              IN Admits(capped, o, b) => PaysTheSpread(Widened(capped, o, b), leg)

(***************************************************************************)
(* A price the page calls fresh is one the strategy settles at the same    *)
(* moment, and the same number; the chart shows rounds of the feed only,   *)
(* in strictly rising time, misses none it asked for and, when both reads  *)
(* saw the same head, ends at the price beside it.                         *)
(***************************************************************************)
Feeds == UNION {[1 .. n -> [answer: Answers, updatedAt: Times]] : n \in 1 .. Chart + 1}

InOrder(rounds) == \A j, k \in DOMAIN rounds : j < k => rounds[j].updatedAt <= rounds[k].updatedAt

FreshIsSettled(rounds, now) ==
    LET quote == oraclePriceUsd(rounds, FeedUnit, now)
        settled == SettledPrice(rounds, FeedUnit, now)
    IN /\ quote = Reverts <=> OnChainPrice(rounds, FeedUnit) = Reverts
       /\ settled # Reverts => settled = OnChainPrice(rounds, FeedUnit)
       /\ settled = IF quote # Reverts /\ ~quote[1].stale /\ quote[1].updatedAt <= now
                    THEN <<quote[1].priceUsdE18>> ELSE Reverts

ChartIsGenuine(rounds, now) ==
    LET shown == Shown(oraclePriceUsd(rounds, FeedUnit, now), oraclePriceHistory(rounds))
        drawn == shown.history
        asked == {r \in Range(SubSeq(rounds, Max({1, Len(rounds) - Chart + 1}), Len(rounds))) : Genuine(r)}
    IN shown.spot # Reverts =>
         /\ \A k \in 2 .. Len(drawn) : drawn[k - 1].time < drawn[k].time
         /\ Range(drawn) \subseteq {Point(r) : r \in Range(rounds)}
         /\ {r.updatedAt : r \in asked} \subseteq {d.time : d \in Range(drawn)}
         /\ InOrder(rounds) => drawn[Len(drawn)] = Point(Latest(rounds))

FeedsAreShown ==
    \A rounds \in Feeds, now \in Times : FreshIsSettled(rounds, now) /\ ChartIsGenuine(rounds, now)

(***************************************************************************)
(* What the page previews, what the route declares and what the combined   *)
(* book refuses follow from one total, and the program around it prices as *)
(* it promises, at the price the page shows (Provide.tsx:387-395,          *)
(* route.ts:206-277, BeaconStrategy.sol:85-147, oracle.ts:46-148).         *)
(***************************************************************************)
DeclarationInv ==
    /\ PublishTypeOK /\ CombinedRatioIsDeclared /\ RefusalsAreReal /\ PreviewIsDeclared
    /\ SpreadIsPaid /\ FeedsAreShown
=============================================================================
