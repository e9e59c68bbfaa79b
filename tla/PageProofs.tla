------------------------------ MODULE PageProofs ------------------------------
(***************************************************************************)
(* What the pages of the site show is so: what the panels settle on, what  *)
(* the radar advises and the search reports, and what the maker's tabs say *)
(* was shipped or docked; for any keys, quotes, rows, presses and number   *)
(* of loads.                                                               *)
(***************************************************************************)
EXTENDS Discovery, MakerDesk, FiniteSetTheorems, TLAPS

Key == Keys \cup {Nobody}
Content == [of : Key, what : Values]
Load == [key : Key, pc : {"none", "armed", "asked", "done", "failed"}]

Typed ==
    /\ panel \in Policies /\ sel \in Key /\ shown \in Content /\ here \in Content
    /\ calls \in [Calls -> Load] /\ current \in 0 .. MaxCalls
    /\ cache \in [Keys -> SUBSET Values]

\* The newest load of a guarded panel is for what is selected.
Newest ==
    panel.guard = "live" =>
        /\ sel = Nobody => current = 0
        /\ current # 0 => calls[current].key = sel
        /\ panel.resets /\ current # 0 /\ calls[current].pc \in {"armed", "asked"} => shown = Blank

IInv ==
    /\ Typed /\ Newest /\ SettledIsSelected /\ NeverAnothers /\ SpinnerIsStopped
    /\ panel.idle = "never" /\ sel = Nobody => ~ busy

-----------------------------------------------------------------------------
(* The comparison of two quotes.                                            *)

Amounts(r) ==
    /\ r.in \in Nat /\ r.filled \in Nat /\ r.filled <= r.in /\ r.out \in Nat
    /\ r.makers \in Nat /\ r.dev \in Int

\* A product with a positive number keeps the order, either way.
LEMMA TimesKeeps ==
    ASSUME NEW a \in Nat, NEW b \in Nat, NEW c \in Nat, a <= b PROVE a * c <= b * c
OBVIOUS

LEMMA TimesReflects ==
    ASSUME NEW a \in Nat, NEW b \in Nat, NEW c \in Nat, c > 0, a * c <= b * c PROVE a <= b
OBVIOUS

\* A share that rounds down to nothing is dust.
LEMMA DustIsDust ==
    ASSUME NEW in \in Nat, NEW filled \in Nat, filled <= in, in > 0, ((in - filled) * 1000) \div in = 0
    PROVE  filled * 1000 >= in * 999
<1>1. ((in - filled) * 1000) \in Nat
  OBVIOUS
<1>2. (in - filled) * 1000 < in
  <2> DEFINE d == (in - filled) * 1000
  <2>1. d \in Nat /\ d \div in = 0
    BY <1>1
  <2> HIDE DEF d
  <2>2. d = in * (d \div in) + (d % in) /\ d % in < in
    BY <2>1
  <2>3. d < in
    BY <2>1, <2>2
  <2> QED
    BY <2>3 DEF d
<1> QED
  BY <1>2

\* What is not called partial is filled but for a thousandth.
LEMMA WholeIsWhole ==
    ASSUME NEW in \in Nat, NEW filled \in Nat, in > 0, (filled * 10000) \div in >= 9990
    PROVE  filled * 1000 >= in * 999
<1> DEFINE n == filled * 10000
<1> DEFINE q == n \div in
<1>1. n \in Nat /\ q \in Nat /\ q >= 9990
  OBVIOUS
<1>2. in * q <= n
  BY <1>1
<1>3. in * 9990 <= in * q
  <2> HIDE DEF q, n
  <2>1. 9990 * in <= q * in
    BY <1>1, TimesKeeps
  <2> QED
    BY <1>1, <2>1
<1>4. in * 9990 <= n
  <2> HIDE DEF q, n
  <2>1. in * q \in Nat /\ in * 9990 \in Nat
    BY <1>1
  <2> QED
    BY <1>1, <1>2, <1>3, <2>1
<1> QED
  BY <1>4

\* A better price over there: its cross product is the greater.
LEMMA BetterIsBetter ==
    ASSUME NEW cur, NEW alt, Amounts(cur), Amounts(alt), better_rate(cur, alt)
    PROVE  /\ cur.out > 0 /\ cur.filled > 0 /\ alt.filled > 0
           /\ cur.out * alt.filled \in Nat /\ alt.out * cur.filled \in Nat
           /\ cur.out * alt.filled < alt.out * cur.filled
<1> DEFINE num == alt.out * cur.filled
           den == cur.out * alt.filled
<1>1. cur.out > 0 /\ cur.filled > 0 /\ alt.filled > 0 /\ (num - den) * 10000 >= den
  BY DEF better_rate
<1>2. num \in Nat /\ den \in Nat
  BY DEF Amounts
<1>3. den # 0
  <2>1. ASSUME NEW a \in Nat, NEW b \in Nat, a > 0, b > 0 PROVE a * b # 0
    BY <2>1
  <2> QED
    BY <1>1, <2>1 DEF Amounts
<1> HIDE DEF num, den
<1>4. den < num
  BY <1>1, <1>2, <1>3
<1> QED
  BY <1>1, <1>2, <1>4 DEF num, den

LEMMA AdviceOf ==
    ASSUME NEW cur, NEW alt, Amounts(cur), Amounts(alt), cur.in = alt.in, alt.in > 0
    PROVE  /\ \/ Reason(cur, alt) \notin {"better_rate", "unfilled_current"}
              \/ Reason(cur, alt) = "better_rate" /\ altPartial(alt)
              \/ alt.filled * 1000 >= alt.in * 999 /\ alt.out * 1000 >= cur.out * 999
           /\ Reason(cur, alt) = "none" \/ Reason(alt, cur) # Reason(cur, alt)
<1>1. ASSUME NEW a, NEW b, Amounts(a), Amounts(b)
      PROVE  /\ Reason(a, b) = "better_rate" => better_rate(a, b)
             /\ Reason(a, b) = "unfilled_current" => unfilled_current(a, b) /\ b.out # 0
             /\ Reason(a, b) = "deeper_solvency" => deeper_solvency(a, b)
             /\ Reason(a, b) \in {"none", "better_rate", "unfilled_current", "deeper_solvency"}
  BY DEF Reason
<1>2. ASSUME Reason(cur, alt) = "better_rate", ~ altPartial(alt)
      PROVE  alt.filled * 1000 >= alt.in * 999 /\ alt.out * 1000 >= cur.out * 999
  <2>1. better_rate(cur, alt)
    BY <1>1, <1>2
  <2>2. cur.filled > 0 /\ cur.out * alt.filled \in Nat /\ alt.out * cur.filled \in Nat
        /\ cur.out * alt.filled < alt.out * cur.filled
    BY <2>1, BetterIsBetter
  <2>3. alt.filled * 1000 >= alt.in * 999
    BY <1>2, WholeIsWhole DEF altPartial, altFilledShareBps, Amounts
  <2> DEFINE ci == cur.filled
             co == cur.out
             ai == alt.filled
             ao == alt.out
  <2>4. ci \in Nat /\ co \in Nat /\ ai \in Nat /\ ao \in Nat /\ ci > 0
    BY <2>2 DEF Amounts
  <2>5. ci * 999 <= ai * 1000
    BY <2>3 DEF Amounts
  <2>6. co * ai < ao * ci
    BY <2>2
  <2> HIDE DEF ci, co, ai, ao
  <2>7. (ci * 999) * co <= (ai * 1000) * co
    BY <2>4, <2>5, TimesKeeps
  <2>8. (co * 999) * ci <= (ao * 1000) * ci
    <3>1. (co * 999) * ci = (ci * 999) * co /\ (ai * 1000) * co = (co * ai) * 1000 /\ (ao * 1000) * ci = (ao * ci) * 1000
      BY <2>4
    <3>2. co * ai \in Nat /\ ao * ci \in Nat
      BY <2>4
    <3>3. (co * ai) * 1000 <= (ao * ci) * 1000
      BY <2>6, <3>2
    <3>4. (co * 999) * ci \in Nat /\ (ao * 1000) * ci \in Nat /\ (co * ai) * 1000 \in Nat
      BY <2>4
    <3> QED
      BY <2>7, <3>1, <3>3, <3>4
  <2>9. co * 999 <= ao * 1000
    BY <2>4, <2>8, TimesReflects
  <2> QED
    BY <2>3, <2>4, <2>9 DEF co, ao
<1>3. ASSUME Reason(cur, alt) = "unfilled_current"
      PROVE  alt.filled * 1000 >= alt.in * 999 /\ alt.out * 1000 >= cur.out * 999
  <2>1. unfilled_current(cur, alt)
    BY <1>1, <1>3
  <2>2. ((alt.in - alt.filled) * 1000) \div alt.in = 0 /\ alt.out >= cur.out
    BY <2>1 DEF unfilled_current, unfilledShare, Amounts
  <2>3. alt.filled * 1000 >= alt.in * 999
    BY <2>2, DustIsDust DEF Amounts
  <2> QED
    BY <2>2, <2>3 DEF Amounts
<1>4. ~ (better_rate(cur, alt) /\ better_rate(alt, cur))
  <2>1. ASSUME better_rate(cur, alt), better_rate(alt, cur) PROVE FALSE
    <3>1. cur.out * alt.filled < alt.out * cur.filled /\ cur.out * alt.filled \in Nat /\ alt.out * cur.filled \in Nat
      BY <2>1, BetterIsBetter
    <3>2. alt.out * cur.filled < cur.out * alt.filled
      BY <2>1, BetterIsBetter
    <3> QED
      BY <3>1, <3>2
  <2> QED
    BY <2>1
<1>5. ~ (unfilled_current(cur, alt) /\ alt.out # 0 /\ unfilled_current(alt, cur) /\ cur.out # 0)
  BY DEF unfilled_current, unfilledShare, Amounts
<1>6. ~ (deeper_solvency(cur, alt) /\ deeper_solvency(alt, cur))
  BY DEF deeper_solvency, Amounts
<1>7. Reason(cur, alt) = "none" \/ Reason(alt, cur) # Reason(cur, alt)
  BY <1>1, <1>4, <1>5, <1>6
<1> QED
  BY <1>2, <1>3, <1>7

\* The amounts of a quote for a key.
LEMMA RouteTyped ==
    ASSUME NEW x \in Content PROVE Amounts(Route(x)) /\ Route(x).in = x.of.amount * Unit
<1>1. x.of.amount \in Nat /\ x.what.filled \in Nat /\ x.what.filled <= Unit /\ x.what.out \in Nat
      /\ x.what.makers \in Nat /\ x.what.dev \in Int /\ Unit \in Nat
  BY PanelsAssumption, RadarAssumption DEF Content, Key, Nobody
<1>2. ASSUME NEW a \in Nat, NEW f \in Nat, NEW u \in Nat, f <= u PROVE a * f \in Nat /\ a * u \in Nat /\ a * f <= a * u
  <2>1. f * a <= u * a
    BY <1>2, TimesKeeps
  <2> QED
    BY <1>2, <2>1
<1>3. x.of.amount * Unit \in Nat /\ x.of.amount * x.what.filled \in Nat /\ x.of.amount * x.what.filled <= x.of.amount * Unit
      /\ x.of.amount * x.what.out \in Nat
  BY <1>1, <1>2
<1> QED
  BY <1>1, <1>3 DEF Route, Amounts

LEMMA Advised == IInv => AdviceHolds
<1> SUFFICES ASSUME IInv, SameTrade PROVE AdviceHolds
  BY DEF AdviceHolds, FullFillPaysAsMuch, NotBothWays
<1> DEFINE cur == Route(here)
           alt == Route(shown)
<1>1. Amounts(cur) /\ Amounts(alt) /\ cur.in = alt.in
  BY RouteTyped DEF IInv, Typed, SameTrade
<1>2. CASE alt.in > 0
  BY <1>1, <1>2, AdviceOf DEF AdviceHolds, FullFillPaysAsMuch, NotBothWays
<1>3. CASE alt.in = 0
  <2>1. alt.filled = 0 /\ cur.filled = 0 /\ cur.in = 0
    BY <1>1, <1>3 DEF Amounts
  <2>2. ~ better_rate(cur, alt) /\ ~ better_rate(alt, cur)
    BY <2>1 DEF better_rate
  <2>3. ~ unfilled_current(cur, alt) /\ ~ unfilled_current(alt, cur)
    BY <1>3, <2>1 DEF unfilled_current, unfilledShare
  <2>4. ~ (deeper_solvency(cur, alt) /\ deeper_solvency(alt, cur))
    BY <1>1 DEF deeper_solvency, Amounts
  <2>5. Reason(cur, alt) \in {"none", "deeper_solvency"} /\ Reason(alt, cur) \in {"none", "deeper_solvency"}
    BY <2>2, <2>3 DEF Reason
  <2>6. Reason(cur, alt) = "none" \/ Reason(alt, cur) # Reason(cur, alt)
    BY <2>2, <2>3, <2>4, <2>5 DEF Reason
  <2> QED
    BY <2>5, <2>6 DEF AdviceHolds, FullFillPaysAsMuch, NotBothWays
<1> QED
  BY <1>1, <1>2, <1>3 DEF Amounts

-----------------------------------------------------------------------------
(* The panels.                                                              *)

\* What the policies have in common.
Sound(p) ==
    /\ p.resets \in BOOLEAN /\ p.flag \in BOOLEAN /\ p.stops \in BOOLEAN /\ p.follows \in BOOLEAN
    /\ p.fails \subseteq {"drop", "keep"}
    /\ p.guard \in {"live", "gen", "none"}
    /\ p.guard = "live" => p.follows
    /\ p.guard = "live" /\ p.resets => p.idle \in {"drop", "never"}
    /\ ~ p.follows => p.idle = "never"

LEMMA PolicyFacts == ASSUME NEW p \in Policies PROVE Sound(p)
<1> USE DEF Sound, Guarded
<1>1. Sound(useMakerBook) /\ Sound(portfolioExposure) /\ Sound(portfolioHistory) /\ Sound(fetchExposure) /\ Sound(reloadBalances)
  BY DEF useMakerBook, portfolioExposure, portfolioHistory, fetchExposure, reloadBalances
<1>2. Sound(beaconSpread) /\ Sound(walletBalance) /\ Sound(coverageCard) /\ Sound(findingCard) /\ Sound(appsCard)
  BY DEF beaconSpread, walletBalance, coverageCard, findingCard, appsCard
<1>3. Sound(priceChart) /\ Sound(liquidPairs) /\ Sound(tokenLookup) /\ Sound(useSwapGas) /\ Sound(altBalance)
  BY DEF priceChart, liquidPairs, tokenLookup, useSwapGas, altBalance
<1>4. Sound(lookupTab) /\ Sound(lookupPage) /\ Sound(subgraphSearch) /\ Sound(altRoute)
  BY DEF lookupTab, lookupPage, subgraphSearch, altRoute
<1> HIDE DEF Sound, Guarded
<1> QED
  BY <1>1, <1>2, <1>3, <1>4 DEF Policies

LEMMA Blanks == Blank \in Content /\ Blank.of = Nobody /\ Nobody \notin Keys
BY PanelsAssumption DEF Blank, Content, Key, Something

LEMMA InitInv == DiscoveryInit => IInv
<1> SUFFICES ASSUME DiscoveryInit PROVE IInv
  OBVIOUS
<1> USE PanelsAssumption DEF DiscoveryInit, RadarInit, PanelsInit
<1>1. Typed
  BY Blanks DEF Typed, Key, Load, NotMade, Calls
<1>2. Newest /\ SettledIsSelected /\ NeverAnothers /\ SpinnerIsStopped
  BY Blanks DEF Newest, SettledIsSelected, NeverAnothers, SpinnerIsStopped
<1> QED
  BY <1>1, <1>2 DEF IInv

\* What only the loads, and not the quote beside them, decide.
Loaded == Newest /\ SettledIsSelected /\ NeverAnothers /\ SpinnerIsStopped /\ (panel.idle = "never" /\ sel = Nobody => ~ busy)

LEMMA DisarmedTyped ==
    ASSUME IInv
    PROVE  /\ Disarmed \in [Calls -> Load]
           /\ \A i \in Calls : Disarmed[i].key = calls[i].key
BY DEF IInv, Typed, Disarmed, Load

LEMMA LoadsKeep ==
    ASSUME IInv, NEW k \in Keys, Loads(k), sel' = k, panel' = panel
    PROVE  Loaded' /\ calls' \in [Calls -> Load] /\ current' \in 0 .. MaxCalls /\ shown' \in Content
<1>1. PICK n \in Calls :
          /\ calls' = [Disarmed EXCEPT ![n] = [key |-> k, pc |-> IF panel.guard = "gen" THEN "armed" ELSE "asked"]]
          /\ current' = n /\ busy' = panel.flag /\ shown' = IF panel.resets THEN Blank ELSE shown
  BY DEF Loads
<1>2. /\ calls' \in [Calls -> Load] /\ calls'[n].key = k /\ calls'[n].pc \in {"armed", "asked"}
      /\ n \in 0 .. MaxCalls /\ n # 0
  BY <1>1, DisarmedTyped, PanelsAssumption DEF Load, Key, Calls
<1>3. shown' \in Content /\ k # Nobody
  BY <1>1, Blanks DEF IInv, Typed
<1>4. SpinnerIsStopped'
  BY <1>1, <1>2 DEF SpinnerIsStopped, Pending, Counts
<1>5. Newest' /\ SettledIsSelected' /\ NeverAnothers'
  BY <1>1, <1>2, <1>3, Blanks DEF Newest, SettledIsSelected, NeverAnothers
<1> QED
  BY <1>1, <1>2, <1>3, <1>4, <1>5 DEF Loaded

LEMMA SelectKeeps ==
    ASSUME IInv, NEW k \in Key, Select(k)
    PROVE  /\ Loaded' /\ panel' = panel /\ sel' \in Key /\ cache' = cache
           /\ calls' \in [Calls -> Load] /\ current' \in 0 .. MaxCalls /\ shown' \in Content
<1>1. panel' = panel /\ sel' = k /\ cache' = cache /\ k # sel
  BY DEF Select
<1>2. /\ panel \in Policies /\ shown \in Content /\ calls \in [Calls -> Load] /\ current \in 0 .. MaxCalls
      /\ cache \in [Keys -> SUBSET Values] /\ 0 \in 0 .. MaxCalls
  BY PanelsAssumption DEF IInv, Typed
<1>3. CASE k = Nobody /\ panel.idle # "never" /\ Idles
  <2>1. /\ calls' = Disarmed /\ current' = (IF panel.guard = "live" THEN 0 ELSE current)
        /\ busy' = (busy /\ ~ panel.stops) /\ shown' = (IF panel.idle = "drop" THEN Blank ELSE shown)
    BY <1>3 DEF Idles
  <2>2. SpinnerIsStopped'
    BY <1>1, <1>3, <2>1 DEF SpinnerIsStopped
  <2>3. Newest' /\ SettledIsSelected'
    BY <1>1, <1>3, <2>1 DEF Newest, SettledIsSelected
  <2>4. NeverAnothers'
    BY <1>1, <1>2, <1>3, <2>1, PolicyFacts, Blanks DEF Sound, NeverAnothers
  <2> QED
    BY <1>1, <1>2, <1>3, <2>1, <2>2, <2>3, <2>4, DisarmedTyped, Blanks DEF Loaded
<1>4. CASE k # Nobody /\ Hits(k)
  <2>1. panel.guard = "gen" /\ calls' = Disarmed /\ busy' = FALSE /\ current' = current
    BY <1>4 DEF Hits
  <2>2. k \in Keys
    BY <1>4 DEF Key
  <2>3. shown' \in Content
    BY <1>2, <1>4, <2>2 DEF Hits, Content, Key
  <2>4. Loaded'
    BY <1>1, <2>1 DEF Loaded, Newest, SettledIsSelected, NeverAnothers, SpinnerIsStopped
  <2> QED
    BY <1>1, <1>2, <2>1, <2>3, <2>4, DisarmedTyped
<1>5. CASE k # Nobody /\ panel.follows /\ cache[k] = {} /\ Loads(k)
  <2>1. k \in Keys
    BY <1>5 DEF Key
  <2> QED
    BY <1>1, <1>5, <2>1, LoadsKeep
<1>6. CASE k # Nobody /\ ~ panel.follows /\ UNCHANGED <<shown, busy, calls, current>>
  <2>1. panel.guard # "live" /\ panel.idle = "never"
    BY <1>2, <1>6, PolicyFacts DEF Sound
  <2>2. busy => sel # Nobody
    BY <2>1 DEF IInv
  <2>3. SpinnerIsStopped'
    BY <1>1, <1>6, <2>2 DEF IInv, SpinnerIsStopped, Pending, Counts
  <2>4. Loaded'
    BY <1>1, <1>6, <2>1, <2>3 DEF Loaded, Newest, SettledIsSelected, NeverAnothers
  <2> QED
    BY <1>1, <1>2, <1>6, <2>4
<1> QED
  BY <1>3, <1>4, <1>5, <1>6 DEF Select

\* A load that ends, and counts or does not.
LEMMA EndsKeep ==
    ASSUME IInv, NEW i \in Calls, Late(i) \/ Answers(i) \/ Fails(i)
    PROVE  /\ Loaded' /\ panel' = panel /\ sel' = sel /\ current' = current
           /\ calls' \in [Calls -> Load] /\ shown' \in Content /\ cache' \in [Keys -> SUBSET Values]
<1>1. /\ panel' = panel /\ sel' = sel /\ current' = current /\ calls[i].pc = "asked"
  BY DEF Late, Answers, Fails, Ends
<1>2. PICK p \in {"done", "failed"} : calls' = [calls EXCEPT ![i].pc = p] /\ (Fails(i) => p = "failed") /\ (~ Fails(i) => p = "done")
  <2>1. CASE Fails(i)
    BY <2>1 DEF Fails, Ends
  <2>2. CASE ~ Fails(i)
    BY <2>2 DEF Late, Answers, Ends
  <2> QED
    BY <2>1, <2>2
<1>3. /\ panel \in Policies /\ shown \in Content /\ calls \in [Calls -> Load] /\ current \in 0 .. MaxCalls
      /\ cache \in [Keys -> SUBSET Values] /\ sel \in Key /\ calls[i] \in Load /\ Something \in Values /\ i # 0
  BY PanelsAssumption DEF IInv, Typed, Something, Calls
<1>4. /\ calls' \in [Calls -> Load] /\ calls'[i].key = calls[i].key /\ calls'[i].pc = p
      /\ \A j \in Calls : j # i => calls'[j] = calls[j]
  BY <1>2, <1>3 DEF Load
<1>5. panel.guard = "live" /\ current # 0 => current \in Calls
  BY <1>3 DEF Calls
<1>6. CASE Late(i)
  <2>1. ~ Counts(i) /\ UNCHANGED <<shown, busy, cache>>
    BY <1>6 DEF Late
  <2>2. i # current
    BY <2>1 DEF Counts
  <2>3. SpinnerIsStopped'
    <3>1. ASSUME NEW j \in Pending, Counts(j) PROVE j \in Pending' /\ Counts(j)'
      BY <1>1, <1>4, <2>1, <3>1 DEF Pending, Counts
    <3> QED
      BY <1>1, <2>1, <3>1 DEF IInv, SpinnerIsStopped
  <2>4. Newest' /\ SettledIsSelected' /\ NeverAnothers'
    BY <1>1, <1>4, <1>5, <2>1, <2>2 DEF IInv, Newest, SettledIsSelected, NeverAnothers
  <2> QED
    BY <1>1, <1>3, <1>4, <2>1, <2>3, <2>4 DEF IInv, Loaded
<1>7. CASE Answers(i) /\ ~ Late(i)
  <2>1. Counts(i) /\ busy' = FALSE
    BY <1>7 DEF Answers, Lowers
  <2>2. PICK v \in Values :
           /\ shown' = [of |-> calls[i].key, what |-> v]
           /\ cache' = IF panel.guard = "gen" THEN [cache EXCEPT ![calls[i].key] = {v}] ELSE cache
    BY <1>3, <1>7 DEF Answers
  <2>3. shown' \in Content /\ shown'.of = calls[i].key /\ cache' \in [Keys -> SUBSET Values]
    BY <1>3, <2>2 DEF Content, Load
  <2>4. panel.guard = "live" => i = current
    BY <2>1 DEF Counts
  <2>5. ~ Fails(i)
    <3>1. calls' = [calls EXCEPT ![i].pc = "done"]
      BY <1>7 DEF Answers, Ends
    <3>2. p = "done"
      BY <1>3, <1>4, <3>1 DEF Load
    <3> QED
      BY <1>2, <3>2
  <2>6. Newest' /\ SettledIsSelected' /\ NeverAnothers'
    BY <1>1, <1>2, <1>3, <1>4, <2>3, <2>4, <2>5 DEF IInv, Newest, SettledIsSelected, NeverAnothers
  <2>7. SpinnerIsStopped'
    BY <2>1 DEF SpinnerIsStopped
  <2> QED
    BY <1>1, <1>4, <2>1, <2>3, <2>6, <2>7 DEF Loaded
<1>8. CASE Fails(i) /\ ~ Late(i)
  <2>1. Counts(i) /\ busy' = FALSE /\ cache' = cache
    BY <1>8 DEF Fails, Lowers
  <2>2. PICK how \in panel.fails : shown' = IF how = "drop" THEN Blank ELSE shown
    BY <1>8 DEF Fails, Left
  <2>3. panel.fails \subseteq {"drop", "keep"}
    BY <1>3, PolicyFacts DEF Sound
  <2>4. shown' \in {Blank, shown} /\ ("keep" \notin panel.fails => shown' = Blank) /\ shown' \in Content
    BY <1>3, <2>2, <2>3, Blanks
  <2>5. panel.guard = "live" => i = current
    BY <2>1 DEF Counts
  <2>6. panel.guard = "live" /\ panel.resets => shown' = Blank
    BY <1>1, <1>3, <2>4, <2>5 DEF IInv, Newest
  <2>7. Newest' /\ SettledIsSelected' /\ NeverAnothers'
    BY <1>1, <1>2, <1>3, <1>4, <1>8, <2>4, <2>5, <2>6, Blanks DEF IInv, Newest, SettledIsSelected, NeverAnothers
  <2>8. SpinnerIsStopped'
    BY <2>1 DEF SpinnerIsStopped
  <2> QED
    BY <1>1, <1>3, <1>4, <2>1, <2>4, <2>7, <2>8 DEF Loaded
<1> QED
  BY <1>6, <1>7, <1>8

LEMMA FiresKeep ==
    ASSUME IInv, NEW i \in Calls, Fires(i)
    PROVE  Loaded' /\ calls' \in [Calls -> Load] /\ UNCHANGED <<panel, sel, shown, busy, current, cache>>
<1>1. calls[i].pc = "armed" /\ calls' = [calls EXCEPT ![i].pc = "asked"] /\ UNCHANGED <<panel, sel, shown, busy, current, cache>>
  BY DEF Fires
<1>2. /\ calls' \in [Calls -> Load] /\ \A j \in Calls : calls'[j].key = calls[j].key /\ (j # i => calls'[j] = calls[j])
      /\ calls'[i].pc = "asked" /\ current \in 0 .. MaxCalls
  BY <1>1 DEF IInv, Typed, Load
<1>3. current # 0 => current \in Calls
  BY <1>2 DEF Calls
<1>4. SpinnerIsStopped'
  <2>1. ASSUME NEW j \in Pending, Counts(j) PROVE j \in Pending' /\ Counts(j)'
    BY <1>1, <1>2, <2>1 DEF Pending, Counts
  <2> QED
    BY <1>1, <2>1 DEF IInv, SpinnerIsStopped
<1>5. Newest' /\ SettledIsSelected' /\ NeverAnothers'
  BY <1>1, <1>2, <1>3 DEF IInv, Newest, SettledIsSelected, NeverAnothers
<1> QED
  BY <1>1, <1>2, <1>4, <1>5 DEF IInv, Loaded

LEMMA PanelsKeep ==
    ASSUME IInv, PanelsNext
    PROVE  /\ Loaded' /\ panel' \in Policies /\ sel' \in Key /\ shown' \in Content
           /\ calls' \in [Calls -> Load] /\ current' \in 0 .. MaxCalls /\ cache' \in [Keys -> SUBSET Values]
<1>1. panel \in Policies /\ sel \in Key /\ shown \in Content /\ calls \in [Calls -> Load]
      /\ current \in 0 .. MaxCalls /\ cache \in [Keys -> SUBSET Values]
  BY DEF IInv, Typed
<1>2. CASE \E k \in Key : Select(k)
  BY <1>1, <1>2, SelectKeeps
<1>3. CASE Again
  <2>1. sel \in Keys /\ Loads(sel) /\ sel' = sel /\ panel' = panel /\ cache' = cache
    BY <1>1, <1>3 DEF Again, Key
  <2> QED
    BY <1>1, <2>1, LoadsKeep
<1>4. CASE \E i \in Calls : Fires(i)
  BY <1>1, <1>4, FiresKeep
<1>5. CASE \E i \in Calls : Late(i) \/ Answers(i) \/ Fails(i)
  BY <1>1, <1>5, EndsKeep
<1>6. CASE \E k \in Keys : Expires(k)
  <2>1. UNCHANGED <<panel, sel, shown, busy, calls, current>> /\ cache' \in [Keys -> SUBSET Values]
    BY <1>1, <1>6 DEF Expires
  <2>2. Loaded'
    BY <2>1 DEF IInv, Loaded, Newest, SettledIsSelected, NeverAnothers, SpinnerIsStopped, Pending, Counts
  <2> QED
    BY <1>1, <2>1, <2>2
<1> QED
  BY <1>2, <1>3, <1>4, <1>5, <1>6 DEF PanelsNext, Key

LEMMA StillKeeps ==
    ASSUME IInv, UNCHANGED panelVars PROVE Loaded'
BY DEF panelVars, IInv, Loaded, Newest, SettledIsSelected, NeverAnothers, SpinnerIsStopped, Pending, Counts

LEMMA NextInv == IInv /\ [DiscoveryNext]_<<radarVars, search>> => IInv'
<1> SUFFICES ASSUME IInv, [DiscoveryNext]_<<radarVars, search>> PROVE IInv'
  OBVIOUS
<1>1. CASE PanelsNext /\ Follows
  <2>1. here' \in Content
    BY <1>1, Blanks DEF Follows, IInv, Typed
  <2> QED
    BY <1>1, <2>1, PanelsKeep DEF IInv, Typed, Loaded
<1>2. CASE Lands
  <2>1. here' \in Content /\ UNCHANGED panelVars
    BY <1>2, Blanks DEF Lands, IInv, Typed, Content
  <2>2. Loaded'
    BY <2>1, StillKeeps
  <2>3. Typed'
    BY <2>1 DEF IInv, Typed, panelVars
  <2> QED
    BY <2>2, <2>3 DEF IInv, Loaded
<1>3. CASE UNCHANGED radarVars
  <2>1. here' = here /\ UNCHANGED panelVars
    BY <1>3 DEF radarVars
  <2>2. Loaded'
    BY <2>1, StillKeeps
  <2>3. Typed'
    BY <2>1 DEF IInv, Typed, panelVars
  <2> QED
    BY <2>2, <2>3 DEF IInv, Loaded
<1> QED
  BY <1>1, <1>2, <1>3 DEF DiscoveryNext, RadarNext

-----------------------------------------------------------------------------
(***************************************************************************)
(* For any quotes here and there: where the card says that the whole trade *)
(* fills on the other chain it does but for dust and at no loss beyond it, *)
(* and whoever follows the card is not sent back for the same reason       *)
(* (crossChain.ts:93-234).                                                 *)
(***************************************************************************)
THEOREM AdviceIsSound == DiscoverySpec => []AdviceHolds
BY InitInv, NextInv, Advised, PTL DEF DiscoverySpec

(***************************************************************************)
(* A spinner of any of the panels is left to a load under way that will    *)
(* stop it, whatever order answers come in and however often the selection *)
(* changes.                                                                *)
(***************************************************************************)
THEOREM SpinnersAreStopped == DiscoverySpec => []SpinnerIsStopped
<1>1. IInv => SpinnerIsStopped
  BY DEF IInv
<1> QED
  BY <1>1, InitInv, NextInv, PTL DEF DiscoverySpec

(***************************************************************************)
(* A guarded panel settles on what is selected, and one that clears itself *)
(* never shows another selection's content (Portfolio.tsx:139-164,         *)
(* Desk.tsx:379-452).                                                      *)
(***************************************************************************)
THEOREM PanelsSettle == DiscoverySpec => [](SettledIsSelected /\ NeverAnothers)
<1>1. IInv => SettledIsSelected /\ NeverAnothers
  BY DEF IInv
<1> QED
  BY <1>1, InitInv, NextInv, PTL DEF DiscoverySpec

-----------------------------------------------------------------------------
(* The search for subgraphs.                                                *)

Stage == {"off", "idle", "opening", "open", "loop", "broken", "timeout"}
Result == [hits : {0} \cup Deployments, error : BOOLEAN]
Asked == [what : Addresses \cup {Malformed}, pc : {"asked", "failed", "empty", "answered", "lost", "late"},
          hits : {0} \cup Deployments]
Loop == [at : Nat, awaits : Nat]
Search == [stage : Stage, covered : BOOLEAN, tokens : Seq(Addresses), sent : Seq(Asked), loops : Seq(Loop),
           results : [Addresses -> Result]]

\* In the search s the server said of a that it has n subgraphs.
SaidIn(s, a, n) ==
    \E id \in DOMAIN s.sent : s.sent[id].what = a /\ s.sent[id].pc \in {"answered", "empty"} /\ s.sent[id].hits = n

\* A token has been dealt with: it failed, or what is kept was said of it.
Passed(s, a) == s.results[a].error \/ SaidIn(s, a, s.results[a].hits)

\* What is found was said, whoever asked, and each loop has dealt with the tokens before
\* the one it is at.  No two loops wait for the same number.
Sorted(s) ==
    /\ \A i, j \in DOMAIN s.tokens : s.tokens[i] = s.tokens[j] => i = j
    /\ \A a \in Addresses : s.results[a].hits > 0 => SaidIn(s, a, s.results[a].hits)
    /\ \A l \in DOMAIN s.loops :
          /\ s.loops[l].at \in 0 .. Len(s.tokens) /\ s.loops[l].awaits \in DOMAIN s.sent
          /\ \A k \in DOMAIN s.tokens : k < s.loops[l].at => Passed(s, s.tokens[k])
    /\ \A l, m \in DOMAIN s.loops : s.loops[l].awaits = s.loops[m].awaits => l = m

\* Loop l waits for the answer to what it asked last.
Waits(s, l) ==
    /\ s.sent[s.loops[l].awaits].pc = "asked"
    /\ s.sent[s.loops[l].awaits].what = IF s.loops[l].at = 0 THEN Malformed ELSE s.tokens[s.loops[l].at]

\* With one loop the requests are the greeting and the tokens in their order, so that
\* nothing is asked twice.
OneLoop(s) ==
    s.stage \in {"open", "loop"} /\ Len(s.loops) = 1 =>
        /\ s.loops[1].awaits = Len(s.sent) /\ Len(s.sent) = s.loops[1].at + 1
        /\ \A i \in DOMAIN s.sent :
              /\ s.sent[i].what = IF i = 1 THEN Malformed ELSE s.tokens[i - 1]
              /\ i # 1 /\ s.sent[i].pc = "answered" =>
                    s.results[s.sent[i].what].hits = s.sent[i].hits /\ ~ s.results[s.sent[i].what].error

\* All loops but those in L wait, and nobody else has asked.
AllWait(s, L) ==
    /\ \A l \in DOMAIN s.loops \ L : Waits(s, l)
    /\ \A i \in DOMAIN s.sent : s.sent[i].pc = "asked" => \E l \in DOMAIN s.loops \ L : s.loops[l].awaits = i

\* The answer given is what was said.
Honest(s) ==
    \A a \in Wanted(s) : ~ s.results[a].error => ~ s.covered \/ SaidIn(s, a, s.results[a].hits)

\* Loop l has what it waited for, and the token it is at is dealt with.
Served(s, l) ==
    /\ s \in Search /\ s.stage = "open" /\ l \in DOMAIN s.loops
    /\ Sorted(s) /\ OneLoop(s) /\ AllWait(s, {l}) /\ s.loops # <<>>
    /\ s.loops[l].at > 0 => Passed(s, s.tokens[s.loops[l].at])

SearchInv(s) ==
    /\ s \in Search /\ Sorted(s) /\ OneLoop(s)
    /\ s.stage = "open" => AllWait(s, {})
    /\ s.stage \in {"off", "idle", "opening"} => s.loops = <<>>
    /\ s.loops = <<>> => s.sent = <<>>
    /\ s.stage \in {"loop", "broken", "timeout"} => Honest(s)

-----------------------------------------------------------------------------
(* The parts of a search after a step.                                      *)

LEMMA SeqParts ==
    ASSUME NEW s \in Search
    PROVE  /\ Len(s.tokens) \in Nat /\ DOMAIN s.tokens = 1 .. Len(s.tokens)
           /\ Len(s.sent) \in Nat /\ DOMAIN s.sent = 1 .. Len(s.sent)
           /\ Len(s.loops) \in Nat /\ DOMAIN s.loops = 1 .. Len(s.loops)
           /\ \A i \in DOMAIN s.tokens : s.tokens[i] \in Addresses
           /\ \A i \in DOMAIN s.sent : s.sent[i] \in Asked
           /\ \A l \in DOMAIN s.loops : s.loops[l] \in Loop
           /\ \A a \in Addresses : s.results[a] \in Result
           /\ Wanted(s) \subseteq Addresses
BY DEF Search, Wanted

LEMMA ToldIs ==
    ASSUME NEW s \in Search, NEW why \in Stage, NEW failed
    PROVE  LET t == Told(s, why, failed) IN
           /\ t \in Search /\ t.stage = why
           /\ t.covered = s.covered /\ t.tokens = s.tokens /\ t.sent = s.sent /\ t.loops = s.loops
           /\ \A a \in Addresses : /\ t.results[a].hits = s.results[a].hits
                                   /\ t.results[a].error <=> s.results[a].error \/ a \in failed
<1> DEFINE new == [a \in Addresses |-> IF a \in failed THEN [s.results[a] EXCEPT !.error = TRUE] ELSE s.results[a]]
<1>1. s.results \in [Addresses -> Result]
  BY DEF Search
<1>2. new \in [Addresses -> Result]
  BY <1>1 DEF Result
<1>3. \A a \in Addresses : /\ new[a].hits = s.results[a].hits
                           /\ new[a].error <=> s.results[a].error \/ a \in failed
  BY <1>1 DEF Result
<1>4. Told(s, why, failed) = [s EXCEPT !.stage = why, !.results = new]
  BY <1>1 DEF Told, Search
<1> HIDE DEF new
<1> QED
  BY <1>2, <1>3, <1>4 DEF Search

\* What a message leaves of the request it settles.
Heard(s, id, pc, hits) == [s EXCEPT !.sent[id].pc = pc, !.sent[id].hits = hits]

LEMMA HeardAs ==
    ASSUME NEW s \in Search, NEW id \in DOMAIN s.sent, NEW hits, NEW pc
    PROVE  Heard(s, id, pc, hits) =
               [s EXCEPT !.sent = [s.sent EXCEPT ![id] = [what |-> s.sent[id].what, pc |-> pc, hits |-> hits]]]
<1>1. s.sent \in Seq(Asked) /\ s.sent[id] \in Asked
  BY DEF Search
<1>2. [s.sent EXCEPT ![id].pc = pc, ![id].hits = hits] =
          [s.sent EXCEPT ![id] = [what |-> s.sent[id].what, pc |-> pc, hits |-> hits]]
  BY <1>1 DEF Asked
<1> QED
  BY <1>2 DEF Heard, Search

LEMMA HeardIs ==
    ASSUME NEW s \in Search, NEW id \in DOMAIN s.sent, NEW hits \in {0} \cup Deployments,
           NEW pc \in {"failed", "empty", "answered", "lost", "late"}
    PROVE  LET t == Heard(s, id, pc, hits) IN
           /\ t \in Search /\ t.stage = s.stage
           /\ t.covered = s.covered /\ t.tokens = s.tokens /\ t.loops = s.loops /\ t.results = s.results
           /\ DOMAIN t.sent = DOMAIN s.sent /\ Len(t.sent) = Len(s.sent)
           /\ t.sent[id].what = s.sent[id].what /\ t.sent[id].pc = pc /\ t.sent[id].hits = hits
           /\ \A i \in DOMAIN s.sent : i # id => t.sent[i] = s.sent[i]
<1> DEFINE r == [what |-> s.sent[id].what, pc |-> pc, hits |-> hits]
           new == [s.sent EXCEPT ![id] = r]
<1>1. s.sent \in Seq(Asked) /\ s.sent[id] \in Asked
  BY DEF Search
<1>2. r \in Asked
  BY <1>1 DEF Asked
<1>3. new \in Seq(Asked) /\ DOMAIN new = DOMAIN s.sent /\ Len(new) = Len(s.sent)
  BY <1>1, <1>2
<1>4. new[id] = r /\ \A i \in DOMAIN s.sent : i # id => new[i] = s.sent[i]
  BY <1>1
<1>5. Heard(s, id, pc, hits) = [s EXCEPT !.sent = new]
  BY HeardAs
<1>6. r.what = s.sent[id].what /\ r.pc = pc /\ r.hits = hits
  OBVIOUS
<1> HIDE DEF new, r
<1>7. LET t == [s EXCEPT !.sent = new] IN
      /\ t \in Search /\ t.stage = s.stage /\ t.sent = new
      /\ t.covered = s.covered /\ t.tokens = s.tokens /\ t.loops = s.loops /\ t.results = s.results
  BY <1>3 DEF Search
<1> QED
  BY <1>3, <1>4, <1>5, <1>6, <1>7

\* What it is called last counts.
LEMMA HeardTwice ==
    ASSUME NEW s \in Search, NEW id \in DOMAIN s.sent, NEW hits \in {0} \cup Deployments,
           NEW pc \in {"failed", "empty", "answered", "lost", "late"}, NEW last
    PROVE  Heard(Heard(s, id, pc, hits), id, last, hits) = Heard(s, id, last, hits)
<1> DEFINE t == Heard(s, id, pc, hits)
           r == [what |-> s.sent[id].what, pc |-> pc, hits |-> hits]
           q == [what |-> s.sent[id].what, pc |-> last, hits |-> hits]
<1>1. t = [s EXCEPT !.sent = [s.sent EXCEPT ![id] = r]]
  BY HeardAs
<1>2. t \in Search /\ id \in DOMAIN t.sent /\ t.sent[id].what = s.sent[id].what
  BY HeardIs
<1> HIDE DEF t
<1>3. Heard(t, id, last, hits) = [t EXCEPT !.sent = [t.sent EXCEPT ![id] = q]]
  BY <1>2, HeardAs
<1>4. Heard(s, id, last, hits) = [s EXCEPT !.sent = [s.sent EXCEPT ![id] = q]]
  BY HeardAs
<1> HIDE DEF r, q
<1>5. [t.sent EXCEPT ![id] = q] = [s.sent EXCEPT ![id] = q]
  BY <1>1 DEF Search
<1>6. [t EXCEPT !.sent = [s.sent EXCEPT ![id] = q]] = [s EXCEPT !.sent = [s.sent EXCEPT ![id] = q]]
  BY <1>1 DEF Search
<1> QED
  BY <1>3, <1>4, <1>5, <1>6 DEF t

LEMMA SendIs ==
    ASSUME NEW s \in Search, NEW l \in DOMAIN s.loops, NEW what \in Addresses \cup {Malformed},
           NEW t, t = sendRpc(s, l, what)
    PROVE  /\ t \in Search /\ t.stage = s.stage
           /\ t.covered = s.covered /\ t.tokens = s.tokens /\ t.results = s.results
           /\ Len(t.sent) = Len(s.sent) + 1 /\ DOMAIN t.sent = 1 .. Len(s.sent) + 1
           /\ t.sent[Len(s.sent) + 1].what = what /\ t.sent[Len(s.sent) + 1].pc = "asked"
           /\ \A i \in DOMAIN s.sent : t.sent[i] = s.sent[i]
           /\ DOMAIN t.loops = DOMAIN s.loops /\ Len(t.loops) = Len(s.loops)
           /\ t.loops[l].at = s.loops[l].at /\ t.loops[l].awaits = Len(s.sent) + 1
           /\ \A m \in DOMAIN s.loops : m # l => t.loops[m] = s.loops[m]
<1> DEFINE r == [what |-> what, pc |-> "asked", hits |-> 0]
           sent == Append(s.sent, r)
           loops == [s.loops EXCEPT ![l].awaits = Len(s.sent) + 1]
<1>1. s.sent \in Seq(Asked) /\ s.loops \in Seq(Loop) /\ Len(s.sent) \in Nat /\ s.loops[l] \in Loop
  BY DEF Search
<1>2. r \in Asked
  BY DEF Asked
<1>3. /\ sent \in Seq(Asked) /\ Len(sent) = Len(s.sent) + 1 /\ DOMAIN sent = 1 .. Len(s.sent) + 1
      /\ sent[Len(s.sent) + 1] = r /\ \A i \in DOMAIN s.sent : sent[i] = s.sent[i]
  BY <1>1, <1>2
<1>4. /\ loops \in Seq(Loop) /\ DOMAIN loops = DOMAIN s.loops /\ Len(loops) = Len(s.loops)
      /\ loops[l].at = s.loops[l].at /\ loops[l].awaits = Len(s.sent) + 1
      /\ \A m \in DOMAIN s.loops : m # l => loops[m] = s.loops[m]
  <2>3. Len(s.sent) + 1 \in Nat
    BY <1>1
  <2>1. [s.loops[l] EXCEPT !.awaits = Len(s.sent) + 1] \in Loop
    BY <1>1, <2>3 DEF Loop
  <2>2. loops = [s.loops EXCEPT ![l] = [s.loops[l] EXCEPT !.awaits = Len(s.sent) + 1]]
    BY <1>1 DEF Loop
  <2> QED
    BY <1>1, <2>1, <2>2 DEF Loop
<1>5. sendRpc(s, l, what) = [s EXCEPT !.sent = sent, !.loops = loops]
  BY DEF sendRpc, Search
<1>6. r.what = what /\ r.pc = "asked"
  OBVIOUS
<1> HIDE DEF sent, loops, r
<1>7. t = [s EXCEPT !.sent = sent, !.loops = loops]
  BY <1>5
<1>8. /\ t \in Search /\ t.stage = s.stage /\ t.sent = sent /\ t.loops = loops
      /\ t.covered = s.covered /\ t.tokens = s.tokens /\ t.results = s.results
  BY <1>3, <1>4, <1>7 DEF Search
<1> QED
  BY <1>3, <1>4, <1>6, <1>8

-----------------------------------------------------------------------------
(* Answering, and turning to the next token.                                *)

LEMMA SaidStays ==
    ASSUME NEW s, NEW t, NEW a, NEW n, SaidIn(s, a, n), DOMAIN s.sent \subseteq DOMAIN t.sent,
           \A i \in DOMAIN s.sent : s.sent[i].pc \in {"answered", "empty"} => t.sent[i] = s.sent[i]
    PROVE  SaidIn(t, a, n)
BY DEF SaidIn

\* The requests and the loops are left as they are, the answer is given.
LEMMA ToldKeeps ==
    ASSUME NEW s \in Search, NEW why \in {"loop", "broken", "timeout"}, NEW failed, Sorted(s),
           s.loops = <<>> => s.sent = <<>>,
           why = "loop" => failed = {} /\ (Len(s.loops) = 1 => s.stage = "open" /\ OneLoop(s)),
           \A a \in Wanted(s) : ~ s.results[a].error /\ a \notin failed => ~ s.covered \/ SaidIn(s, a, s.results[a].hits)
    PROVE  SearchInv(Told(s, why, failed)) /\ Told(s, why, failed).sent = s.sent
<1> DEFINE t == Told(s, why, failed)
<1>1. /\ t \in Search /\ t.stage = why
      /\ t.covered = s.covered /\ t.tokens = s.tokens /\ t.sent = s.sent /\ t.loops = s.loops
      /\ \A a \in Addresses : /\ t.results[a].hits = s.results[a].hits
                              /\ t.results[a].error <=> s.results[a].error \/ a \in failed
  BY ToldIs DEF Stage
<1> HIDE DEF t
<1>2. \A a, n : SaidIn(t, a, n) <=> SaidIn(s, a, n)
  BY <1>1 DEF SaidIn
<1>3. Wanted(t) = Wanted(s) /\ Wanted(s) \subseteq Addresses
  BY <1>1, SeqParts DEF Wanted
<1>4. \A i \in DOMAIN s.tokens : s.tokens[i] \in Addresses
  BY SeqParts
<1>5. \A a \in Addresses : Passed(s, a) => Passed(t, a)
  BY <1>1, <1>2 DEF Passed
<1>6. Sorted(t)
  BY <1>1, <1>2, <1>4, <1>5 DEF Sorted
<1>7. Honest(t)
  BY <1>1, <1>2, <1>3 DEF Honest
<1>8. OneLoop(t)
  <2>1. SUFFICES ASSUME why = "loop", Len(s.loops) = 1 PROVE OneLoop(t)
    BY <1>1 DEF OneLoop
  <2>2. s.stage = "open" /\ OneLoop(s) /\ failed = {}
    BY <2>1
  <2>3. \A a \in Addresses : t.results[a].hits = s.results[a].hits /\ (t.results[a].error <=> s.results[a].error)
    BY <1>1, <2>2
  <2>4. ASSUME NEW i \in DOMAIN s.sent
        PROVE  /\ s.sent[i].what = IF i = 1 THEN Malformed ELSE s.tokens[i - 1]
               /\ i # 1 /\ s.sent[i].pc = "answered" =>
                     t.results[s.sent[i].what].hits = s.sent[i].hits /\ ~ t.results[s.sent[i].what].error
    <3>1. s.loops[1].at \in 0 .. Len(s.tokens) /\ Len(s.sent) = s.loops[1].at + 1
      BY <2>1, <2>2, SeqParts, SMTT(20) DEF OneLoop, Sorted
    <3>2. i # 1 => s.tokens[i - 1] \in Addresses
      BY <3>1, SeqParts
    <3> QED
      BY <2>1, <2>2, <2>3, <3>2, SMTT(20) DEF OneLoop
  <2>5. s.loops[1].awaits = Len(s.sent) /\ Len(s.sent) = s.loops[1].at + 1
    BY <2>1, <2>2 DEF OneLoop
  <2>6. \A i \in DOMAIN t.sent :
           /\ t.sent[i].what = IF i = 1 THEN Malformed ELSE t.tokens[i - 1]
           /\ i # 1 /\ t.sent[i].pc = "answered" =>
                 t.results[t.sent[i].what].hits = t.sent[i].hits /\ ~ t.results[t.sent[i].what].error
    BY <1>1, <2>4
  <2> QED
    BY <1>1, <2>5, <2>6 DEF OneLoop
<1> QED
  BY <1>1, <1>6, <1>7, <1>8 DEF SearchInv, t

LEMMA TurnsKeep ==
    ASSUME NEW s, NEW l, Served(s, l)
    PROVE  LET t == Turns(s, l) IN
           /\ SearchInv(t)
           /\ \A i \in DOMAIN s.sent : i \in DOMAIN t.sent /\ t.sent[i] = s.sent[i]
<1> DEFINE n == s.loops[l].at + 1
<1>1. s \in Search /\ s.stage = "open" /\ l \in DOMAIN s.loops /\ Sorted(s) /\ s.loops # <<>>
  BY DEF Served
<1>2. /\ Len(s.tokens) \in Nat /\ DOMAIN s.tokens = 1 .. Len(s.tokens)
      /\ Len(s.sent) \in Nat /\ DOMAIN s.sent = 1 .. Len(s.sent)
      /\ Len(s.loops) \in Nat /\ DOMAIN s.loops = 1 .. Len(s.loops)
      /\ \A i \in DOMAIN s.tokens : s.tokens[i] \in Addresses
      /\ s.loops[l] \in Loop
  BY <1>1, SeqParts
<1>3. /\ s.loops[l].at \in 0 .. Len(s.tokens) /\ n \in 1 .. Len(s.tokens) + 1
  BY <1>1, <1>2 DEF Sorted
<1>4. \A k \in DOMAIN s.tokens : k < n => Passed(s, s.tokens[k])
  <2>1. \A k \in DOMAIN s.tokens : k < s.loops[l].at => Passed(s, s.tokens[k])
    BY <1>1 DEF Sorted
  <2>2. s.loops[l].at > 0 => Passed(s, s.tokens[s.loops[l].at])
    BY DEF Served
  <2>3. \A k \in DOMAIN s.tokens : k < n => k < s.loops[l].at \/ (k = s.loops[l].at /\ s.loops[l].at > 0)
    BY <1>2, <1>3
  <2> QED
    BY <2>1, <2>2, <2>3
<1>5. CASE n > Len(s.tokens)
  <2>1. Turns(s, l) = Told(s, "loop", {})
    BY <1>5 DEF Turns
  <2>2. \A a \in Wanted(s) : ~ s.results[a].error => SaidIn(s, a, s.results[a].hits)
    <3>1. \A k \in DOMAIN s.tokens : k < n
      BY <1>2, <1>3, <1>5
    <3>2. \A k \in DOMAIN s.tokens : Passed(s, s.tokens[k])
      BY <1>4, <3>1
    <3> QED
      BY <3>2 DEF Wanted, Passed
  <2>3. OneLoop(s)
    BY DEF Served
  <2>4. SearchInv(Told(s, "loop", {})) /\ Told(s, "loop", {}).sent = s.sent
    BY <1>1, <2>2, <2>3, ToldKeeps
  <2> QED
    BY <2>1, <2>4
<1>6. CASE ~ (n > Len(s.tokens))
  <2> DEFINE u == [s EXCEPT !.loops[l].at = n]
             what == s.tokens[n]
             t == sendRpc(u, l, what)
  <2>1. Turns(s, l) = t
    BY <1>6 DEF Turns
  <2>2. /\ u \in Search /\ u.stage = s.stage
        /\ u.covered = s.covered /\ u.tokens = s.tokens /\ u.sent = s.sent /\ u.results = s.results
        /\ DOMAIN u.loops = DOMAIN s.loops /\ Len(u.loops) = Len(s.loops)
        /\ u.loops[l].at = n /\ \A m \in DOMAIN s.loops : m # l => u.loops[m] = s.loops[m]
    <3> DEFINE loops == [s.loops EXCEPT ![l].at = n]
    <3>1. s.loops \in Seq(Loop)
      BY <1>1 DEF Search
    <3>2. [s.loops[l] EXCEPT !.at = n] \in Loop
      BY <1>2, <1>3 DEF Loop
    <3>3. loops = [s.loops EXCEPT ![l] = [s.loops[l] EXCEPT !.at = n]]
      BY <1>1, <1>2, <3>1 DEF Loop
    <3>7. [s.loops[l] EXCEPT !.at = n].at = n
      BY <1>2 DEF Loop
    <3>4. /\ loops \in Seq(Loop) /\ DOMAIN loops = DOMAIN s.loops /\ Len(loops) = Len(s.loops)
          /\ loops[l].at = n /\ \A m \in DOMAIN s.loops : m # l => loops[m] = s.loops[m]
      <4> DEFINE new == [s.loops[l] EXCEPT !.at = n]
      <4>1. new \in Loop /\ new.at = n /\ loops = [s.loops EXCEPT ![l] = new]
        BY <3>2, <3>3, <3>7
      <4> HIDE DEF new, loops, n
      <4> QED
        BY <1>1, <3>1, <4>1
    <3>5. u = [s EXCEPT !.loops = loops]
      BY <1>1 DEF Search
    <3> HIDE DEF loops
    <3>6. LET v == [s EXCEPT !.loops = loops] IN
          /\ v \in Search /\ v.stage = s.stage /\ v.loops = loops
          /\ v.covered = s.covered /\ v.tokens = s.tokens /\ v.sent = s.sent /\ v.results = s.results
      BY <1>1, <3>4 DEF Search
    <3> QED
      BY <3>4, <3>5, <3>6
  <2> HIDE DEF u
  <2>3. n \in DOMAIN s.tokens /\ what \in Addresses
    BY <1>2, <1>3, <1>6
  <2> HIDE DEF n, what
  <2>4. /\ t \in Search /\ t.stage = s.stage
        /\ t.covered = s.covered /\ t.tokens = s.tokens /\ t.results = s.results
        /\ Len(t.sent) = Len(s.sent) + 1 /\ DOMAIN t.sent = 1 .. Len(s.sent) + 1
        /\ t.sent[Len(s.sent) + 1].what = what /\ t.sent[Len(s.sent) + 1].pc = "asked"
        /\ \A i \in DOMAIN s.sent : t.sent[i] = s.sent[i]
        /\ DOMAIN t.loops = DOMAIN s.loops /\ Len(t.loops) = Len(s.loops)
        /\ t.loops[l].at = n /\ t.loops[l].awaits = Len(s.sent) + 1
        /\ \A m \in DOMAIN s.loops : m # l => t.loops[m] = s.loops[m]
    <3>1. l \in DOMAIN u.loops
      BY <1>1, <2>2
    <3>3. t = sendRpc(u, l, what)
      OBVIOUS
    <3> HIDE DEF t
    <3>4. u \in Search /\ what \in Addresses \cup {Malformed}
      BY <2>2, <2>3
    <3>5. t \in Search
      BY <3>1, <3>3, <3>4, SendIs
    <3>2. /\ t \in Search /\ t.stage = u.stage
          /\ t.covered = u.covered /\ t.tokens = u.tokens /\ t.results = u.results
          /\ Len(t.sent) = Len(u.sent) + 1 /\ DOMAIN t.sent = 1 .. Len(u.sent) + 1
          /\ t.sent[Len(u.sent) + 1].what = what /\ t.sent[Len(u.sent) + 1].pc = "asked"
          /\ \A i \in DOMAIN u.sent : t.sent[i] = u.sent[i]
          /\ DOMAIN t.loops = DOMAIN u.loops /\ Len(t.loops) = Len(u.loops)
          /\ t.loops[l].at = u.loops[l].at /\ t.loops[l].awaits = Len(u.sent) + 1
          /\ \A m \in DOMAIN u.loops : m # l => t.loops[m] = u.loops[m]
      BY <3>1, <3>3, <3>4, SendIs
    <3> QED
      BY <2>2, <3>2
  <2> HIDE DEF t
  <2>5. \A a, k : SaidIn(s, a, k) => SaidIn(t, a, k)
    BY <1>2, <2>4 DEF SaidIn
  <2>6. \A a \in Addresses : Passed(s, a) => Passed(t, a)
    BY <2>4, <2>5 DEF Passed
  <2>7. Sorted(t)
    <3>1. \A a \in Addresses : t.results[a].hits > 0 => SaidIn(t, a, t.results[a].hits)
      BY <1>1, <2>4, <2>5 DEF Sorted
    <3>2. ASSUME NEW m \in DOMAIN s.loops
          PROVE  /\ t.loops[m].at \in 0 .. Len(t.tokens) /\ t.loops[m].awaits \in DOMAIN t.sent
                 /\ \A k \in DOMAIN t.tokens : k < t.loops[m].at => Passed(t, t.tokens[k])
                 /\ m # l => t.loops[m].awaits \in DOMAIN s.sent
      <4>1. CASE m = l
        <5>1. \A k \in DOMAIN t.tokens : k < n => Passed(t, t.tokens[k])
          BY <1>2, <1>4, <2>4, <2>6
        <5>2. n \in 0 .. Len(t.tokens) /\ Len(s.sent) + 1 \in DOMAIN t.sent
          BY <1>2, <2>3, <2>4
        <5> QED
          BY <2>4, <4>1, <5>1, <5>2
      <4>2. CASE m # l
        <5>1. /\ s.loops[m].at \in 0 .. Len(s.tokens) /\ s.loops[m].awaits \in DOMAIN s.sent
              /\ \A k \in DOMAIN s.tokens : k < s.loops[m].at => Passed(s, s.tokens[k])
          BY <1>1 DEF Sorted
        <5> QED
          <6>1. t.loops[m] = s.loops[m]
            BY <2>4, <4>2
          <6>2. \A k \in DOMAIN t.tokens : k < s.loops[m].at => Passed(t, t.tokens[k])
            BY <1>2, <2>4, <2>6, <5>1
          <6>3. s.loops[m].awaits \in DOMAIN t.sent
            BY <1>2, <2>4, <5>1
          <6> QED
            BY <2>4, <5>1, <6>1, <6>2, <6>3
      <4> QED
        BY <4>1, <4>2
    <3>3. \A m, k \in DOMAIN t.loops : t.loops[m].awaits = t.loops[k].awaits => m = k
      <4>1. \A m \in DOMAIN s.loops : m # l => t.loops[m].awaits # Len(s.sent) + 1 /\ t.loops[m].awaits = s.loops[m].awaits
        BY <1>2, <2>4, <3>2
      <4>2. \A m, k \in DOMAIN s.loops : s.loops[m].awaits = s.loops[k].awaits => m = k
        BY <1>1 DEF Sorted
      <4> QED
        BY <2>4, <4>1, <4>2
    <3>4. \A i, j \in DOMAIN t.tokens : t.tokens[i] = t.tokens[j] => i = j
      BY <1>1, <2>4 DEF Sorted
    <3> QED
      BY <2>4, <3>1, <3>2, <3>3, <3>4 DEF Sorted
  <2>8. AllWait(t, {})
    <3>1. \A m \in DOMAIN s.loops : m # l => s.loops[m].awaits \in DOMAIN s.sent
      BY <1>1 DEF Sorted
    <3>2. ASSUME NEW m \in DOMAIN t.loops PROVE Waits(t, m)
      <4>1. CASE m = l
        <5>1. n # 0
          BY <1>3
        <5> QED
          BY <2>4, <4>1, <5>1 DEF Waits, what
      <4>2. CASE m # l
        <5>1. Waits(s, m)
          BY <2>4, <4>2 DEF Served, AllWait
        <5> QED
          <6>1. t.loops[m] = s.loops[m] /\ s.loops[m].awaits \in DOMAIN s.sent
            BY <2>4, <3>1, <4>2
          <6>2. t.sent[s.loops[m].awaits] = s.sent[s.loops[m].awaits]
            BY <2>4, <6>1
          <6> QED
            BY <2>4, <5>1, <6>1, <6>2 DEF Waits
      <4> QED
        BY <4>1, <4>2
    <3>3. ASSUME NEW i \in DOMAIN t.sent, t.sent[i].pc = "asked" PROVE \E m \in DOMAIN t.loops : t.loops[m].awaits = i
      <4>1. CASE i = Len(s.sent) + 1
        BY <1>1, <2>4, <4>1
      <4>2. CASE i # Len(s.sent) + 1
        <5>1. i \in DOMAIN s.sent /\ s.sent[i].pc = "asked"
          BY <1>2, <2>4, <3>3, <4>2
        <5>2. PICK m \in DOMAIN s.loops \ {l} : s.loops[m].awaits = i
          BY <5>1 DEF Served, AllWait
        <5> QED
          BY <2>4, <5>2
      <4> QED
        BY <4>1, <4>2
    <3> QED
      BY <3>2, <3>3 DEF AllWait
  <2>9. OneLoop(t)
    <3>1. SUFFICES ASSUME Len(s.loops) = 1 PROVE OneLoop(t)
      BY <2>4 DEF OneLoop
    <3>2. l = 1
      BY <1>1, <1>2, <3>1
    <3>3. /\ Len(s.sent) = s.loops[1].at + 1
          /\ \A i \in DOMAIN s.sent :
                /\ s.sent[i].what = IF i = 1 THEN Malformed ELSE s.tokens[i - 1]
                /\ i # 1 /\ s.sent[i].pc = "answered" =>
                      s.results[s.sent[i].what].hits = s.sent[i].hits /\ ~ s.results[s.sent[i].what].error
      BY <1>1, <3>1 DEF Served, OneLoop
    <3>4. n = Len(s.sent) /\ Len(s.sent) + 1 # 1 /\ (Len(s.sent) + 1) - 1 = n
      BY <1>2, <1>3, <3>2, <3>3 DEF n
    <3>5. ASSUME NEW i \in DOMAIN t.sent
          PROVE  /\ t.sent[i].what = IF i = 1 THEN Malformed ELSE t.tokens[i - 1]
                 /\ i # 1 /\ t.sent[i].pc = "answered" =>
                       t.results[t.sent[i].what].hits = t.sent[i].hits /\ ~ t.results[t.sent[i].what].error
      <4>1. CASE i = Len(s.sent) + 1
        BY <2>4, <3>4, <4>1 DEF what
      <4>2. CASE i # Len(s.sent) + 1
        <5>1. i \in DOMAIN s.sent
          BY <1>2, <2>4, <4>2
        <5>2. t.sent[i] = s.sent[i] /\ t.tokens = s.tokens /\ t.results = s.results
          BY <2>4, <5>1
        <5>3. /\ s.sent[i].what = IF i = 1 THEN Malformed ELSE s.tokens[i - 1]
              /\ i # 1 /\ s.sent[i].pc = "answered" =>
                    s.results[s.sent[i].what].hits = s.sent[i].hits /\ ~ s.results[s.sent[i].what].error
          BY <3>3, <5>1
        <5> HIDE DEF t
        <5> QED
          BY ONLY <5>2, <5>3, SMTT(20)
      <4> QED
        BY <4>1, <4>2
    <3> QED
      BY <2>4, <3>2, <3>4, <3>5 DEF OneLoop
  <2>10. SearchInv(t)
    <3>1. t.loops # <<>>
      BY <1>1, <2>4
    <3> QED
      BY <1>1, <2>4, <2>7, <2>8, <2>9, <3>1 DEF SearchInv
  <2> QED
    BY <1>2, <2>1, <2>4, <2>10
<1> QED
  BY <1>5, <1>6

-----------------------------------------------------------------------------
(* Messages.                                                                *)

\* Nothing that was said is lost by an answer to a request that had none.
LEMMA HeardSays ==
    ASSUME NEW s \in Search, NEW id \in DOMAIN s.sent, s.sent[id].pc \notin {"answered", "empty"},
           NEW w, DOMAIN w.sent = DOMAIN s.sent,
           \A i \in DOMAIN s.sent : i # id => w.sent[i] = s.sent[i]
    PROVE  \A a, n : SaidIn(s, a, n) => SaidIn(w, a, n)
BY DEF SaidIn

LEMMA LastIs ==
    ASSUME NEW i, NEW at \in Nat, i = at + 1 PROVE i # 1 => at > 0 /\ i - 1 = at
OBVIOUS

\* What a message that settles request id of loop l makes of the search: w.
Answered(s, l, id, w) ==
    /\ SearchInv(s) /\ s.stage = "open" /\ l \in DOMAIN s.loops
    /\ id \in DOMAIN s.sent /\ s.loops[l].awaits = id /\ s.sent[id].pc = "asked"
    /\ w \in Search /\ w.stage = "open" /\ w.tokens = s.tokens /\ w.loops = s.loops
    /\ DOMAIN w.sent = DOMAIN s.sent /\ Len(w.sent) = Len(s.sent)
    /\ w.sent[id].what = s.sent[id].what /\ w.sent[id].pc # "asked"
    /\ \A i \in DOMAIN s.sent : i # id => w.sent[i] = s.sent[i]
    /\ \A b \in Addresses : w.results[b] = s.results[b] \/ (s.loops[l].at > 0 /\ b = s.tokens[s.loops[l].at])
    /\ s.loops[l].at > 0 =>
           LET a == s.tokens[s.loops[l].at] IN
           /\ Passed(w, a) /\ (w.results[a].hits > 0 => SaidIn(w, a, w.results[a].hits))
           /\ w.sent[id].pc = "answered" => w.results[a].hits = w.sent[id].hits /\ ~ w.results[a].error

LEMMA AnsweredServes ==
    ASSUME NEW s, NEW l, NEW id, NEW w, Answered(s, l, id, w) PROVE Served(w, l)
<1> DEFINE at == s.loops[l].at
           a == s.tokens[at]
<1>1. /\ SearchInv(s) /\ s.stage = "open" /\ l \in DOMAIN s.loops
      /\ id \in DOMAIN s.sent /\ s.loops[l].awaits = id /\ s.sent[id].pc = "asked"
  BY DEF Answered
<1>2. /\ w \in Search /\ w.stage = "open" /\ w.tokens = s.tokens /\ w.loops = s.loops
      /\ DOMAIN w.sent = DOMAIN s.sent /\ Len(w.sent) = Len(s.sent)
      /\ w.sent[id].what = s.sent[id].what /\ w.sent[id].pc # "asked"
      /\ \A i \in DOMAIN s.sent : i # id => w.sent[i] = s.sent[i]
  BY DEF Answered
<1>3. \A b \in Addresses : w.results[b] = s.results[b] \/ (at > 0 /\ b = a)
  BY DEF Answered
<1>4. at > 0 => /\ Passed(w, a) /\ (w.results[a].hits > 0 => SaidIn(w, a, w.results[a].hits))
                /\ w.sent[id].pc = "answered" => w.results[a].hits = w.sent[id].hits /\ ~ w.results[a].error
  BY DEF Answered
<1>5. s \in Search /\ Sorted(s) /\ OneLoop(s) /\ AllWait(s, {})
  BY <1>1 DEF SearchInv
<1>6. /\ Len(s.tokens) \in Nat /\ DOMAIN s.tokens = 1 .. Len(s.tokens)
      /\ Len(s.sent) \in Nat /\ DOMAIN s.sent = 1 .. Len(s.sent)
      /\ Len(s.loops) \in Nat /\ DOMAIN s.loops = 1 .. Len(s.loops)
      /\ \A i \in DOMAIN s.tokens : s.tokens[i] \in Addresses
  BY <1>5, SeqParts
<1>7. at \in 0 .. Len(s.tokens)
  BY <1>1, <1>5 DEF Sorted
<1>8. at > 0 => at \in DOMAIN s.tokens
  BY <1>6, <1>7
<1>9. at > 0 => a \in Addresses
  BY <1>6, <1>8
<1> HIDE DEF at, a
<1>10. \A b, n : SaidIn(s, b, n) => SaidIn(w, b, n)
  BY <1>1, <1>2, <1>5, HeardSays
<1>11. \A b \in Addresses : Passed(s, b) => Passed(w, b)
  BY <1>3, <1>4, <1>10 DEF Passed
<1>12. Sorted(w)
  <2>1. \A b \in Addresses : w.results[b].hits > 0 => SaidIn(w, b, w.results[b].hits)
    BY <1>3, <1>4, <1>5, <1>10 DEF Sorted
  <2>2. ASSUME NEW m \in DOMAIN w.loops
        PROVE  /\ w.loops[m].at \in 0 .. Len(w.tokens) /\ w.loops[m].awaits \in DOMAIN w.sent
               /\ \A k \in DOMAIN w.tokens : k < w.loops[m].at => Passed(w, w.tokens[k])
    BY <1>2, <1>5, <1>6, <1>11, <2>2 DEF Sorted
  <2>3. /\ \A i, j \in DOMAIN w.tokens : w.tokens[i] = w.tokens[j] => i = j
        /\ \A m, k \in DOMAIN w.loops : w.loops[m].awaits = w.loops[k].awaits => m = k
    BY <1>2, <1>5 DEF Sorted
  <2> QED
    BY <2>1, <2>2, <2>3 DEF Sorted
<1>13. AllWait(w, {l})
  <2>1. \A m \in DOMAIN s.loops : m # l => s.loops[m].awaits # id /\ s.loops[m].awaits \in DOMAIN s.sent
    BY <1>1, <1>5 DEF Sorted
  <2>2. ASSUME NEW m \in DOMAIN w.loops \ {l} PROVE Waits(w, m)
    <3>1. Waits(s, m)
      BY <1>2, <1>5, <2>2 DEF AllWait
    <3>2. w.sent[s.loops[m].awaits] = s.sent[s.loops[m].awaits]
      BY <1>2, <2>1, <2>2
    <3> QED
      BY <1>2, <3>1, <3>2 DEF Waits
  <2>3. ASSUME NEW i \in DOMAIN w.sent, w.sent[i].pc = "asked" PROVE \E m \in DOMAIN w.loops \ {l} : w.loops[m].awaits = i
    <3>1. i # id /\ i \in DOMAIN s.sent /\ s.sent[i].pc = "asked"
      BY <1>2, <2>3
    <3>2. PICK m \in DOMAIN s.loops : s.loops[m].awaits = i
      BY <1>5, <3>1 DEF AllWait
    <3> QED
      BY <1>1, <1>2, <3>1, <3>2
  <2> QED
    BY <2>2, <2>3 DEF AllWait
<1>14. OneLoop(w)
  <2>1. SUFFICES ASSUME Len(s.loops) = 1 PROVE OneLoop(w)
    BY <1>2 DEF OneLoop
  <2>2. l = 1
    BY <1>1, <1>6, <2>1
  <2>3. s.loops[1].awaits = Len(s.sent) /\ Len(s.sent) = s.loops[1].at + 1
    BY <1>1, <1>5, <2>1 DEF OneLoop
  <2>4. id = Len(s.sent) /\ Len(s.sent) = at + 1
    BY <1>1, <2>2, <2>3 DEF at
  <2>5. \A i \in DOMAIN s.sent :
           /\ s.sent[i].what = IF i = 1 THEN Malformed ELSE s.tokens[i - 1]
           /\ i # 1 /\ s.sent[i].pc = "answered" =>
                 s.results[s.sent[i].what].hits = s.sent[i].hits /\ ~ s.results[s.sent[i].what].error
    BY <1>1, <1>5, <2>1 DEF OneLoop
  <2>6. ASSUME NEW i \in DOMAIN s.sent
        PROVE  /\ w.sent[i].what = IF i = 1 THEN Malformed ELSE w.tokens[i - 1]
               /\ i # 1 /\ w.sent[i].pc = "answered" =>
                     w.results[w.sent[i].what].hits = w.sent[i].hits /\ ~ w.results[w.sent[i].what].error
    <3>1. i \in Nat /\ i >= 1 /\ i <= at + 1 /\ at \in Nat
      BY <1>6, <1>7, <2>4
    <3>2. w.sent[i].what = s.sent[i].what
      BY <1>2
    <3>3. CASE i = id
      <4>3. i = at + 1
        BY <2>4, <3>3, Zenon
      <4>1. i # 1 => at > 0 /\ i - 1 = at
        BY <3>1, <4>3, LastIs
      <4>2. i # 1 => w.sent[i].what = a
        BY <2>5, <3>2, <4>1 DEF a
      <4> QED
        BY <1>2, <1>4, <2>5, <3>2, <3>3, <4>1, <4>2
    <3>4. CASE i # id
      <4>1. w.sent[i] = s.sent[i]
        BY <1>2, <3>4
      <4>2. i # 1 => i - 1 \in 1 .. Len(s.tokens) /\ i - 1 # at
        BY <1>6, <1>7, <2>4, <3>1, <3>4
      <4>3. i # 1 => s.tokens[i - 1] \in Addresses /\ (at > 0 => s.tokens[i - 1] # a)
        BY <1>5, <1>6, <1>8, <4>2 DEF Sorted, a
      <4>4. i # 1 => w.results[s.tokens[i - 1]] = s.results[s.tokens[i - 1]]
        BY <1>3, <4>3
      <4>5. i # 1 => s.sent[i].what = s.tokens[i - 1]
        BY <2>5
      <4>6. w.sent[i].what = IF i = 1 THEN Malformed ELSE w.tokens[i - 1]
        BY <1>2, <2>5, <3>2
      <4>7. ASSUME i # 1, w.sent[i].pc = "answered"
            PROVE  w.results[w.sent[i].what].hits = w.sent[i].hits /\ ~ w.results[w.sent[i].what].error
        BY <2>5, <4>1, <4>4, <4>5, <4>7
      <4> QED
        BY <4>6, <4>7
    <3> QED
      BY <3>3, <3>4
  <2>7. w.loops[1].awaits = Len(w.sent) /\ Len(w.sent) = w.loops[1].at + 1
    BY <1>2, <2>3
  <2> QED
    BY <1>2, <2>6, <2>7 DEF OneLoop
<1>15. at > 0 => Passed(w, w.tokens[at])
  BY <1>2, <1>4 DEF a
<1>16. w.loops # <<>>
  BY <1>1, <1>2
<1> QED
  BY <1>1, <1>2, <1>12, <1>13, <1>14, <1>15, <1>16 DEF Served, at

\* A request that failed is given up, or hears of it too late.
LEMMA GivenUpKeeps ==
    ASSUME NEW s, SearchInv(s), NEW id \in DOMAIN s.sent, s.sent[id].pc \in {"failed", "lost"},
           NEW pc \in {"lost", "late"}, NEW hits \in {0} \cup Deployments
    PROVE  SearchInv(Heard(s, id, pc, hits))
<1> DEFINE t == Heard(s, id, pc, hits)
<1>1. s \in Search /\ Sorted(s) /\ OneLoop(s)
  BY DEF SearchInv
<1>2. /\ t \in Search /\ t.stage = s.stage
      /\ t.covered = s.covered /\ t.tokens = s.tokens /\ t.loops = s.loops /\ t.results = s.results
      /\ DOMAIN t.sent = DOMAIN s.sent /\ Len(t.sent) = Len(s.sent)
      /\ t.sent[id].what = s.sent[id].what /\ t.sent[id].pc = pc
      /\ \A i \in DOMAIN s.sent : i # id => t.sent[i] = s.sent[i]
  BY <1>1, HeardIs
<1> HIDE DEF t
<1>3. \A a, n : SaidIn(s, a, n) => SaidIn(t, a, n)
  BY <1>1, <1>2, HeardSays
<1>4. \A a : Passed(s, a) => Passed(t, a)
  BY <1>2, <1>3 DEF Passed
<1>5. Sorted(t)
  BY <1>1, <1>2, <1>3, <1>4 DEF Sorted
<1>6. OneLoop(t)
  <2>1. \A i \in DOMAIN s.sent : t.sent[i].what = s.sent[i].what
    BY <1>2
  <2>2. \A i \in DOMAIN s.sent : t.sent[i].pc = "answered" => t.sent[i] = s.sent[i]
    BY <1>2
  <2> QED
    BY <1>1, <1>2, <2>1, <2>2 DEF OneLoop
<1>7. s.stage = "open" => AllWait(t, {})
  <2>1. SUFFICES ASSUME s.stage = "open" PROVE AllWait(t, {})
    OBVIOUS
  <2>2. AllWait(s, {})
    BY <2>1 DEF SearchInv
  <2>3. \A m \in DOMAIN s.loops : Waits(s, m) /\ s.loops[m].awaits \in DOMAIN s.sent
    BY <1>1, <2>2 DEF AllWait, Sorted
  <2>4. \A m \in DOMAIN s.loops : s.loops[m].awaits # id
    BY <2>3 DEF Waits
  <2>5. \A m \in DOMAIN t.loops : Waits(t, m)
    BY <1>2, <2>3, <2>4 DEF Waits
  <2>6. \A i \in DOMAIN t.sent : t.sent[i].pc = "asked" => s.sent[i].pc = "asked"
    BY <1>2
  <2> QED
    BY <1>2, <2>2, <2>5, <2>6 DEF AllWait
<1>8. s.stage \in {"loop", "broken", "timeout"} => Honest(t)
  <2>1. Wanted(t) = Wanted(s)
    BY <1>2 DEF Wanted
  <2> QED
    BY <1>2, <1>3, <2>1 DEF Honest, SearchInv
<1>9. s.loops = <<>> => t.sent = <<>>
  <2>1. s.loops = <<>> => s.sent = <<>>
    BY DEF SearchInv
  <2> QED
    BY <2>1
<1> QED
  BY <1>2, <1>5, <1>6, <1>7, <1>8, <1>9 DEF SearchInv, t

\* What an answer leaves of the token a loop is at.
Marked(s, a, r) == [s EXCEPT !.results[a] = r]

LEMMA ResultIs ==
    ASSUME NEW s \in Search, NEW a \in Addresses, NEW r \in Result, NEW t, t = Marked(s, a, r)
    PROVE  /\ t \in Search /\ t.stage = s.stage
           /\ t.covered = s.covered /\ t.tokens = s.tokens /\ t.sent = s.sent /\ t.loops = s.loops
           /\ t.results[a] = r /\ \A b \in Addresses : b # a => t.results[b] = s.results[b]
<1> DEFINE new == [s.results EXCEPT ![a] = r]
<1>1. s.results \in [Addresses -> Result]
  BY DEF Search
<1>2. /\ new \in [Addresses -> Result]
      /\ new[a] = r /\ \A b \in Addresses : b # a => new[b] = s.results[b]
  BY <1>1
<1>3. t = [s EXCEPT !.results = new]
  BY DEF Search, Marked
<1> HIDE DEF new
<1>4. /\ t \in Search /\ t.stage = s.stage /\ t.results = new
      /\ t.covered = s.covered /\ t.tokens = s.tokens /\ t.sent = s.sent /\ t.loops = s.loops
  BY <1>2, <1>3 DEF Search
<1> QED
  BY <1>2, <1>4

\* An answer that is awaited reaches the one loop that waits for it.
LEMMA SettledKeeps ==
    ASSUME NEW s, SearchInv(s), s.stage = "open", NEW id \in DOMAIN s.sent, s.sent[id].pc = "asked",
           NEW pc \in {"failed", "empty", "answered"}, NEW hits \in {0} \cup Deployments,
           pc # "answered" => hits = 0
    PROVE  LET t == Settled(s, id, pc, hits) IN SearchInv(t) /\ id \in DOMAIN t.sent /\ t.sent[id].pc = pc
<1> DEFINE h == Heard(s, id, pc, hits)
<1>1. s \in Search /\ Sorted(s) /\ AllWait(s, {})
  BY DEF SearchInv
<1>2. /\ h \in Search /\ h.stage = s.stage
      /\ h.covered = s.covered /\ h.tokens = s.tokens /\ h.loops = s.loops /\ h.results = s.results
      /\ DOMAIN h.sent = DOMAIN s.sent /\ Len(h.sent) = Len(s.sent)
      /\ h.sent[id].what = s.sent[id].what /\ h.sent[id].pc = pc /\ h.sent[id].hits = hits
      /\ \A i \in DOMAIN s.sent : i # id => h.sent[i] = s.sent[i]
  <2>1. pc \in {"failed", "empty", "answered", "lost", "late"} /\ s \in Search /\ hits \in {0} \cup Deployments
    BY <1>1
  <2>2. id \in DOMAIN s.sent
    OBVIOUS
  <2> HIDE DEF h
  <2> QED
    BY ONLY <2>1, <2>2, HeardIs, SMTT(30) DEF h
<1>3. PICK l \in DOMAIN s.loops : s.loops[l].awaits = id
  BY <1>1 DEF AllWait
<1>4. Settled(s, id, pc, hits) = Handled(h, l, pc, hits)
  <2>1. Settles(s, id) = {l}
    BY <1>1, <1>3 DEF Settles, Sorted
  <2>2. (CHOOSE m \in Settles(s, id) : TRUE) = l
    BY <2>1
  <2>3. h = [s EXCEPT !.sent[id].pc = pc, !.sent[id].hits = hits]
    BY DEF Heard
  <2>4. Settled(s, id, pc, hits) =
            IF Settles(s, id) = {} THEN h ELSE Handled(h, CHOOSE m \in Settles(s, id) : TRUE, pc, hits)
    BY DEF Settled, Heard
  <2> HIDE DEF h
  <2> QED
    BY <2>1, <2>2, <2>4
<1> DEFINE at == s.loops[l].at
           a == s.tokens[at]
<1>5. /\ at \in Nat /\ (at > 0 => a \in Addresses /\ s.sent[id].what = a)
  <2>1. Waits(s, l) /\ at \in 0 .. Len(s.tokens)
    BY <1>1 DEF AllWait, Sorted
  <2>2. at > 0 => at \in DOMAIN s.tokens
    BY <1>1, <2>1, SeqParts
  <2>3. at > 0 => s.sent[id].what = a
    BY <1>3, <2>1 DEF Waits
  <2> QED
    BY <1>1, <2>1, <2>2, <2>3, SeqParts
<1>6. at > 0 => h.sent[id].what = a
  BY <1>2, <1>5
<1>7. h.loops[l].at = at /\ h.tokens[at] = a
  BY <1>2
<1>8. s.loops # <<>>
  BY <1>3
<1> HIDE DEF h
<1>16. ASSUME at = 0 PROVE Served(h, l)
  <2>1. ~ (s.loops[l].at > 0)
    BY <1>16
  <2>2. /\ h \in Search /\ h.stage = "open" /\ h.tokens = s.tokens /\ h.loops = s.loops
        /\ DOMAIN h.sent = DOMAIN s.sent /\ Len(h.sent) = Len(s.sent)
        /\ h.sent[id].what = s.sent[id].what /\ h.sent[id].pc # "asked"
        /\ \A i \in DOMAIN s.sent : i # id => h.sent[i] = s.sent[i]
    BY <1>2
  <2>3. \A b \in Addresses : h.results[b] = s.results[b]
    BY <1>2
  <2> HIDE DEF at, a
  <2>4. Answered(s, l, id, h)
    BY <1>3, <2>1, <2>2, <2>3 DEF Answered
  <2> QED
    BY <2>4, AnsweredServes
<1>9. CASE at = 0 /\ pc = "failed"
  <2>1. Handled(h, l, pc, hits) = Told(h, "broken", Wanted(h))
    BY <1>7, <1>9 DEF Handled
  <2>2. Served(h, l)
    BY <1>9, <1>16
  <2>3. Sorted(h)
    BY <2>2 DEF Served
  <2>4. SearchInv(Told(h, "broken", Wanted(h))) /\ Told(h, "broken", Wanted(h)).sent = h.sent
    BY <1>2, <1>8, <2>3, ToldKeeps
  <2> QED
    BY <1>2, <1>4, <2>1, <2>4
<1>10. ASSUME NEW w, Served(w, l), w.sent = h.sent, Handled(h, l, pc, hits) = Turns(w, l)
       PROVE  LET t == Settled(s, id, pc, hits) IN SearchInv(t) /\ id \in DOMAIN t.sent /\ t.sent[id].pc = pc
  <2>1. /\ SearchInv(Turns(w, l))
        /\ \A i \in DOMAIN w.sent : i \in DOMAIN Turns(w, l).sent /\ Turns(w, l).sent[i] = w.sent[i]
    BY <1>10, TurnsKeep
  <2> QED
    BY <1>2, <1>4, <1>10, <2>1
<1>11. CASE at = 0 /\ pc # "failed"
  <2>1. Handled(h, l, pc, hits) = Turns(h, l)
    BY <1>7, <1>11 DEF Handled
  <2>2. Served(h, l)
    BY <1>11, <1>16
  <2> QED
    BY <1>10, <2>1, <2>2
<1>12. ASSUME at > 0, NEW r \in Result, NEW w, w = Marked(h, a, r), Handled(h, l, pc, hits) = Turns(w, l),
              pc = "failed" => r.error /\ r.hits = 0,
              pc = "answered" => r.hits = hits /\ ~ r.error,
              pc = "empty" => r = s.results[a]
       PROVE  LET t == Settled(s, id, pc, hits) IN SearchInv(t) /\ id \in DOMAIN t.sent /\ t.sent[id].pc = pc
  <2>1. a \in Addresses
    BY <1>5, <1>12
  <2> HIDE DEF a
  <2>2. /\ w \in Search /\ w.stage = h.stage
        /\ w.tokens = h.tokens /\ w.sent = h.sent /\ w.loops = h.loops
        /\ w.results[a] = r /\ \A b \in Addresses : b # a => w.results[b] = h.results[b]
    <3>1. w = Marked(h, a, r)
      BY <1>12
    <3>2. h \in Search /\ r \in Result
      BY <1>2, <1>12
    <3> QED
      BY <1>12, <2>1, <3>1, <3>2, ResultIs
  <2>3. \A b, n : SaidIn(s, b, n) => SaidIn(w, b, n)
    BY <1>1, <1>2, <2>2, HeardSays
  <2>4. pc \in {"answered", "empty"} => SaidIn(w, a, hits)
    <3>1. id \in DOMAIN w.sent /\ w.sent[id].pc = pc /\ w.sent[id].hits = hits
      BY <1>2, <2>2
    <3>2. w.sent[id].what = a
      BY <1>6, <1>12, <2>2
    <3> QED
      BY <3>1, <3>2 DEF SaidIn
  <2>5. s.results[a].hits > 0 => SaidIn(w, a, s.results[a].hits)
    BY <1>1, <2>1, <2>3 DEF Sorted
  <2>6. r.hits > 0 => SaidIn(w, a, r.hits)
    <3>1. pc = "failed" => ~ (r.hits > 0)
      BY <1>12
    <3> QED
      BY <1>12, <2>4, <2>5, <3>1
  <2>7. r.hits \in Nat
    <3>1. r \in Result
      BY <1>12
    <3>2. r.hits \in {0} \cup Deployments
      BY <3>1 DEF Result
    <3>3. Deployments \subseteq Nat /\ 0 \in Nat
      BY DiscoveryAssumption
    <3> QED
      BY <3>2, <3>3, Zenon
  <2>8. pc = "empty" => hits = 0
    OBVIOUS
  <2>9. Passed(w, a)
    BY <1>12, <2>2, <2>4, <2>6, <2>7, <2>8 DEF Passed
  <2>10. Served(w, l)
    <3>1. \A b \in Addresses : w.results[b] = s.results[b] \/ (s.loops[l].at > 0 /\ b = s.tokens[s.loops[l].at])
      <4>1. s.loops[l].at > 0
        BY <1>12
      <4>2. h.results = s.results
        BY <1>2
      <4> QED
        BY <2>2, <4>1, <4>2 DEF a
    <3>2. LET c == s.tokens[s.loops[l].at] IN
          /\ Passed(w, c) /\ (w.results[c].hits > 0 => SaidIn(w, c, w.results[c].hits))
          /\ w.sent[id].pc = "answered" => w.results[c].hits = w.sent[id].hits /\ ~ w.results[c].error
      BY <1>2, <1>12, <2>2, <2>6, <2>9 DEF a
    <3>3. /\ w.stage = "open" /\ w.tokens = s.tokens /\ w.loops = s.loops
          /\ DOMAIN w.sent = DOMAIN s.sent /\ Len(w.sent) = Len(s.sent)
          /\ w.sent[id].what = s.sent[id].what /\ w.sent[id].pc # "asked"
          /\ \A i \in DOMAIN s.sent : i # id => w.sent[i] = s.sent[i]
      BY <1>2, <2>2
    <3> HIDE DEF at
    <3>4. Answered(s, l, id, w)
      BY <1>3, <2>2, <3>1, <3>2, <3>3 DEF Answered
    <3> QED
      BY <3>4, AnsweredServes
  <2> QED
    BY <1>10, <1>12, <2>2, <2>10
<1>13. CASE at > 0 /\ pc = "failed"
  <2> DEFINE r == [hits |-> 0, error |-> TRUE]
             w == Marked(h, a, r)
  <2>1. Handled(h, l, pc, hits) = Turns(w, l)
    BY <1>7, <1>13 DEF Handled, Marked
  <2>2. r \in Result /\ r.error /\ r.hits = 0
    BY DEF Result
  <2>3. w = Marked(h, a, r)
    OBVIOUS
  <2> HIDE DEF r, w, at, a
  <2> QED
    BY <1>12, <1>13, <2>1, <2>2, <2>3
<1>14. CASE at > 0 /\ pc = "answered"
  <2> DEFINE r == [hits |-> hits, error |-> FALSE]
             w == Marked(h, a, r)
  <2>1. Handled(h, l, pc, hits) = Turns(w, l)
    BY <1>7, <1>14 DEF Handled, Marked
  <2>2. r \in Result /\ ~ r.error /\ r.hits = hits
    BY DEF Result
  <2>3. w = Marked(h, a, r)
    OBVIOUS
  <2> HIDE DEF r, w, at, a
  <2> QED
    BY <1>12, <1>14, <2>1, <2>2, <2>3
<1>15. CASE at > 0 /\ pc = "empty"
  <2>1. Handled(h, l, pc, hits) = Turns(h, l)
    BY <1>7, <1>15 DEF Handled
  <2>2. a \in Addresses
    BY <1>5, <1>15
  <2>3. s.results[a] \in Result /\ h.results[a] = s.results[a]
    BY <1>1, <1>2, <2>2, SeqParts
  <2>4. h = Marked(h, a, s.results[a])
    BY <1>2, <2>2, <2>3 DEF Search, Marked
  <2> HIDE DEF at, a
  <2> QED
    BY <1>12, <1>15, <2>1, <2>3, <2>4
<1> QED
  BY <1>5, <1>9, <1>11, <1>13, <1>14, <1>15

-----------------------------------------------------------------------------
(* The steps of a search.                                                   *)

\* The list that is asked about has every address once.
LEMMA UniqueIs ==
    ASSUME NEW list \in Lists, NEW f \in unique(list)
    PROVE  f \in Seq(Addresses) /\ \A i, j \in DOMAIN f : f[i] = f[j] => i = j
<1> DEFINE us == {list[i] : i \in DOMAIN list} \ {Malformed}
<1>1. PICK n \in 1 .. MaxAsked : list \in [1 .. n -> Addresses \cup {Malformed}]
  BY DEF Lists
<1>2. n \in Nat /\ DOMAIN list = 1 .. n /\ us \subseteq Addresses
  BY <1>1, DiscoveryAssumption
<1>3. Cardinality(us) \in Nat
  <2> DEFINE all == {list[i] : i \in DOMAIN list}
  <2>1. list \in Surjection(1 .. n, all)
    BY <1>1, <1>2 DEF Surjection
  <2>2. IsFiniteSet(all)
    <3>1. ExistsSurjection(1 .. n, all)
      BY <2>1 DEF ExistsSurjection
    <3> QED
      BY <1>2, <3>1, FS_NatSurjection
  <2>3. us \in SUBSET all
    OBVIOUS
  <2> HIDE DEF all, us
  <2> QED
    BY <2>2, <2>3, FS_Subset, FS_CardinalityType
<1>4. /\ f \in [1 .. Cardinality(us) -> us]
      /\ \A i, j \in DOMAIN f :
            i < j => \E h \in DOMAIN list : list[h] = f[i] /\ \A k \in 1 .. h : list[k] # f[j]
  BY DEF unique
<1> HIDE DEF us
<1>5. f \in Seq(Addresses)
  BY <1>2, <1>3, <1>4
<1>6. \A i, j \in DOMAIN f : i < j => f[i] # f[j]
  <2>1. SUFFICES ASSUME NEW i \in DOMAIN f, NEW j \in DOMAIN f, i < j PROVE f[i] # f[j]
    OBVIOUS
  <2>2. PICK h \in DOMAIN list : list[h] = f[i] /\ \A k \in 1 .. h : list[k] # f[j]
    BY <1>4, <2>1
  <2>3. h \in 1 .. h
    BY <1>2, <2>2
  <2> QED
    BY <2>2, <2>3
<1>7. DOMAIN f = 1 .. Cardinality(us)
  BY <1>4
<1>8. ASSUME NEW i \in DOMAIN f, NEW j \in DOMAIN f, f[i] = f[j] PROVE i = j
  <2>1. i < j \/ j < i \/ i = j
    BY <1>3, <1>7
  <2> QED
    BY <1>6, <1>8, <2>1
<1> QED
  BY <1>5, <1>8

\* A list is taken up, and at once answered or not.
LEMMA AskedKeeps ==
    ASSUME NEW s, SearchInv(s), s.stage = "idle", NEW tokens \in Seq(Addresses), NEW covered \in BOOLEAN,
           \A i, j \in DOMAIN tokens : tokens[i] = tokens[j] => i = j,
           NEW t, t = [s EXCEPT !.tokens = tokens, !.covered = covered]
    PROVE  /\ SearchInv([t EXCEPT !.stage = "opening"])
           /\ Wanted(t) = {} \/ ~ covered => SearchInv(Told(t, "loop", {}))
           /\ SearchInv(Told(t, "broken", Wanted(t)))
<1>1. s \in Search /\ Sorted(s) /\ s.loops = <<>> /\ s.sent = <<>>
  BY DEF SearchInv
<1>2. /\ t \in Search /\ t.stage = "idle" /\ t.covered = covered /\ t.tokens = tokens
      /\ t.sent = s.sent /\ t.loops = s.loops /\ t.results = s.results
  BY <1>1 DEF Search
<1>3. Sorted(t)
  <2>1. \A a \in Addresses : t.results[a].hits > 0 => SaidIn(t, a, t.results[a].hits)
    BY <1>1, <1>2 DEF Sorted, SaidIn
  <2>2. DOMAIN t.loops = {}
    BY <1>1, <1>2
  <2> QED
    BY <1>2, <2>1, <2>2 DEF Sorted
<1>4. Len(t.loops) = 0
  BY <1>1, <1>2
<1>5. SearchInv([t EXCEPT !.stage = "opening"])
  <2> DEFINE u == [t EXCEPT !.stage = "opening"]
  <2>1. /\ u \in Search /\ u.stage = "opening" /\ u.tokens = t.tokens
        /\ u.sent = t.sent /\ u.loops = t.loops /\ u.results = t.results
    BY <1>2 DEF Search, Stage
  <2> HIDE DEF u
  <2>2. Sorted(u)
    BY <1>3, <2>1 DEF Sorted, SaidIn, Passed
  <2>3. SearchInv(u)
    BY <1>1, <1>2, <2>1, <2>2 DEF SearchInv, OneLoop
  <2> QED
    BY <2>3 DEF u
<1>6. Wanted(t) = {} \/ ~ covered => SearchInv(Told(t, "loop", {}))
  <2>1. SUFFICES ASSUME Wanted(t) = {} \/ ~ covered PROVE SearchInv(Told(t, "loop", {}))
    OBVIOUS
  <2>2. \A a \in Wanted(t) : ~ t.covered
    BY <1>2, <2>1
  <2>3. t \in Search /\ t.loops = <<>> /\ t.sent = <<>> /\ Len(t.loops) # 1
    BY <1>1, <1>2, <1>4
  <2> QED
    BY <1>3, <2>2, <2>3, ToldKeeps
<1>7. SearchInv(Told(t, "broken", Wanted(t)))
  BY <1>1, <1>2, <1>3, ToldKeeps
<1> QED
  BY <1>5, <1>6, <1>7

LEMMA OpenedKeeps ==
    ASSUME NEW s, SearchInv(s), s.stage = "opening", NEW t, t = [s EXCEPT !.stage = "open"]
    PROVE  SearchInv(t)
<1>1. s \in Search /\ Sorted(s) /\ s.loops = <<>> /\ s.sent = <<>>
  BY DEF SearchInv
<1>2. /\ t \in Search /\ t.stage = "open" /\ t.tokens = s.tokens
      /\ t.sent = s.sent /\ t.loops = s.loops /\ t.results = s.results
  BY <1>1 DEF Search, Stage
<1>3. Sorted(t)
  BY <1>1, <1>2 DEF Sorted, SaidIn, Passed
<1>4. DOMAIN t.loops = {} /\ DOMAIN t.sent = {} /\ Len(t.loops) = 0
  BY <1>1, <1>2
<1>5. AllWait(t, {})
  BY <1>4 DEF AllWait
<1> QED
  BY <1>1, <1>2, <1>3, <1>4, <1>5 DEF SearchInv, OneLoop

\* The search is ended from outside its loops.
LEMMA EndedKeeps ==
    ASSUME NEW s, SearchInv(s), NEW why \in {"broken", "timeout"}, NEW failed \in {Wanted(s), Nothing(s), Silent(s)}
    PROVE  SearchInv(Told(s, why, failed))
<1>1. s \in Search /\ Sorted(s) /\ (s.loops = <<>> => s.sent = <<>>)
  BY DEF SearchInv
<1>2. ASSUME NEW a \in Wanted(s), ~ s.results[a].error, a \notin failed PROVE SaidIn(s, a, s.results[a].hits)
  <2>1. a \in Addresses /\ s.results[a] \in Result
    BY <1>1, SeqParts
  <2>2. s.results[a].hits # 0
    BY <1>2 DEF Nothing, Silent
  <2>3. s.results[a].hits \in {0} \cup Deployments
    BY <2>1 DEF Result
  <2>4. Deployments \subseteq Nat /\ 0 \in Nat
    BY DiscoveryAssumption
  <2>5. s.results[a].hits \in Nat
    BY <2>3, <2>4, Zenon
  <2>6. s.results[a].hits > 0
    BY <2>2, <2>5
  <2> QED
    BY <1>1, <2>1, <2>6 DEF Sorted
<1> QED
  BY <1>1, <1>2, ToldKeeps

LEMMA LoopAdded ==
    ASSUME NEW s \in Search, NEW w, w = [s EXCEPT !.loops = Append(@, [at |-> 0, awaits |-> 0])], NEW l, l = Len(s.loops) + 1
    PROVE  /\ w \in Search /\ w.stage = s.stage
           /\ w.covered = s.covered /\ w.tokens = s.tokens /\ w.sent = s.sent /\ w.results = s.results
           /\ Len(w.loops) = l /\ DOMAIN w.loops = 1 .. l /\ w.loops[l].at = 0
           /\ \A m \in DOMAIN s.loops : w.loops[m] = s.loops[m]
<1> DEFINE new == [at |-> 0, awaits |-> 0]
           loops == Append(s.loops, new)
<1>1. s.loops \in Seq(Loop) /\ new \in Loop /\ new.at = 0
  BY DEF Search, Loop
<1> HIDE DEF new
<1>2. /\ loops \in Seq(Loop) /\ Len(loops) = l /\ DOMAIN loops = 1 .. l /\ loops[l] = new
      /\ \A m \in DOMAIN s.loops : loops[m] = s.loops[m]
  BY <1>1
<1>3. w = [s EXCEPT !.loops = loops]
  BY DEF Search, new
<1> HIDE DEF loops
<1>4. /\ w \in Search /\ w.stage = s.stage /\ w.loops = loops
      /\ w.covered = s.covered /\ w.tokens = s.tokens /\ w.sent = s.sent /\ w.results = s.results
  BY <1>2, <1>3 DEF Search
<1> QED
  BY <1>1, <1>2, <1>4

LEMMA GreetingIs ==
    ASSUME NEW w \in Search, NEW l \in DOMAIN w.loops, NEW t, t = sendRpc(w, l, Malformed)
    PROVE  /\ t \in Search /\ t.stage = w.stage
           /\ t.tokens = w.tokens /\ t.results = w.results
           /\ Len(t.sent) = Len(w.sent) + 1 /\ DOMAIN t.sent = 1 .. Len(w.sent) + 1
           /\ t.sent[Len(w.sent) + 1].what = Malformed /\ t.sent[Len(w.sent) + 1].pc = "asked"
           /\ \A i \in DOMAIN w.sent : t.sent[i] = w.sent[i]
           /\ DOMAIN t.loops = DOMAIN w.loops /\ Len(t.loops) = Len(w.loops)
           /\ t.loops[l].at = w.loops[l].at /\ t.loops[l].awaits = Len(w.sent) + 1
           /\ \A m \in DOMAIN w.loops : m # l => t.loops[m] = w.loops[m]
<1> DEFINE what == Malformed
<1>1. what \in Addresses \cup {Malformed} /\ t = sendRpc(w, l, what)
  OBVIOUS
<1> HIDE DEF what
<1>2. /\ t \in Search /\ t.stage = w.stage
      /\ t.tokens = w.tokens /\ t.results = w.results
      /\ Len(t.sent) = Len(w.sent) + 1 /\ DOMAIN t.sent = 1 .. Len(w.sent) + 1
      /\ t.sent[Len(w.sent) + 1].what = what /\ t.sent[Len(w.sent) + 1].pc = "asked"
      /\ \A i \in DOMAIN w.sent : t.sent[i] = w.sent[i]
      /\ DOMAIN t.loops = DOMAIN w.loops /\ Len(t.loops) = Len(w.loops)
      /\ t.loops[l].at = w.loops[l].at /\ t.loops[l].awaits = Len(w.sent) + 1
      /\ \A m \in DOMAIN w.loops : m # l => t.loops[m] = w.loops[m]
  BY <1>1, SendIs
<1> QED
  BY <1>2 DEF what

\* Loop l is added to s (w), and sends its greeting (t).
Greeted(s, w, l, t) ==
    /\ w.tokens = s.tokens /\ w.sent = s.sent /\ w.results = s.results
    /\ Len(w.loops) = l /\ DOMAIN w.loops = 1 .. l /\ w.loops[l].at = 0
    /\ \A m \in DOMAIN s.loops : w.loops[m] = s.loops[m]
    /\ t \in Search /\ t.stage = "open" /\ t.tokens = w.tokens /\ t.results = w.results
    /\ Len(t.sent) = Len(w.sent) + 1 /\ DOMAIN t.sent = 1 .. Len(w.sent) + 1
    /\ t.sent[Len(w.sent) + 1].what = Malformed /\ t.sent[Len(w.sent) + 1].pc = "asked"
    /\ \A i \in DOMAIN w.sent : t.sent[i] = w.sent[i]
    /\ DOMAIN t.loops = DOMAIN w.loops /\ Len(t.loops) = Len(w.loops)
    /\ t.loops[l].at = w.loops[l].at /\ t.loops[l].awaits = Len(w.sent) + 1
    /\ \A m \in DOMAIN w.loops : m # l => t.loops[m] = w.loops[m]

LEMMA GreetedKeeps ==
    ASSUME NEW s, SearchInv(s), s.stage = "open", NEW l, l = Len(s.loops) + 1, NEW w, NEW t, Greeted(s, w, l, t)
    PROVE  SearchInv(t)
<1>0. /\ w.tokens = s.tokens /\ w.sent = s.sent /\ w.results = s.results
      /\ Len(w.loops) = l /\ DOMAIN w.loops = 1 .. l /\ w.loops[l].at = 0
      /\ \A m \in DOMAIN s.loops : w.loops[m] = s.loops[m]
      /\ t \in Search /\ t.stage = "open" /\ t.tokens = w.tokens /\ t.results = w.results
      /\ Len(t.sent) = Len(w.sent) + 1 /\ DOMAIN t.sent = 1 .. Len(w.sent) + 1
      /\ t.sent[Len(w.sent) + 1].what = Malformed /\ t.sent[Len(w.sent) + 1].pc = "asked"
      /\ \A i \in DOMAIN w.sent : t.sent[i] = w.sent[i]
      /\ DOMAIN t.loops = DOMAIN w.loops /\ Len(t.loops) = Len(w.loops)
      /\ t.loops[l].at = w.loops[l].at /\ t.loops[l].awaits = Len(w.sent) + 1
      /\ \A m \in DOMAIN w.loops : m # l => t.loops[m] = w.loops[m]
  BY DEF Greeted
<1>1. s \in Search /\ Sorted(s) /\ AllWait(s, {}) /\ (s.loops = <<>> => s.sent = <<>>)
  BY DEF SearchInv
<1>2. /\ Len(s.tokens) \in Nat /\ DOMAIN s.tokens = 1 .. Len(s.tokens)
      /\ Len(s.sent) \in Nat /\ DOMAIN s.sent = 1 .. Len(s.sent)
      /\ Len(s.loops) \in Nat /\ DOMAIN s.loops = 1 .. Len(s.loops)
      /\ \A i \in DOMAIN s.tokens : s.tokens[i] \in Addresses
  BY <1>1, SeqParts
<1>3. DOMAIN w.loops = DOMAIN s.loops \cup {l} /\ l \notin DOMAIN s.loops
  BY <1>0, <1>2
<1>6. /\ t \in Search /\ t.stage = "open"
      /\ t.tokens = s.tokens /\ t.results = s.results
      /\ Len(t.sent) = Len(s.sent) + 1 /\ DOMAIN t.sent = 1 .. Len(s.sent) + 1
      /\ t.sent[Len(s.sent) + 1].what = Malformed /\ t.sent[Len(s.sent) + 1].pc = "asked"
      /\ \A i \in DOMAIN s.sent : t.sent[i] = s.sent[i]
      /\ Len(t.loops) = Len(s.loops) + 1
      /\ t.loops[l].at = 0 /\ t.loops[l].awaits = Len(s.sent) + 1
  BY <1>0
<1>7. /\ DOMAIN t.loops = DOMAIN s.loops \cup {l}
      /\ \A m \in DOMAIN s.loops : t.loops[m] = s.loops[m]
  BY <1>0, <1>3
<1>8. DOMAIN s.sent \subseteq DOMAIN t.sent /\ Len(s.sent) + 1 \in DOMAIN t.sent /\ Len(s.sent) + 1 \notin DOMAIN s.sent
  BY <1>2, <1>6
<1>9. \A a, n : SaidIn(s, a, n) => SaidIn(t, a, n)
  BY <1>6, <1>8 DEF SaidIn
<1>10. \A a : Passed(s, a) => Passed(t, a)
  BY <1>6, <1>9 DEF Passed
<1>11. Sorted(t)
  <2>1. \A a \in Addresses : t.results[a].hits > 0 => SaidIn(t, a, t.results[a].hits)
    BY <1>1, <1>6, <1>9 DEF Sorted
  <2>2. ASSUME NEW m \in DOMAIN t.loops
        PROVE  /\ t.loops[m].at \in 0 .. Len(t.tokens) /\ t.loops[m].awaits \in DOMAIN t.sent
               /\ \A k \in DOMAIN t.tokens : k < t.loops[m].at => Passed(t, t.tokens[k])
    <3>1. CASE m = l
      <4>1. \A k \in DOMAIN t.tokens : ~ (k < 0)
        BY <1>2, <1>6
      <4>2. 0 \in 0 .. Len(t.tokens)
        BY <1>2, <1>6
      <4> QED
        BY <1>6, <1>8, <3>1, <4>1, <4>2
    <3>2. CASE m # l
      <4>1. m \in DOMAIN s.loops /\ t.loops[m] = s.loops[m]
        BY <1>7, <3>2
      <4>2. /\ s.loops[m].at \in 0 .. Len(s.tokens) /\ s.loops[m].awaits \in DOMAIN s.sent
            /\ \A k \in DOMAIN s.tokens : k < s.loops[m].at => Passed(s, s.tokens[k])
        BY <1>1, <4>1 DEF Sorted
      <4> QED
        BY <1>6, <1>8, <1>10, <4>1, <4>2
    <3> QED
      BY <3>1, <3>2
  <2>3. \A m, k \in DOMAIN t.loops : t.loops[m].awaits = t.loops[k].awaits => m = k
    <3>1. \A m \in DOMAIN s.loops : t.loops[m].awaits # Len(s.sent) + 1
      BY <1>1, <1>7, <1>8 DEF Sorted
    <3>2. \A m, k \in DOMAIN s.loops : s.loops[m].awaits = s.loops[k].awaits => m = k
      BY <1>1 DEF Sorted
    <3> QED
      BY <1>6, <1>7, <3>1, <3>2
  <2>4. \A i, j \in DOMAIN t.tokens : t.tokens[i] = t.tokens[j] => i = j
    BY <1>1, <1>6 DEF Sorted
  <2> QED
    BY <2>1, <2>2, <2>3, <2>4 DEF Sorted
<1>12. AllWait(t, {})
  <2>1. ASSUME NEW m \in DOMAIN t.loops PROVE Waits(t, m)
    <3>1. CASE m = l
      BY <1>6, <3>1 DEF Waits
    <3>2. CASE m # l
      <4>1. m \in DOMAIN s.loops /\ t.loops[m] = s.loops[m]
        BY <1>7, <3>2
      <4>2. Waits(s, m) /\ s.loops[m].awaits \in DOMAIN s.sent
        BY <1>1, <4>1 DEF AllWait, Sorted
      <4>3. t.sent[s.loops[m].awaits] = s.sent[s.loops[m].awaits]
        BY <1>6, <4>2
      <4> QED
        BY <1>6, <4>1, <4>2, <4>3 DEF Waits
    <3> QED
      BY <3>1, <3>2
  <2>2. ASSUME NEW i \in DOMAIN t.sent, t.sent[i].pc = "asked" PROVE \E m \in DOMAIN t.loops : t.loops[m].awaits = i
    <3>1. CASE i = Len(s.sent) + 1
      BY <1>6, <1>7, <3>1
    <3>2. CASE i # Len(s.sent) + 1
      <4>1. i \in DOMAIN s.sent
        BY <1>2, <1>6, <3>2
      <4>2. s.sent[i].pc = "asked"
        BY <1>6, <2>2, <4>1
      <4>3. PICK m \in DOMAIN s.loops : s.loops[m].awaits = i
        BY <1>1, <4>1, <4>2 DEF AllWait
      <4> QED
        BY <1>7, <4>3
    <3> QED
      BY <3>1, <3>2
  <2> QED
    BY <2>1, <2>2 DEF AllWait
<1>13. OneLoop(t)
  <2>1. SUFFICES ASSUME Len(t.loops) = 1 PROVE OneLoop(t)
    BY DEF OneLoop
  <2>2. Len(s.loops) = 0 /\ l = 1
    BY <1>2, <1>6, <2>1
  <2>3. s.loops = <<>> /\ Len(s.sent) = 0
    <3>1. s.loops \in Seq(Loop)
      BY <1>1 DEF Search
    <3>2. s.loops = <<>>
      BY <2>2, <3>1
    <3> QED
      BY <1>1, <3>2
  <2>4. DOMAIN t.sent = {1} /\ Len(t.sent) = 1 /\ t.sent[1].what = Malformed
    BY <1>6, <2>3
  <2> QED
    BY <1>6, <2>2, <2>3, <2>4 DEF OneLoop
<1>14. t.loops # <<>>
  BY <1>7
<1> QED
  BY <1>6, <1>11, <1>12, <1>13, <1>14 DEF SearchInv

LEMMA EndpointKeeps ==
    \A s, w, l, t :
        /\ SearchInv(s) /\ s.stage = "open" /\ l = Len(s.loops) + 1
        /\ w = [s EXCEPT !.loops = Append(@, [at |-> 0, awaits |-> 0])]
        /\ t = sendRpc(w, l, Malformed)
        => SearchInv(t)
<1>1. SUFFICES ASSUME NEW s, NEW w, NEW l, NEW t, SearchInv(s), s.stage = "open", l = Len(s.loops) + 1,
                      w = [s EXCEPT !.loops = Append(@, [at |-> 0, awaits |-> 0])], t = sendRpc(w, l, Malformed)
               PROVE  SearchInv(t)
  OBVIOUS
<1>2. s \in Search
  BY <1>1 DEF SearchInv
<1>3. /\ w \in Search /\ w.stage = s.stage
      /\ w.tokens = s.tokens /\ w.sent = s.sent /\ w.results = s.results
      /\ Len(w.loops) = l /\ DOMAIN w.loops = 1 .. l /\ w.loops[l].at = 0
      /\ \A m \in DOMAIN s.loops : w.loops[m] = s.loops[m]
  BY <1>1, <1>2, LoopAdded
<1>4. l \in DOMAIN w.loops /\ t = sendRpc(w, l, Malformed) /\ w \in Search
  <2>1. l = Len(s.loops) + 1 /\ Len(s.loops) \in Nat
    BY <1>1, <1>2, SeqParts
  <2> QED
    BY <1>1, <1>3, <2>1
<1>5. /\ t \in Search /\ t.stage = w.stage
      /\ t.tokens = w.tokens /\ t.results = w.results
      /\ Len(t.sent) = Len(w.sent) + 1 /\ DOMAIN t.sent = 1 .. Len(w.sent) + 1
      /\ t.sent[Len(w.sent) + 1].what = Malformed /\ t.sent[Len(w.sent) + 1].pc = "asked"
      /\ \A i \in DOMAIN w.sent : t.sent[i] = w.sent[i]
      /\ DOMAIN t.loops = DOMAIN w.loops /\ Len(t.loops) = Len(w.loops)
      /\ t.loops[l].at = w.loops[l].at /\ t.loops[l].awaits = Len(w.sent) + 1
      /\ \A m \in DOMAIN w.loops : m # l => t.loops[m] = w.loops[m]
  BY <1>4, GreetingIs
<1>6. SearchInv(s) /\ s.stage = "open" /\ l = Len(s.loops) + 1
  BY <1>1
<1>7. t \in Search /\ t.stage = "open"
  BY <1>3, <1>5, <1>6
<1>8. Greeted(s, w, l, t)
  BY <1>3, <1>5, <1>7 DEF Greeted
<1> QED
  BY <1>6, <1>8, GreetedKeeps

\* What a request is called last, whatever its answer.
LEMMA CalledIs ==
    ASSUME NEW s \in Search, NEW id \in DOMAIN s.sent, NEW pc
    PROVE  [s EXCEPT !.sent[id].pc = pc] = Heard(s, id, pc, s.sent[id].hits) /\ s.sent[id].hits \in {0} \cup Deployments
<1>1. s.sent \in Seq(Asked) /\ s.sent[id] \in Asked
  BY DEF Search
<1>2. [s.sent[id] EXCEPT !.pc = pc] = [s.sent[id] EXCEPT !.pc = pc, !.hits = s.sent[id].hits] /\ s.sent[id].hits \in {0} \cup Deployments
  BY <1>1 DEF Asked
<1> QED
  BY <1>1, <1>2 DEF Heard, Search

LEMMA PostFailsKeeps ==
    ASSUME NEW s, SearchInv(s), s.stage = "open", NEW id \in DOMAIN s.sent, s.sent[id].pc = "asked"
    PROVE  SearchInv([Settled(s, id, "failed", 0) EXCEPT !.sent[id].pc = "lost"])
<1> DEFINE t == Settled(s, id, "failed", 0)
<1>1. SearchInv(t) /\ id \in DOMAIN t.sent /\ t.sent[id].pc = "failed"
  BY SettledKeeps
<1> HIDE DEF t
<1>2. t \in Search
  BY <1>1 DEF SearchInv
<1>3. [t EXCEPT !.sent[id].pc = "lost"] = Heard(t, id, "lost", t.sent[id].hits) /\ t.sent[id].hits \in {0} \cup Deployments
  BY <1>1, <1>2, CalledIs
<1>4. SearchInv(Heard(t, id, "lost", t.sent[id].hits))
  BY <1>1, <1>3, GivenUpKeeps
<1> QED
  BY <1>3, <1>4 DEF t

\* Nobody waits for a number that was given up.
LEMMA LateKeeps ==
    ASSUME NEW s, SearchInv(s), s.stage = "open", NEW id \in DOMAIN s.sent, s.sent[id].pc = "lost", NEW n \in Deployments
    PROVE  SearchInv([Settled(s, id, "answered", n) EXCEPT !.sent[id].pc = "late"])
<1> DEFINE h == Heard(s, id, "answered", n)
<1>1. s \in Search /\ AllWait(s, {})
  BY DEF SearchInv
<1>2. Settles(s, id) = {}
  BY <1>1 DEF AllWait, Waits, Settles
<1>3. Settled(s, id, "answered", n) = h
  BY <1>2 DEF Settled, Heard
<1>4. [h EXCEPT !.sent[id].pc = "late"] = Heard(s, id, "late", n)
  <2>1. h \in Search /\ id \in DOMAIN h.sent /\ h.sent[id].hits = n
    <3> DEFINE pc == "answered"
    <3>1. pc \in {"failed", "empty", "answered", "lost", "late"} /\ n \in {0} \cup Deployments
      OBVIOUS
    <3> HIDE DEF pc
    <3>2. LET t == Heard(s, id, pc, n) IN t \in Search /\ DOMAIN t.sent = DOMAIN s.sent /\ t.sent[id].hits = n
      BY <1>1, <3>1, HeardIs
    <3> QED
      BY <3>2 DEF pc
  <2>2. Heard(h, id, "late", n) = Heard(s, id, "late", n)
    <3> DEFINE pc == "answered"
               last == "late"
    <3>1. pc \in {"failed", "empty", "answered", "lost", "late"} /\ n \in {0} \cup Deployments
      OBVIOUS
    <3> HIDE DEF pc, last
    <3>2. Heard(Heard(s, id, pc, n), id, last, n) = Heard(s, id, last, n)
      BY <1>1, <3>1, HeardTwice
    <3> QED
      BY <3>2 DEF pc, last
  <2> HIDE DEF h
  <2> QED
    BY <2>1, <2>2, CalledIs
<1>5. SearchInv(Heard(s, id, "late", n))
  BY GivenUpKeeps
<1> QED
  BY <1>3, <1>4, <1>5

LEMMA SearchKeeps ==
    ASSUME SearchInv(search), SearchNext PROVE SearchInv(search')
<1>1. ASSUME NEW list \in Lists, NEW covered \in BOOLEAN, NEW keyed \in BOOLEAN,
             searchSubgraphsForTokens(list, covered, keyed)
      PROVE  SearchInv(search')
  <2>1. PICK tokens \in unique(list) :
            LET s == [search EXCEPT !.tokens = tokens, !.covered = covered] IN
            /\ search.stage = "idle"
            /\ search' = CASE Wanted(s) = {} \/ ~ covered -> Told(s, "loop", {})
                           [] Wanted(s) # {} /\ covered /\ ~ keyed -> Told(s, "broken", Wanted(s))
                           [] OTHER -> [s EXCEPT !.stage = "opening"]
    BY <1>1 DEF searchSubgraphsForTokens
  <2>2. tokens \in Seq(Addresses) /\ \A i, j \in DOMAIN tokens : tokens[i] = tokens[j] => i = j
    BY UniqueIs
  <2> DEFINE s == [search EXCEPT !.tokens = tokens, !.covered = covered]
  <2>3. search.stage = "idle" /\ s = [search EXCEPT !.tokens = tokens, !.covered = covered]
    BY <2>1
  <2>4. \/ (Wanted(s) = {} \/ ~ covered) /\ search' = Told(s, "loop", {})
        \/ search' = Told(s, "broken", Wanted(s))
        \/ search' = [s EXCEPT !.stage = "opening"]
    <3>1. search' = CASE Wanted(s) = {} \/ ~ covered -> Told(s, "loop", {})
                      [] Wanted(s) # {} /\ covered /\ ~ keyed -> Told(s, "broken", Wanted(s))
                      [] OTHER -> [s EXCEPT !.stage = "opening"]
      BY <2>1
    <3> HIDE DEF s
    <3> QED
      BY <3>1
  <2> HIDE DEF s
  <2>5. /\ SearchInv([s EXCEPT !.stage = "opening"])
        /\ Wanted(s) = {} \/ ~ covered => SearchInv(Told(s, "loop", {}))
        /\ SearchInv(Told(s, "broken", Wanted(s)))
    BY <2>2, <2>3, AskedKeeps
  <2> QED
    BY <2>4, <2>5
<1>2. CASE Opened
  BY <1>2, OpenedKeeps DEF Opened
<1>3. CASE Refused
  BY <1>3, EndedKeeps DEF Refused
<1>4. CASE Breaks
  BY <1>4, EndedKeeps DEF Breaks
<1>5. CASE TimesOut
  BY <1>5, EndedKeeps DEF TimesOut
<1>6. CASE Endpoint
  <2> DEFINE l == Len(search.loops) + 1
             w == [search EXCEPT !.loops = Append(@, [at |-> 0, awaits |-> 0])]
  <2>1. /\ search.stage = "open" /\ l = Len(search.loops) + 1 /\ search' = sendRpc(w, l, Malformed)
        /\ w = [search EXCEPT !.loops = Append(@, [at |-> 0, awaits |-> 0])]
    BY <1>6 DEF Endpoint
  <2> HIDE DEF l, w
  <2> QED
    BY <2>1, EndpointKeeps
<1>7. ASSUME NEW id \in DOMAIN search.sent, PostFails(id) PROVE SearchInv(search')
  BY <1>7, PostFailsKeeps DEF PostFails
<1>8. ASSUME NEW id \in DOMAIN search.sent, Message(id) PROVE SearchInv(search')
  <2>1. search.stage = "open" /\ search.sent[id].pc = "asked"
    BY <1>8 DEF Message
  <2>2. PICK pc \in {"failed", "empty", "answered"}, n \in {0} \cup Deployments :
            (pc # "answered" => n = 0) /\ search' = Settled(search, id, pc, n)
    <3>1. CASE \E pc \in {"failed", "empty"} : search' = Settled(search, id, pc, 0)
      BY <3>1
    <3>2. CASE \E n \in Deployments : search' = Settled(search, id, "answered", n)
      BY <3>2
    <3> QED
      BY <1>8, <3>1, <3>2 DEF Message
  <2> QED
    BY <2>1, <2>2, SettledKeeps
<1>9. ASSUME NEW id \in DOMAIN search.sent, LateMessage(id) PROVE SearchInv(search')
  BY <1>9, LateKeeps DEF LateMessage
<1> QED
  BY <1>1, <1>2, <1>3, <1>4, <1>5, <1>6, <1>7, <1>8, <1>9 DEF SearchNext

LEMMA SearchBegins ==
    ASSUME NEW s \in {Off, Waiting} PROVE SearchInv(s)
<1>1. /\ s.stage \in {"off", "idle"} /\ s.covered = TRUE /\ s.tokens = <<>> /\ s.sent = <<>> /\ s.loops = <<>>
      /\ s.results = [a \in Addresses |-> Untouched]
  BY DEF Off, Waiting
<1>2. Untouched \in Result /\ Untouched.hits = 0
  BY DEF Untouched, Result
<1>3. s.results \in [Addresses -> Result] /\ \A a \in Addresses : ~ (s.results[a].hits > 0)
  BY <1>1, <1>2
<1>4. s \in Search
  <2>1. Waiting \in Search
    BY <1>2 DEF Waiting, Search, Stage
  <2>2. Off \in Search
    BY <2>1 DEF Off, Search, Stage
  <2> QED
    BY <2>1, <2>2
<1>5. DOMAIN s.tokens = {} /\ DOMAIN s.loops = {} /\ Len(s.loops) = 0
  BY <1>1
<1>6. Sorted(s)
  BY <1>3, <1>5 DEF Sorted
<1> QED
  BY <1>1, <1>4, <1>5, <1>6 DEF SearchInv, OneLoop

LEMMA SearchImplies ==
    ASSUME SearchInv(search) PROVE SearchTypeOK /\ ToldIsSaid
<1>1. search \in Search /\ Sorted(search) /\ OneLoop(search)
  BY DEF SearchInv
<1>2. /\ Len(search.tokens) \in Nat /\ DOMAIN search.tokens = 1 .. Len(search.tokens)
      /\ \A a \in Addresses : search.results[a] \in Result
      /\ \A i \in DOMAIN search.sent : search.sent[i] \in Asked
      /\ Wanted(search) \subseteq Addresses
  BY <1>1, SeqParts
<1>3. Len(search.tokens) = Cardinality(Wanted(search))
  <2>1. search.tokens \in Bijection(1 .. Len(search.tokens), Wanted(search))
    <3>1. search.tokens \in [1 .. Len(search.tokens) -> Wanted(search)]
      BY <1>1, <1>2 DEF Search, Wanted
    <3>2. \A i, j \in 1 .. Len(search.tokens) : search.tokens[i] = search.tokens[j] => i = j
      BY <1>1, <1>2 DEF Sorted
    <3>3. \A a \in Wanted(search) : \E i \in 1 .. Len(search.tokens) : search.tokens[i] = a
      BY <1>2 DEF Wanted
    <3> QED
      BY <1>2, <3>1, <3>2, <3>3 DEF Bijection, Injection, Surjection, IsInjective
  <2>2. ExistsBijection(1 .. Len(search.tokens), Wanted(search))
    BY <2>1 DEF ExistsBijection
  <2> QED
    BY <1>2, <2>2, FS_CountingElements
<1>4. SearchTypeOK
  <2>1. search.stage \in Stage /\ search.results \in [Addresses -> Result]
    BY <1>1 DEF Search
  <2>2. \A l \in DOMAIN search.loops :
            search.loops[l].at \in 0 .. Len(search.tokens) /\ search.loops[l].awaits \in DOMAIN search.sent
    BY <1>1 DEF Sorted
  <2> QED
    BY <1>2, <1>3, <2>1, <2>2 DEF SearchTypeOK, Stage, Result
<1>5. \A a, n : Said(a, n) <=> SaidIn(search, a, n)
  BY DEF Said, SaidIn
<1>6. ToldIsSaid
  <2>1. ASSUME search.stage \in {"loop", "broken", "timeout"}, NEW a \in Wanted(search)
        PROVE  /\ ~ search.results[a].error => ~ search.covered \/ Said(a, search.results[a].hits)
               /\ search.results[a].hits > 0 => Said(a, search.results[a].hits)
    <3>1. Honest(search)
      BY <2>1 DEF SearchInv
    <3>2. a \in Addresses
      BY <1>2
    <3>3. search.results[a].hits > 0 => SaidIn(search, a, search.results[a].hits)
      BY <1>1, <3>2 DEF Sorted
    <3>4. ~ search.results[a].error => ~ search.covered \/ SaidIn(search, a, search.results[a].hits)
      BY <3>1 DEF Honest
    <3> QED
      BY <1>5, <3>3, <3>4
  <2>2. ASSUME search.stage = "loop", Len(search.loops) = 1, NEW id \in DOMAIN search.sent,
               search.sent[id].pc = "answered", search.sent[id].what # Malformed
        PROVE  search.results[search.sent[id].what] = [hits |-> search.sent[id].hits, error |-> FALSE]
    <3> DEFINE r == search.sent[id]
    <3>1. /\ r.what = IF id = 1 THEN Malformed ELSE search.tokens[id - 1]
          /\ id # 1 /\ r.pc = "answered" => search.results[r.what].hits = r.hits /\ ~ search.results[r.what].error
      BY <1>1, <2>2 DEF OneLoop
    <3>2. search.results[r.what].hits = r.hits /\ ~ search.results[r.what].error
      BY <2>2, <3>1
    <3>3. r.what \in Addresses
      BY <1>2, <2>2 DEF Asked
    <3>4. search.results[r.what] \in Result
      BY <1>2, <3>3
    <3> HIDE DEF r
    <3>5. search.results[r.what] = [hits |-> r.hits, error |-> FALSE]
      BY <3>2, <3>4 DEF Result
    <3> QED
      BY <3>5 DEF r
  <2> QED
    BY <2>1, <2>2 DEF ToldIsSaid
<1> QED
  BY <1>4, <1>6

-----------------------------------------------------------------------------
(* What is on screen was loaded.                                            *)

\* The loads begun are the first ones, so that the next number is a new one.
Packed(c) == \E m \in 0 .. MaxCalls : \A i \in Calls : c[i].pc # "none" <=> i <= m

\* There was a load of k.
Known(c, k) == \E i \in Calls : c[i].pc # "none" /\ c[i].key = k

\* No load is forgotten.
Grows(c, d) == \A i \in Calls : c[i].pc # "none" => d[i].pc # "none" /\ d[i].key = c[i].key

\* A cache holds one answer to a load that there was, and the screen shows such a one.
Stored ==
    /\ busy \in BOOLEAN /\ Packed(calls)
    /\ \A k \in Keys : cache[k] = {} \/ (Known(calls, k) /\ \E v \in Values : cache[k] = {v})
    /\ shown # Blank => Known(calls, shown.of)

Kept == Stored /\ (here # Blank => sel # Nobody /\ here.of.pair = sel.pair)

LEMMA KnownStays ==
    ASSUME NEW c, NEW d, Grows(c, d) PROVE \A k : Known(c, k) => Known(d, k)
BY DEF Known, Grows

LEMMA SameBegun ==
    ASSUME NEW c, NEW d, \A i \in Calls : (c[i].pc # "none" <=> d[i].pc # "none") /\ d[i].key = c[i].key
    PROVE  Grows(c, d) /\ (Packed(c) => Packed(d))
BY DEF Grows, Packed

LEMMA DisarmedGrows ==
    ASSUME IInv
    PROVE  Grows(calls, Disarmed) /\ (Packed(calls) => Packed(Disarmed))
<1>1. \A i \in Calls : (calls[i].pc # "none" <=> Disarmed[i].pc # "none") /\ Disarmed[i].key = calls[i].key
  BY DEF IInv, Typed, Disarmed, Load
<1> QED
  BY <1>1, SameBegun

LEMMA LoadsGrow ==
    ASSUME IInv, Packed(calls), NEW k \in Keys, Loads(k)
    PROVE  Grows(calls, calls') /\ Packed(calls') /\ busy' \in BOOLEAN /\ shown' \in {Blank, shown}
<1>1. PICK m \in 0 .. MaxCalls : \A i \in Calls : calls[i].pc # "none" <=> i <= m
  BY DEF Packed
<1>2. MaxCalls \in Nat /\ m \in Nat
  BY <1>1, PanelsAssumption
<1>3. Cardinality(Begun) = m
  <2>1. Begun = 1 .. m
    BY <1>1, <1>2 DEF Begun, Calls
  <2>2. Cardinality(1 .. m) = IF 1 > m THEN 0 ELSE m - 1 + 1
    BY <1>2, FS_Interval
  <2> QED
    BY <1>2, <2>1, <2>2
<1> DEFINE n == m + 1
           new == [key |-> k, pc |-> IF panel.guard = "gen" THEN "armed" ELSE "asked"]
<1>4. /\ n \in Calls /\ calls' = [Disarmed EXCEPT ![n] = new]
      /\ busy' = panel.flag /\ shown' = IF panel.resets THEN Blank ELSE shown
  BY <1>3 DEF Loads
<1>5. Disarmed \in [Calls -> Load] /\ \A i \in Calls : Disarmed[i].key = calls[i].key
  BY DisarmedTyped
<1>6. \A i \in Calls : calls[i].pc # "none" <=> Disarmed[i].pc # "none"
  BY DEF IInv, Typed, Disarmed, Load
<1>7. new.pc # "none"
  OBVIOUS
<1> HIDE DEF new
<1>8. calls'[n].pc # "none" /\ \A i \in Calls : i # n => calls'[i] = Disarmed[i]
  BY <1>4, <1>5, <1>7
<1>9. Grows(calls, calls')
  <2>1. ASSUME NEW i \in Calls, calls[i].pc # "none" PROVE calls'[i].pc # "none" /\ calls'[i].key = calls[i].key
    <3>1. i <= m
      BY <1>1, <2>1
    <3>2. i # n
      BY <1>2, <3>1 DEF Calls
    <3> QED
      BY <1>5, <1>6, <1>8, <2>1, <3>2
  <2> QED
    BY <2>1 DEF Grows
<1>10. Packed(calls')
  <2>1. n \in 0 .. MaxCalls
    BY <1>2, <1>4 DEF Calls
  <2>2. ASSUME NEW i \in Calls PROVE calls'[i].pc # "none" <=> i <= n
    <3>1. CASE i = n
      BY <1>2, <1>8, <3>1
    <3>2. CASE i # n
      <4>1. i <= n <=> i <= m
        BY <1>2, <3>2 DEF Calls
      <4> QED
        BY <1>1, <1>6, <1>8, <3>2, <4>1
    <3> QED
      BY <3>1, <3>2
  <2> HIDE DEF n
  <2> QED
    BY <2>1, <2>2 DEF Packed
<1>11. busy' \in BOOLEAN
  BY <1>4, PolicyFacts DEF IInv, Typed, Sound
<1> QED
  BY <1>4, <1>9, <1>10, <1>11

\* What a step of the loads leaves that adds nothing to what is cached and shown.
LEMMA StoredStays ==
    ASSUME Stored, Grows(calls, calls'), Packed(calls'), busy' \in BOOLEAN,
           cache' = cache, shown' \in {Blank, shown}
    PROVE  Stored'
<1>1. \A k : Known(calls, k) => Known(calls', k)
  BY KnownStays
<1>2. \A k \in Keys : cache'[k] = {} \/ (Known(calls', k) /\ \E v \in Values : cache'[k] = {v})
  BY <1>1 DEF Stored
<1>3. shown' # Blank => Known(calls', shown'.of)
  BY <1>1 DEF Stored
<1> QED
  BY <1>2, <1>3 DEF Stored

LEMMA SelectStores ==
    ASSUME IInv, Stored, NEW k \in Key, Select(k) PROVE Stored'
<1>1. cache' = cache
  BY DEF Select
<1>2. CASE k = Nobody /\ panel.idle # "never" /\ Idles
  <2>1. calls' = Disarmed /\ busy' \in BOOLEAN /\ shown' \in {Blank, shown}
    BY <1>2 DEF Idles
  <2> QED
    BY <1>1, <2>1, DisarmedGrows, StoredStays DEF Stored
<1>3. CASE k # Nobody /\ Hits(k)
  <2>1. k \in Keys /\ calls' = Disarmed /\ busy' = FALSE
    BY <1>3 DEF Hits, Key
  <2>2. PICK v \in cache[k] : shown' = [of |-> k, what |-> v]
    BY <1>3 DEF Hits
  <2>3. Grows(calls, calls') /\ Packed(calls')
    BY <2>1, DisarmedGrows DEF Stored
  <2>4. \A j : Known(calls, j) => Known(calls', j)
    BY <2>3, KnownStays
  <2>5. Known(calls', shown'.of)
    BY <2>1, <2>2, <2>4 DEF Stored
  <2>6. \A j \in Keys : cache'[j] = {} \/ (Known(calls', j) /\ \E u \in Values : cache'[j] = {u})
    BY <1>1, <2>4 DEF Stored
  <2> QED
    BY <2>1, <2>3, <2>5, <2>6 DEF Stored
<1>4. CASE k # Nobody /\ panel.follows /\ cache[k] = {} /\ Loads(k)
  <2>1. k \in Keys
    BY <1>4 DEF Key
  <2>2. Grows(calls, calls') /\ Packed(calls') /\ busy' \in BOOLEAN /\ shown' \in {Blank, shown}
    BY <1>4, <2>1, LoadsGrow DEF Stored
  <2> QED
    BY <1>1, <2>2, StoredStays
<1>5. CASE UNCHANGED <<shown, busy, calls, current>>
  BY <1>1, <1>5 DEF Stored
<1> QED
  BY <1>2, <1>3, <1>4, <1>5 DEF Select

LEMMA EndsStore ==
    ASSUME IInv, Stored, NEW i \in Calls, Late(i) \/ Answers(i) \/ Fails(i) PROVE Stored'
<1>1. PICK p \in {"done", "failed"} : calls[i].pc = "asked" /\ calls' = [calls EXCEPT ![i].pc = p]
  BY DEF Late, Answers, Fails, Ends
<1>2. calls \in [Calls -> Load] /\ cache \in [Keys -> SUBSET Values] /\ Something \in Values
  BY PanelsAssumption DEF IInv, Typed, Something
<1>3. Grows(calls, calls') /\ Packed(calls')
  <2>1. \A j \in Calls : (calls[j].pc # "none" <=> calls'[j].pc # "none") /\ calls'[j].key = calls[j].key
    BY <1>1, <1>2 DEF Load
  <2> QED
    BY <2>1, SameBegun DEF Stored
<1>4. \A j : Known(calls, j) => Known(calls', j)
  BY <1>3, KnownStays
<1>5. CASE Late(i)
  BY <1>3, <1>5, StoredStays DEF Late, Stored
<1>6. CASE Fails(i)
  <2>1. cache' = cache /\ busy' = FALSE /\ shown' \in {Blank, shown}
    BY <1>6 DEF Fails, Left, Lowers
  <2> QED
    BY <1>3, <2>1, StoredStays
<1>7. CASE Answers(i)
  <2>1. busy' = FALSE
    BY <1>7 DEF Answers, Lowers
  <2>2. PICK v \in Values :
           /\ shown' = [of |-> calls[i].key, what |-> v]
           /\ cache' = IF panel.guard = "gen" THEN [cache EXCEPT ![calls[i].key] = {v}] ELSE cache
    BY <1>2, <1>7 DEF Answers
  <2>3. Known(calls', calls[i].key)
    <3>1. Known(calls, calls[i].key)
      BY <1>1 DEF Known
    <3> QED
      BY <1>4, <3>1
  <2>4. shown'.of = calls[i].key
    BY <2>2
  <2>5. ASSUME NEW k \in Keys PROVE cache'[k] = {} \/ (Known(calls', k) /\ \E u \in Values : cache'[k] = {u})
    <3>1. cache'[k] = cache[k] \/ (k = calls[i].key /\ cache'[k] = {v})
      BY <1>2, <2>2
    <3>2. cache[k] = {} \/ (Known(calls, k) /\ \E u \in Values : cache[k] = {u})
      BY DEF Stored
    <3> QED
      BY <1>4, <2>3, <3>1, <3>2
  <2> QED
    BY <1>3, <2>1, <2>3, <2>4, <2>5 DEF Stored
<1> QED
  BY <1>5, <1>6, <1>7

LEMMA PanelsStore ==
    ASSUME IInv, Stored, PanelsNext PROVE Stored'
<1>1. CASE \E k \in Key : Select(k)
  BY <1>1, SelectStores
<1>2. CASE Again
  <2>1. sel \in Keys /\ Loads(sel) /\ cache' = cache
    BY <1>2 DEF Again, IInv, Typed, Key
  <2>2. Grows(calls, calls') /\ Packed(calls') /\ busy' \in BOOLEAN /\ shown' \in {Blank, shown}
    BY <2>1, LoadsGrow DEF Stored
  <2> QED
    BY <2>1, <2>2, StoredStays
<1>3. ASSUME NEW i \in Calls, Fires(i) PROVE Stored'
  <2>1. calls[i].pc = "armed" /\ calls' = [calls EXCEPT ![i].pc = "asked"] /\ UNCHANGED <<shown, busy, cache>>
    BY <1>3 DEF Fires
  <2>2. \A j \in Calls : (calls[j].pc # "none" <=> calls'[j].pc # "none") /\ calls'[j].key = calls[j].key
    BY <2>1 DEF IInv, Typed, Load
  <2>3. Grows(calls, calls') /\ Packed(calls')
    BY <2>2, SameBegun DEF Stored
  <2> QED
    BY <2>1, <2>3, StoredStays DEF Stored
<1>4. CASE \E i \in Calls : Late(i) \/ Answers(i) \/ Fails(i)
  BY <1>4, EndsStore
<1>5. ASSUME NEW k \in Keys, Expires(k) PROVE Stored'
  <2>1. cache' = [cache EXCEPT ![k] = {}] /\ UNCHANGED <<shown, busy, calls>>
    BY <1>5 DEF Expires
  <2>2. \A j \in Keys : cache'[j] \in {{}, cache[j]}
    BY <2>1 DEF IInv, Typed
  <2> QED
    BY <2>1, <2>2 DEF Stored
<1> QED
  BY <1>1, <1>2, <1>3, <1>4, <1>5 DEF PanelsNext, Key

PanelsIInv == IInv /\ Kept /\ SearchInv(search)

LEMMA PanelsInitInv == DiscoveryInit => PanelsIInv
<1> SUFFICES ASSUME DiscoveryInit PROVE PanelsIInv
  OBVIOUS
<1>1. calls = [i \in Calls |-> NotMade] /\ cache = [k \in Keys |-> {}] /\ busy = FALSE /\ shown = Blank /\ here = Blank
  BY DEF DiscoveryInit, RadarInit, PanelsInit
<1>2. Packed(calls)
  <2>1. 0 \in 0 .. MaxCalls /\ \A i \in Calls : ~ (i <= 0)
    BY PanelsAssumption DEF Calls
  <2>2. \A i \in Calls : calls[i].pc = "none"
    BY <1>1 DEF NotMade
  <2> QED
    BY <2>1, <2>2 DEF Packed
<1>3. Kept
  BY <1>1, <1>2 DEF Kept, Stored
<1>4. SearchInv(search)
  BY SearchBegins DEF DiscoveryInit
<1> QED
  BY <1>3, <1>4, InitInv DEF PanelsIInv

LEMMA PanelsNextInv == PanelsIInv /\ [DiscoveryNext]_<<radarVars, search>> => PanelsIInv'
<1> SUFFICES ASSUME PanelsIInv, [DiscoveryNext]_<<radarVars, search>> PROVE PanelsIInv'
  OBVIOUS
<1>1. IInv /\ Kept /\ Stored /\ SearchInv(search)
  BY DEF PanelsIInv, Kept
<1>2. IInv'
  BY <1>1, NextInv
<1>3. SearchInv(search')
  BY <1>1, SearchKeeps DEF DiscoveryNext
<1>4. Kept'
  <2>1. CASE PanelsNext /\ Follows
    <3>1. Stored'
      BY <1>1, <2>1, PanelsStore
    <3>2. here' # Blank => sel' # Nobody /\ here'.of.pair = sel'.pair
      BY <2>1 DEF Follows
    <3> QED
      BY <3>1, <3>2 DEF Kept
  <2>2. CASE Lands
    <3>1. Stored'
      BY <1>1, <2>2 DEF Lands, panelVars, Stored
    <3>2. here' # Blank => sel' # Nobody /\ here'.of.pair = sel'.pair
      BY <2>2 DEF Lands, panelVars
    <3> QED
      BY <3>1, <3>2 DEF Kept
  <2>3. CASE UNCHANGED radarVars
    BY <1>1, <2>3 DEF radarVars, panelVars, Kept, Stored
  <2> QED
    BY <2>1, <2>2, <2>3 DEF DiscoveryNext, RadarNext
<1> QED
  BY <1>2, <1>3, <1>4 DEF PanelsIInv

LEMMA PanelsImplies == PanelsIInv => PanelsInv
<1> SUFFICES ASSUME PanelsIInv PROVE PanelsInv
  OBVIOUS
<1>1. IInv /\ Kept /\ SearchInv(search)
  BY DEF PanelsIInv
<1>2. ASSUME NEW k \in Keys PROVE cache[k] \in SUBSET Values /\ Cardinality(cache[k]) <= 1
  <2>1. CASE cache[k] = {}
    BY <2>1, FS_EmptySet
  <2>2. CASE \E v \in Values : cache[k] = {v}
    <3>1. PICK v \in Values : cache[k] = {v}
      BY <2>2
    <3>2. Cardinality({v}) = 1
      BY FS_Singleton
    <3> QED
      BY <3>1, <3>2
  <2> QED
    BY <1>1, <2>1, <2>2 DEF Kept, Stored
<1>3. shown # Blank => \E i \in Begun : calls[i].key = shown.of
  BY <1>1 DEF Kept, Stored, Known, Begun
<1>4. PanelsTypeOK
  BY <1>1, <1>2, <1>3 DEF IInv, Typed, Kept, Stored, PanelsTypeOK, Key, Content, Load
<1>5. TypeOK
  BY <1>1, <1>4 DEF IInv, Typed, Kept, TypeOK, Key, Content
<1> QED
  BY <1>1, <1>5, SearchImplies DEF IInv, PanelsInv

(***************************************************************************)
(* For any lists of tokens, numbers of loads, requests and endpoints: the  *)
(* panels stay well formed, settle on what is selected, and never show     *)
(* another's content; and a search for subgraphs reports of a token only   *)
(* what the server said of that token, however late and out of order the   *)
(* replies, and with a stream that holds loses no token's answer to the    *)
(* failure of another (subgraphMcp.ts:83-287).                             *)
(***************************************************************************)
THEOREM PanelsAreRight == DiscoverySpec => []PanelsInv
BY PanelsInitInv, PanelsNextInv, PanelsImplies, PTL DEF DiscoverySpec

-----------------------------------------------------------------------------
(***************************************************************************)
(* The maker's tabs.                                                       *)
(***************************************************************************)
Kind == {"none", "ship", "approve", "dock"}
Step == {"none", "building", "checking", "signing", "waiting", "reloading", "done"}
Status == {"none", "pending", "success", "reverted", "out of gas"}
Tx == [chain : Chains \cup {"none"}, status : Status]
Job == [kind : Kind, row : Rows \cup {"none"}, forChain : Chains \cup {"none"}, mount : 0 .. MaxMounts,
        pc : Step, tx : Tx]
Line == [busy : BOOLEAN, approving : BOOLEAN, shipped : {0} \cup Jobs, error : BOOLEAN]
DockState == {"idle", "confirm", "checking", "signing", "mining", "done", "error"}

\* A job that was not started is NoJob; a dock is of a row of the chain it is for,
\* pressed in a mounting of the portfolio.
StartedOK(j) ==
    /\ jobs[j].kind = "none" => jobs[j] = NoJob
    /\ jobs[j].kind # "none" => jobs[j].mount <= tab.mount /\ jobs[j].pc # "none"
    /\ jobs[j].kind = "dock" =>
          /\ jobs[j].row \in Rows /\ jobs[j].forChain = Home[jobs[j].row]
          /\ jobs[j].mount = tab.mount => tab.name = "portfolio"

\* What was sent was simulated and went to the chain it is for, if it is a dock; what
\* has come of it is on the chain.
SentOK(j) ==
    /\ jobs[j].pc \in {"none", "building", "checking", "signing"} => jobs[j].tx = NotSent
    /\ jobs[j].tx.status # "none" => jobs[j].tx.chain \in Chains
    /\ jobs[j].kind = "dock" /\ (jobs[j].pc = "signing" \/ jobs[j].tx.status # "none") => jobs[j].row \notin Mislisted
    /\ jobs[j].kind = "dock" /\ jobs[j].tx.status # "none" => jobs[j].tx.chain = jobs[j].forChain
    /\ jobs[j].kind = "ship" /\ jobs[j].tx.status = "success" =>
          [job |-> j, chain |-> jobs[j].tx.chain] \in published
    /\ jobs[j].kind = "dock" /\ jobs[j].tx.status \in {"success", "reverted"} => jobs[j].row \in docked

\* The line of the Provide tab names a job that ships.
ShippedOK ==
    provide.shipped # 0 =>
        /\ jobs[provide.shipped].kind = "ship"
        /\ [job |-> provide.shipped, chain |-> jobs[provide.shipped].forChain] \in published

DeskIInv ==
    /\ DeskTypeOK
    /\ \A j \in Jobs : StartedOK(j) /\ SentOK(j)
    /\ ShippedOK
    /\ DoneMeansDocked

-----------------------------------------------------------------------------
LEMMA TypeOKUnfold ==
    DeskTypeOK <=>
      /\ net \in Chains /\ wallet \in Chains
      /\ tab \in [name : {"provide", "portfolio"}, mount : 1 .. MaxMounts]
      /\ jobs \in [Jobs -> Job]
      /\ provide \in Line
      /\ dock \in [Rows -> DockState]
      /\ published \subseteq [job : Jobs, chain : Chains] /\ docked \subseteq Rows
      /\ \A r \in Rows : dock[r] # "idle" => tab.name = "portfolio"
BY DEF DeskTypeOK, Job, Kind, Step, Tx, Status, Line, DockState

LEMMA DeskInitInv == Init => DeskIInv
<1> SUFFICES ASSUME Init PROVE DeskIInv
  OBVIOUS
<1> USE MakerDeskAssumption DEF Init
<1>1. jobs \in [Jobs -> Job]
  BY DEF NoJob, NotSent, Job, Kind, Step, Tx, Status
<1>2. DeskTypeOK
  BY <1>1, TypeOKUnfold DEF Fresh, Line, DockState
<1>3. \A j \in Jobs : StartedOK(j) /\ SentOK(j)
  BY DEF StartedOK, SentOK, NoJob, NotSent
<1>4. ShippedOK /\ DoneMeansDocked
  BY DEF ShippedOK, DoneMeansDocked, Fresh
<1> QED
  BY <1>2, <1>3, <1>4 DEF DeskIInv

-----------------------------------------------------------------------------
(* What a step may do to one job, to the line and to the rows.              *)

LEMMA JobTyped == ASSUME DeskIInv, NEW j \in Jobs PROVE jobs \in [Jobs -> Job] /\ jobs[j] \in Job
BY TypeOKUnfold DEF DeskIInv

LEMMA GoesKeeps ==
    ASSUME DeskIInv, NEW j \in Jobs, NEW p \in Step \ {"none"}, Goes(j, p), jobs[j].kind # "none",
           tab' = tab, UNCHANGED Chain,
           p \in {"building", "checking", "signing"} => jobs[j].tx = NotSent,
           p = "signing" /\ jobs[j].kind = "dock" => jobs[j].row \notin Mislisted
    PROVE  /\ jobs' \in [Jobs -> Job]
           /\ \A i \in Jobs : (StartedOK(i) /\ SentOK(i))'
           /\ \A i \in Jobs : jobs'[i].kind = jobs[i].kind /\ jobs'[i].forChain = jobs[i].forChain
<1>1. jobs \in [Jobs -> Job]
  BY TypeOKUnfold DEF DeskIInv
<1>2. jobs' = [jobs EXCEPT ![j] = [jobs[j] EXCEPT !.pc = p]]
  BY <1>1 DEF Goes, Job
<1>3. [jobs[j] EXCEPT !.pc = p] \in Job
  BY <1>1 DEF Job
<1>4. jobs' \in [Jobs -> Job]
  BY <1>1, <1>2, <1>3
<1>5. \A i \in Jobs : /\ jobs'[i].kind = jobs[i].kind /\ jobs'[i].forChain = jobs[i].forChain
                      /\ jobs'[i].row = jobs[i].row /\ jobs'[i].tx = jobs[i].tx /\ jobs'[i].mount = jobs[i].mount
                      /\ jobs'[i].pc = IF i = j THEN p ELSE jobs[i].pc
  BY <1>1, <1>2 DEF Job
<1>6. \A i \in Jobs : i # j => jobs'[i] = jobs[i]
  BY <1>1, <1>2
<1>7. ASSUME NEW i \in Jobs PROVE StartedOK(i)'
  <2>1. StartedOK(i)
    BY DEF DeskIInv
  <2> QED
    BY <2>1, <1>5, <1>6 DEF StartedOK
<1>8. ASSUME NEW i \in Jobs PROVE SentOK(i)'
  <2>1. SentOK(i)
    BY DEF DeskIInv
  <2>2. published' = published /\ docked' = docked
    BY DEF Chain
  <2> QED
    BY <2>1, <2>2, <1>5 DEF SentOK
<1> QED
  BY <1>4, <1>5, <1>7, <1>8

LEMMA LineKeeps ==
    ASSUME DeskIInv, provide' \in Line, provide'.shipped \in {0, provide.shipped}, published \subseteq published',
           \A i \in Jobs : jobs[i].kind = "ship" => jobs'[i].kind = "ship" /\ jobs'[i].forChain = jobs[i].forChain
    PROVE  ShippedOK'
<1>1. ShippedOK /\ provide \in Line
  BY TypeOKUnfold DEF DeskIInv
<1> QED
  BY <1>1 DEF ShippedOK, Line

\* Rows: one may be set, by a job of the tab that is open.
LEMMA RowKeeps ==
    ASSUME DeskIInv, NEW j \in Jobs, NEW k \in DockState, jobs[j].kind = "dock", ShowsDock(j, k), tab' = tab,
           UNCHANGED Chain, k = "done" => jobs[j].row \in docked
    PROVE  /\ dock' \in [Rows -> DockState] /\ DoneMeansDocked'
           /\ \A r \in Rows : dock'[r] # "idle" => tab'.name = "portfolio"
<1>1. dock \in [Rows -> DockState] /\ \A r \in Rows : dock[r] # "idle" => tab.name = "portfolio"
  BY TypeOKUnfold DEF DeskIInv
<1>2. StartedOK(j) /\ DoneMeansDocked
  BY DEF DeskIInv
<1>3. CASE Mounted(j)
  <2>1. jobs[j].row \in Rows /\ tab.name = "portfolio"
    BY <1>2, <1>3 DEF StartedOK, Mounted
  <2>2. dock' = [dock EXCEPT ![jobs[j].row] = k] /\ docked' = docked
    BY <1>3 DEF ShowsDock, setDockFor, Chain
  <2> QED
    BY <1>1, <1>2, <2>1, <2>2 DEF DoneMeansDocked
<1>4. CASE ~ Mounted(j)
  <2>1. dock' = dock /\ docked' = docked
    BY <1>4 DEF ShowsDock, Chain
  <2> QED
    BY <1>1, <1>2, <2>1 DEF DoneMeansDocked
<1> QED
  BY <1>3, <1>4

LEMMA DockStays ==
    ASSUME DeskIInv, UNCHANGED dock, docked \subseteq docked', tab' = tab
    PROVE  /\ dock' \in [Rows -> DockState] /\ DoneMeansDocked'
           /\ \A r \in Rows : dock'[r] # "idle" => tab'.name = "portfolio"
<1>1. dock \in [Rows -> DockState] /\ \A r \in Rows : dock[r] # "idle" => tab.name = "portfolio"
  BY TypeOKUnfold DEF DeskIInv
<1> QED
  BY <1>1 DEF DoneMeansDocked, DeskIInv

LEMMA FailedKeeps ==
    ASSUME DeskIInv, NEW j \in Jobs, Failed(j), jobs[j].kind # "none", UNCHANGED <<Page, Chain>>
    PROVE  DeskIInv'
<1>1. Goes(j, "done") /\ tab' = tab /\ net' = net /\ wallet' = wallet
  BY DEF Failed, Page
<1>2. /\ jobs' \in [Jobs -> Job]
      /\ \A i \in Jobs : (StartedOK(i) /\ SentOK(i))'
      /\ \A i \in Jobs : jobs'[i].kind = jobs[i].kind /\ jobs'[i].forChain = jobs[i].forChain
  BY <1>1, GoesKeeps DEF Step
<1>3. provide \in Line /\ jobs[j] \in Job
  BY TypeOKUnfold, JobTyped DEF DeskIInv
<1>4. /\ provide' \in Line /\ provide'.shipped = provide.shipped
      /\ \/ UNCHANGED dock
         \/ jobs[j].kind = "dock" /\ ShowsDock(j, "error")
  <2>1. CASE jobs[j].kind \in {"ship", "approve"}
    BY <2>1, <1>3 DEF Failed, Shows, Flags, Line
  <2>2. CASE jobs[j].kind = "dock"
    BY <2>2, <1>3 DEF Failed
  <2> QED
    BY <1>3, <2>1, <2>2 DEF Job, Kind
<1>5. published' = published /\ docked' = docked
  BY DEF Chain
<1>6. /\ dock' \in [Rows -> DockState] /\ DoneMeansDocked'
      /\ \A r \in Rows : dock'[r] # "idle" => tab'.name = "portfolio"
  BY <1>1, <1>4, <1>5, RowKeeps, DockStays DEF DockState
<1>7. ShippedOK'
  BY <1>2, <1>4, <1>5, LineKeeps
<1>8. DeskTypeOK'
  BY <1>1, <1>2, <1>4, <1>5, <1>6, TypeOKUnfold DEF DeskTypeOK, DeskIInv, Job, Kind, Step, Tx, Status, Line, DockState
<1> QED
  BY <1>2, <1>6, <1>7, <1>8 DEF DeskIInv

-----------------------------------------------------------------------------
(* The page, the wallet and the presses.                                    *)

LEMMA MovesKeep ==
    ASSUME DeskIInv, NEW c \in Chains, handleSwitchChain(c) \/ WalletMoves(c)
    PROVE  DeskIInv'
<1>1. /\ net' \in Chains /\ wallet' \in Chains
      /\ UNCHANGED <<tab, jobs, provide, dock, published, docked>>
  BY TypeOKUnfold DEF DeskIInv, handleSwitchChain, WalletMoves, Chain
<1>2. DeskTypeOK'
  BY <1>1, TypeOKUnfold DEF DeskIInv, DeskTypeOK
<1>3. \A j \in Jobs : (StartedOK(j) /\ SentOK(j))'
  BY <1>1 DEF DeskIInv, StartedOK, SentOK
<1>4. ShippedOK' /\ DoneMeansDocked'
  BY <1>1 DEF DeskIInv, ShippedOK, DoneMeansDocked
<1> QED
  BY <1>2, <1>3, <1>4 DEF DeskIInv

LEMMA OpenTabKeeps ==
    ASSUME DeskIInv, NEW t \in {"provide", "portfolio"}, OpenTab(t)
    PROVE  DeskIInv'
<1>1. tab \in [name : {"provide", "portfolio"}, mount : 1 .. MaxMounts] /\ jobs \in [Jobs -> Job]
  BY TypeOKUnfold DEF DeskIInv
<1>2. /\ tab' = [name |-> t, mount |-> tab.mount + 1] /\ tab.mount < MaxMounts
      /\ provide' = Fresh /\ dock' = [r \in Rows |-> "idle"]
      /\ UNCHANGED <<net, wallet, jobs, published, docked>>
  BY DEF OpenTab, Flags, Chain
<1>3. tab' \in [name : {"provide", "portfolio"}, mount : 1 .. MaxMounts]
  BY <1>1, <1>2, MakerDeskAssumption
<1>4. DeskTypeOK'
  BY <1>2, <1>3, TypeOKUnfold DEF DeskIInv, DeskTypeOK, Fresh
<1>5. ASSUME NEW j \in Jobs PROVE StartedOK(j)'
  <2>1. StartedOK(j) /\ jobs[j].mount \in 0 .. MaxMounts
    BY <1>1 DEF DeskIInv, Job
  <2>2. tab'.mount = tab.mount + 1 /\ jobs'[j] = jobs[j] /\ tab.mount \in 1 .. MaxMounts
    BY <1>1, <1>2
  <2> QED
    BY <2>1, <2>2, MakerDeskAssumption DEF StartedOK
<1>6. ASSUME NEW j \in Jobs PROVE SentOK(j)'
  BY <1>2 DEF DeskIInv, SentOK
<1>7. ShippedOK' /\ DoneMeansDocked'
  BY <1>2 DEF ShippedOK, DoneMeansDocked, Fresh
<1> QED
  BY <1>4, <1>5, <1>6, <1>7 DEF DeskIInv

LEMMA StartsKeeps ==
    ASSUME DeskIInv, NEW kind \in Kind \ {"none"}, NEW r \in Rows \cup {"none"},
           NEW p \in {"building", "checking", "signing"}, Starts(kind, r, p),
           tab' = tab, UNCHANGED Chain,
           kind = "dock" => r \in Rows /\ Home[r] = net /\ tab.name = "portfolio" /\ p # "signing"
    PROVE  /\ jobs' \in [Jobs -> Job]
           /\ \A i \in Jobs : (StartedOK(i) /\ SentOK(i))'
           /\ \A i \in Jobs : jobs[i].kind # "none" => jobs'[i] = jobs[i]
<1>1. jobs \in [Jobs -> Job] /\ net \in Chains /\ tab.mount \in 0 .. MaxMounts
  BY TypeOKUnfold, MakerDeskAssumption DEF DeskIInv
<1> DEFINE new == [kind |-> kind, row |-> r, forChain |-> net, mount |-> tab.mount, pc |-> p, tx |-> NotSent]
<1>2. PICK j \in Jobs : jobs[j] = NoJob /\ jobs' = [jobs EXCEPT ![j] = new]
  BY DEF Starts
<1>3. new \in Job
  BY <1>1 DEF Job, Kind, Step, Tx, Status, NotSent
<1>4. jobs' \in [Jobs -> Job]
  BY <1>1, <1>2, <1>3
<1>5. \A i \in Jobs : i # j => jobs'[i] = jobs[i]
  BY <1>1, <1>2
<1>6. jobs'[j] = new
  BY <1>1, <1>2
<1>7. published' = published /\ docked' = docked
  BY DEF Chain
<1>8. ASSUME NEW i \in Jobs PROVE (StartedOK(i) /\ SentOK(i))'
  <2>1. CASE i = j
    <3>1. StartedOK(i)'
      BY <2>1, <1>1, <1>6 DEF StartedOK, Kind
    <3>2. SentOK(i)'
      BY <2>1, <1>6 DEF SentOK, NotSent
    <3> QED
      BY <3>1, <3>2
  <2>2. CASE i # j
    BY <2>2, <1>5, <1>7 DEF DeskIInv, StartedOK, SentOK
  <2> QED
    BY <2>1, <2>2
<1>9. jobs[j].kind = "none"
  BY <1>2 DEF NoJob
<1> QED
  BY <1>4, <1>5, <1>8, <1>9

LEMMA ProvidePressKeeps ==
    ASSUME DeskIInv, handleShip \/ handleApproveAqua
    PROVE  DeskIInv'
<1>1. /\ UNCHANGED <<Page, dock, Chain>>
      /\ \/ Starts("ship", "none", "building")
         \/ Starts("approve", "none", "signing")
      /\ \/ provide' = [provide EXCEPT !.busy = TRUE, !.error = FALSE, !.shipped = 0]
         \/ provide' = [provide EXCEPT !.approving = TRUE, !.error = FALSE]
  BY DEF handleShip, handleApproveAqua, Flags
<1>2. tab' = tab /\ net' = net /\ wallet' = wallet /\ UNCHANGED Chain /\ published' = published /\ docked' = docked
  BY <1>1 DEF Page, Chain
<1>3. /\ jobs' \in [Jobs -> Job]
      /\ \A i \in Jobs : (StartedOK(i) /\ SentOK(i))'
      /\ \A i \in Jobs : jobs[i].kind # "none" => jobs'[i] = jobs[i]
  BY <1>1, <1>2, StartsKeeps DEF Kind
<1>4. provide \in Line
  BY TypeOKUnfold DEF DeskIInv
<1>5. provide' \in Line /\ provide'.shipped \in {0, provide.shipped}
  BY <1>1, <1>4 DEF Line
<1>6. ShippedOK'
  BY <1>2, <1>3, <1>5, LineKeeps
<1>7. /\ dock' \in [Rows -> DockState] /\ DoneMeansDocked'
      /\ \A r \in Rows : dock'[r] # "idle" => tab'.name = "portfolio"
  BY <1>1, <1>2, DockStays
<1>8. DeskTypeOK'
  BY <1>2, <1>3, <1>5, <1>7, TypeOKUnfold DEF DeskTypeOK, DeskIInv, Job, Kind, Step, Tx, Status, Line, DockState
<1> QED
  BY <1>3, <1>6, <1>7, <1>8 DEF DeskIInv

LEMMA PortfolioPressKeeps ==
    ASSUME DeskIInv, NEW r \in Rows, onAsk(r) \/ onCancel(r) \/ onConfirm(r)
    PROVE  DeskIInv'
<1>1. /\ UNCHANGED <<Page, provide, Chain>> /\ Here(r)
      /\ \E k \in {"confirm", "idle", "checking"} : setDockFor(r, k)
      /\ \/ UNCHANGED jobs
         \/ Starts("dock", r, "checking")
  BY DEF onAsk, onCancel, onConfirm
<1>2. tab' = tab /\ net' = net /\ wallet' = wallet /\ UNCHANGED Chain /\ published' = published /\ docked' = docked
  BY <1>1 DEF Page, Chain
<1>3. Home[r] = net /\ tab.name = "portfolio"
  BY <1>1 DEF Here
<1>4. /\ jobs' \in [Jobs -> Job]
      /\ \A i \in Jobs : (StartedOK(i) /\ SentOK(i))'
      /\ \A i \in Jobs : jobs[i].kind # "none" => jobs'[i] = jobs[i]
  <2>1. CASE UNCHANGED jobs
    BY <2>1, <1>2, TypeOKUnfold DEF DeskIInv, StartedOK, SentOK
  <2>2. CASE Starts("dock", r, "checking")
    BY <2>2, <1>2, <1>3, StartsKeeps DEF Kind
  <2> QED
    BY <1>1, <2>1, <2>2
<1>5. provide' = provide /\ provide \in Line
  BY <1>1, TypeOKUnfold DEF DeskIInv
<1>6. ShippedOK'
  BY <1>2, <1>4, <1>5, LineKeeps
<1>7. dock \in [Rows -> DockState] /\ DoneMeansDocked
  BY TypeOKUnfold DEF DeskIInv
<1>8. PICK k \in {"confirm", "idle", "checking"} : dock' = [dock EXCEPT ![r] = k]
  BY <1>1 DEF setDockFor
<1>9. dock' \in [Rows -> DockState] /\ DoneMeansDocked'
  BY <1>2, <1>7, <1>8 DEF DoneMeansDocked, DockState
<1>10. DeskTypeOK'
  BY <1>2, <1>3, <1>4, <1>5, <1>9, TypeOKUnfold DEF DeskTypeOK, DeskIInv, Job, Kind, Step, Tx, Status, Line, DockState
<1> QED
  BY <1>4, <1>6, <1>9, <1>10 DEF DeskIInv

-----------------------------------------------------------------------------
(* Jobs and the chains.                                                     *)

LEMMA BuiltKeeps ==
    ASSUME DeskIInv, NEW j \in Jobs, Built(j)
    PROVE  DeskIInv'
<1>1. jobs[j].kind = "ship" /\ jobs[j].pc = "building" /\ UNCHANGED <<Page, Chain>>
  BY DEF Built, At
<1>2. CASE Failed(j)
  BY <1>1, <1>2, FailedKeeps
<1>3. CASE Goes(j, "signing") /\ UNCHANGED <<provide, dock>>
  <2>1. tab' = tab /\ net' = net /\ wallet' = wallet /\ UNCHANGED Chain /\ published' = published /\ docked' = docked
    BY <1>1 DEF Page, Chain
  <2>2. jobs[j].tx = NotSent
    BY <1>1 DEF DeskIInv, SentOK
  <2>3. /\ jobs' \in [Jobs -> Job]
        /\ \A i \in Jobs : (StartedOK(i) /\ SentOK(i))'
        /\ \A i \in Jobs : jobs'[i].kind = jobs[i].kind /\ jobs'[i].forChain = jobs[i].forChain
    BY <1>1, <1>3, <2>1, <2>2, GoesKeeps DEF Step
  <2>4. provide' = provide /\ provide \in Line
    BY <1>3, TypeOKUnfold DEF DeskIInv
  <2>5. ShippedOK'
    BY <2>1, <2>3, <2>4, LineKeeps
  <2>6. /\ dock' \in [Rows -> DockState] /\ DoneMeansDocked'
        /\ \A r \in Rows : dock'[r] # "idle" => tab'.name = "portfolio"
    BY <1>3, <2>1, DockStays
  <2>7. DeskTypeOK'
    BY <2>1, <2>3, <2>4, <2>6, TypeOKUnfold DEF DeskTypeOK, DeskIInv, Job, Kind, Step, Tx, Status, Line, DockState
  <2> QED
    BY <2>3, <2>5, <2>6, <2>7 DEF DeskIInv
<1> QED
  BY <1>2, <1>3 DEF Built

LEMMA CheckedKeeps ==
    ASSUME DeskIInv, NEW j \in Jobs, Checked(j)
    PROVE  DeskIInv'
<1>1. jobs[j].kind = "dock" /\ jobs[j].pc = "checking" /\ UNCHANGED <<Page, Chain>>
  BY DEF Checked, At
<1>2. CASE Failed(j)
  BY <1>1, <1>2, FailedKeeps
<1>3. CASE Simulates(jobs[j].row) /\ Goes(j, "signing") /\ ShowsDock(j, "signing") /\ UNCHANGED provide
  <2>1. tab' = tab /\ net' = net /\ wallet' = wallet /\ UNCHANGED Chain /\ published' = published /\ docked' = docked
    BY <1>1 DEF Page, Chain
  <2>2. jobs[j].tx = NotSent /\ jobs[j].row \notin Mislisted
    BY <1>1, <1>3 DEF DeskIInv, SentOK, Simulates, Dockable
  <2>3. /\ jobs' \in [Jobs -> Job]
        /\ \A i \in Jobs : (StartedOK(i) /\ SentOK(i))'
        /\ \A i \in Jobs : jobs'[i].kind = jobs[i].kind /\ jobs'[i].forChain = jobs[i].forChain
    BY <1>1, <1>3, <2>1, <2>2, GoesKeeps DEF Step
  <2>4. provide' = provide /\ provide \in Line
    BY <1>3, TypeOKUnfold DEF DeskIInv
  <2>5. ShippedOK'
    BY <2>1, <2>3, <2>4, LineKeeps
  <2>6. /\ dock' \in [Rows -> DockState] /\ DoneMeansDocked'
        /\ \A r \in Rows : dock'[r] # "idle" => tab'.name = "portfolio"
    BY <1>1, <1>3, <2>1, RowKeeps DEF DockState
  <2>7. DeskTypeOK'
    BY <2>1, <2>3, <2>4, <2>6, TypeOKUnfold DEF DeskTypeOK, DeskIInv, Job, Kind, Step, Tx, Status, Line, DockState
  <2> QED
    BY <2>3, <2>5, <2>6, <2>7 DEF DeskIInv
<1> QED
  BY <1>2, <1>3 DEF Checked

LEMMA SignedKeeps ==
    ASSUME DeskIInv, NEW j \in Jobs, Signed(j)
    PROVE  DeskIInv'
<1>1. /\ jobs[j].pc = "signing" /\ Accepts(j) /\ UNCHANGED <<Page, provide, Chain>>
      /\ jobs' = [jobs EXCEPT ![j].pc = "waiting", ![j].tx = [chain |-> wallet, status |-> "pending"]]
  BY DEF Signed
<1>2. tab' = tab /\ net' = net /\ wallet' = wallet /\ UNCHANGED Chain /\ published' = published /\ docked' = docked
  BY <1>1 DEF Page, Chain
<1>3. jobs \in [Jobs -> Job] /\ wallet \in Chains /\ provide \in Line
  BY TypeOKUnfold DEF DeskIInv
<1>4. /\ jobs' \in [Jobs -> Job]
      /\ \A i \in Jobs : i # j => jobs'[i] = jobs[i]
      /\ jobs'[j].kind = jobs[j].kind /\ jobs'[j].row = jobs[j].row /\ jobs'[j].forChain = jobs[j].forChain
      /\ jobs'[j].mount = jobs[j].mount /\ jobs'[j].pc = "waiting"
      /\ jobs'[j].tx = [chain |-> wallet, status |-> "pending"]
  BY <1>1, <1>3 DEF Job, Step, Tx, Status
<1>5. StartedOK(j) /\ SentOK(j) /\ jobs[j].kind # "none"
  BY <1>1 DEF DeskIInv, StartedOK, NoJob
<1>6. StartedOK(j)'
  BY <1>2, <1>4, <1>5 DEF StartedOK
<1>7. SentOK(j)'
  BY <1>1, <1>2, <1>3, <1>4, <1>5 DEF SentOK, Accepts
<1>8. \A i \in Jobs : (StartedOK(i) /\ SentOK(i))'
  BY <1>2, <1>4, <1>6, <1>7 DEF DeskIInv, StartedOK, SentOK
<1>9. ShippedOK'
  BY <1>1, <1>2, <1>3, <1>4, LineKeeps
<1>10. /\ dock' \in [Rows -> DockState] /\ DoneMeansDocked'
       /\ \A r \in Rows : dock'[r] # "idle" => tab'.name = "portfolio"
  <2>1. UNCHANGED dock \/ (jobs[j].kind = "dock" /\ ShowsDock(j, "mining"))
    BY DEF Signed
  <2> QED
    BY <1>2, <2>1, RowKeeps, DockStays DEF DockState
<1>11. DeskTypeOK'
  BY <1>1, <1>2, <1>3, <1>4, <1>10, TypeOKUnfold DEF DeskTypeOK, DeskIInv, Job, Kind, Step, Tx, Status, Line, DockState
<1> QED
  BY <1>8, <1>9, <1>10, <1>11 DEF DeskIInv

LEMMA StoppedKeeps ==
    ASSUME DeskIInv, NEW j \in Jobs, Rejected(j) \/ ReceiptTimesOut(j)
    PROVE  DeskIInv'
<1>1. Failed(j) /\ UNCHANGED <<Page, Chain>> /\ jobs[j].pc # "none"
  BY DEF Rejected, ReceiptTimesOut
<1>2. jobs[j].kind # "none"
  BY <1>1 DEF DeskIInv, StartedOK, NoJob
<1> QED
  BY <1>1, <1>2, FailedKeeps

LEMMA MinedKeeps ==
    ASSUME DeskIInv, NEW j \in Jobs, Mined(j)
    PROVE  DeskIInv'
<1>1. PICK status \in {"out of gas", IF jobs[j].kind = "dock" /\ ~ Docks(j) THEN "reverted" ELSE "success"} :
          /\ jobs' = [jobs EXCEPT ![j].tx.status = status]
          /\ published' = published \cup
                 {x \in {[job |-> j, chain |-> jobs[j].tx.chain]} : jobs[j].kind = "ship" /\ status = "success"}
          /\ docked' = docked \cup {r \in {jobs[j].row} : jobs[j].kind = "dock" /\ status = "success"}
  BY DEF Mined
<1>2. /\ jobs[j].tx.status = "pending" /\ UNCHANGED <<provide, dock>>
      /\ tab' = tab /\ net' = net /\ wallet' = wallet
  BY DEF Mined, Page
<1>3. jobs \in [Jobs -> Job] /\ provide \in Line /\ docked \subseteq Rows /\ published \subseteq [job : Jobs, chain : Chains]
  BY TypeOKUnfold DEF DeskIInv
<1>4. StartedOK(j) /\ SentOK(j)
  BY DEF DeskIInv
<1>5. status \in Status /\ status # "none"
  BY <1>1 DEF Status
<1>6. /\ jobs' \in [Jobs -> Job]
      /\ \A i \in Jobs : i # j => jobs'[i] = jobs[i]
      /\ jobs'[j].kind = jobs[j].kind /\ jobs'[j].row = jobs[j].row /\ jobs'[j].forChain = jobs[j].forChain
      /\ jobs'[j].mount = jobs[j].mount /\ jobs'[j].pc = jobs[j].pc
      /\ jobs'[j].tx.chain = jobs[j].tx.chain /\ jobs'[j].tx.status = status
  BY <1>1, <1>3, <1>5 DEF Job, Tx
<1>7. published \subseteq published' /\ docked \subseteq docked'
  BY <1>1
<1>8. jobs[j].kind # "none" /\ jobs[j].pc \notin {"none", "building", "checking", "signing"}
  <2>1. jobs[j].tx.status = "pending" /\ NotSent.status = "none" /\ NoJob.tx = NotSent
    BY <1>2 DEF NotSent, NoJob
  <2>2. ASSUME jobs[j].tx = NotSent PROVE FALSE
    BY <2>1, <2>2
  <2>3. ASSUME jobs[j] = NoJob PROVE FALSE
    BY <2>1, <2>2, <2>3
  <2> QED
    BY <1>4, <2>2, <2>3 DEF StartedOK, SentOK
<1>9. docked' \subseteq Rows
  BY <1>1, <1>3, <1>4 DEF StartedOK
<1>10. StartedOK(j)'
  BY <1>2, <1>4, <1>6, <1>8 DEF StartedOK
<1>11. jobs[j].kind = "ship" /\ status = "success" => [job |-> j, chain |-> jobs[j].tx.chain] \in published'
  BY <1>1
<1>12. jobs[j].kind = "dock" /\ status = "success" => jobs[j].row \in docked'
  BY <1>1
<1>13. jobs[j].kind = "dock" /\ status = "reverted" => jobs[j].row \in docked
  <2>1. SUFFICES ASSUME jobs[j].kind = "dock", status = "reverted" PROVE jobs[j].row \in docked
    OBVIOUS
  <2>2. ~ Docks(j)
    BY <1>1, <2>1
  <2>3. jobs[j].tx.chain = Home[jobs[j].row] /\ jobs[j].row \notin Mislisted
    BY <1>2, <1>4, <2>1 DEF StartedOK, SentOK
  <2> QED
    BY <2>2, <2>3 DEF Docks, Dockable
<1>14. SentOK(j)'
  BY <1>2, <1>4, <1>5, <1>6, <1>7, <1>8, <1>11, <1>12, <1>13 DEF SentOK
<1>15. ASSUME NEW i \in Jobs, i # j PROVE (StartedOK(i) /\ SentOK(i))'
  <2>1. StartedOK(i) /\ SentOK(i) /\ jobs'[i] = jobs[i]
    BY <1>6, <1>15 DEF DeskIInv
  <2> QED
    BY <2>1, <1>2, <1>7 DEF StartedOK, SentOK
<1>16. ShippedOK'
  BY <1>2, <1>3, <1>6, <1>7, LineKeeps
<1>17. /\ dock' \in [Rows -> DockState] /\ DoneMeansDocked'
       /\ \A r \in Rows : dock'[r] # "idle" => tab'.name = "portfolio"
  BY <1>2, <1>7, DockStays
<1>18. published' \subseteq [job : Jobs, chain : Chains]
  <2>1. jobs[j].tx.chain \in Chains
    BY <1>2, <1>4 DEF SentOK
  <2>2. [job |-> j, chain |-> jobs[j].tx.chain] \in [job : Jobs, chain : Chains]
    BY <2>1
  <2>3. published' \subseteq published \cup {[job |-> j, chain |-> jobs[j].tx.chain]}
    BY <1>1
  <2> QED
    BY <1>3, <2>2, <2>3
<1>19. DeskTypeOK'
  BY <1>2, <1>3, <1>6, <1>9, <1>17, <1>18, TypeOKUnfold DEF DeskTypeOK, DeskIInv, Job, Kind, Step, Tx, Status, Line, DockState
<1> QED
  BY <1>10, <1>14, <1>15, <1>16, <1>17, <1>19 DEF DeskIInv

LEMMA DockedElsewhereKeeps ==
    ASSUME DeskIInv, NEW r \in Rows, DockedElsewhere(r)
    PROVE  DeskIInv'
<1>1. /\ docked' = docked \cup {r} /\ tab' = tab /\ net' = net /\ wallet' = wallet
      /\ UNCHANGED <<jobs, provide, dock, published>>
  BY DEF DockedElsewhere, Page
<1>2. DeskTypeOK'
  BY <1>1, TypeOKUnfold DEF DeskIInv, DeskTypeOK
<1>3. \A j \in Jobs : (StartedOK(j) /\ SentOK(j))'
  BY <1>1 DEF DeskIInv, StartedOK, SentOK
<1>4. ShippedOK' /\ DoneMeansDocked'
  BY <1>1 DEF DeskIInv, ShippedOK, DoneMeansDocked
<1> QED
  BY <1>2, <1>3, <1>4 DEF DeskIInv

LEMMA ReceiptKeeps ==
    ASSUME DeskIInv, NEW j \in Jobs, Receipt(j)
    PROVE  DeskIInv'
<1>1. jobs[j].pc = "waiting" /\ Found(j) /\ UNCHANGED <<Page, Chain>>
  BY DEF Receipt
<1>2. tab' = tab /\ net' = net /\ wallet' = wallet /\ UNCHANGED Chain /\ published' = published /\ docked' = docked
  BY <1>1 DEF Page, Chain
<1>3. StartedOK(j) /\ SentOK(j) /\ jobs[j].kind # "none"
  BY <1>1 DEF DeskIInv, StartedOK, NoJob
<1>4. provide \in Line /\ jobs[j] \in Job
  BY TypeOKUnfold, JobTyped DEF DeskIInv
<1>5. CASE ~ Succeeded(j)
  <2>1. Failed(j)
    BY <1>5 DEF Receipt
  <2> QED
    BY <2>1, <1>1, <1>3, FailedKeeps
<1>6. CASE Succeeded(j)
  <2>1. PICK p \in {"done", "reloading"} : Goes(j, p)
    BY <1>3, <1>4, <1>6 DEF Receipt, Job, Kind
  <2>2. /\ jobs' \in [Jobs -> Job]
        /\ \A i \in Jobs : (StartedOK(i) /\ SentOK(i))'
        /\ \A i \in Jobs : jobs'[i].kind = jobs[i].kind /\ jobs'[i].forChain = jobs[i].forChain
    BY <1>2, <1>3, <2>1, GoesKeeps DEF Step
  <2>3. \/ UNCHANGED provide
        \/ jobs[j].kind = "ship" /\ Shows(j, [provide EXCEPT !.shipped = j])
    BY <1>3, <1>4, <1>6 DEF Receipt, Job, Kind
  <2>4. provide' \in Line
    BY <1>4, <2>3 DEF Shows, Flags, Line
  <2>5. \/ UNCHANGED dock
        \/ jobs[j].kind = "dock" /\ ShowsDock(j, "done")
    BY <1>3, <1>4, <1>6 DEF Receipt, Job, Kind
  <2>6. ShippedOK'
    <3>1. CASE provide' = provide
      BY <3>1, <1>2, <1>4, <2>2, LineKeeps
    <3>2. CASE jobs[j].kind = "ship" /\ provide' = [provide EXCEPT !.shipped = j]
      <4>1. jobs[j].tx.chain = jobs[j].forChain /\ jobs[j].tx.status = "success"
        BY <1>1, <1>6, <3>2 DEF Found, Succeeded
      <4>2. [job |-> j, chain |-> jobs[j].forChain] \in published
        BY <1>3, <3>2, <4>1 DEF SentOK
      <4>3. provide'.shipped = j
        BY <1>4, <3>2 DEF Line
      <4> QED
        BY <1>2, <2>2, <3>2, <4>2, <4>3 DEF ShippedOK
    <3> QED
      BY <2>3, <3>1, <3>2 DEF Shows, Flags
  <2>7. jobs[j].kind = "dock" => jobs[j].row \in docked
    BY <1>3, <1>6 DEF Succeeded, SentOK
  <2>8. /\ dock' \in [Rows -> DockState] /\ DoneMeansDocked'
        /\ \A r \in Rows : dock'[r] # "idle" => tab'.name = "portfolio"
    BY <1>2, <2>5, <2>7, RowKeeps, DockStays DEF DockState
  <2>9. DeskTypeOK'
    BY <1>2, <2>2, <2>4, <2>8, TypeOKUnfold DEF DeskTypeOK, DeskIInv, Job, Kind, Step, Tx, Status, Line, DockState
  <2> QED
    BY <2>2, <2>6, <2>8, <2>9 DEF DeskIInv
<1> QED
  BY <1>5, <1>6

LEMMA ReloadedKeeps ==
    ASSUME DeskIInv, NEW j \in Jobs, Reloaded(j)
    PROVE  DeskIInv'
<1>1. jobs[j].pc = "reloading" /\ Goes(j, "done") /\ UNCHANGED <<Page, dock, Chain>>
  BY DEF Reloaded
<1>2. tab' = tab /\ net' = net /\ wallet' = wallet /\ UNCHANGED Chain /\ published' = published /\ docked' = docked
  BY <1>1 DEF Page, Chain
<1>3. jobs[j].kind # "none"
  BY <1>1 DEF DeskIInv, StartedOK, NoJob
<1>4. provide \in Line
  BY TypeOKUnfold DEF DeskIInv
<1>5. /\ jobs' \in [Jobs -> Job]
      /\ \A i \in Jobs : (StartedOK(i) /\ SentOK(i))'
      /\ \A i \in Jobs : jobs'[i].kind = jobs[i].kind /\ jobs'[i].forChain = jobs[i].forChain
  BY <1>1, <1>2, <1>3, GoesKeeps DEF Step
<1>6. provide' \in Line /\ provide'.shipped = provide.shipped
  BY <1>4 DEF Reloaded, Shows, Flags, Line
<1>7. ShippedOK'
  BY <1>2, <1>5, <1>6, LineKeeps
<1>8. /\ dock' \in [Rows -> DockState] /\ DoneMeansDocked'
      /\ \A r \in Rows : dock'[r] # "idle" => tab'.name = "portfolio"
  BY <1>1, <1>2, DockStays
<1>9. DeskTypeOK'
  BY <1>2, <1>5, <1>6, <1>8, TypeOKUnfold DEF DeskTypeOK, DeskIInv, Job, Kind, Step, Tx, Status, Line, DockState
<1> QED
  BY <1>5, <1>7, <1>8, <1>9 DEF DeskIInv

-----------------------------------------------------------------------------
LEMMA DeskNextInv == ASSUME DeskIInv, [Next]_makerDeskVars PROVE DeskIInv'
<1>1. ASSUME NEW c \in Chains, handleSwitchChain(c) \/ WalletMoves(c) PROVE DeskIInv'
  BY <1>1, MovesKeep
<1>2. ASSUME NEW t \in {"provide", "portfolio"}, OpenTab(t) PROVE DeskIInv'
  BY <1>2, OpenTabKeeps
<1>3. CASE handleShip \/ handleApproveAqua
  BY <1>3, ProvidePressKeeps
<1>4. ASSUME NEW r \in Rows, onAsk(r) \/ onCancel(r) \/ onConfirm(r) PROVE DeskIInv'
  BY <1>4, PortfolioPressKeeps
<1>5. ASSUME NEW r \in Rows, DockedElsewhere(r) PROVE DeskIInv'
  BY <1>5, DockedElsewhereKeeps
<1>6. ASSUME NEW j \in Jobs, Advances(j) PROVE DeskIInv'
  BY <1>6, BuiltKeeps, CheckedKeeps, ReceiptKeeps, StoppedKeeps, ReloadedKeeps DEF Advances
<1>7. ASSUME NEW j \in Jobs, Signed(j) \/ Rejected(j) \/ Mined(j) PROVE DeskIInv'
  BY <1>7, SignedKeeps, StoppedKeeps, MinedKeeps
<1>8. CASE UNCHANGED makerDeskVars
  <2>1. UNCHANGED <<net, wallet, tab, jobs, provide, dock, published, docked>>
    BY <1>8 DEF makerDeskVars
  <2>2. DeskTypeOK'
    BY <2>1 DEF DeskIInv, DeskTypeOK
  <2> QED
    BY <2>1, <2>2 DEF DeskIInv, StartedOK, SentOK, ShippedOK, DoneMeansDocked
<1> QED
  BY <1>1, <1>2, <1>3, <1>4, <1>5, <1>6, <1>7, <1>8 DEF Next

LEMMA Reported == DeskIInv => OutcomeIsReal
<1> SUFFICES ASSUME DeskIInv PROVE OutcomeIsReal
  OBVIOUS
<1>1. ShippedIsPublished
  BY DEF DeskIInv, ShippedOK, ShippedIsPublished
<1>2. RevertsOnlyIfOvertaken
  BY DEF DeskIInv, StartedOK, SentOK, RevertsOnlyIfOvertaken
<1> QED
  BY <1>1, <1>2 DEF DeskIInv, OutcomeIsReal

(***************************************************************************)
(* The tabs' flags, the jobs and what is on the chains are well formed     *)
(* whatever is pressed, switched and mined (Provide.tsx:366-466,           *)
(* Portfolio.tsx:91-136).                                                  *)
(***************************************************************************)
THEOREM TypeCorrect == Spec => []DeskTypeOK
<1>1. DeskIInv => DeskTypeOK
  BY DEF DeskIInv
<1> QED
  BY <1>1, DeskInitInv, DeskNextInv, PTL DEF Spec

(***************************************************************************)
(* What is called shipped is published on the chain it was built for, what *)
(* is called docked is gone, and a dock that was simulated and signed      *)
(* reverts only if overtaken: for any number of presses, tabs and chains   *)
(* (Provide.tsx:443-453, Portfolio.tsx:103-129).                           *)
(***************************************************************************)
THEOREM ReportsAreTrue == Spec => []OutcomeIsReal
BY DeskInitInv, DeskNextInv, Reported, PTL DEF Spec
-----------------------------------------------------------------------------
(* One press at a time.                                                     *)

\* The jobs that the tab on screen started and that have not ended.
Shipping == {j \in Jobs : jobs[j].kind = "ship" /\ InFlight(j) /\ Mounted(j)}
Approving == {j \in Jobs : jobs[j].kind = "approve" /\ InFlight(j) /\ Mounted(j)}

\* The tab's flags are up exactly for such a job, of which there are never two; and
\* no dock reads balances again, which would lower a flag that is not its own.
FlagsOK ==
    /\ provide.busy <=> Shipping # {}
    /\ provide.approving <=> Approving # {}
    /\ \A i, j \in Shipping : i = j
    /\ \A i, j \in Approving : i = j
    /\ \A j \in Jobs : jobs[j].pc = "reloading" => jobs[j].kind \in {"ship", "approve"}

LEMMA Under ==
    ASSUME NEW j \in Jobs
    PROVE  /\ j \in Shipping <=> jobs[j].kind = "ship" /\ jobs[j].pc \notin {"none", "done"} /\ jobs[j].mount = tab.mount
           /\ j \in Approving <=> jobs[j].kind = "approve" /\ jobs[j].pc \notin {"none", "done"} /\ jobs[j].mount = tab.mount
BY DEF Shipping, Approving, InFlight, Mounted

LEMMA UnderNext ==
    ASSUME NEW j \in Jobs
    PROVE  /\ j \in Shipping' <=> jobs'[j].kind = "ship" /\ jobs'[j].pc \notin {"none", "done"} /\ jobs'[j].mount = tab'.mount
           /\ j \in Approving' <=> jobs'[j].kind = "approve" /\ jobs'[j].pc \notin {"none", "done"} /\ jobs'[j].mount = tab'.mount
BY DEF Shipping, Approving, InFlight, Mounted

LEMMA AreJobs == Shipping \subseteq Jobs /\ Approving \subseteq Jobs /\ Shipping' \subseteq Jobs /\ Approving' \subseteq Jobs
BY DEF Shipping, Approving

\* A job that was under way and goes on, or moves without the tab noticing.
LEMMA GoesOn ==
    ASSUME FlagsOK, NEW j \in Jobs, tab' = tab,
           provide'.busy = provide.busy, provide'.approving = provide.approving,
           \A i \in Jobs : jobs'[i].kind = jobs[i].kind /\ jobs'[i].mount = jobs[i].mount /\ (i # j => jobs'[i].pc = jobs[i].pc),
           jobs'[j].pc \in {"none", "done"} <=> jobs[j].pc \in {"none", "done"},
           jobs'[j].pc = "reloading" => jobs[j].kind \in {"ship", "approve"}
    PROVE  FlagsOK'
<1>1. Shipping' = Shipping /\ Approving' = Approving
  <2>1. \A i \in Jobs : (i \in Shipping' <=> i \in Shipping) /\ (i \in Approving' <=> i \in Approving)
    BY Under, UnderNext
  <2> QED
    BY <2>1, AreJobs
<1>2. \A i \in Jobs : jobs'[i].pc = "reloading" => jobs'[i].kind \in {"ship", "approve"}
  BY DEF FlagsOK
<1> QED
  BY <1>1, <1>2 DEF FlagsOK

LEMMA FlagsStay == ASSUME FlagsOK, UNCHANGED <<jobs, tab, provide>> PROVE FlagsOK'
BY DEF FlagsOK, Shipping, Approving, InFlight, Mounted

\* What a job goes on to leaves all but its place alone.
LEMMA GoesTo ==
    ASSUME DeskIInv, NEW j \in Jobs, NEW p \in Step, Goes(j, p)
    PROVE  /\ jobs'[j].pc = p
           /\ \A i \in Jobs : /\ jobs'[i].kind = jobs[i].kind /\ jobs'[i].mount = jobs[i].mount
                              /\ i # j => jobs'[i].pc = jobs[i].pc
BY TypeOKUnfold DEF DeskIInv, Goes, Job

\* A job that ends lowers the flag of its own kind where it is shown.
LEMMA EndsOf ==
    ASSUME DeskIInv, FlagsOK, NEW j \in Jobs, Goes(j, "done"), tab' = tab,
           jobs[j].pc \notin {"none", "done"},
           jobs[j].kind = "ship" /\ Mounted(j) => ~ provide'.busy,
           ~ (jobs[j].kind = "ship" /\ Mounted(j)) => provide'.busy = provide.busy,
           jobs[j].kind = "approve" /\ Mounted(j) => ~ provide'.approving,
           ~ (jobs[j].kind = "approve" /\ Mounted(j)) => provide'.approving = provide.approving
    PROVE  FlagsOK'
<1>1. /\ jobs'[j].pc = "done"
      /\ \A i \in Jobs : /\ jobs'[i].kind = jobs[i].kind /\ jobs'[i].mount = jobs[i].mount
                         /\ i # j => jobs'[i].pc = jobs[i].pc
  BY GoesTo DEF Step
<1>2. Shipping' = Shipping \ {j} /\ Approving' = Approving \ {j}
  <2>1. \A i \in Jobs : (i \in Shipping' <=> i \in Shipping \ {j}) /\ (i \in Approving' <=> i \in Approving \ {j})
    BY <1>1, Under, UnderNext
  <2> QED
    BY <2>1, AreJobs
<1>3. /\ j \in Shipping <=> jobs[j].kind = "ship" /\ Mounted(j)
      /\ j \in Approving <=> jobs[j].kind = "approve" /\ Mounted(j)
  BY Under DEF Mounted
<1>4. provide'.busy <=> Shipping' # {}
  BY <1>2, <1>3 DEF FlagsOK
<1>5. provide'.approving <=> Approving' # {}
  BY <1>2, <1>3 DEF FlagsOK
<1>6. \A i \in Jobs : jobs'[i].pc = "reloading" => jobs'[i].kind \in {"ship", "approve"}
  BY <1>1 DEF FlagsOK
<1>7. (\A h, i \in Shipping' : h = i) /\ \A h, i \in Approving' : h = i
  BY <1>2 DEF FlagsOK
<1> QED
  BY <1>4, <1>5, <1>6, <1>7 DEF FlagsOK

LEMMA FailedFlags ==
    ASSUME DeskIInv, FlagsOK, NEW j \in Jobs, Failed(j), jobs[j].pc \notin {"none", "done"}, UNCHANGED Page
    PROVE  FlagsOK'
<1>1. Goes(j, "done") /\ tab' = tab /\ provide \in Line
  BY TypeOKUnfold DEF Failed, Page, DeskIInv
<1>2. jobs[j].kind \in {"ship", "approve", "dock"}
  BY JobTyped DEF DeskIInv, StartedOK, NoJob, Job, Kind
<1>3. CASE jobs[j].kind = "ship"
  <2>1. provide' = IF Mounted(j) THEN [provide EXCEPT !.busy = FALSE, !.error = TRUE] ELSE provide
    BY <1>3 DEF Failed, Shows, Flags
  <2> QED
    BY <1>1, <1>3, <2>1, EndsOf DEF Line
<1>4. CASE jobs[j].kind = "approve"
  <2>1. provide' = IF Mounted(j) THEN [provide EXCEPT !.approving = FALSE, !.error = TRUE] ELSE provide
    BY <1>4 DEF Failed, Shows, Flags
  <2> QED
    BY <1>1, <1>4, <2>1, EndsOf DEF Line
<1>5. CASE jobs[j].kind = "dock"
  <2>1. provide' = provide
    BY <1>5 DEF Failed
  <2> QED
    BY <1>1, <1>5, <2>1, EndsOf
<1> QED
  BY <1>2, <1>3, <1>4, <1>5

\* A press starts a job of the tab on screen.
LEMMA StartsOf ==
    ASSUME DeskIInv, FlagsOK, NEW kind \in {"ship", "approve", "dock"}, NEW r \in Rows \cup {"none"},
           NEW p \in {"building", "checking", "signing"}, Starts(kind, r, p), tab' = tab,
           kind = "ship" => ~ provide.busy, kind = "approve" => ~ provide.approving,
           provide'.busy = (IF kind = "ship" THEN TRUE ELSE provide.busy),
           provide'.approving = (IF kind = "approve" THEN TRUE ELSE provide.approving)
    PROVE  FlagsOK'
<1>1. jobs \in [Jobs -> Job]
  BY TypeOKUnfold DEF DeskIInv
<1>2. PICK j \in Jobs : /\ jobs[j] = NoJob
                        /\ jobs' = [jobs EXCEPT ![j] = [kind |-> kind, row |-> r, forChain |-> net,
                                                        mount |-> tab.mount, pc |-> p, tx |-> NotSent]]
  BY DEF Starts
<1>3. /\ jobs'[j].kind = kind /\ jobs'[j].pc = p /\ jobs'[j].mount = tab.mount
      /\ \A i \in Jobs : i # j => jobs'[i] = jobs[i]
  BY <1>1, <1>2
<1>4. j \notin Shipping /\ j \notin Approving
  BY <1>2, Under DEF NoJob
<1>5. /\ Shipping' = IF kind = "ship" THEN Shipping \cup {j} ELSE Shipping
      /\ Approving' = IF kind = "approve" THEN Approving \cup {j} ELSE Approving
  <2>1. \A i \in Jobs : i \in Shipping' <=> (i \in Shipping \/ (i = j /\ kind = "ship"))
    BY <1>3, <1>4, Under, UnderNext
  <2>2. \A i \in Jobs : i \in Approving' <=> (i \in Approving \/ (i = j /\ kind = "approve"))
    BY <1>3, <1>4, Under, UnderNext
  <2> QED
    BY <2>1, <2>2, AreJobs
<1>6. \A i \in Jobs : jobs'[i].pc = "reloading" => jobs'[i].kind \in {"ship", "approve"}
  BY <1>3 DEF FlagsOK
<1>7. provide'.busy <=> Shipping' # {}
  BY <1>5 DEF FlagsOK
<1>8. provide'.approving <=> Approving' # {}
  BY <1>5 DEF FlagsOK
<1>9. (\A h, i \in Shipping' : h = i) /\ \A h, i \in Approving' : h = i
  BY <1>5 DEF FlagsOK
<1> QED
  BY <1>6, <1>7, <1>8, <1>9 DEF FlagsOK

LEMMA OpenTabFlags ==
    ASSUME DeskIInv, NEW t \in {"provide", "portfolio"}, OpenTab(t), FlagsOK
    PROVE  FlagsOK'
<1>1. jobs' = jobs /\ tab'.mount = tab.mount + 1 /\ provide' = Fresh /\ tab.mount \in 1 .. MaxMounts
  BY TypeOKUnfold DEF DeskIInv, OpenTab, Flags
<1>2. ASSUME NEW j \in Jobs PROVE jobs[j].kind # "none" => jobs[j].mount # tab.mount + 1
  <2>1. StartedOK(j) /\ jobs[j].mount \in 0 .. MaxMounts
    BY JobTyped DEF DeskIInv, Job
  <2> QED
    BY <1>1, <2>1, MakerDeskAssumption DEF StartedOK
<1>3. Shipping' = {} /\ Approving' = {}
  BY <1>1, <1>2, UnderNext, AreJobs
<1> QED
  BY <1>1, <1>3 DEF FlagsOK, Fresh

LEMMA PressFlags ==
    ASSUME DeskIInv, FlagsOK, \/ handleShip \/ handleApproveAqua
                          \/ \E r \in Rows : onAsk(r) \/ onCancel(r) \/ onConfirm(r)
    PROVE  FlagsOK'
<1>1. tab' = tab /\ provide \in Line
  BY TypeOKUnfold DEF DeskIInv, handleShip, handleApproveAqua, onAsk, onCancel, onConfirm, Page
<1>2. CASE handleShip
  <2>1. /\ Starts("ship", "none", "building") /\ ~ provide.busy
        /\ provide' = [provide EXCEPT !.busy = TRUE, !.error = FALSE, !.shipped = 0]
    BY <1>2 DEF handleShip, disabled, Flags
  <2>2. provide'.busy = TRUE /\ provide'.approving = provide.approving
    BY <1>1, <2>1 DEF Line
  <2> QED
    BY <1>1, <2>1, <2>2, StartsOf
<1>3. CASE handleApproveAqua
  <2>1. /\ Starts("approve", "none", "signing") /\ ~ provide.approving
        /\ provide' = [provide EXCEPT !.approving = TRUE, !.error = FALSE]
    BY <1>3 DEF handleApproveAqua, Flags
  <2>2. provide'.approving = TRUE /\ provide'.busy = provide.busy
    BY <1>1, <2>1 DEF Line
  <2> QED
    BY <1>1, <2>1, <2>2, StartsOf
<1>4. ASSUME NEW r \in Rows, onAsk(r) \/ onCancel(r) PROVE FlagsOK'
  BY <1>1, <1>4, FlagsStay DEF onAsk, onCancel
<1>5. ASSUME NEW r \in Rows, onConfirm(r) PROVE FlagsOK'
  <2>1. Starts("dock", r, "checking") /\ provide' = provide
    BY <1>5 DEF onConfirm
  <2> QED
    BY <1>1, <2>1, StartsOf
<1> QED
  BY <1>2, <1>3, <1>4, <1>5

LEMMA JobFlags ==
    ASSUME DeskIInv, FlagsOK, NEW j \in Jobs,
           Built(j) \/ Checked(j) \/ Receipt(j) \/ ReceiptTimesOut(j) \/ Reloaded(j) \/ Signed(j) \/ Rejected(j) \/ Mined(j)
    PROVE  FlagsOK'
<1>1. tab' = tab /\ UNCHANGED Page /\ provide \in Line /\ jobs \in [Jobs -> Job]
  BY TypeOKUnfold DEF DeskIInv, Built, Checked, Receipt, ReceiptTimesOut, Reloaded, Signed, Rejected, Mined, Page
<1>2. CASE Failed(j) /\ jobs[j].pc \notin {"none", "done"}
  BY <1>1, <1>2, FailedFlags
<1>3. CASE Built(j) /\ ~ Failed(j)
  <2>1. jobs[j].pc = "building" /\ Goes(j, "signing") /\ provide' = provide
    BY <1>3 DEF Built, At
  <2> QED
    BY <1>1, <2>1, GoesTo, GoesOn DEF Step
<1>4. CASE Checked(j) /\ ~ Failed(j)
  <2>1. jobs[j].pc = "checking" /\ Goes(j, "signing") /\ provide' = provide
    BY <1>4 DEF Checked, At
  <2> QED
    BY <1>1, <2>1, GoesTo, GoesOn DEF Step
<1>5. CASE Signed(j)
  <2>1. /\ jobs[j].pc = "signing" /\ provide' = provide
        /\ jobs' = [jobs EXCEPT ![j].pc = "waiting", ![j].tx = [chain |-> wallet, status |-> "pending"]]
    BY <1>5 DEF Signed
  <2>2. /\ jobs'[j].pc = "waiting"
        /\ \A i \in Jobs : /\ jobs'[i].kind = jobs[i].kind /\ jobs'[i].mount = jobs[i].mount
                           /\ i # j => jobs'[i].pc = jobs[i].pc
    BY <1>1, <2>1 DEF Job
  <2> QED
    BY <1>1, <2>1, <2>2, GoesOn
<1>6. CASE Mined(j)
  <2>1. PICK status \in Status : jobs' = [jobs EXCEPT ![j].tx.status = status]
    BY <1>6 DEF Mined, Status
  <2>2. /\ \A i \in Jobs : i # j => jobs'[i] = jobs[i]
        /\ jobs'[j].kind = jobs[j].kind /\ jobs'[j].mount = jobs[j].mount /\ jobs'[j].pc = jobs[j].pc
    BY <1>1, <2>1 DEF Job, Tx
  <2>3. provide' = provide
    BY <1>6 DEF Mined
  <2> QED
    BY <1>1, <2>2, <2>3, GoesOn DEF FlagsOK
<1>7. CASE Receipt(j) /\ ~ Failed(j)
  <2>1. jobs[j].pc = "waiting" /\ Succeeded(j) /\ jobs[j].kind \in {"ship", "approve", "dock"}
    <3>1. jobs[j].pc = "waiting" /\ Succeeded(j)
      BY <1>7 DEF Receipt
    <3>2. StartedOK(j) /\ jobs[j] \in Job /\ jobs[j].kind # "none"
      BY <3>1, JobTyped DEF DeskIInv, StartedOK, NoJob
    <3> QED
      BY <3>1, <3>2 DEF Job, Kind
  <2>2. CASE jobs[j].kind = "dock"
    <3>1. Goes(j, "done") /\ provide' = provide
      BY <1>7, <2>1, <2>2 DEF Receipt
    <3> QED
      BY <1>1, <2>1, <2>2, <3>1, EndsOf
  <2>3. CASE jobs[j].kind = "ship"
    <3>1. Goes(j, "reloading") /\ Shows(j, [provide EXCEPT !.shipped = j])
      BY <1>7, <2>1, <2>3 DEF Receipt
    <3>2. provide'.busy = provide.busy /\ provide'.approving = provide.approving
      BY <1>1, <3>1 DEF Shows, Flags, Line
    <3> QED
      BY <1>1, <2>1, <2>3, <3>1, <3>2, GoesTo, GoesOn DEF Step
  <2>4. CASE jobs[j].kind = "approve"
    <3>1. Goes(j, "reloading") /\ provide' = provide
      BY <1>7, <2>1, <2>4 DEF Receipt
    <3> QED
      BY <1>1, <2>1, <2>4, <3>1, GoesTo, GoesOn DEF Step
  <2> QED
    BY <2>1, <2>2, <2>3, <2>4
<1>8. CASE Reloaded(j)
  <2>1. /\ jobs[j].pc = "reloading" /\ Goes(j, "done")
        /\ provide' = IF Mounted(j) THEN IF jobs[j].kind = "ship" THEN [provide EXCEPT !.busy = FALSE]
                                                                   ELSE [provide EXCEPT !.approving = FALSE]
                                    ELSE provide
    BY <1>8 DEF Reloaded, Shows, Flags
  <2>2. jobs[j].kind \in {"ship", "approve"}
    BY <2>1 DEF FlagsOK
  <2>3. CASE jobs[j].kind = "ship"
    BY <1>1, <2>1, <2>3, EndsOf DEF Line
  <2>4. CASE jobs[j].kind = "approve"
    BY <1>1, <2>1, <2>4, EndsOf DEF Line
  <2> QED
    BY <2>2, <2>3, <2>4
<1>9. /\ Built(j) => jobs[j].pc \notin {"none", "done"}
      /\ Checked(j) => jobs[j].pc \notin {"none", "done"}
      /\ Receipt(j) => jobs[j].pc \notin {"none", "done"}
      /\ ReceiptTimesOut(j) \/ Rejected(j) => jobs[j].pc \notin {"none", "done"} /\ Failed(j)
  BY DEF Built, Checked, Receipt, ReceiptTimesOut, Rejected, At
<1> QED
  BY <1>2, <1>3, <1>4, <1>5, <1>6, <1>7, <1>8, <1>9

LEMMA NextFlags == ASSUME DeskIInv, FlagsOK, [Next]_makerDeskVars PROVE FlagsOK'
<1>1. ASSUME NEW c \in Chains, handleSwitchChain(c) \/ WalletMoves(c) PROVE FlagsOK'
  BY <1>1, FlagsStay DEF handleSwitchChain, WalletMoves
<1>2. ASSUME NEW t \in {"provide", "portfolio"}, OpenTab(t) PROVE FlagsOK'
  BY <1>2, OpenTabFlags
<1>3. CASE handleShip \/ handleApproveAqua
  BY <1>3, PressFlags
<1>4. ASSUME NEW r \in Rows, onAsk(r) \/ onCancel(r) \/ onConfirm(r) PROVE FlagsOK'
  BY <1>4, PressFlags
<1>5. ASSUME NEW r \in Rows, DockedElsewhere(r) PROVE FlagsOK'
  BY <1>5, FlagsStay DEF DockedElsewhere, Page
<1>6. ASSUME NEW j \in Jobs, Advances(j) \/ Signed(j) \/ Rejected(j) \/ Mined(j) PROVE FlagsOK'
  BY <1>6, JobFlags DEF Advances
<1>7. CASE UNCHANGED makerDeskVars
  BY <1>7, FlagsStay DEF makerDeskVars
<1> QED
  BY <1>1, <1>2, <1>3, <1>4, <1>5, <1>6, <1>7 DEF Next

LEMMA InitFlags == Init => FlagsOK
BY DEF Init, FlagsOK, Shipping, Approving, InFlight, NoJob, Fresh

\* Counting what there is one of.
LEMMA OneOrNone ==
    ASSUME NEW S, \A i, j \in S : i = j
    PROVE  (S = {} => Cardinality(S) = 0) /\ (S # {} => Cardinality(S) = 1)
<1>1. S # {} => \E i : S = {i}
  OBVIOUS
<1> QED
  BY <1>1, FS_EmptySet, FS_Singleton

LEMMA FlagsCount == DeskIInv /\ FlagsOK => MakerDeskInv
<1> SUFFICES ASSUME DeskIInv, FlagsOK PROVE MakerDeskInv
  OBVIOUS
<1>1. /\ (Shipping = {} => Cardinality(Shipping) = 0) /\ (Shipping # {} => Cardinality(Shipping) = 1)
      /\ (Approving = {} => Cardinality(Approving) = 0) /\ (Approving # {} => Cardinality(Approving) = 1)
  BY OneOrNone DEF FlagsOK
<1>3. Cardinality(Shipping) = IF provide.busy THEN 1 ELSE 0
  BY <1>1 DEF FlagsOK
<1>4. Cardinality(Approving) = IF provide.approving THEN 1 ELSE 0
  BY <1>1 DEF FlagsOK
<1>5. OneAtATime
  BY <1>3, <1>4 DEF OneAtATime, Shipping, Approving
<1> QED
  BY <1>5 DEF MakerDeskInv, DeskIInv

(***************************************************************************)
(* For any number of tabs, presses and switches: the flag that holds a     *)
(* button back is up exactly while one job that the tab on screen started  *)
(* is under way, so nothing is shipped or approved twice by a double press *)
(* and no button is held back by a job that has ended (Provide.tsx:366-466 *)
(* and, for the jobs beside it, Portfolio.tsx:91-136).                     *)
(***************************************************************************)
THEOREM PressesAreSingle == Spec => []MakerDeskInv
BY DeskInitInv, DeskNextInv, InitFlags, NextFlags, FlagsCount, PTL DEF Spec
=============================================================================
