------------------------------- MODULE Panels --------------------------------
(***************************************************************************)
(* Every panel of the site that shows something it has fetched about what  *)
(* is selected: a wallet's book, its exposure, a price, a quote on another *)
(* chain.  Each has its own hand-written effect; they differ in whether a  *)
(* late answer is dropped, whether the old content goes when a load        *)
(* begins, what a failure leaves behind, and who clears the spinner.       *)
(*                                                                         *)
(* Panels are independent, so a behaviour is that of one of them, chosen   *)
(* at the start.  A key stands for all its effect depends on: the chain,   *)
(* the wallet, the pair or the query.                                      *)
(***************************************************************************)
EXTENDS Integers, FiniteSets

CONSTANTS
    Keys,           \* what can be selected
    Values,         \* what an answer may say of it
    MaxCalls        \* bound on loads

VARIABLES
    panel,          \* the policy of the panel
    sel,            \* what is selected, or Nobody
    shown,          \* what is on screen and of what, or Blank
    busy,           \* loading
    calls,          \* per load the key asked for and how far it is
    current,        \* the load whose "live" flag is up, or whose number gen has
    cache           \* browser cache: per key at most one value

panelVars == <<panel, sel, shown, busy, calls, current, cache>>

Nobody == [pair |-> "none", amount |-> 0]
Something == CHOOSE v \in Values : TRUE
Blank == [of |-> Nobody, what |-> Something]
Calls == 1 .. MaxCalls
NotMade == [key |-> Nobody, pc |-> "none"]

ASSUME PanelsAssumption ==
    /\ Keys \subseteq [pair : STRING, amount : Nat] /\ Nobody \notin Keys
    /\ Values # {} /\ MaxCalls \in Nat \ {0}

-----------------------------------------------------------------------------
(***************************************************************************)
(* The policies.                                                           *)
(*   guard   "live": the effect's cleanup drops late answers; "gen": a     *)
(*           counter, after a pause and behind a cache; "none"             *)
(*   resets  a load begins by dropping what is shown                       *)
(*   fails   what a failed load does to it                                 *)
(*   flag    is there a loading flag; stops: also cleared by Nobody        *)
(*   idle    what Nobody does to what is shown, or "never" selected        *)
(*   again   may the same key be loaded again                              *)
(*   follows does a load begin with the selection, or with a press         *)
(***************************************************************************)
Guarded(name) ==
    [name |-> name, guard |-> "live", resets |-> FALSE, fails |-> {"drop"}, flag |-> FALSE,
     stops |-> FALSE, idle |-> "never", again |-> FALSE, follows |-> TRUE]

useMakerBook == [Guarded("maker book") EXCEPT !.fails = {"keep"}, !.flag = TRUE, !.idle = "drop", !.again = TRUE]
portfolioExposure == [Guarded("portfolio") EXCEPT !.resets = TRUE, !.fails = {"keep"}, !.idle = "drop", !.again = TRUE]
portfolioHistory == [Guarded("history") EXCEPT !.fails = {"keep"}, !.idle = "drop", !.again = TRUE]
fetchExposure == [Guarded("provide") EXCEPT !.guard = "none", !.flag = TRUE, !.idle = "drop", !.again = TRUE]
reloadBalances == [Guarded("balances") EXCEPT !.guard = "none", !.flag = TRUE, !.idle = "drop", !.again = TRUE]
beaconSpread == [Guarded("spread") EXCEPT !.idle = "keep"]
walletBalance == [Guarded("balance") EXCEPT !.idle = "drop", !.again = TRUE]
coverageCard == [Guarded("coverage") EXCEPT !.resets = TRUE, !.fails = {"keep"}]
findingCard == [Guarded("finding") EXCEPT !.fails = {"keep"}]
appsCard == [Guarded("apps") EXCEPT !.resets = TRUE, !.fails = {"keep"}]
priceChart == [Guarded("price") EXCEPT !.flag = TRUE]
liquidPairs == [Guarded("pairs") EXCEPT !.idle = "keep", !.again = TRUE]
tokenLookup == [Guarded("token") EXCEPT !.fails = {"keep"}, !.flag = TRUE, !.stops = TRUE, !.idle = "drop"]
useSwapGas == Guarded("gas")
altBalance == [Guarded("radar balance") EXCEPT !.idle = "drop"]
lookupTab == [Guarded("lookup") EXCEPT !.guard = "none", !.resets = TRUE, !.flag = TRUE, !.again = TRUE, !.follows = FALSE]
lookupPage == [Guarded("lookup page") EXCEPT !.guard = "none", !.flag = TRUE, !.again = TRUE]
subgraphSearch == [Guarded("subgraphs") EXCEPT !.fails = {"keep"}, !.flag = TRUE, !.stops = TRUE, !.idle = "drop"]
altRoute == [Guarded("radar") EXCEPT !.guard = "gen", !.fails = {"drop", "keep"}, !.flag = TRUE, !.stops = TRUE, !.idle = "drop"]

Policies ==
    {useMakerBook, portfolioExposure, portfolioHistory, fetchExposure, reloadBalances, beaconSpread, walletBalance,
     coverageCard, findingCard, appsCard, priceChart, liquidPairs, tokenLookup, useSwapGas, altBalance,
     lookupTab, lookupPage, subgraphSearch, altRoute}

-----------------------------------------------------------------------------
Begun == {i \in Calls : calls[i].pc # "none"}
Pending == {i \in Calls : calls[i].pc \in {"armed", "asked"}}

\* The pause before a quote is asked for is cut short by its cleanup.
Disarmed == [i \in Calls |-> IF calls[i].pc = "armed" THEN [calls[i] EXCEPT !.pc = "done"] ELSE calls[i]]

\* A load of k begins.
Loads(k) ==
    LET n == Cardinality(Begun) + 1 IN
    /\ n \in Calls
    /\ calls' = [Disarmed EXCEPT ![n] = [key |-> k, pc |-> IF panel.guard = "gen" THEN "armed" ELSE "asked"]]
    /\ current' = n
    /\ busy' = panel.flag
    /\ shown' = IF panel.resets THEN Blank ELSE shown

\* Nothing to load for.  The counter is not advanced, the flag not lowered by all.
Idles ==
    /\ calls' = Disarmed
    /\ current' = IF panel.guard = "live" THEN 0 ELSE current
    /\ busy' = (busy /\ ~ panel.stops)
    /\ shown' = IF panel.idle = "drop" THEN Blank ELSE shown

\* The cache answers at once, and leaves the counter to the load under way.
Hits(k) ==
    /\ panel.guard = "gen" /\ \E v \in cache[k] : shown' = [of |-> k, what |-> v]
    /\ calls' = Disarmed /\ busy' = FALSE
    /\ UNCHANGED current

Select(k) ==
    /\ k # sel /\ sel' = k
    /\ \/ k = Nobody /\ panel.idle # "never" /\ Idles
       \/ k # Nobody /\ Hits(k)
       \/ k # Nobody /\ panel.follows /\ cache[k] = {} /\ Loads(k)
       \/ k # Nobody /\ ~ panel.follows /\ UNCHANGED <<shown, busy, calls, current>>
    /\ UNCHANGED <<panel, cache>>

\* Something the effect also depends on, or a press.
Again ==
    /\ panel.again /\ sel # Nobody /\ Loads(sel)
    /\ UNCHANGED <<panel, sel, cache>>

\* The pause of 250 ms is over.
Fires(i) ==
    /\ calls[i].pc = "armed" /\ calls' = [calls EXCEPT ![i].pc = "asked"]
    /\ UNCHANGED <<panel, sel, shown, busy, current, cache>>

Expires(k) ==
    /\ cache[k] # {} /\ cache' = [cache EXCEPT ![k] = {}]
    /\ UNCHANGED <<panel, sel, shown, busy, calls, current>>

\* Late answers are used as well (fault).
Counts_Late(i) == TRUE

Counts(i) == panel.guard = "none" \/ i = current

Ends(i, pc) == calls[i].pc = "asked" /\ calls' = [calls EXCEPT ![i].pc = pc] /\ UNCHANGED <<panel, sel, current>>

Late(i) == Ends(i, "done") /\ ~ Counts(i) /\ UNCHANGED <<shown, busy, cache>>

\* The flag is lowered only by an answer (fault).
Lowers_OnSuccess(ok) == busy' = (busy /\ ~ ok)

\* Whoever counts lowers the flag, in a finally.
Lowers(ok) == busy' = FALSE

Answers(i) ==
    /\ Ends(i, "done") /\ Counts(i)
    /\ \E v \in IF panel.guard = "gen" THEN Values ELSE {Something} :
          /\ shown' = [of |-> calls[i].key, what |-> v]
          /\ cache' = IF panel.guard = "gen" THEN [cache EXCEPT ![calls[i].key] = {v}] ELSE cache
    /\ Lowers(TRUE)

\* A failure that only writes to the console (fault).
Left_Alone(how) == {shown}

Left(how) == {IF how = "drop" THEN Blank ELSE shown}

Fails(i) ==
    /\ Ends(i, "failed") /\ Counts(i)
    /\ \E how \in panel.fails : shown' \in Left(how)
    /\ Lowers(FALSE)
    /\ UNCHANGED cache

-----------------------------------------------------------------------------
PanelsInit ==
    /\ panel \in Policies
    /\ sel = Nobody /\ shown = Blank /\ busy = FALSE
    /\ calls = [i \in Calls |-> NotMade] /\ current = 0
    /\ cache = [k \in Keys |-> {}]

PanelsNext ==
    \/ \E k \in Keys \cup {Nobody} : Select(k)
    \/ Again
    \/ \E i \in Calls : Fires(i) \/ Late(i) \/ Answers(i) \/ Fails(i)
    \/ \E k \in Keys : Expires(k)

-----------------------------------------------------------------------------
(***************************************************************************)
(* A guarded panel settles on what is selected, in whatever order the      *)
(* answers come: once its newest load has ended it shows that, or after a  *)
(* failure nothing, unless failing leaves the old content in place.        *)
(***************************************************************************)
SettledIsSelected ==
    panel.guard = "live" /\ sel # Nobody /\ current # 0 =>
        /\ calls[current].pc = "done" => shown.of = sel
        /\ calls[current].pc = "failed" /\ (panel.resets \/ "keep" \notin panel.fails) => shown = Blank

(***************************************************************************)
(* A panel that drops its content when a load begins never shows that of   *)
(* another selection, not even while it loads (src/web/app/ui/app/         *)
(* Portfolio.tsx:145-164, src/web/app/ui/Desk.tsx:404-452).                *)
(***************************************************************************)
NeverAnothers == panel.guard = "live" /\ panel.resets => shown.of \in {Nobody, sel}

(***************************************************************************)
(* No spinner without a load that will stop it: whoever is overtaken must  *)
(* leave the flag to a request still under way.  A wallet that disconnects *)
(* during a load leaves some flags up; what is selected decides then.      *)
(***************************************************************************)
SpinnerIsStopped ==
    busy /\ (sel # Nobody \/ panel.stops) => \E i \in Pending : Counts(i)

PanelsTypeOK ==
    /\ panel \in Policies /\ sel \in Keys \cup {Nobody} /\ busy \in BOOLEAN
    /\ shown \in [of : Keys \cup {Nobody}, what : Values]
    /\ calls \in [Calls -> [key : Keys \cup {Nobody}, pc : {"none", "armed", "asked", "done", "failed"}]]
    /\ current \in 0 .. MaxCalls
    /\ \A k \in Keys : cache[k] \in SUBSET Values /\ Cardinality(cache[k]) <= 1
    /\ shown # Blank => \E i \in Begun : calls[i].key = shown.of
=============================================================================
