------------------------------ MODULE Records -------------------------------
(***************************************************************************)
(* What is told of the past.  The Tap hook logs every fill and every       *)
(* refusal, the router every fill, Aqua every ship and dock, Wellhead      *)
(* every swap.  The subgraph counts them block by block; /api/reliability  *)
(* pages two of the logs backwards from two heads; /api/history pages a    *)
(* wallet's swaps and takes its strategies from the subgraph, or pages     *)
(* them too where the subgraph may not be used; /api/apps and              *)
(* /api/liquid-pairs count what the subgraph has open.                     *)
(*                                                                         *)
(* One transaction per block; one request at a time, for requests share    *)
(* nothing.  A hash ships once under an app and may be the same under two; *)
(* the bytes it is of begin with the maker.                                *)
(***************************************************************************)
EXTENDS Integers, Sequences, FiniteSetsExt, SequencesExt

CONSTANTS
    Strategies,
    Owner, AppOf, HashOf, TokensOf,     \* of each strategy
    Router,         \* the app the hook and the site are bound to
    Outcomes,       \* what a swap may log of one strategy, in order
    Genesis,        \* strategies shipped before block 1
    Page,           \* blocks before the newest that one page reaches
    BudgetOf,       \* pages per kind of scan
    WindowOf,       \* WINDOW_BLOCKS and HISTORY_WINDOW_BLOCKS
    MaxLag,         \* MAX_LAG_BLOCKS
    First,          \* rows a listing asks the subgraph for
    MaxBlock,       \* bound on the chain
    MaxFaults       \* bound on reads that fail

VARIABLES
    chain,          \* one transaction per block
    indexed,        \* the block the subgraph has handled
    index,          \* its entities
    ask,            \* the request
    scan,           \* per kind of log
    faults

RecordsVars == <<chain, indexed, index, ask, scan, faults>>

Makers == {Owner[s] : s \in Strategies}
Kinds == {"fills", "refusals", "swaps", "strategies"}
Nobody == "nobody"
Ours == {s \in Strategies : AppOf[s] = Router}

ASSUME RecordsAssumption ==
    /\ IsFiniteSet(Strategies) /\ Genesis \subseteq Strategies /\ Nobody \notin Makers
    /\ Outcomes \subseteq Seq({"fill", "skip"})
    /\ Page \in Nat \ {0} /\ BudgetOf \in [Kinds -> Nat \ {0}] /\ WindowOf \in [Kinds -> Nat]
    /\ MaxLag \in Nat /\ First \in Nat /\ MaxBlock \in Nat \ {0} /\ MaxFaults \in Nat
    /\ \A s, r \in Strategies : HashOf[s] = HashOf[r] => Owner[s] = Owner[r] /\ (AppOf[s] = AppOf[r] => s = r)

-----------------------------------------------------------------------------
(***************************************************************************)
(* The chain.                                                              *)
(***************************************************************************)
Latest == Len(chain)
ShippedBy(b) == Genesis \cup {s \in Strategies : \E k \in 1 .. b : chain[k].kind = "ship" /\ chain[k].s = s}
DockedBy(b) == {s \in Strategies : \E k \in 1 .. b : chain[k].kind = "dock" /\ chain[k].s = s}
OpenAt(b) == ShippedBy(b) \ DockedBy(b)

Tx(kind, s, did) == [kind |-> kind, s |-> s, did |-> did]

\* A hook's list may name a strategy that is docked by now: it only refuses.
Mine ==
    /\ Latest < MaxBlock
    /\ \E tx \in
          {Tx("ship", s, <<>>) : s \in Strategies \ ShippedBy(Latest)}
          \cup {Tx("dock", s, <<>>) : s \in OpenAt(Latest)}
          \cup {Tx("direct", s, <<"fill">>) : s \in OpenAt(Latest)}
          \cup {t \in {Tx("swap", s, did) : s \in ShippedBy(Latest) \cap Ours, did \in Outcomes} :
                   "fill" \in ToSet(t.did) => t.s \in OpenAt(Latest)} :
          chain' = Append(chain, tx)
    /\ UNCHANGED <<indexed, index, ask, scan, faults>>

\* The logs of a kind in a block.  Only the hook's own fills are Filled.
Logs(kind, b) ==
    LET tx == chain[b]
        said(word) == {i \in DOMAIN tx.did : tx.did[i] = word}
    IN
    CASE kind = "fills"      -> IF tx.kind = "swap" THEN {<<b, i>> : i \in said("fill")} ELSE {}
      [] kind = "refusals"   -> {<<b, i>> : i \in said("skip")}
      [] kind = "swaps"      -> IF tx.kind = "swap" THEN {<<b, 0>>} ELSE {}
      [] kind = "strategies" -> IF tx.kind = "ship" THEN {<<b, 0>>} ELSE {}

MakerOf(log) == Owner[chain[log[1]].s]
LogsIn(kind, a, b) == UNION {Logs(kind, k) : k \in {x \in a .. b : x \in 1 .. Latest}}

-----------------------------------------------------------------------------
(***************************************************************************)
(* The subgraph's handlers.                                                *)
(***************************************************************************)
StrategyId(s) == [app |-> AppOf[s], hash |-> HashOf[s]]

\* One refusal for each log (fault).
RefusalId_Log(b, i, s) == [tx |-> b, maker |-> Owner[s], hash |-> <<HashOf[s], i>>]

RefusalId(b, i, s) == [tx |-> b, maker |-> Owner[s], hash |-> HashOf[s]]

\* routerForHook: the strategy is the one of the app the hook is bound to.
RefusedStrategy(s) == [app |-> Router, hash |-> HashOf[s]]

HandleMakerSkipped(ix, b, i, s) ==
    IF \E r \in ix.refusals : r.id = RefusalId(b, i, s) THEN ix
    ELSE [ix EXCEPT !.refusals = @ \cup {[id |-> RefusalId(b, i, s), strategy |-> RefusedStrategy(s)]},
                    !.skips[Owner[s]] = @ + 1]

HandleSwapped(ix, s) ==
    [ix EXCEPT !.fills[Owner[s]] = @ + 1,
               !.unmatched = @ + IF StrategyId(s) \in ix.known THEN 0 ELSE 1]

HandleTx(ix, b) ==
    LET tx == chain[b]
        log(i, before) == IF tx.did[i] = "skip" THEN HandleMakerSkipped(before, b, i, tx.s)
                          ELSE HandleSwapped(before, tx.s)
        upTo[i \in 0 .. Len(tx.did)] == IF i = 0 THEN ix ELSE log(i, upTo[i - 1])
    IN
    CASE tx.kind = "ship" -> [ix EXCEPT !.known = @ \cup {StrategyId(tx.s)}, !.live = @ \cup {tx.s}]
      [] tx.kind = "dock" -> [ix EXCEPT !.live = @ \ {tx.s}]
      [] OTHER            -> upTo[Len(tx.did)]

IndexBlock ==
    /\ indexed < Latest
    /\ indexed' = indexed + 1 /\ index' = HandleTx(index, indexed + 1)
    /\ UNCHANGED <<chain, ask, scan, faults>>

-----------------------------------------------------------------------------
(***************************************************************************)
(* A scan: the head, then pages of the log from the newest back.           *)
(***************************************************************************)
IdleScan == [pc |-> "idle", floor |-> 0, top |-> 0, end |-> 0, pages |-> 0, out |-> <<>>, docks |-> {}]
IdleAsk == [kind |-> "none", pc |-> "idle", maker |-> Nobody, began |-> 0, source |-> "none", at |-> 0,
            rows |-> {}, swaps |-> <<>>]
Begun(floor) == [IdleScan EXCEPT !.pc = "head", !.floor = floor]

\* Where a window ends; Aqua's genesis is block 1, a wallet's swaps may be older.
WindowFloor(kind, head) ==
    IF head > WindowOf[kind] THEN head - WindowOf[kind] ELSE IF kind = "swaps" THEN 0 ELSE 1

ReadHead(k) ==
    /\ scan[k].pc = "head"
    /\ scan' = [scan EXCEPT ![k].pc = "page", ![k].top = Latest, ![k].end = Latest,
                            ![k].floor = IF ask.kind = "history" THEN WindowFloor(k, Latest) ELSE @]
    /\ UNCHANGED <<chain, indexed, index, ask, faults>>

\* The next page takes up where this one began (fault).
NextEnd_Overlaps(start) == start

NextEnd(start) == start - 1
PageStart(q) == IF q.end - Page > q.floor THEN q.end - Page ELSE q.floor

DockedIn(a, b) == {s \in Strategies : \E k \in {x \in a .. b : x \in 1 .. Latest} : chain[k] = Tx("dock", s, <<>>)}

\* Docks are remembered for the page they are on (fault).
SeenDocks_Page(q, start) == {HashOf[s] : s \in {x \in DockedIn(start, q.end) : Owner[x] = ask.maker}}

SeenDocks(q, start) == q.docks \cup {HashOf[s] : s \in {x \in DockedIn(start, q.end) : Owner[x] = ask.maker}}

\* A wallet's swaps are paged until the window is through.
Budget(k) == IF k = "swaps" THEN WindowOf[k] \div Page + 2 ELSE BudgetOf[k]

ReadPage(k) ==
    LET q == scan[k]
        start == PageStart(q)
        over == start = q.floor \/ q.pages + 1 >= Budget(k)
    IN
    /\ q.pc = "page"
    /\ scan' = [scan EXCEPT ![k] =
          [q EXCEPT !.pc = IF over THEN "done" ELSE "page", !.pages = @ + 1, !.end = NextEnd(start),
                    !.out = @ \o SetToSeq(LogsIn(k, start, q.end)),
                    !.docks = IF k = "strategies" THEN SeenDocks(q, start) ELSE {}]]
    /\ UNCHANGED <<chain, indexed, index, ask, faults>>

\* A failed scan of the hook's logs is an empty one; any other fails the request.
ScanFails(k) ==
    /\ scan[k].pc \in {"head", "page"} /\ faults < MaxFaults /\ faults' = faults + 1
    /\ IF ask.kind = "reliability"
       THEN scan' = [scan EXCEPT ![k] = [IdleScan EXCEPT !.pc = "failed"]] /\ UNCHANGED ask
       ELSE scan' = [x \in Kinds |-> IdleScan] /\ ask' = [ask EXCEPT !.pc = "failed"]
    /\ UNCHANGED <<chain, indexed, index>>

-----------------------------------------------------------------------------
(***************************************************************************)
(* /api/reliability: both scans at once, each from a head of its own.      *)
(***************************************************************************)
AskReliability ==
    LET floor == WindowFloor("fills", Latest) IN
    /\ ask.pc = "idle"
    /\ ask' = [IdleAsk EXCEPT !.kind = "reliability", !.pc = "scanning", !.began = Latest]
    /\ scan' = [scan EXCEPT !["fills"] = Begun(floor), !["refusals"] = Begun(floor)]
    /\ UNCHANGED <<chain, indexed, index, faults>>

CountOf(k, m) == Cardinality({i \in DOMAIN scan[k].out : MakerOf(scan[k].out[i]) = m})

\* A quarter is judged by the fills (fault).
Status_Fills(fills, skips) ==
    IF 4 * fills >= fills + skips THEN "UNRELIABLE" ELSE "RELIABLE"

\* computeMakerReliability: a quarter, a twentieth; no attempts is no flake.
Status(fills, skips) ==
    IF fills + skips > 0 /\ 4 * skips >= fills + skips THEN "UNRELIABLE"
    ELSE IF 20 * skips > fills + skips THEN "DEGRADED" ELSE "RELIABLE"

AnswerReliability ==
    /\ ask.kind = "reliability" /\ ask.pc = "scanning"
    /\ \A k \in {"fills", "refusals"} : scan[k].pc \in {"done", "failed"}
    /\ ask' = [ask EXCEPT !.pc = "answered", !.rows =
          {[maker |-> m, fills |-> CountOf("fills", m), skips |-> CountOf("refusals", m),
            status |-> Status(CountOf("fills", m), CountOf("refusals", m))] :
              m \in {x \in Makers : CountOf("fills", x) + CountOf("refusals", x) > 0}}]
    /\ UNCHANGED <<chain, indexed, index, scan, faults>>

-----------------------------------------------------------------------------
(***************************************************************************)
(* /api/history: the wallet's swaps, and its strategies from the subgraph. *)
(* /api/apps, /api/liquid-pairs: what the subgraph has open, or nothing.   *)
(***************************************************************************)
AskHistory(m) ==
    /\ ask.pc = "idle"
    /\ ask' = [IdleAsk EXCEPT !.kind = "history", !.pc = "fresh", !.maker = m, !.began = Latest]
    /\ scan' = [scan EXCEPT !["swaps"] = Begun(0)]
    /\ UNCHANGED <<chain, indexed, index, faults>>

AskListing(kind) ==
    /\ ask.pc = "idle"
    /\ ask' = [IdleAsk EXCEPT !.kind = kind, !.pc = "fresh", !.began = Latest]
    /\ UNCHANGED <<chain, indexed, index, scan, faults>>

\* What follows when the index may not be used: the log, or saying so.
Unindexed == [ask EXCEPT !.pc = IF ask.kind = "history" THEN "await" ELSE "answered"]

\* Trusts the index however far it is behind (fault).
TooFar_Never == FALSE

TooFar == Latest - indexed > MaxLag

\* indexFresh: no index, or one that has halted or lags, is not used.
IndexFresh ==
    /\ ask.pc = "fresh"
    /\ \/ ~ TooFar /\ ask' = [ask EXCEPT !.pc = "query"] /\ UNCHANGED faults
       \/ TooFar /\ ask' = Unindexed /\ UNCHANGED faults
       \/ faults < MaxFaults /\ faults' = faults + 1 /\ ask' = Unindexed
    /\ UNCHANGED <<chain, indexed, index, scan>>

StrategyHistoryFromGraph ==
    {[s |-> s, active |-> s \in index.live] : s \in {x \in Ours : StrategyId(x) \in index.known /\ Owner[x] = ask.maker}}

\* The first of them, in the order of their ids.
FirstOf(open) ==
    {some \in SUBSET open : Cardinality(some) = IF Cardinality(open) < First THEN Cardinality(open) ELSE First}

MakersIn(some) == {Owner[s] : s \in some}

appBreakdown(some) ==
    LET under(app) == {s \in some : AppOf[s] = app} IN
    {[app |-> app, isOurs |-> app = Router, strategies |-> Cardinality(under(app)),
      makers |-> Cardinality(MakersIn(under(app)))] : app \in {AppOf[s] : s \in some}}

\* A pair and a token are each a set of tokens; a strategy of other than two
\* tokens counts for neither.
liquidPairsFromGraph(some) ==
    LET paired == {s \in some : Cardinality(TokensOf[s]) = 2}
        on(tokens) == {s \in paired : tokens \subseteq TokensOf[s]}
        listed == {TokensOf[s] : s \in paired} \cup {{t} : t \in UNION {TokensOf[s] : s \in paired}}
    IN
    {[tokens |-> tokens, strategies |-> Cardinality(on(tokens)), makers |-> Cardinality(MakersIn(on(tokens)))] :
        tokens \in listed}

\* The query that a request of each kind makes; a listing is answered with it.
FromGraph ==
    LET q == [ask EXCEPT !.source = "graph", !.at = indexed, !.pc = IF ask.kind = "history" THEN "await" ELSE "answered"]
        answers ==
            CASE ask.kind = "history" -> {StrategyHistoryFromGraph}
              [] ask.kind = "apps"    -> {appBreakdown(some) : some \in FirstOf(index.live)}
              [] ask.kind = "pairs"   -> {liquidPairsFromGraph(some) : some \in FirstOf(index.live \cap Ours)}
    IN
    /\ ask.pc = "query"
    /\ \/ UNCHANGED faults /\ \E rows \in answers : ask' = [q EXCEPT !.rows = rows]
       \/ faults < MaxFaults /\ faults' = faults + 1 /\ ask' = Unindexed
    /\ UNCHANGED <<chain, indexed, index, scan>>

\* Both reads are awaited before the log is paged for the strategies.
FallBack ==
    /\ ask.pc = "await" /\ scan["swaps"].pc = "done" /\ ask.source = "none"
    /\ ask' = [ask EXCEPT !.pc = "paging", !.source = "log"]
    /\ scan' = [scan EXCEPT !["strategies"] = Begun(0)]
    /\ UNCHANGED <<chain, indexed, index, faults>>

\* strategyHistoryFor keeps docks by hash, whatever the app.
PagedRows ==
    {[s |-> s, active |-> HashOf[s] \notin scan["strategies"].docks] :
        s \in {x \in Ours : Owner[x] = ask.maker
                               /\ \E i \in DOMAIN scan["strategies"].out : chain[scan["strategies"].out[i][1]].s = x}}

\* swapHistoryFor: newest first.
SwapHistory ==
    LET made == ToSet(scan["swaps"].out)
    IN CHOOSE seq \in [1 .. Cardinality(made) -> made] : \A i, j \in DOMAIN seq : i < j => seq[i][1] > seq[j][1]

AnswerHistory ==
    /\ ask.kind = "history"
    /\ \/ /\ ask.pc = "await" /\ ask.source = "graph" /\ scan["swaps"].pc = "done"
          /\ ask' = [ask EXCEPT !.pc = "answered", !.swaps = SwapHistory]
       \/ /\ ask.pc = "paging" /\ scan["strategies"].pc = "done"
          /\ ask' = [ask EXCEPT !.pc = "answered", !.at = scan["strategies"].top, !.rows = PagedRows,
                                !.swaps = SwapHistory]
    /\ UNCHANGED <<chain, indexed, index, scan, faults>>

-----------------------------------------------------------------------------
RecordsInit ==
    /\ chain = <<>> /\ indexed = 0
    /\ index = [known |-> {StrategyId(s) : s \in Genesis}, live |-> Genesis, refusals |-> {}, unmatched |-> 0,
                skips |-> [m \in Makers |-> 0], fills |-> [m \in Makers |-> 0]]
    /\ ask = IdleAsk /\ scan = [k \in Kinds |-> IdleScan] /\ faults = 0

RecordsNext ==
    \/ Mine \/ IndexBlock
    \/ AskReliability \/ AnswerReliability
    \/ \E m \in Makers : AskHistory(m)
    \/ \E kind \in {"apps", "pairs"} : AskListing(kind)
    \/ IndexFresh \/ FromGraph \/ FallBack \/ AnswerHistory
    \/ \E k \in Kinds : ReadHead(k) \/ ReadPage(k) \/ ScanFails(k)

RecordsSpec == RecordsInit /\ [][RecordsNext]_RecordsVars

-----------------------------------------------------------------------------
RecordsTypeOK ==
    /\ Latest \in 0 .. MaxBlock /\ indexed \in 0 .. Latest /\ faults \in 0 .. MaxFaults
    /\ ask.pc \in {"idle", "scanning", "fresh", "query", "await", "paging", "answered", "failed"}
    /\ \A k \in Kinds : /\ scan[k].pc \in {"idle", "head", "page", "done", "failed"}
                        /\ scan[k].top \in 0 .. Latest /\ scan[k].pages \in 0 .. Budget(k)

(***************************************************************************)
(* A maker's count of refusals is the number of swaps in which it refused, *)
(* however often the hook came back to it; each leads to a strategy that   *)
(* the index knows; and no fill is counted as outside Aqua.                *)
(***************************************************************************)
IndexCountsSwaps ==
    /\ \A m \in Makers : index.skips[m] =
          Cardinality({b \in 1 .. indexed : Logs("refusals", b) # {} /\ Owner[chain[b].s] = m})
    /\ \A r \in index.refusals : r.strategy \in index.known
    /\ index.unmatched = 0

(***************************************************************************)
(* A scan that has ended holds every log of its kind once, from its head   *)
(* down to its floor or to where its pages reach, whatever was mined while *)
(* it ran.                                                                 *)
(***************************************************************************)
Lowest(k) == Max({scan[k].floor, scan[k].top - Budget(k) * (Page + 1) + 1})
ScansAreExact ==
    \A k \in Kinds : scan[k].pc = "done" =>
        ToSet(scan[k].out) = LogsIn(k, Lowest(k), scan[k].top) /\ IsInjective(scan[k].out)

(***************************************************************************)
(* Whichever scan failed, nobody is called degraded or unreliable who has  *)
(* not refused since the window began; and where both scans reached all of *)
(* the chain the index knows, the verdict is no kinder than its counters:  *)
(* it counts retries the index collapses, and only fills through the hook. *)
(***************************************************************************)
VerdictsAreEarned ==
    ask.kind = "reliability" /\ ask.pc = "answered" =>
        \A row \in ask.rows :
            /\ row.status # "RELIABLE" =>
                  \E log \in LogsIn("refusals", WindowFloor("fills", ask.began), Latest) : MakerOf(log) = row.maker
            /\ (\A k \in {"fills", "refusals"} :
                   scan[k].pc = "done" /\ scan[k].top = indexed /\ Lowest(k) = 1) =>
                  row.skips >= index.skips[row.maker] /\ row.fills <= index.fills[row.maker]

(***************************************************************************)
(* A strategy shown as active was open at the block the answer is of, one  *)
(* shown as closed was docked by then, under that app or another; the      *)
(* block is no older than the lag the index is allowed; and the swaps are  *)
(* all of the window's, newest first, so its pages suffice.                *)
(***************************************************************************)
HistoryIsTheirs ==
    ask.kind = "history" /\ ask.pc = "answered" =>
        /\ ask.at >= ask.began - MaxLag
        /\ LET top == scan["swaps"].top
               made == LogsIn("swaps", WindowFloor("swaps", top), top)
               shown == ask.swaps
           IN ToSet(shown) = made /\ \A i, j \in DOMAIN shown : i < j => shown[i][1] > shown[j][1]
        /\ \A row \in ask.rows :
              IF row.active THEN row.s \in OpenAt(ask.at)
              ELSE \E s \in DockedBy(ask.at) : HashOf[s] = HashOf[row.s] /\ Owner[s] = Owner[row.s]

(***************************************************************************)
(* A listing counts, at one block no older than the lag, what was open and *)
(* whose: a maker once per row however many strategies of it match, every  *)
(* open strategy's row when the query reached all of them, and a token no  *)
(* fewer makers than any pair of it.                                       *)
(***************************************************************************)
ListingsCount ==
    ask.kind \in {"apps", "pairs"} /\ ask.source = "graph" =>
        LET open == {s \in OpenAt(ask.at) : ask.kind = "pairs" => s \in Ours /\ Cardinality(TokensOf[s]) = 2}
            matches(row, s) == IF ask.kind = "apps" THEN AppOf[s] = row.app ELSE row.tokens \subseteq TokensOf[s]
            all == Cardinality({s \in OpenAt(ask.at) : ask.kind = "pairs" => s \in Ours}) <= First
        IN
        /\ ask.at >= ask.began - MaxLag
        /\ \A row \in ask.rows :
              LET of == {s \in open : matches(row, s)}
                  whose == Cardinality({Owner[s] : s \in of})
              IN /\ row.makers \in 1 .. whose /\ row.strategies \in row.makers .. Cardinality(of)
                 /\ all => row.makers = whose /\ row.strategies = Cardinality(of)
        /\ all => \A s \in open : \E row \in ask.rows : matches(row, s)
        /\ \A x, y \in ask.rows : ask.kind = "pairs" /\ x.tokens \subseteq y.tokens => x.makers >= y.makers

\* What is told of the past, and of what is open, was so at one recent block
\* (history.ts:51-166, graph.ts:317-517).
HistoryIsTheBook == HistoryIsTheirs /\ ListingsCount

(***************************************************************************)
(* The index's history and the log's agree about what refused, and the     *)
(* scans leave no page out (tap.ts:38-74, refusals.ts:74-193,              *)
(* history.ts:51-166).                                                     *)
(***************************************************************************)
RecordsInv == RecordsTypeOK /\ IndexCountsSwaps /\ ScansAreExact
=============================================================================
