----------------------------- MODULE MakerViews ------------------------------
(***************************************************************************)
(* Three routes that tell a reader what a maker has promised and what      *)
(* stands behind it: /api/coverage, /api/exposure and /api/makers.  The    *)
(* promises come from the subgraph, from the Postgres index or from a scan *)
(* of the log, each as of its own block; the wallet and the allowance from *)
(* the chain, later; and the head the answer is judged by from a variable  *)
(* that every request overwrites.                                          *)
(*                                                                         *)
(* One row is modelled, of one maker and one token: rows are independent.  *)
(***************************************************************************)
EXTENDS StrategyScan

CONSTANTS
    Asks,           \* which route each request may be for
    MaxLag,         \* MAX_LAG_BLOCKS
    MakersTTL       \* MAKERS_CACHE_TTL, in blocks

VARIABLES
    graph,          \* does the network have a subgraph?
    ib,             \* the block the subgraph has indexed
    db,             \* the block the Postgres index was filled at, or 0
    istate,         \* state, of lib/graph.ts
    makers,         \* makersServerCache: the answer and its stamp, or NoMakers
    req

viewVars == <<graph, ib, db, istate, makers, req>>
vars == <<hist, scanVars, viewVars>>

Requests == Readers
NoApp == "no app"
NoMakers == [at |-> 0, list |-> {}, read |-> 0]
IdleReq == [kind |-> "none", pc |-> "idle", began |-> 0, src |-> "none", at |-> 0, seen |-> 0, unjudged |-> FALSE,
            hashes |-> {}, committed |-> 0, app |-> NoApp, known |-> FALSE, walletAt |-> 0, allowAt |-> 0,
            backed |-> 0, skew |-> 0, check |-> "none", claimAt |-> 0, claims |-> 0]

ASSUME ViewsAssumption ==
    /\ Asks \subseteq [Readers -> {"coverage", "exposure", "makers"}] /\ MaxLag \in Nat /\ MakersTTL \in Nat \ {0}
    /\ NoApp \notin {AppOf[s] : s \in Strategies}

\* A read that may go unanswered.
Ok(ok) == ok \/ faults < MaxFaults
Spend(ok) == faults' = faults + IF ok THEN 0 ELSE 1

Go(r, fields) == req' = [req EXCEPT ![r] = fields]
Off == [head |-> 0, status |-> "off"]

-----------------------------------------------------------------------------
(***************************************************************************)
(* Arrivals, up to the first await.                                        *)
(***************************************************************************)

MakersHit == makers # NoMakers /\ Now - makers.at < MakersTTL

Arrive(r, kind) ==
    LET q == [IdleReq EXCEPT !.kind = kind, !.began = Now] IN
    /\ req[r].pc = "idle"
    /\ \E a \in Asks : a[r] = kind /\ \A o \in Requests : req[o].kind \in {"none", a[o]}
    /\ \/ /\ kind = "makers" /\ MakersHit
          /\ Go(r, [q EXCEPT !.pc = "done", !.src = "cache", !.hashes = makers.list, !.claimAt = makers.read])
          /\ UNCHANGED istate
       \/ /\ kind = "makers" /\ ~ MakersHit
          /\ Go(r, [q EXCEPT !.pc = "db"])
          /\ UNCHANGED istate
       \/ /\ kind # "makers" /\ graph
          /\ Go(r, [q EXCEPT !.pc = "meta"])
          /\ UNCHANGED istate
       \/ /\ kind # "makers" /\ ~ graph
          /\ Go(r, [q EXCEPT !.pc = IF kind = "coverage" THEN "db" ELSE "done"])
          /\ istate' = Off
    /\ UNCHANGED <<hist, scanVars, graph, ib, db, makers>>

-----------------------------------------------------------------------------
(***************************************************************************)
(* Where the promises come from.                                           *)
(***************************************************************************)

\* What follows when the index may not be used: a scan, or saying so.
Unindexed(q) == [IdleReq EXCEPT !.kind = q.kind, !.pc = IF q.kind = "makers" THEN "ask" ELSE "done"]

\* indexFresh: the subgraph's own block, and whether it has halted.
Meta(r) ==
    LET q == req[r] IN
    /\ q.pc = "meta"
    /\ \E answer \in {"ready", "unreachable", "errored"} :
          /\ Ok(answer = "ready") /\ Spend(answer = "ready")
          /\ IF answer = "ready" THEN Go(r, [q EXCEPT !.pc = "head", !.seen = ib]) /\ UNCHANGED istate
             ELSE Go(r, Unindexed(q)) /\ istate' = [head |-> 0, status |-> answer]
    /\ UNCHANGED <<hist, scan, entry, waiting, graph, ib, db, makers>>

\* Trusts the index however far it is behind (fault).
TooFar_Never(q) == FALSE

TooFar(q) == Now - q.seen > MaxLag

\* The chain's head; an index is trusted when the head cannot be read.
HeadBlock(r) ==
    LET q == req[r] IN
    /\ q.pc = "head"
    /\ \E ok \in BOOLEAN :
          /\ Ok(ok) /\ Spend(ok)
          /\ LET behind == ok /\ TooFar(q) IN
             /\ istate' = [head |-> q.seen, status |-> IF behind THEN "syncing" ELSE "ready"]
             /\ Go(r, IF behind THEN Unindexed(q) ELSE [q EXCEPT !.pc = "query", !.unjudged = ~ ok])
    /\ UNCHANGED <<hist, scan, entry, waiting, graph, ib, db, makers>>

Found(q, src, at, committed) ==
    [IdleReq EXCEPT !.kind = q.kind, !.src = src, !.at = at, !.committed = committed]

\* The router's own live strategies, to be measured.
strategiesFromGraph(q) ==
    {[Found(q, "graph", ib, 0) EXCEPT !.pc = "measure", !.hashes = {s \in Live(hist[ib]) : AppOf[s] = Router}]}

\* Totals above zero, across every app, with the hashes behind them and the app
\* of one of them.
positionsFromGraph(q) ==
    LET row == Found(q, "graph", ib, Committed(hist[ib], Strategies)) IN
    IF row.committed = 0 THEN {[row EXCEPT !.pc = "done"]}
    ELSE {[row EXCEPT !.pc = "balances", !.hashes = Live(hist[ib]), !.app = AppOf[first]] : first \in Live(hist[ib])}

\* One maker by its id: its totals, and its live strategies whatever they promise.
makerBook(q) ==
    {[Found(q, "graph", ib, Committed(hist[ib], Strategies))
         EXCEPT !.pc = IF Live(hist[ib]) # {} THEN "sides" ELSE "done", !.hashes = Live(hist[ib])]}

\* A query that is not answered is an index that may not be used.
FromGraph(r) ==
    LET q == req[r]
        answers == CASE q.kind = "makers"   -> strategiesFromGraph(q)
                     [] q.kind = "coverage" -> positionsFromGraph(q)
                     [] q.kind = "exposure" -> makerBook(q)
    IN
    /\ q.pc = "query"
    /\ \E ok \in BOOLEAN :
          /\ Ok(ok) /\ Spend(ok)
          /\ \E answer \in IF ok THEN answers ELSE {Unindexed(q)} : Go(r, answer)
    /\ UNCHANGED <<hist, scan, entry, waiting, graph, ib, db, istate, makers>>

\* The router's rows not docked when the table was filled, including those
\* that promise nothing any more.
positionsFromIndex == {s \in Live(hist[db]) : AppOf[s] = Router}

FromTable(r) ==
    LET q == req[r]
        rows == positionsFromIndex
        found == [Found(q, "table", db, Committed(hist[db], rows)) EXCEPT !.hashes = rows, !.app = Router]
    IN
    /\ q.pc = "db"
    /\ \/ db = 0 /\ q.kind = "makers" /\ graph /\ Go(r, [q EXCEPT !.pc = "meta"]) /\ UNCHANGED <<makers, istate>>
       \/ db = 0 /\ q.kind = "makers" /\ ~ graph /\ Go(r, [q EXCEPT !.pc = "ask"]) /\ istate' = Off /\ UNCHANGED makers
       \/ db = 0 /\ q.kind = "coverage" /\ Go(r, [q EXCEPT !.pc = "ask"]) /\ UNCHANGED <<makers, istate>>
       \/ /\ db # 0 /\ q.kind = "makers" /\ UNCHANGED istate
          /\ makers' = [at |-> Now, list |-> rows, read |-> db]
          /\ Go(r, [found EXCEPT !.pc = "done", !.claimAt = db])
       \/ /\ db # 0 /\ q.kind = "coverage" /\ UNCHANGED <<makers, istate>>
          /\ Go(r, [found EXCEPT !.pc = IF rows = {} THEN "done" ELSE "balances"])
    /\ UNCHANGED <<hist, scanVars, graph, ib, db>>

AskScan(r) ==
    /\ req[r].pc = "ask" /\ Ask(r)
    /\ Go(r, [req[r] EXCEPT !.pc = "scan"])
    /\ UNCHANGED <<hist, graph, ib, db, istate, makers>>

\* A scan that failed is said to have failed.
TakeScan(r) ==
    LET q == req[r]
        s == scan[waiting[r]]
    IN
    /\ q.pc = "scan" /\ Take(r)
    /\ Go(r, IF s.pc = "failed" THEN [IdleReq EXCEPT !.kind = q.kind, !.pc = "done"]
             ELSE [IdleReq EXCEPT !.kind = q.kind, !.src = "scan", !.hashes = s.list,
                                 !.pc = IF q.kind = "makers" THEN "measure" ELSE "positions"])
    /\ UNCHANGED <<hist, graph, ib, db, istate, makers>>

\* positionsFromRpc: what each of the listed strategies promises now; those
\* that are not answered, or promise nothing, are left out.
Positions(r) ==
    LET q == req[r]
        b == hist[Now]
    IN
    /\ q.pc = "positions"
    /\ \E lost \in {{}} \cup {{s} : s \in q.hashes} :
          LET kept == {s \in q.hashes \ lost : Virtual(b, s) > 0} IN
          /\ Ok(lost = {}) /\ Spend(lost = {})
          /\ Go(r, [q EXCEPT !.pc = IF kept = {} THEN "done" ELSE "balances", !.at = Now, !.app = Router,
                             !.hashes = kept, !.committed = Committed(b, kept)])
    /\ UNCHANGED <<hist, scan, entry, waiting, graph, ib, db, istate, makers>>

-----------------------------------------------------------------------------
(***************************************************************************)
(* /api/coverage: the balances, the head they are judged by, and Lens.     *)
(***************************************************************************)

\* A read that failed is a balance of zero (fault).
Known_Always(walletOk, allowOk) == TRUE

Known(walletOk, allowOk) == walletOk /\ allowOk

Balances(r) ==
    LET b == hist[Now] IN
    /\ req[r].pc = "balances"
    /\ \E walletOk, allowOk \in BOOLEAN :
          /\ Ok(walletOk /\ allowOk) /\ Spend(walletOk /\ allowOk)
          /\ Go(r, [req[r] EXCEPT !.pc = "block", !.walletAt = Now, !.allowAt = Now,
                      !.known = Known(walletOk, allowOk),
                      !.backed = Lesser(IF walletOk THEN b.wallet ELSE 0, IF allowOk THEN b.allow ELSE 0)])
    /\ UNCHANGED <<hist, scan, entry, waiting, graph, ib, db, istate, makers>>

Distance(a, b) == IF a > b THEN a - b ELSE b - a

ChainBlock(r) ==
    /\ req[r].pc = "block"
    /\ Go(r, [req[r] EXCEPT !.pc = IF req[r].known THEN "lens" ELSE "done",
                            !.skew = Distance(Now, istate.head)])
    /\ UNCHANGED <<hist, scanVars, graph, ib, db, istate, makers>>

CoverageBps(q) == IF q.committed > 0 THEN (q.backed * Bps) \div q.committed ELSE 0
Short(q) == q.kind = "coverage" /\ q.known /\ CoverageBps(q) < Bps

\* Compares with a ratio that may exceed the whole (fault).
Capped_Not(bps) == bps

\* Lens caps at the whole; the route does not.
Capped(bps) == Lesser(bps, Bps)

Lens(r) ==
    LET q == req[r] IN
    /\ q.pc = "lens"
    /\ \E ok \in BOOLEAN :
          /\ Ok(ok) /\ Spend(ok)
          /\ Go(r, [q EXCEPT !.pc = "done", !.claimAt = IF ok THEN Now ELSE 0, !.skew = 0,
                !.check = IF ~ ok THEN "disagrees"
                          ELSE IF LensBps(hist[Now], q.app, q.hashes) = Capped(CoverageBps(q)) THEN "agrees"
                          ELSE IF q.skew > 0 THEN "inconclusive" ELSE "disagrees"])
    /\ UNCHANGED <<hist, scan, entry, waiting, graph, ib, db, istate, makers>>

-----------------------------------------------------------------------------
(***************************************************************************)
(* /api/exposure and /api/makers: each strategy's own claim.               *)
(***************************************************************************)

\* Reads every strategy under the site's router (fault).
AppRead_Router(s) == Router

AppRead(s) == AppOf[s]

\* strategyPositions: a claim that is not answered counts as none.
Sides(r) ==
    LET q == req[r]
        answered(lost) == {s \in q.hashes \ lost : AppRead(s) = AppOf[s]}
    IN
    /\ q.pc = "sides"
    /\ \E lost \in {{}} \cup {{s} : s \in q.hashes} :
          /\ Ok(lost = {}) /\ Spend(lost = {})
          /\ Go(r, [q EXCEPT !.pc = IF q.committed > 0 THEN "tokens" ELSE "done",
                             !.claims = Committed(hist[Now], answered(lost)),
                             !.claimAt = IF lost = {} THEN Now ELSE 0])
    /\ UNCHANGED <<hist, scan, entry, waiting, graph, ib, db, istate, makers>>

\* tokenBalances: a wallet of this block or the last, no answer, or a list
\* that leaves the token out.
Tokens(r) ==
    /\ req[r].pc = "tokens"
    /\ \E k \in {0} \cup {x \in {Now - 1, Now} : x > 0} :
          Go(r, [req[r] EXCEPT !.pc = "held", !.walletAt = k])
    /\ UNCHANGED <<hist, scanVars, graph, ib, db, istate, makers>>

\* The allowance, and the wallet unless it is known by now.
Held(r) ==
    LET q == req[r]
        at == IF q.walletAt = 0 THEN Now ELSE q.walletAt
    IN
    /\ q.pc = "held"
    /\ \E walletOk, allowOk \in BOOLEAN :
          /\ ~ walletOk => q.walletAt = 0
          /\ Ok(walletOk /\ allowOk) /\ Spend(walletOk /\ allowOk)
          /\ Go(r, [q EXCEPT !.pc = "done", !.known = walletOk /\ allowOk, !.walletAt = at, !.allowAt = Now,
                      !.backed = Lesser(IF walletOk THEN hist[at].wallet ELSE 0,
                                        IF allowOk THEN hist[Now].allow ELSE 0)])
    /\ UNCHANGED <<hist, scan, entry, waiting, graph, ib, db, istate, makers>>

Covered(q) == q.backed >= q.committed

\* measureDepth of every listed strategy; the answer is kept for MakersTTL.
Measure(r) ==
    LET q == req[r] IN
    /\ q.pc = "measure"
    /\ makers' = [at |-> Now, list |-> q.hashes, read |-> Now]
    /\ Go(r, [q EXCEPT !.pc = "done", !.claimAt = Now])
    /\ UNCHANGED <<hist, scanVars, graph, ib, db, istate>>

Depth(s, k) == Lesser(Virtual(hist[k], s), Backing(hist[k]))

-----------------------------------------------------------------------------
IndexSees ==
    /\ graph /\ ib < Now /\ ib' \in (ib + 1) .. Now
    /\ UNCHANGED <<hist, scanVars, graph, db, istate, makers, req>>

\* A refresh of the Postgres index, as if in one step: RefreshIndex has it whole.
Refresh ==
    /\ ~ graph /\ db = 0 /\ db' = Now
    /\ UNCHANGED <<hist, scanVars, graph, ib, istate, makers, req>>

Init ==
    /\ ScanInit
    /\ graph \in BOOLEAN /\ ib = 1 /\ db = 0
    /\ istate = Off /\ makers = NoMakers
    /\ req = [r \in Requests |-> IdleReq]

Handle(r) ==
    \/ Meta(r) \/ HeadBlock(r) \/ FromGraph(r) \/ FromTable(r) \/ AskScan(r) \/ TakeScan(r) \/ Positions(r)
    \/ Balances(r) \/ ChainBlock(r) \/ Lens(r) \/ Sides(r) \/ Tokens(r) \/ Held(r) \/ Measure(r)

Scanning(i) == ScanStep(i) /\ UNCHANGED viewVars

Next ==
    \/ \E r \in Requests : Handle(r) \/ \E kind \in {a[r] : a \in Asks} : Arrive(r, kind)
    \/ \E i \in Scans : Scanning(i)
    \/ IndexSees \/ Refresh
    \/ Tick /\ UNCHANGED viewVars

Spec == Init /\ [][Next]_vars

-----------------------------------------------------------------------------
TypeOK ==
    /\ hist \in Seq(Books) /\ Now \in 1 .. MaxBlock /\ faults \in 0 .. MaxFaults
    /\ \A i \in Scans : scan[i].pc \in {"idle", "head", "page", "done", "failed"} /\ scan[i].end \in 0 .. Now
    /\ entry.scan \in 0 .. MaxScans /\ entry.at \in 0 .. Now
    /\ graph \in BOOLEAN /\ ib \in 1 .. Now /\ db \in 0 .. Now
    /\ istate.status \in {"off", "ready", "syncing", "unreachable", "errored"} /\ istate.head \in 0 .. Now
    /\ \A r \in Requests : /\ req[r].at \in 0 .. Now /\ req[r].claimAt \in 0 .. Now
                           /\ req[r].pc = "scan" <=> waiting[r] # None

(***************************************************************************)
(* A maker is counted as under-collateralised only if what it had promised *)
(* at the block its promises were read exceeds what stood behind it at the *)
(* block its balances were read: whatever source answered, however much of *)
(* it is missing, and whichever reads failed.  A row that promises nothing *)
(* is set apart: the Postgres index keeps rows of drained sides.           *)
(***************************************************************************)
ShortIsReal ==
    \A r \in Requests : LET q == req[r] IN
        q.pc = "done" /\ Short(q) /\ q.committed > 0 =>
            Committed(hist[q.at], Strategies) > Backing(hist[q.walletAt])

(***************************************************************************)
(* The route's own ratio and the contract's agree whenever both were taken *)
(* of one block and the maker uses one app: only then is a disagreement    *)
(* about the index rather than about the moment.                           *)
(***************************************************************************)
OneApp(q) == \A s \in q.hashes : AppOf[s] = q.app
SameBlockAgrees ==
    \A r \in Requests : LET q == req[r] IN
        /\ q.pc = "done" /\ q.kind = "coverage" /\ q.claimAt # 0 /\ OneApp(q) /\ q.committed > 0
        /\ \A k \in {q.at, q.walletAt} : hist[k] = hist[q.claimAt]
        => q.check = "agrees"

(***************************************************************************)
(* An answer out of the subgraph is of a block no further behind the head  *)
(* at its arrival than the route tolerates, whatever the index and the     *)
(* chain do between the three reads; unless the head could not be read.    *)
(***************************************************************************)
AnswersAreRecent ==
    [][\A r \in Requests : LET q == req[r] IN
        q.pc = "query" /\ req'[r].src = "graph" /\ ~ q.unjudged => req'[r].at >= q.began - MaxLag]_vars

(***************************************************************************)
(* Coverage and exposure, which read and add up separately, give the same  *)
(* verdict on the same blocks; and the claims of a maker's strategies add  *)
(* up to the total the index keeps, under whichever apps they are.         *)
(***************************************************************************)
ViewsAgree ==
    \A r, o \in Requests : LET e == req[r] c == req[o] IN
        /\ e.pc = "done" /\ e.kind = "exposure" /\ e.src = "graph" =>
              (e.claimAt # 0 /\ hist[e.claimAt] = hist[e.at] => e.claims = e.committed)
        /\ /\ e.pc = "done" /\ e.kind = "exposure" /\ e.known /\ e.allowAt # 0
           /\ c.pc = "done" /\ c.kind = "coverage" /\ c.known /\ c.src = "graph" /\ c.at = e.at
           /\ c.committed > 0 /\ c.walletAt = e.walletAt /\ c.allowAt = e.allowAt
           => Covered(e) = ~ Short(c)

(***************************************************************************)
(* What /api/makers shows as deliverable could be delivered at the block   *)
(* it was measured: lists may be old, but a strategy docked since measures *)
(* nothing.                                                                *)
(***************************************************************************)
SolventIsLive ==
    \A r \in Requests : LET q == req[r] IN
        q.kind = "makers" /\ q.pc = "done" /\ q.claimAt # 0 =>
            \A s \in q.hashes : Depth(s, q.claimAt) > 0 => s \in Live(hist[q.claimAt])

(***************************************************************************)
(* A list of strategies handed to several requests is the live book of a   *)
(* block not long ago, and never that of a scan that failed                *)
(* (aqua.ts:85-198).                                                       *)
(***************************************************************************)
ViewsInv == TypeOK /\ ListIsTheBook /\ SharedIsRecent

(***************************************************************************)
(* A maker reported short was short, and one reported solvent has a live   *)
(* strategy behind its depth (coverage/route.ts:109-182,                   *)
(* makers/route.ts:57-109).                                                *)
(***************************************************************************)
ClaimsAreReal == ShortIsReal /\ SolventIsLive

(***************************************************************************)
(* Answers of different routes, and of the contract, about one maker agree *)
(* wherever they are of one block, and none is older than the lag          *)
(* tolerated (graph.ts:89-117, exposure/route.ts:229-302).                 *)
(***************************************************************************)
AnswersAgree == SameBlockAgrees /\ ViewsAgree
=============================================================================
