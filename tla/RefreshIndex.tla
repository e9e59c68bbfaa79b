---------------------------- MODULE RefreshIndex ----------------------------
(***************************************************************************)
(* The background index of one chain: refreshIndex pages through 1inch's   *)
(* list of open strategies and writes what it saw to Postgres, statement   *)
(* by statement and without a transaction, while strategies open and close *)
(* and wallets move.  Quotes read the tables whenever they like.           *)
(*                                                                         *)
(* A job may fail at any statement: a query or a page throws, or the       *)
(* platform kills it at maxDuration.  Nothing stops two jobs overlapping:  *)
(* the schedule has no concurrency group and can also be fired by hand.    *)
(*                                                                         *)
(* A strategy opens once and closes for good, and trades one token.        *)
(***************************************************************************)
EXTENDS Integers, Sequences, FiniteSets, SequencesExt

CONSTANTS
    Strategies,
    Listing,      \* all of them, in the order of the API's cursor
    PageSize,     \* strategies on a page, and rows in a statement (BATCH)
    MaxPages,     \* MAX_PAGES
    Jobs,         \* overlapping runs of the job
    Depths,       \* depths a strategy may have: the least of the three amounts
    Budget,       \* bound on what happens on the chain
    Failures      \* bound on failing jobs

ASSUME RefreshIndexAssumption ==
    /\ Listing \in Seq(Strategies) /\ IsInjective(Listing) /\ ToSet(Listing) = Strategies
    /\ PageSize \in Nat \ {0} /\ MaxPages \in Nat \ {0} /\ Budget \in Nat /\ Failures \in Nat
    /\ Depths \subseteq Nat

VARIABLES
    status,       \* on chain: "new", "open" or "closed"
    depth,        \* on chain
    events,       \* what has happened on the chain
    table,        \* aqua_strategies joined with aqua_depth
    refreshed,    \* aqua_scan_state holds a row for the chain
    pc, chunk,    \* per job: where it is, and the page or batch it is at
    cursor,       \* per job: how far into the listing the API has answered
    items,        \* per job: the strategies fetched, with their depths
    missing,      \* per job: what it found live in the table and not among items
    alone,        \* per job: no other job has run beside it
    last,         \* what the last job fetched if it finished, and if it was alone
    failures

chain == <<status, depth, events>>
database == <<table, refreshed>>
jobs == <<pc, chunk, cursor, items, missing, alone, last, failures>>
vars == <<chain, database, jobs>>

None == -1
Absent == [known |-> FALSE, docked |-> FALSE, depth |-> None]
NoLast == [items |-> <<>>, alone |-> FALSE]
Fetched(list) == {list[i].s : i \in DOMAIN list}

-----------------------------------------------------------------------------
Happens == events < Budget /\ events' = events + 1

Open(s, d) ==
    /\ status[s] = "new" /\ Happens
    /\ status' = [status EXCEPT ![s] = "open"]
    /\ depth' = [depth EXCEPT ![s] = d]
    /\ UNCHANGED <<database, jobs>>

Close(s) ==
    /\ status[s] = "open" /\ Happens
    /\ status' = [status EXCEPT ![s] = "closed"]
    /\ UNCHANGED <<depth, database, jobs>>

Move(s, d) ==
    /\ status[s] = "open" /\ d # depth[s] /\ Happens
    /\ depth' = [depth EXCEPT ![s] = d]
    /\ UNCHANGED <<status, database, jobs>>

-----------------------------------------------------------------------------
Running(j) == pc[j] # "idle"

Goto(j, label) ==
    /\ pc' = [pc EXCEPT ![j] = label]
    /\ chunk' = [chunk EXCEPT ![j] = 1]

\* list.slice(from - 1, to)
Slice(list, from, to) == SubSeq(list, from, IF to < Len(list) THEN to ELSE Len(list))

\* After chunk k of a phase, the next chunk or the next phase.
Advance(j, k, more, label) ==
    IF more THEN chunk' = [chunk EXCEPT ![j] = k + 1] /\ UNCHANGED pc
            ELSE Goto(j, label)

\* A job that ends leaves nothing behind.
End(j) ==
    /\ Goto(j, "idle")
    /\ items' = [items EXCEPT ![j] = <<>>]
    /\ cursor' = [cursor EXCEPT ![j] = 0]
    /\ missing' = [missing EXCEPT ![j] = {}]
    /\ alone' = [alone EXCEPT ![j] = TRUE]

Begin(j) ==
    /\ pc[j] = "idle"
    /\ Goto(j, "fetch")
    /\ alone' = [i \in Jobs |-> IF i = j THEN \A k \in Jobs : ~ Running(k)
                                         ELSE ~ Running(i)]
    /\ UNCHANGED <<chain, database, cursor, items, missing, last, failures>>

\* The positions after p of the listing that are open, and the page the first of
\* them make, in order.
OpenAfter(p) == {i \in DOMAIN Listing : i > p /\ status[Listing[i]] = "open"}
PageLen(p) == IF Cardinality(OpenAfter(p)) < PageSize THEN Cardinality(OpenAfter(p)) ELSE PageSize

Pages(p) ==
    {page \in [1 .. PageLen(p) -> OpenAfter(p)] :
        /\ \A a, b \in DOMAIN page : a < b => page[a] < page[b]
        /\ \A a \in DOMAIN page, i \in OpenAfter(p) : i < page[a] => \E b \in DOMAIN page : page[b] = i}

\* Asks for the same page again (fault).
NextCursor_Stale(page, p) == p

NextCursor(page, p) == IF page = <<>> THEN p ELSE Last(page)

Read(page) == [i \in DOMAIN page |-> [s |-> Listing[page[i]], depth |-> depth[Listing[page[i]]]]]

FetchPage(j) ==
    LET more == Cardinality(OpenAfter(cursor[j])) > PageSize IN
    /\ pc[j] = "fetch"
    /\ \E page \in Pages(cursor[j]) :
          /\ items' = [items EXCEPT ![j] = @ \o Read(page)]
          /\ cursor' = [cursor EXCEPT ![j] = NextCursor(page, @)]
    /\ Advance(j, chunk[j], more /\ chunk[j] < MaxPages, "upsert")
    /\ UNCHANGED <<chain, database, missing, alone, last, failures>>

\* The rows written by statement k.
Batch(list, k) == Slice(list, (k - 1) * PageSize + 1, k * PageSize)

\* Stops before the last statement (fault).
MoreAfter_Short(list, k) == (k + 1) * PageSize < Len(list)

MoreAfter(list, k) == k * PageSize < Len(list)

\* INSERT ... ON CONFLICT DO UPDATE SET docked = FALSE; a depth row stays.
Upsert(j) ==
    LET rows == Fetched(Batch(items[j], chunk[j])) IN
    /\ pc[j] = "upsert"
    /\ table' = [s \in Strategies |-> IF s \in rows
                                      THEN [table[s] EXCEPT !.known = TRUE, !.docked = FALSE]
                                      ELSE table[s]]
    /\ Advance(j, chunk[j], MoreAfter(items[j], chunk[j]), "select")
    /\ UNCHANGED <<chain, refreshed, cursor, items, missing, alone, last, failures>>

PreviouslyLive == {s \in Strategies : table[s].known /\ ~ table[s].docked}

Select(j) ==
    /\ pc[j] = "select"
    /\ missing' = [missing EXCEPT ![j] = PreviouslyLive \ Fetched(items[j])]
    /\ Goto(j, "dock")
    /\ UNCHANGED <<chain, database, cursor, items, alone, last, failures>>

MarkDocked(j) ==
    /\ pc[j] = "dock"
    /\ table' = [s \in Strategies |-> IF s \in missing[j] THEN [table[s] EXCEPT !.docked = TRUE]
                                                          ELSE table[s]]
    /\ Goto(j, "depth")
    /\ UNCHANGED <<chain, refreshed, cursor, items, missing, alone, last, failures>>

WriteDepth(j) ==
    LET rows == Batch(items[j], chunk[j]) IN
    /\ pc[j] = "depth"
    /\ table' = [s \in Strategies |->
                   IF s \in Fetched(rows)
                   THEN [table[s] EXCEPT !.depth = (CHOOSE r \in ToSet(rows) : r.s = s).depth]
                   ELSE table[s]]
    /\ Advance(j, chunk[j], MoreAfter(items[j], chunk[j]), "stamp")
    /\ UNCHANGED <<chain, refreshed, cursor, items, missing, alone, last, failures>>

Stamp(j) ==
    /\ pc[j] = "stamp"
    /\ refreshed' = TRUE
    /\ last' = [items |-> items[j], alone |-> alone[j]]
    /\ End(j)
    /\ UNCHANGED <<chain, table, failures>>

\* Takes a page that failed for the last one (fault).
Fail_Lenient(j) ==
    /\ Running(j) /\ failures < Failures
    /\ failures' = failures + 1
    /\ IF pc[j] = "fetch"
       THEN Goto(j, "upsert") /\ UNCHANGED <<cursor, items, missing, alone, last>>
       ELSE End(j) /\ last' = NoLast
    /\ UNCHANGED <<chain, database>>

\* A page or a statement throws, or the platform kills the job.
Fail(j) ==
    /\ Running(j) /\ failures < Failures
    /\ failures' = failures + 1
    /\ last' = NoLast
    /\ End(j)
    /\ UNCHANGED <<chain, database>>

Step(j) ==
    \/ Begin(j) \/ FetchPage(j) \/ Upsert(j) \/ Select(j)
    \/ MarkDocked(j) \/ WriteDepth(j) \/ Stamp(j)

-----------------------------------------------------------------------------
Init ==
    /\ status = [s \in Strategies |-> "new"]
    /\ depth = [s \in Strategies |-> None]
    /\ events = 0
    /\ table = [s \in Strategies |-> Absent]
    /\ refreshed = FALSE
    /\ pc = [j \in Jobs |-> "idle"] /\ chunk = [j \in Jobs |-> 1]
    /\ cursor = [j \in Jobs |-> 0]
    /\ items = [j \in Jobs |-> <<>>] /\ missing = [j \in Jobs |-> {}]
    /\ alone = [j \in Jobs |-> TRUE]
    /\ last = NoLast
    /\ failures = 0

Next ==
    \/ \E s \in Strategies : Close(s) \/ \E d \in Depths : Open(s, d) \/ Move(s, d)
    \/ \E j \in Jobs : Step(j) \/ Fail(j)

Spec == Init /\ [][Next]_vars

\* The schedule fires for ever and a job that does not fail runs on.
FairSpec == Spec /\ \A j \in Jobs : WF_vars(Step(j))

-----------------------------------------------------------------------------
TypeOK ==
    /\ \A s \in Strategies :
          /\ status[s] \in {"new", "open", "closed"} /\ depth[s] \in Depths \cup {None}
          /\ table[s].known \in BOOLEAN /\ table[s].docked \in BOOLEAN
          /\ table[s].depth \in Depths \cup {None}
          /\ ~ table[s].known => table[s] = Absent
    /\ \A j \in Jobs :
          /\ pc[j] \in {"idle", "fetch", "upsert", "select", "dock", "depth", "stamp"}
          /\ Fetched(items[j]) \subseteq Strategies
          /\ \A a, b \in DOMAIN items[j] : items[j][a].s = items[j][b].s => a = b
          /\ missing[j] \subseteq Strategies \ Fetched(items[j]) \/ pc[j] # "dock"

\* What a reader is given once the chain has been indexed: the rows that join
\* and are not docked.
Served(s) == refreshed /\ table[s].known /\ ~ table[s].docked /\ table[s].depth # None

(***************************************************************************)
(* "Missing from the open set IS the dock signal": what a job marks docked *)
(* is closed, however the listing moved while it was paged and whatever    *)
(* earlier jobs left half written, if no other job runs beside it.         *)
(***************************************************************************)
DocksOnlyTheClosed ==
    [][(\A j \in Jobs : Running(j) => alone[j]) =>
        \A s \in Strategies :
            ~ table[s].docked /\ table'[s].docked => status[s] = "closed"]_vars

(***************************************************************************)
(* After a job that ran alone to its end, readers see exactly what it      *)
(* fetched: no strategy of an earlier, failed or overlapped job is left.   *)
(***************************************************************************)
IndexIsLastFetch ==
    (\A j \in Jobs : ~ Running(j)) /\ last.alone =>
        /\ {s \in Strategies : Served(s)} = Fetched(last.items)
        /\ \A r \in ToSet(last.items) : table[r.s].depth = r.depth

(***************************************************************************)
(* Once the chain is quiet the index becomes the chain's open strategies   *)
(* with their depths, and stays so: what failed jobs and overlapping jobs  *)
(* wrote is repaired by the jobs that follow.                              *)
(***************************************************************************)
Converges ==
    <>[](\A s \in Strategies :
            /\ Served(s) <=> status[s] = "open"
            /\ Served(s) => table[s].depth = depth[s])

(***************************************************************************)
(* The tables are well formed at every statement of every job, and after a *)
(* job that ran alone they are exactly what it fetched                     *)
(* (indexer.ts:93-220).                                                    *)
(***************************************************************************)
RefreshInv == TypeOK /\ IndexIsLastFetch
=============================================================================
