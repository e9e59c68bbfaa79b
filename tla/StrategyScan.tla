---------------------------- MODULE StrategyScan -----------------------------
(***************************************************************************)
(* lib/aqua.ts without an index: Aqua cannot say who its makers are, so    *)
(* the server pages the event log backwards from the head, and shares one  *)
(* scan between all who ask while it runs and for TTL after it.            *)
(*                                                                         *)
(* A scan is its own sequence of reads; several may be under way, because  *)
(* one may outlast the lifetime of its own cache entry.  Whichever ends    *)
(* touches the entry of the chain, though it may by then be another's.     *)
(***************************************************************************)
EXTENDS MakerLedger

CONSTANTS
    Readers,
    MaxScans,       \* bound on the scans under way
    Page,           \* blocks before the newest that one page reaches
    Budget,         \* pages
    Cap,            \* CANDIDATE_CAP
    TTL,            \* TTL_MS, in blocks
    MaxScan,        \* bound on how long a scan takes
    MaxFaults       \* bound on reads that fail

VARIABLES
    scan,           \* indexStrategies, per scan
    entry,          \* cache: the scan that is shared and its stamp, or NoEntry
    waiting,        \* per reader the scan it awaits, or None
    faults

scanVars == <<scan, entry, waiting, faults>>

None == 0
Floor == 1
Scans == 1 .. MaxScans
NoEntry == [scan |-> None, at |-> 0]
IdleScan == [pc |-> "idle", began |-> 0, latest |-> 0, end |-> 0, pages |-> 0,
             shipped |-> {}, docked |-> {}, list |-> {}]

ASSUME ScanAssumption ==
    /\ MaxScans \in Nat \ {0} /\ Page \in Nat /\ Budget \in Nat \ {0} /\ Cap \in Nat \ {0}
    /\ TTL \in Nat \ {0} /\ MaxScan \in Nat /\ MaxFaults \in Nat

-----------------------------------------------------------------------------
BornAt(s) == CHOOSE k \in 1 .. Now : hist[k].st[s] = "live" /\ (k = 1 \/ hist[k - 1].st[s] = "new")
ShipLogs(a, b) ==
    {s \in Strategies : /\ AppOf[s] = Router
                        /\ \E k \in a .. b : hist[k].st[s] = "live" /\ (k = 1 \/ hist[k - 1].st[s] = "new")}
DockLogs(a, b) ==
    {s \in Strategies : \E k \in a .. b : k > 1 /\ hist[k].st[s] = "docked" /\ hist[k - 1].st[s] = "live"}

PageStart(end) == IF end - Page > Floor THEN end - Page ELSE Floor

\* The newest Cap of them; strategies of one block come in any order.
Newest(live) ==
    {kept \in SUBSET live :
        /\ \A s \in kept, t \in live \ kept : BornAt(s) >= BornAt(t)
        /\ Cardinality(kept) = Lesser(Cap, Cardinality(live))}

Running(i) == scan[i].pc \in {"head", "page"}
Free == {i \in Scans : ~ Running(i) /\ entry.scan # i /\ \A r \in Readers : waiting[r] # i}
Served == entry # NoEntry /\ Now - entry.at < TTL

-----------------------------------------------------------------------------
\* cachedStrategies: the shared scan if its entry is young, else a new one.
Ask(r) ==
    /\ waiting[r] = None
    /\ IF Served THEN waiting' = [waiting EXCEPT ![r] = entry.scan] /\ UNCHANGED <<scan, entry>>
       ELSE \E i \in Free :
              /\ \A j \in Free : i <= j
              /\ scan' = [scan EXCEPT ![i] = [IdleScan EXCEPT !.pc = "head", !.began = Now]]
              /\ entry' = [scan |-> i, at |-> Now]
              /\ waiting' = [waiting EXCEPT ![r] = i]
    /\ UNCHANGED faults

ReadHead(i) ==
    /\ scan[i].pc = "head"
    /\ scan' = [scan EXCEPT ![i].pc = "page", ![i].latest = Now, ![i].end = Now]
    /\ UNCHANGED <<entry, waiting, faults>>

\* Only what this page says is docked counts (fault).
SeenDocked_Page(i, start) == DockLogs(start, scan[i].end)

SeenDocked(i, start) == scan[i].docked \cup DockLogs(start, scan[i].end)

\* Refreshes whatever happens to be asked (fault).
Landed_Forever == IF entry = NoEntry THEN NoEntry ELSE [entry EXCEPT !.at = @ + 2 * TTL]

\* A scan that lands refreshes the stamp of the entry, whosever it is.
Landed == IF entry = NoEntry THEN NoEntry ELSE [entry EXCEPT !.at = Now]

\* One page of both logs, and what follows the last one.
ReadPage(i) ==
    LET start == PageStart(scan[i].end)
        shipped == scan[i].shipped \cup ShipLogs(start, scan[i].end)
        docked == SeenDocked(i, start)
        last == start = Floor \/ scan[i].pages + 1 >= Budget
    IN
    /\ scan[i].pc = "page"
    /\ IF ~ last
       THEN /\ scan' = [scan EXCEPT ![i].shipped = shipped, ![i].docked = docked,
                                    ![i].end = start - 1, ![i].pages = @ + 1]
            /\ UNCHANGED entry
       ELSE /\ \E kept \in Newest(shipped \ docked) :
                 scan' = [scan EXCEPT ![i] = [IdleScan EXCEPT !.pc = "done", !.began = scan[i].began,
                              !.latest = scan[i].latest, !.end = start, !.list = kept]]
            /\ entry' = Landed
    /\ UNCHANGED <<waiting, faults>>

\* A failed scan is left in the cache (fault).
Dropped_Kept == entry

\* cache.delete of the chain, whosever entry it holds.
Dropped == NoEntry

Fails(i) ==
    /\ Running(i) /\ faults < MaxFaults
    /\ scan' = [scan EXCEPT ![i] = [IdleScan EXCEPT !.pc = "failed", !.began = scan[i].began]]
    /\ entry' = Dropped
    /\ faults' = faults + 1
    /\ UNCHANGED waiting

\* An awaiting reader goes on with the scan's list, or throws.
Take(r) ==
    /\ waiting[r] # None /\ scan[waiting[r]].pc \in {"done", "failed"}
    /\ waiting' = [waiting EXCEPT ![r] = None]
    /\ UNCHANGED <<scan, entry, faults>>

\* A block passes; reads time out, so no scan runs for longer than MaxScan.
\* Continuations of a promise that is settled run before the next timer.
Tick ==
    /\ \A i \in Scans : Running(i) => Now - scan[i].began < MaxScan
    /\ \A r \in Readers : waiting[r] # None => Running(waiting[r])
    /\ Block
    /\ UNCHANGED scanVars

-----------------------------------------------------------------------------
ScanInit ==
    /\ hist \in {<<b>> : b \in Genesis}
    /\ scan = [i \in Scans |-> IdleScan]
    /\ entry = NoEntry
    /\ waiting = [r \in Readers |-> None]
    /\ faults = 0

ScanStep(i) == UNCHANGED hist /\ (ReadHead(i) \/ ReadPage(i) \/ Fails(i))

(***************************************************************************)
(* A list is the live book of the router as of the scan's head: pages come *)
(* newest first, so a dock is seen before its ship, and what is missing is *)
(* older than the pages reach or than all the cap let through.             *)
(***************************************************************************)
ListIsTheBook ==
    \A i \in Scans : scan[i].pc = "done" =>
        LET live == {s \in Live(hist[scan[i].latest]) : AppOf[s] = Router} IN
        /\ scan[i].list \subseteq live
        /\ \A s \in live \ scan[i].list :
              \/ BornAt(s) < scan[i].end
              \/ Cardinality({t \in scan[i].list : BornAt(t) >= BornAt(s)}) = Cap

(***************************************************************************)
(* Whoever asks is given a scan begun less than a lifetime and the longest *)
(* scan ago, although every scan that lands extends the entry it finds,    *)
(* and it is never one that failed.                                        *)
(***************************************************************************)
SharedIsRecent ==
    Served => /\ Now - scan[entry.scan].began < TTL + MaxScan
              /\ scan[entry.scan].pc # "failed"
=============================================================================
