-------------------------- MODULE MakerViewsProofs --------------------------
(***************************************************************************)
(* How old an answer about a maker may be: one out of the subgraph, and    *)
(* one out of a scan that several requests share; what the list that a     *)
(* scan ends with leaves out; and that what the routes say of a maker is   *)
(* so, and said alike by all of them: for any history of the chain and any *)
(* number of strategies, requests and scans.                               *)
(***************************************************************************)
EXTENDS MakerViews, FiniteSetTheorems, WellFoundedInduction, TLAPS

Apps == {AppOf[s] : s \in Strategies}
\* What promises may add up to, and nothing.
Sums == {0} \cup {Committed(b, set) : b \in Books, set \in SUBSET Strategies}

Scan == [pc : {"idle", "head", "page", "done", "failed"}, began : Nat, latest : Nat, end : Nat, pages : Nat,
         shipped : SUBSET Strategies, docked : SUBSET Strategies, list : SUBSET Strategies]

Req == [kind : {"none", "coverage", "exposure", "makers"},
        pc : {"idle", "db", "meta", "head", "query", "ask", "scan", "measure", "positions", "balances", "block", "lens",
              "sides", "tokens", "held", "done"},
        began : Nat, src : {"none", "cache", "graph", "table", "scan"}, at : Nat, seen : Nat, unjudged : BOOLEAN,
        hashes : SUBSET Strategies, committed : Sums, app : Apps \cup {NoApp}, known : BOOLEAN, walletAt : Nat,
        allowAt : Nat, backed : Nat, skew : Nat, check : {"none", "agrees", "disagrees", "inconclusive"},
        claimAt : Nat, claims : Sums]

HistOK == hist \in Seq(Books) /\ Now \in 1 .. MaxBlock

\* A scan runs no longer than MaxScan.  The shared one has not failed, whatever runs
\* beside it began no later, and its stamp is at most MaxScan after it began.
ScansOK ==
    /\ scan \in [Scans -> Scan] /\ faults \in 0 .. MaxFaults /\ waiting \in [Readers -> 0 .. MaxScans]
    /\ \A i \in Scans :
          /\ scan[i].began <= Now /\ scan[i].end <= Now
          /\ scan[i].pc = "page" => scan[i].end >= 1
          /\ Running(i) => Now - scan[i].began <= MaxScan

EntryOK ==
    /\ entry.scan \in Scans /\ scan[entry.scan].pc \in {"head", "page", "done"}
    /\ entry.at <= scan[entry.scan].began + MaxScan
    /\ \A i \in Scans : Running(i) => scan[i].began <= scan[entry.scan].began

SharedOK == ScansOK /\ entry \in [scan : 0 .. MaxScans, at : 0 .. Now] /\ (entry # NoEntry => EntryOK)

States == [head : 0 .. Now, status : {"off", "ready", "syncing", "unreachable", "errored"}]
Kept == [at : Nat, list : SUBSET Strategies, read : 0 .. Now]
IndexOK == graph \in BOOLEAN /\ ib \in 1 .. Now /\ db \in 0 .. Now /\ istate \in States /\ makers \in Kept

\* What a request has read is of the past; before it has an answer it has no source; and
\* an index that was judged was near enough to the head of the request's arrival.
Fit(q, i, now) ==
    /\ q.at <= now /\ q.claimAt <= now /\ q.walletAt <= now /\ q.began <= now
    /\ q.pc \in {"db", "meta", "head", "query"} => q.src = "none" /\ q.kind # "none"
    /\ q.pc \in {"head", "query"} => q.seen <= i
    /\ q.pc = "query" => q.unjudged \/ q.seen >= q.began - MaxLag

ReqOK ==
    /\ req \in [Requests -> Req]
    /\ \A r \in Requests : Fit(req[r], ib, Now)
    /\ \A r \in Requests : req[r].pc = "scan" <=> waiting[r] # None

IInv == HistOK /\ SharedOK /\ IndexOK /\ ReqOK

-----------------------------------------------------------------------------
(* The chain.                                                               *)

LEMMA BlockTyped ==
    ASSUME HistOK, Block
    PROVE  HistOK' /\ Now' = Now + 1 /\ \A k \in 1 .. Now : hist'[k] = hist[k]
<1> DEFINE b == hist[Now]
<1>1. b \in Books /\ Now < MaxBlock /\ Now \in Nat /\ Now >= 1
  <2>1. hist \in Seq(Books) /\ Len(hist) \in 1 .. MaxBlock /\ Now = Len(hist)
    BY DEF HistOK, Now
  <2>2. Now < MaxBlock
    BY DEF Block
  <2> QED
    BY <2>1, <2>2, LedgerAssumption
<1>2. PICK next \in {b} \cup Shipped(b) \cup Docked(b) \cup Pulled(b) \cup Moved(b) \cup Approved(b) :
         hist' = Append(hist, next)
  BY DEF Block
<1> HIDE DEF b
<1>3. b.amt \in [Strategies -> 0 .. MaxAmt] /\ b.st \in [Strategies -> {"new", "live", "docked"}]
      /\ b.wallet \in 0 .. MaxHeld /\ b.allow \in 0 .. MaxHeld /\ MaxAmt \in Nat /\ MaxHeld \in Nat
  BY <1>1, LedgerAssumption DEF Books
<1>4. Shipped(b) \subseteq Books
  <2>1. ASSUME NEW s \in Strategies, NEW a \in 1 .. MaxAmt
        PROVE [st |-> [b.st EXCEPT ![s] = "live"], amt |-> [b.amt EXCEPT ![s] = a],
                wallet |-> b.wallet, allow |-> b.allow] \in Books
    BY <1>1, <1>3 DEF Books
  <2> DEFINE F(s, a) == [st |-> [b.st EXCEPT ![s] = "live"], amt |-> [b.amt EXCEPT ![s] = a],
                wallet |-> b.wallet, allow |-> b.allow]
             T == {x \in Strategies : b.st[x] = "new"}
  <2>2. Shipped(b) = {F(s, a) : s \in T, a \in 1 .. MaxAmt}
    BY DEF Shipped
  <2>3. \A s \in Strategies, a \in 1 .. MaxAmt : F(s, a) \in Books
    BY <2>1
  <2>4. T \subseteq Strategies
    OBVIOUS
  <2> HIDE DEF F, T
  <2> QED
    BY <2>2, <2>3, <2>4
<1>5. Docked(b) \subseteq Books
  <2>1. ASSUME NEW s \in Strategies PROVE [b EXCEPT !.st[s] = "docked"] \in Books
    BY <1>1, <1>3 DEF Books
  <2> QED
    BY <2>1 DEF Docked, Live
<1>6. Pulled(b) \subseteq Books
  <2>1. ASSUME NEW s \in Strategies, b.amt[s] > 0, Backing(b) > 0
        PROVE [b EXCEPT !.amt[s] = @ - 1, !.wallet = @ - 1, !.allow = @ - 1] \in Books
    <3>1. b.amt[s] - 1 \in 0 .. MaxAmt /\ b.wallet - 1 \in 0 .. MaxHeld /\ b.allow - 1 \in 0 .. MaxHeld
      BY <1>3, <2>1 DEF Backing, Lesser
    <3> QED
      BY <1>1, <1>3, <3>1 DEF Books
  <2> QED
    BY <2>1 DEF Pulled, Live
<1>7. Moved(b) \subseteq Books
  BY <1>1, <1>3 DEF Moved, Books
<1>8. Approved(b) \subseteq Books
  BY <1>1, <1>3 DEF Approved, Books
<1>9. next \in Books
  BY <1>1, <1>2, <1>4, <1>5, <1>6, <1>7, <1>8
<1>10. hist \in Seq(Books) /\ Now = Len(hist)
  BY DEF HistOK, Now
<1>11. /\ hist' \in Seq(Books) /\ Len(hist') = Len(hist) + 1
       /\ \A k \in 1 .. Len(hist) : hist'[k] = hist[k]
  BY <1>2, <1>9, <1>10
<1>12. Now' = Now + 1 /\ Now' \in 1 .. MaxBlock
  <2>1. Now' = Len(hist')
    BY DEF Now
  <2> QED
    BY <1>1, <1>10, <1>11, <2>1, LedgerAssumption
<1> QED
  BY <1>10, <1>11, <1>12 DEF HistOK

LEMMA Sum == ASSUME NEW b \in Books, NEW set \in SUBSET Strategies PROVE Committed(b, set) \in Sums
BY DEF Sums

LEMMA InitInv == Init => IInv
<1> SUFFICES ASSUME Init PROVE IInv
  OBVIOUS
<1> USE LedgerAssumption, ScanAssumption, ViewsAssumption DEF Init, ScanInit
<1>1. hist \in Seq(Books) /\ Len(hist) = 1
  <2>1. PICK b \in Genesis : hist = <<b>>
    OBVIOUS
  <2>2. b \in Books
    BY <2>1
  <2> QED
    BY <2>1, <2>2
<1>2. HistOK
  BY <1>1 DEF HistOK, Now
<1>3. IdleScan \in Scan /\ IdleScan.pc = "idle" /\ IdleScan.began = 0 /\ IdleScan.end = 0
  BY DEF IdleScan, Scan
<1>4. SharedOK
  BY <1>1, <1>3 DEF SharedOK, ScansOK, NoEntry, None, Running, Scans, Now
<1>5. IndexOK
  BY <1>1 DEF IndexOK, States, Kept, Off, NoMakers, Now
<1>6. IdleReq \in Req /\ Fit(IdleReq, ib, Now) /\ IdleReq.pc # "scan"
  BY <1>1 DEF IdleReq, Req, Fit, Sums, Now
<1>7. ReqOK
  BY <1>6 DEF ReqOK, Requests, None
<1> QED
  BY <1>2, <1>4, <1>5, <1>7 DEF IInv

-----------------------------------------------------------------------------
(* The shared scan.                                                         *)

LEMMA SharedKept ==
    ASSUME HistOK, SharedOK, UNCHANGED <<scan, entry>>, UNCHANGED hist,
           waiting' \in [Readers -> 0 .. MaxScans], faults' \in 0 .. MaxFaults
    PROVE  SharedOK'
BY DEF SharedOK, ScansOK, EntryOK, Running, Now

LEMMA AskKeeps ==
    ASSUME HistOK, SharedOK, NEW r \in Readers, Ask(r), UNCHANGED hist
    PROVE  SharedOK' /\ waiting' = [waiting EXCEPT ![r] = waiting'[r]] /\ waiting'[r] # None
<1> USE DEF Running
<1>1. Now \in Nat /\ Now' = Now
  BY LedgerAssumption DEF HistOK, Now
<1>2. CASE Served
  <2>1. entry.scan \in Scans /\ waiting' = [waiting EXCEPT ![r] = entry.scan] /\ UNCHANGED <<scan, entry>>
    BY <1>2 DEF Ask, Served, SharedOK, ScansOK, EntryOK
  <2>2. waiting' \in [Readers -> 0 .. MaxScans] /\ waiting'[r] = entry.scan
    BY <2>1, ScanAssumption DEF SharedOK, ScansOK, EntryOK, Scans
  <2>3. SharedOK'
    BY <2>1, <2>2, SharedKept DEF Ask, SharedOK, ScansOK, EntryOK
  <2> QED
    BY <2>1, <2>2, <2>3, ScanAssumption DEF Scans, None
<1>3. CASE ~ Served
  <2> DEFINE new == [IdleScan EXCEPT !.pc = "head", !.began = Now]
  <2>1. PICK i \in Free : /\ scan' = [scan EXCEPT ![i] = new] /\ entry' = [scan |-> i, at |-> Now]
                          /\ waiting' = [waiting EXCEPT ![r] = i]
    BY <1>3 DEF Ask
  <2>2. new \in Scan /\ new.pc = "head" /\ new.began = Now /\ new.end = 0
    BY <1>1 DEF IdleScan, Scan
  <2> HIDE DEF new
  <2>3. i \in Scans /\ i \in 1 .. MaxScans /\ faults' = faults
    BY <2>1 DEF Free, Scans, Ask
  <2>4. scan' \in [Scans -> Scan] /\ waiting' \in [Readers -> 0 .. MaxScans] /\ waiting'[r] = i
    BY <2>1, <2>2, <2>3, ScanAssumption DEF SharedOK, ScansOK, EntryOK
  <2>5. scan'[i] = new /\ \A j \in Scans : j # i => scan'[j] = scan[j]
    BY <2>1, <2>3 DEF SharedOK, ScansOK, EntryOK
  <2>6. \A j \in Scans : /\ scan'[j].began <= Now /\ scan'[j].end <= Now
                         /\ scan'[j].pc = "page" => scan'[j].end >= 1
                         /\ Running(j)' => Now - scan'[j].began <= MaxScan
    BY <1>1, <2>2, <2>5, ScanAssumption DEF SharedOK, ScansOK, EntryOK, Running
  <2>7. entry'.scan = i /\ entry'.at = Now /\ entry' \in [scan : 0 .. MaxScans, at : 0 .. Now]
    BY <1>1, <2>1, <2>3, ScanAssumption
  <2>8. EntryOK'
    BY <1>1, <2>2, <2>3, <2>5, <2>6, <2>7, ScanAssumption DEF EntryOK
  <2>9. ScansOK'
    BY <1>1, <2>3, <2>4, <2>6 DEF SharedOK, ScansOK
  <2>10. SharedOK'
    BY <1>1, <2>7, <2>8, <2>9 DEF SharedOK
  <2> QED
    BY <2>1, <2>3, <2>4, <2>10 DEF None
<1> QED
  BY <1>2, <1>3

\* A scan that goes on, keeping when it began.
LEMMA ScanKeeps ==
    ASSUME HistOK, SharedOK, UNCHANGED <<hist, waiting>>, faults' \in 0 .. MaxFaults,
           NEW i \in Scans, Running(i), NEW s \in Scan, scan' = [scan EXCEPT ![i] = s], s.began = scan[i].began, s.end <= Now,
           s.pc = "page" => s.end >= 1,
           \/ entry' = entry /\ s.pc # "failed" /\ s.pc # "idle"
           \/ entry' = Landed /\ s.pc = "done"
           \/ entry' = NoEntry
    PROVE  SharedOK'
<1> USE DEF Running
<1>1. Now \in Nat /\ Now' = Now /\ MaxScan \in Nat /\ MaxScans \in Nat
  BY LedgerAssumption, ScanAssumption DEF HistOK, Now
<1>2. scan' \in [Scans -> Scan] /\ scan'[i] = s /\ \A j \in Scans : j # i => scan'[j] = scan[j]
  BY DEF SharedOK, ScansOK, EntryOK
<1>3. scan[i] \in Scan /\ \A j \in Scans : scan[j].began \in Nat /\ scan[j].end \in Nat
  BY DEF SharedOK, ScansOK, EntryOK, Scan
<1>4. \A j \in Scans : scan'[j].began = scan[j].began /\ (Running(j)' => Running(j))
  BY <1>2 DEF Running
<1>5. \A j \in Scans : /\ scan'[j].began <= Now /\ scan'[j].end <= Now
                       /\ scan'[j].pc = "page" => scan'[j].end >= 1
                       /\ Running(j)' => Now - scan'[j].began <= MaxScan
  BY <1>1, <1>2, <1>3, <1>4 DEF SharedOK, ScansOK, EntryOK
<1>a. ScansOK'
  BY <1>1, <1>2, <1>5 DEF SharedOK, ScansOK
<1>6. Now - scan[i].began <= MaxScan
  BY DEF SharedOK, ScansOK, EntryOK
<1>7. s.pc \in {"idle", "head", "page", "done", "failed"}
  BY DEF Scan
<1>8. CASE entry' = NoEntry
  BY <1>1, <1>8, <1>a DEF SharedOK, NoEntry, None
<1>9. CASE entry' = entry /\ entry # NoEntry /\ s.pc # "failed" /\ s.pc # "idle"
  <2>1. scan'[entry.scan].pc \in {"head", "page", "done"} /\ entry.scan \in Scans
    BY <1>2, <1>7, <1>9 DEF SharedOK, ScansOK, EntryOK
  <2> QED
    BY <1>1, <1>4, <1>9, <1>a, <2>1 DEF SharedOK, EntryOK
<1>10. CASE entry' = Landed /\ entry # NoEntry /\ s.pc = "done"
  <2>1. entry' = [entry EXCEPT !.at = Now]
    BY <1>10 DEF Landed
  <2>2. entry' \in [scan : 0 .. MaxScans, at : 0 .. Now] /\ entry'.scan = entry.scan /\ entry'.at = Now
    BY <1>1, <2>1 DEF SharedOK, ScansOK, EntryOK
  <2>3. entry.scan \in Scans /\ scan'[entry.scan].pc \in {"head", "page", "done"}
    BY <1>2, <1>10 DEF SharedOK, ScansOK, EntryOK
  <2>4. scan[i].began <= scan[entry.scan].began
    BY <1>10 DEF SharedOK, ScansOK, EntryOK
  <2>5. Now <= scan'[entry.scan].began + MaxScan
    BY <1>1, <1>3, <1>4, <1>6, <2>3, <2>4
  <2>6. EntryOK'
    BY <1>4, <1>10, <2>2, <2>3, <2>4, <2>5, <1>1 DEF SharedOK, EntryOK
  <2> QED
    BY <1>1, <1>a, <2>2, <2>6 DEF SharedOK
<1> QED
  BY <1>8, <1>9, <1>10 DEF Landed

LEMMA StepKeeps ==
    ASSUME HistOK, SharedOK, NEW i \in Scans, ScanStep(i)
    PROVE  SharedOK' /\ waiting' = waiting
<1>1. Now \in Nat /\ Now >= 1 /\ UNCHANGED <<hist, waiting>>
  <2>1. Now \in Nat /\ Now >= 1
    BY LedgerAssumption DEF HistOK, Now
  <2>2. UNCHANGED <<hist, waiting>>
    BY DEF ScanStep, ReadHead, ReadPage, Fails
  <2> QED
    BY <2>1, <2>2
<1>2. scan[i] \in Scan /\ faults \in 0 .. MaxFaults /\ MaxFaults \in Nat /\ scan \in [Scans -> Scan]
  BY ScanAssumption DEF SharedOK, ScansOK, EntryOK
<1>3. CASE ReadHead(i)
  <2> DEFINE s == [scan[i] EXCEPT !.pc = "page", !.latest = Now, !.end = Now]
  <2>1. scan' = [scan EXCEPT ![i] = s] /\ entry' = entry /\ faults' = faults /\ Running(i)
    BY <1>2, <1>3 DEF ReadHead, Running
  <2>2. s \in Scan /\ s.pc = "page" /\ s.end = Now /\ s.began = scan[i].began
    BY <1>1, <1>2 DEF Scan
  <2> HIDE DEF s
  <2>3. entry' = entry /\ s.pc # "failed" /\ s.pc # "idle" /\ s.end <= Now /\ s.end >= 1 /\ faults' \in 0 .. MaxFaults
    BY <1>1, <1>2, <2>1, <2>2
  <2>4. SharedOK'
    BY <1>1, <2>1, <2>2, <2>3, ScanKeeps
  <2> QED
    BY <1>1, <2>4
<1>4. CASE ReadPage(i)
  <2> DEFINE start == PageStart(scan[i].end)
             shipped == scan[i].shipped \cup ShipLogs(start, scan[i].end)
             docked == SeenDocked(i, start)
  <2>1. scan[i].pc = "page" /\ faults' = faults /\ Running(i) /\ scan[i].end >= 1 /\ scan[i].end <= Now
    BY <1>4 DEF ReadPage, Running, SharedOK, ScansOK, EntryOK
  <2>2. start \in Nat /\ start >= 1 /\ start <= scan[i].end /\ scan[i].pages \in Nat /\ scan[i].end \in Nat
    BY <1>2, <2>1, ScanAssumption DEF Scan, PageStart, Floor
  <2>3. shipped \in SUBSET Strategies /\ docked \in SUBSET Strategies
    BY <1>2 DEF Scan, ShipLogs, SeenDocked, DockLogs
  <2>4. CASE ~ (start = Floor \/ scan[i].pages + 1 >= Budget)
    <3> DEFINE s == [scan[i] EXCEPT !.shipped = shipped, !.docked = docked, !.end = start - 1, !.pages = @ + 1]
    <3>1. scan' = [scan EXCEPT ![i] = s] /\ entry' = entry
      BY <1>2, <1>4, <2>4 DEF ReadPage
    <3>2. start - 1 \in Nat /\ start - 1 >= 1 /\ start - 1 <= Now /\ scan[i].pages + 1 \in Nat
      BY <1>1, <2>1, <2>2, <2>4 DEF Floor
    <3> HIDE DEF start, shipped, docked
    <3>3. s \in Scan /\ s.pc = "page" /\ s.end = start - 1 /\ s.began = scan[i].began
      BY <1>2, <2>1, <2>3, <3>2 DEF Scan
    <3> HIDE DEF s
    <3>4. s.pc # "failed" /\ s.pc # "idle" /\ s.end <= Now /\ s.end >= 1 /\ faults' \in 0 .. MaxFaults
      BY <1>1, <1>2, <2>1, <3>2, <3>3
    <3>5. SharedOK'
      BY <1>1, <2>1, <3>1, <3>3, <3>4, ScanKeeps
    <3> QED
      BY <1>1, <3>5
  <2>5. CASE start = Floor \/ scan[i].pages + 1 >= Budget
    <3>1. PICK kept \in Newest(shipped \ docked) :
             scan' = [scan EXCEPT ![i] = [IdleScan EXCEPT !.pc = "done", !.began = scan[i].began,
                              !.latest = scan[i].latest, !.end = start, !.list = kept]]
      BY <1>4, <2>5 DEF ReadPage
    <3> DEFINE s == [IdleScan EXCEPT !.pc = "done", !.began = scan[i].began,
                              !.latest = scan[i].latest, !.end = start, !.list = kept]
    <3>2. entry' = Landed /\ scan' = [scan EXCEPT ![i] = s]
      BY <1>4, <2>5, <3>1 DEF ReadPage
    <3>3. kept \in SUBSET Strategies
      BY <2>3, <3>1 DEF Newest
    <3> HIDE DEF start, shipped, docked
    <3>4. s \in Scan /\ s.pc = "done" /\ s.end = start /\ s.began = scan[i].began
      BY <1>2, <2>2, <3>3 DEF Scan, IdleScan
    <3> HIDE DEF s
    <3>5. s.end <= Now
      BY <1>1, <2>1, <2>2, <3>4
    <3>6. SharedOK'
      BY <1>1, <1>2, <2>1, <3>2, <3>4, <3>5, ScanKeeps
    <3> QED
      BY <1>1, <3>6
  <2> QED
    BY <2>4, <2>5
<1>5. CASE Fails(i)
  <2> DEFINE s == [IdleScan EXCEPT !.pc = "failed", !.began = scan[i].began]
  <2>1. scan' = [scan EXCEPT ![i] = s] /\ entry' = NoEntry /\ faults' \in 0 .. MaxFaults /\ Running(i)
    BY <1>2, <1>5 DEF Fails, Dropped
  <2>2. s \in Scan /\ s.pc = "failed" /\ s.end = 0 /\ s.began = scan[i].began
    BY <1>2 DEF Scan, IdleScan
  <2> HIDE DEF s
  <2>3. SharedOK'
    <3>1. s.end <= Now /\ s.pc # "page"
      BY <1>1, <2>2
    <3> QED
      BY <1>1, <2>1, <2>2, <3>1, ScanKeeps
  <2> QED
    BY <1>1, <2>3
<1> QED
  BY <1>3, <1>4, <1>5 DEF ScanStep

LEMMA TakeKeeps ==
    ASSUME HistOK, SharedOK, NEW r \in Readers, Take(r), UNCHANGED hist
    PROVE  SharedOK' /\ waiting' = [waiting EXCEPT ![r] = None]
<1>1. waiting' = [waiting EXCEPT ![r] = None] /\ UNCHANGED <<scan, entry, faults>>
  BY DEF Take
<1>2. waiting' \in [Readers -> 0 .. MaxScans] /\ faults' \in 0 .. MaxFaults
  BY <1>1, ScanAssumption DEF SharedOK, ScansOK, EntryOK, None
<1> QED
  BY <1>1, <1>2, SharedKept

LEMMA TickKeeps ==
    ASSUME HistOK, SharedOK, Tick
    PROVE  HistOK' /\ SharedOK' /\ Now' = Now + 1
<1>1. HistOK' /\ Now' = Now + 1 /\ Now \in Nat
  BY BlockTyped, LedgerAssumption DEF Tick, HistOK, Now
<1>2. UNCHANGED <<scan, entry, waiting, faults>> /\ \A i \in Scans : Running(i) => Now - scan[i].began < MaxScan
  BY DEF Tick, scanVars
<1> USE DEF Running
<1>4. \A i \in Scans : scan[i].began \in Nat /\ scan[i].end \in Nat
  BY DEF SharedOK, ScansOK, EntryOK, Scan
<1>5. \A i \in Scans : /\ scan[i].began <= Now' /\ scan[i].end <= Now'
                       /\ scan[i].pc = "page" => scan[i].end >= 1
                       /\ Running(i) => Now' - scan[i].began <= MaxScan
  BY <1>1, <1>2, <1>4, ScanAssumption DEF SharedOK, ScansOK, EntryOK
<1>6. entry \in [scan : 0 .. MaxScans, at : 0 .. Now + 1]
  BY <1>1 DEF SharedOK
<1>7. ScansOK'
  BY <1>1, <1>2, <1>5 DEF SharedOK, ScansOK
<1>8. EntryOK => EntryOK'
  BY <1>2 DEF EntryOK
<1> QED
  BY <1>1, <1>2, <1>6, <1>7, <1>8 DEF SharedOK

-----------------------------------------------------------------------------
(* The requests.                                                            *)

LEMMA Facts ==
    ASSUME IInv, NEW r \in Requests
    PROVE  /\ Now \in Nat /\ Now >= 1 /\ ib \in Nat /\ ib >= 1 /\ ib <= Now /\ db \in Nat /\ db <= Now
           /\ req[r] \in Req /\ Fit(req[r], ib, Now) /\ MaxLag \in Nat
           /\ faults \in 0 .. MaxFaults /\ MaxFaults \in Nat /\ istate \in States /\ makers \in Kept
           /\ hist[Now] \in Books /\ hist[ib] \in Books /\ (db # 0 => hist[db] \in Books)
<1>1. Now \in Nat /\ Now >= 1 /\ Now = Len(hist) /\ hist \in Seq(Books)
  BY LedgerAssumption DEF IInv, HistOK, Now
<1>2. ib \in Nat /\ ib >= 1 /\ ib <= Now /\ db \in Nat /\ db <= Now /\ istate \in States /\ makers \in Kept
  BY <1>1 DEF IInv, IndexOK
<1>3. req[r] \in Req /\ Fit(req[r], ib, Now)
  BY DEF IInv, ReqOK
<1>4. faults \in 0 .. MaxFaults /\ MaxFaults \in Nat /\ MaxLag \in Nat
  BY ScanAssumption, ViewsAssumption DEF IInv, SharedOK, ScansOK
<1>5. \A k \in 1 .. Now : hist[k] \in Books
  BY <1>1
<1> QED
  BY <1>1, <1>2, <1>3, <1>4, <1>5

LEMMA Spends ==
    ASSUME IInv, NEW ok \in BOOLEAN, Ok(ok), Spend(ok)
    PROVE  faults' \in 0 .. MaxFaults
BY ScanAssumption DEF IInv, SharedOK, ScansOK, Ok, Spend

\* A request that goes on, off the scan.
LEMMA GoKeeps ==
    ASSUME IInv, NEW r \in Requests, NEW f \in Req, Go(r, f), Fit(f, ib, Now), f.pc # "scan", req[r].pc # "scan",
           UNCHANGED <<hist, scan, entry, waiting, graph, ib, db>>, faults' \in 0 .. MaxFaults,
           istate' \in States, makers' \in Kept
    PROVE  IInv'
<1>1. Now' = Now /\ HistOK'
  BY DEF IInv, HistOK, Now
<1>2. SharedOK'
  BY SharedKept DEF IInv, SharedOK, ScansOK
<1>3. IndexOK'
  BY <1>1 DEF IInv, IndexOK, States, Kept
<1>4. req' \in [Requests -> Req] /\ req'[r] = f /\ \A o \in Requests : o # r => req'[o] = req[o]
  BY DEF IInv, ReqOK, Go
<1>5. ReqOK'
  BY <1>1, <1>4 DEF IInv, ReqOK
<1> QED
  BY <1>1, <1>2, <1>3, <1>5 DEF IInv

LEMMA NotIndexed ==
    ASSUME NEW q \in Req, NEW i \in Nat, NEW now \in Nat
    PROVE  /\ Unindexed(q) \in Req /\ Unindexed(q).pc \in {"ask", "done"} /\ Unindexed(q).src = "none"
           /\ Fit(Unindexed(q), i, now)
<1> DEFINE pc == IF q.kind = "makers" THEN "ask" ELSE "done"
<1>1. IdleReq \in Req /\ IdleReq.src = "none" /\ IdleReq.at = 0 /\ IdleReq.claimAt = 0 /\ IdleReq.walletAt = 0
      /\ IdleReq.began = 0
  BY DEF IdleReq, Req, Sums
<1>2. q.kind \in {"none", "coverage", "exposure", "makers"} /\ pc \in {"ask", "done"}
  BY DEF Req
<1>3. Unindexed(q) = [IdleReq EXCEPT !.kind = q.kind, !.pc = pc]
  BY DEF Unindexed
<1> HIDE DEF pc
<1> DEFINE k == q.kind
<1>5. k \in {"none", "coverage", "exposure", "makers"}
  BY <1>2
<1> HIDE DEF k
<1>6. Unindexed(q) = [[IdleReq EXCEPT !.kind = k] EXCEPT !.pc = pc]
  BY <1>3 DEF k
<1> DEFINE j == [IdleReq EXCEPT !.kind = k]
<1>7. j \in Req /\ j.src = "none" /\ j.at = 0 /\ j.claimAt = 0 /\ j.walletAt = 0 /\ j.began = 0
  BY <1>1, <1>5 DEF Req
<1>8. Unindexed(q) = [j EXCEPT !.pc = pc]
  BY <1>6
<1> HIDE DEF j
<1>4. Unindexed(q) \in Req /\ Unindexed(q).pc = pc /\ Unindexed(q).src = "none" /\ Unindexed(q).at = 0
      /\ Unindexed(q).claimAt = 0 /\ Unindexed(q).walletAt = 0 /\ Unindexed(q).began = 0
  BY <1>2, <1>7, <1>8 DEF Req
<1> QED
  BY <1>2, <1>4 DEF Fit

LEMMA MetaKeeps == ASSUME IInv, NEW r \in Requests, Meta(r) PROVE IInv'
<1> DEFINE q == req[r]
<1>1. q \in Req /\ q.pc = "meta" /\ q.src = "none" /\ q.kind # "none" /\ Fit(q, ib, Now) /\ ib \in Nat /\ Now \in Nat
  BY Facts DEF Meta, Fit
<1>2. PICK answer \in {"ready", "unreachable", "errored"} :
         /\ Ok(answer = "ready") /\ Spend(answer = "ready")
         /\ IF answer = "ready" THEN Go(r, [q EXCEPT !.pc = "head", !.seen = ib]) /\ UNCHANGED istate
            ELSE Go(r, Unindexed(q)) /\ istate' = [head |-> 0, status |-> answer]
  BY DEF Meta
<1>3. faults' \in 0 .. MaxFaults /\ UNCHANGED <<hist, scan, entry, waiting, graph, ib, db>> /\ makers' \in Kept
  BY <1>2, Spends, Facts DEF Meta
<1>4. CASE answer = "ready"
  <2> DEFINE f == [q EXCEPT !.pc = "head", !.seen = ib]
  <2>1. f \in Req
    BY <1>1 DEF Req
  <2>2. f.pc = "head" /\ f.seen = ib /\ f.src = "none" /\ f.at = q.at /\ f.claimAt = q.claimAt /\ f.walletAt = q.walletAt
        /\ f.began = q.began /\ f.kind = q.kind
    BY <1>1 DEF Req
  <2>3. Fit(f, ib, Now)
    BY <1>1, <2>2 DEF Fit
  <2>4. Go(r, f) /\ istate' \in States
    BY <1>2, <1>4, Facts
  <2> QED
    BY <1>1, <1>3, <2>1, <2>2, <2>3, <2>4, GoKeeps
<1>5. CASE answer # "ready"
  <2>1. Unindexed(q) \in Req /\ Unindexed(q).pc \in {"ask", "done"} /\ Fit(Unindexed(q), ib, Now)
    BY <1>1, NotIndexed
  <2>2. istate' \in States /\ Go(r, Unindexed(q))
    BY <1>1, <1>2, <1>5 DEF States
  <2> QED
    BY <1>1, <1>3, <2>1, <2>2, GoKeeps
<1> QED
  BY <1>4, <1>5
LEMMA HeadKeeps == ASSUME IInv, NEW r \in Requests, HeadBlock(r) PROVE IInv'
<1> DEFINE q == req[r]
<1>1. q \in Req /\ q.pc = "head" /\ q.src = "none" /\ q.kind # "none" /\ Fit(q, ib, Now) /\ ib \in Nat /\ Now \in Nat /\ q.seen <= ib
      /\ ib <= Now /\ q.seen \in Nat /\ q.began \in Nat /\ q.began <= Now /\ MaxLag \in Nat
  BY Facts DEF HeadBlock, Fit, Req
<1>2. PICK ok \in BOOLEAN :
         /\ Ok(ok) /\ Spend(ok)
         /\ LET behind == ok /\ TooFar(q) IN
            /\ istate' = [head |-> q.seen, status |-> IF behind THEN "syncing" ELSE "ready"]
            /\ Go(r, IF behind THEN Unindexed(q) ELSE [q EXCEPT !.pc = "query", !.unjudged = ~ ok])
  BY DEF HeadBlock
<1>3. faults' \in 0 .. MaxFaults /\ UNCHANGED <<hist, scan, entry, waiting, graph, ib, db>> /\ makers' \in Kept
  BY <1>2, Spends, Facts DEF HeadBlock
<1>4. istate' \in States
  BY <1>1, <1>2 DEF States
<1>5. CASE ~ (ok /\ TooFar(q))
  <2> DEFINE f == [q EXCEPT !.pc = "query", !.unjudged = ~ ok]
  <2>1. f \in Req
    BY <1>1 DEF Req
  <2>2. f.pc = "query" /\ f.seen = q.seen /\ f.src = "none" /\ f.at = q.at /\ f.claimAt = q.claimAt
        /\ f.walletAt = q.walletAt /\ f.began = q.began /\ f.kind = q.kind
    BY <1>1 DEF Req
  <2>3. f.unjudged = ~ ok
    BY <1>1 DEF Req
  <2>4. f.unjudged \/ q.seen >= q.began - MaxLag
    <3>1. CASE ok
      BY <1>1, <1>5, <3>1 DEF TooFar
    <3>2. CASE ~ ok
      BY <2>3, <3>2
    <3> QED
      BY <3>1, <3>2
  <2>5. Go(r, f)
    BY <1>2, <1>5
  <2> HIDE DEF f
  <2>6. Fit(f, ib, Now)
    BY <1>1, <2>2, <2>4 DEF Fit
  <2> QED
    BY <1>1, <1>3, <1>4, <2>1, <2>2, <2>5, <2>6, GoKeeps
<1>6. CASE ok /\ TooFar(q)
  <2>1. Unindexed(q) \in Req /\ Unindexed(q).pc \in {"ask", "done"} /\ Fit(Unindexed(q), ib, Now)
    BY <1>1, NotIndexed
  <2>2. Go(r, Unindexed(q))
    BY <1>2, <1>6
  <2> QED
    BY <1>1, <1>3, <1>4, <2>1, <2>2, GoKeeps
<1> QED
  BY <1>5, <1>6

Sources == {"none", "cache", "graph", "table", "scan"}

\* An answer that has just been found, and is still to be measured.
LEMMA FoundTyped ==
    ASSUME NEW q \in Req, NEW src \in Sources, NEW at \in Nat, NEW c \in Sums
    PROVE  /\ Found(q, src, at, c) \in Req /\ Found(q, src, at, c).src = src /\ Found(q, src, at, c).at = at
           /\ Found(q, src, at, c).claimAt = 0 /\ Found(q, src, at, c).walletAt = 0 /\ Found(q, src, at, c).began = 0
           /\ Found(q, src, at, c).committed = c /\ Found(q, src, at, c).kind = q.kind
<1> DEFINE k == q.kind
           j == [IdleReq EXCEPT !.kind = k]
           l == [j EXCEPT !.src = src]
           m == [l EXCEPT !.at = at]
<1>1. IdleReq \in Req /\ IdleReq.claimAt = 0 /\ IdleReq.walletAt = 0 /\ IdleReq.began = 0
  BY DEF IdleReq, Req, Sums
<1>2. k \in {"none", "coverage", "exposure", "makers"}
  BY DEF Req
<1>3. Found(q, src, at, c) = [m EXCEPT !.committed = c]
  BY DEF Found
<1> HIDE DEF k
<1>4. j \in Req /\ j.kind = k /\ j.claimAt = 0 /\ j.walletAt = 0 /\ j.began = 0
  BY <1>1, <1>2 DEF Req
<1> HIDE DEF j
<1>5. l \in Req /\ l.kind = k /\ l.src = src /\ l.claimAt = 0 /\ l.walletAt = 0 /\ l.began = 0
  BY <1>4 DEF Req, Sources
<1> HIDE DEF l
<1>6. m \in Req /\ m.kind = k /\ m.src = src /\ m.at = at /\ m.claimAt = 0 /\ m.walletAt = 0 /\ m.began = 0
  BY <1>5 DEF Req
<1> HIDE DEF m
<1>7. [m EXCEPT !.committed = c] \in Req
  BY <1>6 DEF Req
<1>8. /\ Found(q, src, at, c) \in Req /\ Found(q, src, at, c).src = src /\ Found(q, src, at, c).at = at
      /\ Found(q, src, at, c).claimAt = 0 /\ Found(q, src, at, c).walletAt = 0 /\ Found(q, src, at, c).began = 0
      /\ Found(q, src, at, c).committed = c /\ Found(q, src, at, c).kind = k
  BY <1>3, <1>6, <1>7 DEF Req
<1> QED
  BY <1>8 DEF k

LEMMA Past ==
    ASSUME NEW f \in Req, NEW i \in Nat, NEW now \in Nat, f.at <= now, f.claimAt <= now, f.walletAt <= now, f.began <= now,
           f.pc \notin {"db", "meta", "head", "query"}
    PROVE  Fit(f, i, now)
BY DEF Fit

LEMMA LiveTyped ==
    ASSUME NEW b \in Books
    PROVE  Live(b) \in SUBSET Strategies /\ \A s \in Strategies : AppOf[s] \in Apps
BY DEF Live, Apps

LEMMA GraphKeeps ==
    ASSUME IInv, NEW r \in Requests, FromGraph(r)
    PROVE  IInv' /\ (req'[r].src = "graph" => req'[r].at = ib)
<1> DEFINE q == req[r]
           b == hist[ib]
           answers == CASE q.kind = "makers"   -> strategiesFromGraph(q)
                        [] q.kind = "coverage" -> positionsFromGraph(q)
                        [] q.kind = "exposure" -> makerBook(q)
           Good(f) == f \in Req /\ f.pc # "scan" /\ Fit(f, ib, Now) /\ (f.src = "graph" => f.at = ib)
<1>1. q \in Req /\ q.pc = "query" /\ ib \in Nat /\ Now \in Nat /\ ib <= Now /\ b \in Books
      /\ q.kind \in {"coverage", "exposure", "makers"}
  BY Facts DEF FromGraph, Fit, Req
<1>2. PICK ok \in BOOLEAN : /\ Ok(ok) /\ Spend(ok)
                            /\ \E answer \in IF ok THEN answers ELSE {Unindexed(q)} : Go(r, answer)
  BY DEF FromGraph
<1>3. faults' \in 0 .. MaxFaults /\ UNCHANGED <<hist, scan, entry, waiting, graph, ib, db>> /\ makers' \in Kept
      /\ istate' \in States
  BY <1>2, Spends, Facts DEF FromGraph, States
<1>4. Good(Unindexed(q))
  BY <1>1, NotIndexed
<1>5. Live(b) \in SUBSET Strategies /\ \A s \in Strategies : AppOf[s] \in Apps
  BY <1>1, LiveTyped
<1>6. Committed(b, Strategies) \in Sums /\ 0 \in Sums /\ "graph" \in Sources
  BY <1>1, Sum DEF Sums, Sources
<1> HIDE DEF b
<1>7. ASSUME NEW f \in strategiesFromGraph(q) PROVE Good(f)
  <2> DEFINE g == Found(q, "graph", ib, 0)
             set == {s \in Live(b) : AppOf[s] = Router}
  <2>1. g \in Req /\ g.src = "graph" /\ g.at = ib /\ g.claimAt = 0 /\ g.walletAt = 0 /\ g.began = 0
    BY <1>1, <1>6, FoundTyped
  <2>2. f = [g EXCEPT !.pc = "measure", !.hashes = set] /\ set \in SUBSET Strategies
    BY <1>5, <1>7 DEF strategiesFromGraph, b
  <2> HIDE DEF g, set
  <2>3. f \in Req
    BY <2>1, <2>2 DEF Req
  <2>4. f.pc = "measure" /\ f.src = "graph" /\ f.at = ib /\ f.claimAt = 0 /\ f.walletAt = 0 /\ f.began = 0
    BY <2>1, <2>2 DEF Req
  <2> QED
    BY <1>1, <2>3, <2>4, Past
<1> DEFINE row == Found(q, "graph", ib, Committed(b, Strategies))
<1>8. row \in Req /\ row.src = "graph" /\ row.at = ib /\ row.claimAt = 0 /\ row.walletAt = 0 /\ row.began = 0
  BY <1>1, <1>6, FoundTyped
<1>9. ASSUME NEW f \in positionsFromGraph(q) PROVE Good(f)
  <2>1. CASE f = [row EXCEPT !.pc = "done"]
    <3> HIDE DEF row
    <3>1. f \in Req /\ f.pc = "done" /\ f.src = "graph" /\ f.at = ib /\ f.claimAt = 0 /\ f.walletAt = 0 /\ f.began = 0
      BY <1>8, <2>1 DEF Req
    <3> QED
      BY <1>1, <3>1, Past
  <2>2. ASSUME NEW first \in Live(b), f = [row EXCEPT !.pc = "balances", !.hashes = Live(b), !.app = AppOf[first]]
        PROVE  Good(f)
    <3> DEFINE app == AppOf[first]
    <3>1. app \in Apps \cup {NoApp}
      BY <1>5
    <3>2. f = [row EXCEPT !.pc = "balances", !.hashes = Live(b), !.app = app]
      BY <2>2
    <3> HIDE DEF row, app
    <3>3. f \in Req
      BY <1>5, <1>8, <3>1, <3>2 DEF Req
    <3>4. f.pc = "balances" /\ f.src = "graph" /\ f.at = ib /\ f.claimAt = 0 /\ f.walletAt = 0 /\ f.began = 0
      BY <1>8, <3>2 DEF Req
    <3> QED
      BY <1>1, <3>3, <3>4, Past
  <2>3. f = [row EXCEPT !.pc = "done"]
        \/ \E first \in Live(b) : f = [row EXCEPT !.pc = "balances", !.hashes = Live(b), !.app = AppOf[first]]
    <3>1. CASE row.committed = 0
      BY <1>9, <3>1 DEF positionsFromGraph, b
    <3>2. CASE row.committed # 0
      BY <1>9, <3>2 DEF positionsFromGraph, b
    <3> QED
      BY <3>1, <3>2
  <2> QED
    BY <2>1, <2>2, <2>3
<1>10. ASSUME NEW f \in makerBook(q) PROVE Good(f)
  <2> DEFINE pc == IF Live(b) # {} THEN "sides" ELSE "done"
             g == [row EXCEPT !.pc = pc]
  <2>1. pc \in {"sides", "done"} /\ f = [row EXCEPT !.pc = pc, !.hashes = Live(b)]
    BY <1>10 DEF makerBook, b
  <2> HIDE DEF row, pc
  <2>2. f \in Req
    BY <1>5, <1>8, <2>1 DEF Req
  <2>3. f.pc = pc /\ f.src = "graph" /\ f.at = ib /\ f.claimAt = 0 /\ f.walletAt = 0 /\ f.began = 0
    BY <1>8, <2>1 DEF Req
  <2>4. f.pc \notin {"db", "meta", "head", "query", "scan"}
    BY <2>1, <2>3
  <2> QED
    BY <1>1, <2>2, <2>3, <2>4, Past
<1>11. \A f \in answers : Good(f)
  <2> HIDE DEF Good
  <2> QED
    BY <1>1, <1>7, <1>9, <1>10
<1>12. PICK f : Good(f) /\ Go(r, f)
  <2> HIDE DEF Good, answers
  <2> QED
    BY <1>2, <1>4, <1>11
<1>13. req'[r] = f
  BY <1>12 DEF Go, IInv, ReqOK
<1> QED
  BY <1>1, <1>3, <1>12, <1>13, GoKeeps
LEMMA TableKeeps == ASSUME IInv, NEW r \in Requests, FromTable(r) PROVE IInv'
<1> DEFINE q == req[r]
           b == hist[db]
           rows == {s \in Live(b) : AppOf[s] = Router}
           g == Found(q, "table", db, Committed(b, rows))
           found == [g EXCEPT !.hashes = rows, !.app = Router]
<1>1. q \in Req /\ q.pc = "db" /\ q.src = "none" /\ q.kind # "none" /\ Fit(q, ib, Now) /\ ib \in Nat /\ Now \in Nat
      /\ db \in Nat /\ db <= Now /\ istate \in States /\ makers \in Kept /\ faults \in 0 .. MaxFaults
  BY Facts DEF FromTable, Fit
<1>2. UNCHANGED <<hist, scan, entry, waiting, graph, ib, db>> /\ faults' = faults
  BY DEF FromTable, scanVars
<1>3. Off \in States
  BY <1>1 DEF Off, States
<1>4. ASSUME NEW p \in {"meta", "ask"}, Go(r, [q EXCEPT !.pc = p]), makers' = makers, istate' = istate \/ istate' = Off
      PROVE  IInv'
  <2> DEFINE f == [q EXCEPT !.pc = p]
  <2>1. f \in Req
    BY <1>1 DEF Req
  <2>2. f.pc = p /\ f.src = "none" /\ f.at = q.at /\ f.claimAt = q.claimAt
        /\ f.walletAt = q.walletAt /\ f.began = q.began /\ f.kind = q.kind
    BY <1>1 DEF Req
  <2>3. Go(r, f)
    BY <1>4
  <2> HIDE DEF f
  <2>4. Fit(f, ib, Now) /\ f.pc # "scan"
    BY <1>1, <2>2 DEF Fit
  <2>5. istate' \in States /\ makers' \in Kept /\ faults' \in 0 .. MaxFaults
    BY <1>1, <1>2, <1>3, <1>4
  <2> QED
    BY <1>1, <1>2, <2>1, <2>3, <2>4, <2>5, GoKeeps
<1>5. ASSUME db # 0
      PROVE  /\ found \in Req /\ found.src = "table" /\ found.at = db /\ found.claimAt = 0 /\ found.walletAt = 0
             /\ found.began = 0 /\ rows \in SUBSET Strategies
  <2>1. b \in Books
    BY <1>5, Facts
  <2> HIDE DEF b
  <2>2. rows \in SUBSET Strategies
    BY <2>1, LiveTyped
  <2> HIDE DEF rows
  <2>3. Committed(b, rows) \in Sums /\ "table" \in Sources
    BY <2>1, <2>2, Sum DEF Sources
  <2>4. g \in Req /\ g.src = "table" /\ g.at = db /\ g.claimAt = 0 /\ g.walletAt = 0 /\ g.began = 0
    BY <1>1, <2>3, FoundTyped
  <2>5. Router \in Apps \cup {NoApp}
    BY LedgerAssumption DEF Apps
  <2> HIDE DEF g
  <2>6. found \in Req
    BY <2>2, <2>4, <2>5 DEF Req
  <2>7. found.src = "table" /\ found.at = db /\ found.claimAt = 0 /\ found.walletAt = 0 /\ found.began = 0
    BY <2>4 DEF Req
  <2> QED
    BY <2>2, <2>6, <2>7
<1>6. CASE db # 0 /\ q.kind = "makers" /\ UNCHANGED istate /\ makers' = [at |-> Now, list |-> rows, read |-> db]
           /\ Go(r, [found EXCEPT !.pc = "done", !.claimAt = db])
  <2> HIDE DEF found, rows
  <2> DEFINE f == [found EXCEPT !.pc = "done", !.claimAt = db]
  <2>1. f \in Req
    BY <1>1, <1>5, <1>6 DEF Req
  <2>2. f.pc = "done" /\ f.at = db /\ f.claimAt = db /\ f.walletAt = 0 /\ f.began = 0
    BY <1>1, <1>5, <1>6 DEF Req
  <2>3. Go(r, f)
    BY <1>6
  <2>4. makers' \in Kept
    BY <1>1, <1>5, <1>6 DEF Kept
  <2> HIDE DEF f
  <2>5. Fit(f, ib, Now)
    BY <1>1, <2>1, <2>2, Past
  <2> QED
    BY <1>1, <1>2, <1>6, <2>1, <2>2, <2>3, <2>4, <2>5, GoKeeps
<1>7. CASE db # 0 /\ UNCHANGED <<makers, istate>> /\ Go(r, [found EXCEPT !.pc = IF rows = {} THEN "done" ELSE "balances"])
  <2> DEFINE p == IF rows = {} THEN "done" ELSE "balances"
             f == [found EXCEPT !.pc = p]
  <2>1. p \in {"done", "balances"}
    OBVIOUS
  <2>2. Go(r, f)
    BY <1>7
  <2> HIDE DEF found, p
  <2>3. f \in Req
    BY <1>1, <1>5, <1>7, <2>1 DEF Req
  <2>4. f.pc = p /\ f.at = db /\ f.claimAt = 0 /\ f.walletAt = 0 /\ f.began = 0
    BY <1>1, <1>5, <1>7, <2>1 DEF Req
  <2> HIDE DEF f
  <2>5. f.pc \notin {"db", "meta", "head", "query", "scan"}
    BY <2>1, <2>4
  <2>6. Fit(f, ib, Now)
    BY <1>1, <2>3, <2>4, <2>5, Past
  <2> QED
    BY <1>1, <1>2, <1>7, <2>2, <2>3, <2>5, <2>6, GoKeeps
<1>8. \/ \E p \in {"meta", "ask"} : Go(r, [q EXCEPT !.pc = p]) /\ makers' = makers /\ (istate' = istate \/ istate' = Off)
      \/ /\ db # 0 /\ q.kind = "makers" /\ UNCHANGED istate
         /\ makers' = [at |-> Now, list |-> rows, read |-> db]
         /\ Go(r, [found EXCEPT !.pc = "done", !.claimAt = db])
      \/ /\ db # 0 /\ UNCHANGED <<makers, istate>>
         /\ Go(r, [found EXCEPT !.pc = IF rows = {} THEN "done" ELSE "balances"])
  BY DEF FromTable, positionsFromIndex
<1> QED
  <2> HIDE DEF found, rows
  <2> QED
    BY <1>4, <1>6, <1>7, <1>8

LEMMA ScanGoKeeps ==
    ASSUME IInv, NEW r \in Requests, NEW f \in Req, Go(r, f), Fit(f, ib, Now), SharedOK',
           UNCHANGED <<hist, graph, ib, db, istate, makers>>,
           NEW w, waiting' = [waiting EXCEPT ![r] = w], f.pc = "scan" <=> w # None
    PROVE  IInv'
<1>1. Now' = Now /\ HistOK'
  BY DEF IInv, HistOK, Now
<1>2. IndexOK'
  BY <1>1 DEF IInv, IndexOK, States, Kept
<1>3. req' \in [Requests -> Req] /\ req'[r] = f /\ \A o \in Requests : o # r => req'[o] = req[o]
  BY DEF IInv, ReqOK, Go
<1>4. waiting'[r] = w /\ \A o \in Requests : o # r => waiting'[o] = waiting[o]
  BY DEF IInv, SharedOK, ScansOK, Requests
<1>5. ReqOK'
  BY <1>1, <1>3, <1>4 DEF IInv, ReqOK
<1> QED
  BY <1>1, <1>2, <1>5 DEF IInv

LEMMA AskScanKeeps == ASSUME IInv, NEW r \in Requests, AskScan(r) PROVE IInv'
<1> DEFINE q == req[r]
           f == [q EXCEPT !.pc = "scan"]
<1>1. q \in Req /\ q.pc = "ask" /\ Fit(q, ib, Now) /\ ib \in Nat /\ Now \in Nat
  BY Facts DEF AskScan
<1>2. f \in Req
  BY <1>1 DEF Req
<1>3. f.pc = "scan" /\ f.at = q.at /\ f.claimAt = q.claimAt /\ f.walletAt = q.walletAt /\ f.began = q.began
  BY <1>1 DEF Req
<1>4. Go(r, f) /\ UNCHANGED <<hist, graph, ib, db, istate, makers>> /\ Ask(r) /\ r \in Readers
  BY DEF AskScan, Requests
<1> HIDE DEF f
<1>5. Fit(f, ib, Now)
  BY <1>1, <1>3 DEF Fit
<1>6. SharedOK' /\ waiting' = [waiting EXCEPT ![r] = waiting'[r]] /\ waiting'[r] # None
  BY <1>4, AskKeeps DEF IInv
<1> QED
  BY <1>2, <1>3, <1>4, <1>5, <1>6, ScanGoKeeps

LEMMA TakeScanKeeps == ASSUME IInv, NEW r \in Requests, TakeScan(r) PROVE IInv'
<1> DEFINE q == req[r]
           s == scan[waiting[r]]
           k == q.kind
           p == IF k = "makers" THEN "measure" ELSE "positions"
           g == [IdleReq EXCEPT !.kind = k]
           list == s.list
           h == [g EXCEPT !.src = "scan"]
           l == [h EXCEPT !.hashes = list]
<1>1. q \in Req /\ ib \in Nat /\ Now \in Nat
  BY Facts
<1>2. Take(r) /\ r \in Readers /\ UNCHANGED <<hist, graph, ib, db, istate, makers>>
      /\ Go(r, IF s.pc = "failed" THEN [g EXCEPT !.pc = "done"] ELSE [l EXCEPT !.pc = p])
  BY DEF TakeScan, Requests
<1>3. SharedOK' /\ waiting' = [waiting EXCEPT ![r] = None]
  BY <1>2, TakeKeeps DEF IInv
<1>4. list \in SUBSET Strategies
  <2>1. waiting[r] \in Scans
    BY <1>2, ScanAssumption DEF Take, IInv, SharedOK, ScansOK, Scans, None
  <2>2. s \in Scan
    BY <2>1 DEF IInv, SharedOK, ScansOK
  <2> QED
    BY <2>2 DEF Scan
<1>5. k \in {"none", "coverage", "exposure", "makers"} /\ p \in {"measure", "positions"}
  BY <1>1 DEF Req
<1>6. IdleReq \in Req /\ IdleReq.at = 0 /\ IdleReq.claimAt = 0 /\ IdleReq.walletAt = 0 /\ IdleReq.began = 0
  BY DEF IdleReq, Req, Sums
<1> HIDE DEF list, p, k
<1>7. g \in Req /\ g.at = 0 /\ g.claimAt = 0 /\ g.walletAt = 0 /\ g.began = 0
  BY <1>5, <1>6 DEF Req
<1> HIDE DEF g
<1>8. h \in Req /\ h.at = 0 /\ h.claimAt = 0 /\ h.walletAt = 0 /\ h.began = 0
  BY <1>7 DEF Req
<1> HIDE DEF h
<1>9. l \in Req /\ l.at = 0 /\ l.claimAt = 0 /\ l.walletAt = 0 /\ l.began = 0
  BY <1>4, <1>8 DEF Req
<1> HIDE DEF l
<1>10. ASSUME NEW e \in {g, l}, NEW c \in {"done", "measure", "positions"}, Go(r, [e EXCEPT !.pc = c]) PROVE IInv'
  <2> DEFINE f == [e EXCEPT !.pc = c]
  <2>1. e \in Req /\ e.at = 0 /\ e.claimAt = 0 /\ e.walletAt = 0 /\ e.began = 0
    BY <1>7, <1>9
  <2>2. f \in Req
    BY <2>1 DEF Req
  <2>3. f.pc = c /\ f.at = 0 /\ f.claimAt = 0 /\ f.walletAt = 0 /\ f.began = 0
    BY <2>1 DEF Req
  <2>4. Go(r, f)
    BY <1>10
  <2> HIDE DEF f
  <2>5. f.pc \notin {"db", "meta", "head", "query", "scan"}
    BY <2>3
  <2>6. Fit(f, ib, Now)
    BY <1>1, <2>2, <2>3, <2>5, Past
  <2> QED
    BY <1>2, <1>3, <2>2, <2>4, <2>5, <2>6, ScanGoKeeps
<1> QED
  BY <1>2, <1>5, <1>10
\* An answer past the index, whatever else of it changes.
LEMMA LaterKeeps ==
    ASSUME IInv, NEW r \in Requests, req[r].pc # "scan", NEW f \in Req, Go(r, f),
           f.pc \notin {"db", "meta", "head", "query", "scan"},
           f.at <= Now, f.claimAt <= Now, f.walletAt <= Now, f.began <= Now,
           UNCHANGED <<hist, scan, entry, waiting, graph, ib, db, istate>>,
           faults' \in 0 .. MaxFaults, makers' \in Kept
    PROVE  IInv'
<1>1. Fit(f, ib, Now) /\ istate' \in States
  BY Facts, Past
<1> QED
  BY <1>1, GoKeeps

LEMMA PositionsKeeps == ASSUME IInv, NEW r \in Requests, Positions(r) PROVE IInv'
<1> DEFINE q == req[r]
           b == hist[Now]
<1>1. q \in Req /\ q.pc = "positions" /\ Fit(q, ib, Now) /\ Now \in Nat /\ b \in Books /\ makers \in Kept
  BY Facts DEF Positions
<1>2. PICK lost \in {{}} \cup {{s} : s \in q.hashes} :
          LET kept == {s \in q.hashes \ lost : Virtual(b, s) > 0} IN
          /\ Ok(lost = {}) /\ Spend(lost = {})
          /\ Go(r, [q EXCEPT !.pc = IF kept = {} THEN "done" ELSE "balances", !.at = Now, !.app = Router,
                             !.hashes = kept, !.committed = Committed(b, kept)])
  BY DEF Positions
<1> DEFINE kept == {s \in q.hashes \ lost : Virtual(b, s) > 0}
           p == IF kept = {} THEN "done" ELSE "balances"
           c == Committed(b, kept)
           f == [q EXCEPT !.pc = p, !.at = Now, !.app = Router, !.hashes = kept, !.committed = c]
<1>3. Go(r, f) /\ UNCHANGED <<hist, scan, entry, waiting, graph, ib, db, istate, makers>> /\ faults' \in 0 .. MaxFaults
  BY <1>2, Spends DEF Positions
<1>4. kept \in SUBSET Strategies
  BY <1>1 DEF Req
<1>5. p \in {"done", "balances"} /\ Router \in Apps \cup {NoApp}
  BY LedgerAssumption DEF Apps
<1> HIDE DEF kept, p, b
<1>6. c \in Sums
  BY <1>1, <1>4, Sum
<1> HIDE DEF c
<1>7. f \in Req
  BY <1>1, <1>4, <1>5, <1>6 DEF Req
<1>8. f.pc = p /\ f.at = Now /\ f.claimAt = q.claimAt /\ f.walletAt = q.walletAt /\ f.began = q.began
  BY <1>1 DEF Req
<1> HIDE DEF f
<1>9. f.pc \notin {"db", "meta", "head", "query", "scan"} /\ f.at <= Now /\ f.claimAt <= Now /\ f.walletAt <= Now
      /\ f.began <= Now
  BY <1>1, <1>5, <1>8 DEF Fit
<1> QED
  BY <1>1, <1>3, <1>7, <1>9, LaterKeeps

LEMMA LesserTyped == ASSUME NEW a \in Nat, NEW b \in Nat PROVE Lesser(a, b) \in Nat
BY DEF Lesser

LEMMA BalancesKeeps == ASSUME IInv, NEW r \in Requests, Balances(r) PROVE IInv'
<1> DEFINE q == req[r]
           b == hist[Now]
<1>1. q \in Req /\ q.pc = "balances" /\ Fit(q, ib, Now) /\ Now \in Nat /\ b \in Books /\ makers \in Kept
  BY Facts DEF Balances
<1>2. PICK walletOk \in BOOLEAN, allowOk \in BOOLEAN :
          /\ Ok(walletOk /\ allowOk) /\ Spend(walletOk /\ allowOk)
          /\ Go(r, [q EXCEPT !.pc = "block", !.walletAt = Now, !.allowAt = Now,
                      !.known = Known(walletOk, allowOk),
                      !.backed = Lesser(IF walletOk THEN b.wallet ELSE 0, IF allowOk THEN b.allow ELSE 0)])
  BY DEF Balances
<1> DEFINE known == Known(walletOk, allowOk)
           backed == Lesser(IF walletOk THEN b.wallet ELSE 0, IF allowOk THEN b.allow ELSE 0)
           f == [q EXCEPT !.pc = "block", !.walletAt = Now, !.allowAt = Now, !.known = known, !.backed = backed]
<1>3. Go(r, f) /\ UNCHANGED <<hist, scan, entry, waiting, graph, ib, db, istate, makers>>
  BY <1>2 DEF Balances
<1>4. faults' \in 0 .. MaxFaults
  <2> DEFINE ok == walletOk /\ allowOk
  <2>1. ok \in BOOLEAN /\ Ok(ok) /\ Spend(ok)
    BY <1>2
  <2> HIDE DEF ok
  <2> QED
    BY <2>1, Spends
<1>5. known \in BOOLEAN
  BY DEF Known
<1>6. backed \in Nat
  <2> HIDE DEF b
  <2>1. b.wallet \in Nat /\ b.allow \in Nat
    BY <1>1, LedgerAssumption DEF Books
  <2> QED
    BY <2>1, LesserTyped
<1> HIDE DEF known, backed, b
<1>7. f \in Req
  BY <1>1, <1>5, <1>6 DEF Req
<1>8. f.pc = "block" /\ f.at = q.at /\ f.claimAt = q.claimAt /\ f.walletAt = Now /\ f.began = q.began
  BY <1>1 DEF Req
<1> HIDE DEF f
<1>9. f.pc \notin {"db", "meta", "head", "query", "scan"} /\ f.at <= Now /\ f.claimAt <= Now /\ f.walletAt <= Now
      /\ f.began <= Now
  BY <1>1, <1>8 DEF Fit
<1> QED
  BY <1>1, <1>3, <1>4, <1>7, <1>9, LaterKeeps

LEMMA BlockKeeps == ASSUME IInv, NEW r \in Requests, ChainBlock(r) PROVE IInv'
<1> DEFINE q == req[r]
           p == IF q.known THEN "lens" ELSE "done"
           skew == Distance(Now, istate.head)
           f == [q EXCEPT !.pc = p, !.skew = skew]
<1>1. /\ q \in Req /\ q.pc = "block" /\ Fit(q, ib, Now) /\ Now \in Nat /\ makers \in Kept
      /\ istate.head \in Nat /\ faults \in 0 .. MaxFaults
  BY Facts DEF ChainBlock, States
<1>2. Go(r, f) /\ UNCHANGED <<hist, scan, entry, waiting, graph, ib, db, istate, makers>> /\ faults' = faults
  BY DEF ChainBlock, scanVars
<1>3. p \in {"lens", "done"} /\ skew \in Nat
  BY <1>1 DEF Distance
<1> HIDE DEF p, skew
<1>4. f \in Req
  BY <1>1, <1>3 DEF Req
<1>5. f.pc = p /\ f.at = q.at /\ f.claimAt = q.claimAt /\ f.walletAt = q.walletAt /\ f.began = q.began
  BY <1>1 DEF Req
<1> HIDE DEF f
<1>6. f.pc \notin {"db", "meta", "head", "query", "scan"} /\ f.at <= Now /\ f.claimAt <= Now /\ f.walletAt <= Now
      /\ f.began <= Now
  BY <1>1, <1>3, <1>5 DEF Fit
<1> QED
  BY <1>1, <1>2, <1>4, <1>6, LaterKeeps

LEMMA LensKeeps == ASSUME IInv, NEW r \in Requests, Lens(r) PROVE IInv'
<1> DEFINE q == req[r]
           Check(ok) == IF ~ ok THEN "disagrees"
                        ELSE IF LensBps(hist[Now], q.app, q.hashes) = Capped(CoverageBps(q)) THEN "agrees"
                        ELSE IF q.skew > 0 THEN "inconclusive" ELSE "disagrees"
<1>1. q \in Req /\ q.pc = "lens" /\ Fit(q, ib, Now) /\ Now \in Nat /\ makers \in Kept
  BY Facts DEF Lens
<1>2. PICK ok \in BOOLEAN : /\ Ok(ok) /\ Spend(ok)
                            /\ Go(r, [q EXCEPT !.pc = "done", !.claimAt = IF ok THEN Now ELSE 0, !.skew = 0,
                                               !.check = Check(ok)])
  BY DEF Lens
<1> DEFINE at == IF ok THEN Now ELSE 0
           check == Check(ok)
           f == [q EXCEPT !.pc = "done", !.claimAt = at, !.skew = 0, !.check = check]
<1>3. Go(r, f) /\ UNCHANGED <<hist, scan, entry, waiting, graph, ib, db, istate, makers>> /\ faults' \in 0 .. MaxFaults
  BY <1>2, Spends DEF Lens
<1>4. at \in Nat /\ at <= Now /\ check \in {"agrees", "disagrees", "inconclusive"}
  BY <1>1
<1> HIDE DEF at, check
<1>5. f \in Req
  BY <1>1, <1>4 DEF Req
<1>6. f.pc = "done" /\ f.at = q.at /\ f.claimAt = at /\ f.walletAt = q.walletAt /\ f.began = q.began
  BY <1>1 DEF Req
<1> HIDE DEF f
<1>7. f.pc \notin {"db", "meta", "head", "query", "scan"} /\ f.at <= Now /\ f.claimAt <= Now /\ f.walletAt <= Now
      /\ f.began <= Now
  BY <1>1, <1>4, <1>6 DEF Fit
<1> QED
  BY <1>1, <1>3, <1>5, <1>7, LaterKeeps
LEMMA SidesKeeps == ASSUME IInv, NEW r \in Requests, Sides(r) PROVE IInv'
<1> DEFINE q == req[r]
           b == hist[Now]
           Answered(lost) == {s \in q.hashes \ lost : AppRead(s) = AppOf[s]}
<1>1. q \in Req /\ q.pc = "sides" /\ Fit(q, ib, Now) /\ Now \in Nat /\ b \in Books /\ makers \in Kept
  BY Facts DEF Sides
<1>2. PICK lost \in {{}} \cup {{s} : s \in q.hashes} :
          /\ Ok(lost = {}) /\ Spend(lost = {})
          /\ Go(r, [q EXCEPT !.pc = IF q.committed > 0 THEN "tokens" ELSE "done",
                             !.claims = Committed(b, Answered(lost)),
                             !.claimAt = IF lost = {} THEN Now ELSE 0])
  BY DEF Sides
<1> DEFINE p == IF q.committed > 0 THEN "tokens" ELSE "done"
           set == Answered(lost)
           c == Committed(b, set)
           at == IF lost = {} THEN Now ELSE 0
           f == [q EXCEPT !.pc = p, !.claims = c, !.claimAt = at]
<1>3. Go(r, f) /\ UNCHANGED <<hist, scan, entry, waiting, graph, ib, db, istate, makers>> /\ faults' \in 0 .. MaxFaults
  BY <1>2, Spends DEF Sides
<1>4. set \in SUBSET Strategies
  BY <1>1 DEF Req
<1>5. p \in {"tokens", "done"} /\ at \in Nat /\ at <= Now
  BY <1>1
<1> HIDE DEF set, p, at, b
<1>6. c \in Sums
  BY <1>1, <1>4, Sum
<1> HIDE DEF c
<1>7. f \in Req
  BY <1>1, <1>5, <1>6 DEF Req
<1>8. f.pc = p /\ f.at = q.at /\ f.claimAt = at /\ f.walletAt = q.walletAt /\ f.began = q.began
  BY <1>1 DEF Req
<1> HIDE DEF f
<1>9. f.pc \notin {"db", "meta", "head", "query", "scan"} /\ f.at <= Now /\ f.claimAt <= Now /\ f.walletAt <= Now
      /\ f.began <= Now
  BY <1>1, <1>5, <1>8 DEF Fit
<1> QED
  BY <1>1, <1>3, <1>7, <1>9, LaterKeeps

LEMMA TokensKeeps == ASSUME IInv, NEW r \in Requests, Tokens(r) PROVE IInv'
<1> DEFINE q == req[r]
<1>1. q \in Req /\ q.pc = "tokens" /\ Fit(q, ib, Now) /\ Now \in Nat /\ makers \in Kept /\ faults \in 0 .. MaxFaults
  BY Facts DEF Tokens
<1>2. PICK k \in {0} \cup {x \in {Now - 1, Now} : x > 0} : Go(r, [q EXCEPT !.pc = "held", !.walletAt = k])
  BY DEF Tokens
<1> DEFINE f == [q EXCEPT !.pc = "held", !.walletAt = k]
<1>3. k \in Nat /\ k <= Now
  BY <1>1
<1>4. Go(r, f) /\ UNCHANGED <<hist, scan, entry, waiting, graph, ib, db, istate, makers>> /\ faults' = faults
  BY <1>2 DEF Tokens, scanVars
<1>5. f \in Req
  BY <1>1, <1>3 DEF Req
<1>6. f.pc = "held" /\ f.at = q.at /\ f.claimAt = q.claimAt /\ f.walletAt = k /\ f.began = q.began
  BY <1>1 DEF Req
<1> HIDE DEF f
<1>7. f.pc \notin {"db", "meta", "head", "query", "scan"} /\ f.at <= Now /\ f.claimAt <= Now /\ f.walletAt <= Now
      /\ f.began <= Now
  BY <1>1, <1>3, <1>6 DEF Fit
<1> QED
  BY <1>1, <1>4, <1>5, <1>7, LaterKeeps

LEMMA HeldKeeps == ASSUME IInv, NEW r \in Requests, Held(r) PROVE IInv'
<1> DEFINE q == req[r]
           at == IF q.walletAt = 0 THEN Now ELSE q.walletAt
           w == hist[at]
           b == hist[Now]
<1>1. q \in Req /\ q.pc = "held" /\ Fit(q, ib, Now) /\ Now \in Nat /\ b \in Books /\ makers \in Kept
  BY Facts DEF Held
<1>2. at \in Nat /\ at <= Now /\ at >= 1
  BY <1>1, Facts DEF Req, Fit
<1>3. w \in Books
  BY <1>2 DEF IInv, HistOK, Now
<1>4. PICK walletOk \in BOOLEAN, allowOk \in BOOLEAN :
          /\ Ok(walletOk /\ allowOk) /\ Spend(walletOk /\ allowOk)
          /\ Go(r, [q EXCEPT !.pc = "done", !.known = walletOk /\ allowOk, !.walletAt = at, !.allowAt = Now,
                      !.backed = Lesser(IF walletOk THEN w.wallet ELSE 0, IF allowOk THEN b.allow ELSE 0)])
  BY DEF Held
<1> DEFINE known == walletOk /\ allowOk
           backed == Lesser(IF walletOk THEN w.wallet ELSE 0, IF allowOk THEN b.allow ELSE 0)
           f == [q EXCEPT !.pc = "done", !.known = known, !.walletAt = at, !.allowAt = Now, !.backed = backed]
<1>5. Go(r, f) /\ UNCHANGED <<hist, scan, entry, waiting, graph, ib, db, istate, makers>>
  BY <1>4 DEF Held
<1>6. known \in BOOLEAN /\ Ok(known) /\ Spend(known)
  BY <1>4
<1>7. backed \in Nat
  <2> HIDE DEF b, w
  <2>1. w.wallet \in Nat /\ b.allow \in Nat
    BY <1>1, <1>3, LedgerAssumption DEF Books
  <2> QED
    BY <2>1, LesserTyped
<1> HIDE DEF known, backed, at, b, w
<1>8. faults' \in 0 .. MaxFaults
  BY <1>6, Spends
<1>9. f \in Req
  BY <1>1, <1>2, <1>6, <1>7 DEF Req
<1>10. f.pc = "done" /\ f.at = q.at /\ f.claimAt = q.claimAt /\ f.walletAt = at /\ f.began = q.began
  BY <1>1 DEF Req
<1> HIDE DEF f
<1>11. f.pc \notin {"db", "meta", "head", "query", "scan"} /\ f.at <= Now /\ f.claimAt <= Now /\ f.walletAt <= Now
      /\ f.began <= Now
  BY <1>1, <1>2, <1>10 DEF Fit
<1> QED
  BY <1>1, <1>5, <1>8, <1>9, <1>11, LaterKeeps

LEMMA MeasureKeeps == ASSUME IInv, NEW r \in Requests, Measure(r) PROVE IInv'
<1> DEFINE q == req[r]
           f == [q EXCEPT !.pc = "done", !.claimAt = Now]
<1>1. q \in Req /\ q.pc = "measure" /\ Fit(q, ib, Now) /\ Now \in Nat /\ faults \in 0 .. MaxFaults
      /\ q.hashes \in SUBSET Strategies
  BY Facts DEF Measure, Req
<1>2. Go(r, f) /\ UNCHANGED <<hist, scan, entry, waiting, graph, ib, db, istate>> /\ faults' = faults
  BY DEF Measure, scanVars
<1>3. makers' \in Kept
  BY <1>1 DEF Measure, Kept
<1>4. f \in Req
  BY <1>1 DEF Req
<1>5. f.pc = "done" /\ f.at = q.at /\ f.claimAt = Now /\ f.walletAt = q.walletAt /\ f.began = q.began
  BY <1>1 DEF Req
<1> HIDE DEF f
<1>6. f.pc \notin {"db", "meta", "head", "query", "scan"} /\ f.at <= Now /\ f.claimAt <= Now /\ f.walletAt <= Now
      /\ f.began <= Now
  BY <1>1, <1>5 DEF Fit
<1> QED
  BY <1>1, <1>2, <1>3, <1>4, <1>6, LaterKeeps

LEMMA ArriveKeeps ==
    ASSUME IInv, NEW r \in Requests, NEW k \in {a[r] : a \in Asks}, Arrive(r, k)
    PROVE  IInv'
<1> DEFINE q == [IdleReq EXCEPT !.kind = k, !.began = Now]
           p == IF k = "coverage" THEN "db" ELSE "done"
           list == makers.list
           read == makers.read
<1>1. k \in {"coverage", "exposure", "makers"}
  BY ViewsAssumption DEF Requests
<1>2. /\ ib \in Nat /\ Now \in Nat /\ faults \in 0 .. MaxFaults /\ istate \in States /\ makers \in Kept
      /\ list \in SUBSET Strategies /\ read \in Nat /\ read <= Now /\ Off \in States
  BY Facts DEF Kept, Off, States
<1>3. req[r].pc = "idle" /\ UNCHANGED <<hist, scan, entry, waiting, graph, ib, db, makers>> /\ faults' = faults
      /\ (istate' = istate \/ istate' = Off)
  BY DEF Arrive, scanVars
<1>4. \/ Go(r, [q EXCEPT !.pc = "done", !.src = "cache", !.hashes = list, !.claimAt = read])
      \/ \E c \in {"db", "meta", "done"} : Go(r, [q EXCEPT !.pc = c])
  BY <1>1 DEF Arrive
<1>5. IdleReq \in Req /\ IdleReq.src = "none" /\ IdleReq.at = 0 /\ IdleReq.claimAt = 0 /\ IdleReq.walletAt = 0
  BY DEF IdleReq, Req, Sums
<1>6. q \in Req /\ q.src = "none" /\ q.at = 0 /\ q.claimAt = 0 /\ q.walletAt = 0 /\ q.began = Now /\ q.kind = k
  BY <1>1, <1>2, <1>5 DEF Req
<1> HIDE DEF q, list, read
<1>7. ASSUME NEW f \in Req, Go(r, f), f.pc \in {"db", "meta", "done"}, Fit(f, ib, Now) PROVE IInv'
  <2>1. istate' \in States /\ makers' \in Kept /\ faults' \in 0 .. MaxFaults
    BY <1>2, <1>3
  <2> QED
    BY <1>3, <1>7, <2>1, GoKeeps
<1>8. ASSUME NEW c \in {"db", "meta", "done"}, Go(r, [q EXCEPT !.pc = c]) PROVE IInv'
  <2> DEFINE f == [q EXCEPT !.pc = c]
  <2>1. f \in Req
    BY <1>6 DEF Req
  <2>2. f.pc = c /\ f.src = "none" /\ f.at = 0 /\ f.claimAt = 0 /\ f.walletAt = 0 /\ f.began = Now /\ f.kind = k
    BY <1>6 DEF Req
  <2>3. Go(r, f)
    BY <1>8
  <2> HIDE DEF f
  <2>4. Fit(f, ib, Now)
    BY <1>1, <1>2, <2>2 DEF Fit
  <2> QED
    BY <1>7, <2>1, <2>2, <2>3, <2>4
<1>9. ASSUME Go(r, [q EXCEPT !.pc = "done", !.src = "cache", !.hashes = list, !.claimAt = read]) PROVE IInv'
  <2> DEFINE f == [q EXCEPT !.pc = "done", !.src = "cache", !.hashes = list, !.claimAt = read]
  <2>1. f \in Req
    BY <1>2, <1>6 DEF Req
  <2>2. f.pc = "done" /\ f.at = 0 /\ f.claimAt = read /\ f.walletAt = 0 /\ f.began = Now
    BY <1>2, <1>6 DEF Req
  <2>3. Go(r, f)
    BY <1>9
  <2> HIDE DEF f
  <2>4. Fit(f, ib, Now)
    BY <1>2, <2>1, <2>2, Past
  <2> QED
    BY <1>7, <2>1, <2>2, <2>3, <2>4
<1> QED
  BY <1>4, <1>8, <1>9
-----------------------------------------------------------------------------
(* What goes on without them.                                               *)

LEMMA FitLater ==
    ASSUME NEW q \in Req, NEW i \in Nat, NEW j \in Nat, NEW now \in Nat, NEW later \in Nat, i <= j, now <= later, Fit(q, i, now)
    PROVE  Fit(q, j, later)
BY DEF Fit, Req

LEMMA TickKeepsAll == ASSUME IInv, Tick, UNCHANGED viewVars PROVE IInv'
<1>1. HistOK' /\ SharedOK' /\ Now' = Now + 1 /\ UNCHANGED <<waiting, graph, ib, db, istate, makers, req>>
  BY TickKeeps DEF IInv, viewVars, Tick, scanVars
<1>2. Now \in Nat
  BY LedgerAssumption DEF IInv, HistOK, Now
<1>3. IndexOK'
  BY <1>1, <1>2 DEF IInv, IndexOK, States, Kept
<1>4. \A r \in Requests : req[r] \in Req /\ Fit(req[r], ib, Now) /\ ib \in Nat
  BY Facts
<1>5. \A r \in Requests : Fit(req[r], ib, Now')
  BY <1>1, <1>2, <1>4, FitLater
<1>6. ReqOK'
  BY <1>1, <1>5 DEF IInv, ReqOK
<1> QED
  BY <1>1, <1>3, <1>6 DEF IInv

LEMMA IndexKeeps == ASSUME IInv, IndexSees \/ Refresh PROVE IInv'
<1>1. UNCHANGED <<hist, scan, entry, waiting, faults, graph, istate, makers, req>> /\ Now' = Now /\ Now \in Nat
  BY LedgerAssumption DEF IndexSees, Refresh, scanVars, IInv, HistOK, Now
<1>2. ib \in Nat /\ ib' \in Nat /\ ib' >= ib /\ ib' \in 1 .. Now /\ db' \in 0 .. Now
  BY <1>1 DEF IInv, IndexOK, IndexSees, Refresh
<1>3. HistOK'
  BY <1>1 DEF IInv, HistOK
<1>4. SharedOK'
  BY <1>1, SharedKept DEF IInv, SharedOK, ScansOK
<1>5. IndexOK'
  BY <1>1, <1>2 DEF IInv, IndexOK, States, Kept
<1>6. \A r \in Requests : req[r] \in Req /\ Fit(req[r], ib, Now)
  BY Facts
<1>7. \A r \in Requests : Fit(req[r], ib', Now)
  BY <1>1, <1>2, <1>6, FitLater
<1>8. ReqOK'
  BY <1>1, <1>7 DEF IInv, ReqOK
<1> QED
  BY <1>3, <1>4, <1>5, <1>8 DEF IInv

LEMMA ScanningKeeps == ASSUME IInv, NEW i \in Scans, Scanning(i) PROVE IInv'
<1>1. SharedOK' /\ waiting' = waiting /\ UNCHANGED <<hist, graph, ib, db, istate, makers, req>>
  BY StepKeeps DEF IInv, Scanning, ScanStep, viewVars
<1>2. Now' = Now /\ HistOK'
  BY <1>1 DEF IInv, HistOK, Now
<1>3. IndexOK' /\ ReqOK'
  BY <1>1, <1>2 DEF IInv, IndexOK, ReqOK, States, Kept
<1> QED
  BY <1>1, <1>2, <1>3 DEF IInv

LEMMA StutterKeeps == ASSUME IInv, UNCHANGED vars PROVE IInv'
<1>1. UNCHANGED <<hist, scan, entry, waiting, faults, graph, ib, db, istate, makers, req>> /\ Now' = Now
  BY DEF vars, scanVars, viewVars, Now
<1>2. SharedOK'
  BY <1>1, SharedKept DEF IInv, SharedOK, ScansOK
<1>3. HistOK' /\ IndexOK' /\ ReqOK'
  BY <1>1 DEF IInv, HistOK, IndexOK, ReqOK, States, Kept
<1> QED
  BY <1>2, <1>3 DEF IInv

LEMMA HandleKeeps == ASSUME IInv, NEW r \in Requests, Handle(r) PROVE IInv'
BY MetaKeeps, HeadKeeps, GraphKeeps, TableKeeps, AskScanKeeps, TakeScanKeeps, PositionsKeeps, BalancesKeeps,
   BlockKeeps, LensKeeps, SidesKeeps, TokensKeeps, HeldKeeps, MeasureKeeps DEF Handle

LEMMA NextKeeps == IInv /\ [Next]_vars => IInv'
BY HandleKeeps, ArriveKeeps, ScanningKeeps, IndexKeeps, TickKeepsAll, StutterKeeps DEF Next

LEMMA Invariant == Spec => []IInv
BY InitInv, NextKeeps, PTL DEF Spec

-----------------------------------------------------------------------------
(***************************************************************************)
(* The stamps that requests, scans and the index carry are of blocks that  *)
(* have been, and a request awaits a scan exactly while it is at that line *)
(* (coverage/route.ts, exposure/route.ts, makers/route.ts, aqua.ts).       *)
(***************************************************************************)
THEOREM TypeCorrect == Spec => []TypeOK
<1>1. IInv => TypeOK
  <2> SUFFICES ASSUME IInv PROVE TypeOK
    OBVIOUS
  <2>1. Now \in Nat
    BY LedgerAssumption DEF IInv, HistOK, Now
  <2>2. \A i \in Scans : scan[i] \in Scan /\ scan[i].end <= Now
    BY DEF IInv, SharedOK, ScansOK
  <2>3. \A i \in Scans : scan[i].pc \in {"idle", "head", "page", "done", "failed"} /\ scan[i].end \in 0 .. Now
    BY <2>1, <2>2 DEF Scan
  <2>4. \A r \in Requests : req[r] \in Req /\ Fit(req[r], ib, Now)
    BY Facts
  <2>5. \A r \in Requests : req[r].at \in 0 .. Now /\ req[r].claimAt \in 0 .. Now
    BY <2>1, <2>4 DEF Req, Fit
  <2>6. entry.scan \in 0 .. MaxScans /\ entry.at \in 0 .. Now /\ faults \in 0 .. MaxFaults
    BY DEF IInv, SharedOK, ScansOK
  <2>7. /\ istate.status \in {"off", "ready", "syncing", "unreachable", "errored"} /\ istate.head \in 0 .. Now
        /\ graph \in BOOLEAN /\ ib \in 1 .. Now /\ db \in 0 .. Now
    BY DEF IInv, IndexOK, States
  <2>8. hist \in Seq(Books) /\ Now \in 1 .. MaxBlock
    BY DEF IInv, HistOK
  <2>9. \A r \in Requests : req[r].pc = "scan" <=> waiting[r] # None
    BY DEF IInv, ReqOK
  <2> QED
    BY <2>3, <2>5, <2>6, <2>7, <2>8, <2>9 DEF TypeOK
<1> QED
  BY <1>1, Invariant, PTL

(***************************************************************************)
(* Whoever asks for a scan is given one begun less than a lifetime and the *)
(* longest scan ago, and none that failed, although any scan that lands    *)
(* renews the entry and any that fails removes it (aqua.ts:170-198).       *)
(***************************************************************************)
THEOREM SharedScansAreRecent == Spec => []SharedIsRecent
<1>1. IInv => SharedIsRecent
  <2> SUFFICES ASSUME IInv, Served PROVE SharedIsRecent
    BY DEF SharedIsRecent
  <2>1. EntryOK /\ Now - entry.at < TTL /\ entry.at \in Nat /\ Now \in Nat
    BY LedgerAssumption DEF Served, IInv, SharedOK, HistOK, Now
  <2>2. scan[entry.scan].began \in Nat /\ scan[entry.scan].pc # "failed"
    BY <2>1 DEF EntryOK, IInv, SharedOK, ScansOK, Scan
  <2>3. entry.at <= scan[entry.scan].began + MaxScan
    BY <2>1 DEF EntryOK
  <2> QED
    BY <2>1, <2>2, <2>3, ScanAssumption DEF SharedIsRecent
<1> QED
  BY <1>1, Invariant, PTL

\* Only the query itself answers a request that is about to query.
LEMMA OnlyTheQuery ==
    ASSUME IInv, NEW r \in Requests, req[r].pc = "query", [Next]_vars, req'[r] # req[r]
    PROVE  FromGraph(r)
<1>1. ASSUME NEW o \in Requests, \E f : Go(o, f), req[o].pc # "query" PROVE FALSE
  BY <1>1 DEF Go, IInv, ReqOK
<1>2. ASSUME NEW o \in Requests, FromGraph(o) PROVE FromGraph(r)
  <2>1. \E f : Go(o, f)
    BY <1>2 DEF FromGraph
  <2>2. CASE o # r
    BY <2>1, <2>2 DEF Go, IInv, ReqOK
  <2> QED
    BY <1>2, <2>2
<1>3. ASSUME NEW o \in Requests, NEW kind, Arrive(o, kind) PROVE FALSE
  <2>1. (\E f : Go(o, f)) /\ req[o].pc # "query"
    BY <1>3 DEF Arrive
  <2> QED
    BY <1>1, <2>1
<1>4. ASSUME NEW o \in Requests, Handle(o) PROVE FromGraph(o) \/ ((\E f : Go(o, f)) /\ req[o].pc # "query")
  <2>1. CASE Meta(o)
    BY <2>1 DEF Meta
  <2>2. CASE HeadBlock(o)
    BY <2>2 DEF HeadBlock
  <2>4. CASE FromTable(o)
    BY <2>4 DEF FromTable
  <2>5. CASE AskScan(o)
    BY <2>5 DEF AskScan
  <2>6. CASE TakeScan(o)
    BY <2>6 DEF TakeScan
  <2>7. CASE Positions(o)
    BY <2>7 DEF Positions
  <2>8. CASE Balances(o)
    BY <2>8 DEF Balances
  <2>9. CASE ChainBlock(o)
    BY <2>9 DEF ChainBlock
  <2>10. CASE Lens(o)
    BY <2>10 DEF Lens
  <2>11. CASE Sides(o)
    BY <2>11 DEF Sides
  <2>12. CASE Tokens(o)
    BY <2>12 DEF Tokens
  <2>13. CASE Held(o)
    BY <2>13 DEF Held
  <2>14. CASE Measure(o)
    BY <2>14 DEF Measure
  <2> QED
    BY <1>4, <2>1, <2>2, <2>4, <2>5, <2>6, <2>7, <2>8, <2>9, <2>10, <2>11, <2>12, <2>13, <2>14 DEF Handle
<1>5. CASE \E o \in Requests : Handle(o) \/ \E kind \in {a[o] : a \in Asks} : Arrive(o, kind)
  BY <1>1, <1>2, <1>3, <1>4, <1>5
<1>6. CASE UNCHANGED req
  BY <1>6
<1>7. ASSUME NEW i \in Scans, Scanning(i) PROVE UNCHANGED req
  BY <1>7 DEF Scanning, viewVars
<1>8. IndexSees \/ Refresh \/ UNCHANGED viewVars => UNCHANGED req
  BY DEF IndexSees, Refresh, viewVars
<1> QED
  BY <1>5, <1>6, <1>7, <1>8 DEF Next, vars

(***************************************************************************)
(* An answer out of the subgraph is of a block no further behind the head  *)
(* at its arrival than the route tolerates, whatever the index and the     *)
(* chain do between the reads (graph.ts:89-117).                           *)
(***************************************************************************)
THEOREM RecentAnswers == Spec => AnswersAreRecent
<1>1. ASSUME IInv, [Next]_vars, NEW r \in Requests, req[r].pc = "query", req'[r].src = "graph", ~ req[r].unjudged
      PROVE  req'[r].at >= req[r].began - MaxLag
  <2>1. req[r] \in Req /\ Fit(req[r], ib, Now) /\ ib \in Nat /\ MaxLag \in Nat
    BY <1>1, Facts
  <2>2. req'[r] # req[r]
    BY <1>1, <2>1 DEF Fit
  <2>3. req'[r].at = ib
    BY <1>1, <2>2, OnlyTheQuery, GraphKeeps
  <2>4. req[r].seen <= ib /\ req[r].seen >= req[r].began - MaxLag /\ req[r].seen \in Nat /\ req[r].began \in Nat
    BY <1>1, <2>1 DEF Fit, Req
  <2> QED
    BY <2>1, <2>3, <2>4
<1>2. IInv /\ [Next]_vars => [\A r \in Requests : LET q == req[r] IN
        q.pc = "query" /\ req'[r].src = "graph" /\ ~ q.unjudged => req'[r].at >= q.began - MaxLag]_vars
  BY <1>1
<1> QED
  BY <1>2, Invariant, PTL DEF Spec, AnswersAreRecent

-----------------------------------------------------------------------------
(* Sums: the fold of the community modules, by induction on the parts of a set. *)

Pick(s) == CHOOSE x \in s : TRUE
\* What the sum over every part of a set is, by induction on the parts.
IsFold(b, S, f) ==
    f = [s \in SUBSET S |-> IF s = {} THEN 0 ELSE LET x == CHOOSE x \in s : TRUE IN Virtual(b, x) + f[s \ {x}]]

LEMMA Folded == ASSUME NEW b, NEW S PROVE Committed(b, S) = (CHOOSE f : IsFold(b, S, f))[S]
BY DEF Committed, MapThenSumSet, MapThenFoldSet, IsFold

LEMMA FoldStep ==
    ASSUME NEW b, NEW S, NEW f, IsFold(b, S, f), NEW s \in SUBSET S
    PROVE  f[s] = IF s = {} THEN 0 ELSE Virtual(b, Pick(s)) + f[s \ {Pick(s)}]
<1> DEFINE g == [t \in SUBSET S |-> IF t = {} THEN 0 ELSE LET x == CHOOSE x \in t : TRUE IN Virtual(b, x) + f[t \ {x}]]
<1>1. f = g
  BY DEF IsFold
<1>2. g[s] = IF s = {} THEN 0 ELSE LET x == CHOOSE x \in s : TRUE IN Virtual(b, x) + f[s \ {x}]
  OBVIOUS
<1> HIDE DEF g
<1> QED
  BY <1>1, <1>2 DEF Pick

LEMMA Picked == ASSUME NEW s, s # {} PROVE Pick(s) \in s
BY DEF Pick

\* What holds of a finite set if it holds of every set whose smaller parts have it.
LEMMA Subsets ==
    ASSUME NEW S, IsFiniteSet(S), NEW Good,
           ASSUME NEW T \in SUBSET S, \A U \in SUBSET T : U # T => U \in Good PROVE T \in Good
    PROVE  S \in Good
<1> DEFINE Bad == {T \in SUBSET S : T \notin Good}
<1>1. SUFFICES ASSUME Bad # {} PROVE FALSE
  OBVIOUS
<1>2. IsWellFoundedOn(StrictSubsetOrdering(S), FiniteSubsetsOf(S))
  BY FS_StrictSubsetOrderingWellFounded
<1>3. Bad \subseteq FiniteSubsetsOf(S)
  BY FS_FiniteSubsetsOfFinite
<1> HIDE DEF Bad
<1>4. PICK T \in Bad : \A U \in Bad : ~ (<<U, T>> \in StrictSubsetOrdering(S))
  BY <1>1, <1>2, <1>3, WFMin
<1>5. T \in SUBSET S /\ T \notin Good
  BY DEF Bad
<1>6. ASSUME NEW U \in SUBSET T, U # T PROVE U \in Good
  <2>1. U \in SUBSET S /\ <<U, T>> \in StrictSubsetOrdering(S)
    BY <1>5, <1>6 DEF StrictSubsetOrdering
  <2> QED
    BY <1>4, <2>1 DEF Bad
<1> QED
  BY <1>5, <1>6

\* Two such sums agree on what both are about.
LEMMA FoldUnique ==
    ASSUME NEW b, NEW S, NEW T, NEW f, NEW g, IsFold(b, S, f), IsFold(b, T, g), NEW U, U \in SUBSET S, U \in SUBSET T,
           IsFiniteSet(U)
    PROVE  f[U] = g[U]
<1> DEFINE Good == {V \in SUBSET U : f[V] = g[V]}
<1>1. ASSUME NEW V \in SUBSET U, \A W \in SUBSET V : W # V => W \in Good PROVE V \in Good
  <2>1. CASE V = {}
    BY <2>1, FoldStep
  <2>2. CASE V # {}
    <3> DEFINE W == V \ {Pick(V)}
    <3>1. W \in SUBSET V /\ W # V
      BY <2>2, Picked
    <3>2. f[W] = g[W]
      BY <1>1, <3>1
    <3>3. V \in SUBSET S /\ V \in SUBSET T
      OBVIOUS
    <3>4. f[V] = Virtual(b, Pick(V)) + f[W] /\ g[V] = Virtual(b, Pick(V)) + g[W]
      BY <2>2, <3>3, FoldStep
    <3> QED
      BY <3>2, <3>4
  <2> QED
    BY <2>1, <2>2
<1> HIDE DEF Good
<1>2. U \in Good
  BY <1>1, Subsets
<1> QED
  BY <1>2 DEF Good

LEMMA FoldExists == ASSUME NEW b, NEW S, IsFiniteSet(S) PROVE \E f : IsFold(b, S, f)
<1> DEFINE Good == {T \in SUBSET S : \E f : IsFold(b, T, f)}
<1>1. ASSUME NEW T \in SUBSET S, \A U \in SUBSET T : U # T => U \in Good PROVE T \in Good
  <2> DEFINE h(U) == CHOOSE f : IsFold(b, U, f)
             f == [s \in SUBSET T |-> IF s = {} THEN 0
                       ELSE LET x == CHOOSE x \in s : TRUE IN Virtual(b, x) + h(s \ {x})[s \ {x}]]
             g == [s \in SUBSET T |-> IF s = {} THEN 0
                       ELSE LET x == CHOOSE x \in s : TRUE IN Virtual(b, x) + f[s \ {x}]]
  <2>1. ASSUME NEW U \in SUBSET T, U # T PROVE IsFold(b, U, h(U)) /\ IsFiniteSet(U)
    <3>1. \E k : IsFold(b, U, k)
      BY <1>1, <2>1
    <3>2. IsFiniteSet(U)
      BY FS_Subset
    <3> QED
      BY <3>1, <3>2
  <2>2. ASSUME NEW s \in SUBSET T
        PROVE f[s] = IF s = {} THEN 0 ELSE Virtual(b, Pick(s)) + h(s \ {Pick(s)})[s \ {Pick(s)}]
    BY DEF Pick
  <2>7. ASSUME NEW s \in SUBSET T
        PROVE g[s] = IF s = {} THEN 0 ELSE Virtual(b, Pick(s)) + f[s \ {Pick(s)}]
    BY DEF Pick
  <2>8. f = [s \in SUBSET T |-> f[s]] /\ g = [s \in SUBSET T |-> g[s]]
    OBVIOUS
  <2>9. IsFold(b, T, f) <=> f = g
    BY DEF IsFold
  <2> HIDE DEF h, f, g
  <2>3. ASSUME NEW U \in SUBSET T, U # T PROVE f[U] = h(U)[U]
    <3>1. IsFold(b, U, h(U))
      BY <2>1, <2>3
    <3>2. CASE U = {}
      <4>1. h(U)[U] = 0
        BY <3>1, <3>2, FoldStep
      <4> QED
        BY <2>2, <3>2, <4>1
    <3>3. CASE U # {}
      <4> DEFINE W == U \ {Pick(U)}
      <4>1. W \in SUBSET U /\ W \in SUBSET T /\ W # T
        BY <3>3, <2>3, Picked
      <4>2. h(U)[U] = Virtual(b, Pick(U)) + h(U)[W]
        BY <3>1, <3>3, FoldStep
      <4>3. IsFold(b, W, h(W)) /\ IsFiniteSet(W)
        BY <2>1, <4>1
      <4>4. h(U)[W] = h(W)[W]
        BY <3>1, <4>1, <4>3, FoldUnique
      <4>5. f[U] = Virtual(b, Pick(U)) + h(W)[W]
        BY <2>2, <3>3
      <4> QED
        BY <4>2, <4>4, <4>5
    <3> QED
      BY <3>2, <3>3
  <2>4. ASSUME NEW s \in SUBSET T PROVE f[s] = g[s]
    <3>1. CASE s = {}
      BY <2>2, <2>7, <3>1
    <3>2. CASE s # {}
      <4> DEFINE W == s \ {Pick(s)}
      <4>1. W \in SUBSET T /\ W # T
        BY <3>2, Picked
      <4>2. f[W] = h(W)[W]
        BY <2>3, <4>1
      <4> QED
        BY <2>2, <2>7, <3>2, <4>2
    <3> QED
      BY <3>1, <3>2
  <2>5. f = g
    BY <2>4, <2>8
  <2> QED
    BY <2>5, <2>9
<1> HIDE DEF Good
<1>2. S \in Good
  BY <1>1, Subsets
<1> QED
  BY <1>2 DEF Good

LEMMA FoldOf ==
    ASSUME NEW b, NEW S, IsFiniteSet(S), NEW f, IsFold(b, S, f), NEW T \in SUBSET S
    PROVE  Committed(b, T) = f[T]
<1> DEFINE g == CHOOSE f_1 : IsFold(b, T, f_1)
<1>1. IsFiniteSet(T)
  BY FS_Subset
<1>2. IsFold(b, T, g)
  BY <1>1, FoldExists
<1>3. Committed(b, T) = g[T]
  BY Folded
<1> HIDE DEF g
<1> QED
  BY <1>1, <1>2, <1>3, FoldUnique

\* What a set promises is what one of it promises and what the others do.
LEMMA SumStep ==
    ASSUME NEW b, NEW S, IsFiniteSet(S)
    PROVE  Committed(b, S) = IF S = {} THEN 0 ELSE Virtual(b, Pick(S)) + Committed(b, S \ {Pick(S)})
<1>1. PICK f : IsFold(b, S, f)
  BY FoldExists
<1>2. Committed(b, S) = f[S] /\ Committed(b, S \ {Pick(S)}) = f[S \ {Pick(S)}]
  BY <1>1, FoldOf
<1> QED
  BY <1>1, <1>2, FoldStep

Weighed(b, S) == \A s \in S : Virtual(b, s) \in Nat

LEMMA SumNat == ASSUME NEW b, NEW S, IsFiniteSet(S), Weighed(b, S) PROVE Committed(b, S) \in Nat
<1> DEFINE Good == {T \in SUBSET S : Committed(b, T) \in Nat}
<1>1. ASSUME NEW T \in SUBSET S, \A U \in SUBSET T : U # T => U \in Good PROVE T \in Good
  <2>1. IsFiniteSet(T)
    BY FS_Subset
  <2>2. CASE T = {}
    <3>1. Committed(b, T) = 0
      BY <2>1, <2>2, SumStep
    <3> QED
      BY <3>1
  <2>3. CASE T # {}
    <3>1. Pick(T) \in T
      BY <2>3, Picked
    <3>2. Committed(b, T \ {Pick(T)}) \in Nat /\ Virtual(b, Pick(T)) \in Nat
      BY <1>1, <3>1 DEF Weighed
    <3> QED
      BY <2>1, <2>3, <3>2, SumStep
  <2> QED
    BY <2>2, <2>3
<1> HIDE DEF Good
<1>2. S \in Good
  BY <1>1, Subsets
<1> QED
  BY <1>2 DEF Good

LEMMA SumLess ==
    ASSUME NEW b, NEW S, IsFiniteSet(S), Weighed(b, S), NEW x \in S
    PROVE  Committed(b, S) = Virtual(b, x) + Committed(b, S \ {x})
<1> DEFINE Good == {T \in SUBSET S : \A y \in T : Committed(b, T) = Virtual(b, y) + Committed(b, T \ {y})}
<1>1. ASSUME NEW T \in SUBSET S, \A U \in SUBSET T : U # T => U \in Good PROVE T \in Good
  <2>1. SUFFICES ASSUME NEW y \in T PROVE Committed(b, T) = Virtual(b, y) + Committed(b, T \ {y})
    OBVIOUS
  <2> DEFINE p == Pick(T)
             U == T \ {p}
             V == T \ {y}
             W == T \ {p, y}
  <2>2. p \in T /\ IsFiniteSet(T) /\ IsFiniteSet(U) /\ IsFiniteSet(V) /\ IsFiniteSet(W)
    BY Picked, FS_Subset
  <2>3. Committed(b, T) = Virtual(b, p) + Committed(b, U)
    BY <2>2, SumStep
  <2>4. CASE y = p
    BY <2>3, <2>4
  <2>5. CASE y # p
    <3>1. U \in Good /\ V \in Good
      BY <1>1, <2>2
    <3>2. y \in U /\ p \in V /\ U \ {y} = W /\ V \ {p} = W
      BY <2>2, <2>5
    <3>3. Committed(b, U) = Virtual(b, y) + Committed(b, W) /\ Committed(b, V) = Virtual(b, p) + Committed(b, W)
      BY <3>1, <3>2
    <3>4. Virtual(b, y) \in Nat /\ Virtual(b, p) \in Nat
      BY <2>2 DEF Weighed
    <3>5. Committed(b, W) \in Nat
      <4>1. Weighed(b, W)
        BY DEF Weighed
      <4> QED
        BY <2>2, <4>1, SumNat
    <3> HIDE DEF p, U, V, W, Good
    <3>6. Committed(b, T) = Virtual(b, y) + Committed(b, V)
      BY <2>3, <3>3, <3>4, <3>5
    <3> QED
      BY <3>6 DEF V
  <2> QED
    BY <2>4, <2>5
<1> HIDE DEF Good
<1>2. S \in Good
  BY <1>1, Subsets
<1> QED
  BY <1>2 DEF Good

\* Less is not promised by more, and those that promise nothing make no difference.
LEMMA SumGrows ==
    ASSUME NEW b, NEW S, IsFiniteSet(S), Weighed(b, S), NEW T \in SUBSET S
    PROVE  /\ Committed(b, T) <= Committed(b, S)
           /\ (\A s \in S \ T : Virtual(b, s) = 0) => Committed(b, T) = Committed(b, S)
<1> DEFINE R == S \ T
           Good == {U \in SUBSET R : /\ Committed(b, T) <= Committed(b, T \cup U)
                                     /\ (\A s \in R : Virtual(b, s) = 0) => Committed(b, T) = Committed(b, T \cup U)}
<1>1. ASSUME NEW U \in SUBSET R, \A V \in SUBSET U : V # U => V \in Good PROVE U \in Good
  <2>1. IsFiniteSet(T \cup U) /\ Weighed(b, T \cup U) /\ IsFiniteSet(T) /\ Weighed(b, T)
    <3>1. T \cup U \in SUBSET S
      OBVIOUS
    <3> QED
      BY <3>1, FS_Subset DEF Weighed
  <2>2. Committed(b, T) \in Nat /\ Committed(b, T \cup U) \in Nat
    BY <2>1, SumNat
  <2>3. CASE U = {}
    <3>1. T \cup U = T
      BY <2>3
    <3> QED
      BY <2>2, <3>1
  <2>4. CASE U # {}
    <3> DEFINE x == Pick(U)
               V == U \ {x}
    <3>1. x \in U /\ x \in R /\ V \in Good
      BY <1>1, <2>4, Picked
    <3>2. (T \cup U) \ {x} = T \cup V /\ x \in T \cup U
      BY <3>1
    <3>3. Committed(b, T \cup U) = Virtual(b, x) + Committed(b, T \cup V)
      BY <2>1, <3>2, SumLess
    <3>4. Virtual(b, x) \in Nat /\ Committed(b, T \cup V) \in Nat
      <4>1. IsFiniteSet(T \cup V) /\ Weighed(b, T \cup V)
        <5>1. T \cup V \in SUBSET S
          OBVIOUS
        <5> QED
          BY <5>1, FS_Subset DEF Weighed
      <4> QED
        BY <3>1, <4>1, SumNat DEF Weighed
    <3>5. Committed(b, T) <= Committed(b, T \cup V)
      BY <3>1
    <3>6. (\A s \in R : Virtual(b, s) = 0) => Committed(b, T) = Committed(b, T \cup V) /\ Virtual(b, x) = 0
      BY <3>1
    <3> HIDE DEF x, V, R
    <3> QED
      BY <2>2, <3>3, <3>4, <3>5, <3>6
  <2> QED
    BY <2>3, <2>4
<1>2. IsFiniteSet(R)
  BY FS_Subset
<1>3. T \cup R = S
  OBVIOUS
<1>4. R \in Good
  <2> HIDE DEF Good, R
  <2> QED
    BY <1>1, <1>2, Subsets
<1> QED
  BY <1>3, <1>4

-----------------------------------------------------------------------------
(* The history: a strategy is shipped once and docked once.                 *)

LEMMA Least == ASSUME NEW T, T \subseteq Nat, T # {} PROVE \E n \in T : \A m \in T : n <= m
<1> DEFINE R == OpToRel(<, Nat)
<1>1. IsWellFoundedOn(R, Nat)
  BY NatLessThanWellFounded
<1>2. \A m, n \in Nat : m < n => <<m, n>> \in R
  BY DEF OpToRel
<1> HIDE DEF R
<1>3. PICK n \in T : \A m \in T : ~ (<<m, n>> \in R)
  BY <1>1, WFMin
<1>4. \A m \in T : ~ (m < n)
  BY <1>2, <1>3
<1> QED
  BY <1>3, <1>4

Ages(a, c) == a = c \/ (a = "new" /\ c = "live") \/ (a = "live" /\ c = "docked")
HistAges == \A k \in 1 .. Now : k > 1 => \A s \in Strategies : Ages(hist[k - 1].st[s], hist[k].st[s])

LEMMA HistTyped == ASSUME HistOK PROVE Now \in Nat /\ Now >= 1 /\ Now = Len(hist) /\ \A k \in 1 .. Now : hist[k] \in Books
<1>1. Now \in Nat /\ Now >= 1 /\ Now = Len(hist) /\ hist \in Seq(Books)
  BY LedgerAssumption DEF HistOK, Now
<1> QED
  BY <1>1

\* What has been shipped stays shipped, and what was docked stays docked.
LEMMA NeverBack ==
    ASSUME HistOK, HistAges, NEW j \in 1 .. Now, NEW k \in 1 .. Now, j <= k, NEW s \in Strategies
    PROVE  /\ hist[j].st[s] # "new" => hist[k].st[s] # "new"
           /\ hist[j].st[s] = "docked" => hist[k].st[s] = "docked"
<1> DEFINE Bad == {m \in Nat : /\ j <= m /\ m <= k
                               /\ ~ /\ hist[j].st[s] # "new" => hist[m].st[s] # "new"
                                    /\ hist[j].st[s] = "docked" => hist[m].st[s] = "docked"}
<1>0. Now \in Nat
  BY HistTyped
<1>1. SUFFICES ASSUME Bad # {} PROVE FALSE
  BY <1>0
<1>2. PICK m \in Bad : \A l \in Bad : m <= l
  BY <1>1, Least
<1>3. m \in Nat /\ m - 1 \in Nat /\ m > j /\ m <= k
  BY <1>0, <1>2
<1>4. m - 1 \notin Bad
  BY <1>2, <1>3
<1>5. /\ hist[j].st[s] # "new" => hist[m - 1].st[s] # "new"
      /\ hist[j].st[s] = "docked" => hist[m - 1].st[s] = "docked"
  BY <1>0, <1>3, <1>4
<1>6. Ages(hist[m - 1].st[s], hist[m].st[s])
  BY <1>0, <1>3 DEF HistAges
<1> QED
  BY <1>2, <1>5, <1>6 DEF Ages

LEMMA DockedBetween ==
    ASSUME HistOK, HistAges, NEW j \in 1 .. Now, NEW k \in 1 .. Now, j <= k, NEW s \in Strategies,
           hist[j].st[s] = "live", hist[k].st[s] = "docked"
    PROVE  \E m \in j .. k : m > j /\ hist[m].st[s] = "docked" /\ hist[m - 1].st[s] = "live"
<1> DEFINE T == {m \in Nat : j <= m /\ m <= k /\ hist[m].st[s] = "docked"}
<1>0. Now \in Nat
  BY HistTyped
<1>1. k \in T
  BY <1>0
<1>2. PICK m \in T : \A l \in T : m <= l
  BY <1>1, Least
<1>3. m \in Nat /\ m - 1 \in Nat /\ m > j /\ m <= k /\ m \in 1 .. Now /\ hist[m].st[s] = "docked"
  BY <1>0, <1>2
<1>4. m - 1 \notin T
  BY <1>2, <1>3
<1>5. hist[m - 1].st[s] # "docked"
  BY <1>0, <1>3, <1>4
<1>6. Ages(hist[m - 1].st[s], hist[m].st[s])
  BY <1>0, <1>3 DEF HistAges
<1> QED
  BY <1>0, <1>3, <1>5, <1>6 DEF Ages

Born(s, k) == hist[k].st[s] = "live" /\ (k = 1 \/ hist[k - 1].st[s] = "new")

LEMMA BornOnce ==
    ASSUME HistOK, HistAges, NEW s \in Strategies, NEW k \in 1 .. Now, Born(s, k)
    PROVE  BornAt(s) = k
<1>0. Now \in Nat
  BY HistTyped
<1>1. ASSUME NEW i \in 1 .. Now, NEW j \in 1 .. Now, Born(s, i), Born(s, j), i < j PROVE FALSE
  <2>1. j - 1 \in 1 .. Now /\ i <= j - 1 /\ hist[j - 1].st[s] = "new" /\ hist[i].st[s] = "live"
    BY <1>0, <1>1 DEF Born
  <2> QED
    BY <2>1, NeverBack
<1>2. ASSUME NEW j \in 1 .. Now, Born(s, j) PROVE j = k
  BY <1>0, <1>1, <1>2
<1> DEFINE B == {j \in 1 .. Now : Born(s, j)}
<1>3. BornAt(s) = CHOOSE j \in 1 .. Now : Born(s, j)
  BY DEF BornAt, Born
<1> QED
  BY <1>2, <1>3

Births == \A s \in Strategies, k \in 1 .. Now : Born(s, k) => BornAt(s) = k
LEMMA BirthsNext == HistOK' /\ HistAges' => Births'
<1>1. HistOK /\ HistAges => Births
  BY BornOnce DEF Births
<1> QED
  BY <1>1, PTL

LEMMA LiveWasBorn ==
    ASSUME HistOK, HistAges, NEW s \in Strategies, NEW k \in 1 .. Now, hist[k].st[s] = "live"
    PROVE  BornAt(s) \in 1 .. k /\ Born(s, BornAt(s))
<1> DEFINE T == {m \in Nat : 1 <= m /\ m <= k /\ hist[m].st[s] # "new"}
<1>0. Now \in Nat
  BY HistTyped
<1>1. k \in T
  BY <1>0
<1>2. PICK m \in T : \A l \in T : m <= l
  BY <1>1, Least
<1>3. m \in 1 .. Now /\ m <= k /\ hist[m].st[s] # "new"
  BY <1>0, <1>2
<1>4. m = 1 \/ hist[m - 1].st[s] = "new"
  <2>1. m # 1 => m - 1 \notin T /\ m - 1 \in Nat
    BY <1>0, <1>2, <1>3
  <2> QED
    BY <1>0, <1>3, <2>1
<1>5. hist[m].st[s] # "docked"
  BY <1>3, NeverBack
<1>6. hist[m].st[s] = "live"
  <2>1. hist[m] \in Books
    BY <1>3, HistTyped
  <2> QED
    BY <1>3, <1>5, <2>1 DEF Books
<1>7. BornAt(s) = m
  BY <1>3, <1>4, <1>6, BornOnce DEF Born
<1> QED
  BY <1>0, <1>3, <1>4, <1>6, <1>7 DEF Born

LEMMA BlockAges ==
    ASSUME HistOK, HistAges, Block
    PROVE  HistAges'
<1> DEFINE b == hist[Now]
<1>1. b \in Books /\ Now \in Nat /\ Now >= 1
  BY HistTyped
<1>2. PICK next \in {b} \cup Shipped(b) \cup Docked(b) \cup Pulled(b) \cup Moved(b) \cup Approved(b) :
         hist' = Append(hist, next)
  BY DEF Block
<1>3. Now' = Now + 1 /\ \A k \in 1 .. Now : hist'[k] = hist[k]
  BY BlockTyped
<1>4. hist'[Now + 1] = next
  BY <1>2 DEF HistOK, Now
<1> HIDE DEF b
<1>5. b.st \in [Strategies -> {"new", "live", "docked"}]
  BY <1>1 DEF Books
<1>6. ASSUME NEW s \in Strategies PROVE Ages(b.st[s], next.st[s])
  <2>1. CASE next \in Shipped(b)
    <3>1. PICK x \in Strategies : b.st[x] = "new" /\ next.st = [b.st EXCEPT ![x] = "live"]
      <4> DEFINE F(x, a) == [st |-> [b.st EXCEPT ![x] = "live"], amt |-> [b.amt EXCEPT ![x] = a],
                             wallet |-> b.wallet, allow |-> b.allow]
                 T == {x \in Strategies : b.st[x] = "new"}
      <4>1. Shipped(b) = {F(x, a) : x \in T, a \in 1 .. MaxAmt}
        BY DEF Shipped
      <4>2. \A x, a : F(x, a).st = [b.st EXCEPT ![x] = "live"]
        OBVIOUS
      <4> HIDE DEF F
      <4>3. PICK x \in T, a \in 1 .. MaxAmt : next = F(x, a)
        BY <2>1, <4>1
      <4> QED
        BY <4>2, <4>3
    <3> QED
      BY <1>5, <3>1 DEF Ages
  <2>2. CASE next \in Docked(b)
    <3>1. PICK x \in Live(b) : next = [b EXCEPT !.st[x] = "docked"]
      BY <2>2 DEF Docked
    <3>2. x \in Strategies /\ b.st[x] = "live" /\ next.st = [b.st EXCEPT ![x] = "docked"]
      BY <1>1, <3>1 DEF Live, Books
    <3> QED
      BY <1>5, <3>2 DEF Ages
  <2>3. CASE next \in Pulled(b)
    <3>1. PICK x \in Live(b) : next = [b EXCEPT !.amt[x] = @ - 1, !.wallet = @ - 1, !.allow = @ - 1]
      BY <2>3 DEF Pulled
    <3>2. next.st = b.st
      BY <1>1, <3>1 DEF Books
    <3> QED
      BY <3>2 DEF Ages
  <2>4. CASE next \in Moved(b)
    <3>1. next.st = b.st
      BY <1>1, <2>4 DEF Moved, Books
    <3> QED
      BY <3>1 DEF Ages
  <2>5. CASE next \in Approved(b)
    <3>1. next.st = b.st
      BY <1>1, <2>5 DEF Approved, Books
    <3> QED
      BY <3>1 DEF Ages
  <2>6. CASE next = b
    BY <2>6 DEF Ages
  <2> QED
    BY <1>2, <2>1, <2>2, <2>3, <2>4, <2>5, <2>6
<1>7. SUFFICES ASSUME NEW k \in 1 .. Now', k > 1, NEW s \in Strategies
               PROVE  Ages(hist'[k - 1].st[s], hist'[k].st[s])
  BY DEF HistAges, Ages
<1>8. CASE k = Now + 1
  <2>1. hist'[k] = next /\ hist'[k - 1] = b
    BY <1>1, <1>3, <1>4, <1>8 DEF b
  <2> QED
    BY <1>6, <2>1
<1>9. CASE k # Now + 1
  <2>1. k \in 1 .. Now /\ k - 1 \in 1 .. Now
    BY <1>1, <1>3, <1>7, <1>9
  <2>2. hist'[k] = hist[k] /\ hist'[k - 1] = hist[k - 1]
    BY <1>3, <2>1
  <2> QED
    BY <1>7, <2>1, <2>2 DEF HistAges
<1> QED
  BY <1>8, <1>9

Listed(list, end, latest) ==
    LET live == {s \in Live(hist[latest]) : AppOf[s] = Router} IN
    /\ list \subseteq live
    /\ \A s \in live \ list : \/ BornAt(s) < end
                              \/ Cardinality({t \in list : BornAt(t) >= BornAt(s)}) = Cap
Paged(i) ==
    LET s == scan[i] IN
    /\ s.pc = "head" => s.shipped = {} /\ s.docked = {}
    /\ s.pc = "page" => /\ s.latest \in 1 .. Now /\ s.end \in 1 .. s.latest
                        /\ s.shipped = ShipLogs(s.end + 1, s.latest) /\ s.docked = DockLogs(s.end + 1, s.latest)
    /\ s.pc = "done" => s.latest \in 1 .. Now /\ Listed(s.list, s.end, s.latest)
PagesOK == \A i \in Scans : Paged(i)

\* The newest of what was shipped and not docked since a block is a list of the live book.
LEMMA NewestListed ==
    ASSUME HistOK, HistAges, NEW latest \in 1 .. Now, NEW start \in 1 .. latest,
           NEW list \in Newest(ShipLogs(start, latest) \ DockLogs(start, latest))
    PROVE  Listed(list, start, latest)
<1> DEFINE live == {s \in Live(hist[latest]) : AppOf[s] = Router}
           found == ShipLogs(start, latest) \ DockLogs(start, latest)
<1>0. Now \in Nat /\ Now >= 1 /\ IsFiniteSet(Strategies) /\ Cap \in Nat
  BY HistTyped, LedgerAssumption, ScanAssumption
<1>1. list \in SUBSET found /\ Cardinality(list) = Lesser(Cap, Cardinality(found))
      /\ \A s \in list, t \in found \ list : BornAt(s) >= BornAt(t)
  BY DEF Newest
<1>2. ASSUME NEW s \in found PROVE s \in live
  <2>1. PICK k \in start .. latest : Born(s, k) /\ AppOf[s] = Router /\ s \in Strategies
    BY DEF ShipLogs, Born
  <2>2. k \in 1 .. Now /\ hist[k].st[s] = "live" /\ k <= latest
    BY <1>0, <2>1 DEF Born
  <2>3. hist[latest].st[s] # "new"
    BY <2>1, <2>2, NeverBack
  <2>4. hist[latest].st[s] # "docked"
    <3>1. SUFFICES ASSUME hist[latest].st[s] = "docked" PROVE FALSE
      OBVIOUS
    <3>2. PICK m \in k .. latest : m > k /\ hist[m].st[s] = "docked" /\ hist[m - 1].st[s] = "live"
      BY <2>1, <2>2, <3>1, DockedBetween
    <3>3. m \in start .. latest /\ m > 1
      BY <1>0, <2>1, <2>2, <3>2
    <3>4. s \in DockLogs(start, latest)
      BY <2>1, <3>2, <3>3 DEF DockLogs
    <3> QED
      BY <3>4
  <2>5. hist[latest] \in Books
    BY HistTyped
  <2> QED
    BY <2>1, <2>3, <2>4, <2>5 DEF Books, Live
<1>3. ASSUME NEW s \in live \ list, ~ (BornAt(s) < start) PROVE Cardinality({t \in list : BornAt(t) >= BornAt(s)}) = Cap
  <2>1. s \in Strategies /\ hist[latest].st[s] = "live" /\ AppOf[s] = Router
    BY DEF Live
  <2>2. BornAt(s) \in 1 .. latest /\ Born(s, BornAt(s))
    BY <2>1, LiveWasBorn
  <2>3. BornAt(s) \in start .. latest
    BY <1>0, <1>3, <2>2
  <2>4. s \in ShipLogs(start, latest)
    BY <2>1, <2>2, <2>3 DEF ShipLogs, Born
  <2>5. s \notin DockLogs(start, latest)
    <3>1. SUFFICES ASSUME NEW m \in start .. latest, m > 1, hist[m].st[s] = "docked" PROVE FALSE
      BY DEF DockLogs
    <3>2. m \in 1 .. Now /\ m <= latest
      BY <1>0
    <3>3. hist[latest].st[s] = "docked"
      BY <2>1, <3>1, <3>2, NeverBack
    <3> QED
      BY <2>1, <3>3
  <2>6. s \in found \ list
    BY <1>3, <2>4, <2>5
  <2> DEFINE later == {t \in list : BornAt(t) >= BornAt(s)}
  <2>7. later = list
    BY <1>1, <2>6
  <2>8. IsFiniteSet(found) /\ Cardinality(found) \in Nat /\ Cardinality(list) <= Cardinality(found)
        /\ (Cardinality(list) = Cardinality(found) => list = found)
    <3>1. found \in SUBSET Strategies
      BY DEF ShipLogs
    <3>2. IsFiniteSet(found)
      BY <1>0, <3>1, FS_Subset
    <3> QED
      BY <1>1, <3>2, FS_Subset, FS_CardinalityType
  <2>9. Cardinality(list) # Cardinality(found)
    BY <2>6, <2>8
  <2> HIDE DEF later, found
  <2> QED
    BY <1>0, <1>1, <2>7, <2>8, <2>9 DEF Lesser, later
<1> QED
  BY <1>1, <1>2, <1>3 DEF Listed

Booked == HistAges /\ PagesOK

\* While the chain stands still its logs do.
LEMMA LogsStay ==
    ASSUME Booked, UNCHANGED hist
    PROVE  /\ Now' = Now /\ HistAges'
           /\ \A a, c : ShipLogs(a, c)' = ShipLogs(a, c) /\ DockLogs(a, c)' = DockLogs(a, c)
           /\ \A l, e, h : Listed(l, e, h)' = Listed(l, e, h)
<1>1. Now' = Now /\ HistAges'
  BY DEF Booked, HistAges, Now, Ages
<1>2. /\ \A a, c : ShipLogs(a, c)' = ShipLogs(a, c) /\ DockLogs(a, c)' = DockLogs(a, c)
      /\ \A l, e, h : Listed(l, e, h)' = Listed(l, e, h)
  BY DEF Listed, ShipLogs, DockLogs, BornAt, Now
<1> QED
  BY <1>1, <1>2

LEMMA BookedStays == ASSUME Booked, UNCHANGED <<hist, scan>> PROVE Booked'
<1>1. ASSUME NEW j \in Scans PROVE Paged(j)'
  <2>1. Paged(j) /\ scan' = scan
    BY DEF Booked, PagesOK
  <2> QED
    BY <2>1, LogsStay DEF Paged
<1> QED
  BY <1>1, LogsStay DEF Booked, PagesOK

LEMMA BookedInit == ASSUME Init PROVE Booked
<1>1. PICK b \in Genesis : hist = <<b>>
  BY DEF Init, ScanInit
<1>2. Now = 1
  BY <1>1 DEF Now
<1>3. HistAges
  BY <1>2 DEF HistAges
<1>4. \A i \in Scans : scan[i].pc = "idle"
  BY DEF Init, ScanInit, IdleScan
<1>5. PagesOK
  BY <1>4 DEF PagesOK, Paged
<1> QED
  BY <1>3, <1>5 DEF Booked

\* A scan that changes while the chain stands still.
LEMMA BookedScan ==
    ASSUME IInv, Booked, UNCHANGED hist, NEW i \in Scans, NEW f, scan' = [scan EXCEPT ![i] = f],
           f.pc = "head" => f.shipped = {} /\ f.docked = {},
           f.pc = "page" => /\ f.latest \in 1 .. Now /\ f.end \in 1 .. f.latest
                            /\ f.shipped = ShipLogs(f.end + 1, f.latest) /\ f.docked = DockLogs(f.end + 1, f.latest),
           f.pc = "done" => f.latest \in 1 .. Now /\ Listed(f.list, f.end, f.latest)
    PROVE  Booked'
<1>1. scan'[i] = f /\ \A j \in Scans : j # i => scan'[j] = scan[j]
  BY DEF IInv, SharedOK, ScansOK
<1>4. ASSUME NEW j \in Scans PROVE Paged(j)'
  <2>1. CASE j = i
    BY <1>1, <2>1, LogsStay DEF Paged
  <2>2. CASE j # i
    <3>1. Paged(j)
      BY DEF Booked, PagesOK
    <3> QED
      BY <1>1, <2>2, <3>1, LogsStay DEF Paged
  <2> QED
    BY <2>1, <2>2
<1> QED
  BY <1>4, LogsStay DEF Booked, PagesOK

LEMMA BookedAsk == ASSUME IInv, Booked, UNCHANGED hist, NEW r \in Readers, Ask(r) PROVE Booked'
<1>1. CASE UNCHANGED scan
  BY <1>1, BookedStays
<1>2. CASE ~ UNCHANGED scan
  <2> DEFINE f == [IdleScan EXCEPT !.pc = "head", !.began = Now]
  <2>1. PICK i \in Scans : scan' = [scan EXCEPT ![i] = f]
    BY <1>2 DEF Ask, Free
  <2>2. f.pc = "head" /\ f.shipped = {} /\ f.docked = {}
    BY DEF IdleScan
  <2> HIDE DEF f
  <2> QED
    BY <2>1, <2>2, BookedScan
<1> QED
  BY <1>1, <1>2

LEMMA BookedHead == ASSUME IInv, Booked, UNCHANGED hist, NEW i \in Scans, ReadHead(i) PROVE Booked'
<1> DEFINE s == scan[i]
           f == [s EXCEPT !.pc = "page", !.latest = Now, !.end = Now]
<1>1. s \in Scan /\ s.pc = "head" /\ Now \in Nat /\ Now >= 1
  BY HistTyped DEF ReadHead, IInv, SharedOK, ScansOK
<1>2. Paged(i)
  BY DEF Booked, PagesOK
<1>3. scan' = [scan EXCEPT ![i] = f]
  BY DEF ReadHead
<1>4. f.pc = "page" /\ f.latest = Now /\ f.end = Now /\ f.shipped = s.shipped /\ f.docked = s.docked
  BY <1>1 DEF Scan
<1>5. ShipLogs(Now + 1, Now) = {} /\ DockLogs(Now + 1, Now) = {}
  BY <1>1 DEF ShipLogs, DockLogs
<1>6. s.shipped = {} /\ s.docked = {}
  BY <1>1, <1>2 DEF Paged
<1> HIDE DEF f, s
<1>7. /\ f.latest \in 1 .. Now /\ f.end \in 1 .. f.latest
      /\ f.shipped = ShipLogs(f.end + 1, f.latest) /\ f.docked = DockLogs(f.end + 1, f.latest)
  BY <1>1, <1>4, <1>5, <1>6
<1> QED
  BY <1>3, <1>4, <1>7, BookedScan

LEMMA PageFrom ==
    ASSUME NEW end \in Nat, end >= 1
    PROVE  PageStart(end) \in 1 .. end
BY ScanAssumption DEF PageStart, Floor

\* A page more of both logs.
LEMMA LogsJoin ==
    ASSUME NEW latest \in Nat, NEW end \in 1 .. latest, NEW start \in 1 .. end
    PROVE  /\ ShipLogs(end + 1, latest) \cup ShipLogs(start, end) = ShipLogs(start, latest)
           /\ DockLogs(end + 1, latest) \cup DockLogs(start, end) = DockLogs(start, latest)
<1>1. (end + 1) .. latest \cup start .. end = start .. latest
  OBVIOUS
<1>2. \A k : k \in start .. latest <=> k \in (end + 1) .. latest \/ k \in start .. end
  BY <1>1
<1> QED
  BY <1>2 DEF ShipLogs, DockLogs

LEMMA BookedPage == ASSUME IInv, Booked, UNCHANGED hist, NEW i \in Scans, ReadPage(i) PROVE Booked'
<1> DEFINE s == scan[i]
           start == PageStart(s.end)
           shipped == s.shipped \cup ShipLogs(start, s.end)
           docked == SeenDocked(i, start)
           last == start = Floor \/ s.pages + 1 >= Budget
           on == [s EXCEPT !.shipped = shipped, !.docked = docked, !.end = start - 1, !.pages = @ + 1]
           done(kept) == [IdleScan EXCEPT !.pc = "done", !.began = s.began, !.latest = s.latest, !.end = start, !.list = kept]
<1>1. s \in Scan /\ s.pc = "page" /\ Now \in Nat /\ Now >= 1
  BY HistTyped DEF ReadPage, IInv, SharedOK, ScansOK
<1>2. /\ s.latest \in 1 .. Now /\ s.end \in 1 .. s.latest
      /\ s.shipped = ShipLogs(s.end + 1, s.latest) /\ s.docked = DockLogs(s.end + 1, s.latest)
  BY <1>1 DEF Booked, PagesOK, Paged
<1>3. s.latest \in Nat /\ s.end \in Nat /\ s.end >= 1 /\ start \in 1 .. s.end
  BY <1>1, <1>2, PageFrom
<1>4. shipped = ShipLogs(start, s.latest) /\ docked = DockLogs(start, s.latest)
  BY <1>2, <1>3, LogsJoin DEF SeenDocked
<1>5. \/ ~ last /\ scan' = [scan EXCEPT ![i] = on]
      \/ \E kept \in Newest(shipped \ docked) : scan' = [scan EXCEPT ![i] = done(kept)]
  BY DEF ReadPage
<1>6. ~ last => on.latest = s.latest /\ on.end = start - 1 /\ start - 1 \in 1 .. s.latest /\ (start - 1) + 1 = start
                /\ on.shipped = shipped /\ on.docked = docked /\ on.pc = "page"
  BY <1>1, <1>2, <1>3 DEF Scan, Floor
<1>7. \A kept : done(kept).pc = "done" /\ done(kept).latest = s.latest /\ done(kept).end = start /\ done(kept).list = kept
  BY DEF IdleScan
<1> HIDE DEF on, done, last, shipped, docked, start, s
<1>8. CASE ~ last /\ scan' = [scan EXCEPT ![i] = on]
  BY <1>2, <1>4, <1>6, <1>8, BookedScan
<1>9. ASSUME NEW kept \in Newest(shipped \ docked), scan' = [scan EXCEPT ![i] = done(kept)] PROVE Booked'
  <2>1. start \in 1 .. s.latest
    BY <1>2, <1>3
  <2>2. Listed(kept, start, s.latest)
    BY <1>2, <1>4, <2>1, NewestListed DEF IInv, Booked
  <2> QED
    BY <1>2, <1>7, <1>9, <2>2, BookedScan
<1> QED
  BY <1>5, <1>8, <1>9

LEMMA BookedFails == ASSUME IInv, Booked, UNCHANGED hist, NEW i \in Scans, Fails(i) PROVE Booked'
<1> DEFINE f == [IdleScan EXCEPT !.pc = "failed", !.began = scan[i].began]
<1>1. scan' = [scan EXCEPT ![i] = f]
  BY DEF Fails
<1>2. f.pc = "failed"
  BY DEF IdleScan
<1> HIDE DEF f
<1> QED
  BY <1>1, <1>2, BookedScan

\* What the past says does not depend on the present.
LEMMA BookedTick == ASSUME IInv, Booked, Tick PROVE Booked'
<1>1. Block /\ UNCHANGED scan
  BY DEF Tick, scanVars
<1>2. HistOK /\ HistAges /\ HistOK' /\ HistAges' /\ Now' = Now + 1 /\ \A k \in 1 .. Now : hist'[k] = hist[k]
  BY <1>1, BlockTyped, BlockAges DEF IInv, Booked
<1>3. Now \in Nat
  BY <1>2, HistTyped
<1>4. ASSUME NEW a \in Nat, a >= 1, NEW c \in 0 .. Now
      PROVE  ShipLogs(a, c)' = ShipLogs(a, c) /\ DockLogs(a, c)' = DockLogs(a, c)
  <2>1. \A k \in a .. c : hist'[k] = hist[k] /\ (k # 1 => hist'[k - 1] = hist[k - 1]) /\ k >= 1
    BY <1>2, <1>3, <1>4
  <2>2. \A k \in a .. c : k > 1 <=> k # 1
    BY <1>3, <1>4
  <2> QED
    BY <2>1, <2>2 DEF ShipLogs, DockLogs
<1>5. ASSUME NEW s \in Strategies, NEW k \in 1 .. Now, hist[k].st[s] = "live"
      PROVE  BornAt(s)' = BornAt(s)
  <2>1. PICK b \in 1 .. k : b = BornAt(s) /\ Born(s, b)
    BY <1>2, <1>5, LiveWasBorn
  <2>2. b \in 1 .. Now' /\ hist'[b] = hist[b] /\ (b # 1 => hist'[b - 1] = hist[b - 1])
    BY <1>2, <1>3, <2>1
  <2>3. Born(s, b)'
    BY <2>1, <2>2 DEF Born
  <2>4. BornAt(s)' = b
    BY <1>2, <2>2, <2>3, BirthsNext DEF Births
  <2> QED
    BY <2>1, <2>4
<1>6. ASSUME NEW list, NEW end, NEW latest \in 1 .. Now, Listed(list, end, latest)
      PROVE  Listed(list, end, latest)'
  <2> DEFINE live == {s \in Live(hist[latest]) : AppOf[s] = Router}
  <2>1. hist'[latest] = hist[latest]
    BY <1>2
  <2>2. \A s \in live : BornAt(s)' = BornAt(s)
    BY <1>5 DEF Live
  <2>3. list \subseteq live
    BY <1>6 DEF Listed
  <2>4. ASSUME NEW s \in live PROVE {t \in list : BornAt(t)' >= BornAt(s)'} = {t \in list : BornAt(t) >= BornAt(s)}
    BY <2>2, <2>3
  <2>5. ASSUME NEW s \in live \ list
        PROVE  BornAt(s)' < end \/ Cardinality({t \in list : BornAt(t)' >= BornAt(s)'}) = Cap
    BY <1>6, <2>2, <2>4 DEF Listed
  <2> QED
    BY <2>1, <2>3, <2>5 DEF Listed
<1>7. ASSUME NEW i \in Scans PROVE Paged(i)'
  <2> DEFINE s == scan[i]
  <2>1. Paged(i) /\ scan' = scan /\ s \in Scan
    BY <1>1 DEF Booked, PagesOK, IInv, SharedOK, ScansOK
  <2>2. CASE s.pc = "page"
    <3>1. s.latest \in 1 .. Now' /\ s.end \in 1 .. s.latest /\ s.end + 1 \in Nat /\ s.end + 1 >= 1 /\ s.latest \in 0 .. Now
      BY <1>2, <1>3, <2>1, <2>2 DEF Paged
    <3>2. ShipLogs(s.end + 1, s.latest)' = ShipLogs(s.end + 1, s.latest)
          /\ DockLogs(s.end + 1, s.latest)' = DockLogs(s.end + 1, s.latest)
      BY <1>4, <2>1, <3>1
    <3> QED
      BY <2>1, <2>2, <3>1, <3>2 DEF Paged
  <2>3. CASE s.pc = "done"
    <3>1. s.latest \in 1 .. Now /\ s.latest \in 1 .. Now' /\ Listed(s.list, s.end, s.latest)
      BY <1>2, <1>3, <2>1, <2>3 DEF Paged
    <3>2. Listed(s.list, s.end, s.latest)'
      BY <1>6, <2>1, <3>1
    <3> QED
      BY <2>1, <2>3, <3>1, <3>2 DEF Paged
  <2>4. CASE s.pc # "page" /\ s.pc # "done"
    BY <2>1, <2>4 DEF Paged
  <2> QED
    BY <2>2, <2>3, <2>4
<1> QED
  BY <1>2, <1>7 DEF Booked, PagesOK

LEMMA HandleChain == ASSUME NEW r \in Requests, Handle(r) PROVE UNCHANGED hist /\ (UNCHANGED scan \/ Ask(r))
BY DEF Handle, Meta, HeadBlock, FromGraph, FromTable, AskScan, TakeScan, Take, Positions, Balances, ChainBlock, Lens, Sides,
       Tokens, Held, Measure, scanVars

LEMMA BookedNext == IInv /\ Booked /\ [Next]_vars => Booked'
<1> SUFFICES ASSUME IInv, Booked, [Next]_vars PROVE Booked'
  OBVIOUS
<1>1. ASSUME NEW r \in Requests, Handle(r) PROVE Booked'
  BY <1>1, HandleChain, BookedAsk, BookedStays DEF Requests
<1>2. ASSUME NEW r \in Requests, NEW kind, Arrive(r, kind) PROVE Booked'
  BY <1>2, BookedStays DEF Arrive, scanVars
<1>3. ASSUME NEW i \in Scans, Scanning(i) PROVE Booked'
  BY <1>3, BookedHead, BookedPage, BookedFails DEF Scanning, ScanStep
<1>4. CASE IndexSees \/ Refresh
  BY <1>4, BookedStays DEF IndexSees, Refresh, scanVars
<1>5. CASE Tick /\ UNCHANGED viewVars
  BY <1>5, BookedTick
<1>6. CASE UNCHANGED vars
  BY <1>6, BookedStays DEF vars, scanVars
<1> QED
  BY <1>1, <1>2, <1>3, <1>4, <1>5, <1>6 DEF Next

LEMMA BooksAre == Spec => [](IInv /\ Booked)
<1>1. Spec => []Booked
  BY BookedInit, BookedNext, Invariant, PTL DEF Spec
<1> QED
  BY <1>1, Invariant, PTL

(***************************************************************************)
(* A list that a scan ended with is the router's live book at the scan's   *)
(* head but for what is older than its pages reach or than all the cap let *)
(* through, however the pages of the two logs and the blocks interleave;   *)
(* and what is shared of it is recent (aqua.ts:85-198).                    *)
(***************************************************************************)
THEOREM ListsAreBooks == Spec => []ViewsInv
<1>1. IInv /\ Booked => ListIsTheBook
  BY DEF Booked, PagesOK, Paged, Listed, ListIsTheBook
<1>2. Spec => []ListIsTheBook
  BY <1>1, BooksAre, PTL
<1> QED
  BY <1>2, TypeCorrect, SharedScansAreRecent, PTL DEF ViewsInv

-----------------------------------------------------------------------------
(* What a request has read, and what it says of it.                         *)

\* What a request has read, as its fields say: a promise that was added up, of the block it
\* was read at; what stood behind it; and a claim that was made of both.
Stage(q) ==
    /\ q.pc \in {"idle", "db", "meta", "head", "query", "ask", "scan", "positions"} =>
          q.at = 0 /\ q.committed = 0 /\ ~ q.known /\ q.claimAt = 0
    /\ q.pc \in {"db", "ask", "scan"} => q.kind \in {"coverage", "makers"}
    /\ q.pc \in {"positions", "balances", "block", "lens"} => q.kind = "coverage" /\ q.claimAt = 0
    /\ q.pc \in {"sides", "tokens", "held"} => q.kind = "exposure" /\ q.src = "graph" /\ ~ q.known /\ q.at # 0
    /\ q.pc = "positions" => q.src # "graph"
    /\ q.pc = "balances" => q.at # 0
    /\ q.pc = "lens" => q.known
    /\ q.pc = "sides" => q.claimAt = 0
    /\ q.pc = "measure" => q.kind = "makers"
    /\ q.kind = "makers" => ~ q.known

Counted(q, h) ==
    /\ q.at = 0 => q.committed = 0
    /\ q.at # 0 /\ q.kind # "makers" =>
          /\ q.at \in 1 .. Len(h) /\ q.committed = Committed(h[q.at], q.hashes)
          /\ q.src = "graph" => q.committed = Committed(h[q.at], Strategies)

Stood(q, h) ==
    q.known => /\ q.walletAt \in 1 .. Len(h) /\ q.allowAt \in 1 .. Len(h) /\ q.at # 0
               /\ q.backed = Lesser(h[q.walletAt].wallet, h[q.allowAt].allow)
               /\ q.kind = "coverage" => q.allowAt = q.walletAt
               /\ q.kind = "exposure" => q.src = "graph"

Claimed(q, h) ==
    q.claimAt # 0 =>
        /\ q.claimAt \in 1 .. Len(h)
        /\ q.kind = "coverage" => /\ q.known
                                  /\ LensBps(h[q.claimAt], q.app, q.hashes) = Capped(CoverageBps(q)) => q.check = "agrees"
        /\ q.kind = "exposure" => q.at # 0 /\ q.claims = Committed(h[q.claimAt], q.hashes)

Told(q, h) == Stage(q) /\ Counted(q, h) /\ Stood(q, h) /\ Claimed(q, h)
AllTold == \A r \in Requests : Told(req[r], hist)

LEMMA ToldLater ==
    ASSUME NEW q \in Req, NEW h, NEW k, Len(h) \in Nat, Len(k) \in Nat, Len(h) <= Len(k), \A i \in 1 .. Len(h) : k[i] = h[i],
           Told(q, h)
    PROVE  Told(q, k)
<1>1. \A i : i \in 1 .. Len(h) => i \in 1 .. Len(k) /\ k[i] = h[i]
  OBVIOUS
<1>2. Counted(q, k)
  BY <1>1 DEF Told, Counted
<1>3. Stood(q, k)
  BY <1>1 DEF Told, Stood
<1>4. Claimed(q, k)
  BY <1>1 DEF Told, Claimed
<1> QED
  BY <1>2, <1>3, <1>4 DEF Told

LEMMA ToldGo ==
    ASSUME IInv, AllTold, NEW r \in Requests, NEW f, Go(r, f), UNCHANGED hist, Told(f, hist)
    PROVE  AllTold'
<1>1. req'[r] = f /\ \A o \in Requests : o # r => req'[o] = req[o]
  BY DEF Go, IInv, ReqOK
<1> QED
  BY <1>1 DEF AllTold

LEMMA ToldStays == ASSUME AllTold, UNCHANGED <<hist, req>> PROVE AllTold'
BY DEF AllTold

LEMMA ToldTick == ASSUME IInv, AllTold, Tick, UNCHANGED req PROVE AllTold'
<1>1. Now' = Now + 1 /\ \A k \in 1 .. Now : hist'[k] = hist[k]
  BY BlockTyped DEF Tick, IInv
<1>2. Now \in Nat /\ Now = Len(hist) /\ Now' = Len(hist')
  BY HistTyped DEF IInv, Now
<1>3. Len(hist) \in Nat /\ Len(hist') \in Nat /\ Len(hist) <= Len(hist') /\ \A i \in 1 .. Len(hist) : hist'[i] = hist[i]
  BY <1>1, <1>2
<1>4. ASSUME NEW r \in Requests PROVE Told(req[r], hist')
  <2>1. req[r] \in Req /\ Told(req[r], hist)
    BY DEF AllTold, IInv, ReqOK
  <2> QED
    BY <1>3, <2>1, ToldLater
<1> QED
  BY <1>4 DEF AllTold

\* An answer from nowhere.
LEMMA ToldNothing ==
    ASSUME NEW q, NEW h, Stage(q), q.at = 0, q.committed = 0, ~ q.known, q.claimAt = 0
    PROVE  Told(q, h)
BY DEF Told, Counted, Stood, Claimed

LEMMA ToldInit == ASSUME Init PROVE AllTold
<1>1. Stage(IdleReq) /\ IdleReq.at = 0 /\ IdleReq.committed = 0 /\ ~ IdleReq.known /\ IdleReq.claimAt = 0
  BY DEF IdleReq, Stage
<1> QED
  BY <1>1, ToldNothing DEF Init, AllTold

LEMMA ToldUnindexed == ASSUME NEW q \in Req, NEW h PROVE Told(Unindexed(q), h)
<1> DEFINE u == Unindexed(q)
<1>1. /\ u.at = 0 /\ u.committed = 0 /\ ~ u.known /\ u.claimAt = 0 /\ u.kind = q.kind
      /\ u.pc = IF q.kind = "makers" THEN "ask" ELSE "done"
  BY DEF Unindexed, IdleReq
<1> HIDE DEF u
<1>2. Stage(u)
  BY <1>1 DEF Stage
<1> QED
  BY <1>1, <1>2, ToldNothing DEF u

LEMMA ToldMeta == ASSUME IInv, AllTold, NEW r \in Requests, Meta(r) PROVE AllTold'
<1> DEFINE q == req[r]
           f == [q EXCEPT !.pc = "head", !.seen = ib]
<1>1. q \in Req /\ q.pc = "meta" /\ Told(q, hist) /\ UNCHANGED hist
  BY DEF Meta, IInv, ReqOK, AllTold
<1>2. Go(r, f) \/ Go(r, Unindexed(q))
  BY DEF Meta
<1>3. f.pc = "head" /\ f.at = q.at /\ f.committed = q.committed /\ f.known = q.known /\ f.claimAt = q.claimAt
      /\ f.kind = q.kind
  BY <1>1 DEF Req
<1> HIDE DEF f, q
<1>4. q.at = 0 /\ q.committed = 0 /\ ~ q.known /\ q.claimAt = 0
  BY <1>1 DEF Told, Stage
<1>5. Stage(f)
  BY <1>3, <1>4 DEF Stage
<1>6. Told(f, hist)
  BY <1>3, <1>4, <1>5, ToldNothing
<1> QED
  BY <1>1, <1>2, <1>6, ToldUnindexed, ToldGo

LEMMA ToldHead == ASSUME IInv, AllTold, NEW r \in Requests, HeadBlock(r) PROVE AllTold'
<1> DEFINE q == req[r]
           F(ok) == [q EXCEPT !.pc = "query", !.unjudged = ~ ok]
<1>1. q \in Req /\ q.pc = "head" /\ Told(q, hist) /\ UNCHANGED hist
  BY DEF HeadBlock, IInv, ReqOK, AllTold
<1>2. PICK ok \in BOOLEAN : Go(r, F(ok)) \/ Go(r, Unindexed(q))
  BY DEF HeadBlock
<1> DEFINE f == F(ok)
<1>3. f.pc = "query" /\ f.at = q.at /\ f.committed = q.committed /\ f.known = q.known /\ f.claimAt = q.claimAt
      /\ f.kind = q.kind
  BY <1>1 DEF Req
<1> HIDE DEF f, q
<1>4. q.at = 0 /\ q.committed = 0 /\ ~ q.known /\ q.claimAt = 0
  BY <1>1 DEF Told, Stage
<1>5. Stage(f)
  BY <1>3, <1>4 DEF Stage
<1>6. Told(f, hist)
  BY <1>3, <1>4, <1>5, ToldNothing
<1> QED
  BY <1>1, <1>2, <1>6, ToldUnindexed, ToldGo DEF f, q

\* The live strategies promise all that is promised.
LEMMA LiveSum ==
    ASSUME NEW b \in Books
    PROVE  /\ IsFiniteSet(Strategies) /\ Weighed(b, Strategies)
           /\ Committed(b, Live(b)) = Committed(b, Strategies) /\ Committed(b, {}) = 0
<1>1. \A s \in Strategies : Virtual(b, s) \in Nat /\ (s \notin Live(b) => Virtual(b, s) = 0)
  BY LedgerAssumption DEF Books, Virtual, Live
<1>2. IsFiniteSet(Strategies) /\ Weighed(b, Strategies) /\ Live(b) \in SUBSET Strategies
  BY <1>1, LedgerAssumption DEF Weighed, Live
<1>3. Committed(b, Live(b)) = Committed(b, Strategies)
  BY <1>1, <1>2, SumGrows
<1>4. Committed(b, {}) = 0
  BY FS_EmptySet, SumStep
<1> QED
  BY <1>2, <1>3, <1>4

LEMMA FoundIs ==
    ASSUME NEW q, NEW src, NEW at, NEW c
    PROVE  LET f == Found(q, src, at, c) IN
           /\ f.kind = q.kind /\ f.src = src /\ f.at = at /\ f.committed = c /\ ~ f.known /\ f.claimAt = 0 /\ f.hashes = {}
           /\ f.check = "none" /\ f.walletAt = 0 /\ f.pc = "idle"
           /\ DOMAIN f = DOMAIN IdleReq /\ f = [x \in DOMAIN IdleReq |-> f[x]]
<1> DEFINE k == q.kind
<1> HIDE DEF k
<1> DEFINE f == [IdleReq EXCEPT !.kind = k, !.src = src, !.at = at, !.committed = c]
<1>1. DOMAIN f = DOMAIN IdleReq /\ f = [x \in DOMAIN IdleReq |-> f[x]]
  OBVIOUS
<1>2. f.kind = k /\ f.src = src /\ f.at = at /\ f.committed = c
  BY DEF IdleReq
<1>3. ~ f.known /\ f.claimAt = 0 /\ f.hashes = {} /\ f.check = "none" /\ f.walletAt = 0 /\ f.pc = "idle"
  BY DEF IdleReq
<1>4. Found(q, src, at, c) = f
  BY DEF Found, k
<1> HIDE DEF f
<1> QED
  BY <1>1, <1>2, <1>3, <1>4 DEF k

\* A promise that has just been counted, and a request that goes on with it.
LEMMA ToldCounted ==
    ASSUME NEW f, NEW h, Len(h) \in Nat, f.at \in 1 .. Len(h), ~ f.known, f.claimAt = 0,
           \/ f.kind = "coverage" /\ f.pc \in {"done", "balances"}
           \/ f.kind = "exposure" /\ f.pc \in {"done", "sides"} /\ f.src = "graph",
           f.committed = Committed(h[f.at], f.hashes),
           f.src = "graph" => f.committed = Committed(h[f.at], Strategies)
    PROVE  Told(f, h)
<1>1. f.at # 0
  OBVIOUS
<1>2. Stage(f)
  BY <1>1 DEF Stage
<1> QED
  BY <1>1, <1>2 DEF Told, Counted, Stood, Claimed

\* A maker of a list, which counts nothing.
LEMMA ToldMaker ==
    ASSUME NEW f, NEW h, f.kind = "makers", f.pc \in {"done", "measure"}, ~ f.known,
           f.at = 0 => f.committed = 0, f.claimAt # 0 => f.claimAt \in 1 .. Len(h)
    PROVE  Told(f, h)
<1>1. Stage(f)
  BY DEF Stage
<1>2. Counted(f, h)
  BY DEF Counted
<1>3. Stood(f, h)
  BY DEF Stood
<1>4. Claimed(f, h)
  BY DEF Claimed
<1> QED
  BY <1>1, <1>2, <1>3, <1>4 DEF Told

LEMMA ToldGraph == ASSUME IInv, AllTold, NEW r \in Requests, FromGraph(r) PROVE AllTold'
<1> DEFINE q == req[r]
           b == hist[ib]
           set == {s \in Live(b) : AppOf[s] = Router}
           g == Found(q, "graph", ib, 0)
           row == Found(q, "graph", ib, Committed(b, Strategies))
           answers == CASE q.kind = "makers"   -> strategiesFromGraph(q)
                        [] q.kind = "coverage" -> positionsFromGraph(q)
                        [] q.kind = "exposure" -> makerBook(q)
<1>1. q \in Req /\ q.pc = "query" /\ UNCHANGED hist /\ ib \in 1 .. Len(hist) /\ Len(hist) \in Nat /\ b \in Books
      /\ q.kind \in {"coverage", "exposure", "makers"}
  BY Facts, HistTyped DEF FromGraph, Fit, Req, Now, IInv, IndexOK
<1>2. \E ok \in BOOLEAN : \E answer \in IF ok THEN answers ELSE {Unindexed(q)} : Go(r, answer)
  BY DEF FromGraph
<1>3. Told(Unindexed(q), hist)
  BY <1>1, ToldUnindexed
<1>4. Committed(b, Live(b)) = Committed(b, Strategies) /\ Committed(b, {}) = 0
  BY <1>1, LiveSum
<1> HIDE DEF b
<1>5. ASSUME NEW f \in strategiesFromGraph(q), q.kind = "makers" PROVE Told(f, hist)
  <2>1. g.kind = q.kind /\ ~ g.known /\ g.claimAt = 0 /\ g.at = ib /\ DOMAIN g = DOMAIN IdleReq
        /\ g = [x \in DOMAIN IdleReq |-> g[x]]
    BY FoundIs
  <2>2. f = [g EXCEPT !.pc = "measure", !.hashes = set]
    BY <1>5 DEF strategiesFromGraph, b
  <2> HIDE DEF g, set
  <2>3. f.pc = "measure" /\ f.kind = "makers" /\ ~ f.known /\ f.claimAt = 0 /\ f.at = ib
    BY <1>5, <2>1, <2>2 DEF IdleReq
  <2> QED
    BY <1>1, <2>3, ToldMaker
<1>6. /\ row.kind = q.kind /\ row.src = "graph" /\ row.at = ib /\ row.committed = Committed(b, Strategies)
      /\ ~ row.known /\ row.claimAt = 0 /\ row.hashes = {}
      /\ DOMAIN row = DOMAIN IdleReq /\ row = [x \in DOMAIN IdleReq |-> row[x]]
  BY FoundIs
<1>7. ASSUME NEW f \in positionsFromGraph(q), q.kind = "coverage" PROVE Told(f, hist)
  <2>1. \/ row.committed = 0 /\ f = [row EXCEPT !.pc = "done"]
        \/ \E first \in Live(b) : f = [row EXCEPT !.pc = "balances", !.hashes = Live(b), !.app = AppOf[first]]
    <3>1. CASE row.committed = 0
      BY <1>7, <3>1 DEF positionsFromGraph, b
    <3>2. CASE row.committed # 0
      BY <1>7, <3>2 DEF positionsFromGraph, b
    <3> QED
      BY <3>1, <3>2
  <2> HIDE DEF row
  <2>2. CASE row.committed = 0 /\ f = [row EXCEPT !.pc = "done"]
    <3>1. f.pc = "done" /\ f.kind = "coverage" /\ f.src = "graph" /\ f.at = ib /\ f.committed = Committed(b, Strategies)
          /\ ~ f.known /\ f.claimAt = 0 /\ f.committed = Committed(b, f.hashes)
      BY <1>4, <1>6, <1>7, <2>2 DEF IdleReq
    <3> QED
      BY <1>1, <3>1, ToldCounted DEF b
  <2>3. ASSUME NEW first \in Live(b), f = [row EXCEPT !.pc = "balances", !.hashes = Live(b), !.app = AppOf[first]]
        PROVE  Told(f, hist)
    <3> DEFINE app == AppOf[first]
    <3> HIDE DEF app
    <3>1. f = [row EXCEPT !.pc = "balances", !.hashes = Live(b), !.app = app]
      BY <2>3 DEF app
    <3>2. f.pc = "balances" /\ f.kind = "coverage" /\ f.src = "graph" /\ f.at = ib /\ f.committed = Committed(b, Strategies)
          /\ ~ f.known /\ f.claimAt = 0 /\ f.committed = Committed(b, f.hashes)
      BY <1>4, <1>6, <1>7, <3>1 DEF IdleReq
    <3> QED
      BY <1>1, <3>2, ToldCounted DEF b
  <2> QED
    BY <2>1, <2>2, <2>3
<1>8. ASSUME NEW f \in makerBook(q), q.kind = "exposure" PROVE Told(f, hist)
  <2> DEFINE pc == IF Live(b) # {} THEN "sides" ELSE "done"
  <2>1. pc \in {"sides", "done"} /\ f = [row EXCEPT !.pc = pc, !.hashes = Live(b)]
    BY <1>8 DEF makerBook, b
  <2> HIDE DEF row, pc
  <2>2. f.pc = pc /\ f.kind = "exposure" /\ f.src = "graph" /\ f.at = ib /\ f.committed = Committed(b, Strategies)
        /\ ~ f.known /\ f.claimAt = 0 /\ f.committed = Committed(b, f.hashes)
    BY <1>4, <1>6, <1>8, <2>1 DEF IdleReq
  <2> QED
    BY <1>1, <2>1, <2>2, ToldCounted DEF b
<1>9. \A f \in answers : Told(f, hist)
  BY <1>1, <1>5, <1>7, <1>8
<1>10. PICK f : Told(f, hist) /\ Go(r, f)
  <2> HIDE DEF answers
  <2> QED
    BY <1>2, <1>3, <1>9
<1> QED
  BY <1>1, <1>10, ToldGo

LEMMA ToldArrive == ASSUME IInv, AllTold, NEW r \in Requests, NEW k \in {a[r] : a \in Asks}, Arrive(r, k) PROVE AllTold'
<1> DEFINE q == [IdleReq EXCEPT !.kind = k, !.began = Now]
           hit == [q EXCEPT !.pc = "done", !.src = "cache", !.hashes = makers.list, !.claimAt = makers.read]
           p == IF k = "coverage" THEN "db" ELSE "done"
           On(c) == [q EXCEPT !.pc = c]
<1>1. k \in {"coverage", "exposure", "makers"} /\ UNCHANGED hist /\ makers.read \in 0 .. Len(hist)
  BY ViewsAssumption DEF Requests, Arrive, IInv, IndexOK, Kept, Now
<1>2. \/ k = "makers" /\ Go(r, hit)
      \/ \E c \in {"db", "meta", p} : Go(r, On(c)) /\ (c = "db" => k # "exposure")
  BY <1>1 DEF Arrive
<1>3. q.kind = k /\ q.at = 0 /\ q.committed = 0 /\ ~ q.known /\ q.claimAt = 0
      /\ DOMAIN q = DOMAIN IdleReq /\ q = [x \in DOMAIN IdleReq |-> q[x]]
  BY DEF IdleReq
<1> HIDE DEF q
<1>4. k = "makers" => Told(hit, hist)
  <2> DEFINE list == makers.list
             read == makers.read
             f == [q EXCEPT !.pc = "done", !.src = "cache", !.hashes = list, !.claimAt = read]
  <2> HIDE DEF list, read
  <2>1. f.kind = k /\ f.pc = "done" /\ ~ f.known /\ f.at = 0 /\ f.committed = 0 /\ f.claimAt = read
    BY <1>3 DEF IdleReq
  <2>2. f = hit
    BY DEF list, read
  <2>3. read # 0 => read \in 1 .. Len(hist)
    BY <1>1 DEF read
  <2> HIDE DEF f, hit
  <2>4. k = "makers" => Told(f, hist)
    BY <2>1, <2>3, ToldMaker
  <2> QED
    BY <2>2, <2>4
<1>5. ASSUME NEW c \in {"db", "meta", p}, c = "db" => k # "exposure" PROVE Told(On(c), hist)
  <2> DEFINE f == On(c)
  <2>1. f.kind = k /\ f.pc = c /\ f.at = 0 /\ f.committed = 0 /\ ~ f.known /\ f.claimAt = 0
    BY <1>3 DEF IdleReq
  <2> HIDE DEF f
  <2>2. Stage(f)
    BY <1>1, <1>5, <2>1 DEF Stage
  <2>3. Told(f, hist)
    BY <2>1, <2>2, ToldNothing
  <2> QED
    BY <2>3 DEF f
<1> HIDE DEF hit, On, p
<1> QED
  BY <1>1, <1>2, <1>4, <1>5, ToldGo

LEMMA ToldTable == ASSUME IInv, AllTold, NEW r \in Requests, FromTable(r) PROVE AllTold'
<1> DEFINE q == req[r]
           b == hist[db]
           rows == {s \in Live(b) : AppOf[s] = Router}
           g == Found(q, "table", db, Committed(b, rows))
           found == [g EXCEPT !.hashes = rows, !.app = Router]
           On(c) == [q EXCEPT !.pc = c]
           p == IF rows = {} THEN "done" ELSE "balances"
<1>1. q \in Req /\ q.pc = "db" /\ Told(q, hist) /\ UNCHANGED hist /\ db \in 0 .. Len(hist) /\ Len(hist) \in Nat
  BY HistTyped DEF FromTable, IInv, ReqOK, IndexOK, AllTold, Now
<1>2. \/ \E c \in {"meta", "ask"} : Go(r, On(c)) /\ (c = "meta" \/ q.kind \in {"makers", "coverage"})
      \/ db # 0 /\ q.kind = "makers" /\ Go(r, [found EXCEPT !.pc = "done", !.claimAt = db])
      \/ db # 0 /\ q.kind = "coverage" /\ Go(r, [found EXCEPT !.pc = p])
  BY DEF FromTable, positionsFromIndex
<1>3. q.at = 0 /\ q.committed = 0 /\ ~ q.known /\ q.claimAt = 0
  BY <1>1 DEF Told, Stage
<1>4. /\ g.kind = q.kind /\ g.src = "table" /\ g.at = db /\ g.committed = Committed(b, rows)
      /\ ~ g.known /\ g.claimAt = 0 /\ DOMAIN g = DOMAIN IdleReq /\ g = [x \in DOMAIN IdleReq |-> g[x]]
  BY FoundIs
<1> HIDE DEF g, rows, b
<1>5. /\ found.kind = q.kind /\ found.src = "table" /\ found.at = db /\ found.committed = Committed(b, rows)
      /\ ~ found.known /\ found.claimAt = 0 /\ found.hashes = rows
      /\ DOMAIN found = DOMAIN IdleReq /\ found = [x \in DOMAIN IdleReq |-> found[x]]
  BY <1>4 DEF IdleReq
<1> HIDE DEF found
<1>6. ASSUME NEW c \in {"meta", "ask"}, Go(r, On(c)), c = "meta" \/ q.kind \in {"makers", "coverage"} PROVE AllTold'
  <2> DEFINE f == On(c)
  <2>1. f.kind = q.kind /\ f.pc = c /\ f.at = 0 /\ f.committed = 0 /\ ~ f.known /\ f.claimAt = 0 /\ Go(r, f)
    BY <1>1, <1>3, <1>6 DEF Req
  <2> HIDE DEF f, q
  <2>2. Stage(f)
    BY <1>6, <2>1 DEF Stage
  <2>3. Told(f, hist)
    BY <2>1, <2>2, ToldNothing
  <2> QED
    BY <1>1, <2>1, <2>3, ToldGo
<1>7. CASE db # 0 /\ q.kind = "makers" /\ Go(r, [found EXCEPT !.pc = "done", !.claimAt = db])
  <2> DEFINE f == [found EXCEPT !.pc = "done", !.claimAt = db]
  <2>1. f.kind = "makers" /\ f.pc = "done" /\ f.at = db /\ ~ f.known /\ f.claimAt = db /\ Go(r, f)
    BY <1>5, <1>7 DEF IdleReq
  <2> HIDE DEF f, q
  <2>2. Told(f, hist)
    BY <1>1, <1>7, <2>1, ToldMaker
  <2> QED
    BY <1>1, <2>1, <2>2, ToldGo
<1>8. CASE db # 0 /\ q.kind = "coverage" /\ Go(r, [found EXCEPT !.pc = p])
  <2> DEFINE f == [found EXCEPT !.pc = p]
  <2>0. p \in {"done", "balances"}
    OBVIOUS
  <2> HIDE DEF p
  <2>1. /\ f.kind = "coverage" /\ f.pc = p /\ f.at = db /\ ~ f.known /\ f.claimAt = 0 /\ Go(r, f) /\ f.src # "graph"
        /\ f.committed = Committed(b, f.hashes)
    BY <1>5, <1>8 DEF IdleReq
  <2> HIDE DEF f, q
  <2>2. Told(f, hist)
    BY <1>1, <1>8, <2>0, <2>1, ToldCounted DEF b
  <2> QED
    BY <1>1, <2>1, <2>2, ToldGo
<1> QED
  BY <1>2, <1>6, <1>7, <1>8

LEMMA ToldAsk == ASSUME IInv, AllTold, NEW r \in Requests, AskScan(r) PROVE AllTold'
<1> DEFINE q == req[r]
           f == [q EXCEPT !.pc = "scan"]
<1>1. q \in Req /\ q.pc = "ask" /\ Told(q, hist) /\ UNCHANGED hist /\ Go(r, f)
  BY DEF AskScan, IInv, ReqOK, AllTold
<1>2. f.pc = "scan" /\ f.at = q.at /\ f.committed = q.committed /\ f.known = q.known /\ f.claimAt = q.claimAt
      /\ f.kind = q.kind
  BY <1>1 DEF Req
<1> HIDE DEF f, q
<1>3. q.at = 0 /\ q.committed = 0 /\ ~ q.known /\ q.claimAt = 0 /\ q.kind \in {"makers", "coverage"}
  BY <1>1 DEF Told, Stage
<1>4. Stage(f)
  BY <1>2, <1>3 DEF Stage
<1>5. Told(f, hist)
  BY <1>2, <1>3, <1>4, ToldNothing
<1> QED
  BY <1>1, <1>5, ToldGo

LEMMA ToldTake == ASSUME IInv, AllTold, NEW r \in Requests, TakeScan(r) PROVE AllTold'
<1> DEFINE q == req[r]
           s == scan[waiting[r]]
           k == q.kind
           list == s.list
           p == IF k = "makers" THEN "measure" ELSE "positions"
           f == [IdleReq EXCEPT !.kind = k, !.pc = "done"]
           g == [IdleReq EXCEPT !.kind = k, !.src = "scan", !.hashes = list, !.pc = p]
<1>1. q \in Req /\ q.pc = "scan" /\ Told(q, hist) /\ UNCHANGED hist
  BY DEF TakeScan, IInv, ReqOK, AllTold
<1>2. Go(r, f) \/ Go(r, g)
  BY DEF TakeScan
<1>3. k \in {"makers", "coverage"}
  BY <1>1 DEF Told, Stage
<1> HIDE DEF k, list
<1>4. f.pc = "done" /\ f.at = 0 /\ f.committed = 0 /\ ~ f.known /\ f.claimAt = 0 /\ f.kind = k
  BY DEF IdleReq
<1>5. g.src = "scan" /\ g.pc = p /\ g.at = 0 /\ g.committed = 0 /\ ~ g.known /\ g.claimAt = 0 /\ g.kind = k
  BY DEF IdleReq
<1> HIDE DEF f, g
<1>6. Stage(f) /\ Stage(g)
  BY <1>3, <1>4, <1>5 DEF Stage
<1>7. Told(f, hist) /\ Told(g, hist)
  BY <1>4, <1>5, <1>6, ToldNothing
<1> QED
  BY <1>1, <1>2, <1>7, ToldGo

LEMMA ToldPositions == ASSUME IInv, AllTold, NEW r \in Requests, Positions(r) PROVE AllTold'
<1> DEFINE q == req[r]
           b == hist[Now]
           kept(lost) == {s \in q.hashes \ lost : Virtual(b, s) > 0}
           P(k) == IF k = {} THEN "done" ELSE "balances"
           F(k) == [q EXCEPT !.pc = P(k), !.at = Now, !.app = Router, !.hashes = k, !.committed = Committed(b, k)]
<1>1. q \in Req /\ q.pc = "positions" /\ Told(q, hist) /\ UNCHANGED hist /\ Now \in 1 .. Len(hist) /\ Len(hist) \in Nat
  BY HistTyped DEF Positions, IInv, ReqOK, AllTold
<1>2. \E lost : Go(r, F(kept(lost)))
  BY DEF Positions
<1>3. PICK k : Go(r, F(k))
  BY <1>2
<1> DEFINE p == P(k)
           f == [q EXCEPT !.pc = p, !.at = Now, !.app = Router, !.hashes = k, !.committed = Committed(b, k)]
<1>4. Go(r, f) /\ p \in {"done", "balances"}
  BY <1>3
<1>5. q.kind = "coverage" /\ q.at = 0 /\ ~ q.known /\ q.claimAt = 0 /\ q.src # "graph"
  BY <1>1 DEF Told, Stage
<1> HIDE DEF p, b
<1>6. f.pc = p /\ f.kind = q.kind /\ f.at = Now /\ f.known = q.known /\ f.claimAt = q.claimAt /\ f.src = q.src
      /\ f.hashes = k /\ f.committed = Committed(b, k)
  BY <1>1 DEF Req
<1> HIDE DEF f, q
<1>7. Told(f, hist)
  BY <1>1, <1>4, <1>5, <1>6, ToldCounted DEF b
<1> QED
  BY <1>1, <1>4, <1>7, ToldGo

\* The promise that was counted is kept.
SameCount(f, q) == f.kind = q.kind /\ f.src = q.src /\ f.at = q.at /\ f.hashes = q.hashes /\ f.committed = q.committed

LEMMA ToldBalances == ASSUME IInv, AllTold, NEW r \in Requests, Balances(r) PROVE AllTold'
<1> DEFINE q == req[r]
           b == hist[Now]
<1>1. q \in Req /\ q.pc = "balances" /\ Told(q, hist) /\ UNCHANGED hist /\ Now \in 1 .. Len(hist)
  BY HistTyped DEF Balances, IInv, ReqOK, AllTold
<1>2. PICK walletOk \in BOOLEAN, allowOk \in BOOLEAN :
          Go(r, [q EXCEPT !.pc = "block", !.walletAt = Now, !.allowAt = Now, !.known = Known(walletOk, allowOk),
                      !.backed = Lesser(IF walletOk THEN b.wallet ELSE 0, IF allowOk THEN b.allow ELSE 0)])
  BY DEF Balances
<1> DEFINE known == Known(walletOk, allowOk)
           backed == Lesser(IF walletOk THEN b.wallet ELSE 0, IF allowOk THEN b.allow ELSE 0)
           f == [q EXCEPT !.pc = "block", !.walletAt = Now, !.allowAt = Now, !.known = known, !.backed = backed]
<1>3. Go(r, f)
  BY <1>2
<1>4. known => backed = Lesser(b.wallet, b.allow)
  BY DEF Known
<1>5. q.kind = "coverage" /\ q.claimAt = 0 /\ q.at # 0 /\ Counted(q, hist)
  BY <1>1 DEF Told, Stage
<1> HIDE DEF known, backed
<1>6. f.pc = "block" /\ SameCount(f, q) /\ f.known = known /\ f.backed = backed /\ f.walletAt = Now /\ f.allowAt = Now
      /\ f.claimAt = q.claimAt
  BY <1>1 DEF Req, SameCount
<1> HIDE DEF f, q
<1>7. Stage(f)
  BY <1>5, <1>6 DEF Stage, SameCount
<1>8. Counted(f, hist)
  BY <1>5, <1>6 DEF Counted, SameCount
<1>9. Stood(f, hist)
  BY <1>1, <1>4, <1>5, <1>6 DEF Stood, SameCount
<1>10. Claimed(f, hist)
  BY <1>5, <1>6 DEF Claimed
<1> QED
  BY <1>1, <1>3, <1>7, <1>8, <1>9, <1>10, ToldGo DEF Told

LEMMA ToldBlock == ASSUME IInv, AllTold, NEW r \in Requests, ChainBlock(r) PROVE AllTold'
<1> DEFINE q == req[r]
           p == IF q.known THEN "lens" ELSE "done"
           skew == Distance(Now, istate.head)
           f == [q EXCEPT !.pc = p, !.skew = skew]
<1>1. q \in Req /\ q.pc = "block" /\ Told(q, hist) /\ UNCHANGED hist
  BY DEF ChainBlock, IInv, ReqOK, AllTold
<1>2. Go(r, f)
  BY DEF ChainBlock
<1>3. q.kind = "coverage" /\ q.claimAt = 0 /\ Counted(q, hist) /\ Stood(q, hist)
  BY <1>1 DEF Told, Stage
<1>4. p \in {"lens", "done"} /\ (p = "lens" => q.known)
  OBVIOUS
<1> HIDE DEF skew, p
<1>5. f.pc = p /\ SameCount(f, q) /\ f.known = q.known /\ f.backed = q.backed /\ f.walletAt = q.walletAt
      /\ f.allowAt = q.allowAt /\ f.claimAt = q.claimAt
  BY <1>1 DEF Req, SameCount
<1> HIDE DEF f, q
<1>6. Stage(f)
  BY <1>3, <1>4, <1>5 DEF Stage, SameCount
<1>7. Counted(f, hist)
  BY <1>3, <1>5 DEF Counted, SameCount
<1>8. Stood(f, hist)
  BY <1>3, <1>5 DEF Stood, SameCount
<1>9. Claimed(f, hist)
  BY <1>3, <1>5 DEF Claimed
<1> QED
  BY <1>1, <1>2, <1>6, <1>7, <1>8, <1>9, ToldGo DEF Told

LEMMA ToldLens == ASSUME IInv, AllTold, NEW r \in Requests, Lens(r) PROVE AllTold'
<1> DEFINE q == req[r]
           Same == LensBps(hist[Now], q.app, q.hashes) = Capped(CoverageBps(q))
           Check(ok) == IF ~ ok THEN "disagrees"
                        ELSE IF Same THEN "agrees"
                        ELSE IF q.skew > 0 THEN "inconclusive" ELSE "disagrees"
           At(ok) == IF ok THEN Now ELSE 0
<1>1. q \in Req /\ q.pc = "lens" /\ Told(q, hist) /\ UNCHANGED hist /\ Now \in 1 .. Len(hist)
  BY HistTyped DEF Lens, IInv, ReqOK, AllTold
<1>2. PICK ok \in BOOLEAN : Go(r, [q EXCEPT !.pc = "done", !.claimAt = At(ok), !.skew = 0, !.check = Check(ok)])
  BY DEF Lens
<1> DEFINE at == At(ok)
           check == Check(ok)
           f == [q EXCEPT !.pc = "done", !.claimAt = at, !.skew = 0, !.check = check]
<1>3. Go(r, f)
  BY <1>2
<1>4. at # 0 => at = Now /\ (Same => check = "agrees")
  OBVIOUS
<1>5. q.kind = "coverage" /\ q.known /\ Counted(q, hist) /\ Stood(q, hist)
  BY <1>1 DEF Told, Stage
<1> HIDE DEF at, check
<1>6. f.pc = "done" /\ SameCount(f, q) /\ f.known = q.known /\ f.backed = q.backed /\ f.walletAt = q.walletAt
      /\ f.allowAt = q.allowAt /\ f.claimAt = at /\ f.check = check /\ f.app = q.app
  BY <1>1 DEF Req, SameCount
<1> HIDE DEF f, q, Same
<1>7. Stage(f)
  BY <1>5, <1>6 DEF Stage, SameCount
<1>8. Counted(f, hist)
  BY <1>5, <1>6 DEF Counted, SameCount
<1>9. Stood(f, hist)
  BY <1>5, <1>6 DEF Stood, SameCount
<1>10. Claimed(f, hist)
  <2>1. f.claimAt # 0 /\ LensBps(hist[f.claimAt], f.app, f.hashes) = Capped(CoverageBps(f)) => f.check = "agrees"
    BY <1>4, <1>6 DEF SameCount, CoverageBps, Same
  <2> QED
    BY <1>1, <1>4, <1>5, <1>6, <2>1 DEF Claimed, SameCount
<1> QED
  BY <1>1, <1>3, <1>7, <1>8, <1>9, <1>10, ToldGo DEF Told

LEMMA ToldSides == ASSUME IInv, AllTold, NEW r \in Requests, Sides(r) PROVE AllTold'
<1> DEFINE q == req[r]
           Answered(lost) == {s \in q.hashes \ lost : AppRead(s) = AppOf[s]}
<1>1. q \in Req /\ q.pc = "sides" /\ Told(q, hist) /\ UNCHANGED hist /\ Now \in 1 .. Len(hist)
  BY HistTyped DEF Sides, IInv, ReqOK, AllTold
<1>2. PICK lost \in {{}} \cup {{s} : s \in q.hashes} :
          Go(r, [q EXCEPT !.pc = IF q.committed > 0 THEN "tokens" ELSE "done",
                          !.claims = Committed(hist[Now], Answered(lost)), !.claimAt = IF lost = {} THEN Now ELSE 0])
  BY DEF Sides
<1> DEFINE p == IF q.committed > 0 THEN "tokens" ELSE "done"
           c == Committed(hist[Now], Answered(lost))
           at == IF lost = {} THEN Now ELSE 0
           f == [q EXCEPT !.pc = p, !.claims = c, !.claimAt = at]
<1>3. Go(r, f) /\ p \in {"tokens", "done"}
  BY <1>2
<1>4. at # 0 => at = Now /\ c = Committed(hist[Now], q.hashes)
  <2>1. Answered({}) = q.hashes
    BY DEF AppRead
  <2> QED
    BY <2>1
<1>5. q.kind = "exposure" /\ q.src = "graph" /\ ~ q.known /\ q.at # 0 /\ Counted(q, hist)
  BY <1>1 DEF Told, Stage
<1> HIDE DEF p, c, at
<1>6. f.pc = p /\ SameCount(f, q) /\ f.known = q.known /\ f.claimAt = at /\ f.claims = c
  BY <1>1 DEF Req, SameCount
<1> HIDE DEF f, q
<1>7. Stage(f)
  BY <1>3, <1>5, <1>6 DEF Stage, SameCount
<1>8. Counted(f, hist)
  BY <1>5, <1>6 DEF Counted, SameCount
<1>9. Stood(f, hist)
  BY <1>5, <1>6 DEF Stood
<1>10. Claimed(f, hist)
  BY <1>1, <1>4, <1>5, <1>6 DEF Claimed, SameCount
<1> QED
  BY <1>1, <1>3, <1>7, <1>8, <1>9, <1>10, ToldGo DEF Told

LEMMA ToldTokens == ASSUME IInv, AllTold, NEW r \in Requests, Tokens(r) PROVE AllTold'
<1> DEFINE q == req[r]
<1>1. q \in Req /\ q.pc = "tokens" /\ Told(q, hist) /\ UNCHANGED hist
  BY DEF Tokens, IInv, ReqOK, AllTold
<1>2. PICK k : Go(r, [q EXCEPT !.pc = "held", !.walletAt = k])
  BY DEF Tokens
<1> DEFINE f == [q EXCEPT !.pc = "held", !.walletAt = k]
<1>3. Go(r, f)
  BY <1>2
<1>4. q.kind = "exposure" /\ q.src = "graph" /\ ~ q.known /\ q.at # 0 /\ Counted(q, hist) /\ Claimed(q, hist)
  BY <1>1 DEF Told, Stage
<1>5. f.pc = "held" /\ SameCount(f, q) /\ f.known = q.known /\ f.claimAt = q.claimAt /\ f.claims = q.claims
  BY <1>1 DEF Req, SameCount
<1> HIDE DEF f, q
<1>6. Stage(f)
  BY <1>4, <1>5 DEF Stage, SameCount
<1>7. Counted(f, hist)
  BY <1>4, <1>5 DEF Counted, SameCount
<1>8. Stood(f, hist)
  BY <1>4, <1>5 DEF Stood
<1>9. Claimed(f, hist)
  BY <1>4, <1>5 DEF Claimed, SameCount
<1> QED
  BY <1>1, <1>3, <1>6, <1>7, <1>8, <1>9, ToldGo DEF Told

LEMMA ToldHeld == ASSUME IInv, AllTold, NEW r \in Requests, Held(r) PROVE AllTold'
<1> DEFINE q == req[r]
           at == IF q.walletAt = 0 THEN Now ELSE q.walletAt
<1>1. q \in Req /\ q.pc = "held" /\ Told(q, hist) /\ UNCHANGED hist /\ Fit(q, ib, Now) /\ Now \in 1 .. Len(hist)
      /\ Now = Len(hist) /\ Now \in Nat
  BY HistTyped DEF Held, IInv, ReqOK, AllTold
<1>2. at \in 1 .. Len(hist)
  BY <1>1 DEF Req, Fit
<1>3. PICK walletOk \in BOOLEAN, allowOk \in BOOLEAN :
          Go(r, [q EXCEPT !.pc = "done", !.known = walletOk /\ allowOk, !.walletAt = at, !.allowAt = Now,
                      !.backed = Lesser(IF walletOk THEN hist[at].wallet ELSE 0, IF allowOk THEN hist[Now].allow ELSE 0)])
  BY DEF Held
<1> DEFINE known == walletOk /\ allowOk
           backed == Lesser(IF walletOk THEN hist[at].wallet ELSE 0, IF allowOk THEN hist[Now].allow ELSE 0)
           f == [q EXCEPT !.pc = "done", !.known = known, !.walletAt = at, !.allowAt = Now, !.backed = backed]
<1>4. Go(r, f)
  BY <1>3
<1>5. known => backed = Lesser(hist[at].wallet, hist[Now].allow)
  OBVIOUS
<1>6. q.kind = "exposure" /\ q.src = "graph" /\ q.at # 0 /\ Counted(q, hist) /\ Claimed(q, hist)
  BY <1>1 DEF Told, Stage
<1> HIDE DEF known, backed, at
<1>7. f.pc = "done" /\ SameCount(f, q) /\ f.known = known /\ f.backed = backed /\ f.walletAt = at /\ f.allowAt = Now
      /\ f.claimAt = q.claimAt /\ f.claims = q.claims
  BY <1>1 DEF Req, SameCount
<1> HIDE DEF f, q
<1>8. Stage(f)
  BY <1>6, <1>7 DEF Stage, SameCount
<1>9. Counted(f, hist)
  BY <1>6, <1>7 DEF Counted, SameCount
<1>10. Stood(f, hist)
  BY <1>1, <1>2, <1>5, <1>6, <1>7 DEF Stood, SameCount
<1>11. Claimed(f, hist)
  BY <1>6, <1>7 DEF Claimed, SameCount
<1> QED
  BY <1>1, <1>4, <1>8, <1>9, <1>10, <1>11, ToldGo DEF Told

LEMMA ToldMeasure == ASSUME IInv, AllTold, NEW r \in Requests, Measure(r) PROVE AllTold'
<1> DEFINE q == req[r]
           f == [q EXCEPT !.pc = "done", !.claimAt = Now]
<1>1. q \in Req /\ q.pc = "measure" /\ Told(q, hist) /\ UNCHANGED hist /\ Now \in 1 .. Len(hist)
  BY HistTyped DEF Measure, IInv, ReqOK, AllTold
<1>2. Go(r, f)
  BY DEF Measure
<1>3. q.kind = "makers" /\ ~ q.known /\ Counted(q, hist)
  BY <1>1 DEF Told, Stage
<1>4. f.pc = "done" /\ f.kind = q.kind /\ f.known = q.known /\ f.at = q.at /\ f.committed = q.committed /\ f.claimAt = Now
  BY <1>1 DEF Req
<1> HIDE DEF f, q
<1>5. f.at = 0 => f.committed = 0
  BY <1>3, <1>4 DEF Counted
<1>6. Told(f, hist)
  BY <1>1, <1>3, <1>4, <1>5, ToldMaker
<1> QED
  BY <1>1, <1>2, <1>6, ToldGo

LEMMA ToldNext == IInv /\ AllTold /\ [Next]_vars => AllTold'
<1> SUFFICES ASSUME IInv, AllTold, [Next]_vars PROVE AllTold'
  OBVIOUS
<1>1. ASSUME NEW r \in Requests, Handle(r) PROVE AllTold'
  BY <1>1, ToldMeta, ToldHead, ToldGraph, ToldTable, ToldAsk, ToldTake, ToldPositions, ToldBalances, ToldBlock, ToldLens,
     ToldSides, ToldTokens, ToldHeld, ToldMeasure DEF Handle
<1>2. ASSUME NEW i \in Scans, Scanning(i) PROVE AllTold'
  BY <1>2, ToldStays DEF Scanning, ScanStep, viewVars
<1>3. CASE IndexSees \/ Refresh
  BY <1>3, ToldStays DEF IndexSees, Refresh
<1>4. CASE Tick /\ UNCHANGED viewVars
  BY <1>4, ToldTick DEF viewVars
<1>5. CASE UNCHANGED vars
  BY <1>5, ToldStays DEF vars, viewVars
<1> QED
  BY <1>1, <1>2, <1>3, <1>4, <1>5, ToldArrive DEF Next

LEMMA AnswersAre == Spec => [](IInv /\ AllTold)
<1>1. Spec => []AllTold
  BY ToldInit, ToldNext, Invariant, PTL DEF Spec
<1> QED
  BY <1>1, Invariant, PTL

\* What stands behind a promise is less than the whole of it exactly if it is less.
LEMMA Whole ==
    ASSUME NEW b \in Nat, NEW c \in Nat, c > 0
    PROVE  (b * Bps) \div c \in Nat /\ ((b * Bps) \div c < Bps <=> b < c)
<1> DEFINE d == (b * 10000) \div c
           m == (b * 10000) % c
<1>1. d \in Int /\ m \in 0 .. (c - 1) /\ b * 10000 = c * d + m
  OBVIOUS
<1> HIDE DEF d, m
<1>2. ASSUME d < 0 PROVE FALSE
  <2>1. c * d <= - c
    <3>1. c * d <= c * (-1)
      BY <1>1, <1>2
    <3> QED
      BY <3>1
  <2> QED
    BY <1>1, <2>1
<1>3. ASSUME b < c, d >= 10000 PROVE FALSE
  <2>1. c * d >= c * 10000
    BY <1>1, <1>3
  <2> QED
    BY <1>1, <1>3, <2>1
<1>4. ASSUME b >= c, d < 10000 PROVE FALSE
  <2>1. c * d <= c * 9999
    BY <1>1, <1>4
  <2> QED
    BY <1>1, <1>4, <2>1
<1>5. d \in Nat /\ (d < 10000 <=> b < c)
  BY <1>1, <1>2, <1>3, <1>4
<1> QED
  BY <1>5 DEF d, Bps

\* A request's own fields, of the blocks they were read at.
LEMMA Backed ==
    ASSUME IInv, AllTold, NEW r \in Requests, req[r].known
    PROVE  LET q == req[r] IN
           /\ q.at \in 1 .. Len(hist) /\ q.walletAt \in 1 .. Len(hist) /\ q.allowAt \in 1 .. Len(hist)
           /\ q.backed \in Nat /\ q.committed \in Nat /\ q.kind # "makers"
           /\ q.committed = Committed(hist[q.at], q.hashes) /\ q.hashes \in SUBSET Strategies
           /\ q.committed <= Committed(hist[q.at], Strategies) /\ Committed(hist[q.at], Strategies) \in Nat
<1> DEFINE q == req[r]
<1>1. q \in Req /\ Told(q, hist) /\ q.known
  BY DEF IInv, ReqOK, AllTold
<1>2. q.kind # "makers" /\ q.at # 0 /\ q.walletAt \in 1 .. Len(hist) /\ q.allowAt \in 1 .. Len(hist)
  BY <1>1 DEF Told, Stage, Stood
<1>3. q.at \in 1 .. Len(hist) /\ q.committed = Committed(hist[q.at], q.hashes)
  BY <1>1, <1>2 DEF Told, Counted
<1>4. q.backed \in Nat /\ q.hashes \in SUBSET Strategies
  BY <1>1 DEF Req
<1>5. hist[q.at] \in Books
  BY <1>3, HistTyped DEF IInv
<1> HIDE DEF q
<1> DEFINE b == hist[q.at]
<1>6. b \in Books
  BY <1>5
<1> HIDE DEF b
<1>7. IsFiniteSet(Strategies) /\ Weighed(b, Strategies)
  BY <1>6, LiveSum
<1>8. Committed(b, q.hashes) <= Committed(b, Strategies)
  BY <1>4, <1>7, SumGrows
<1>9. IsFiniteSet(q.hashes) /\ Weighed(b, q.hashes)
  BY <1>4, <1>7, FS_Subset DEF Weighed
<1>10. Committed(b, q.hashes) \in Nat /\ Committed(b, Strategies) \in Nat
  BY <1>7, <1>9, SumNat
<1> QED
  BY <1>2, <1>3, <1>4, <1>8, <1>10 DEF b, q

(***************************************************************************)
(* A maker reported short was short of what it had promised at the block   *)
(* that was read, by what stood behind it at the block of its balances,    *)
(* and depth reported is of a live strategy, whichever reads failed and    *)
(* whatever source answered (coverage/route.ts, makers/route.ts).          *)
(***************************************************************************)
THEOREM VerdictsAreReal == Spec => []ClaimsAreReal
<1>1. ASSUME IInv, AllTold PROVE ShortIsReal
  <2>1. SUFFICES ASSUME NEW r \in Requests, Short(req[r]), req[r].committed > 0
                 PROVE  Committed(hist[req[r].at], Strategies) > Backing(hist[req[r].walletAt])
    BY DEF ShortIsReal
  <2> DEFINE q == req[r]
  <2>2. q.kind = "coverage" /\ q.known /\ CoverageBps(q) < Bps
    BY <2>1 DEF Short
  <2>3. /\ q.at \in 1 .. Len(hist) /\ q.walletAt \in 1 .. Len(hist) /\ q.backed \in Nat /\ q.committed \in Nat
        /\ q.committed <= Committed(hist[q.at], Strategies) /\ Committed(hist[q.at], Strategies) \in Nat
    BY <1>1, <2>2, Backed
  <2>4. q.backed = Backing(hist[q.walletAt])
    <3>1. Stood(q, hist)
      BY <1>1 DEF AllTold, Told
    <3> QED
      BY <2>2, <3>1 DEF Stood, Backing
  <2>5. q.backed < q.committed
    <3> HIDE DEF q
    <3>1. CoverageBps(q) = (q.backed * Bps) \div q.committed
      BY <2>1 DEF CoverageBps, q
    <3> QED
      BY <2>1, <2>2, <2>3, <3>1, Whole DEF q
  <2> QED
    BY <2>3, <2>4, <2>5
<1>2. ASSUME IInv, AllTold PROVE SolventIsLive
  <2>1. SUFFICES ASSUME NEW r \in Requests, req[r].claimAt # 0, NEW s \in req[r].hashes, Depth(s, req[r].claimAt) > 0
                 PROVE  s \in Live(hist[req[r].claimAt])
    BY DEF SolventIsLive
  <2> DEFINE q == req[r]
             b == hist[q.claimAt]
  <2>2. q.claimAt \in 1 .. Len(hist) /\ s \in Strategies
    <3>1. q \in Req /\ Told(q, hist)
      BY <1>2 DEF AllTold, IInv, ReqOK
    <3> QED
      BY <2>1, <3>1 DEF Told, Claimed, Req
  <2>3. b \in Books
    BY <1>2, <2>2, HistTyped DEF IInv
  <2>4. Lesser(Virtual(b, s), Backing(b)) > 0
    BY <2>1 DEF Depth
  <2> HIDE DEF b
  <2>5. Backing(b) \in Nat
    BY <2>3, LedgerAssumption DEF Books, Backing, Lesser
  <2>6. b.st[s] = "live"
    BY <2>4, <2>5 DEF Virtual, Lesser
  <2> QED
    BY <2>2, <2>6 DEF Live, b
<1>3. IInv /\ AllTold => ClaimsAreReal
  BY <1>1, <1>2 DEF ClaimsAreReal
<1> QED
  BY <1>3, AnswersAre, PTL

(***************************************************************************)
(* The route's ratio and the contract's agree wherever they are of one     *)
(* block and one app, and so do coverage and exposure wherever they read   *)
(* the same blocks: each adds up other sets of strategies                  *)
(* (coverage/route.ts, exposure/route.ts, Lens.sol).                       *)
(***************************************************************************)
THEOREM AnswersOfOneBlock == Spec => []AnswersAgree
<1>1. ASSUME IInv, AllTold PROVE SameBlockAgrees
  <2>1. SUFFICES ASSUME NEW r \in Requests,
                        LET q == req[r] IN
                        /\ q.pc = "done" /\ q.kind = "coverage" /\ q.claimAt # 0 /\ OneApp(q) /\ q.committed > 0
                        /\ \A k \in {q.at, q.walletAt} : hist[k] = hist[q.claimAt]
                 PROVE  req[r].check = "agrees"
    BY DEF SameBlockAgrees
  <2> DEFINE q == req[r]
             b == hist[q.claimAt]
  <2>2. Told(q, hist) /\ q.kind = "coverage" /\ q.claimAt # 0 /\ OneApp(q) /\ q.committed > 0
        /\ hist[q.at] = b /\ hist[q.walletAt] = b
    BY <1>1, <2>1 DEF AllTold
  <2>3. q.known /\ (LensBps(b, q.app, q.hashes) = Capped(CoverageBps(q)) => q.check = "agrees")
    BY <2>2 DEF Told, Claimed
  <2>4. q.backed \in Nat /\ q.committed \in Nat /\ q.committed = Committed(b, q.hashes)
    BY <1>1, <2>2, <2>3, Backed
  <2>5. q.backed = Backing(b)
    BY <2>2, <2>3 DEF Told, Stood, Backing
  <2>6. {s \in q.hashes : AppOf[s] = q.app} = q.hashes
    BY <2>2 DEF OneApp
  <2> HIDE DEF q, b
  <2>7. LensBps(b, q.app, q.hashes) = Lesser(Bps, (q.backed * Bps) \div q.committed)
    BY <2>2, <2>4, <2>5, <2>6 DEF LensBps
  <2>8. CoverageBps(q) = (q.backed * Bps) \div q.committed
    BY <2>2 DEF CoverageBps
  <2>9. (q.backed * Bps) \div q.committed \in Nat
    BY <2>2, <2>4, Whole
  <2> DEFINE d == (q.backed * Bps) \div q.committed
  <2> HIDE DEF d
  <2>10. Lesser(Bps, d) = Capped(d)
    BY <2>9 DEF d, Capped, Lesser, Bps
  <2> QED
    BY <2>3, <2>7, <2>8, <2>10 DEF d, q
<1>2. ASSUME IInv, AllTold PROVE ViewsAgree
  <2> SUFFICES ASSUME NEW r \in Requests, NEW o \in Requests
      PROVE LET e == req[r] c == req[o] IN
        /\ e.pc = "done" /\ e.kind = "exposure" /\ e.src = "graph" =>
              (e.claimAt # 0 /\ hist[e.claimAt] = hist[e.at] => e.claims = e.committed)
        /\ /\ e.pc = "done" /\ e.kind = "exposure" /\ e.known /\ e.allowAt # 0
           /\ c.pc = "done" /\ c.kind = "coverage" /\ c.known /\ c.src = "graph" /\ c.at = e.at
           /\ c.committed > 0 /\ c.walletAt = e.walletAt /\ c.allowAt = e.allowAt
           => Covered(e) = ~ Short(c)
    BY DEF ViewsAgree
  <2> DEFINE e == req[r]
             c == req[o]
  <2>1. Told(e, hist) /\ Told(c, hist)
    BY <1>2 DEF AllTold
  <2>2. ASSUME e.kind = "exposure", e.claimAt # 0, hist[e.claimAt] = hist[e.at] PROVE e.claims = e.committed
    <3>1. e.at # 0 /\ e.claims = Committed(hist[e.claimAt], e.hashes)
      BY <2>1, <2>2 DEF Told, Claimed
    <3>2. e.committed = Committed(hist[e.at], e.hashes)
      BY <2>1, <2>2, <3>1 DEF Told, Counted
    <3> QED
      BY <2>2, <3>1, <3>2
  <2>3. ASSUME e.kind = "exposure", e.known, c.kind = "coverage", c.known, c.src = "graph", c.at = e.at, c.committed > 0,
               c.walletAt = e.walletAt, c.allowAt = e.allowAt
        PROVE  Covered(e) = ~ Short(c)
    <3>1. e.backed \in Nat /\ e.committed \in Nat /\ e.at \in 1 .. Len(hist)
      BY <1>2, <2>3, Backed
    <3>2. c.backed \in Nat /\ c.committed \in Nat /\ c.at \in 1 .. Len(hist)
      BY <1>2, <2>3, Backed
    <3>3. e.src = "graph" /\ e.at # 0
      BY <2>1, <2>3 DEF Told, Stood
    <3>4. e.committed = c.committed
      BY <2>1, <2>3, <3>3 DEF Told, Counted
    <3>5. e.backed = c.backed
      BY <2>1, <2>3 DEF Told, Stood
    <3> HIDE DEF e, c
    <3>6. Short(c) <=> (c.backed * Bps) \div c.committed < Bps
      BY <2>3 DEF Short, CoverageBps
    <3>7. Short(c) <=> c.backed < c.committed
      BY <2>3, <3>2, <3>6, Whole
    <3>8. Covered(e) <=> ~ Short(c)
      BY <3>1, <3>2, <3>4, <3>5, <3>7 DEF Covered
    <3>9. Covered(e) \in BOOLEAN /\ Short(c) \in BOOLEAN
      BY DEF Covered, Short
    <3> QED
      BY <3>8, <3>9
  <2> QED
    BY <2>2, <2>3
<1>3. IInv /\ AllTold => AnswersAgree
  BY <1>1, <1>2 DEF AnswersAgree
<1> QED
  BY <1>3, AnswersAre, PTL
=============================================================================
