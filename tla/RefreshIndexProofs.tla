------------------------- MODULE RefreshIndexProofs -------------------------
(***************************************************************************)
(* The tables are well formed whatever jobs run and fail beside each       *)
(* other, and a job that ran alone to its end leaves exactly what it       *)
(* fetched, for any number of strategies, pages and jobs.                  *)
(***************************************************************************)
EXTENDS RefreshIndex, FiniteSetTheorems, SequenceTheorems, TLAPS

Depth == Depths \cup {None}
Row == [known : BOOLEAN, docked : BOOLEAN, depth : Depth]
Item == [s : Strategies, depth : Depths]
Label == {"idle", "fetch", "upsert", "select", "dock", "depth", "stamp"}

ChainOK ==
    /\ status \in [Strategies -> {"new", "open", "closed"}] /\ depth \in [Strategies -> Depth]
    /\ \A s \in Strategies : status[s] = "open" => depth[s] \in Depths

TableOK ==
    /\ table \in [Strategies -> Row] /\ refreshed \in BOOLEAN
    /\ \A s \in Strategies : ~ table[s].known => table[s] = Absent

JobsOK ==
    /\ pc \in [Jobs -> Label] /\ chunk \in [Jobs -> Nat \ {0}] /\ cursor \in [Jobs -> 0 .. Len(Listing)]
    /\ items \in [Jobs -> Seq(Item)] /\ missing \in [Jobs -> SUBSET Strategies] /\ alone \in [Jobs -> BOOLEAN]
    /\ last \in [items : Seq(Item), alone : BOOLEAN]

Distinct(list) == \A a, b \in DOMAIN list : list[a].s = list[b].s => a = b

\* Everything fetched stands at or before the cursor, and once.
Before(c) == {Listing[i] : i \in 1 .. c}
FetchedOK(j) == Fetched(items[j]) \subseteq Before(cursor[j]) /\ Distinct(items[j])

\* What the statements of the present phase have written, and what all have.
Behind(j) == {a \in DOMAIN items[j] : a <= (chunk[j] - 1) * PageSize}
Written(j) == IF pc[j] = "upsert" THEN Behind(j)
              ELSE IF pc[j] \in {"select", "dock", "depth", "stamp"} THEN DOMAIN items[j] ELSE {}
Priced(j) == IF pc[j] = "depth" THEN Behind(j) ELSE IF pc[j] = "stamp" THEN DOMAIN items[j] ELSE {}

KnownOK(j) ==
    /\ \A a \in Written(j) : table[items[j][a].s].known
    /\ pc[j] = "dock" => \A s \in missing[j] : table[s].known /\ s \notin Fetched(items[j])

\* A job with the tables to itself.
Lone(j) == Running(j) /\ alone[j]

LoneOK(j) ==
    /\ \A k \in Jobs : k # j => ~ Running(k)
    /\ \A a \in Written(j) : ~ table[items[j][a].s].docked
    /\ pc[j] = "dock" => PreviouslyLive \subseteq Fetched(items[j]) \cup missing[j]
    /\ pc[j] \in {"depth", "stamp"} => PreviouslyLive \subseteq Fetched(items[j])
    /\ \A a \in Priced(j) : table[items[j][a].s].depth = items[j][a].depth

LastOK ==
    (\A j \in Jobs : ~ Running(j)) /\ last.alone =>
        /\ refreshed /\ PreviouslyLive = Fetched(last.items)
        /\ \A a \in DOMAIN last.items : table[last.items[a].s].depth = last.items[a].depth

IInv ==
    /\ ChainOK /\ TableOK /\ JobsOK
    /\ \A j \in Jobs : FetchedOK(j) /\ KnownOK(j) /\ (Lone(j) => LoneOK(j))
    /\ LastOK

-----------------------------------------------------------------------------
(* Slices.                                                                  *)

LEMMA Sizes ==
    ASSUME NEW k \in Nat \ {0}
    PROVE  /\ (k - 1) * PageSize \in Nat /\ k * PageSize \in Nat /\ k * PageSize = (k - 1) * PageSize + PageSize
           /\ PageSize \in Nat /\ PageSize > 0 /\ (k + 1) - 1 = k
BY RefreshIndexAssumption

LEMMA SliceOf ==
    ASSUME NEW S, NEW list \in Seq(S), NEW lo \in Nat, NEW hi \in Nat
    PROVE  /\ Slice(list, lo + 1, hi) \in Seq(S)
           /\ \A r : r \in ToSet(Slice(list, lo + 1, hi)) <=> \E a \in DOMAIN list : lo < a /\ a <= hi /\ r = list[a]
<1> DEFINE m == lo + 1
           n == IF hi < Len(list) THEN hi ELSE Len(list)
           part == SubSeq(list, m, n)
<1>1. Len(list) \in Nat /\ DOMAIN list = 1 .. Len(list) /\ \A a \in 1 .. Len(list) : list[a] \in S
  OBVIOUS
<1>2. m \in Nat /\ n \in Nat /\ n <= Len(list) /\ n <= hi /\ m = lo + 1
  BY <1>1
<1>3. n = hi \/ n = Len(list)
  OBVIOUS
<1>4. Slice(list, lo + 1, hi) = part
  BY DEF Slice
<1> HIDE DEF m, n
<1>5. \A i \in m .. n : list[i] \in S
  BY <1>1, <1>2
<1>6. m \in Int /\ n \in Int
  BY <1>2
<1>7. part \in Seq(S) /\ Len(part) = (IF m <= n THEN n - m + 1 ELSE 0) /\ \A i \in 1 .. n - m + 1 : part[i] = list[m + i - 1]
  BY <1>5, <1>6, SubSeqProperties
<1> HIDE DEF part
<1>8. DOMAIN part = 1 .. Len(part) /\ Len(part) \in Nat
  BY <1>7
<1>13. (m <= n => Len(part) = n - m + 1) /\ (~ (m <= n) => Len(part) = 0)
  BY <1>7
<1>14. DOMAIN part = 1 .. n - m + 1
  BY <1>2, <1>8, <1>13
<1>9. ASSUME NEW i \in DOMAIN part
      PROVE  part[i] = list[lo + i] /\ lo + i \in DOMAIN list /\ lo < lo + i /\ lo + i <= hi
  <2>1. i \in 1 .. n - m + 1
    BY <1>9, <1>14
  <2>2. m + i - 1 = lo + i /\ lo + i \in 1 .. Len(list) /\ lo < lo + i /\ lo + i <= hi
    BY <1>1, <1>2, <2>1
  <2> QED
    BY <1>1, <1>7, <2>1, <2>2
<1>10. ASSUME NEW a \in DOMAIN list, lo < a, a <= hi
       PROVE  a - lo \in DOMAIN part /\ part[a - lo] = list[a]
  <2>1. a \in Nat /\ a <= Len(list)
    BY <1>1, <1>10
  <2>2. m <= a /\ a <= n
    BY <1>2, <1>3, <1>10, <2>1
  <2>3. a - lo \in 1 .. n - m + 1 /\ m + (a - lo) - 1 = a
    BY <1>2, <2>1, <2>2
  <2> QED
    BY <1>7, <1>14, <2>3
<1>11. \A r \in ToSet(part) : \E a \in DOMAIN list : lo < a /\ a <= hi /\ r = list[a]
  BY <1>9 DEF ToSet
<1>12. \A a \in DOMAIN list : lo < a /\ a <= hi => list[a] \in ToSet(part)
  BY <1>10 DEF ToSet
<1> QED
  BY <1>4, <1>7, <1>11, <1>12

\* The rows of statement k are those of its places.
LEMMA BatchOf ==
    ASSUME NEW list \in Seq(Item), NEW k \in Nat \ {0}
    PROVE  /\ Batch(list, k) \in Seq(Item)
           /\ \A r : r \in ToSet(Batch(list, k)) <=>
                 \E a \in DOMAIN list : (k - 1) * PageSize < a /\ a <= k * PageSize /\ r = list[a]
<1>1. (k - 1) * PageSize \in Nat /\ k * PageSize \in Nat
  BY Sizes
<1> DEFINE lo == (k - 1) * PageSize
           hi == k * PageSize
<1>2. Batch(list, k) = Slice(list, lo + 1, hi)
  BY DEF Batch
<1> HIDE DEF lo, hi
<1>3. lo \in Nat /\ hi \in Nat
  BY <1>1 DEF lo, hi
<1>4. /\ Slice(list, lo + 1, hi) \in Seq(Item)
      /\ \A r : r \in ToSet(Slice(list, lo + 1, hi)) <=> \E a \in DOMAIN list : lo < a /\ a <= hi /\ r = list[a]
  BY <1>3, SliceOf, ZenonT(60)
<1> QED
  BY <1>2, <1>4 DEF lo, hi

LEMMA FetchedOf ==
    ASSUME NEW list PROVE Fetched(list) = {r.s : r \in ToSet(list)}
BY DEF Fetched, ToSet

LEMMA RowsOf ==
    ASSUME NEW list \in Seq(Item), NEW k \in Nat \ {0}
    PROVE  \A s : s \in Fetched(Batch(list, k)) <=>
              \E a \in DOMAIN list : (k - 1) * PageSize < a /\ a <= k * PageSize /\ s = list[a].s
<1> DEFINE part == Batch(list, k)
           In(a) == (k - 1) * PageSize < a /\ a <= k * PageSize
<1>1. \A r : r \in ToSet(part) <=> \E a \in DOMAIN list : In(a) /\ r = list[a]
  BY BatchOf
<1>2. Fetched(part) = {r.s : r \in ToSet(part)}
  BY FetchedOf
<1> HIDE DEF part, In
<1>3. \A s : s \in Fetched(part) <=> \E a \in DOMAIN list : In(a) /\ s = list[a].s
  BY <1>1, <1>2
<1> QED
  BY <1>3 DEF part, In

LEMMA ItemOf ==
    ASSUME NEW list \in Seq(Item), NEW a \in DOMAIN list
    PROVE  a \in Nat \ {0} /\ a <= Len(list) /\ list[a] \in Item /\ list[a].s \in Strategies /\ list[a].depth \in Depths
<1>1. DOMAIN list = 1 .. Len(list) /\ Len(list) \in Nat /\ \A i \in 1 .. Len(list) : list[i] \in Item
  OBVIOUS
<1> QED
  BY <1>1 DEF Item

\* A place behind the next statement is behind this one or one of its rows.
LEMMA NextBehind ==
    ASSUME NEW list \in Seq(Item), NEW k \in Nat \ {0}, NEW a \in DOMAIN list
    PROVE  /\ a <= ((k + 1) - 1) * PageSize =>
                a <= (k - 1) * PageSize \/ ((k - 1) * PageSize < a /\ a <= k * PageSize)
           /\ ~ MoreAfter(list, k) => a <= k * PageSize
           /\ ~ (a <= (1 - 1) * PageSize)
<1>1. a \in Nat \ {0} /\ a <= Len(list) /\ Len(list) \in Nat
  BY ItemOf
<1>2. (k - 1) * PageSize \in Nat /\ k * PageSize \in Nat /\ (k + 1) - 1 = k /\ PageSize \in Nat
  BY Sizes
<1>3. (1 - 1) * PageSize = 0
  BY <1>2
<1> QED
  BY <1>1, <1>2, <1>3 DEF MoreAfter

-----------------------------------------------------------------------------
(* What a job's step leaves alone.                                          *)

LEMMA GotoOf ==
    ASSUME JobsOK, NEW j \in Jobs, NEW label \in Label, Goto(j, label)
    PROVE  /\ pc' \in [Jobs -> Label] /\ chunk' \in [Jobs -> Nat \ {0}]
           /\ pc'[j] = label /\ chunk'[j] = 1
           /\ \A k \in Jobs : k # j => pc'[k] = pc[k] /\ chunk'[k] = chunk[k]
BY DEF JobsOK, Goto

LEMMA AdvanceOf ==
    ASSUME JobsOK, NEW j \in Jobs, NEW label \in Label, NEW more, Advance(j, chunk[j], more, label)
    PROVE  /\ pc' \in [Jobs -> Label] /\ chunk' \in [Jobs -> Nat \ {0}]
           /\ more => pc'[j] = pc[j] /\ chunk'[j] = chunk[j] + 1
           /\ ~ more => pc'[j] = label /\ chunk'[j] = 1
           /\ \A k \in Jobs : k # j => pc'[k] = pc[k] /\ chunk'[k] = chunk[k]
<1>1. CASE more
  <2>1. chunk' = [chunk EXCEPT ![j] = chunk[j] + 1] /\ pc' = pc
    BY <1>1 DEF Advance
  <2>2. pc \in [Jobs -> Label] /\ chunk \in [Jobs -> Nat \ {0}]
    BY DEF JobsOK
  <2> QED
    BY <1>1, <2>1, <2>2
<1>2. CASE ~ more
  <2>1. Goto(j, label)
    BY <1>2 DEF Advance
  <2> QED
    BY <1>2, <2>1, GotoOf
<1> QED
  BY <1>1, <1>2

LEMMA AdvanceMore ==
    ASSUME JobsOK, NEW j \in Jobs, NEW label \in Label, NEW list, Advance(j, chunk[j], MoreAfter(list, chunk[j]), label)
    PROVE  /\ pc' \in [Jobs -> Label] /\ chunk' \in [Jobs -> Nat \ {0}]
           /\ MoreAfter(list, chunk[j]) => pc'[j] = pc[j] /\ chunk'[j] = chunk[j] + 1
           /\ ~ MoreAfter(list, chunk[j]) => pc'[j] = label /\ chunk'[j] = 1
           /\ \A k \in Jobs : k # j => pc'[k] = pc[k] /\ chunk'[k] = chunk[k]
<1>1. CASE MoreAfter(list, chunk[j])
  <2>1. chunk' = [chunk EXCEPT ![j] = chunk[j] + 1] /\ pc' = pc
    BY <1>1 DEF Advance
  <2>2. pc \in [Jobs -> Label] /\ chunk \in [Jobs -> Nat \ {0}]
    BY DEF JobsOK
  <2> QED
    BY <1>1, <2>1, <2>2
<1>2. CASE ~ MoreAfter(list, chunk[j])
  <2>1. Goto(j, label)
    BY <1>2 DEF Advance
  <2> QED
    BY <1>2, <2>1, GotoOf
<1> QED
  BY <1>1, <1>2

\* The other jobs keep what they rely on, and none of them is alone.
LEMMA Others ==
    ASSUME IInv, NEW j \in Jobs, Running(j),
           \A k \in Jobs : k # j => /\ pc'[k] = pc[k] /\ chunk'[k] = chunk[k] /\ cursor'[k] = cursor[k]
                                    /\ items'[k] = items[k] /\ missing'[k] = missing[k] /\ alone'[k] = alone[k],
           \A s \in Strategies : table[s].known => table'[s].known
    PROVE  \A k \in Jobs : k # j => FetchedOK(k)' /\ KnownOK(k)' /\ (Lone(k) => LoneOK(k))'
<1> SUFFICES ASSUME NEW k \in Jobs, k # j
             PROVE  FetchedOK(k)' /\ KnownOK(k)' /\ (Lone(k) => LoneOK(k))'
  OBVIOUS
<1>1. FetchedOK(k) /\ KnownOK(k) /\ (Lone(k) => LoneOK(k))
  BY DEF IInv
<1>2. items[k] \in Seq(Item) /\ missing[k] \subseteq Strategies
  BY DEF IInv, JobsOK
<1>3. FetchedOK(k)'
  BY <1>1 DEF FetchedOK
<1>4. Written(k)' = Written(k) /\ Written(k) \subseteq DOMAIN items[k]
  BY DEF Written, Behind
<1>5. \A a \in Written(k) : items[k][a].s \in Strategies
  BY <1>2, <1>4, ItemOf
<1>6. KnownOK(k)'
  <2>1. ASSUME NEW a \in Written(k)' PROVE table'[items'[k][a].s].known
    BY <1>1, <1>4, <1>5, <2>1 DEF KnownOK
  <2>2. ASSUME pc'[k] = "dock", NEW s \in missing'[k] PROVE table'[s].known /\ s \notin Fetched(items'[k])
    BY <1>1, <1>2, <2>2 DEF KnownOK
  <2> QED
    BY <2>1, <2>2 DEF KnownOK
<1>7. ~ Lone(k)'
  <2>1. Lone(k)' => Lone(k)
    BY DEF Lone, Running
  <2>2. Lone(k) => ~ Running(j)
    BY <1>1 DEF LoneOK
  <2> QED
    BY <2>1, <2>2
<1> QED
  BY <1>3, <1>6, <1>7

\* No job is at rest, so nothing is said of the last one.
LEMMA StillRunning == ASSUME NEW j \in Jobs, Running(j)' PROVE LastOK'
BY DEF LastOK

\* The parts together.
LEMMA Together ==
    ASSUME NEW j \in Jobs, ChainOK', TableOK', JobsOK', LastOK',
           \A k \in Jobs : k # j => FetchedOK(k)' /\ KnownOK(k)' /\ (Lone(k) => LoneOK(k))',
           FetchedOK(j)', KnownOK(j)', (Lone(j) => LoneOK(j))'
    PROVE  IInv'
BY DEF IInv

-----------------------------------------------------------------------------
(* The chain.                                                               *)

LEMMA QuietTables ==
    ASSUME IInv, ChainOK', UNCHANGED <<database, jobs>>
    PROVE  IInv'
<1> USE DEF database, jobs
<1>1. TableOK' /\ JobsOK'
  BY DEF IInv, TableOK, JobsOK
<1>2. LastOK'
  BY DEF IInv, LastOK, Running, PreviouslyLive
<1>3. ASSUME NEW j \in Jobs PROVE FetchedOK(j)' /\ KnownOK(j)' /\ (Lone(j) => LoneOK(j))'
  <2>1. FetchedOK(j) /\ KnownOK(j) /\ (Lone(j) => LoneOK(j))
    BY DEF IInv
  <2> QED
    BY <2>1 DEF FetchedOK, KnownOK, Written, Priced, Behind, Lone, LoneOK, Running, PreviouslyLive
<1> QED
  BY <1>1, <1>2, <1>3 DEF IInv

LEMMA ChainSteps ==
    ASSUME IInv, NEW s \in Strategies, Close(s) \/ \E d \in Depths : Open(s, d) \/ Move(s, d)
    PROVE  IInv'
<1>1. ChainOK
  BY DEF IInv
<1>2. ChainOK'
  <2>1. CASE Close(s)
    BY <1>1, <2>1 DEF Close, ChainOK, Depth
  <2>2. ASSUME NEW d \in Depths, Open(s, d) PROVE ChainOK'
    BY <1>1, <2>2 DEF Open, ChainOK, Depth
  <2>3. ASSUME NEW d \in Depths, Move(s, d) PROVE ChainOK'
    BY <1>1, <2>3 DEF Move, ChainOK, Depth
  <2> QED
    BY <2>1, <2>2, <2>3
<1>3. UNCHANGED <<database, jobs>>
  BY DEF Close, Open, Move
<1> QED
  BY <1>2, <1>3, QuietTables

-----------------------------------------------------------------------------
(* Pages.                                                                   *)

LEMMA ListingOf ==
    /\ Len(Listing) \in Nat /\ DOMAIN Listing = 1 .. Len(Listing)
    /\ \A i \in 1 .. Len(Listing) : Listing[i] \in Strategies
    /\ \A i, k \in 1 .. Len(Listing) : Listing[i] = Listing[k] => i = k
<1>1. Listing \in Seq(Strategies) /\ IsInjective(Listing)
  BY RefreshIndexAssumption
<1>2. Len(Listing) \in Nat /\ DOMAIN Listing = 1 .. Len(Listing) /\ \A i \in 1 .. Len(Listing) : Listing[i] \in Strategies
  BY <1>1
<1> QED
  BY <1>1, <1>2 DEF IsInjective

LEMMA PageLenOf == ASSUME NEW c PROVE PageLen(c) \in Nat
<1>1. IsFiniteSet(1 .. Len(Listing))
  BY ListingOf, FS_Interval
<1>2. OpenAfter(c) \in SUBSET (1 .. Len(Listing))
  BY ListingOf DEF OpenAfter
<1>3. IsFiniteSet(OpenAfter(c))
  BY <1>1, <1>2, FS_Subset
<1>4. Cardinality(OpenAfter(c)) \in Nat
  BY <1>3, FS_CardinalityType
<1> QED
  BY <1>4, RefreshIndexAssumption DEF PageLen

\* A page is a rising sequence of open places beyond the cursor.
LEMMA PageOf ==
    ASSUME NEW c \in 0 .. Len(Listing), NEW page \in Pages(c)
    PROVE  /\ DOMAIN page = 1 .. PageLen(c)
           /\ \A a \in DOMAIN page : /\ page[a] \in 1 .. Len(Listing) /\ c < page[a]
                                     /\ status[Listing[page[a]]] = "open"
           /\ \A a, b \in DOMAIN page : a < b => page[a] < page[b]
           /\ NextCursor(page, c) \in 0 .. Len(Listing) /\ c <= NextCursor(page, c)
           /\ \A a \in DOMAIN page : page[a] <= NextCursor(page, c)
<1> DEFINE n == PageLen(c)
<1>1. n \in Nat
  BY PageLenOf
<1>2. page \in [1 .. n -> OpenAfter(c)] /\ \A a, b \in DOMAIN page : a < b => page[a] < page[b]
  BY DEF Pages
<1> HIDE DEF n
<1>3. DOMAIN page = 1 .. n
  BY <1>2
<1>4. \A a \in 1 .. n : page[a] \in 1 .. Len(Listing) /\ c < page[a] /\ status[Listing[page[a]]] = "open"
  BY <1>2, ListingOf DEF OpenAfter
<1>5. c \in Nat /\ c <= Len(Listing) /\ Len(Listing) \in Nat
  BY ListingOf
<1>6. CASE n = 0
  <2>1. DOMAIN page = {}
    BY <1>3, <1>6
  <2>2. page = <<>>
    BY <1>2, <1>6
  <2> QED
    BY <1>2, <1>3, <1>5, <2>1, <2>2 DEF NextCursor, n
<1>7. CASE n # 0
  <2>1. 1 \in DOMAIN page
    BY <1>1, <1>3, <1>7
  <2>2. page # <<>>
    BY <2>1
  <2>3. page \in Seq(OpenAfter(c))
    BY <1>1, <1>2, SeqDef
  <2>4. Len(page) = n
    BY <1>1, <1>3, <2>3
  <2>5. NextCursor(page, c) = page[n]
    BY <2>2, <2>4 DEF NextCursor, Last
  <2>6. n \in 1 .. n
    BY <1>1, <1>7
  <2>7. \A a \in 1 .. n : page[a] <= page[n]
    <3> SUFFICES ASSUME NEW a \in 1 .. n PROVE page[a] <= page[n]
      OBVIOUS
    <3>1. page[a] \in Nat /\ page[n] \in Nat
      BY <1>4, <1>5, <2>6
    <3>2. a < n \/ a = n
      BY <1>1
    <3> QED
      BY <1>2, <1>3, <2>6, <3>1, <3>2
  <2> QED
    BY <1>2, <1>3, <1>4, <1>5, <2>5, <2>6, <2>7 DEF n
<1> QED
  BY <1>6, <1>7

LEMMA ReadOf ==
    ASSUME ChainOK, NEW c \in 0 .. Len(Listing), NEW page \in Pages(c)
    PROVE  Read(page) \in Seq(Item) /\ DOMAIN Read(page) = DOMAIN page
           /\ \A a \in DOMAIN page : Read(page)[a].s = Listing[page[a]]
<1> DEFINE n == PageLen(c)
<1>1. n \in Nat
  BY PageLenOf
<1>2. DOMAIN page = 1 .. n
  BY PageOf
<1> HIDE DEF n
<1>3. ASSUME NEW a \in 1 .. n
      PROVE  [s |-> Listing[page[a]], depth |-> depth[Listing[page[a]]]] \in Item
  <2>1. page[a] \in 1 .. Len(Listing) /\ status[Listing[page[a]]] = "open"
    BY <1>2, PageOf
  <2>2. Listing[page[a]] \in Strategies
    BY <2>1, ListingOf
  <2>3. depth[Listing[page[a]]] \in Depths
    BY <2>1, <2>2 DEF ChainOK
  <2> QED
    BY <2>2, <2>3 DEF Item
<1>4. Read(page) \in [1 .. n -> Item]
  BY <1>2, <1>3 DEF Read
<1>5. Read(page) \in Seq(Item)
  BY <1>1, <1>4, SeqDef
<1> QED
  BY <1>2, <1>4, <1>5 DEF Read

\* What is fetched stays distinct and at or before the cursor.
LEMMA FetchedGrows ==
    ASSUME ChainOK, NEW list \in Seq(Item), NEW c \in 0 .. Len(Listing), NEW page \in Pages(c),
           Fetched(list) \subseteq Before(c), Distinct(list)
    PROVE  /\ list \o Read(page) \in Seq(Item)
           /\ Fetched(list \o Read(page)) \subseteq Before(NextCursor(page, c))
           /\ Distinct(list \o Read(page))
<1> DEFINE part == Read(page)
           whole == list \o part
           d == NextCursor(page, c)
           m == Len(list)
           n == Len(part)
<1>1. /\ part \in Seq(Item) /\ DOMAIN part = DOMAIN page
      /\ \A a \in DOMAIN page : part[a].s = Listing[page[a]]
  BY ReadOf
<1>2. /\ \A a \in DOMAIN page : page[a] \in 1 .. Len(Listing) /\ c < page[a] /\ page[a] <= d
      /\ \A a, b \in DOMAIN page : a < b => page[a] < page[b]
      /\ d \in 0 .. Len(Listing) /\ c <= d
  BY PageOf
<1>3. c \in Nat /\ c <= Len(Listing) /\ Len(Listing) \in Nat
  BY ListingOf
<1> HIDE DEF part, d
<1>4. m \in Nat /\ n \in Nat /\ DOMAIN list = 1 .. m /\ DOMAIN page = 1 .. n
  BY <1>1
<1>5. /\ whole \in Seq(Item) /\ Len(whole) = m + n
      /\ \A i \in 1 .. m + n : whole[i] = IF i <= m THEN list[i] ELSE part[i - m]
  BY <1>1, ConcatProperties
<1>6. DOMAIN whole = 1 .. m + n
  BY <1>4, <1>5
<1> HIDE DEF whole, m, n
<1> DEFINE Old(i) == \E p \in 1 .. c : whole[i].s = Listing[p]
           New(i) == i - m \in DOMAIN page /\ whole[i].s = Listing[page[i - m]]
<1>7. \A i \in 1 .. m : i \in DOMAIN whole /\ whole[i] = list[i] /\ Old(i)
  <2> SUFFICES ASSUME NEW i \in 1 .. m PROVE i \in DOMAIN whole /\ whole[i] = list[i] /\ Old(i)
    OBVIOUS
  <2>1. i \in 1 .. m + n /\ i <= m
    BY <1>4
  <2>2. whole[i] = list[i]
    BY <1>5, <2>1
  <2>3. list[i].s \in Before(c)
    BY <1>4 DEF Fetched
  <2> QED
    BY <1>6, <2>1, <2>2, <2>3 DEF Before
<1>8. \A i \in DOMAIN whole : i \notin 1 .. m => i \in Nat /\ New(i)
  <2> SUFFICES ASSUME NEW i \in DOMAIN whole, i \notin 1 .. m PROVE i \in Nat /\ New(i)
    OBVIOUS
  <2>1. i \in 1 .. m + n /\ ~ (i <= m) /\ i - m \in 1 .. n /\ i \in Nat
    BY <1>4, <1>6
  <2>2. whole[i] = part[i - m]
    BY <1>5, <2>1
  <2> QED
    BY <1>1, <1>4, <2>1, <2>2
<1>9. Fetched(whole) \subseteq Before(d)
  <2> SUFFICES ASSUME NEW i \in DOMAIN whole PROVE \E p \in 1 .. d : whole[i].s = Listing[p]
    BY DEF Fetched, Before
  <2>1. CASE i \in 1 .. m
    <3>1. PICK p \in 1 .. c : whole[i].s = Listing[p]
      BY <1>7, <2>1
    <3>2. p \in 1 .. d
      BY <1>2, <1>3
    <3> QED
      BY <3>1, <3>2
  <2>2. CASE i \notin 1 .. m
    <3>1. i - m \in DOMAIN page /\ whole[i].s = Listing[page[i - m]]
      BY <1>8, <2>2
    <3>2. page[i - m] \in 1 .. d
      BY <1>2, <1>3, <3>1
    <3> QED
      BY <3>1, <3>2
  <2> QED
    BY <2>1, <2>2
<1>10. Distinct(whole)
  <2>1. \A i, k \in DOMAIN whole : i \in 1 .. m /\ k \in 1 .. m /\ whole[i].s = whole[k].s => i = k
    BY <1>4, <1>7 DEF Distinct
  <2>2. ASSUME NEW i \in DOMAIN whole, NEW k \in DOMAIN whole, i \in 1 .. m, k \notin 1 .. m
        PROVE  whole[i].s # whole[k].s
    <3>1. PICK p \in 1 .. c : whole[i].s = Listing[p]
      BY <1>7, <2>2
    <3>2. k - m \in DOMAIN page /\ whole[k].s = Listing[page[k - m]]
      BY <1>8, <2>2
    <3>3. page[k - m] \in 1 .. Len(Listing) /\ c < page[k - m]
      BY <1>2, <3>2
    <3>4. p \in 1 .. Len(Listing) /\ p # page[k - m]
      BY <1>3, <3>3
    <3> QED
      BY <3>1, <3>2, <3>3, <3>4, ListingOf
  <2>3. ASSUME NEW i \in DOMAIN whole, NEW k \in DOMAIN whole, i \notin 1 .. m, k \notin 1 .. m,
               whole[i].s = whole[k].s
        PROVE  i = k
    <3>1. /\ i - m \in DOMAIN page /\ whole[i].s = Listing[page[i - m]] /\ i \in Nat
          /\ k - m \in DOMAIN page /\ whole[k].s = Listing[page[k - m]] /\ k \in Nat
      BY <1>8, <2>3
    <3>2. page[i - m] = page[k - m]
      BY <1>2, <2>3, <3>1, ListingOf
    <3>3. page[i - m] \in Nat
      BY <1>2, <1>3, <3>1
    <3>4. ~ (i - m < k - m) /\ ~ (k - m < i - m)
      BY <1>2, <3>1, <3>2, <3>3
    <3> QED
      BY <1>4, <3>1, <3>4
  <2> QED
    BY <2>1, <2>2, <2>3 DEF Distinct
<1> QED
  BY <1>5, <1>9, <1>10 DEF whole, part, d

-----------------------------------------------------------------------------
(* The job's statements.                                                    *)

LEMMA BeginKeeps ==
    ASSUME IInv, NEW j \in Jobs, Begin(j)
    PROVE  IInv'
<1> USE DEF chain, database
<1>1. ChainOK /\ TableOK /\ JobsOK /\ ~ Running(j)
  BY DEF IInv, Begin, Running
<1>2. Goto(j, "fetch") /\ "fetch" \in Label
  BY DEF Begin, Label
<1>3. /\ pc' \in [Jobs -> Label] /\ chunk' \in [Jobs -> Nat \ {0}] /\ pc'[j] = "fetch"
      /\ \A k \in Jobs : k # j => pc'[k] = pc[k] /\ chunk'[k] = chunk[k]
  BY <1>1, <1>2, GotoOf
<1>4. /\ alone' \in [Jobs -> BOOLEAN] /\ (alone'[j] => \A k \in Jobs : ~ Running(k))
      /\ \A k \in Jobs : k # j => alone'[k] = ~ Running(k)
  BY DEF Begin, Running
<1>5. UNCHANGED <<status, depth, events, table, refreshed, cursor, items, missing, last>>
  BY DEF Begin
<1>6. ChainOK' /\ TableOK' /\ JobsOK'
  BY <1>1, <1>3, <1>4, <1>5 DEF ChainOK, TableOK, JobsOK
<1>7. LastOK'
  BY <1>3, StillRunning DEF Running
<1>8. FetchedOK(j) /\ Written(j)' = {} /\ Priced(j)' = {}
  BY <1>3 DEF IInv, Written, Priced
<1>9. FetchedOK(j)' /\ KnownOK(j)'
  BY <1>3, <1>5, <1>8 DEF FetchedOK, KnownOK
<1>10. (Lone(j) => LoneOK(j))'
  BY <1>3, <1>4, <1>8 DEF Lone, LoneOK, Running
<1>11. ASSUME NEW k \in Jobs, k # j PROVE FetchedOK(k)' /\ KnownOK(k)' /\ (Lone(k) => LoneOK(k))'
  <2>1. FetchedOK(k) /\ KnownOK(k)
    BY DEF IInv
  <2>2. ~ Lone(k)'
    BY <1>3, <1>4, <1>11 DEF Lone, Running
  <2> QED
    BY <1>3, <1>5, <1>11, <2>1, <2>2 DEF FetchedOK, KnownOK, Written, Behind
<1> QED
  BY <1>6, <1>7, <1>9, <1>10, <1>11, Together

LEMMA FetchKeeps ==
    ASSUME IInv, NEW j \in Jobs, FetchPage(j)
    PROVE  IInv'
<1> USE DEF chain, database
<1> DEFINE c == cursor[j]
<1>1. ChainOK /\ TableOK /\ JobsOK /\ Running(j) /\ pc[j] = "fetch"
  BY DEF IInv, FetchPage, Running
<1>2. PICK page \in Pages(c) : /\ items' = [items EXCEPT ![j] = items[j] \o Read(page)]
                               /\ cursor' = [cursor EXCEPT ![j] = NextCursor(page, c)]
  BY DEF FetchPage
<1>3. PICK more : Advance(j, chunk[j], more, "upsert")
  BY DEF FetchPage
<1>4. UNCHANGED <<status, depth, events, table, refreshed, missing, alone, last>>
  BY DEF FetchPage
<1>5. /\ pc' \in [Jobs -> Label] /\ chunk' \in [Jobs -> Nat \ {0}]
      /\ (pc'[j] = "fetch" \/ (pc'[j] = "upsert" /\ chunk'[j] = 1))
      /\ \A k \in Jobs : k # j => pc'[k] = pc[k] /\ chunk'[k] = chunk[k]
  <2>1. "upsert" \in Label
    BY DEF Label
  <2> QED
    BY <1>1, <1>3, <2>1, AdvanceOf
<1>6. c \in 0 .. Len(Listing) /\ items[j] \in Seq(Item) /\ FetchedOK(j) /\ (Lone(j) => LoneOK(j))
  BY <1>1 DEF JobsOK, IInv
<1>7. /\ items[j] \o Read(page) \in Seq(Item)
      /\ Fetched(items[j] \o Read(page)) \subseteq Before(NextCursor(page, c))
      /\ Distinct(items[j] \o Read(page))
  BY <1>1, <1>6, FetchedGrows DEF FetchedOK
<1>8. NextCursor(page, c) \in 0 .. Len(Listing)
  BY <1>6, PageOf
<1>9. /\ items' \in [Jobs -> Seq(Item)] /\ items'[j] = items[j] \o Read(page)
      /\ cursor' \in [Jobs -> 0 .. Len(Listing)] /\ cursor'[j] = NextCursor(page, c)
      /\ \A k \in Jobs : k # j => items'[k] = items[k] /\ cursor'[k] = cursor[k]
  BY <1>1, <1>2, <1>7, <1>8 DEF JobsOK
<1>10. ChainOK' /\ TableOK' /\ JobsOK'
  BY <1>1, <1>4, <1>5, <1>9 DEF ChainOK, TableOK, JobsOK
<1>11. FetchedOK(j)'
  BY <1>7, <1>9 DEF FetchedOK
<1>12. Written(j)' = {} /\ Priced(j)' = {}
  <2>1. \A a \in DOMAIN items'[j] : ~ (a <= (1 - 1) * PageSize)
    <3>1. items'[j] \in Seq(Item)
      BY <1>9
    <3> QED
      BY <3>1, NextBehind
  <2> QED
    BY <1>5, <2>1 DEF Written, Priced, Behind
<1>13. KnownOK(j)'
  BY <1>5, <1>12 DEF KnownOK
<1>14. (Lone(j) => LoneOK(j))'
  <2>1. SUFFICES ASSUME Lone(j)' PROVE LoneOK(j)'
    OBVIOUS
  <2>2. LoneOK(j)
    BY <1>1, <1>4, <1>6, <2>1 DEF Lone
  <2>3. \A k \in Jobs : k # j => ~ Running(k)'
    BY <1>5, <2>2 DEF LoneOK, Running
  <2> QED
    BY <1>5, <1>12, <2>3 DEF LoneOK
<1>15. LastOK'
  BY <1>5, StillRunning DEF Running
<1>16. \A k \in Jobs : k # j => FetchedOK(k)' /\ KnownOK(k)' /\ (Lone(k) => LoneOK(k))'
  BY <1>1, <1>4, <1>5, <1>9, Others
<1> QED
  BY <1>10, <1>11, <1>13, <1>14, <1>15, <1>16, Together

LEMMA SelectKeeps ==
    ASSUME IInv, NEW j \in Jobs, Select(j)
    PROVE  IInv'
<1> USE DEF chain, database
<1>1. ChainOK /\ TableOK /\ JobsOK /\ Running(j) /\ pc[j] = "select" /\ items[j] \in Seq(Item)
  BY DEF IInv, Select, Running, JobsOK
<1>2. missing' = [missing EXCEPT ![j] = PreviouslyLive \ Fetched(items[j])]
  BY DEF Select
<1>3. UNCHANGED <<status, depth, events, table, refreshed, cursor, items, alone, last>>
  BY DEF Select
<1>4. /\ pc' \in [Jobs -> Label] /\ chunk' \in [Jobs -> Nat \ {0}] /\ pc'[j] = "dock"
      /\ \A k \in Jobs : k # j => pc'[k] = pc[k] /\ chunk'[k] = chunk[k]
  <2>1. Goto(j, "dock") /\ "dock" \in Label
    BY DEF Select, Label
  <2> QED
    BY <1>1, <2>1, GotoOf
<1>5. PreviouslyLive \subseteq Strategies
  BY DEF PreviouslyLive
<1>6. /\ missing' \in [Jobs -> SUBSET Strategies] /\ missing'[j] = PreviouslyLive \ Fetched(items[j])
      /\ \A k \in Jobs : k # j => missing'[k] = missing[k]
  BY <1>1, <1>2, <1>5 DEF JobsOK
<1>7. ChainOK' /\ TableOK' /\ JobsOK'
  BY <1>1, <1>3, <1>4, <1>6 DEF ChainOK, TableOK, JobsOK
<1>8. FetchedOK(j) /\ KnownOK(j) /\ (Lone(j) => LoneOK(j))
  BY DEF IInv
<1>9. FetchedOK(j)'
  BY <1>3, <1>8 DEF FetchedOK
<1>10. Written(j)' = Written(j) /\ Priced(j)' = {} /\ Written(j) \subseteq DOMAIN items[j]
  BY <1>1, <1>3, <1>4 DEF Written, Priced
<1>11. KnownOK(j)'
  <2>1. \A a \in Written(j)' : table'[items'[j][a].s].known
    BY <1>3, <1>8, <1>10 DEF KnownOK
  <2>2. \A s \in missing'[j] : table'[s].known /\ s \notin Fetched(items'[j])
    BY <1>3, <1>6 DEF PreviouslyLive
  <2> QED
    BY <2>1, <2>2 DEF KnownOK
<1>12. (Lone(j) => LoneOK(j))'
  <2>1. SUFFICES ASSUME Lone(j)' PROVE LoneOK(j)'
    OBVIOUS
  <2>2. LoneOK(j)
    BY <1>1, <1>3, <1>8, <2>1 DEF Lone
  <2>3. \A k \in Jobs : k # j => ~ Running(k)'
    BY <1>4, <2>2 DEF LoneOK, Running
  <2>4. \A a \in Written(j)' : ~ table'[items'[j][a].s].docked
    BY <1>3, <1>10, <2>2 DEF LoneOK
  <2>5. PreviouslyLive' \subseteq Fetched(items'[j]) \cup missing'[j]
    BY <1>3, <1>6 DEF PreviouslyLive
  <2> QED
    BY <1>4, <1>10, <2>3, <2>4, <2>5 DEF LoneOK
<1>13. LastOK'
  BY <1>4, StillRunning DEF Running
<1>14. \A k \in Jobs : k # j => FetchedOK(k)' /\ KnownOK(k)' /\ (Lone(k) => LoneOK(k))'
  BY <1>1, <1>3, <1>4, <1>6, Others
<1> QED
  BY <1>7, <1>9, <1>11, <1>12, <1>13, <1>14, Together

\* The rows the statements make of a row.
LEMMA Revived ==
    ASSUME NEW r \in Row
    PROVE  LET new == [r EXCEPT !.known = TRUE, !.docked = FALSE] IN
           new \in Row /\ new.known /\ ~ new.docked /\ new.depth = r.depth
BY DEF Row

LEMMA Docked ==
    ASSUME NEW r \in Row
    PROVE  LET new == [r EXCEPT !.docked = TRUE] IN
           new \in Row /\ new.known = r.known /\ new.docked /\ new.depth = r.depth
BY DEF Row

LEMMA Repriced ==
    ASSUME NEW r \in Row, NEW d \in Depth
    PROVE  LET new == [r EXCEPT !.depth = d] IN
           new \in Row /\ new.known = r.known /\ new.docked = r.docked /\ new.depth = d
BY DEF Row

LEMMA UpsertKeeps ==
    ASSUME IInv, NEW j \in Jobs, Upsert(j)
    PROVE  IInv'
<1> USE DEF chain
<1> DEFINE list == items[j]
           rows == Fetched(Batch(list, chunk[j]))
           In(a) == (chunk[j] - 1) * PageSize < a /\ a <= chunk[j] * PageSize
<1>1. /\ ChainOK /\ TableOK /\ JobsOK /\ Running(j) /\ pc[j] = "upsert"
      /\ list \in Seq(Item) /\ chunk[j] \in Nat \ {0}
  BY DEF IInv, Upsert, Running, JobsOK
<1>2. table' = [s \in Strategies |-> IF s \in rows THEN [table[s] EXCEPT !.known = TRUE, !.docked = FALSE]
                                                   ELSE table[s]]
  BY DEF Upsert
<1>3. Advance(j, chunk[j], MoreAfter(list, chunk[j]), "select")
  BY DEF Upsert
<1>4. UNCHANGED <<status, depth, events, refreshed, cursor, items, missing, alone, last>>
  BY DEF Upsert
<1>5. \A s : s \in rows <=> \E a \in DOMAIN list : In(a) /\ s = list[a].s
  BY <1>1, RowsOf
<1>6. /\ pc' \in [Jobs -> Label] /\ chunk' \in [Jobs -> Nat \ {0}]
      /\ MoreAfter(list, chunk[j]) => pc'[j] = "upsert" /\ chunk'[j] = chunk[j] + 1
      /\ ~ MoreAfter(list, chunk[j]) => pc'[j] = "select" /\ chunk'[j] = 1
      /\ \A k \in Jobs : k # j => pc'[k] = pc[k] /\ chunk'[k] = chunk[k]
  <2>1. "select" \in Label
    BY DEF Label
  <2> QED
    BY <1>1, <1>3, <2>1, AdvanceMore
<1>7. Written(j) = {a \in DOMAIN list : a <= (chunk[j] - 1) * PageSize}
  BY <1>1 DEF Written, Behind
<1>8. \A a \in Written(j)' : a \in DOMAIN list /\ (a \in Written(j) \/ In(a))
  <2> SUFFICES ASSUME NEW a \in Written(j)' PROVE a \in DOMAIN list /\ (a \in Written(j) \/ In(a))
    OBVIOUS
  <2>1. a \in DOMAIN list
    BY <1>4 DEF Written, Behind
  <2>2. CASE MoreAfter(list, chunk[j])
    <3>1. a <= ((chunk[j] + 1) - 1) * PageSize
      BY <1>4, <1>6, <2>2 DEF Written, Behind
    <3> QED
      BY <1>1, <1>7, <2>1, <3>1, NextBehind
  <2>3. CASE ~ MoreAfter(list, chunk[j])
    <3>1. a <= chunk[j] * PageSize
      BY <1>1, <2>1, <2>3, NextBehind
    <3>2. (chunk[j] - 1) * PageSize \in Nat /\ a \in Nat
      BY <1>1, <2>1, Sizes, ItemOf
    <3> QED
      BY <1>7, <2>1, <3>1, <3>2
  <2> QED
    BY <2>1, <2>2, <2>3
<1>9. \A a \in DOMAIN list : list[a].s \in Strategies
  BY <1>1, ItemOf
<1> HIDE DEF rows, In
<1>10. /\ \A s \in rows : s \in Strategies => table'[s] \in Row /\ table'[s].known /\ ~ table'[s].docked
       /\ \A s \in Strategies : s \notin rows => table'[s] = table[s]
  <2>1. \A s \in Strategies : table[s] \in Row
    BY <1>1 DEF TableOK
  <2> QED
    BY <1>2, <2>1, Revived
<1>11. table' \in [Strategies -> Row] /\ \A s \in Strategies : table[s].known => table'[s].known
  <2>1. \A s \in Strategies : table[s] \in Row
    BY <1>1 DEF TableOK
  <2>2. \A s \in Strategies : table'[s] \in Row
    BY <1>10, <2>1
  <2> QED
    BY <1>2, <1>10, <2>2
<1>12. ChainOK' /\ JobsOK'
  BY <1>1, <1>4, <1>6 DEF ChainOK, JobsOK
<1>13. TableOK'
  BY <1>1, <1>4, <1>10, <1>11 DEF TableOK
<1>14. FetchedOK(j) /\ KnownOK(j) /\ (Lone(j) => LoneOK(j))
  BY DEF IInv
<1>15. FetchedOK(j)'
  BY <1>4, <1>14 DEF FetchedOK
<1>16. \A a \in DOMAIN list : In(a) => list[a].s \in rows
  BY <1>5
<1>17. KnownOK(j)'
  <2>1. ASSUME NEW a \in Written(j)' PROVE table'[items'[j][a].s].known
    <3>1. a \in DOMAIN list /\ (a \in Written(j) \/ In(a))
      BY <1>8
    <3>2. CASE list[a].s \in rows
      BY <1>4, <1>9, <1>10, <3>1, <3>2
    <3>3. CASE list[a].s \notin rows
      BY <1>4, <1>9, <1>11, <1>14, <1>16, <3>1, <3>3 DEF KnownOK
    <3> QED
      BY <3>2, <3>3
  <2>2. pc'[j] # "dock"
    BY <1>6
  <2> QED
    BY <2>1, <2>2 DEF KnownOK
<1>18. (Lone(j) => LoneOK(j))'
  <2>1. SUFFICES ASSUME Lone(j)' PROVE LoneOK(j)'
    OBVIOUS
  <2>2. LoneOK(j)
    BY <1>1, <1>4, <1>14, <2>1 DEF Lone
  <2>3. \A k \in Jobs : k # j => ~ Running(k)'
    BY <1>6, <2>2 DEF LoneOK, Running
  <2>4. ASSUME NEW a \in Written(j)' PROVE ~ table'[items'[j][a].s].docked
    <3>1. a \in DOMAIN list /\ (a \in Written(j) \/ In(a))
      BY <1>8
    <3>2. CASE list[a].s \in rows
      BY <1>4, <1>9, <1>10, <3>1, <3>2
    <3>3. CASE list[a].s \notin rows
      BY <1>4, <1>9, <1>10, <1>16, <2>2, <3>1, <3>3 DEF LoneOK
    <3> QED
      BY <3>2, <3>3
  <2>5. Priced(j)' = {}
    BY <1>6 DEF Priced
  <2> QED
    BY <1>6, <2>3, <2>4, <2>5 DEF LoneOK
<1>19. LastOK'
  BY <1>6, StillRunning DEF Running
<1>20. \A k \in Jobs : k # j => FetchedOK(k)' /\ KnownOK(k)' /\ (Lone(k) => LoneOK(k))'
  BY <1>1, <1>4, <1>6, <1>11, Others
<1> QED
  BY <1>12, <1>13, <1>15, <1>17, <1>18, <1>19, <1>20, Together

LEMMA DockKeeps ==
    ASSUME IInv, NEW j \in Jobs, MarkDocked(j)
    PROVE  IInv'
<1> USE DEF chain
<1> DEFINE list == items[j]
<1>1. /\ ChainOK /\ TableOK /\ JobsOK /\ Running(j) /\ pc[j] = "dock" /\ list \in Seq(Item)
  BY DEF IInv, MarkDocked, Running, JobsOK
<1>2. table' = [s \in Strategies |-> IF s \in missing[j] THEN [table[s] EXCEPT !.docked = TRUE] ELSE table[s]]
  BY DEF MarkDocked
<1>3. UNCHANGED <<status, depth, events, refreshed, cursor, items, missing, alone, last>>
  BY DEF MarkDocked
<1>4. /\ pc' \in [Jobs -> Label] /\ chunk' \in [Jobs -> Nat \ {0}] /\ pc'[j] = "depth" /\ chunk'[j] = 1
      /\ \A k \in Jobs : k # j => pc'[k] = pc[k] /\ chunk'[k] = chunk[k]
  <2>1. Goto(j, "depth") /\ "depth" \in Label
    BY DEF MarkDocked, Label
  <2> QED
    BY <1>1, <2>1, GotoOf
<1>5. FetchedOK(j) /\ KnownOK(j) /\ (Lone(j) => LoneOK(j))
  BY DEF IInv
<1>6. \A s \in missing[j] : s \in Strategies /\ table[s].known /\ s \notin Fetched(list)
  BY <1>1, <1>5 DEF KnownOK, JobsOK
<1>7. /\ \A s \in Strategies : table[s] \in Row
      /\ \A s \in missing[j] : table'[s] \in Row /\ table'[s].known = table[s].known /\ table'[s].docked
      /\ \A s \in Strategies : s \notin missing[j] => table'[s] = table[s]
  <2>1. \A s \in Strategies : table[s] \in Row
    BY <1>1 DEF TableOK
  <2> QED
    BY <1>2, <1>6, <2>1, Docked
<1>8. table' \in [Strategies -> Row] /\ \A s \in Strategies : table'[s].known = table[s].known
  <2>1. \A s \in Strategies : table'[s] \in Row
    BY <1>7
  <2> QED
    BY <1>2, <1>7, <2>1
<1>9. ChainOK' /\ JobsOK'
  BY <1>1, <1>3, <1>4 DEF ChainOK, JobsOK
<1>10. TableOK'
  BY <1>1, <1>3, <1>6, <1>7, <1>8 DEF TableOK
<1>11. FetchedOK(j)'
  BY <1>3, <1>5 DEF FetchedOK
<1>12. Written(j)' = DOMAIN list /\ Written(j) = DOMAIN list
  BY <1>1, <1>3, <1>4 DEF Written
<1>13. \A a \in DOMAIN list : list[a].s \in Strategies /\ list[a].s \notin missing[j]
  BY <1>1, <1>6, ItemOf DEF Fetched
<1>14. KnownOK(j)'
  BY <1>3, <1>4, <1>5, <1>8, <1>12, <1>13 DEF KnownOK
<1>15. (Lone(j) => LoneOK(j))'
  <2>1. SUFFICES ASSUME Lone(j)' PROVE LoneOK(j)'
    OBVIOUS
  <2>2. LoneOK(j)
    BY <1>1, <1>3, <1>5, <2>1 DEF Lone
  <2>3. \A k \in Jobs : k # j => ~ Running(k)'
    BY <1>4, <2>2 DEF LoneOK, Running
  <2>4. \A a \in Written(j)' : ~ table'[items'[j][a].s].docked
    BY <1>3, <1>7, <1>12, <1>13, <2>2 DEF LoneOK
  <2>5. Priced(j)' = {}
    <3>1. \A a \in DOMAIN list : ~ (a <= (1 - 1) * PageSize)
      BY <1>1, NextBehind
    <3> QED
      BY <1>3, <1>4, <3>1 DEF Priced, Behind
  <2>6. PreviouslyLive' \subseteq Fetched(list)
    <3> SUFFICES ASSUME NEW s \in Strategies, table'[s].known, ~ table'[s].docked PROVE s \in Fetched(list)
      BY DEF PreviouslyLive
    <3>1. s \notin missing[j]
      BY <1>7
    <3>2. s \in PreviouslyLive
      BY <1>7, <3>1 DEF PreviouslyLive
    <3> QED
      BY <1>1, <2>2, <3>1, <3>2 DEF LoneOK
  <2> QED
    BY <1>3, <1>4, <2>3, <2>4, <2>5, <2>6 DEF LoneOK
<1>16. LastOK'
  BY <1>4, StillRunning DEF Running
<1>17. \A k \in Jobs : k # j => FetchedOK(k)' /\ KnownOK(k)' /\ (Lone(k) => LoneOK(k))'
  BY <1>1, <1>3, <1>4, <1>8, Others
<1> QED
  BY <1>9, <1>10, <1>11, <1>14, <1>15, <1>16, <1>17, Together

\* The depth a row of a statement is given is that of its place.
LEMMA PricedRow ==
    ASSUME NEW list \in Seq(Item), Distinct(list), NEW k \in Nat \ {0}, NEW a \in DOMAIN list,
           (k - 1) * PageSize < a, a <= k * PageSize
    PROVE  (CHOOSE r \in ToSet(Batch(list, k)) : r.s = list[a].s).depth = list[a].depth
<1> DEFINE part == ToSet(Batch(list, k))
           chosen == CHOOSE r \in part : r.s = list[a].s
<1>1. \A r \in part : \E b \in DOMAIN list : r = list[b]
  BY BatchOf
<1>2. list[a] \in part
  BY BatchOf
<1> HIDE DEF part
<1>3. chosen \in part /\ chosen.s = list[a].s
  BY <1>2
<1>4. PICK b \in DOMAIN list : chosen = list[b]
  BY <1>1, <1>3
<1>5. b = a
  BY <1>3, <1>4 DEF Distinct
<1> QED
  BY <1>4, <1>5 DEF part

LEMMA DepthKeeps ==
    ASSUME IInv, NEW j \in Jobs, WriteDepth(j)
    PROVE  IInv'
<1> USE DEF chain
<1> DEFINE list == items[j]
           batch == Batch(list, chunk[j])
           rows == Fetched(batch)
           price(s) == (CHOOSE r \in ToSet(batch) : r.s = s).depth
           In(a) == (chunk[j] - 1) * PageSize < a /\ a <= chunk[j] * PageSize
<1>1. /\ ChainOK /\ TableOK /\ JobsOK /\ Running(j) /\ pc[j] = "depth"
      /\ list \in Seq(Item) /\ chunk[j] \in Nat \ {0}
  BY DEF IInv, WriteDepth, Running, JobsOK
<1>2. table' = [s \in Strategies |-> IF s \in rows THEN [table[s] EXCEPT !.depth = price(s)] ELSE table[s]]
  BY DEF WriteDepth
<1>3. Advance(j, chunk[j], MoreAfter(list, chunk[j]), "stamp")
  BY DEF WriteDepth
<1>4. UNCHANGED <<status, depth, events, refreshed, cursor, items, missing, alone, last>>
  BY DEF WriteDepth
<1>5. FetchedOK(j) /\ KnownOK(j) /\ (Lone(j) => LoneOK(j))
  BY DEF IInv
<1>6. \A s : s \in rows <=> \E a \in DOMAIN list : In(a) /\ s = list[a].s
  BY <1>1, RowsOf
<1>7. \A a \in DOMAIN list : In(a) => price(list[a].s) = list[a].depth
  BY <1>1, <1>5, PricedRow DEF FetchedOK
<1>8. \A a \in DOMAIN list : list[a].s \in Strategies /\ list[a].depth \in Depth
  BY <1>1, ItemOf DEF Depth
<1>9. /\ pc' \in [Jobs -> Label] /\ chunk' \in [Jobs -> Nat \ {0}]
      /\ MoreAfter(list, chunk[j]) => pc'[j] = "depth" /\ chunk'[j] = chunk[j] + 1
      /\ ~ MoreAfter(list, chunk[j]) => pc'[j] = "stamp" /\ chunk'[j] = 1
      /\ \A k \in Jobs : k # j => pc'[k] = pc[k] /\ chunk'[k] = chunk[k]
  <2>1. "stamp" \in Label
    BY DEF Label
  <2> QED
    BY <1>1, <1>3, <2>1, AdvanceMore
<1>10. Priced(j) = {a \in DOMAIN list : a <= (chunk[j] - 1) * PageSize}
  BY <1>1 DEF Priced, Behind
<1>11. \A a \in Priced(j)' : a \in DOMAIN list /\ (a \in Priced(j) \/ In(a))
  <2> SUFFICES ASSUME NEW a \in Priced(j)' PROVE a \in DOMAIN list /\ (a \in Priced(j) \/ In(a))
    OBVIOUS
  <2>1. a \in DOMAIN list
    BY <1>4 DEF Priced, Behind
  <2>2. CASE MoreAfter(list, chunk[j])
    <3>1. a <= ((chunk[j] + 1) - 1) * PageSize
      BY <1>4, <1>9, <2>2 DEF Priced, Behind
    <3> QED
      BY <1>1, <1>10, <2>1, <3>1, NextBehind
  <2>3. CASE ~ MoreAfter(list, chunk[j])
    <3>1. a <= chunk[j] * PageSize
      BY <1>1, <2>1, <2>3, NextBehind
    <3>2. (chunk[j] - 1) * PageSize \in Nat /\ a \in Nat
      BY <1>1, <2>1, Sizes, ItemOf
    <3> QED
      BY <1>10, <2>1, <3>1, <3>2
  <2> QED
    BY <2>1, <2>2, <2>3
<1> HIDE DEF rows, batch, price, In
<1>12. \A s \in rows : \E a \in DOMAIN list : In(a) /\ s = list[a].s /\ price(s) = list[a].depth
  BY <1>6, <1>7
<1>13. \A a \in DOMAIN list : In(a) => list[a].s \in rows
  BY <1>6
<1>14. /\ \A s \in Strategies : s \notin rows => table'[s] = table[s]
       /\ \A s \in rows : /\ s \in Strategies /\ table'[s] \in Row /\ table'[s].depth = price(s)
                          /\ table'[s].known = table[s].known /\ table'[s].docked = table[s].docked
  <2>1. \A s \in Strategies : table[s] \in Row
    BY <1>1 DEF TableOK
  <2>2. \A s \in rows : s \in Strategies /\ price(s) \in Depth
    BY <1>8, <1>12
  <2> QED
    BY <1>2, <2>1, <2>2, Repriced
<1>15. /\ table' \in [Strategies -> Row]
       /\ \A s \in Strategies : table'[s].known = table[s].known /\ table'[s].docked = table[s].docked
  <2>1. \A s \in Strategies : table[s] \in Row
    BY <1>1 DEF TableOK
  <2>2. \A s \in Strategies : table'[s] \in Row
    BY <1>14, <2>1
  <2> QED
    BY <1>2, <1>14, <2>2
<1>16. ChainOK' /\ JobsOK'
  BY <1>1, <1>4, <1>9 DEF ChainOK, JobsOK
<1>17. Written(j)' = DOMAIN list /\ Written(j) = DOMAIN list
  BY <1>1, <1>4, <1>9 DEF Written
<1>18. TableOK'
  <2>1. \A s \in rows : table[s].known
    BY <1>5, <1>12, <1>17 DEF KnownOK
  <2>2. ASSUME NEW s \in Strategies, ~ table'[s].known PROVE table'[s] = Absent
    <3>1. s \notin rows
      BY <1>15, <2>1, <2>2
    <3> QED
      BY <1>1, <1>14, <2>2, <3>1 DEF TableOK
  <2> QED
    BY <1>1, <1>4, <1>15, <2>2 DEF TableOK
<1>19. FetchedOK(j)'
  BY <1>4, <1>5 DEF FetchedOK
<1>20. KnownOK(j)'
  BY <1>4, <1>5, <1>8, <1>9, <1>15, <1>17 DEF KnownOK
<1>21. (Lone(j) => LoneOK(j))'
  <2>1. SUFFICES ASSUME Lone(j)' PROVE LoneOK(j)'
    OBVIOUS
  <2>2. LoneOK(j)
    BY <1>1, <1>4, <1>5, <2>1 DEF Lone
  <2>3. \A k \in Jobs : k # j => ~ Running(k)'
    BY <1>9, <2>2 DEF LoneOK, Running
  <2>4. \A a \in Written(j)' : ~ table'[items'[j][a].s].docked
    BY <1>4, <1>8, <1>15, <1>17, <2>2 DEF LoneOK
  <2>5. PreviouslyLive' = PreviouslyLive
    BY <1>15 DEF PreviouslyLive
  <2>6. ASSUME NEW a \in Priced(j)' PROVE table'[items'[j][a].s].depth = items'[j][a].depth
    <3>1. a \in DOMAIN list /\ (a \in Priced(j) \/ In(a))
      BY <1>11
    <3>2. CASE list[a].s \in rows
      <4>1. PICK b \in DOMAIN list : list[a].s = list[b].s /\ price(list[a].s) = list[b].depth
        BY <1>12, <3>2
      <4>2. a = b
        BY <1>5, <3>1, <4>1 DEF FetchedOK, Distinct
      <4> QED
        BY <1>4, <1>14, <3>2, <4>1, <4>2
    <3>3. CASE list[a].s \notin rows
      <4>1. a \in Priced(j)
        BY <1>13, <3>1, <3>3
      <4> QED
        BY <1>4, <1>8, <1>14, <2>2, <3>1, <3>3, <4>1 DEF LoneOK
    <3> QED
      BY <3>2, <3>3
  <2> QED
    BY <1>1, <1>4, <1>9, <2>2, <2>3, <2>4, <2>5, <2>6 DEF LoneOK
<1>22. LastOK'
  BY <1>9, StillRunning DEF Running
<1>23. \A k \in Jobs : k # j => FetchedOK(k)' /\ KnownOK(k)' /\ (Lone(k) => LoneOK(k))'
  BY <1>1, <1>4, <1>9, <1>15, Others
<1> QED
  BY <1>16, <1>18, <1>19, <1>20, <1>21, <1>22, <1>23, Together

\* A job that ends.
LEMMA EndKeeps ==
    ASSUME IInv, NEW j \in Jobs, Running(j), End(j), LastOK', UNCHANGED <<chain, table>>,
           refreshed' \in BOOLEAN, last' \in [items : Seq(Item), alone : BOOLEAN]
    PROVE  IInv'
<1> USE DEF chain
<1>1. ChainOK /\ TableOK /\ JobsOK
  BY DEF IInv
<1>2. /\ pc' \in [Jobs -> Label] /\ chunk' \in [Jobs -> Nat \ {0}] /\ pc'[j] = "idle"
      /\ \A k \in Jobs : k # j => pc'[k] = pc[k] /\ chunk'[k] = chunk[k]
  <2>1. Goto(j, "idle") /\ "idle" \in Label
    BY DEF End, Label
  <2> QED
    BY <1>1, <2>1, GotoOf
<1>3. /\ items' \in [Jobs -> Seq(Item)] /\ items'[j] = <<>>
      /\ cursor' \in [Jobs -> 0 .. Len(Listing)] /\ cursor'[j] = 0
      /\ missing' \in [Jobs -> SUBSET Strategies] /\ alone' \in [Jobs -> BOOLEAN]
      /\ \A k \in Jobs : k # j => /\ items'[k] = items[k] /\ cursor'[k] = cursor[k]
                                  /\ missing'[k] = missing[k] /\ alone'[k] = alone[k]
  <2>1. <<>> \in Seq(Item) /\ 0 \in 0 .. Len(Listing)
    BY EmptySeq, ListingOf
  <2> QED
    BY <1>1, <2>1 DEF End, JobsOK
<1>4. ChainOK' /\ TableOK' /\ JobsOK'
  BY <1>1, <1>2, <1>3 DEF ChainOK, TableOK, JobsOK
<1>5. DOMAIN items'[j] = {}
  BY <1>3
<1>6. FetchedOK(j)'
  BY <1>5 DEF FetchedOK, Fetched, Distinct
<1>7. KnownOK(j)'
  BY <1>2 DEF KnownOK, Written
<1>8. ~ Lone(j)'
  BY <1>2 DEF Lone, Running
<1>9. \A k \in Jobs : k # j => FetchedOK(k)' /\ KnownOK(k)' /\ (Lone(k) => LoneOK(k))'
  BY <1>2, <1>3, Others
<1> QED
  BY <1>4, <1>6, <1>7, <1>8, <1>9, Together

LEMMA StampKeeps ==
    ASSUME IInv, NEW j \in Jobs, Stamp(j)
    PROVE  IInv'
<1> USE DEF chain
<1>1. Running(j) /\ pc[j] = "stamp" /\ items[j] \in Seq(Item) /\ alone[j] \in BOOLEAN
  BY DEF IInv, JobsOK, Stamp, Running
<1>2. End(j) /\ UNCHANGED <<chain, table>> /\ refreshed' = TRUE /\ last' = [items |-> items[j], alone |-> alone[j]]
  BY DEF Stamp
<1>3. last'.items = items[j] /\ last'.alone = alone[j] /\ last' \in [items : Seq(Item), alone : BOOLEAN]
  BY <1>1, <1>2
<1>4. LastOK'
  <2>1. SUFFICES ASSUME alone[j]
                 PROVE  /\ PreviouslyLive = Fetched(items[j])
                        /\ \A a \in DOMAIN items[j] : table[items[j][a].s].depth = items[j][a].depth
    BY <1>2, <1>3 DEF LastOK, PreviouslyLive
  <2>2. KnownOK(j) /\ LoneOK(j)
    BY <1>1, <2>1 DEF IInv, Lone
  <2>3. Written(j) = DOMAIN items[j] /\ Priced(j) = DOMAIN items[j]
    BY <1>1 DEF Written, Priced
  <2>4. \A a \in DOMAIN items[j] : items[j][a].s \in PreviouslyLive
    BY <1>1, <2>2, <2>3, ItemOf DEF KnownOK, LoneOK, PreviouslyLive
  <2> QED
    BY <1>1, <2>2, <2>3, <2>4 DEF LoneOK, Fetched
<1> QED
  BY <1>1, <1>2, <1>3, <1>4, EndKeeps

LEMMA FailKeeps ==
    ASSUME IInv, NEW j \in Jobs, Fail(j)
    PROVE  IInv'
<1> USE DEF chain, database
<1>1. Running(j) /\ End(j) /\ UNCHANGED <<chain, table, refreshed>> /\ last' = NoLast
  BY DEF Fail
<1>2. refreshed' \in BOOLEAN
  BY <1>1 DEF IInv, TableOK
<1>3. last' \in [items : Seq(Item), alone : BOOLEAN] /\ last'.alone = FALSE
  BY <1>1, EmptySeq DEF NoLast
<1>4. LastOK'
  BY <1>3 DEF LastOK
<1> QED
  BY <1>1, <1>2, <1>3, <1>4, EndKeeps

-----------------------------------------------------------------------------
LEMMA InitInv == Init => IInv
<1> SUFFICES ASSUME Init PROVE IInv
  OBVIOUS
<1>1. ChainOK
  BY DEF Init, ChainOK, Depth
<1>2. Absent \in Row /\ Absent.known = FALSE
  BY DEF Absent, Row, Depth
<1>3. TableOK
  BY <1>2 DEF Init, TableOK
<1>4. <<>> \in Seq(Item) /\ 0 \in 0 .. Len(Listing)
  BY EmptySeq, ListingOf
<1>5. JobsOK /\ last.alone = FALSE
  BY <1>4 DEF Init, JobsOK, Label, NoLast
<1>6. ASSUME NEW j \in Jobs PROVE FetchedOK(j) /\ KnownOK(j) /\ (Lone(j) => LoneOK(j))
  <2>1. pc[j] = "idle" /\ items[j] = <<>> /\ DOMAIN items[j] = {}
    BY DEF Init
  <2>2. FetchedOK(j)
    BY <2>1 DEF FetchedOK, Fetched, Distinct
  <2> QED
    BY <2>1, <2>2 DEF KnownOK, Written, Lone, Running
<1>7. LastOK
  BY <1>5 DEF LastOK
<1> QED
  BY <1>1, <1>3, <1>5, <1>6, <1>7 DEF IInv

LEMMA NextInv == IInv /\ [Next]_vars => IInv'
<1> SUFFICES ASSUME IInv, [Next]_vars PROVE IInv'
  OBVIOUS
<1>1. ASSUME NEW s \in Strategies, Close(s) \/ \E d \in Depths : Open(s, d) \/ Move(s, d) PROVE IInv'
  BY <1>1, ChainSteps
<1>2. ASSUME NEW j \in Jobs, Step(j) \/ Fail(j) PROVE IInv'
  BY <1>2, BeginKeeps, FetchKeeps, UpsertKeeps, SelectKeeps, DockKeeps, DepthKeeps, StampKeeps, FailKeeps DEF Step
<1>3. CASE UNCHANGED vars
  <2>1. ChainOK'
    BY <1>3 DEF vars, chain, IInv, ChainOK
  <2> QED
    BY <1>3, <2>1, QuietTables DEF vars
<1> QED
  BY <1>1, <1>2, <1>3 DEF Next

LEMMA Implies == IInv => RefreshInv
<1> SUFFICES ASSUME IInv PROVE RefreshInv
  OBVIOUS
<1>1. TypeOK
  <2>1. ASSUME NEW s \in Strategies
        PROVE  /\ status[s] \in {"new", "open", "closed"} /\ depth[s] \in Depths \cup {None}
               /\ table[s].known \in BOOLEAN /\ table[s].docked \in BOOLEAN
               /\ table[s].depth \in Depths \cup {None} /\ (~ table[s].known => table[s] = Absent)
    BY DEF IInv, ChainOK, TableOK, Row, Depth
  <2>2. ASSUME NEW j \in Jobs
        PROVE  /\ pc[j] \in Label /\ Fetched(items[j]) \subseteq Strategies /\ Distinct(items[j])
               /\ missing[j] \subseteq Strategies \ Fetched(items[j]) \/ pc[j] # "dock"
    <3>1. JobsOK /\ FetchedOK(j) /\ KnownOK(j) /\ items[j] \in Seq(Item)
      BY DEF IInv, JobsOK
    <3>2. Fetched(items[j]) \subseteq Strategies
      BY <3>1, ItemOf DEF Fetched
    <3> QED
      BY <3>1, <3>2 DEF JobsOK, FetchedOK, KnownOK
  <2> QED
    BY <2>1, <2>2 DEF TypeOK, Label, Distinct
<1>2. IndexIsLastFetch
  <2> SUFFICES ASSUME \A j \in Jobs : ~ Running(j), last.alone
               PROVE  /\ {s \in Strategies : Served(s)} = Fetched(last.items)
                      /\ \A r \in ToSet(last.items) : table[r.s].depth = r.depth
    BY DEF IndexIsLastFetch
  <2>1. /\ refreshed /\ PreviouslyLive = Fetched(last.items) /\ last.items \in Seq(Item)
        /\ \A a \in DOMAIN last.items : table[last.items[a].s].depth = last.items[a].depth
    BY DEF IInv, LastOK, JobsOK
  <2>2. \A r \in ToSet(last.items) : table[r.s].depth = r.depth
    BY <2>1 DEF ToSet
  <2>3. ASSUME NEW s \in Fetched(last.items) PROVE table[s].depth # None
    <3>1. PICK a \in DOMAIN last.items : s = last.items[a].s
      BY DEF Fetched
    <3>2. last.items[a].depth \in Nat
      BY <2>1, ItemOf, RefreshIndexAssumption
    <3> QED
      BY <2>1, <3>1, <3>2 DEF None
  <2> QED
    BY <2>1, <2>2, <2>3 DEF Served, PreviouslyLive
<1> QED
  BY <1>1, <1>2 DEF RefreshInv

LEMMA Invariant == Spec => []IInv
BY InitInv, NextInv, PTL DEF Spec

(***************************************************************************)
(* Whatever jobs overlap, fail between two statements and follow one       *)
(* another, the tables stay well formed, and a job that ran alone to its   *)
(* end leaves readers exactly what it fetched (indexer.ts:93-220).         *)
(***************************************************************************)
THEOREM IndexIsRight == Spec => []RefreshInv
BY Invariant, Implies, PTL

-----------------------------------------------------------------------------
(* What a lone job marks docked is closed.  While it pages, each place the  *)
(* cursor has passed is fetched, or closed, or was not open when its page   *)
(* was read, and then no row of the table is about it.                      *)

Seen(j, i) ==
    Listing[i] \in Fetched(items[j]) \/ status[Listing[i]] = "closed" \/ ~ table[Listing[i]].known

Covered(j) == IF pc[j] = "fetch" THEN 1 .. cursor[j] ELSE 1 .. Len(Listing)

Opened ==
    /\ \A s \in Strategies : table[s].known => status[s] # "new"
    /\ \A j \in Jobs, s \in Strategies : s \in Fetched(items[j]) => status[s] # "new"

AtRest(j) == ~ Running(j) => items[j] = <<>> /\ cursor[j] = 0 /\ chunk[j] = 1

\* All pages but the last are full.
PagedOK(j) == pc[j] = "fetch" => chunk[j] <= MaxPages /\ (chunk[j] - 1) * PageSize <= cursor[j]

SeenOK(j) == Lone(j) => \A i \in Covered(j) : Seen(j, i)

Complete == Opened /\ \A j \in Jobs : AtRest(j) /\ PagedOK(j) /\ SeenOK(j)

\* A page leaves out no open place it passes; the last one leaves out none at all.
LEMMA PageFull ==
    ASSUME NEW c \in 0 .. Len(Listing), NEW page \in Pages(c)
    PROVE  /\ \A i \in OpenAfter(c) : i <= NextCursor(page, c) => \E a \in DOMAIN page : page[a] = i
           /\ Cardinality(OpenAfter(c)) <= PageSize => \A i \in OpenAfter(c) : \E a \in DOMAIN page : page[a] = i
           /\ Cardinality(OpenAfter(c)) > PageSize => c + PageSize <= NextCursor(page, c)
           /\ Cardinality(OpenAfter(c)) \in Nat /\ Cardinality(OpenAfter(c)) <= Len(Listing) - c
<1> DEFINE n == PageLen(c)
           O == OpenAfter(c)
           d == NextCursor(page, c)
<1>1. n \in Nat /\ DOMAIN page = 1 .. n /\ page \in [1 .. n -> O]
  BY PageLenOf, PageOf DEF Pages
<1>2. /\ \A a \in 1 .. n : page[a] \in 1 .. Len(Listing) /\ c < page[a] /\ page[a] <= d
      /\ \A a, b \in 1 .. n : a < b => page[a] < page[b]
      /\ d \in 0 .. Len(Listing) /\ c <= d
  BY <1>1, PageOf
<1>3. \A a \in 1 .. n, i \in O : i < page[a] => \E b \in 1 .. n : page[b] = i
  BY <1>1 DEF Pages
<1>4. c \in Nat /\ d \in Nat /\ Len(Listing) \in Nat /\ c <= Len(Listing) /\ PageSize \in Nat \ {0}
  BY <1>2, ListingOf, RefreshIndexAssumption
<1>5. O \subseteq (c + 1) .. Len(Listing)
  BY <1>4, ListingOf DEF OpenAfter
<1>6. IsFiniteSet((c + 1) .. Len(Listing)) /\ Cardinality((c + 1) .. Len(Listing)) = Len(Listing) - c
  <2>1. c + 1 \in Int /\ Len(Listing) \in Int
    BY <1>4
  <2>2. /\ IsFiniteSet((c + 1) .. Len(Listing))
        /\ Cardinality((c + 1) .. Len(Listing)) = IF c + 1 > Len(Listing) THEN 0 ELSE Len(Listing) - (c + 1) + 1
    BY <2>1, FS_Interval
  <2>3. c + 1 > Len(Listing) => Len(Listing) - c = 0
    BY <1>4
  <2> QED
    BY <1>4, <2>2, <2>3
<1>7. IsFiniteSet(O) /\ Cardinality(O) \in Nat /\ Cardinality(O) <= Len(Listing) - c
  <2>1. IsFiniteSet(O) /\ Cardinality(O) <= Cardinality((c + 1) .. Len(Listing))
    BY <1>5, <1>6, FS_Subset
  <2>2. Cardinality(O) \in Nat
    BY <2>1, FS_CardinalityType
  <2> QED
    BY <1>6, <2>1, <2>2
<1>8. n = (IF Cardinality(O) < PageSize THEN Cardinality(O) ELSE PageSize)
  BY DEF PageLen
<1>9. (n # 0 => d = page[n]) /\ (n = 0 => d = c)
  <2>1. ASSUME n # 0 PROVE d = page[n]
    <3>1. page \in Seq(O) /\ 1 \in DOMAIN page
      BY <1>1, <2>1, SeqDef
    <3>2. Len(page) = n /\ page # <<>>
      BY <1>1, <3>1
    <3> QED
      BY <3>2 DEF NextCursor, Last
  <2>2. ASSUME n = 0 PROVE d = c
    <3>1. page = <<>>
      BY <1>1, <2>2
    <3> QED
      BY <3>1 DEF NextCursor
  <2> QED
    BY <2>1, <2>2
<1> HIDE DEF n, d, O
<1>10. ASSUME NEW i \in O, i <= d PROVE \E a \in 1 .. n : page[a] = i
  <2>1. i \in Nat /\ c < i
    BY <1>4, <1>5, <1>10
  <2>2. n # 0
    BY <1>4, <1>9, <1>10, <2>1
  <2>3. n \in 1 .. n
    BY <1>1, <2>2
  <2>4. d = page[n]
    BY <1>9, <2>2
  <2>5. i < page[n] \/ i = page[n]
    BY <1>4, <1>10, <2>1, <2>4
  <2> QED
    BY <1>3, <2>3, <2>5
<1>11. \A a, b \in 1 .. n : page[a] = page[b] => a = b
  <2> SUFFICES ASSUME NEW a \in 1 .. n, NEW b \in 1 .. n, page[a] = page[b] PROVE a = b
    OBVIOUS
  <2>1. page[a] \in Nat /\ ~ (page[a] < page[b]) /\ ~ (page[b] < page[a])
    BY <1>2, <1>4
  <2>2. ~ (a < b) /\ ~ (b < a)
    BY <1>2, <2>1
  <2> QED
    BY <1>1, <2>2
<1>12. IsFiniteSet(1 .. n) /\ Cardinality(1 .. n) = n
  <2>1. Cardinality(1 .. n) = IF 1 > n THEN 0 ELSE n - 1 + 1
    BY <1>1, FS_Interval
  <2> QED
    BY <1>1, <2>1, FS_Interval
<1>13. ASSUME Cardinality(O) <= PageSize PROVE \A i \in O : \E a \in 1 .. n : page[a] = i
  <2>1. page \in Injection(1 .. n, O)
    BY <1>1, <1>11 DEF Injection, IsInjective
  <2>2. n = Cardinality(O)
    BY <1>4, <1>7, <1>8, <1>13
  <2>3. page \in Surjection(1 .. n, O)
    BY <1>7, <1>12, <2>1, <2>2, FS_Injection
  <2> QED
    BY <2>3 DEF Surjection
<1>14. ASSUME Cardinality(O) > PageSize PROVE c + PageSize <= d
  <2>1. n = PageSize
    BY <1>4, <1>7, <1>8, <1>14
  <2>2. \A a \in 1 .. n : page[a] \in (c + 1) .. d
    BY <1>2, <1>4
  <2>3. page \in [1 .. n -> (c + 1) .. d]
    BY <1>1, <2>2
  <2>4. page \in Injection(1 .. n, (c + 1) .. d)
    BY <1>1, <1>11, <2>3 DEF Injection, IsInjective
  <2>5. c + 1 \in Int /\ d \in Int
    BY <1>4
  <2>6. IsFiniteSet((c + 1) .. d) /\ Cardinality((c + 1) .. d) = IF c + 1 > d THEN 0 ELSE d - (c + 1) + 1
    BY <2>5, FS_Interval
  <2>7. Cardinality((c + 1) .. d) = d - c
    BY <1>2, <1>4, <2>6
  <2>8. n <= d - c
    BY <1>12, <2>4, <2>6, <2>7, FS_Injection
  <2> QED
    BY <1>4, <2>1, <2>8
<1> QED
  BY <1>1, <1>7, <1>10, <1>13, <1>14 DEF d, O

\* The other jobs, when one of them takes a step.
LEMMA CompleteStep ==
    ASSUME IInv, IInv', Complete, NEW j \in Jobs, Running(j), status' = status,
           \A k \in Jobs : k # j => /\ pc'[k] = pc[k] /\ chunk'[k] = chunk[k] /\ cursor'[k] = cursor[k]
                                    /\ items'[k] = items[k] /\ alone'[k] = alone[k],
           \A s \in Strategies : table'[s].known => table[s].known \/ s \in Fetched(items[j]),
           \A s \in Strategies : s \in Fetched(items'[j]) => status[s] # "new",
           AtRest(j)', PagedOK(j)', SeenOK(j)'
    PROVE  Complete'
<1>1. Opened'
  BY DEF Complete, Opened
<1>2. ASSUME NEW k \in Jobs, k # j PROVE AtRest(k)' /\ PagedOK(k)' /\ SeenOK(k)'
  <2>1. AtRest(k) /\ PagedOK(k)
    BY DEF Complete
  <2>2. Lone(k)' => Lone(k)
    BY <1>2 DEF Lone, Running
  <2>3. Lone(k) => ~ Running(j)
    BY <1>2 DEF IInv, LoneOK
  <2> QED
    BY <1>2, <2>1, <2>2, <2>3 DEF AtRest, PagedOK, SeenOK, Running
<1> QED
  BY <1>1, <1>2 DEF Complete

LEMMA ChainComplete ==
    ASSUME IInv, Complete, UNCHANGED <<database, jobs>>,
           \A s \in Strategies : /\ status[s] = "closed" => status'[s] = "closed"
                                 /\ status[s] # "new" => status'[s] # "new"
    PROVE  Complete'
<1> USE DEF database, jobs
<1>1. Opened'
  BY DEF Complete, Opened
<1>2. ASSUME NEW j \in Jobs PROVE AtRest(j)' /\ PagedOK(j)' /\ SeenOK(j)'
  <2>1. AtRest(j) /\ PagedOK(j) /\ SeenOK(j)
    BY DEF Complete
  <2>2. AtRest(j)' /\ PagedOK(j)'
    BY <2>1 DEF AtRest, PagedOK, Running
  <2>3. SeenOK(j)'
    <3>1. SUFFICES ASSUME Lone(j)', NEW i \in Covered(j)' PROVE Seen(j, i)'
      BY DEF SeenOK
    <3>2. i \in Covered(j) /\ Seen(j, i)
      BY <2>1, <3>1 DEF SeenOK, Covered, Lone, Running
    <3>3. i \in 1 .. Len(Listing)
      BY <3>2, ListingOf DEF Covered, IInv, JobsOK
    <3>4. Listing[i] \in Strategies
      BY <3>3, ListingOf
    <3> QED
      BY <3>2, <3>4 DEF Seen
  <2> QED
    BY <2>2, <2>3
<1> QED
  BY <1>1, <1>2 DEF Complete

LEMMA BeginComplete ==
    ASSUME IInv, IInv', Complete, NEW j \in Jobs, Begin(j)
    PROVE  Complete'
<1>1. UNCHANGED <<status, table, items, cursor>> /\ ~ Running(j) /\ Goto(j, "fetch")
  BY DEF Begin, chain, database, Running
<1>2. /\ pc'[j] = "fetch" /\ chunk'[j] = 1
      /\ \A k \in Jobs : k # j => pc'[k] = pc[k] /\ chunk'[k] = chunk[k]
  <2>1. JobsOK /\ "fetch" \in Label
    BY DEF IInv, Label
  <2> QED
    BY <1>1, <2>1, GotoOf
<1>3. Opened'
  BY <1>1 DEF Complete, Opened
<1>4. AtRest(j) /\ cursor[j] = 0
  BY <1>1 DEF Complete, AtRest
<1>5. AtRest(j)'
  BY <1>2 DEF AtRest, Running
<1>6. PagedOK(j)'
  BY <1>1, <1>2, <1>4, Sizes, RefreshIndexAssumption DEF PagedOK
<1>7. SeenOK(j)'
  BY <1>1, <1>2, <1>4 DEF SeenOK, Covered
<1>8. ASSUME NEW k \in Jobs, k # j PROVE AtRest(k)' /\ PagedOK(k)' /\ SeenOK(k)'
  <2>1. AtRest(k) /\ PagedOK(k)
    BY DEF Complete
  <2>2. ~ Lone(k)'
    <3>1. Running(j)'
      BY <1>2 DEF Running
    <3> QED
      BY <1>8, <3>1 DEF IInv, LoneOK
  <2> QED
    BY <1>1, <1>2, <1>8, <2>1, <2>2 DEF AtRest, PagedOK, SeenOK, Running
<1> QED
  BY <1>3, <1>5, <1>6, <1>7, <1>8 DEF Complete

LEMMA FetchGoes ==
    ASSUME JobsOK, NEW j \in Jobs, FetchPage(j)
    PROVE  LET more == Cardinality(OpenAfter(cursor[j])) > PageSize /\ chunk[j] < MaxPages IN
           /\ more => pc'[j] = "fetch" /\ chunk'[j] = chunk[j] + 1
           /\ ~ more => pc'[j] = "upsert" /\ chunk'[j] = 1
           /\ \A k \in Jobs : k # j => pc'[k] = pc[k] /\ chunk'[k] = chunk[k]
<1> DEFINE more == Cardinality(OpenAfter(cursor[j])) > PageSize /\ chunk[j] < MaxPages
<1>1. pc[j] = "fetch" /\ pc \in [Jobs -> Label] /\ chunk \in [Jobs -> Nat \ {0}]
  BY DEF FetchPage, JobsOK
<1>2. CASE more
  <2>1. chunk' = [chunk EXCEPT ![j] = chunk[j] + 1] /\ pc' = pc
    BY <1>2 DEF FetchPage, Advance
  <2> QED
    BY <1>1, <1>2, <2>1
<1>3. CASE ~ more
  <2>1. Goto(j, "upsert")
    BY <1>3 DEF FetchPage, Advance
  <2> QED
    BY <1>1, <1>3, <2>1 DEF Goto
<1> QED
  BY <1>2, <1>3

LEMMA FetchedJoin ==
    ASSUME NEW list \in Seq(Item), NEW part \in Seq(Item)
    PROVE  \A s : s \in Fetched(list \o part) <=> s \in Fetched(list) \/ s \in Fetched(part)
<1> DEFINE whole == list \o part
           m == Len(list)
           n == Len(part)
<1>1. m \in Nat /\ n \in Nat /\ DOMAIN list = 1 .. m /\ DOMAIN part = 1 .. n
  OBVIOUS
<1>2. /\ whole \in Seq(Item) /\ Len(whole) = m + n
      /\ \A i \in 1 .. m + n : whole[i] = IF i <= m THEN list[i] ELSE part[i - m]
  BY ConcatProperties
<1>3. DOMAIN whole = 1 .. m + n
  BY <1>2
<1> HIDE DEF whole, m, n
<1>4. \A i \in 1 .. m : i \in DOMAIN whole /\ whole[i] = list[i]
  BY <1>1, <1>2, <1>3
<1>5. \A i \in 1 .. n : m + i \in DOMAIN whole /\ whole[m + i] = part[i]
  <2> SUFFICES ASSUME NEW i \in 1 .. n PROVE m + i \in DOMAIN whole /\ whole[m + i] = part[i]
    OBVIOUS
  <2>1. m + i \in 1 .. m + n /\ ~ (m + i <= m) /\ (m + i) - m = i
    BY <1>1
  <2> QED
    BY <1>2, <1>3, <2>1
<1>6. \A i \in DOMAIN whole : (i \in 1 .. m /\ whole[i] = list[i]) \/ (i - m \in 1 .. n /\ whole[i] = part[i - m])
  BY <1>1, <1>2, <1>3
<1>7. \A s : s \in Fetched(whole) <=> s \in Fetched(list) \/ s \in Fetched(part)
  BY <1>1, <1>4, <1>5, <1>6 DEF Fetched
<1> QED
  BY <1>7 DEF whole

LEMMA FetchComplete ==
    ASSUME IInv, IInv', Complete, Len(Listing) <= MaxPages * PageSize, NEW j \in Jobs, FetchPage(j)
    PROVE  Complete'
<1> DEFINE c == cursor[j]
           O == OpenAfter(c)
           list == items[j]
           more == Cardinality(O) > PageSize /\ chunk[j] < MaxPages
<1>1. /\ ChainOK /\ JobsOK /\ Running(j) /\ pc[j] = "fetch" /\ chunk[j] \in Nat \ {0}
      /\ c \in 0 .. Len(Listing) /\ list \in Seq(Item)
      /\ FetchedOK(j) /\ AtRest(j) /\ PagedOK(j) /\ SeenOK(j) /\ Opened
  BY DEF IInv, Complete, FetchPage, Running, JobsOK
<1>2. PICK page \in Pages(c) : /\ items' = [items EXCEPT ![j] = list \o Read(page)]
                               /\ cursor' = [cursor EXCEPT ![j] = NextCursor(page, c)]
  BY DEF FetchPage
<1> DEFINE d == NextCursor(page, c)
<1>3. UNCHANGED <<status, table, alone>>
  BY DEF FetchPage, chain, database
<1>4. /\ items'[j] = list \o Read(page) /\ cursor'[j] = d
      /\ \A k \in Jobs : k # j => items'[k] = items[k] /\ cursor'[k] = cursor[k]
  BY <1>1, <1>2 DEF JobsOK
<1>5. /\ more => pc'[j] = "fetch" /\ chunk'[j] = chunk[j] + 1
      /\ ~ more => pc'[j] = "upsert" /\ chunk'[j] = 1
      /\ \A k \in Jobs : k # j => pc'[k] = pc[k] /\ chunk'[k] = chunk[k]
  BY <1>1, FetchGoes
<1>6. /\ d \in 0 .. Len(Listing) /\ c <= d
      /\ \A a \in DOMAIN page : page[a] \in 1 .. Len(Listing) /\ status[Listing[page[a]]] = "open"
  BY <1>1, PageOf
<1>7. /\ \A i \in O : i <= d => \E a \in DOMAIN page : page[a] = i
      /\ Cardinality(O) <= PageSize => \A i \in O : \E a \in DOMAIN page : page[a] = i
      /\ Cardinality(O) > PageSize => c + PageSize <= d
      /\ Cardinality(O) \in Nat /\ Cardinality(O) <= Len(Listing) - c
  BY <1>1, PageFull
<1>8. /\ \A a \in DOMAIN page : Listing[page[a]] \in Fetched(items'[j])
      /\ \A s : s \in Fetched(items'[j]) <=> s \in Fetched(list) \/ \E a \in DOMAIN page : s = Listing[page[a]]
  <2>1. /\ Read(page) \in Seq(Item) /\ DOMAIN Read(page) = DOMAIN page
        /\ \A a \in DOMAIN page : Read(page)[a].s = Listing[page[a]]
    BY <1>1, ReadOf
  <2>2. \A s : s \in Fetched(list \o Read(page)) <=> s \in Fetched(list) \/ s \in Fetched(Read(page))
    BY <1>1, <2>1, FetchedJoin
  <2>3. \A s : s \in Fetched(Read(page)) <=> \E a \in DOMAIN page : s = Listing[page[a]]
    BY <2>1 DEF Fetched
  <2> QED
    BY <1>4, <2>2, <2>3
<1>9. \A s \in Strategies : s \in Fetched(items'[j]) => status[s] # "new"
  BY <1>1, <1>6, <1>8 DEF Opened
<1>10. c \in Nat /\ d \in Nat /\ Len(Listing) \in Nat /\ c <= Len(Listing) /\ PageSize \in Nat \ {0} /\ MaxPages \in Nat \ {0}
  BY <1>1, <1>6, ListingOf, RefreshIndexAssumption
<1>11. (chunk[j] - 1) * PageSize <= c /\ chunk[j] <= MaxPages
  BY <1>1 DEF PagedOK
<1>12. /\ (chunk[j] - 1) * PageSize \in Nat /\ chunk[j] * PageSize = (chunk[j] - 1) * PageSize + PageSize
       /\ (chunk[j] + 1) - 1 = chunk[j]
  BY <1>1, Sizes
<1> HIDE DEF c, O, list, d
<1>13. PagedOK(j)'
  <2>1. SUFFICES ASSUME more PROVE chunk[j] + 1 <= MaxPages /\ ((chunk[j] + 1) - 1) * PageSize <= d
    BY <1>4, <1>5 DEF PagedOK
  <2>2. c + PageSize <= d
    BY <1>7, <2>1
  <2>3. chunk[j] * PageSize <= d
    BY <1>10, <1>11, <1>12, <2>2
  <2>4. chunk[j] + 1 <= MaxPages
    BY <1>1, <1>10, <2>1
  <2> QED
    BY <1>12, <2>3, <2>4
<1>14. AtRest(j)'
  BY <1>5 DEF AtRest, Running
<1>15. SeenOK(j)'
  <2>1. SUFFICES ASSUME Lone(j)', NEW i \in Covered(j)' PROVE Seen(j, i)'
    BY DEF SeenOK
  <2>2. Lone(j)
    BY <1>1, <1>3, <2>1 DEF Lone
  <2>3. i \in 1 .. Len(Listing) /\ Listing[i] \in Strategies
    BY <1>4, <1>5, <1>6, <1>10, <2>1, ListingOf DEF Covered
  <2>4. CASE i <= c
    <3>1. Seen(j, i)
      BY <1>1, <1>10, <2>2, <2>3, <2>4 DEF SeenOK, Covered, c
    <3> QED
      BY <1>3, <1>8, <3>1 DEF Seen, list
  <2>5. CASE ~ (i <= c) /\ i \notin O
    <3>1. status[Listing[i]] # "open"
      BY <1>10, <2>3, <2>5, ListingOf DEF OpenAfter, O
    <3>2. status[Listing[i]] = "closed" \/ status[Listing[i]] = "new"
      BY <1>1, <2>3, <3>1 DEF ChainOK
    <3>3. status[Listing[i]] = "new" => ~ table[Listing[i]].known
      BY <1>1, <2>3 DEF Opened
    <3> QED
      BY <1>3, <3>2, <3>3 DEF Seen
  <2>6. CASE i \in O
    <3>1. SUFFICES \E a \in DOMAIN page : page[a] = i
      BY <1>8 DEF Seen
    <3>2. CASE more
      <4>1. i <= d
        BY <1>4, <1>5, <2>1, <3>2 DEF Covered
      <4> QED
        BY <1>7, <2>6, <4>1
    <3>3. CASE Cardinality(O) <= PageSize
      BY <1>7, <2>6, <3>3
    <3>4. CASE Cardinality(O) > PageSize /\ ~ (chunk[j] < MaxPages)
      <4>1. chunk[j] = MaxPages
        BY <1>1, <1>10, <1>11, <3>4
      <4>2. Len(Listing) <= (chunk[j] - 1) * PageSize + PageSize
        BY <1>12, <4>1
      <4>3. c + PageSize < Len(Listing)
        BY <1>7, <1>10, <3>4
      <4> QED
        BY <1>10, <1>11, <1>12, <4>2, <4>3
    <3> QED
      BY <1>7, <1>10, <3>2, <3>3, <3>4
  <2> QED
    BY <2>4, <2>5, <2>6
<1> QED
  BY <1>1, <1>3, <1>4, <1>5, <1>9, <1>13, <1>14, <1>15, CompleteStep

\* The statements after the pages.
LEMMA LaterComplete ==
    ASSUME IInv, IInv', Complete, NEW j \in Jobs, Upsert(j) \/ Select(j) \/ MarkDocked(j) \/ WriteDepth(j)
    PROVE  Complete'
<1>1. /\ JobsOK /\ TableOK /\ Running(j) /\ pc[j] # "fetch" /\ items[j] \in Seq(Item) /\ chunk[j] \in Nat \ {0}
      /\ SeenOK(j) /\ Opened
  BY DEF IInv, Complete, JobsOK, Upsert, Select, MarkDocked, WriteDepth, Running
<1>2. UNCHANGED <<status, cursor, items, alone>>
  BY DEF Upsert, Select, MarkDocked, WriteDepth, chain
<1>3. /\ pc'[j] # "idle" /\ pc'[j] # "fetch"
      /\ \A k \in Jobs : k # j => pc'[k] = pc[k] /\ chunk'[k] = chunk[k]
  <2>1. {"upsert", "select", "dock", "depth", "stamp"} \subseteq Label
    BY DEF Label
  <2>2. CASE Upsert(j)
    BY <1>1, <2>1, <2>2, AdvanceMore DEF Upsert
  <2>3. CASE Select(j)
    BY <1>1, <2>1, <2>3, GotoOf DEF Select
  <2>4. CASE MarkDocked(j)
    BY <1>1, <2>1, <2>4, GotoOf DEF MarkDocked
  <2>5. CASE WriteDepth(j)
    BY <1>1, <2>1, <2>5, AdvanceMore DEF WriteDepth
  <2> QED
    BY <2>2, <2>3, <2>4, <2>5
<1>4. \A s \in Strategies : table'[s].known => table[s].known \/ s \in Fetched(items[j])
  <2>1. \A s \in Strategies : table[s] \in Row
    BY <1>1 DEF TableOK
  <2>2. CASE Upsert(j)
    <3>1. \A s : s \in Fetched(Batch(items[j], chunk[j])) => s \in Fetched(items[j])
      <4>1. \A a \in DOMAIN items[j] : items[j][a].s \in Fetched(items[j])
        BY DEF Fetched
      <4> QED
        BY <1>1, <4>1, RowsOf
    <3> QED
      BY <2>2, <3>1 DEF Upsert
  <2>3. CASE Select(j)
    BY <2>3 DEF Select, database
  <2>4. CASE MarkDocked(j)
    BY <2>1, <2>4, Docked DEF MarkDocked
  <2>5. CASE WriteDepth(j)
    <3>1. \A s \in Strategies : table'[s] = table[s] \/ \E d : table'[s] = [table[s] EXCEPT !.depth = d]
      BY <2>5 DEF WriteDepth
    <3> QED
      BY <2>1, <3>1 DEF Row
  <2> QED
    BY <2>2, <2>3, <2>4, <2>5
<1>5. AtRest(j)' /\ PagedOK(j)'
  BY <1>3 DEF AtRest, PagedOK, Running
<1>6. SeenOK(j)'
  <2>1. SUFFICES ASSUME Lone(j)', NEW i \in Covered(j)' PROVE Seen(j, i)'
    BY DEF SeenOK
  <2>2. Lone(j) /\ i \in Covered(j) /\ i \in 1 .. Len(Listing)
    BY <1>1, <1>2, <1>3, <2>1 DEF Lone, Covered
  <2>3. Seen(j, i) /\ Listing[i] \in Strategies
    BY <1>1, <2>2, ListingOf DEF SeenOK
  <2> QED
    BY <1>2, <1>4, <2>3 DEF Seen
<1> QED
  BY <1>1, <1>2, <1>3, <1>4, <1>5, <1>6, CompleteStep DEF Opened

LEMMA EndComplete ==
    ASSUME IInv, IInv', Complete, NEW j \in Jobs, Running(j), End(j), UNCHANGED <<chain, table>>
    PROVE  Complete'
<1> USE DEF chain
<1>1. JobsOK
  BY DEF IInv
<1>2. /\ pc'[j] = "idle" /\ chunk'[j] = 1
      /\ \A k \in Jobs : k # j => pc'[k] = pc[k] /\ chunk'[k] = chunk[k]
  <2>1. Goto(j, "idle") /\ "idle" \in Label
    BY DEF End, Label
  <2> QED
    BY <1>1, <2>1, GotoOf
<1>3. /\ items'[j] = <<>> /\ cursor'[j] = 0
      /\ \A k \in Jobs : k # j => items'[k] = items[k] /\ cursor'[k] = cursor[k] /\ alone'[k] = alone[k]
  BY <1>1 DEF End, JobsOK
<1>4. AtRest(j)' /\ PagedOK(j)' /\ SeenOK(j)'
  BY <1>2, <1>3 DEF AtRest, PagedOK, SeenOK, Lone, Running
<1>5. \A s \in Strategies : s \in Fetched(items'[j]) => status[s] # "new"
  <2>1. DOMAIN items'[j] = {}
    BY <1>3
  <2> QED
    BY <2>1 DEF Fetched
<1> QED
  BY <1>2, <1>3, <1>4, <1>5, CompleteStep

LEMMA InitComplete == Init => Complete
<1> SUFFICES ASSUME Init PROVE Complete
  OBVIOUS
<1>1. Absent.known = FALSE
  BY DEF Absent
<1>2. \A s \in Strategies : ~ table[s].known
  BY <1>1 DEF Init
<1>3. \A j \in Jobs : pc[j] = "idle" /\ items[j] = <<>> /\ DOMAIN items[j] = {} /\ cursor[j] = 0 /\ chunk[j] = 1
  BY DEF Init
<1>4. Opened
  BY <1>2, <1>3 DEF Opened, Fetched
<1> QED
  BY <1>3, <1>4 DEF Complete, AtRest, PagedOK, SeenOK, Lone, Running

LEMMA NextComplete ==
    ASSUME Len(Listing) <= MaxPages * PageSize
    PROVE  IInv /\ Complete /\ [Next]_vars => Complete'
<1> SUFFICES ASSUME IInv, Complete, [Next]_vars PROVE Complete'
  OBVIOUS
<1>1. IInv'
  BY NextInv
<1>2. ASSUME NEW s \in Strategies, Close(s) \/ \E d \in Depths : Open(s, d) \/ Move(s, d) PROVE Complete'
  <2>1. UNCHANGED <<database, jobs>>
    BY <1>2 DEF Close, Open, Move
  <2>2. \A t \in Strategies : /\ status[t] = "closed" => status'[t] = "closed"
                              /\ status[t] # "new" => status'[t] # "new"
    BY <1>2 DEF Close, Open, Move, IInv, ChainOK
  <2> QED
    BY <2>1, <2>2, ChainComplete
<1>3. ASSUME NEW j \in Jobs, Stamp(j) \/ Fail(j) PROVE Complete'
  <2>1. Running(j) /\ End(j) /\ UNCHANGED <<chain, table>>
    BY <1>3 DEF Stamp, Fail, Running, database
  <2> QED
    BY <1>1, <2>1, EndComplete
<1>4. ASSUME NEW j \in Jobs, Step(j) \/ Fail(j) PROVE Complete'
  BY <1>1, <1>3, <1>4, BeginComplete, FetchComplete, LaterComplete DEF Step
<1>5. CASE UNCHANGED vars
  BY <1>5, ChainComplete DEF vars, chain
<1> QED
  BY <1>2, <1>4, <1>5 DEF Next

\* A row is docked by one statement only.
LEMMA DocksClosed ==
    IInv /\ Complete /\ [Next]_vars =>
        ((\A j \in Jobs : Running(j) => alone[j]) =>
            \A s \in Strategies : ~ table[s].docked /\ table'[s].docked => status[s] = "closed")
<1> SUFFICES ASSUME IInv, Complete, [Next]_vars, \A j \in Jobs : Running(j) => alone[j],
                    NEW s \in Strategies, ~ table[s].docked, table'[s].docked
             PROVE  status[s] = "closed"
  OBVIOUS
<1>1. TableOK /\ table[s] \in Row
  BY DEF IInv, TableOK
<1>2. table' # table
  OBVIOUS
<1>3. ASSUME NEW j \in Jobs, MarkDocked(j) PROVE status[s] = "closed"
  <2>1. Lone(j) /\ pc[j] = "dock"
    BY <1>3 DEF MarkDocked, Lone, Running
  <2>2. s \in missing[j]
    BY <1>3 DEF MarkDocked
  <2>3. table[s].known /\ s \notin Fetched(items[j])
    BY <2>1, <2>2 DEF IInv, KnownOK
  <2>4. PICK i \in 1 .. Len(Listing) : s = Listing[i]
    BY ListingOf, RefreshIndexAssumption DEF ToSet
  <2>5. Seen(j, i)
    BY <2>1, <2>4 DEF Complete, SeenOK, Covered
  <2> QED
    BY <2>3, <2>4, <2>5 DEF Seen
<1>4. ASSUME NEW j \in Jobs, Upsert(j) PROVE FALSE
  BY <1>1, <1>4, Revived DEF Upsert
<1>5. ASSUME NEW j \in Jobs, WriteDepth(j) PROVE FALSE
  <2>1. table'[s] = table[s] \/ \E d : table'[s] = [table[s] EXCEPT !.depth = d]
    BY <1>5 DEF WriteDepth
  <2> QED
    BY <1>1, <2>1 DEF Row
<1>6. \E j \in Jobs : MarkDocked(j) \/ Upsert(j) \/ WriteDepth(j)
  BY <1>2 DEF Next, Step, Close, Open, Move, Begin, FetchPage, Select, Stamp, Fail, vars, database
<1> QED
  BY <1>3, <1>4, <1>5, <1>6

(***************************************************************************)
(* "Missing from the open set IS the dock signal": with no other job       *)
(* beside it, a job docks only what is closed, however the listing moved   *)
(* while it was paged and whatever earlier jobs left behind, provided the  *)
(* ceiling on pages is not reached ("a sane ceiling, not a real limit",    *)
(* indexer.ts:43).                                                         *)
(***************************************************************************)
THEOREM DocksAreCloses ==
    ASSUME Len(Listing) <= MaxPages * PageSize
    PROVE  Spec => DocksOnlyTheClosed
<1>1. IInv /\ Complete /\ [Next]_vars =>
         [(\A j \in Jobs : Running(j) => alone[j]) =>
            \A s \in Strategies : ~ table[s].docked /\ table'[s].docked => status[s] = "closed"]_vars
  BY DocksClosed
<1>2. Spec => []Complete
  BY Invariant, InitComplete, NextComplete, PTL DEF Spec
<1> QED
  BY <1>1, <1>2, Invariant, PTL DEF Spec, DocksOnlyTheClosed
=============================================================================
