---------------------------- MODULE ServerProofs ----------------------------
(***************************************************************************)
(* Proofs about what the server answers.  RouteServer, for any requests,   *)
(* keys and bounds: its types, that sharing never leaves a request on a    *)
(* promise nobody will settle, and that plans are current.  Records, for   *)
(* any strategies, windows and pages: counts, verdicts and histories.      *)
(***************************************************************************)
EXTENDS RouteServer, Records, FiniteSetTheorems, SequenceTheorems, WellFoundedInduction, TLAPS

\* What is known of a request and of a cache entry, beyond their types.
RequestOK(q) ==
    /\ q.pc \in {"wait", "compute"} => q.key \in Keys /\ q.arrived \in Nat
    /\ q.pc = "wait" => q.waitsFor \in Requests
    /\ q.pc = "compute" => q.began \in Nat

EntryOK(k, e) == e # NoEntry => e.key = k /\ e.read \in Nat /\ e.at \in Nat

RequestsOK == request \in [Requests -> RequestStates] /\ \A r \in Requests : RequestOK(request[r])
CacheOK == cache \in [Keys -> CacheEntries] /\ \A k \in Keys : EntryOK(k, cache[k])
PromisesOK == inflight \in [Keys -> Requests \cup {NoOne}] /\ promise \in [Requests -> Answers]
CacheBounded == IsFiniteSet(Entries(cache)) /\ Cardinality(Entries(cache)) <= CacheMax + 1

Inv == now \in Nat /\ RequestsOK /\ CacheOK /\ PromisesOK /\ CacheBounded

-----------------------------------------------------------------------------
\* The constant records have their types.
LEMMA ConstantsTyped ==
    /\ Idle \in RequestStates /\ RequestOK(Idle)
    /\ NoEntry \in CacheEntries
    /\ Pending \in Answers /\ Null \in Answers /\ Failed \in Answers
    /\ \A k \in Keys, t \in Nat : Plan(k, t) \in Answers /\ Empty(k, t) \in Answers
<1>1. Pending \in Answers /\ Null \in Answers /\ Failed \in Answers
  BY DEF Pending, Null, Failed, Answers, Times, None
<1>2. Idle \in RequestStates /\ RequestOK(Idle)
  BY <1>1 DEF Idle, RequestStates, RequestOK, Times, None, NoOne
<1>3. NoEntry \in CacheEntries
  BY DEF NoEntry, CacheEntries, Times, None
<1>4. \A k \in Keys, t \in Nat : Plan(k, t) \in Answers /\ Empty(k, t) \in Answers
  BY DEF Plan, Empty, Answers, Times
<1> QED BY <1>1, <1>2, <1>3, <1>4

\* Replacing the record of one request by a good one keeps all good.
LEMMA SetRequest ==
    ASSUME RequestsOK, NEW r \in Requests, NEW q \in RequestStates, RequestOK(q),
           request' = [request EXCEPT ![r] = q]
    PROVE  RequestsOK'
<1>1. request' \in [Requests -> RequestStates]
  BY DEF RequestsOK
<1>2. \A x \in Requests : request'[x] = q \/ request'[x] = request[x]
  BY DEF RequestsOK
<1>3. \A x \in Requests : RequestOK(request'[x])
  BY <1>2 DEF RequestsOK
<1> QED BY <1>1, <1>3 DEF RequestsOK, RequestOK

\* A request that is done keeps its key and its answer only.
LEMMA AnswerOK ==
    ASSUME RequestsOK, NEW r \in Requests, NEW fields \in RequestStates, NEW answer \in Answers,
           Answer(r, fields, answer)
    PROVE  RequestsOK'
<1> DEFINE q == [Idle EXCEPT !.pc = "done", !.key = fields.key, !.fresh = fields.fresh, !.answer = answer]
<1>1. q \in RequestStates /\ RequestOK(q)
  <2>1. fields.key \in Keys \cup {None} /\ fields.fresh \in BOOLEAN
    BY DEF RequestStates
  <2> QED BY <2>1 DEF Idle, RequestStates, RequestOK, Times, None, NoOne
<1>2. request' = [request EXCEPT ![r] = q]
  BY DEF Answer
<1> QED BY <1>1, <1>2, SetRequest

\* A request that starts computing, and its promise.
LEMMA ComputeOK ==
    ASSUME now \in Nat, RequestsOK, PromisesOK, NEW r \in Requests, NEW fields \in RequestStates,
           fields.key \in Keys, fields.arrived \in Nat, Compute(r, fields)
    PROVE  RequestsOK' /\ PromisesOK'
<1> DEFINE q == [fields EXCEPT !.pc = "compute", !.began = now]
<1>1. q \in RequestStates /\ RequestOK(q)
  BY DEF RequestStates, RequestOK, Times
<1>2. request' = [request EXCEPT ![r] = q]
  BY DEF Compute
<1>3. RequestsOK'
  BY <1>1, <1>2, SetRequest
<1>4. PromisesOK'
  BY ConstantsTyped DEF Compute, PromisesOK
<1> QED BY <1>3, <1>4

LEMMA SettleOK ==
    ASSUME RequestsOK, PromisesOK, NEW r \in Requests, request[r].key \in Keys,
           NEW value \in Answers, Settle(r, value)
    PROVE  PromisesOK'
  BY DEF Settle, PromisesOK

-----------------------------------------------------------------------------
LEMMA ArriveInv ==
    ASSUME Inv, NEW r \in Requests, NEW k \in Keys, NEW fresh \in BOOLEAN, Arrive(r, k, fresh)
    PROVE  Inv'
<1> DEFINE fields == [request[r] EXCEPT !.key = k, !.fresh = fresh, !.arrived = now]
<1>1. now' = now /\ cache' = cache
  BY DEF Arrive
<1>2. fields \in RequestStates /\ fields.key = k /\ fields.arrived = now
  <2>1. request[r] \in RequestStates
    BY DEF Inv, RequestsOK
  <2> QED BY <2>1 DEF Inv, RequestStates, Times
<1> HIDE DEF fields
<1>3. CASE Hit(k, fresh)
  <2>1. Plan(cache[k].key, cache[k].read) \in Answers
    <3>1. cache[k].key = k /\ cache[k].read \in Nat
      BY <1>3 DEF Hit, Inv, CacheOK, EntryOK
    <3> QED BY <3>1, ConstantsTyped
  <2>2. Answer(r, fields, Plan(cache[k].key, cache[k].read)) /\ UNCHANGED <<inflight, promise>>
    BY <1>3 DEF Arrive, fields
  <2>3. RequestsOK'
    BY <1>2, <2>1, <2>2, AnswerOK DEF Inv
  <2> QED BY <1>1, <2>2, <2>3 DEF Inv, PromisesOK, CacheOK, CacheBounded
<1>4. CASE ~ Hit(k, fresh) /\ Joins(k, fresh)
  <2> DEFINE q == [fields EXCEPT !.pc = "wait", !.waitsFor = inflight[k]]
  <2>1. inflight[k] \in Requests
    BY <1>4 DEF Joins, Inv, PromisesOK
  <2>2. q \in RequestStates /\ RequestOK(q)
    BY <1>2, <2>1 DEF RequestStates, RequestOK, Times, Inv
  <2>3. request' = [request EXCEPT ![r] = q] /\ UNCHANGED <<inflight, promise>>
    BY <1>4 DEF Arrive, fields
  <2>4. RequestsOK'
    BY <2>2, <2>3, SetRequest DEF Inv
  <2> QED BY <1>1, <2>3, <2>4 DEF Inv, PromisesOK, CacheOK, CacheBounded
<1>5. CASE ~ Hit(k, fresh) /\ ~ Joins(k, fresh)
  <2>1. Compute(r, fields)
    BY <1>5 DEF Arrive, fields
  <2>2. RequestsOK' /\ PromisesOK'
    BY <1>2, <2>1, ComputeOK DEF Inv
  <2> QED BY <1>1, <2>2 DEF Inv, CacheOK, CacheBounded
<1> QED BY <1>3, <1>4, <1>5

LEMMA ResumeInv ==
    ASSUME Inv, NEW r \in Requests, Resume(r)
    PROVE  Inv'
<1>1. /\ now' = now /\ cache' = cache
      /\ request[r].pc = "wait" /\ request[r] \in RequestStates
      /\ request[r].key \in Keys /\ request[r].arrived \in Nat /\ request[r].waitsFor \in Requests
  BY DEF Resume, Inv, RequestsOK, RequestOK
<1>2. CASE promise[request[r].waitsFor] # Null
  <2>1. promise[request[r].waitsFor] \in Answers
    BY <1>1 DEF Inv, PromisesOK
  <2>2. Answer(r, request[r], promise[request[r].waitsFor]) /\ UNCHANGED <<inflight, promise>>
    BY <1>2 DEF Resume
  <2>3. RequestsOK'
    BY <1>1, <2>1, <2>2, AnswerOK DEF Inv
  <2> QED BY <1>1, <2>2, <2>3 DEF Inv, PromisesOK, CacheOK, CacheBounded
<1>3. CASE promise[request[r].waitsFor] = Null
  <2>1. Compute(r, request[r])
    BY <1>3 DEF Resume
  <2>2. RequestsOK' /\ PromisesOK'
    BY <1>1, <2>1, ComputeOK DEF Inv
  <2> QED BY <1>1, <2>2 DEF Inv, CacheOK, CacheBounded
<1> QED BY <1>2, <1>3

\* One more entry on top of a cache cleared in time.
LEMMA CacheStaysBounded ==
    ASSUME Inv, NEW k \in Keys, NEW e \in CacheEntries, EntryOK(k, e), cache' = [Kept EXCEPT ![k] = e]
    PROVE  CacheOK' /\ CacheBounded'
<1>1. Kept \in [Keys -> CacheEntries] /\ \A x \in Keys : EntryOK(x, Kept[x])
  BY ConstantsTyped DEF Kept, Inv, CacheOK, EntryOK
<1>2. IsFiniteSet(Entries(Kept)) /\ Cardinality(Entries(Kept)) <= CacheMax
  <2>1. CASE Cardinality(Entries(cache)) > CacheMax
    <3>1. Entries(Kept) = {}
      BY <2>1 DEF Kept, Entries
    <3> QED BY <3>1, FS_EmptySet, RouteServerAssumption DEF RouteServerAssumption
  <2>2. CASE ~ (Cardinality(Entries(cache)) > CacheMax)
    <3>1. Kept = cache
      BY <2>2 DEF Kept
    <3>2. Cardinality(Entries(cache)) \in Nat
      BY FS_CardinalityType DEF Inv, CacheBounded
    <3> QED BY <2>2, <3>1, <3>2, RouteServerAssumption DEF Inv, CacheBounded, RouteServerAssumption
  <2> QED BY <2>1, <2>2
<1>3. CacheOK'
  BY <1>1 DEF CacheOK, EntryOK
<1>4. Entries(cache') \subseteq Entries(Kept) \cup {k}
  BY <1>1 DEF Entries
<1>5. /\ IsFiniteSet(Entries(Kept) \cup {k})
      /\ \/ Cardinality(Entries(Kept) \cup {k}) = Cardinality(Entries(Kept))
         \/ Cardinality(Entries(Kept) \cup {k}) = Cardinality(Entries(Kept)) + 1
  BY <1>2, FS_AddElement
<1>6. IsFiniteSet(Entries(cache')) /\ Cardinality(Entries(cache')) <= Cardinality(Entries(Kept) \cup {k})
  BY <1>4, <1>5, FS_Subset
<1>7. Cardinality(Entries(cache')) <= CacheMax + 1
  <2>1. /\ Cardinality(Entries(Kept)) \in Nat
        /\ Cardinality(Entries(Kept) \cup {k}) \in Nat
        /\ Cardinality(Entries(cache')) \in Nat
    BY <1>2, <1>5, <1>6, FS_CardinalityType
  <2> QED BY <1>2, <1>5, <1>6, <2>1, RouteServerAssumption DEF RouteServerAssumption
<1>8. Entries(cache)' = Entries(cache')
  BY DEF Entries
<1> QED BY <1>3, <1>6, <1>7, <1>8 DEF CacheBounded

LEMMA FinishInv ==
    ASSUME Inv, NEW r \in Requests, Finish(r)
    PROVE  Inv'
<1>1. /\ now' = now /\ now \in Nat
      /\ request[r].pc = "compute" /\ request[r] \in RequestStates
      /\ request[r].key \in Keys /\ request[r].began \in Nat
  BY DEF Finish, Planned, NoPlan, Throws, Inv, RequestsOK, RequestOK
<1> DEFINE k == request[r].key
           plan == Plan(k, request[r].began)
<1>2. plan \in Answers /\ Empty(k, request[r].began) \in Answers /\ Failed \in Answers /\ Null \in Answers
  BY <1>1, ConstantsTyped
<1>3. CASE Planned(r)
  <2> DEFINE e == [key |-> k, read |-> plan.read, at |-> now]
  <2>1. e \in CacheEntries /\ EntryOK(k, e)
    BY <1>1 DEF CacheEntries, EntryOK, Times, Plan
  <2>2. cache' = [Kept EXCEPT ![k] = e] /\ Settle(r, plan) /\ Answer(r, request[r], plan)
    BY <1>3 DEF Planned
  <2> HIDE DEF e, plan
  <2>3. CacheOK' /\ CacheBounded'
    BY <1>1, <2>1, <2>2, CacheStaysBounded
  <2>4. PromisesOK'
    BY <1>1, <1>2, <2>2, SettleOK DEF Inv
  <2>5. RequestsOK'
    BY <1>1, <1>2, <2>2, AnswerOK DEF Inv
  <2> QED BY <1>1, <2>3, <2>4, <2>5 DEF Inv
<1>4. CASE NoPlan(r) \/ Throws(r)
  <2>1. cache' = cache /\ Settle(r, Null)
    BY <1>4 DEF NoPlan, Throws
  <2>2. PromisesOK'
    BY <1>1, <1>2, <2>1, SettleOK DEF Inv
  <2>3. RequestsOK'
    BY <1>1, <1>2, <1>4, AnswerOK DEF Inv, NoPlan, Throws
  <2> QED BY <1>1, <2>1, <2>2, <2>3 DEF Inv, CacheOK, CacheBounded
<1> QED BY <1>3, <1>4 DEF Finish

LEMMA StutterInv ==
    ASSUME Inv, Tick \/ UNCHANGED vars
    PROVE  Inv'
<1>1. now' \in Nat /\ UNCHANGED <<cache, inflight, promise, request>>
  BY DEF Inv, Tick, vars
<1> QED BY <1>1 DEF Inv, RequestsOK, CacheOK, PromisesOK, CacheBounded

LEMMA InitInv == Init => Inv
<1> SUFFICES ASSUME Init PROVE Inv
  OBVIOUS
<1>1. RequestsOK /\ PromisesOK
  BY ConstantsTyped DEF Init, RequestsOK, PromisesOK
<1>2. CacheOK
  BY ConstantsTyped DEF Init, CacheOK, EntryOK
<1>3. Entries(cache) = {}
  BY DEF Init, Entries
<1>4. CacheBounded
  BY <1>3, FS_EmptySet, RouteServerAssumption DEF CacheBounded, RouteServerAssumption
<1> QED BY <1>1, <1>2, <1>4 DEF Init, Inv

LEMMA StepInv == Inv /\ [Next]_vars => Inv'
<1> SUFFICES ASSUME Inv, [Next]_vars PROVE Inv'
  OBVIOUS
<1>1. CASE \E r \in Requests, k \in Keys, fresh \in BOOLEAN : Arrive(r, k, fresh)
  BY <1>1, ArriveInv
<1>2. CASE \E r \in Requests : Resume(r)
  BY <1>2, ResumeInv
<1>3. CASE \E r \in Requests : Finish(r)
  BY <1>3, FinishInv
<1>4. CASE Tick \/ UNCHANGED vars
  BY <1>4, StutterInv
<1> QED BY <1>1, <1>2, <1>3, <1>4 DEF Next

\* Every answer, entry and promise is well formed, and the cache never holds
\* more than one entry above the size at which it is cleared.
THEOREM TypeCorrect == Spec => []TypeOK
<1>1. Inv => TypeOK
  BY DEF Inv, TypeOK, RequestsOK, CacheOK, PromisesOK, CacheBounded
<1> QED BY <1>1, InitInv, StepInv, PTL DEF Spec

-----------------------------------------------------------------------------
\* A promise is made only by a computation that may be shared.
SharedOnly == \A r \in Requests : promise[r] = Pending => ~ request[r].fresh

JInv == Inv /\ JoinsOnlyTheRunning /\ SharedOnly

\* Only a shared computation owns an entry or a pending promise.
LEMMA OwnersCompute ==
    ASSUME JInv, NEW r \in Requests, promise[r] # Pending
    PROVE  \A k \in Keys : inflight[k] # r
  BY RouteServerAssumption DEF JInv, JoinsOnlyTheRunning, RouteServerAssumption

\* A step of a request without a promise leaves the promises of others alone.
LEMMA OutsiderJoins ==
    ASSUME JInv, NEW r \in Requests, promise[r] # Pending, UNCHANGED <<inflight, promise>>,
           \A x \in Requests \ {r} : request'[x] = request[x]
    PROVE  JoinsOnlyTheRunning' /\ SharedOnly'
<1>1. \A k \in Keys : inflight[k] # r
  BY OwnersCompute
<1>2. \A k \in Keys : inflight[k] # NoOne => inflight[k] \in Requests \ {r}
  BY <1>1 DEF JInv, Inv, PromisesOK
<1>3. JoinsOnlyTheRunning'
  BY <1>2 DEF JInv, JoinsOnlyTheRunning
<1>4. SharedOnly'
  BY DEF JInv, SharedOnly
<1> QED BY <1>3, <1>4

\* A request that starts computing, shared or not.
LEMMA ComputeJoins ==
    ASSUME JInv, NEW r \in Requests, promise[r] # Pending, NEW fields \in RequestStates,
           fields.key \in Keys, Compute(r, fields)
    PROVE  JoinsOnlyTheRunning' /\ SharedOnly'
<1>1. /\ request'[r].pc = "compute" /\ request'[r].key = fields.key
      /\ request'[r].fresh = fields.fresh
      /\ \A x \in Requests \ {r} : request'[x] = request[x]
  BY DEF Compute, JInv, Inv, RequestsOK, RequestStates
<1>2. CASE fields.fresh
  <2>1. UNCHANGED <<inflight, promise>>
    BY <1>2 DEF Compute
  <2> QED BY <1>1, <2>1, OutsiderJoins
<1>3. CASE ~ fields.fresh
  <2>1. /\ inflight' = [inflight EXCEPT ![fields.key] = r]
        /\ promise' = [promise EXCEPT ![r] = Pending]
    BY <1>3 DEF Compute
  <2>2. \A k \in Keys : inflight'[k] = IF k = fields.key THEN r ELSE inflight[k]
    BY <2>1 DEF JInv, Inv, PromisesOK
  <2>3. \A x \in Requests : promise'[x] = IF x = r THEN Pending ELSE promise[x]
    BY <2>1 DEF JInv, Inv, PromisesOK
  <2>4. \A k \in Keys : inflight[k] # r
    BY OwnersCompute
  <2>5. \A k \in Keys : inflight[k] # NoOne => inflight[k] \in Requests
    BY DEF JInv, Inv, PromisesOK
  <2>6. JoinsOnlyTheRunning'
    BY <1>1, <2>2, <2>3, <2>4, <2>5 DEF JInv, JoinsOnlyTheRunning
  <2>7. SharedOnly'
    BY <1>1, <1>3, <2>3 DEF JInv, SharedOnly
  <2> QED BY <2>6, <2>7
<1> QED BY <1>2, <1>3

\* A computation that ends: its entry goes, or the one that replaced it.
LEMMA FinishJoins ==
    ASSUME JInv, NEW r \in Requests, Finish(r)
    PROVE  JoinsOnlyTheRunning' /\ SharedOnly'
<1>1. PICK value \in Answers, answer \in Answers :
          Settle(r, value) /\ Answer(r, request[r], answer) /\ value # Pending
  <2>1. request[r].key \in Keys /\ request[r].began \in Nat
    BY DEF Finish, Planned, NoPlan, Throws, JInv, Inv, RequestsOK, RequestOK
  <2>2. Plan(request[r].key, request[r].began) # Pending /\ Null # Pending
    BY DEF Plan, Pending, Null
  <2> QED BY <2>1, <2>2, ConstantsTyped DEF Finish, Planned, NoPlan, Throws
<1>2. /\ request[r].key \in Keys
      /\ \A x \in Requests \ {r} : request'[x] = request[x]
  BY <1>1 DEF Finish, Planned, NoPlan, Throws, Answer, JInv, Inv, RequestsOK, RequestOK
<1>3. CASE request[r].fresh
  <2>1. UNCHANGED <<inflight, promise>> /\ promise[r] # Pending
    BY <1>1, <1>3 DEF Settle, JInv, SharedOnly
  <2> QED BY <1>2, <2>1, OutsiderJoins
<1>4. CASE ~ request[r].fresh
  <2>1. \A k \in Keys : inflight'[k] = IF k = request[r].key THEN NoOne ELSE inflight[k]
    BY <1>1, <1>2, <1>4 DEF Settle, JInv, Inv, PromisesOK
  <2>2. \A x \in Requests : promise'[x] = IF x = r THEN value ELSE promise[x]
    BY <1>1, <1>4 DEF Settle, JInv, Inv, PromisesOK
  <2>3. \A k \in Keys : inflight'[k] # NoOne => inflight'[k] \in Requests \ {r}
    BY <2>1 DEF JInv, Inv, PromisesOK, JoinsOnlyTheRunning
  <2>4. JoinsOnlyTheRunning'
    BY <1>1, <1>2, <2>1, <2>2, <2>3 DEF JInv, JoinsOnlyTheRunning
  <2>5. SharedOnly'
    BY <1>1, <1>2, <2>2 DEF JInv, SharedOnly
  <2> QED BY <2>4, <2>5
<1> QED BY <1>3, <1>4

LEMMA JInvInit == Init => JInv
<1>1. Null # Pending
  BY DEF Null, Pending
<1> QED BY <1>1, InitInv DEF Init, JInv, JoinsOnlyTheRunning, SharedOnly

LEMMA JInvStep == JInv /\ [Next]_vars => JInv'
<1> SUFFICES ASSUME JInv, [Next]_vars PROVE JoinsOnlyTheRunning' /\ SharedOnly'
  BY StepInv DEF JInv
<1>1. ASSUME NEW r \in Requests, NEW k \in Keys, NEW fresh \in BOOLEAN, Arrive(r, k, fresh)
      PROVE  JoinsOnlyTheRunning' /\ SharedOnly'
  <2> DEFINE fields == [request[r] EXCEPT !.key = k, !.fresh = fresh, !.arrived = now]
  <2>1. promise[r] # Pending
    BY <1>1 DEF Arrive, JInv, JoinsOnlyTheRunning
  <2>2. CASE Compute(r, fields)
    <3>1. fields \in RequestStates /\ fields.key = k
      BY DEF JInv, Inv, RequestsOK, RequestStates, Times
    <3> QED BY <2>1, <2>2, <3>1, ComputeJoins
  <2>3. CASE UNCHANGED <<inflight, promise>> /\ \A x \in Requests \ {r} : request'[x] = request[x]
    BY <2>1, <2>3, OutsiderJoins
  <2> QED BY <1>1, <2>2, <2>3 DEF Arrive, Answer, JInv, Inv, RequestsOK
<1>2. ASSUME NEW r \in Requests, Resume(r)
      PROVE  JoinsOnlyTheRunning' /\ SharedOnly'
  <2>1. promise[r] # Pending
    BY <1>2 DEF Resume, JInv, JoinsOnlyTheRunning
  <2>2. CASE Compute(r, request[r])
    <3>1. request[r] \in RequestStates /\ request[r].key \in Keys
      BY <1>2 DEF Resume, JInv, Inv, RequestsOK, RequestOK
    <3> QED BY <2>1, <2>2, <3>1, ComputeJoins
  <2>3. CASE UNCHANGED <<inflight, promise>> /\ \A x \in Requests \ {r} : request'[x] = request[x]
    BY <2>1, <2>3, OutsiderJoins
  <2> QED BY <1>2, <2>2, <2>3 DEF Resume, Answer, JInv, Inv, RequestsOK
<1>3. ASSUME NEW r \in Requests, Finish(r)
      PROVE  JoinsOnlyTheRunning' /\ SharedOnly'
  BY <1>3, FinishJoins
<1>4. CASE Tick \/ UNCHANGED vars
  BY <1>4 DEF Tick, vars, JInv, JoinsOnlyTheRunning, SharedOnly
<1> QED BY <1>1, <1>2, <1>3, <1>4 DEF Next

\* Whatever the order in which computations begin, fail and finish, a request
\* can join only a computation that is running and will settle its promise.
THEOREM JoinsRunning == Spec => []JoinsOnlyTheRunning
<1>1. JInv => JoinsOnlyTheRunning
  BY DEF JInv
<1> QED BY <1>1, JInvInit, JInvStep, PTL DEF Spec

-----------------------------------------------------------------------------
\* How old what a request may be answered with can be.
Timely(q) ==
    /\ q.pc \in {"wait", "compute"} => q.arrived <= now
    /\ q.pc = "compute" => q.arrived <= q.began /\ q.began <= now /\ now - q.began <= MaxCompute

ReadFor(k, p) == p.kind = "plan" => p.key = k /\ p.read \in Nat /\ now - p.read <= MaxCompute

WaitsRight(q) ==
    q.pc = "wait" =>
        /\ ~ q.fresh
        /\ request[q.waitsFor].pc # "idle" /\ request[q.waitsFor].key = q.key
        /\ ReadFor(q.key, promise[q.waitsFor])

EntryTimely(e) == e # NoEntry => e.at <= now /\ e.at - e.read <= MaxCompute

TimelyInv ==
    /\ \A r \in Requests : Timely(request[r]) /\ WaitsRight(request[r])
    /\ \A k \in Keys : EntryTimely(cache[k])

CInv == JInv /\ TimelyInv

\* A step of one request: what it and those who wait for it need.
LEMMA OneMoves ==
    ASSUME CInv, NEW r \in Requests, now' = now,
           \A x \in Requests \ {r} : request'[x] = request[x] /\ promise'[x] = promise[x],
           request'[r].pc # "idle",
           request[r].pc # "idle" => request'[r].key = request[r].key,
           promise'[r] = promise[r] \/ ReadFor(request[r].key, promise'[r]),
           Timely(request'[r]), WaitsRight(request[r])',
           \A k \in Keys : EntryTimely(cache'[k])
    PROVE  TimelyInv'
<1>1. ASSUME NEW x \in Requests \ {r}
      PROVE  Timely(request[x])' /\ WaitsRight(request[x])'
  <2>1. Timely(request[x]) /\ WaitsRight(request[x]) /\ request'[x] = request[x]
    BY DEF CInv, TimelyInv
  <2>2. Timely(request[x])'
    BY <2>1 DEF Timely
  <2>3. CASE request[x].pc = "wait"
    <3>1. request[x].waitsFor \in Requests
      BY <2>3 DEF CInv, JInv, Inv, RequestsOK, RequestOK
    <3>2. ASSUME request[x].waitsFor = r
          PROVE  WaitsRight(request[x])'
      BY <2>1, <2>3, <3>2 DEF WaitsRight, ReadFor
    <3>3. ASSUME request[x].waitsFor \in Requests \ {r}
          PROVE  WaitsRight(request[x])'
      BY <2>1, <2>3, <3>3 DEF WaitsRight, ReadFor
    <3> QED BY <2>2, <3>1, <3>2, <3>3
  <2>4. CASE request[x].pc # "wait"
    BY <2>1, <2>2, <2>4 DEF WaitsRight
  <2> QED BY <2>3, <2>4
<1>2. Timely(request[r])'
  BY DEF Timely
<1>3. \A k \in Keys : EntryTimely(cache[k])'
  BY DEF EntryTimely
<1> QED BY <1>1, <1>2, <1>3 DEF TimelyInv

\* A request that is answered leaves no time to keep.
LEMMA AnswerTimely ==
    ASSUME CInv, NEW r \in Requests, NEW fields \in RequestStates, NEW answer, now' = now,
           Answer(r, fields, answer),
           request[r].pc # "idle" => fields.key = request[r].key,
           \A x \in Requests \ {r} : promise'[x] = promise[x],
           promise'[r] = promise[r] \/ ReadFor(request[r].key, promise'[r]),
           \A k \in Keys : EntryTimely(cache'[k])
    PROVE  TimelyInv'
<1>1. request' = [request EXCEPT ![r] =
          [Idle EXCEPT !.pc = "done", !.key = fields.key, !.fresh = fields.fresh, !.answer = answer]]
  BY DEF Answer
<1>2. /\ request'[r].pc = "done" /\ request'[r].key = fields.key
      /\ \A x \in Requests \ {r} : request'[x] = request[x]
  BY <1>1 DEF Idle, CInv, JInv, Inv, RequestsOK
<1>3. Timely(request'[r]) /\ WaitsRight(request[r])'
  BY <1>2 DEF Timely, WaitsRight
<1> QED BY <1>2, <1>3, OneMoves

\* A request that starts computing has just read.
LEMMA ComputeTimely ==
    ASSUME CInv, NEW r \in Requests, NEW fields \in RequestStates, now' = now, cache' = cache,
           fields.arrived \in Nat, fields.arrived <= now, Compute(r, fields),
           request[r].pc # "idle" => fields.key = request[r].key
    PROVE  TimelyInv'
<1>1. request' = [request EXCEPT ![r] = [fields EXCEPT !.pc = "compute", !.began = now]]
  BY DEF Compute
<1>2. /\ request'[r].pc = "compute" /\ request'[r].key = fields.key
      /\ request'[r].arrived = fields.arrived /\ request'[r].began = now
      /\ \A x \in Requests \ {r} : request'[x] = request[x]
  BY <1>1 DEF RequestStates, CInv, JInv, Inv, RequestsOK
<1>3. Timely(request'[r]) /\ WaitsRight(request[r])'
  BY <1>2, RouteServerAssumption DEF Timely, WaitsRight, CInv, JInv, Inv, RouteServerAssumption
<1>4. \A x \in Requests \ {r} : promise'[x] = promise[x]
  BY DEF Compute, CInv, JInv, Inv, PromisesOK
<1>5. promise'[r] = promise[r] \/ ReadFor(request[r].key, promise'[r])
  BY DEF Compute, CInv, JInv, Inv, PromisesOK, ReadFor, Pending
<1>6. \A k \in Keys : EntryTimely(cache'[k])
  BY DEF CInv, TimelyInv
<1> QED BY <1>2, <1>3, <1>4, <1>5, <1>6, OneMoves

\* What PlansAreCurrent asks of one request's step.
CurrentStep(r) ==
    request[r].pc # "done" /\ request'[r].pc = "done" /\ request'[r].answer.kind = "plan" =>
        /\ request'[r].answer.key = request'[r].key
        /\ IF request'[r].fresh THEN request'[r].answer.read >= request[r].arrived
                                ELSE now - request'[r].answer.read < TTL + MaxCompute

LEMMA ArriveCurrent ==
    ASSUME CInv, NEW r \in Requests, NEW k \in Keys, NEW fresh \in BOOLEAN, Arrive(r, k, fresh)
    PROVE  TimelyInv' /\ CurrentStep(r)
<1> DEFINE fields == [request[r] EXCEPT !.key = k, !.fresh = fresh, !.arrived = now]
<1>1. now' = now /\ cache' = cache /\ request[r].pc = "idle" /\ now \in Nat
  BY DEF Arrive, CInv, JInv, Inv
<1>2. /\ fields \in RequestStates /\ fields.key = k /\ fields.arrived = now
      /\ fields.fresh = fresh
  BY <1>1 DEF CInv, JInv, Inv, RequestsOK, RequestStates, Times
<1>3. \A x \in Keys : EntryTimely(cache'[x])
  BY <1>1 DEF CInv, TimelyInv
<1> HIDE DEF fields
<1>4. CASE Hit(k, fresh)
  <2>1. /\ Answer(r, fields, Plan(cache[k].key, cache[k].read)) /\ UNCHANGED <<inflight, promise>>
    BY <1>4 DEF Arrive, fields
  <2>2. TimelyInv'
    BY <1>1, <1>2, <1>3, <2>1, AnswerTimely
  <2>3. /\ request'[r].key = k /\ request'[r].fresh = fresh
        /\ request'[r].answer = Plan(cache[k].key, cache[k].read)
    BY <1>2, <2>1 DEF Answer, Idle, CInv, JInv, Inv, RequestsOK
  <2>4. /\ ~ fresh /\ now - cache[k].at < TTL /\ cache[k].key = k
        /\ cache[k].read \in Nat /\ cache[k].at \in Nat
        /\ cache[k].at - cache[k].read <= MaxCompute
    BY <1>4 DEF Hit, CInv, JInv, Inv, CacheOK, EntryOK, TimelyInv, EntryTimely
  <2>5. now - cache[k].read < TTL + MaxCompute
    BY <1>1, <2>4, RouteServerAssumption DEF RouteServerAssumption
  <2> QED BY <2>2, <2>3, <2>4, <2>5 DEF CurrentStep, Plan
<1>5. CASE ~ Hit(k, fresh) /\ Joins(k, fresh)
  <2>1. /\ request' = [request EXCEPT ![r] = [fields EXCEPT !.pc = "wait", !.waitsFor = inflight[k]]]
        /\ UNCHANGED <<inflight, promise>>
    BY <1>5 DEF Arrive, fields
  <2>2. /\ request'[r].pc = "wait" /\ request'[r].key = k /\ request'[r].fresh = fresh
        /\ request'[r].arrived = now /\ request'[r].waitsFor = inflight[k]
        /\ \A x \in Requests \ {r} : request'[x] = request[x]
    BY <1>2, <2>1 DEF RequestStates, CInv, JInv, Inv, RequestsOK
  <2>3. /\ ~ fresh /\ inflight[k] \in Requests \ {r}
        /\ request[inflight[k]].pc = "compute" /\ request[inflight[k]].key = k
        /\ promise[inflight[k]] = Pending
    BY <1>1, <1>5 DEF Joins, CInv, JInv, Inv, PromisesOK, JoinsOnlyTheRunning
  <2>4. WaitsRight(request[r])'
    BY <2>1, <2>2, <2>3 DEF WaitsRight, ReadFor, Pending
  <2>5. Timely(request'[r])
    BY <1>1, <2>2 DEF Timely
  <2>6. TimelyInv'
    BY <1>1, <1>3, <2>1, <2>2, <2>4, <2>5, OneMoves
  <2> QED BY <2>2, <2>6 DEF CurrentStep
<1>6. CASE ~ Hit(k, fresh) /\ ~ Joins(k, fresh)
  <2>1. Compute(r, fields)
    BY <1>6 DEF Arrive, fields
  <2>2. TimelyInv'
    BY <1>1, <1>2, <2>1, ComputeTimely
  <2>3. request'[r].pc = "compute"
    BY <1>2, <2>1 DEF Compute, RequestStates, CInv, JInv, Inv, RequestsOK
  <2> QED BY <2>2, <2>3 DEF CurrentStep
<1> QED BY <1>4, <1>5, <1>6

LEMMA ResumeCurrent ==
    ASSUME CInv, NEW r \in Requests, Resume(r)
    PROVE  TimelyInv' /\ CurrentStep(r)
<1>1. /\ now' = now /\ cache' = cache /\ now \in Nat
      /\ request[r].pc = "wait" /\ request[r] \in RequestStates /\ request[r].arrived \in Nat
      /\ request[r].arrived <= now
  BY DEF Resume, CInv, JInv, Inv, RequestsOK, RequestOK, TimelyInv, Timely
<1>2. \A x \in Keys : EntryTimely(cache'[x])
  BY <1>1 DEF CInv, TimelyInv
<1>3. ~ request[r].fresh /\ ReadFor(request[r].key, promise[request[r].waitsFor])
  BY <1>1 DEF CInv, TimelyInv, WaitsRight
<1>4. CASE promise[request[r].waitsFor] # Null
  <2>1. Answer(r, request[r], promise[request[r].waitsFor]) /\ UNCHANGED <<inflight, promise>>
    BY <1>4 DEF Resume
  <2>2. TimelyInv'
    BY <1>1, <1>2, <2>1, AnswerTimely
  <2>3. /\ request'[r].key = request[r].key /\ request'[r].fresh = request[r].fresh
        /\ request'[r].answer = promise[request[r].waitsFor]
    BY <2>1 DEF Answer, Idle, CInv, JInv, Inv, RequestsOK
  <2> QED BY <1>1, <1>3, <2>2, <2>3, RouteServerAssumption DEF CurrentStep, ReadFor, RouteServerAssumption
<1>5. CASE promise[request[r].waitsFor] = Null
  <2>1. Compute(r, request[r])
    BY <1>5 DEF Resume
  <2>2. TimelyInv'
    BY <1>1, <2>1, ComputeTimely
  <2>3. request'[r].pc = "compute"
    BY <1>1, <2>1 DEF Compute, RequestStates, CInv, JInv, Inv, RequestsOK
  <2> QED BY <2>2, <2>3 DEF CurrentStep
<1> QED BY <1>4, <1>5

LEMMA FinishCurrent ==
    ASSUME CInv, NEW r \in Requests, Finish(r)
    PROVE  TimelyInv' /\ CurrentStep(r)
<1> DEFINE k == request[r].key
           plan == Plan(k, request[r].began)
<1>1. /\ now' = now /\ now \in Nat /\ request[r].pc = "compute" /\ request[r] \in RequestStates
      /\ k \in Keys /\ request[r].arrived \in Nat /\ request[r].began \in Nat
      /\ request[r].arrived <= request[r].began /\ request[r].began <= now
      /\ now - request[r].began <= MaxCompute
  BY DEF Finish, Planned, NoPlan, Throws, CInv, JInv, Inv, RequestsOK, RequestOK, TimelyInv, Timely
<1>2. ReadFor(k, plan) /\ ReadFor(k, Null)
  BY <1>1 DEF ReadFor, Plan, Null
<1>3. ASSUME NEW value, Settle(r, value), ReadFor(k, value)
      PROVE  /\ \A x \in Requests \ {r} : promise'[x] = promise[x]
             /\ promise'[r] = promise[r] \/ ReadFor(k, promise'[r])
  BY <1>3 DEF Settle, CInv, JInv, Inv, PromisesOK
<1>4. ASSUME NEW answer, Answer(r, request[r], answer)
      PROVE  /\ request'[r].key = k /\ request'[r].fresh = request[r].fresh
             /\ request'[r].answer = answer
  BY <1>4 DEF Answer, Idle, CInv, JInv, Inv, RequestsOK
<1>5. CASE Planned(r)
  <2> DEFINE e == [key |-> k, read |-> plan.read, at |-> now]
  <2>1. cache' = [Kept EXCEPT ![k] = e] /\ Settle(r, plan) /\ Answer(r, request[r], plan)
    BY <1>5 DEF Planned
  <2>2. EntryTimely(e)
    BY <1>1 DEF EntryTimely, Plan
  <2>3. \A x \in Keys : EntryTimely(Kept[x])
    BY DEF CInv, TimelyInv, Kept, EntryTimely
  <2>4. Kept \in [Keys -> CacheEntries]
    BY ConstantsTyped DEF Kept, CInv, JInv, Inv, CacheOK
  <2> HIDE DEF e
  <2>5. \A x \in Keys : EntryTimely(cache'[x])
    BY <2>1, <2>2, <2>3, <2>4
  <2> HIDE DEF plan
  <2>6. TimelyInv'
    BY <1>1, <1>2, <1>3, <2>1, <2>5, AnswerTimely
  <2>7. request'[r].key = k /\ request'[r].fresh = request[r].fresh /\ request'[r].answer = plan
    BY <1>4, <2>1
  <2>8. plan.key = k /\ plan.read = request[r].began
    BY DEF plan, Plan
  <2>9. plan.read >= request[r].arrived /\ now - plan.read < TTL + MaxCompute
    <3> DEFINE began == request[r].began
               arrived == request[r].arrived
    <3>1. began \in Nat /\ arrived \in Nat /\ arrived <= began /\ now - began <= MaxCompute
      BY <1>1
    <3> HIDE DEF began, arrived
    <3>3. TTL \in Nat /\ TTL >= 1 /\ MaxCompute \in Nat
      BY RouteServerAssumption
    <3>4. now \in Nat
      BY <1>1
    <3>2. began >= arrived /\ now - began < TTL + MaxCompute
      BY <3>1, <3>3, <3>4
    <3> QED BY <2>8, <3>2 DEF began, arrived
  <2> QED BY <2>6, <2>7, <2>8, <2>9 DEF CurrentStep
<1>6. CASE NoPlan(r) \/ Throws(r)
  <2>1. PICK answer : Answer(r, request[r], answer) /\ answer.kind # "plan"
    BY <1>6 DEF NoPlan, Throws, Empty, Failed
  <2>2. cache' = cache /\ Settle(r, Null)
    BY <1>6 DEF NoPlan, Throws
  <2>3. \A x \in Keys : EntryTimely(cache'[x])
    BY <2>2 DEF CInv, TimelyInv
  <2>4. TimelyInv'
    BY <1>1, <1>2, <1>3, <2>1, <2>2, <2>3, AnswerTimely
  <2> QED BY <1>4, <2>1, <2>4 DEF CurrentStep
<1> QED BY <1>5, <1>6 DEF Finish

\* While a promise is settled no time passes before its waiters resume.
LEMMA TickTimely ==
    ASSUME CInv, Tick
    PROVE  TimelyInv'
<1>1. now' = now + 1 /\ now \in Nat /\ UNCHANGED <<cache, inflight, promise, request>>
  BY DEF Tick, CInv, JInv, Inv
<1>2. ASSUME NEW r \in Requests
      PROVE  Timely(request[r])' /\ WaitsRight(request[r])'
  <2>1. Timely(request[r]) /\ WaitsRight(request[r]) /\ RequestOK(request[r])
    BY DEF CInv, JInv, Inv, RequestsOK, TimelyInv
  <2>2. Timely(request[r])'
    BY <1>1, <2>1, RouteServerAssumption DEF Tick, Timely, RequestOK, RouteServerAssumption
  <2>3. WaitsRight(request[r])'
    BY <1>1, <2>1 DEF Tick, WaitsRight, ReadFor, Pending
  <2> QED BY <2>2, <2>3
<1>3. \A k \in Keys : EntryTimely(cache[k])'
  BY <1>1 DEF CInv, JInv, Inv, CacheOK, EntryOK, TimelyInv, EntryTimely
<1> QED BY <1>2, <1>3 DEF TimelyInv

LEMMA CInvInit == Init => CInv
<1>1. Init => TimelyInv
  BY DEF Init, TimelyInv, Timely, WaitsRight, EntryTimely, Idle
<1> QED BY <1>1, JInvInit DEF CInv

LEMMA CInvStep == CInv /\ [Next]_vars => CInv' /\ \A r \in Requests : CurrentStep(r)
<1> SUFFICES ASSUME CInv, [Next]_vars
             PROVE  TimelyInv' /\ \A r \in Requests : CurrentStep(r)
  BY JInvStep DEF CInv
<1>1. ASSUME NEW r \in Requests, \A x \in Requests \ {r} : request'[x] = request[x], CurrentStep(r)
      PROVE  \A x \in Requests : CurrentStep(x)
  BY <1>1 DEF CurrentStep
<1>2. ASSUME NEW r \in Requests, NEW k \in Keys, NEW fresh \in BOOLEAN, Arrive(r, k, fresh)
      PROVE  TimelyInv' /\ \A x \in Requests : CurrentStep(x)
  <2>1. \A x \in Requests \ {r} : request'[x] = request[x]
    BY <1>2 DEF Arrive, Answer, Compute, CInv, JInv, Inv, RequestsOK
  <2> QED BY <1>1, <1>2, <2>1, ArriveCurrent
<1>3. ASSUME NEW r \in Requests, Resume(r)
      PROVE  TimelyInv' /\ \A x \in Requests : CurrentStep(x)
  <2>1. \A x \in Requests \ {r} : request'[x] = request[x]
    BY <1>3 DEF Resume, Answer, Compute, CInv, JInv, Inv, RequestsOK
  <2> QED BY <1>1, <1>3, <2>1, ResumeCurrent
<1>4. ASSUME NEW r \in Requests, Finish(r)
      PROVE  TimelyInv' /\ \A x \in Requests : CurrentStep(x)
  <2>1. \A x \in Requests \ {r} : request'[x] = request[x]
    BY <1>4 DEF Finish, Planned, NoPlan, Throws, Answer, CInv, JInv, Inv, RequestsOK
  <2> QED BY <1>1, <1>4, <2>1, FinishCurrent
<1>5. CASE Tick
  <2>1. request' = request
    BY <1>5 DEF Tick
  <2> QED BY <1>5, <2>1, TickTimely DEF CurrentStep
<1>6. CASE UNCHANGED vars
  BY <1>6 DEF vars, CInv, TimelyInv, Timely, WaitsRight, ReadFor, EntryTimely, CurrentStep
<1> QED BY <1>2, <1>3, <1>4, <1>5, <1>6 DEF Next

\* Every plan answered is for the key asked, was read after a request that
\* must not take a cached one, and is otherwise younger than the lifetime of
\* the cache plus one computation.
THEOREM Current == Spec => PlansAreCurrent
<1>1. CInv /\ [Next]_vars => [\A r \in Requests : CurrentStep(r)]_vars
  BY CInvStep
<1>2. Spec => [][\A r \in Requests : CurrentStep(r)]_vars
  BY <1>1, CInvInit, CInvStep, PTL DEF Spec
<1> QED BY <1>2 DEF PlansAreCurrent, CurrentStep

\* The cache stays bounded, and no request waits for a computation that has
\* ended (route.ts:14-62, 307-325).
THEOREM BoundedAndRunning == Spec => []RouteInv
<1>1. TypeOK /\ JoinsOnlyTheRunning => RouteInv
  BY DEF RouteInv
<1> QED BY <1>1, TypeCorrect, JoinsRunning, PTL

-----------------------------------------------------------------------------
(***************************************************************************)
(* Records: what is told of the past is what the chain logged.  A block's  *)
(* transaction is one the contracts allow; the index is what its handlers  *)
(* make of the blocks it has handled; a scan holds what is logged from its *)
(* head down to where it has paged; and a request has its answer from the  *)
(* one or from the other.                                                  *)
(***************************************************************************)
Word == {"fill", "skip"}
Transaction == [kind : {"ship", "dock", "direct", "swap"}, s : Strategies, did : Seq(Word)]

\* A strategy ships once, closes once while open, and fills in between; the
\* hook's own list names those of its router, which may be closed by now.
Allowed(k) ==
    LET tx == chain[k] IN
    /\ tx.kind \in {"ship", "dock"} => tx.did = <<>>
    /\ tx.kind = "ship" => tx.s \notin ShippedBy(k - 1)
    /\ tx.kind = "dock" => tx.s \in OpenAt(k - 1)
    /\ tx.kind \in {"direct", "swap"} => tx.s \in ShippedBy(k - 1)
    /\ tx.kind = "direct" => tx.did = <<"fill">>
    /\ tx.kind = "swap" => tx.s \in Ours

ChainOK ==
    /\ chain \in Seq(Transaction) /\ Latest <= MaxBlock
    /\ \A k \in 1 .. Latest : Allowed(k)
    /\ indexed \in 0 .. Latest /\ faults \in 0 .. MaxFaults

-----------------------------------------------------------------------------
Ids == [app : {AppOf[s] : s \in Strategies} \cup {Router}, hash : {HashOf[s] : s \in Strategies}]
Refusal == [id : [tx : Nat, maker : Makers, hash : {HashOf[s] : s \in Strategies}], strategy : Ids]
Entities == [known : SUBSET Ids, live : SUBSET Strategies, refusals : SUBSET Refusal, unmatched : Nat,
             skips : [Makers -> Nat], fills : [Makers -> Nat]]

IdsBy(b) == {StrategyId(s) : s \in ShippedBy(b)}
RefusedIn(m, b) == {k \in 1 .. b : Logs("refusals", k) # {} /\ Owner[chain[k].s] = m}
Of(logs, m) == {log \in logs : MakerOf(log) = m}

IndexOK ==
    /\ index \in Entities
    /\ index.known = IdsBy(indexed) /\ index.live = OpenAt(indexed) /\ index.unmatched = 0
    /\ \A r \in index.refusals : r.strategy \in index.known /\ r.id.tx <= indexed
    /\ \A m \in Makers : /\ index.skips[m] = Cardinality(RefusedIn(m, indexed))
                         /\ index.fills[m] >= Cardinality(Of(LogsIn("fills", 1, indexed), m))

-----------------------------------------------------------------------------
Log == Nat \X Nat
Scan == [pc : {"idle", "head", "page", "done", "failed"}, floor : Nat, top : Nat, end : Int, pages : Nat, out : Seq(Log),
         docks : SUBSET {HashOf[s] : s \in Strategies}]

HashesDocked(a, b) == {HashOf[s] : s \in {x \in DockedIn(a, b) : Owner[x] = ask.maker}}

\* What a scan has read, down to a block.
HasRead(k, low) ==
    LET q == scan[k] IN
    /\ ToSet(q.out) = LogsIn(k, low, q.top) /\ IsInjective(q.out)
    /\ k = "strategies" => q.docks = HashesDocked(low, q.top)

FloorOK(k) ==
    IF k \in {"fills", "refusals"}
    THEN /\ ask.kind = "reliability" /\ ask.pc \in {"scanning", "answered"}
         /\ scan[k].pc # "failed" => scan[k].floor = WindowFloor("fills", ask.began)
    ELSE /\ ask.kind = "history" /\ scan[k].pc # "failed" /\ ask.pc # "failed"
         /\ k = "strategies" => ask.pc \in {"paging", "answered"} /\ ask.source = "log"
         /\ scan[k].pc \in {"page", "done"} => scan[k].floor = WindowFloor(k, scan[k].top)

ScanOK(k) ==
    LET q == scan[k] IN
    /\ q.top <= Latest
    /\ q.pc # "idle" => FloorOK(k)
    /\ q.pc = "idle" => q = IdleScan
    /\ q.pc = "head" => q = Begun(q.floor)
    /\ q.pc = "failed" => q = [IdleScan EXCEPT !.pc = "failed"]
    /\ q.pc \in {"page", "done"} => ask.began <= q.top
    /\ q.pc = "page" => /\ q.pages < Budget(k) /\ q.end = q.top - q.pages * (Page + 1) /\ q.floor <= q.end + 1
                        /\ HasRead(k, q.end + 1)
    /\ q.pc = "done" => q.pages <= Budget(k) /\ HasRead(k, Lowest(k))

ScansOK == scan \in [Kinds -> Scan] /\ \A k \in Kinds : ScanOK(k)

-----------------------------------------------------------------------------
\* What the subgraph answers at a block.
GraphAnswers(b) ==
    CASE ask.kind = "history" ->
           {{[s |-> s, active |-> s \in OpenAt(b)] : s \in {x \in Ours : StrategyId(x) \in IdsBy(b) /\ Owner[x] = ask.maker}}}
      [] ask.kind = "apps"    -> {appBreakdown(some) : some \in FirstOf(OpenAt(b))}
      [] ask.kind = "pairs"   -> {liquidPairsFromGraph(some) : some \in FirstOf(OpenAt(b) \cap Ours)}

Verdicts ==
    {[maker |-> m, fills |-> CountOf("fills", m), skips |-> CountOf("refusals", m),
      status |-> Status(CountOf("fills", m), CountOf("refusals", m))] :
        m \in {x \in Makers : CountOf("fills", x) + CountOf("refusals", x) > 0}}

Stages(kind) ==
    CASE kind = "none"             -> {"idle"}
      [] kind = "reliability"      -> {"scanning", "answered"}
      [] kind = "history"          -> {"fresh", "query", "await", "paging", "answered", "failed"}
      [] kind \in {"apps", "pairs"} -> {"fresh", "query", "answered"}

Fields == {"kind", "pc", "maker", "began", "source", "at", "rows", "swaps"}

AskOK ==
    /\ DOMAIN ask = Fields
    /\ ask.kind \in {"none", "reliability", "history", "apps", "pairs"} /\ ask.pc \in Stages(ask.kind)
    /\ ask.source \in {"none", "graph", "log"}
    /\ ask.began \in 0 .. Latest /\ ask.at \in 0 .. Latest
    /\ ask.pc = "query" => indexed >= ask.began - MaxLag
    /\ ask.pc \in {"fresh", "query"} => ask.source = "none"
    /\ ask.kind = "reliability" => ask.source = "none"
    /\ ask.pc = "paging" => ask.source = "log" /\ scan["swaps"].pc = "done"
    /\ ask.source = "log" => ask.kind = "history"
    /\ ask.source = "graph" => /\ ask.kind \in {"history", "apps", "pairs"} /\ ask.at >= ask.began - MaxLag
                               /\ ask.rows \in GraphAnswers(ask.at)
    /\ ask.kind = "reliability" /\ ask.pc = "answered" =>
          /\ \A k \in {"fills", "refusals"} : scan[k].pc \in {"done", "failed"}
          /\ ask.rows = Verdicts
    /\ ask.kind = "history" /\ ask.pc = "answered" =>
          /\ ask.source # "none" /\ scan["swaps"].pc = "done" /\ ask.swaps = SwapHistory
          /\ ask.source = "log" => /\ scan["strategies"].pc = "done" /\ ask.at = scan["strategies"].top
                                   /\ ask.rows = PagedRows

\* The inductive invariant.
HInv == ChainOK /\ IndexOK /\ ScansOK /\ AskOK
-----------------------------------------------------------------------------
(***************************************************************************)
(* Sets of numbers, and sets written down as sequences.                    *)
(***************************************************************************)
LEMMA Least == ASSUME NEW T, T \subseteq Nat, T # {} PROVE \E n \in T : \A m \in T : n <= m
<1> DEFINE R == OpToRel(<, Nat)
<1>1. IsWellFoundedOn(R, Nat)
  BY NatLessThanWellFounded
<1>2. \A m, n \in Nat : m < n => <<m, n>> \in R
  BY DEF OpToRel
<1> HIDE DEF R
<1>3. PICK n \in T : \A m \in T : ~ (<<m, n>> \in R)
  BY <1>1, WFMin
<1>4. \A m \in T : ~ (m < n)
  BY <1>2, <1>3
<1> QED
  BY <1>3, <1>4

\* What holds of 0, and of a number when it holds of the one before, holds up to n.
LEMMA Climb ==
    ASSUME NEW n \in Nat, NEW Good, 0 \in Good, \A i \in 1 .. n : i - 1 \in Good => i \in Good
    PROVE  \A i \in 0 .. n : i \in Good
<1> DEFINE Bad == {i \in 0 .. n : i \notin Good}
<1>1. SUFFICES ASSUME Bad # {} PROVE FALSE
  OBVIOUS
<1>5. Bad \subseteq Nat
  OBVIOUS
<1>2. PICK i \in Bad : \A j \in Bad : i <= j
  BY <1>1, <1>5, Least
<1>3. i \in 1 .. n /\ i - 1 \in 0 .. n /\ i - 1 < i
  BY <1>2
<1>4. i - 1 \in Good
  BY <1>2, <1>3
<1> QED
  BY <1>2, <1>3, <1>4

LEMMA Listing ==
    ASSUME NEW S, IsFiniteSet(S)
    PROVE  /\ SetToSeq(S) \in Seq(S) /\ IsInjective(SetToSeq(S)) /\ ToSet(SetToSeq(S)) = S
           /\ Len(SetToSeq(S)) = Cardinality(S)
<1> DEFINE n == Cardinality(S)
           q == SetToSeq(S)
<1>1. n \in Nat /\ ExistsBijection(1 .. n, S)
  BY FS_CardinalityType
<1>2. PICK b : b \in Bijection(1 .. n, S)
  BY <1>1 DEF ExistsBijection
<1>3. b \in [1 .. n -> S] /\ IsInjective(b)
  BY <1>2 DEF Bijection, Injection
<1>4. q \in [1 .. n -> S] /\ IsInjective(q)
  BY <1>3 DEF SetToSeq
<1>5. q \in Injection(1 .. n, S)
  BY <1>4 DEF Injection
<1>6. Cardinality(1 .. n) = n
  BY <1>1, FS_Interval
<1>7. q \in Surjection(1 .. n, S)
  BY <1>5, <1>6, FS_Injection
<1>8. \A x \in S : \E i \in 1 .. n : q[i] = x
  BY <1>7 DEF Surjection
<1> HIDE DEF n, q
<1>9. q \in Seq(S) /\ Len(q) = n
  BY <1>1, <1>4
<1>10. ToSet(q) = S
  BY <1>4, <1>8 DEF ToSet
<1> QED
  BY <1>4, <1>9, <1>10 DEF n, q

\* A list without repeats, and what it is of.
LEMMA Counted ==
    ASSUME NEW S, NEW q \in Seq(S), IsInjective(q), NEW Part, Part \subseteq ToSet(q)
    PROVE  /\ IsFiniteSet(Part) /\ IsFiniteSet(ToSet(q))
           /\ Cardinality({i \in DOMAIN q : q[i] \in Part}) = Cardinality(Part)
<1> DEFINE at == {i \in DOMAIN q : q[i] \in Part}
           f == [i \in at |-> q[i]]
<1>1. DOMAIN q = 1 .. Len(q) /\ Len(q) \in Nat
  OBVIOUS
<1>2. IsFiniteSet(1 .. Len(q))
  BY <1>1, FS_Interval
<1>3. IsFiniteSet(at)
  BY <1>1, <1>2, FS_Subset
<1>4. f \in [at -> Part] /\ \A x \in Part : \E i \in at : f[i] = x
  BY DEF ToSet
<1>5. IsInjective(f)
  BY DEF IsInjective
<1>6. f \in Bijection(at, Part)
  BY <1>4, <1>5 DEF Bijection, Injection, Surjection
<1>7. ExistsBijection(at, Part)
  BY <1>6 DEF ExistsBijection
<1>8. IsFiniteSet(Part) /\ Cardinality(Part) = Cardinality(at)
  BY <1>3, <1>7, FS_Bijection
<1> DEFINE g == [i \in 1 .. Len(q) |-> q[i]]
<1>9. g \in Surjection(1 .. Len(q), ToSet(q))
  BY <1>1 DEF Surjection, ToSet
<1>10. IsFiniteSet(ToSet(q))
  BY <1>2, <1>9, FS_Surjection
<1> QED
  BY <1>8, <1>10

-----------------------------------------------------------------------------
(***************************************************************************)
(* The chain only grows: what is told of a block stays.                    *)
(***************************************************************************)
LEMMA ChainIs ==
    ASSUME ChainOK
    PROVE  /\ Latest \in Nat /\ DOMAIN chain = 1 .. Latest /\ indexed \in Nat /\ indexed <= Latest
           /\ \A k \in 1 .. Latest : chain[k] \in Transaction
BY DEF ChainOK, Latest

LEMMA Outlasts ==
    ASSUME ChainOK
    PROVE  \A s \in Strategies, a, b \in 0 .. Latest :
              a <= b => (s \in ShippedBy(a) => s \in ShippedBy(b)) /\ (s \in DockedBy(a) => s \in DockedBy(b))
BY ChainIs DEF ShippedBy, DockedBy

\* What a block has logged, by where.
LEMMA LogsAre ==
    ASSUME ChainOK, NEW kind \in Kinds, NEW b \in 1 .. Latest
    PROVE  /\ \A log \in Logs(kind, b) : log[1] = b /\ log \in Nat \X Nat
           /\ IsFiniteSet(Logs(kind, b))
           /\ kind \in {"swaps", "strategies"} => Logs(kind, b) \in {{}, {<<b, 0>>}}
<1> DEFINE did == chain[b].did
           all == {<<b, i>> : i \in DOMAIN did}
           f == [i \in 1 .. Len(did) |-> <<b, i>>]
<1>1. did \in Seq(Word) /\ DOMAIN did = 1 .. Len(did) /\ Len(did) \in Nat
  BY ChainIs DEF Transaction
<1>2. b \in Nat
  BY ChainIs
<1>3. f \in Surjection(1 .. Len(did), all)
  BY <1>1 DEF Surjection
<1>4. IsFiniteSet(all)
  BY <1>1, <1>3, FS_Surjection, FS_Interval
<1>5. kind \in {"fills", "refusals"} => Logs(kind, b) \subseteq all
  BY DEF Logs
<1>6. kind \in {"swaps", "strategies"} => Logs(kind, b) \in {{}, {<<b, 0>>}}
  BY DEF Logs
<1> HIDE DEF did
<1>7. \A log \in all : log[1] = b /\ log \in Nat \X Nat
  BY <1>1, <1>2
<1> HIDE DEF all
<1>8. \A log \in {<<b, 0>>} : log[1] = b /\ log \in Nat \X Nat
  BY <1>2
<1>9. IsFiniteSet({<<b, 0>>}) /\ IsFiniteSet({})
  BY FS_Singleton, FS_EmptySet
<1>10. CASE kind \in {"fills", "refusals"}
  BY <1>4, <1>5, <1>7, <1>10, FS_Subset
<1>11. CASE kind \in {"swaps", "strategies"}
  BY <1>6, <1>8, <1>9, <1>11
<1> QED
  BY <1>10, <1>11 DEF Kinds

\* Logs of a range of blocks, range by range.
LEMMA RangesAre ==
    ASSUME ChainOK, NEW kind \in Kinds
    PROVE  /\ \A a, b \in Int : \A log : log \in LogsIn(kind, a, b) <=>
                 log[1] \in a .. b /\ log[1] \in 1 .. Latest /\ log \in Logs(kind, log[1])
           /\ \A a, b \in Int : \A log \in LogsIn(kind, a, b) : log \in Log
<1>1. ASSUME NEW a \in Int, NEW b \in Int, NEW log
      PROVE  log \in LogsIn(kind, a, b) <=> log[1] \in a .. b /\ log[1] \in 1 .. Latest /\ log \in Logs(kind, log[1])
  <2>1. log \in LogsIn(kind, a, b) <=> \E k \in a .. b : k \in 1 .. Latest /\ log \in Logs(kind, k)
    BY DEF LogsIn
  <2>2. \A k \in 1 .. Latest : log \in Logs(kind, k) => log[1] = k
    BY LogsAre
  <2> QED
    BY <2>1, <2>2
<1>2. \A k \in 1 .. Latest : \A log \in Logs(kind, k) : log \in Log
  BY LogsAre DEF Log
<1> QED
  BY <1>1, <1>2

LEMMA RangeFinite ==
    ASSUME ChainOK, NEW kind \in Kinds, NEW a \in Int, NEW b \in Nat
    PROVE  IsFiniteSet(LogsIn(kind, a, b))
<1> DEFINE Good == {i \in 0 .. b : IsFiniteSet(LogsIn(kind, a, i))}
<1>0. a .. 0 \cap 1 .. Latest = {}
  BY ChainIs
<1>1. LogsIn(kind, a, 0) = {}
  <2>1. \A log : log \notin LogsIn(kind, a, 0)
    BY <1>0, RangesAre, 0 \in Int
  <2> QED
    BY <2>1
<1>2. 0 \in Good
  BY <1>1, FS_EmptySet
<1>3. ASSUME NEW i \in 1 .. b, i - 1 \in Good PROVE i \in Good
  <2> DEFINE new == IF i \in 1 .. Latest /\ a <= i THEN Logs(kind, i) ELSE {}
  <2>1. \A log : log \in LogsIn(kind, a, i) <=> log \in LogsIn(kind, a, i - 1) \/ log \in new
    <3>1. i \in Int /\ i - 1 \in Int
      OBVIOUS
    <3>2. \A log : log \in new <=> log[1] = i /\ a <= i /\ log[1] \in 1 .. Latest /\ log \in Logs(kind, log[1])
      BY LogsAre
    <3>3. \A k \in Int : k \in a .. i <=> k \in a .. i - 1 \/ (k = i /\ a <= i)
      BY <3>1
    <3>4. \A k \in 1 .. Latest : k \in Int
      BY ChainIs
    <3> HIDE DEF new
    <3> QED
      BY <3>1, <3>2, <3>3, <3>4, RangesAre
  <2>2. LogsIn(kind, a, i) = LogsIn(kind, a, i - 1) \cup new
    BY <2>1
  <2>3. IsFiniteSet(new)
    BY LogsAre, FS_EmptySet
  <2>4. IsFiniteSet(LogsIn(kind, a, i - 1))
    BY <1>3
  <2> HIDE DEF new
  <2>6. IsFiniteSet(LogsIn(kind, a, i - 1) \cup new)
    BY <2>3, <2>4, FS_Union
  <2>5. IsFiniteSet(LogsIn(kind, a, i))
    BY <2>2, <2>6
  <2> QED
    BY <1>3, <2>5
<1> HIDE DEF Good
<1>4. b \in Good
  BY <1>2, <1>3, Climb
<1> QED
  BY <1>4 DEF Good
Grows == Len(chain) <= Len(chain') /\ \A k \in 1 .. Len(chain) : chain'[k] = chain[k]

\* What is told of blocks that were there.
LEMMA Stays ==
    ASSUME ChainOK, Grows, Len(chain') \in Nat
    PROVE  /\ \A b \in 0 .. Latest : /\ ShippedBy(b)' = ShippedBy(b) /\ DockedBy(b)' = DockedBy(b) /\ OpenAt(b)' = OpenAt(b)
                                     /\ IdsBy(b)' = IdsBy(b)
           /\ \A kind \in Kinds, b \in 1 .. Latest : Logs(kind, b)' = Logs(kind, b)
           /\ \A kind \in Kinds, a, b \in Int : b <= Latest => LogsIn(kind, a, b)' = LogsIn(kind, a, b)
           /\ \A a, b \in Int : b <= Latest => DockedIn(a, b)' = DockedIn(a, b)
           /\ \A log : log[1] \in 1 .. Latest => MakerOf(log)' = MakerOf(log)
           /\ \A k \in 1 .. Latest : Allowed(k)' <=> Allowed(k)
<1>1. Latest \in Nat /\ Latest' \in Nat /\ Latest <= Latest' /\ \A k \in 1 .. Latest : chain'[k] = chain[k] /\ k \in 1 .. Latest'
  BY ChainIs DEF Grows, Latest
<1>2. ASSUME NEW b \in 0 .. Latest PROVE ShippedBy(b)' = ShippedBy(b) /\ DockedBy(b)' = DockedBy(b) /\ OpenAt(b)' = OpenAt(b)
  <2>1. \A k \in 1 .. b : chain'[k] = chain[k]
    BY <1>1
  <2>2. ShippedBy(b)' = ShippedBy(b)
    BY <2>1 DEF ShippedBy
  <2>3. DockedBy(b)' = DockedBy(b)
    BY <2>1 DEF DockedBy
  <2> QED
    BY <2>2, <2>3 DEF OpenAt
<1>3. ASSUME NEW b \in 0 .. Latest PROVE IdsBy(b)' = IdsBy(b)
  BY <1>2 DEF IdsBy
<1>4. ASSUME NEW kind \in Kinds, NEW b \in 1 .. Latest PROVE Logs(kind, b)' = Logs(kind, b)
  BY <1>1 DEF Logs
<1>5. ASSUME NEW kind \in Kinds, NEW a \in Int, NEW b \in Int, b <= Latest PROVE LogsIn(kind, a, b)' = LogsIn(kind, a, b)
  <2>1. {x \in a .. b : x \in 1 .. Latest} = {x \in a .. b : x \in 1 .. Latest'}
    BY <1>1, <1>5
  <2>2. {Logs(kind, k)' : k \in {x \in a .. b : x \in 1 .. Latest}} = {Logs(kind, k) : k \in {x \in a .. b : x \in 1 .. Latest}}
    BY <1>4
  <2> QED
    BY <2>1, <2>2 DEF LogsIn
<1>6. ASSUME NEW a \in Int, NEW b \in Int, b <= Latest PROVE DockedIn(a, b)' = DockedIn(a, b)
  <2>1. \A x \in a .. b : (x \in 1 .. Latest <=> x \in 1 .. Latest') /\ (x \in 1 .. Latest => chain'[x] = chain[x])
    BY <1>1, <1>6
  <2> QED
    BY <2>1 DEF DockedIn
<1>7. ASSUME NEW log, log[1] \in 1 .. Latest PROVE MakerOf(log)' = MakerOf(log)
  BY <1>1, <1>7 DEF MakerOf
<1>8. ASSUME NEW k \in 1 .. Latest PROVE Allowed(k)' <=> Allowed(k)
  <2>1. k - 1 \in 0 .. Latest
    BY <1>1
  <2> QED
    BY <1>1, <1>2, <2>1 DEF Allowed
<1> QED
  BY <1>2, <1>3, <1>4, <1>5, <1>6, <1>7, <1>8

LEMMA MineGrows == ASSUME ChainOK, Mine PROVE ChainOK' /\ Grows
<1>1. Latest \in Nat /\ chain \in Seq(Transaction) /\ Latest = Len(chain) /\ Latest < MaxBlock
  BY ChainIs DEF ChainOK, Mine, Latest
<1>2. PICK tx : /\ chain' = Append(chain, tx)
                /\ \/ \E s \in Strategies \ ShippedBy(Latest) : tx = Tx("ship", s, <<>>)
                   \/ \E s \in OpenAt(Latest) : tx = Tx("dock", s, <<>>)
                   \/ \E s \in OpenAt(Latest) : tx = Tx("direct", s, <<"fill">>)
                   \/ \E s \in ShippedBy(Latest) \cap Ours, did \in Outcomes : tx = Tx("swap", s, did)
  BY DEF Mine
<1>3. ShippedBy(Latest) \subseteq Strategies /\ OpenAt(Latest) \subseteq ShippedBy(Latest)
  BY RecordsAssumption DEF ShippedBy, OpenAt
<1>4. /\ tx \in Transaction
      /\ tx.kind \in {"ship", "dock"} => tx.did = <<>>
      /\ tx.kind = "ship" => tx.s \notin ShippedBy(Latest)
      /\ tx.kind = "dock" => tx.s \in OpenAt(Latest)
      /\ tx.kind \in {"direct", "swap"} => tx.s \in ShippedBy(Latest)
      /\ tx.kind = "direct" => tx.did = <<"fill">>
      /\ tx.kind = "swap" => tx.s \in Ours
  <2>1. <<>> \in Seq(Word) /\ <<"fill">> \in Seq(Word) /\ Outcomes \subseteq Seq(Word)
    BY RecordsAssumption DEF Word
  <2>2. CASE \E s \in Strategies \ ShippedBy(Latest) : tx = Tx("ship", s, <<>>)
    BY <2>1, <2>2 DEF Tx, Transaction
  <2>3. CASE \E s \in OpenAt(Latest) : tx = Tx("dock", s, <<>>)
    BY <1>3, <2>1, <2>3 DEF Tx, Transaction
  <2>4. CASE \E s \in OpenAt(Latest) : tx = Tx("direct", s, <<"fill">>)
    BY <1>3, <2>1, <2>4 DEF Tx, Transaction
  <2>5. CASE \E s \in ShippedBy(Latest) \cap Ours, did \in Outcomes : tx = Tx("swap", s, did)
    <3> PICK s \in ShippedBy(Latest) \cap Ours, did \in Outcomes : tx = Tx("swap", s, did)
      BY <2>5
    <3>1. tx = [kind |-> "swap", s |-> s, did |-> did] /\ did \in Seq(Word) /\ s \in Strategies
      BY <1>3, <2>1 DEF Tx
    <3> QED
      BY <3>1 DEF Transaction
  <2> QED
    BY <1>2, <2>2, <2>3, <2>4, <2>5
<1>5. /\ chain' \in Seq(Transaction) /\ Len(chain') = Latest + 1 /\ chain'[Latest + 1] = tx
      /\ \A k \in 1 .. Latest : chain'[k] = chain[k]
  BY <1>1, <1>2, <1>4, AppendProperties
<1>6. Grows
  BY <1>1, <1>5 DEF Grows
<1>7. Len(chain') \in Nat /\ Latest' = Latest + 1
  BY <1>1, <1>5 DEF Latest
<1>8. \A k \in 1 .. Latest : Allowed(k)'
  BY <1>6, <1>7, Stays DEF ChainOK
<1> PICK n \in 0 .. Latest : n = Latest
  BY <1>1
<1>9. ShippedBy(n)' = ShippedBy(n) /\ OpenAt(n)' = OpenAt(n)
  BY <1>6, <1>7, Stays
<1>10. ASSUME NEW k \in Int, k = n + 1 PROVE Allowed(k)'
  <2>1. k - 1 = n /\ chain'[k] = tx
    BY <1>5, <1>10
  <2>2. ShippedBy(k - 1)' = ShippedBy(n) /\ OpenAt(k - 1)' = OpenAt(n)
    BY <1>9, <2>1
  <2> QED
    BY <1>4, <2>1, <2>2 DEF Allowed
<1>11. \A k \in 1 .. Latest' : Allowed(k)'
  BY <1>1, <1>7, <1>8, <1>10
<1>12. faults' = faults /\ indexed' = indexed
  BY DEF Mine
<1> QED
  BY <1>1, <1>5, <1>6, <1>7, <1>11, <1>12, RecordsAssumption DEF ChainOK
-----------------------------------------------------------------------------
(***************************************************************************)
(* The handlers of one block.                                              *)
(***************************************************************************)
Step(ix, b, i) ==
    IF chain[b].did[i] = "skip" THEN HandleMakerSkipped(ix, b, i, chain[b].s) ELSE HandleSwapped(ix, chain[b].s)

Walks(g, ix, b) == g = [i \in 0 .. Len(chain[b].did) |-> IF i = 0 THEN ix ELSE Step(g[i - 1], b, i)]

LEMMA WalkIs ==
    ASSUME NEW ix, NEW b, chain[b].kind \notin {"ship", "dock"}
    PROVE  HandleTx(ix, b) = (CHOOSE g : Walks(g, ix, b))[Len(chain[b].did)]
BY DEF HandleTx, Walks, Step

Skipped(b, i) == \E j \in 1 .. i : chain[b].did[j] = "skip"
Fills(b, i) == {j \in 1 .. i : chain[b].did[j] = "fill"}
RefusalOf(b) == [id |-> [tx |-> b, maker |-> Owner[chain[b].s], hash |-> HashOf[chain[b].s]],
                 strategy |-> [app |-> Router, hash |-> HashOf[chain[b].s]]]
Raised(counts, m, n) == [counts EXCEPT ![m] = counts[m] + n]

\* The entities after the first i logs of a block.
After(ix, b, i) ==
    [known |-> ix.known, live |-> ix.live, unmatched |-> ix.unmatched,
     refusals |-> ix.refusals \cup IF Skipped(b, i) THEN {RefusalOf(b)} ELSE {},
     skips |-> Raised(ix.skips, Owner[chain[b].s], IF Skipped(b, i) THEN 1 ELSE 0),
     fills |-> Raised(ix.fills, Owner[chain[b].s], Cardinality(Fills(b, i)))]

LEMMA EntitiesAre ==
    ASSUME NEW e \in Entities
    PROVE  e = [known |-> e.known, live |-> e.live, unmatched |-> e.unmatched, refusals |-> e.refusals,
                skips |-> e.skips, fills |-> e.fills]
BY DEF Entities

LEMMA SkippedIs ==
    ASSUME NEW e \in Entities, NEW b, NEW i, NEW s \in Strategies
    PROVE  /\ (\E r \in e.refusals : r.id = RefusalId(b, i, s)) => HandleMakerSkipped(e, b, i, s) = e
           /\ ~ (\E r \in e.refusals : r.id = RefusalId(b, i, s)) =>
                 HandleMakerSkipped(e, b, i, s) =
                   [known |-> e.known, live |-> e.live, unmatched |-> e.unmatched,
                    refusals |-> e.refusals \cup {[id |-> RefusalId(b, i, s), strategy |-> RefusedStrategy(s)]},
                    skips |-> Raised(e.skips, Owner[s], 1), fills |-> e.fills]
<1> DEFINE row == [id |-> RefusalId(b, i, s), strategy |-> RefusedStrategy(s)]
           m == Owner[s]
<1>1. CASE \E r \in e.refusals : r.id = RefusalId(b, i, s)
  BY <1>1 DEF HandleMakerSkipped
<1>2. CASE ~ \E r \in e.refusals : r.id = RefusalId(b, i, s)
  <2>1. HandleMakerSkipped(e, b, i, s) = [e EXCEPT !.refusals = @ \cup {row}, !.skips[m] = @ + 1]
    BY <1>2 DEF HandleMakerSkipped
  <2> HIDE DEF row, m
  <2>2. PICK noted : noted = [e EXCEPT !.refusals = @ \cup {row}]
    OBVIOUS
  <2>3. noted = [known |-> e.known, live |-> e.live, unmatched |-> e.unmatched, refusals |-> e.refusals \cup {row},
                 skips |-> e.skips, fills |-> e.fills]
    BY <2>2, EntitiesAre
  <2>4. [noted EXCEPT !.skips[m] = @ + 1] =
          [known |-> e.known, live |-> e.live, unmatched |-> e.unmatched, refusals |-> e.refusals \cup {row},
           skips |-> [e.skips EXCEPT ![m] = e.skips[m] + 1], fills |-> e.fills]
    BY <2>3
  <2>5. [e EXCEPT !.refusals = @ \cup {row}, !.skips[m] = @ + 1] = [noted EXCEPT !.skips[m] = @ + 1]
    BY <2>2
  <2> QED
    BY <1>2, <2>1, <2>4, <2>5 DEF Raised, row, m
<1> QED
  BY <1>1, <1>2

LEMMA SwappedIs ==
    ASSUME NEW e \in Entities, NEW s \in Strategies, StrategyId(s) \in e.known
    PROVE  HandleSwapped(e, s) = [known |-> e.known, live |-> e.live, unmatched |-> e.unmatched,
             refusals |-> e.refusals, skips |-> e.skips, fills |-> Raised(e.fills, Owner[s], 1)]
<1>1. e.unmatched + 0 = e.unmatched
  BY DEF Entities
<1>2. HandleSwapped(e, s) = [e EXCEPT !.fills[Owner[s]] = @ + 1, !.unmatched = @ + 0]
  BY DEF HandleSwapped
<1>3. PICK noted : noted = [e EXCEPT !.fills[Owner[s]] = @ + 1]
  OBVIOUS
<1>4. noted = [known |-> e.known, live |-> e.live, unmatched |-> e.unmatched, refusals |-> e.refusals, skips |-> e.skips,
               fills |-> [e.fills EXCEPT ![Owner[s]] = e.fills[Owner[s]] + 1]]
  BY <1>3, EntitiesAre
<1>5. [noted EXCEPT !.unmatched = @ + 0] = noted
  BY <1>1, <1>4
<1>6. [e EXCEPT !.fills[Owner[s]] = @ + 1, !.unmatched = @ + 0] = [noted EXCEPT !.unmatched = @ + 0]
  BY <1>3
<1> QED
  BY <1>2, <1>4, <1>5, <1>6 DEF Raised

LEMMA RaisedIs ==
    ASSUME NEW c \in [Makers -> Nat], NEW m \in Makers, NEW n \in Nat
    PROVE  /\ Raised(c, m, n) \in [Makers -> Nat] /\ Raised(c, m, 0) = c
           /\ Raised(Raised(c, m, n), m, 1) = Raised(c, m, n + 1)
           /\ \A k \in Makers : Raised(c, m, n)[k] = IF k = m THEN c[k] + n ELSE c[k]
<1>1. c[m] \in Nat /\ c[m] + n \in Nat /\ c[m] + 0 = c[m] /\ (c[m] + n) + 1 = c[m] + (n + 1)
  OBVIOUS
<1> QED
  BY <1>1 DEF Raised

LEMMA RaisedTwice ==
    ASSUME NEW c \in [Makers -> Nat], NEW m \in Makers, NEW n \in Nat
    PROVE  Raised(Raised(c, m, n), m, 1) = Raised(c, m, n + 1)
BY RaisedIs

LEMMA FillsAre ==
    ASSUME NEW b, NEW i \in Nat
    PROVE  /\ Cardinality(Fills(b, i)) \in Nat /\ Fills(b, 0) = {} /\ Cardinality(Fills(b, 0)) = 0
           /\ chain[b].did[i + 1] = "fill" => Cardinality(Fills(b, i + 1)) = Cardinality(Fills(b, i)) + 1
           /\ chain[b].did[i + 1] # "fill" => Fills(b, i + 1) = Fills(b, i)
           /\ Skipped(b, i + 1) <=> Skipped(b, i) \/ chain[b].did[i + 1] = "skip"
           /\ ~ Skipped(b, 0)
<1>1. IsFiniteSet(Fills(b, i)) /\ IsFiniteSet(1 .. i)
  <2>1. IsFiniteSet(1 .. i)
    BY FS_Interval
  <2> QED
    BY <2>1, FS_Subset DEF Fills
<1>2. Cardinality(Fills(b, i)) \in Nat
  BY <1>1, FS_CardinalityType
<1>3. i + 1 \notin Fills(b, i)
  BY DEF Fills
<1>4. \A j : j \in 1 .. i + 1 <=> j \in 1 .. i \/ j = i + 1
  OBVIOUS
<1>5. chain[b].did[i + 1] = "fill" => Fills(b, i + 1) = Fills(b, i) \cup {i + 1}
  BY <1>4 DEF Fills
<1>6. Cardinality(Fills(b, i) \cup {i + 1}) = Cardinality(Fills(b, i)) + 1
  BY <1>1, <1>3, FS_AddElement
<1>7. Fills(b, 0) = {} /\ ~ Skipped(b, 0)
  BY DEF Fills, Skipped
<1>8. chain[b].did[i + 1] # "fill" => Fills(b, i + 1) = Fills(b, i)
  BY <1>4 DEF Fills
<1>9. Skipped(b, i + 1) <=> Skipped(b, i) \/ chain[b].did[i + 1] = "skip"
  BY <1>4 DEF Skipped
<1> QED
  BY <1>2, <1>5, <1>6, <1>7, <1>8, <1>9, FS_EmptySet
\* A block whose refusals are not noted yet, of a strategy that is known.
Unread(ix, b) ==
    /\ chain[b].kind \notin {"ship", "dock"} /\ StrategyId(chain[b].s) \in ix.known
    /\ \A r \in ix.refusals : r.id.tx # b

LEMMA BlockIs ==
    ASSUME ChainOK, NEW b \in 1 .. Latest
    PROVE  /\ b \in Nat /\ chain[b].s \in Strategies /\ Owner[chain[b].s] \in Makers /\ chain[b].did \in Seq(Word)
           /\ Len(chain[b].did) \in Nat /\ RefusalOf(b) \in Refusal
           /\ \A i \in 1 .. Len(chain[b].did) : chain[b].did[i] \in Word
<1>1. b \in Nat /\ chain[b] \in Transaction
  BY ChainIs
<1>2. chain[b].s \in Strategies /\ chain[b].did \in Seq(Word)
  BY <1>1 DEF Transaction
<1>3. Owner[chain[b].s] \in Makers
  BY <1>2 DEF Makers
<1>4. RefusalOf(b) \in Refusal
  BY <1>1, <1>2, <1>3 DEF RefusalOf, Refusal, Ids
<1>5. Len(chain[b].did) \in Nat /\ \A i \in 1 .. Len(chain[b].did) : chain[b].did[i] \in Word
  BY <1>2
<1> QED
  BY <1>1, <1>2, <1>3, <1>4, <1>5

LEMMA AfterTyped ==
    ASSUME ChainOK, NEW ix \in Entities, NEW b \in 1 .. Latest, NEW i \in Nat
    PROVE  After(ix, b, i) \in Entities
<1> DEFINE m == Owner[chain[b].s]
<1>1. m \in Makers /\ RefusalOf(b) \in Refusal
  BY BlockIs
<1>2. ix.skips \in [Makers -> Nat] /\ ix.fills \in [Makers -> Nat] /\ ix.refusals \in SUBSET Refusal
      /\ ix.known \in SUBSET Ids /\ ix.live \in SUBSET Strategies /\ ix.unmatched \in Nat
  BY DEF Entities
<1>3. Cardinality(Fills(b, i)) \in Nat
  BY FillsAre
<1> HIDE DEF m
<1>4. Raised(ix.skips, m, IF Skipped(b, i) THEN 1 ELSE 0) \in [Makers -> Nat]
  BY <1>1, <1>2, RaisedIs
<1>5. Raised(ix.fills, m, Cardinality(Fills(b, i))) \in [Makers -> Nat]
  BY <1>1, <1>2, <1>3, RaisedIs
<1>6. (ix.refusals \cup IF Skipped(b, i) THEN {RefusalOf(b)} ELSE {}) \in SUBSET Refusal
  BY <1>1, <1>2
<1> QED
  BY <1>2, <1>4, <1>5, <1>6 DEF After, Entities, m

LEMMA StepRefuses ==
    ASSUME NEW e \in Entities, NEW b, NEW i, chain[b].did[i] = "skip", chain[b].s \in Strategies,
           ~ \E r \in e.refusals : r.id = RefusalOf(b).id
    PROVE  Step(e, b, i) =
             [known |-> e.known, live |-> e.live, unmatched |-> e.unmatched, refusals |-> e.refusals \cup {RefusalOf(b)},
              skips |-> Raised(e.skips, Owner[chain[b].s], 1), fills |-> e.fills]
<1> PICK s \in Strategies : s = chain[b].s
  OBVIOUS
<1>1. RefusalOf(b) = [id |-> RefusalId(b, i, s), strategy |-> RefusedStrategy(s)] /\ RefusalOf(b).id = RefusalId(b, i, s)
  BY DEF RefusalOf, RefusalId, RefusedStrategy
<1>2. ~ \E r \in e.refusals : r.id = RefusalId(b, i, s)
  BY <1>1
<1>3. Step(e, b, i) = HandleMakerSkipped(e, b, i, s)
  BY DEF Step
<1>4. \A x \in Strategies : ~ (\E r \in e.refusals : r.id = RefusalId(b, i, x)) =>
         HandleMakerSkipped(e, b, i, x) =
           [known |-> e.known, live |-> e.live, unmatched |-> e.unmatched,
            refusals |-> e.refusals \cup {[id |-> RefusalId(b, i, x), strategy |-> RefusedStrategy(x)]},
            skips |-> Raised(e.skips, Owner[x], 1), fills |-> e.fills]
  <2> TAKE x \in Strategies
  <2> QED
    BY SkippedIs
<1>5. HandleMakerSkipped(e, b, i, s) =
           [known |-> e.known, live |-> e.live, unmatched |-> e.unmatched,
            refusals |-> e.refusals \cup {[id |-> RefusalId(b, i, s), strategy |-> RefusedStrategy(s)]},
            skips |-> Raised(e.skips, Owner[s], 1), fills |-> e.fills]
  BY <1>2, <1>4
<1> QED
  BY <1>1, <1>3, <1>5

LEMMA AfterStep ==
    ASSUME ChainOK, NEW ix \in Entities, NEW b \in 1 .. Latest, Unread(ix, b), NEW j \in Nat, j < Len(chain[b].did),
           NEW i \in Nat, i = j + 1, NEW e \in Entities, e = After(ix, b, j), NEW s \in Strategies, s = chain[b].s,
           NEW m \in Makers, m = Owner[s]
    PROVE  Step(e, b, i) = After(ix, b, i)
<1> DEFINE word == chain[b].did[i]
<1>1. i \in 1 .. Len(chain[b].did) /\ word \in Word
  BY BlockIs
<1>2. /\ e.known = ix.known /\ e.live = ix.live /\ e.unmatched = ix.unmatched
      /\ e.refusals = ix.refusals \cup IF Skipped(b, j) THEN {RefusalOf(b)} ELSE {}
      /\ e.skips = Raised(ix.skips, m, IF Skipped(b, j) THEN 1 ELSE 0)
      /\ e.fills = Raised(ix.fills, m, Cardinality(Fills(b, j)))
  BY DEF After
<1>9. After(ix, b, i) =
        [known |-> ix.known, live |-> ix.live, unmatched |-> ix.unmatched,
         refusals |-> ix.refusals \cup IF Skipped(b, i) THEN {RefusalOf(b)} ELSE {},
         skips |-> Raised(ix.skips, m, IF Skipped(b, i) THEN 1 ELSE 0),
         fills |-> Raised(ix.fills, m, Cardinality(Fills(b, i)))]
  BY DEF After
<1>3. /\ Cardinality(Fills(b, j)) \in Nat
      /\ word = "fill" => Cardinality(Fills(b, i)) = Cardinality(Fills(b, j)) + 1
      /\ word # "fill" => Fills(b, i) = Fills(b, j)
      /\ Skipped(b, i) <=> Skipped(b, j) \/ word = "skip"
  BY FillsAre
<1>4. ix.skips \in [Makers -> Nat] /\ ix.fills \in [Makers -> Nat]
  BY DEF Entities
<1>5. CASE word = "fill"
  <2>1. Step(e, b, i) = HandleSwapped(e, s)
    BY <1>5 DEF Step
  <2>2. StrategyId(s) \in e.known
    BY <1>2 DEF Unread
  <2>3. HandleSwapped(e, s) = [known |-> e.known, live |-> e.live, unmatched |-> e.unmatched,
             refusals |-> e.refusals, skips |-> e.skips, fills |-> Raised(e.fills, m, 1)]
    BY <2>2, SwappedIs
  <2>4. Raised(e.fills, m, 1) = Raised(ix.fills, m, Cardinality(Fills(b, i)))
    <3>1. PICK n \in Nat : n = Cardinality(Fills(b, j))
      BY <1>3
    <3>3. PICK c \in [Makers -> Nat] : c = ix.fills
      BY <1>4
    <3>2. Raised(Raised(c, m, n), m, 1) = Raised(c, m, n + 1)
      BY RaisedTwice
    <3> QED
      BY <1>2, <1>3, <1>5, <3>1, <3>2, <3>3
  <2>5. Skipped(b, i) <=> Skipped(b, j)
    BY <1>3, <1>5
  <2> HIDE DEF word
  <2> QED
    BY <1>2, <1>9, <2>1, <2>3, <2>4, <2>5
<1>6. CASE word # "fill"
  <2>1. word = "skip"
    BY <1>1, <1>6 DEF Word
  <2>2. Step(e, b, i) = HandleMakerSkipped(e, b, i, s)
    BY <2>1 DEF Step
  <2>3. Skipped(b, i) /\ Fills(b, i) = Fills(b, j)
    BY <1>3, <1>6, <2>1
  <2>4. /\ RefusalOf(b).id = RefusalId(b, i, s)
        /\ RefusalOf(b) = [id |-> RefusalId(b, i, s), strategy |-> RefusedStrategy(s)]
    BY DEF RefusalOf, RefusalId, RefusedStrategy
  <2>5. (\E r \in e.refusals : r.id = RefusalOf(b).id) <=> Skipped(b, j)
    <3>1. \A r \in ix.refusals : r.id # RefusalOf(b).id
      BY DEF Unread, RefusalOf
    <3> QED
      BY <1>2, <2>4, <3>1
  <2>7. CASE Skipped(b, j)
    <3>1. After(ix, b, i) = After(ix, b, j)
      BY <2>3, <2>7 DEF After
    <3>2. HandleMakerSkipped(e, b, i, s) = e
      BY <2>4, <2>5, <2>7 DEF HandleMakerSkipped
    <3> QED
      BY <2>2, <3>1, <3>2
  <2>8. CASE ~ Skipped(b, j)
    <3>1. Raised(ix.skips, m, 0) = ix.skips
      BY <1>4, RaisedIs
    <3>2. e.skips = ix.skips /\ e.refusals = ix.refusals
      BY <1>2, <2>8, <3>1
    <3>3. Step(e, b, i) =
            [known |-> e.known, live |-> e.live, unmatched |-> e.unmatched, refusals |-> e.refusals \cup {RefusalOf(b)},
             skips |-> Raised(e.skips, Owner[chain[b].s], 1), fills |-> e.fills]
      BY <2>1, <2>5, <2>8, StepRefuses
    <3> HIDE DEF word
    <3> QED
      BY <1>2, <1>9, <2>3, <3>2, <3>3
  <2> QED
    BY <2>7, <2>8
<1> QED
  BY <1>5, <1>6

LEMMA HandledIs ==
    ASSUME ChainOK, NEW ix \in Entities, NEW b \in 1 .. Latest, Unread(ix, b)
    PROVE  HandleTx(ix, b) = After(ix, b, Len(chain[b].did))
<1> DEFINE n == Len(chain[b].did)
           f == [i \in 0 .. n |-> After(ix, b, i)]
<1>1. n \in Nat
  BY BlockIs
<1>2. After(ix, b, 0) = ix
  <2>1. /\ ix.skips \in [Makers -> Nat] /\ ix.fills \in [Makers -> Nat] /\ Owner[chain[b].s] \in Makers
        /\ ~ Skipped(b, 0) /\ Cardinality(Fills(b, 0)) = 0
    BY BlockIs, FillsAre DEF Entities
  <2>2. Raised(ix.skips, Owner[chain[b].s], 0) = ix.skips /\ Raised(ix.fills, Owner[chain[b].s], 0) = ix.fills
    BY <2>1, RaisedIs
  <2>3. ix = [known |-> ix.known, live |-> ix.live, unmatched |-> ix.unmatched, refusals |-> ix.refusals,
                skips |-> ix.skips, fills |-> ix.fills]
    BY EntitiesAre
  <2> QED
    BY <2>1, <2>2, <2>3 DEF After
<1>3. \A i \in 1 .. n : i - 1 \in Nat /\ i \in Nat /\ i - 1 < n /\ (i - 1) + 1 = i
  BY <1>1
<1>4. ASSUME NEW i \in 1 .. n PROVE Step(After(ix, b, i - 1), b, i) = After(ix, b, i)
  <2>1. PICK j \in Nat : j = i - 1 /\ j < n /\ i = j + 1 /\ i \in Nat
    BY <1>3
  <2>2. After(ix, b, j) \in Entities
    BY <2>1, AfterTyped
  <2>3. chain[b].s \in Strategies /\ Owner[chain[b].s] \in Makers
    BY BlockIs
  <2>4. Step(After(ix, b, j), b, i) = After(ix, b, i)
    BY <2>1, <2>2, <2>3, AfterStep
  <2> QED
    BY <2>1, <2>4
<1>5. Walks(f, ix, b)
  <2>1. \A i \in 0 .. n : f[i] = IF i = 0 THEN ix ELSE Step(f[i - 1], b, i)
    <3>1. \A i \in 0 .. n : i # 0 => i \in 1 .. n /\ i - 1 \in 0 .. n
      BY <1>1
    <3> QED
      BY <1>2, <1>4, <3>1
  <2> QED
    BY <2>1 DEF Walks
<1> PICK g : g = CHOOSE h : Walks(h, ix, b)
  OBVIOUS
<1>6. Walks(g, ix, b)
  BY <1>5
<1>7. \A i \in 0 .. n : g[i] = IF i = 0 THEN ix ELSE Step(g[i - 1], b, i)
  BY <1>6 DEF Walks
<1> DEFINE Good == {i \in 0 .. n : g[i] = After(ix, b, i)}
<1>8. 0 \in Good
  BY <1>1, <1>2, <1>7
<1>9. ASSUME NEW i \in 1 .. n, i - 1 \in Good PROVE i \in Good
  <2>1. i \in 0 .. n /\ i # 0 /\ g[i - 1] = After(ix, b, i - 1)
    BY <1>9
  <2>2. g[i] = Step(g[i - 1], b, i)
    BY <1>7, <2>1
  <2>3. g[i] = After(ix, b, i)
    BY <1>4, <2>1, <2>2
  <2> QED
    BY <2>1, <2>3
<1> HIDE DEF Good, n, f
<1>10. \A i \in 0 .. n : i \in Good
  BY <1>1, <1>8, <1>9, Climb
<1>11. n \in 0 .. n
  BY <1>1
<1>12. g[n] = After(ix, b, n)
  BY <1>10, <1>11 DEF Good
<1>13. HandleTx(ix, b) = g[n]
  BY WalkIs DEF n, Unread
<1> QED
  BY <1>12, <1>13 DEF n

-----------------------------------------------------------------------------
(***************************************************************************)
(* What one block more adds to what is open and to the counts.             *)
(***************************************************************************)
LEMMA OpenNext ==
    ASSUME ChainOK, NEW b \in 1 .. Latest
    PROVE  LET tx == chain[b] IN
           /\ tx.kind = "ship" => /\ ShippedBy(b) = ShippedBy(b - 1) \cup {tx.s} /\ OpenAt(b) = OpenAt(b - 1) \cup {tx.s}
           /\ tx.kind = "dock" => ShippedBy(b) = ShippedBy(b - 1) /\ OpenAt(b) = OpenAt(b - 1) \ {tx.s}
           /\ tx.kind \notin {"ship", "dock"} => ShippedBy(b) = ShippedBy(b - 1) /\ OpenAt(b) = OpenAt(b - 1)
<1> DEFINE tx == chain[b]
<1>1. /\ b \in Nat /\ b - 1 \in 0 .. Latest /\ tx.s \in Strategies /\ Allowed(b)
      /\ \A k : k \in 1 .. b <=> k \in 1 .. b - 1 \/ k = b
  BY BlockIs, ChainIs DEF ChainOK
<1>2. ShippedBy(b) = ShippedBy(b - 1) \cup IF tx.kind = "ship" THEN {tx.s} ELSE {}
  BY <1>1 DEF ShippedBy
<1>3. DockedBy(b) = DockedBy(b - 1) \cup IF tx.kind = "dock" THEN {tx.s} ELSE {}
  BY <1>1 DEF DockedBy
<1>4. DockedBy(b - 1) \subseteq ShippedBy(b - 1)
  <2> SUFFICES ASSUME NEW s \in DockedBy(b - 1) PROVE s \in ShippedBy(b - 1)
    OBVIOUS
  <2>1. PICK k \in 1 .. b - 1 : chain[k].kind = "dock" /\ chain[k].s = s
    BY DEF DockedBy
  <2>2. s \in Strategies /\ k \in 1 .. Latest /\ k - 1 \in 0 .. Latest /\ k - 1 <= b - 1
    BY <1>1, ChainIs DEF DockedBy
  <2>3. s \in ShippedBy(k - 1)
    BY <2>1, <2>2 DEF ChainOK, Allowed, OpenAt
  <2> QED
    BY <1>1, <2>2, <2>3, Outlasts
<1>5. CASE tx.kind = "ship"
  <2>1. tx.s \notin ShippedBy(b - 1)
    BY <1>1, <1>5 DEF Allowed
  <2> QED
    BY <1>2, <1>3, <1>4, <1>5, <2>1 DEF OpenAt
<1>6. CASE tx.kind = "dock"
  BY <1>2, <1>3, <1>6 DEF OpenAt
<1>7. CASE tx.kind \notin {"ship", "dock"}
  BY <1>2, <1>3, <1>7 DEF OpenAt
<1> QED
  BY <1>5, <1>6, <1>7

LEMMA RefusesIs ==
    ASSUME ChainOK, NEW b \in 1 .. Latest
    PROVE  Logs("refusals", b) # {} <=> Skipped(b, Len(chain[b].did))
<1>1. chain[b].did \in Seq(Word) /\ DOMAIN chain[b].did = 1 .. Len(chain[b].did)
  BY BlockIs
<1> QED
  BY <1>1 DEF Logs, Skipped

LEMMA FillLogsAre ==
    ASSUME ChainOK, NEW b \in 1 .. Latest
    PROVE  /\ chain[b].kind = "swap" => /\ IsFiniteSet(Logs("fills", b))
                                        /\ Cardinality(Logs("fills", b)) = Cardinality(Fills(b, Len(chain[b].did)))
           /\ chain[b].kind # "swap" => Logs("fills", b) = {}
<1> DEFINE n == Len(chain[b].did)
           at == Fills(b, n)
           f == [i \in at |-> <<b, i>>]
<1>1. DOMAIN chain[b].did = 1 .. n /\ n \in Nat
  BY BlockIs
<1>2. IsFiniteSet(at)
  <2>1. IsFiniteSet(1 .. n) /\ at \subseteq 1 .. n
    BY <1>1, FS_Interval DEF Fills
  <2> HIDE DEF at
  <2> QED
    BY <2>1, FS_Subset
<1>3. chain[b].kind = "swap" => Logs("fills", b) = {<<b, i>> : i \in at}
  BY <1>1 DEF Logs, Fills
<1>4. f \in Bijection(at, {<<b, i>> : i \in at})
  BY DEF Bijection, Injection, Surjection, IsInjective
<1>5. IsFiniteSet({<<b, i>> : i \in at}) /\ Cardinality({<<b, i>> : i \in at}) = Cardinality(at)
  BY <1>2, <1>4, FS_Bijection DEF ExistsBijection
<1>6. chain[b].kind # "swap" => Logs("fills", b) = {}
  BY DEF Logs
<1> QED
  BY <1>3, <1>5, <1>6

LEMMA OneMore ==
    ASSUME ChainOK, NEW b \in 1 .. Latest, NEW m \in Makers
    PROVE  /\ IsFiniteSet(RefusedIn(m, b - 1))
           /\ Cardinality(RefusedIn(m, b)) =
                 Cardinality(RefusedIn(m, b - 1)) + IF m = Owner[chain[b].s] /\ Skipped(b, Len(chain[b].did)) THEN 1 ELSE 0
           /\ Cardinality(Of(LogsIn("fills", 1, b - 1), m)) \in Nat
           /\ Cardinality(Of(LogsIn("fills", 1, b), m)) \in Nat
           /\ Cardinality(Of(LogsIn("fills", 1, b), m)) <= Cardinality(Of(LogsIn("fills", 1, b - 1), m)) +
                 IF m = Owner[chain[b].s] /\ chain[b].kind = "swap" THEN Cardinality(Fills(b, Len(chain[b].did))) ELSE 0
<1>1. /\ b \in Nat /\ b - 1 \in Nat /\ b \in 1 .. Latest /\ 1 <= b
      /\ \A k : k \in 1 .. b <=> k \in 1 .. b - 1 \/ k = b
  BY BlockIs
<1> DEFINE news == IF m = Owner[chain[b].s] /\ Skipped(b, Len(chain[b].did)) THEN {b} ELSE {}
<1>2. RefusedIn(m, b) = RefusedIn(m, b - 1) \cup news /\ RefusedIn(m, b - 1) \cap {b} = {}
  BY <1>1, RefusesIs DEF RefusedIn
<1>3. IsFiniteSet(RefusedIn(m, b - 1))
  BY <1>1, FS_Interval, FS_Subset DEF RefusedIn
<1>4. Cardinality(RefusedIn(m, b - 1)) \in Nat
  BY <1>3, FS_CardinalityType
<1>5. Cardinality(RefusedIn(m, b - 1) \cup {b}) = Cardinality(RefusedIn(m, b - 1)) + 1
  BY <1>2, <1>3, FS_AddElement
<1>6. Cardinality(RefusedIn(m, b)) = Cardinality(RefusedIn(m, b - 1)) + IF m = Owner[chain[b].s] /\ Skipped(b, Len(chain[b].did)) THEN 1 ELSE 0
  <2>1. CASE m = Owner[chain[b].s] /\ Skipped(b, Len(chain[b].did))
    BY <1>2, <1>5, <2>1
  <2>2. CASE ~ (m = Owner[chain[b].s] /\ Skipped(b, Len(chain[b].did)))
    <3>1. RefusedIn(m, b) = RefusedIn(m, b - 1)
      BY <1>2, <2>2
    <3> QED
      BY <1>4, <2>2, <3>1
  <2> QED
    BY <2>1, <2>2
<1> DEFINE old == LogsIn("fills", 1, b - 1)
           all == LogsIn("fills", 1, b)
           more == IF m = Owner[chain[b].s] /\ chain[b].kind = "swap" THEN Logs("fills", b) ELSE {}
<1>7. \A log : log \in all <=> log \in old \/ log \in Logs("fills", b)
  <2>1. \A log : log \in all <=> log[1] \in 1 .. b /\ log[1] \in 1 .. Latest /\ log \in Logs("fills", log[1])
    BY <1>1, RangesAre DEF Kinds
  <2>2. \A log : log \in old <=> log[1] \in 1 .. b - 1 /\ log[1] \in 1 .. Latest /\ log \in Logs("fills", log[1])
    BY <1>1, RangesAre DEF Kinds
  <2>3. \A log \in Logs("fills", b) : log[1] = b
    BY LogsAre DEF Kinds
  <2> QED
    BY <1>1, <2>1, <2>2, <2>3
<1>8. \A log \in Logs("fills", b) : MakerOf(log) = Owner[chain[b].s]
  BY LogsAre DEF Kinds, MakerOf
<1>9. Of(all, m) = Of(old, m) \cup more
  BY <1>7, <1>8, FillLogsAre DEF Of
<1>10. IsFiniteSet(old) /\ IsFiniteSet(all)
  BY <1>1, RangeFinite DEF Kinds
<1>11. IsFiniteSet(Of(old, m)) /\ IsFiniteSet(Of(all, m))
  BY <1>10, FS_Subset DEF Of
<1>12. /\ IsFiniteSet(more)
       /\ Cardinality(more) = IF m = Owner[chain[b].s] /\ chain[b].kind = "swap" THEN Cardinality(Fills(b, Len(chain[b].did))) ELSE 0
  BY FillLogsAre, FS_EmptySet
<1> HIDE DEF old, all, more
<1>13. Cardinality(Of(old, m)) \in Nat /\ Cardinality(Of(all, m)) \in Nat
  BY <1>11, FS_CardinalityType
<1>14. Cardinality(Of(all, m)) <= Cardinality(Of(old, m)) + Cardinality(more)
  <2> PICK x, y : x = Of(old, m) /\ y = more
    OBVIOUS
  <2>1. IsFiniteSet(x) /\ IsFiniteSet(y)
    BY <1>11, <1>12
  <2>2. Cardinality(x \cup y) <= Cardinality(x) + Cardinality(y)
    <3>1. Cardinality(x \cup y) = Cardinality(x) + Cardinality(y) - Cardinality(x \cap y)
      BY <2>1, FS_Union
    <3>2. Cardinality(x \cap y) \in Nat /\ Cardinality(x) \in Nat /\ Cardinality(y) \in Nat
      BY <2>1, FS_Intersection, FS_CardinalityType
    <3> QED
      BY <3>1, <3>2
  <2> QED
    BY <1>9, <2>2
<1> QED
  BY <1>3, <1>6, <1>12, <1>13, <1>14 DEF old, all

-----------------------------------------------------------------------------
(***************************************************************************)
(* The index is kept.                                                      *)
(***************************************************************************)
LEMMA BlockIndexed ==
    ASSUME ChainOK, IndexOK, IndexBlock
    PROVE  IndexOK'
<1> PICK b \in 1 .. Latest : b = indexed + 1
  BY ChainIs DEF IndexBlock
<1> DEFINE tx == chain[b]
           n == Len(chain[b].did)
           m == Owner[chain[b].s]
<1>1. /\ indexed' = b /\ indexed = b - 1 /\ index' = HandleTx(index, b) /\ chain' = chain
      /\ b \in Nat /\ b - 1 \in Nat /\ b - 1 \in 0 .. Latest
  BY ChainIs DEF IndexBlock
<1>2. /\ tx.s \in Strategies /\ m \in Makers /\ tx.did \in Seq(Word) /\ n \in Nat /\ RefusalOf(b) \in Refusal /\ Allowed(b)
      /\ tx.kind \in {"ship", "dock", "direct", "swap"}
  BY BlockIs, ChainIs DEF ChainOK, Transaction
<1>3. /\ index \in Entities /\ index.known = IdsBy(b - 1) /\ index.live = OpenAt(b - 1) /\ index.unmatched = 0
      /\ \A r \in index.refusals : r.strategy \in index.known /\ r.id.tx <= b - 1
      /\ \A k \in Makers : /\ index.skips[k] = Cardinality(RefusedIn(k, b - 1))
                           /\ index.fills[k] >= Cardinality(Of(LogsIn("fills", 1, b - 1), k))
  BY <1>1 DEF IndexOK
<1>4. /\ index.skips \in [Makers -> Nat] /\ index.fills \in [Makers -> Nat]
      /\ index.known \in SUBSET Ids /\ index.live \in SUBSET Strategies /\ index.refusals \in SUBSET Refusal
  BY <1>3 DEF Entities
<1>5. \A k \in Makers, x \in Nat : RefusedIn(k, x)' = RefusedIn(k, x) /\ Of(LogsIn("fills", 1, x), k)' = Of(LogsIn("fills", 1, x), k)
  BY <1>1 DEF RefusedIn, Of, LogsIn, Logs, MakerOf, Latest
<1>6. IdsBy(b)' = IdsBy(b) /\ OpenAt(b)' = OpenAt(b)
  BY <1>1 DEF IdsBy, OpenAt, ShippedBy, DockedBy
<1>7. SUFFICES /\ index' \in Entities
               /\ index'.known = IdsBy(b) /\ index'.live = OpenAt(b) /\ index'.unmatched = 0
               /\ \A r \in index'.refusals : r.strategy \in index'.known /\ r.id.tx <= b
               /\ \A k \in Makers : /\ index'.skips[k] = Cardinality(RefusedIn(k, b))
                                    /\ index'.fills[k] >= Cardinality(Of(LogsIn("fills", 1, b), k))
  <2>1. \A k \in Makers : RefusedIn(k, indexed)' = RefusedIn(k, b) /\ Of(LogsIn("fills", 1, indexed), k)' = Of(LogsIn("fills", 1, b), k)
    BY <1>1, <1>5
  <2>2. IdsBy(indexed)' = IdsBy(b) /\ OpenAt(indexed)' = OpenAt(b)
    BY <1>1, <1>6
  <2> QED
    BY <1>1, <2>1, <2>2 DEF IndexOK
<1>8. CASE tx.kind \in {"ship", "dock"}
  <2>1. n = 0 /\ ~ Skipped(b, n)
    BY <1>2, <1>8 DEF Allowed, Skipped
  <2>2. index'.refusals = index.refusals /\ index'.skips = index.skips /\ index'.fills = index.fills /\ index'.unmatched = 0
    BY <1>1, <1>3, <1>8 DEF HandleTx, Entities
  <2>3. tx.kind = "ship" => index'.known = index.known \cup {StrategyId(tx.s)} /\ index'.live = index.live \cup {tx.s}
    BY <1>1, <1>3 DEF HandleTx, Entities
  <2>4. tx.kind = "dock" => index'.known = index.known /\ index'.live = index.live \ {tx.s}
    BY <1>1, <1>3 DEF HandleTx, Entities
  <2>5. StrategyId(tx.s) \in Ids
    BY <1>2 DEF StrategyId, Ids
  <2>6. index' \in Entities
    BY <1>1, <1>2, <1>3, <1>8, <2>5 DEF HandleTx, Entities
  <2>7. index'.known = IdsBy(b) /\ index'.live = OpenAt(b)
    <3>1. /\ tx.kind = "ship" => ShippedBy(b) = ShippedBy(b - 1) \cup {tx.s} /\ OpenAt(b) = OpenAt(b - 1) \cup {tx.s}
          /\ tx.kind = "dock" => ShippedBy(b) = ShippedBy(b - 1) /\ OpenAt(b) = OpenAt(b - 1) \ {tx.s}
      BY OpenNext
    <3>2. tx.kind = "ship" => IdsBy(b) = IdsBy(b - 1) \cup {StrategyId(tx.s)}
      BY <3>1 DEF IdsBy
    <3>3. tx.kind = "dock" => IdsBy(b) = IdsBy(b - 1)
      BY <3>1 DEF IdsBy
    <3> QED
      BY <1>3, <1>8, <2>3, <2>4, <3>1, <3>2, <3>3
  <2>8. ASSUME NEW r \in index'.refusals PROVE r.strategy \in index'.known /\ r.id.tx <= b
    <3>1. r.strategy \in index.known /\ r.id.tx <= b - 1 /\ r.id.tx \in Nat
      BY <1>3, <1>4, <2>2 DEF Refusal
    <3> QED
      BY <1>1, <1>8, <2>3, <2>4, <3>1
  <2>9. ASSUME NEW k \in Makers PROVE /\ index'.skips[k] = Cardinality(RefusedIn(k, b))
                                      /\ index'.fills[k] >= Cardinality(Of(LogsIn("fills", 1, b), k))
    <3> PICK f, g, i, j : /\ f = Cardinality(RefusedIn(k, b - 1)) /\ g = Cardinality(RefusedIn(k, b))
                          /\ i = Cardinality(Of(LogsIn("fills", 1, b - 1), k)) /\ j = Cardinality(Of(LogsIn("fills", 1, b), k))
      OBVIOUS
    <3>3. f \in Nat
      BY <1>3, <1>4
    <3>4. tx.kind # "swap"
      BY <1>8
    <3>1. f \in Nat /\ g = f + 0 /\ i \in Nat /\ j \in Nat /\ j <= i + 0
      BY <2>1, <3>3, <3>4, OneMore
    <3>2. index'.skips[k] = f /\ index'.fills[k] >= i /\ index'.fills[k] \in Nat
      BY <1>3, <1>4, <2>2
    <3> QED
      BY <3>1, <3>2
  <2> QED
    BY <2>2, <2>6, <2>7, <2>8, <2>9
<1>9. CASE tx.kind \notin {"ship", "dock"}
  <2>1. tx.s \in ShippedBy(b - 1)
    BY <1>2, <1>9 DEF Allowed
  <2>2. Unread(index, b)
    <3>1. \A r \in index.refusals : r.id.tx # b
      <4>1. \A r \in index.refusals : r.id.tx \in Nat /\ r.id.tx <= b - 1
        BY <1>3, <1>4 DEF Refusal
      <4> QED
        BY <1>1, <4>1
    <3> QED
      BY <1>3, <1>9, <2>1, <3>1 DEF Unread, IdsBy
  <2>3. index' = After(index, b, n)
    BY <1>1, <1>3, <2>2, HandledIs
  <2>4. index' \in Entities
    BY <1>2, <1>3, <2>3, AfterTyped
  <2>5. /\ index'.known = index.known /\ index'.live = index.live /\ index'.unmatched = 0
        /\ index'.refusals = index.refusals \cup IF Skipped(b, n) THEN {RefusalOf(b)} ELSE {}
        /\ index'.skips = Raised(index.skips, m, IF Skipped(b, n) THEN 1 ELSE 0)
        /\ index'.fills = Raised(index.fills, m, Cardinality(Fills(b, n)))
    BY <1>3, <2>3 DEF After
  <2>6. index'.known = IdsBy(b) /\ index'.live = OpenAt(b)
    BY <1>3, <1>9, <2>5, OpenNext DEF IdsBy
  <2>7. Skipped(b, n) => RefusalOf(b).strategy \in index.known /\ RefusalOf(b).id.tx = b
    <3>1. SUFFICES ASSUME Skipped(b, n) PROVE RefusalOf(b).strategy \in index.known /\ RefusalOf(b).id.tx = b
      OBVIOUS
    <3>2. tx.kind # "direct"
      <4>1. tx.kind = "direct" => n = 1 /\ tx.did[1] = "fill"
        <5>1. tx.kind = "direct" => tx.did = <<"fill">>
          BY <1>2 DEF Allowed
        <5> QED
          BY <5>1
      <4> QED
        BY <3>1, <4>1 DEF Skipped
    <3>3. tx.s \in Ours
      BY <1>2, <1>9, <3>2 DEF Allowed
    <3>4. RefusalOf(b).strategy = StrategyId(tx.s)
      BY <3>3 DEF RefusalOf, StrategyId, Ours
    <3>5. RefusalOf(b).id.tx = b
      BY DEF RefusalOf
    <3> QED
      BY <1>3, <2>1, <3>4, <3>5 DEF IdsBy
  <2>8. ASSUME NEW r \in index'.refusals PROVE r.strategy \in index'.known /\ r.id.tx <= b
    <3>1. CASE r \in index.refusals
      <4>1. r.strategy \in index.known /\ r.id.tx <= b - 1 /\ r.id.tx \in Nat
        BY <1>3, <1>4, <3>1 DEF Refusal
      <4> QED
        BY <1>1, <2>5, <4>1
    <3>2. CASE r \notin index.refusals
      <4>1. r = RefusalOf(b) /\ Skipped(b, n)
        BY <2>5, <3>2
      <4>2. index'.known = index.known
        BY <2>5
      <4>3. r.strategy \in index.known /\ r.id.tx = b
        BY <2>7, <4>1
      <4>4. b <= b
        BY <1>1
      <4> QED
        BY <4>2, <4>3, <4>4
    <3> QED
      BY <3>1, <3>2
  <2>9. ASSUME NEW k \in Makers PROVE /\ index'.skips[k] = Cardinality(RefusedIn(k, b))
                                      /\ index'.fills[k] >= Cardinality(Of(LogsIn("fills", 1, b), k))
    <3>1. index'.skips[k] = IF k = m THEN index.skips[k] + (IF Skipped(b, n) THEN 1 ELSE 0) ELSE index.skips[k]
      BY <1>4, <2>5 DEF Raised
    <3>2. index'.fills[k] = IF k = m THEN index.fills[k] + Cardinality(Fills(b, n)) ELSE index.fills[k]
      BY <1>4, <2>5 DEF Raised
    <3>3. index.skips[k] \in Nat /\ index.fills[k] \in Nat /\ Cardinality(Fills(b, n)) \in Nat
      BY <1>2, <1>4, FillsAre
    <3>4. index.skips[k] = Cardinality(RefusedIn(k, b - 1)) /\ index.fills[k] >= Cardinality(Of(LogsIn("fills", 1, b - 1), k))
      BY <1>3
    <3>5. Cardinality(RefusedIn(k, b)) = Cardinality(RefusedIn(k, b - 1)) + IF k = m /\ Skipped(b, n) THEN 1 ELSE 0
      BY OneMore
    <3>6. /\ Cardinality(Of(LogsIn("fills", 1, b - 1), k)) \in Nat /\ Cardinality(Of(LogsIn("fills", 1, b), k)) \in Nat
          /\ Cardinality(Of(LogsIn("fills", 1, b), k)) <= Cardinality(Of(LogsIn("fills", 1, b - 1), k)) +
                 IF k = m /\ tx.kind = "swap" THEN Cardinality(Fills(b, n)) ELSE 0
      BY OneMore
    <3> HIDE DEF m, n, tx
    <3>7. index'.skips[k] = Cardinality(RefusedIn(k, b))
      BY <3>1, <3>3, <3>4, <3>5
    <3>8. index'.fills[k] >= Cardinality(Of(LogsIn("fills", 1, b), k))
      BY <3>2, <3>3, <3>4, <3>6
    <3> QED
      BY <3>7, <3>8
  <2> QED
    BY <2>4, <2>5, <2>6, <2>8, <2>9
<1> QED
  BY <1>8, <1>9

LEMMA MinedIndex ==
    ASSUME ChainOK, IndexOK, Grows, Len(chain') \in Nat, UNCHANGED <<index, indexed>>
    PROVE  IndexOK'
<1>1. indexed \in 0 .. Latest /\ indexed \in Int /\ indexed <= Latest
  BY ChainIs
<1>2. IdsBy(indexed)' = IdsBy(indexed) /\ OpenAt(indexed)' = OpenAt(indexed)
  <2> PICK b \in 0 .. Latest : b = indexed /\ b = indexed'
    BY <1>1
  <2>1. IdsBy(b)' = IdsBy(b) /\ OpenAt(b)' = OpenAt(b)
    BY Stays
  <2> QED
    BY <2>1
<1>3. ASSUME NEW m \in Makers 
      PROVE  RefusedIn(m, indexed)' = RefusedIn(m, indexed) /\ Of(LogsIn("fills", 1, indexed), m)' = Of(LogsIn("fills", 1, indexed), m)
  <2> PICK b \in 0 .. Latest : b = indexed /\ b = indexed'
    BY <1>1
  <2>1. \A k \in 1 .. b : k \in 1 .. Latest /\ Logs("refusals", k)' = Logs("refusals", k) /\ chain'[k] = chain[k]
    BY Stays, ChainIs DEF Kinds, Grows, Latest
  <2>2. RefusedIn(m, b)' = RefusedIn(m, b)
    BY <2>1 DEF RefusedIn
  <2>3. LogsIn("fills", 1, b)' = LogsIn("fills", 1, b)
    BY <1>1, Stays DEF Kinds
  <2>4. \A log \in LogsIn("fills", 1, b) : MakerOf(log)' = MakerOf(log)
    <3>1. \A log \in LogsIn("fills", 1, b) : log[1] \in 1 .. Latest
      BY <1>1, RangesAre DEF Kinds
    <3> QED
      BY <3>1, Stays
  <2>5. Of(LogsIn("fills", 1, b), m)' = Of(LogsIn("fills", 1, b), m)
    BY <2>3, <2>4 DEF Of
  <2> QED
    BY <2>2, <2>5
<1> QED
  BY <1>2, <1>3 DEF IndexOK

-----------------------------------------------------------------------------
(***************************************************************************)
(* Windows, pages and budgets.                                             *)
(***************************************************************************)
LEMMA ConstantsAre ==
    /\ Page \in Nat /\ Page >= 1 /\ MaxLag \in Nat /\ First \in Nat /\ MaxBlock \in Nat /\ MaxFaults \in Nat
    /\ \A k \in Kinds : WindowOf[k] \in Nat /\ BudgetOf[k] \in Nat /\ BudgetOf[k] >= 1
BY RecordsAssumption

LEMMA BudgetIs == ASSUME NEW k \in Kinds PROVE Budget(k) \in Nat /\ Budget(k) >= 1
<1> PICK w \in Nat : w = WindowOf[k]
  BY ConstantsAre
<1>1. w \div Page \in Nat
  BY ConstantsAre
<1> QED
  BY <1>1, ConstantsAre DEF Budget

LEMMA FloorIs == ASSUME NEW k \in Kinds, NEW head \in Nat PROVE WindowFloor(k, head) \in Nat /\ WindowFloor(k, head) <= head + 1
<1>1. WindowOf[k] \in Nat
  BY ConstantsAre
<1> QED
  BY <1>1 DEF WindowFloor

LEMMA MaxOfTwo == ASSUME NEW a \in Int, NEW b \in Int PROVE Max({a, b}) = IF a >= b THEN a ELSE b
<1>1. \E x \in {a, b} : \A y \in {a, b} : x >= y
  OBVIOUS
<1>2. Max({a, b}) \in {a, b} /\ \A y \in {a, b} : Max({a, b}) >= y
  BY <1>1 DEF Max
<1> QED
  BY <1>2

LEMMA Monotone == ASSUME NEW a \in Nat, NEW b \in Nat, NEW c \in Nat, a <= b PROVE a * c <= b * c
OBVIOUS

LEMMA Reach ==
    ASSUME NEW k \in Kinds, scan[k].floor \in Nat, scan[k].top \in Nat
    PROVE  LET r == scan[k].top - Budget(k) * (Page + 1) + 1
           IN r \in Int /\ Lowest(k) \in Int /\ Lowest(k) = IF scan[k].floor >= r THEN scan[k].floor ELSE r
<1> DEFINE r == scan[k].top - Budget(k) * (Page + 1) + 1
<1>1. r \in Int
  BY BudgetIs, ConstantsAre
<1> HIDE DEF r
<1>2. Max({scan[k].floor, r}) = IF scan[k].floor >= r THEN scan[k].floor ELSE r
  BY <1>1, MaxOfTwo
<1>3. Lowest(k) = Max({scan[k].floor, r})
  BY DEF Lowest, r
<1> QED
  BY <1>1, <1>2, <1>3 DEF r

\* Two ranges that meet.
LEMMA Joined ==
    ASSUME ChainOK, NEW k \in Kinds, NEW a \in Int, NEW b \in Int, NEW c \in Int, a <= b + 1, b <= c
    PROVE  /\ LogsIn(k, a, c) = LogsIn(k, b + 1, c) \cup LogsIn(k, a, b)
           /\ LogsIn(k, b + 1, c) \cap LogsIn(k, a, b) = {}
           /\ HashesDocked(a, c) = HashesDocked(b + 1, c) \cup HashesDocked(a, b)
<1>1. \A x \in Int : (x \in a .. c <=> x \in b + 1 .. c \/ x \in a .. b) /\ ~ (x \in b + 1 .. c /\ x \in a .. b)
  OBVIOUS
<1>2. b + 1 \in Int /\ \A x \in 1 .. Latest : x \in Int
  BY ChainIs
<1>3. \A log : log \in LogsIn(k, a, c) <=> log \in LogsIn(k, b + 1, c) \/ log \in LogsIn(k, a, b)
  BY <1>1, <1>2, RangesAre
<1>4. \A log : ~ (log \in LogsIn(k, b + 1, c) /\ log \in LogsIn(k, a, b))
  BY <1>1, <1>2, RangesAre
<1>5. DockedIn(a, c) = DockedIn(b + 1, c) \cup DockedIn(a, b)
  BY <1>1, <1>2 DEF DockedIn
<1> QED
  BY <1>3, <1>4, <1>5 DEF HashesDocked

\* A range past the head is empty.
LEMMA PastHead ==
    ASSUME ChainOK, NEW k \in Kinds, NEW a \in Int, NEW b \in Int, a > b
    PROVE  LogsIn(k, a, b) = {} /\ HashesDocked(a, b) = {}
<1>1. \A x : x \notin a .. b
  OBVIOUS
<1>2. LogsIn(k, a, b) = {}
  BY <1>1, RangesAre
<1> QED
  BY <1>1, <1>2 DEF HashesDocked, DockedIn

LEMMA Appended ==
    ASSUME NEW S, NEW p \in Seq(S), NEW q \in Seq(S), IsInjective(p), IsInjective(q), ToSet(p) \cap ToSet(q) = {}
    PROVE  p \o q \in Seq(S) /\ IsInjective(p \o q) /\ ToSet(p \o q) = ToSet(p) \cup ToSet(q)
<1> DEFINE m == Len(p)
           n == Len(q)
<1>1. /\ p \o q \in Seq(S) /\ DOMAIN (p \o q) = 1 .. m + n /\ DOMAIN p = 1 .. m /\ DOMAIN q = 1 .. n /\ m \in Nat /\ n \in Nat
      /\ \A i \in 1 .. m + n : (p \o q)[i] = IF i <= m THEN p[i] ELSE q[i - m]
  OBVIOUS
<1> PICK r : r = p \o q
  OBVIOUS
<1> HIDE DEF m, n
<1>2. \A i \in 1 .. m : i \in 1 .. m + n /\ r[i] = p[i]
  BY <1>1
<1>3. \A i \in 1 .. n : i + m \in 1 .. m + n /\ r[i + m] = q[i]
  BY <1>1
<1>4. \A i \in 1 .. m + n : (i \in 1 .. m /\ r[i] = p[i]) \/ (i - m \in 1 .. n /\ r[i] = q[i - m])
  BY <1>1
<1>5. \A x : x \in ToSet(r) <=> x \in ToSet(p) \/ x \in ToSet(q)
  <2>1. ToSet(r) = {r[i] : i \in 1 .. m + n} /\ ToSet(p) = {p[i] : i \in 1 .. m} /\ ToSet(q) = {q[i] : i \in 1 .. n}
    BY <1>1 DEF ToSet
  <2>2. ASSUME NEW x \in ToSet(r) PROVE x \in ToSet(p) \/ x \in ToSet(q)
    BY <1>4, <2>1
  <2>3. ASSUME NEW x \in ToSet(p) PROVE x \in ToSet(r)
    BY <1>2, <2>1
  <2>4. ASSUME NEW x \in ToSet(q) PROVE x \in ToSet(r)
    <3>1. PICK i \in 1 .. n : x = q[i]
      BY <2>1
    <3> QED
      BY <1>3, <2>1, <3>1
  <2> QED
    BY <2>2, <2>3, <2>4
<1>6. ASSUME NEW i \in 1 .. m + n, NEW j \in 1 .. m + n, r[i] = r[j] PROVE i = j
  <2>1. \A x \in 1 .. m, y \in 1 .. n : p[x] # q[y]
    BY <1>1 DEF ToSet
  <2>2. \A x, y \in 1 .. m : p[x] = p[y] => x = y
    BY <1>1 DEF IsInjective
  <2>3. \A x, y \in 1 .. n : q[x] = q[y] => x = y
    BY <1>1 DEF IsInjective
  <2> QED
    BY <1>1, <1>4, <1>6, <2>1, <2>2, <2>3
<1>7. IsInjective(r)
  BY <1>1, <1>6 DEF IsInjective
<1> QED
  BY <1>1, <1>5, <1>7

-----------------------------------------------------------------------------
(***************************************************************************)
(* Scans, whatever else goes on.                                           *)
(***************************************************************************)
LEMMA ScanIs ==
    ASSUME ScansOK, NEW k \in Kinds
    PROVE  /\ ScanOK(k) /\ scan[k].floor \in Nat /\ scan[k].top \in Nat /\ scan[k].end \in Int /\ scan[k].pages \in Nat
           /\ scan[k].out \in Seq(Log) /\ scan[k].pc \in {"idle", "head", "page", "done", "failed"}
           /\ scan[k].docks \in SUBSET {HashOf[s] : s \in Strategies}
           /\ scan[k] = [pc |-> scan[k].pc, floor |-> scan[k].floor, top |-> scan[k].top, end |-> scan[k].end,
                         pages |-> scan[k].pages, out |-> scan[k].out, docks |-> scan[k].docks]
<1>1. scan[k] \in Scan /\ ScanOK(k)
  BY DEF ScansOK
<1> QED
  BY <1>1 DEF Scan

LEMMA BegunIs ==
    ASSUME NEW floor \in Nat
    PROVE  /\ Begun(floor) = [pc |-> "head", floor |-> floor, top |-> 0, end |-> 0, pages |-> 0, out |-> <<>>, docks |-> {}]
           /\ Begun(floor) \in Scan /\ IdleScan \in Scan /\ [IdleScan EXCEPT !.pc = "failed"] \in Scan
           /\ Begun(floor).floor = floor
<1>1. <<>> \in Seq(Log) /\ {} \in SUBSET {HashOf[s] : s \in Strategies}
  OBVIOUS
<1>5. PICK out, docks : out = <<>> /\ docks = {}
  OBVIOUS
<1>2. IdleScan = [pc |-> "idle", floor |-> 0, top |-> 0, end |-> 0, pages |-> 0, out |-> out, docks |-> docks]
  BY <1>5 DEF IdleScan
<1>3. [IdleScan EXCEPT !.pc = "failed"] = [pc |-> "failed", floor |-> 0, top |-> 0, end |-> 0, pages |-> 0, out |-> out, docks |-> docks]
  BY <1>2
<1>6. PICK x : x = [IdleScan EXCEPT !.pc = "head"]
  OBVIOUS
<1>7. x = [pc |-> "head", floor |-> 0, top |-> 0, end |-> 0, pages |-> 0, out |-> out, docks |-> docks]
  BY <1>2, <1>6
<1>8. [x EXCEPT !.floor = floor] = [pc |-> "head", floor |-> floor, top |-> 0, end |-> 0, pages |-> 0, out |-> out, docks |-> docks]
  BY <1>7
<1>9. Begun(floor) = [x EXCEPT !.floor = floor]
  BY <1>6 DEF Begun
<1>10. Begun(floor) = [pc |-> "head", floor |-> floor, top |-> 0, end |-> 0, pages |-> 0, out |-> out, docks |-> docks]
  BY <1>8, <1>9
<1>11. out \in Seq(Log) /\ docks \in SUBSET {HashOf[s] : s \in Strategies}
  BY <1>1, <1>5
<1>12. Begun(floor) \in Scan
  BY <1>10, <1>11 DEF Scan
<1>13. IdleScan \in Scan
  BY <1>2, <1>11 DEF Scan
<1>14. [IdleScan EXCEPT !.pc = "failed"] \in Scan
  BY <1>3, <1>11 DEF Scan
<1>15. Begun(floor).floor = floor
  BY <1>10
<1> QED
  BY <1>5, <1>10, <1>12, <1>13, <1>14, <1>15

LEMMA NobodyScans ==
    ASSUME ScansOK, AskOK
    PROVE  /\ ask.pc = "idle" => \A k \in Kinds : scan[k] = IdleScan
           /\ ask.kind # "reliability" => scan["fills"] = IdleScan /\ scan["refusals"] = IdleScan
           /\ ask.kind # "history" \/ ask.pc = "failed" => scan["swaps"] = IdleScan /\ scan["strategies"] = IdleScan
           /\ ask.pc \in {"fresh", "query", "await"} => scan["strategies"] = IdleScan
<1>1. \A k \in Kinds : ScanOK(k)
  BY DEF ScansOK
<1>2. ask.pc = "idle" => ask.kind = "none"
  BY DEF AskOK, Stages
<1>3. \A k \in Kinds : scan[k].pc # "idle" => FloorOK(k)
  BY <1>1 DEF ScanOK
<1>4. \A k \in Kinds : scan[k].pc = "idle" => scan[k] = IdleScan
  BY <1>1 DEF ScanOK
<1> QED
  BY <1>2, <1>3, <1>4 DEF FloorOK, Kinds

\* A scan that is let alone, while the chain grows or not.
LEMMA ScanKept ==
    ASSUME ChainOK, Grows, Len(chain') \in Nat, NEW k \in Kinds, ScansOK, scan'[k] = scan[k],
           scan[k].pc # "idle" => FloorOK(k)' /\ ask'.began = ask.began /\ ask'.maker = ask.maker
    PROVE  ScanOK(k)'
<1> PICK q : q = scan[k]
  OBVIOUS
<1>1. ScanOK(k) /\ q = scan[k] /\ q = scan'[k] /\ q.top \in Nat /\ q.end \in Int /\ q.pages \in Nat /\ q.floor \in Nat
  BY ScanIs
<1>2. q.top <= Latest /\ Latest <= Latest' /\ Latest \in Nat /\ Latest' \in Nat
  BY <1>1, ChainIs DEF ScanOK, Grows, Latest
<1>3. Lowest(k)' = Lowest(k) /\ Lowest(k) \in Int
  BY <1>1, Reach DEF Lowest
<1>4. ASSUME NEW low \in Int, q.pc # "idle", HasRead(k, low) PROVE HasRead(k, low)'
  <2>1. LogsIn(k, low, q.top)' = LogsIn(k, low, q.top)
    BY <1>1, <1>2, Stays
  <2>2. DockedIn(low, q.top)' = DockedIn(low, q.top)
    BY <1>1, <1>2, Stays
  <2>3. HashesDocked(low, q.top)' = HashesDocked(low, q.top)
    BY <1>1, <1>4, <2>2 DEF HashesDocked
  <2>4. /\ ToSet(q.out) = LogsIn(k, low, q.top) /\ IsInjective(q.out)
        /\ k = "strategies" => q.docks = HashesDocked(low, q.top)
    BY <1>1, <1>4 DEF HasRead
  <2>5. /\ ToSet(q.out) = LogsIn(k, low, q.top)' /\ IsInjective(q.out)
        /\ k = "strategies" => q.docks = HashesDocked(low, q.top)'
    BY <2>1, <2>3, <2>4
  <2> QED
    BY <1>1, <2>5 DEF HasRead
<1>5. ASSUME q.pc = "page" PROVE HasRead(k, q.end + 1)'
  <2> PICK low \in Int : low = q.end + 1
    BY <1>1
  <2>1. HasRead(k, low)
    BY <1>1, <1>5 DEF ScanOK
  <2>2. HasRead(k, low)'
    BY <1>4, <1>5, <2>1
  <2> QED
    BY <2>2
<1>6. ASSUME q.pc = "done" PROVE HasRead(k, Lowest(k))'
  <2> PICK low \in Int : low = Lowest(k) /\ low = Lowest(k)'
    BY <1>3
  <2>1. HasRead(k, low)
    BY <1>1, <1>6 DEF ScanOK
  <2>2. HasRead(k, low)'
    BY <1>4, <1>6, <2>1
  <2> QED
    BY <2>2
<1>7. q.pc \in {"page", "done"} => ask.began <= q.top /\ ask'.began = ask.began
  BY <1>1 DEF ScanOK
<1>8. q.pc # "idle" => FloorOK(k)'
  BY <1>1
<1>9. /\ q.pc = "idle" => q = IdleScan
      /\ q.pc = "head" => q = Begun(q.floor)
      /\ q.pc = "failed" => q = [IdleScan EXCEPT !.pc = "failed"]
      /\ q.pc = "page" => q.pages < Budget(k) /\ q.end = q.top - q.pages * (Page + 1) /\ q.floor <= q.end + 1
      /\ q.pc = "done" => q.pages <= Budget(k)
  BY <1>1 DEF ScanOK
<1>10. q.top <= Latest'
  BY <1>1, <1>2
<1>11. q.pc \in {"page", "done"} => ask'.began <= q.top
  BY <1>7
<1> HIDE DEF FloorOK
<1>12. q.pc = "page" => HasRead(k, q.end + 1)'
  BY <1>5
<1>13. q.pc = "done" => HasRead(k, Lowest(k))'
  BY <1>6
<1>14. scan'[k] = q
  BY <1>1
<1> QED
  BY <1>8, <1>9, <1>10, <1>11, <1>12, <1>13, <1>14 DEF ScanOK

LEMMA Same == ASSUME ChainOK, chain' = chain PROVE Grows /\ Len(chain') \in Nat /\ Latest' = Latest
BY ChainIs DEF Grows, Latest

-----------------------------------------------------------------------------
(***************************************************************************)
(* The steps of a scan.                                                    *)
(***************************************************************************)
LEMMA HeadIs ==
    ASSUME ScansOK, NEW k \in Kinds, ReadHead(k)
    PROVE  LET low == IF ask.kind = "history" THEN WindowFloor(k, Latest) ELSE scan[k].floor
           IN /\ scan'[k] = [pc |-> "page", floor |-> low, top |-> Latest, end |-> Latest, pages |-> 0, out |-> <<>>, docks |-> {}]
              /\ scan' = [x \in Kinds |-> scan'[x]] /\ \A x \in Kinds : x # k => scan'[x] = scan[x]
<1> DEFINE low == IF ask.kind = "history" THEN WindowFloor(k, Latest) ELSE scan[k].floor
<1>1. DOMAIN scan = Kinds
  BY DEF ScansOK
<1>2. PICK out, docks, f : out = <<>> /\ docks = {} /\ f = scan[k].floor /\ f \in Nat
  BY ScanIs
<1>3. scan[k] = [pc |-> "head", floor |-> f, top |-> 0, end |-> 0, pages |-> 0, out |-> out, docks |-> docks]
  <2>1. scan[k] = Begun(f)
    BY <1>2, ScanIs DEF ReadHead, ScanOK
  <2> QED
    BY <1>2, <2>1, BegunIs
<1> HIDE DEF low
<1>4. PICK s1 : s1 = [scan EXCEPT ![k].pc = "page"]
  OBVIOUS
<1>5. PICK s2 : s2 = [s1 EXCEPT ![k].top = Latest]
  OBVIOUS
<1>6. PICK s3 : s3 = [s2 EXCEPT ![k].end = Latest]
  OBVIOUS
<1>7. PICK s4 : s4 = [s3 EXCEPT ![k].floor = low]
  OBVIOUS
<1>8. scan' = s4
  <2>1. scan' = [scan EXCEPT ![k].pc = "page", ![k].top = Latest, ![k].end = Latest, ![k].floor = low]
    <3>1. CASE ask.kind = "history"
      BY <3>1 DEF ReadHead, low
    <3>2. CASE ask.kind # "history"
      <4>1. scan' = [scan EXCEPT ![k].pc = "page", ![k].top = Latest, ![k].end = Latest, ![k].floor = @]
        BY <3>2 DEF ReadHead
      <4>2. low = scan[k].floor
        BY <3>2 DEF low
      <4> QED
        BY <1>1, <4>1, <4>2
    <3> QED
      BY <3>1, <3>2
  <2> QED
    BY <1>4, <1>5, <1>6, <1>7, <2>1
<1>9. /\ DOMAIN s1 = Kinds /\ \A x \in Kinds : x # k => s1[x] = scan[x]
      /\ s1[k] = [pc |-> "page", floor |-> f, top |-> 0, end |-> 0, pages |-> 0, out |-> out, docks |-> docks]
  BY <1>1, <1>3, <1>4
<1>10. /\ DOMAIN s2 = Kinds /\ \A x \in Kinds : x # k => s2[x] = scan[x]
       /\ s2[k] = [pc |-> "page", floor |-> f, top |-> Latest, end |-> 0, pages |-> 0, out |-> out, docks |-> docks]
  BY <1>5, <1>9
<1>11. /\ DOMAIN s3 = Kinds /\ \A x \in Kinds : x # k => s3[x] = scan[x]
       /\ s3[k] = [pc |-> "page", floor |-> f, top |-> Latest, end |-> Latest, pages |-> 0, out |-> out, docks |-> docks]
  BY <1>6, <1>10
<1>13. s4 = [x \in Kinds |-> s4[x]]
  <2>1. s4 = [x \in Kinds |-> IF x = k THEN [s3[k] EXCEPT !.floor = low] ELSE s3[x]]
    BY <1>7, <1>11
  <2> QED
    BY <2>1
<1>12. /\ \A x \in Kinds : x # k => s4[x] = scan[x]
       /\ s4[k] = [pc |-> "page", floor |-> low, top |-> Latest, end |-> Latest, pages |-> 0, out |-> out, docks |-> docks]
  BY <1>7, <1>11
<1> QED
  BY <1>2, <1>8, <1>12, <1>13 DEF low

LEMMA PageIs ==
    ASSUME ScansOK, NEW k \in Kinds, ReadPage(k)
    PROVE  LET q == scan[k]
               start == PageStart(q)
           IN /\ scan'[k] = [pc |-> IF start = q.floor \/ q.pages + 1 >= Budget(k) THEN "done" ELSE "page",
                             floor |-> q.floor, top |-> q.top, end |-> start - 1, pages |-> q.pages + 1,
                             out |-> q.out \o SetToSeq(LogsIn(k, start, q.end)),
                             docks |-> IF k = "strategies" THEN SeenDocks(q, start) ELSE {}]
              /\ scan' = [x \in Kinds |-> scan'[x]] /\ \A x \in Kinds : x # k => scan'[x] = scan[x]
<1>1. DOMAIN scan = Kinds
  BY DEF ScansOK
<1>2. PICK q : q = scan[k]
  OBVIOUS
<1>3. q = [pc |-> q.pc, floor |-> q.floor, top |-> q.top, end |-> q.end, pages |-> q.pages, out |-> q.out, docks |-> q.docks]
  BY <1>2, ScanIs
<1> DEFINE start == PageStart(q)
           pc == IF start = q.floor \/ q.pages + 1 >= Budget(k) THEN "done" ELSE "page"
           out == q.out \o SetToSeq(LogsIn(k, start, q.end))
           docks == IF k = "strategies" THEN SeenDocks(q, start) ELSE {}
<1>4. scan' = [scan EXCEPT ![k] = [q EXCEPT !.pc = pc, !.pages = @ + 1, !.end = NextEnd(start), !.out = out, !.docks = docks]]
  BY <1>2 DEF ReadPage
<1>5. NextEnd(start) = start - 1
  BY DEF NextEnd
<1> HIDE DEF start, pc, out, docks
<1>6. PICK q1 : q1 = [q EXCEPT !.pc = pc]
  OBVIOUS
<1>7. PICK q2 : q2 = [q1 EXCEPT !.pages = @ + 1]
  OBVIOUS
<1>8. PICK q3 : q3 = [q2 EXCEPT !.end = NextEnd(start)]
  OBVIOUS
<1>9. PICK q4 : q4 = [q3 EXCEPT !.out = out]
  OBVIOUS
<1>10. PICK q5 : q5 = [q4 EXCEPT !.docks = docks]
  OBVIOUS
<1>11. q5 = [q EXCEPT !.pc = pc, !.pages = @ + 1, !.end = NextEnd(start), !.out = out, !.docks = docks]
  BY <1>6, <1>7, <1>8, <1>9, <1>10
<1>12. q1 = [pc |-> pc, floor |-> q.floor, top |-> q.top, end |-> q.end, pages |-> q.pages, out |-> q.out, docks |-> q.docks]
  BY <1>3, <1>6
<1>13. q2 = [pc |-> pc, floor |-> q.floor, top |-> q.top, end |-> q.end, pages |-> q.pages + 1, out |-> q.out, docks |-> q.docks]
  BY <1>7, <1>12
<1>14. q3 = [pc |-> pc, floor |-> q.floor, top |-> q.top, end |-> start - 1, pages |-> q.pages + 1, out |-> q.out, docks |-> q.docks]
  BY <1>5, <1>8, <1>13
<1>15. q4 = [pc |-> pc, floor |-> q.floor, top |-> q.top, end |-> start - 1, pages |-> q.pages + 1, out |-> out, docks |-> q.docks]
  BY <1>9, <1>14
<1>16. q5 = [pc |-> pc, floor |-> q.floor, top |-> q.top, end |-> start - 1, pages |-> q.pages + 1, out |-> out, docks |-> docks]
  BY <1>10, <1>15
<1>17. scan' = [scan EXCEPT ![k] = q5]
  BY <1>4, <1>11
<1>18. scan'[k] = q5 /\ scan' = [x \in Kinds |-> scan'[x]] /\ \A x \in Kinds : x # k => scan'[x] = scan[x]
  BY <1>1, <1>17
<1>19. scan'[k] = [pc |-> pc, floor |-> q.floor, top |-> q.top, end |-> start - 1, pages |-> q.pages + 1, out |-> out, docks |-> docks]
  BY <1>16, <1>18
<1> QED
  BY <1>2, <1>18, <1>19 DEF start, pc, out, docks

\* One scan moves on, and the others wait.
LEMMA OneScanMoves ==
    ASSUME ChainOK, ScansOK, NEW k \in Kinds, UNCHANGED <<chain, ask>>,
           scan' = [x \in Kinds |-> scan'[x]], \A x \in Kinds : x # k => scan'[x] = scan[x], scan'[k] \in Scan, ScanOK(k)'
    PROVE  ScansOK'
<1>1. ASSUME NEW x \in Kinds, x # k PROVE scan'[x] \in Scan /\ ScanOK(x)'
  <2>1. ScanOK(x) /\ scan'[x] = scan[x] /\ scan[x] \in Scan
    BY <1>1 DEF ScansOK
  <2>2. scan[x].pc # "idle" => FloorOK(x)'
    BY <2>1 DEF ScanOK, FloorOK
  <2>3. ScanOK(x)'
    BY <1>1, <2>1, <2>2, Same, ScanKept
  <2> QED
    BY <2>1, <2>3
<1>2. \A x \in Kinds : scan'[x] \in Scan /\ ScanOK(x)'
  BY <1>1
<1>3. scan' \in [Kinds -> Scan]
  BY <1>2
<1> QED
  BY <1>2, <1>3 DEF ScansOK

LEMMA Unchanged ==
    ASSUME ChainOK, UNCHANGED <<chain, ask>>, NEW k \in Kinds
    PROVE  /\ \A a, b \in Int : LogsIn(k, a, b)' = LogsIn(k, a, b) /\ HashesDocked(a, b)' = HashesDocked(a, b)
           /\ Latest' = Latest
<1>1. Latest' = Latest
  BY DEF Latest
<1>2. \A a, b \in Int : LogsIn(k, a, b)' = LogsIn(k, a, b)
  BY <1>1 DEF LogsIn, Logs
<1>3. \A a, b \in Int : HashesDocked(a, b)' = HashesDocked(a, b)
  BY <1>1 DEF HashesDocked, DockedIn
<1> QED
  BY <1>1, <1>2, <1>3

LEMMA Opened ==
    ASSUME ChainOK, ScansOK, AskOK, NEW k \in Kinds, NEW low \in Nat, low <= Latest + 1, UNCHANGED <<chain, ask>>,
           scan'[k] = [pc |-> "page", floor |-> low, top |-> Latest, end |-> Latest, pages |-> 0, out |-> <<>>, docks |-> {}],
           scan' = [x \in Kinds |-> scan'[x]], \A x \in Kinds : x # k => scan'[x] = scan[x], FloorOK(k)'
    PROVE  ScansOK'
<1>1. Latest \in Nat /\ ask.began <= Latest
  BY ChainIs DEF AskOK
<1>2. PICK n \in Nat : n = Latest
  BY <1>1
<1>3. PICK out, docks : out = <<>> /\ docks = {}
  OBVIOUS
<1>4. scan'[k] = [pc |-> "page", floor |-> low, top |-> n, end |-> n, pages |-> 0, out |-> out, docks |-> docks]
  BY <1>2, <1>3
<1>5. out \in Seq(Log) /\ docks \in SUBSET {HashOf[s] : s \in Strategies} /\ IsInjective(out) /\ ToSet(out) = {}
  BY <1>3 DEF IsInjective, ToSet
<1>6. scan'[k] \in Scan
  BY <1>4, <1>5 DEF Scan
<1>7. /\ scan'[k].pc = "page" /\ scan'[k].floor = low /\ scan'[k].top = n /\ scan'[k].end = n /\ scan'[k].pages = 0
      /\ scan'[k].out = out /\ scan'[k].docks = docks
  BY <1>4
<1>8. PICK past \in Int : past = n + 1
  OBVIOUS
<1>9. LogsIn(k, past, n)' = {} /\ HashesDocked(past, n)' = {}
  <2>1. LogsIn(k, past, n) = {} /\ HashesDocked(past, n) = {}
    BY <1>8, PastHead
  <2> QED
    BY <2>1, Unchanged
<1>10. HasRead(k, past)'
  BY <1>3, <1>5, <1>7, <1>9 DEF HasRead
<1>11. HasRead(k, scan[k].end + 1)'
  BY <1>7, <1>8, <1>10
<1>12. n = n - 0 * (Page + 1) /\ 0 < Budget(k) /\ low <= n + 1
  BY <1>2, ConstantsAre, BudgetIs
<1>13. scan'[k].top <= Latest' /\ ask'.began <= scan'[k].top
  BY <1>1, <1>2, <1>7 DEF Latest
<1>14. ScanOK(k)'
  BY <1>7, <1>11, <1>12, <1>13 DEF ScanOK
<1> QED
  BY <1>6, <1>14, OneScanMoves

LEMMA HeadRead == ASSUME ChainOK, ScansOK, AskOK, NEW k \in Kinds, ReadHead(k) PROVE ScansOK'
<1> DEFINE low == IF ask.kind = "history" THEN WindowFloor(k, Latest) ELSE scan[k].floor
<1>1. UNCHANGED <<chain, ask>> /\ scan[k].pc = "head"
  BY DEF ReadHead
<1>2. /\ scan'[k] = [pc |-> "page", floor |-> low, top |-> Latest, end |-> Latest, pages |-> 0, out |-> <<>>, docks |-> {}]
      /\ scan' = [x \in Kinds |-> scan'[x]] /\ \A x \in Kinds : x # k => scan'[x] = scan[x]
  BY HeadIs
<1>3. Latest \in Nat /\ ask.began \in Nat /\ ask.began <= Latest
  BY ChainIs DEF AskOK
<1>4. FloorOK(k) /\ ScanOK(k) /\ scan[k].floor \in Nat
  BY <1>1, ScanIs DEF ScanOK
<1>5. CASE ask.kind = "history"
  <2>1. low = WindowFloor(k, Latest)
    BY <1>5
  <2>2. low \in Nat /\ low <= Latest + 1
    BY <1>3, <2>1, FloorIs
  <2>3. k \notin {"fills", "refusals"}
    BY <1>4, <1>5 DEF FloorOK
  <2>4. FloorOK(k)'
    BY <1>1, <1>2, <1>4, <2>1, <2>3 DEF FloorOK, WindowFloor
  <2> QED
    BY <1>1, <1>2, <1>3, <2>2, <2>4, Opened
<1>6. CASE ask.kind # "history"
  <2>1. low = scan[k].floor
    BY <1>6
  <2>2. k \in {"fills", "refusals"} /\ scan[k].floor = WindowFloor("fills", ask.began)
    BY <1>1, <1>4, <1>6 DEF FloorOK
  <2>3. WindowFloor("fills", ask.began) <= ask.began + 1
    BY <1>3, FloorIs DEF Kinds
  <2> HIDE DEF low
  <2>4. low \in Nat /\ low <= Latest + 1
    BY <1>3, <1>4, <2>1, <2>2, <2>3
  <2>5. scan'[k].floor = low /\ scan'[k].pc = "page"
    BY <1>2
  <2>6. FloorOK(k)'
    BY <1>1, <1>4, <2>1, <2>2, <2>5 DEF FloorOK, WindowFloor
  <2> QED
    BY <1>1, <1>2, <1>3, <2>4, <2>6, Opened
<1> QED
  BY <1>5, <1>6

LEMMA LastPage ==
    ASSUME NEW t \in Nat, NEW x \in Nat, NEW y \in Nat, NEW z \in Nat, NEW p \in Nat, NEW f \in Nat, NEW s \in Nat,
           y = x + (p + 1), y <= z, s >= f, s >= t - x - p, s = f \/ (s = t - x - p /\ y = z /\ s > f)
    PROVE  s = IF f >= t - z + 1 THEN f ELSE t - z + 1
OBVIOUS

LEMMA Product == ASSUME NEW a \in Nat, NEW b \in Nat PROVE a * b \in Nat
OBVIOUS

LEMMA PageRead == ASSUME ChainOK, ScansOK, AskOK, NEW k \in Kinds, ReadPage(k) PROVE ScansOK'
<1>1. UNCHANGED <<chain, ask>> /\ scan[k].pc = "page"
  BY DEF ReadPage
<1>2. PICK q : q = scan[k]
  OBVIOUS
<1>3. PICK start : start = PageStart(q)
  OBVIOUS
<1>4. /\ q.pc = "page" /\ q.floor \in Nat /\ q.top \in Nat /\ q.end \in Int /\ q.pages \in Nat /\ q.out \in Seq(Log)
      /\ q.docks \in SUBSET {HashOf[s] : s \in Strategies}
      /\ FloorOK(k) /\ q.top <= Latest /\ ask.began <= q.top
      /\ q.pages < Budget(k) /\ q.end = q.top - q.pages * (Page + 1) /\ q.floor <= q.end + 1 /\ HasRead(k, q.end + 1)
  BY <1>1, <1>2, ScanIs DEF ScanOK
<1>5. Page \in Nat /\ Budget(k) \in Nat /\ Latest \in Nat
  BY ConstantsAre, BudgetIs, ChainIs
<1>28. q.pages \in Nat /\ Page + 1 \in Nat /\ Budget(k) \in Nat
  <2>1. q.pages \in Nat
    BY <1>4
  <2> QED
    BY <1>5, <2>1
<1>6. q.end <= q.top
  <2>1. q.pages * (Page + 1) \in Nat
    <3>1. PICK a \in Nat, c \in Nat : a = q.pages /\ c = Page + 1
      BY <1>28
    <3> QED
      BY <3>1, Product
  <2> QED
    BY <1>4, <2>1
<1>7. /\ start \in Nat /\ start >= q.floor /\ start <= q.end + 1 /\ start >= q.end - Page
      /\ start # q.floor => start = q.end - Page /\ start > q.floor
  BY <1>3, <1>4, <1>5 DEF PageStart
<1>8. PICK news : news = LogsIn(k, start, q.end)
  OBVIOUS
<1>9. IsFiniteSet(news) /\ news \subseteq Log
  <2>1. q.end < 0 => news = {}
    BY <1>4, <1>7, <1>8, PastHead
  <2>2. q.end \in Nat => IsFiniteSet(news)
    BY <1>7, <1>8, RangeFinite
  <2>3. IsFiniteSet(news)
    <3>1. q.end < 0 \/ q.end \in Nat
      BY <1>4
    <3> QED
      BY <2>1, <2>2, <3>1, FS_EmptySet
  <2> QED
    BY <1>4, <1>7, <1>8, <2>3, RangesAre
<1>10. PICK listed : listed = SetToSeq(news)
  OBVIOUS
<1>11. listed \in Seq(Log) /\ IsInjective(listed) /\ ToSet(listed) = news
  <2>1. listed \in Seq(news) /\ IsInjective(listed) /\ ToSet(listed) = news
    BY <1>9, <1>10, Listing
  <2>2. listed \in Seq(Log)
    BY <1>9, <2>1
  <2> QED
    BY <2>1, <2>2
<1>12. PICK low \in Int : low = q.end + 1
  BY <1>4
<1>13. ToSet(q.out) = LogsIn(k, low, q.top) /\ IsInjective(q.out) /\ (k = "strategies" => q.docks = HashesDocked(low, q.top))
  BY <1>2, <1>4, <1>12 DEF HasRead
<1>14. /\ LogsIn(k, start, q.top) = LogsIn(k, low, q.top) \cup LogsIn(k, start, q.end)
       /\ LogsIn(k, low, q.top) \cap LogsIn(k, start, q.end) = {}
       /\ HashesDocked(start, q.top) = HashesDocked(low, q.top) \cup HashesDocked(start, q.end)
  <2>1. start \in Int /\ q.top \in Int /\ q.end \in Int
    BY <1>4, <1>7
  <2> QED
    BY <1>4, <1>6, <1>7, <1>12, <2>1, Joined
<1>15. PICK all : all = q.out \o listed
  OBVIOUS
<1>16. all \in Seq(Log) /\ IsInjective(all) /\ ToSet(all) = LogsIn(k, start, q.top)
  <2>1. ToSet(q.out) \cap ToSet(listed) = {}
    BY <1>8, <1>11, <1>13, <1>14
  <2>2. all \in Seq(Log) /\ IsInjective(all) /\ ToSet(all) = ToSet(q.out) \cup ToSet(listed)
    BY <1>4, <1>11, <1>13, <1>15, <2>1, Appended
  <2> QED
    BY <1>8, <1>11, <1>13, <1>14, <2>2
<1>17. PICK pc : pc = IF start = q.floor \/ q.pages + 1 >= Budget(k) THEN "done" ELSE "page"
  OBVIOUS
<1>18. PICK docks : docks = IF k = "strategies" THEN SeenDocks(q, start) ELSE {}
  OBVIOUS
<1>19. /\ k = "strategies" => docks = HashesDocked(start, q.top)
       /\ docks \in SUBSET {HashOf[s] : s \in Strategies}
  <2>1. SeenDocks(q, start) = q.docks \cup HashesDocked(start, q.end)
    BY DEF SeenDocks, HashesDocked
  <2>2. HashesDocked(start, q.top) \subseteq {HashOf[s] : s \in Strategies}
    BY DEF HashesDocked, DockedIn
  <2> QED
    BY <1>13, <1>14, <1>18, <2>1, <2>2
<1>20. /\ scan'[k] = [pc |-> pc, floor |-> q.floor, top |-> q.top, end |-> start - 1, pages |-> q.pages + 1, out |-> all, docks |-> docks]
       /\ scan' = [x \in Kinds |-> scan'[x]] /\ \A x \in Kinds : x # k => scan'[x] = scan[x]
  <2>1. LET p == scan[k]
            begin == PageStart(p)
        IN /\ scan'[k] = [pc |-> IF begin = p.floor \/ p.pages + 1 >= Budget(k) THEN "done" ELSE "page",
                          floor |-> p.floor, top |-> p.top, end |-> begin - 1, pages |-> p.pages + 1,
                          out |-> p.out \o SetToSeq(LogsIn(k, begin, p.end)),
                          docks |-> IF k = "strategies" THEN SeenDocks(p, begin) ELSE {}]
           /\ scan' = [x \in Kinds |-> scan'[x]] /\ \A x \in Kinds : x # k => scan'[x] = scan[x]
    BY PageIs
  <2> QED
    BY <1>2, <1>3, <1>8, <1>10, <1>15, <1>17, <1>18, <2>1
<1>21. scan'[k] \in Scan
  <2>1. pc \in {"page", "done"} /\ start - 1 \in Int /\ q.pages + 1 \in Nat
    BY <1>4, <1>7, <1>17
  <2> QED
    BY <1>4, <1>16, <1>19, <1>20, <2>1 DEF Scan
<1>22. /\ scan'[k].pc = pc /\ scan'[k].floor = q.floor /\ scan'[k].top = q.top /\ scan'[k].end = start - 1
       /\ scan'[k].pages = q.pages + 1 /\ scan'[k].out = all /\ scan'[k].docks = docks
  BY <1>20
<1>23. FloorOK(k)'
  <2>1. pc # "failed" /\ pc \in {"page", "done"}
    BY <1>17
  <2> QED
    BY <1>1, <1>2, <1>4, <1>22, <2>1 DEF FloorOK, WindowFloor
<1>24. HasRead(k, start)'
  <2>1. LogsIn(k, start, q.top)' = LogsIn(k, start, q.top) /\ HashesDocked(start, q.top)' = HashesDocked(start, q.top)
    BY <1>1, <1>4, <1>7, Unchanged
  <2> QED
    BY <1>16, <1>19, <1>22, <2>1 DEF HasRead
<1>25. (q.pages + 1) * (Page + 1) = q.pages * (Page + 1) + (Page + 1)
  BY <1>4, <1>5
<1>26. CASE pc = "page"
  <2>1. start # q.floor /\ q.pages + 1 < Budget(k)
    BY <1>4, <1>5, <1>17, <1>26
  <2>2. start - 1 = q.top - (q.pages + 1) * (Page + 1) /\ q.floor <= (start - 1) + 1 /\ (start - 1) + 1 = start
    <3>1. q.pages * (Page + 1) \in Nat
      <4>1. PICK a \in Nat, c \in Nat : a = q.pages /\ c = Page + 1
        BY <1>28
      <4> QED
        BY <4>1, Product
    <3>9. (q.pages + 1) * (Page + 1) \in Nat
      <4>1. PICK c \in Nat : c = Page + 1
        BY <1>28
      <4>2. PICK d \in Nat : d = q.pages + 1
        BY <1>28
      <4> QED
        BY <4>1, <4>2, Product
    <3>2. PICK x \in Nat, y \in Nat : x = q.pages * (Page + 1) /\ y = (q.pages + 1) * (Page + 1)
      BY <3>1, <3>9
    <3>3. y = x + (Page + 1) /\ q.end = q.top - x
      BY <1>4, <1>25, <3>2
    <3>5. start = q.end - Page
      BY <1>7, <2>1
    <3>6. PICK t \in Nat, p \in Nat : t = q.top /\ p = Page
      BY <1>4, <1>5
    <3>7. start = (t - x) - p /\ y = x + (p + 1)
      BY <3>3, <3>5, <3>6
    <3>8. start - 1 = t - y
      BY <3>7
    <3>4. start - 1 = q.top - y
      BY <3>6, <3>8
    <3> QED
      BY <1>4, <1>7, <3>2, <3>4
  <2>3. HasRead(k, scan[k].end + 1)'
    BY <1>22, <1>24, <2>2
  <2>4. scan'[k].pc # "idle" /\ scan'[k].pc # "head" /\ scan'[k].pc # "failed" /\ scan'[k].pc # "done"
    BY <1>22, <1>26
  <2>5. scan'[k].top <= Latest' /\ ask'.began <= scan'[k].top
    BY <1>1, <1>4, <1>22 DEF Latest
  <2>6. scan'[k].pages < Budget(k) /\ scan'[k].end = scan'[k].top - scan'[k].pages * (Page + 1) /\ scan'[k].floor <= scan'[k].end + 1
    BY <1>22, <2>1, <2>2
  <2>7. ScanOK(k)'
    BY <1>23, <2>3, <2>4, <2>5, <2>6 DEF ScanOK
  <2> QED
    BY <1>1, <1>20, <1>21, <2>7, OneScanMoves
<1>27. CASE pc = "done"
  <2>1. start = q.floor \/ q.pages + 1 = Budget(k)
    BY <1>4, <1>5, <1>17, <1>27
  <2>2. PICK r : r = q.top - Budget(k) * (Page + 1) + 1
    OBVIOUS
  <2>3. start = IF q.floor >= r THEN q.floor ELSE r
    <3>1. q.pages * (Page + 1) \in Nat /\ Budget(k) * (Page + 1) \in Nat
      <4>1. PICK a \in Nat, b \in Nat, c \in Nat : a = q.pages /\ b = Budget(k) /\ c = Page + 1
        BY <1>28
      <4> QED
        BY <4>1, Product
    <3>9. (q.pages + 1) * (Page + 1) \in Nat
      <4>1. PICK c \in Nat : c = Page + 1
        BY <1>28
      <4>2. PICK d \in Nat : d = q.pages + 1
        BY <1>28
      <4> QED
        BY <4>1, <4>2, Product
    <3>2. PICK x \in Nat, y \in Nat, z \in Nat :
             x = q.pages * (Page + 1) /\ y = (q.pages + 1) * (Page + 1) /\ z = Budget(k) * (Page + 1)
      BY <3>1, <3>9
    <3>3. y = x + (Page + 1) /\ q.end = q.top - x /\ r = q.top - z + 1
      BY <1>4, <1>25, <2>2, <3>2
    <3>4. y <= z
      <4>1. q.pages + 1 <= Budget(k)
        BY <1>4, <1>5
      <4>2. PICK a \in Nat, b \in Nat, c \in Nat : a = q.pages + 1 /\ b = Budget(k) /\ c = Page + 1
        BY <1>4, <1>5
      <4>3. a * c <= b * c
        <5>1. a <= b
          BY <4>1, <4>2
        <5> QED
          BY <5>1, Monotone
      <4> QED
        BY <3>2, <4>2, <4>3
    <3>5. PICK t \in Nat, f \in Nat, s \in Nat, p \in Nat : t = q.top /\ f = q.floor /\ s = start /\ p = Page
      BY <1>4, <1>5, <1>7
    <3>6. s >= f /\ s >= t - x - p /\ y = x + (p + 1)
      BY <1>7, <3>3, <3>5
    <3>7. s = f \/ (s = t - x - p /\ y = z /\ s > f)
      BY <1>7, <2>1, <3>2, <3>3, <3>5
    <3>8. s = IF f >= t - z + 1 THEN f ELSE t - z + 1
      BY <3>4, <3>6, <3>7, LastPage
    <3> QED
      BY <3>3, <3>5, <3>8
  <2>4. Lowest(k)' = start
    <3>1. r \in Int
      BY <1>4, <1>5, <2>2
    <3>2. Lowest(k)' = Max({q.floor, r})
      BY <1>22, <2>2 DEF Lowest, Budget
    <3> QED
      BY <1>4, <2>3, <3>1, <3>2, MaxOfTwo
  <2>5. HasRead(k, Lowest(k))'
    BY <1>24, <2>4
  <2>6. scan'[k].pc # "idle" /\ scan'[k].pc # "head" /\ scan'[k].pc # "failed" /\ scan'[k].pc # "page"
    BY <1>22, <1>27
  <2>7. scan'[k].top <= Latest' /\ ask'.began <= scan'[k].top
    BY <1>1, <1>4, <1>22 DEF Latest
  <2>8. scan'[k].pages <= Budget(k)
    BY <1>4, <1>5, <1>22
  <2>9. ScanOK(k)'
    BY <1>23, <2>5, <2>6, <2>7, <2>8 DEF ScanOK
  <2> QED
    BY <1>1, <1>20, <1>21, <2>9, OneScanMoves
<1> QED
  BY <1>17, <1>26, <1>27

-----------------------------------------------------------------------------
(***************************************************************************)
(* The steps of a request.                                                 *)
(***************************************************************************)
LEMMA IdleAskIs ==
    /\ DOMAIN IdleAsk = Fields /\ IdleAsk.kind = "none" /\ IdleAsk.pc = "idle" /\ IdleAsk.source = "none" /\ IdleAsk.at = 0
    /\ IdleAsk.began = 0
BY DEF IdleAsk, Fields

LEMMA AsksAre ==
    /\ AskReliability => /\ DOMAIN ask' = Fields /\ ask'.kind = "reliability" /\ ask'.pc = "scanning" /\ ask'.began = Latest
                         /\ ask'.source = "none" /\ ask'.at = 0
    /\ \A m \in Makers : AskHistory(m) =>
          /\ DOMAIN ask' = Fields /\ ask'.kind = "history" /\ ask'.pc = "fresh" /\ ask'.began = Latest
          /\ ask'.source = "none" /\ ask'.at = 0
    /\ \A kind \in {"apps", "pairs"} : AskListing(kind) =>
          /\ DOMAIN ask' = Fields /\ ask'.kind = kind /\ ask'.pc = "fresh" /\ ask'.began = Latest
          /\ ask'.source = "none" /\ ask'.at = 0
BY IdleAskIs DEF AskReliability, AskHistory, AskListing, Fields

\* A step of a request that is under way keeps what was asked.
SameAsk ==
    DOMAIN ask' = Fields /\ ask'.kind = ask.kind /\ ask'.maker = ask.maker /\ ask'.began = ask.began

LEMMA StepsAre ==
    ASSUME DOMAIN ask = Fields
    PROVE  /\ AnswerReliability => SameAsk /\ ask'.pc = "answered" /\ ask'.source = ask.source /\ ask'.at = ask.at /\ ask'.rows = Verdicts
           /\ IndexFresh => /\ SameAsk /\ ask'.source = ask.source /\ ask'.at = ask.at
                            /\ \/ ask'.pc = "query" /\ ~ TooFar
                               \/ ask'.pc = IF ask.kind = "history" THEN "await" ELSE "answered"
           /\ FallBack => SameAsk /\ ask'.pc = "paging" /\ ask'.source = "log" /\ ask'.at = ask.at
           /\ AnswerHistory =>
                 /\ SameAsk /\ ask'.pc = "answered" /\ ask'.source = ask.source /\ ask'.swaps = SwapHistory
                 /\ \/ ask.pc = "await" /\ ask.source = "graph" /\ ask'.at = ask.at /\ ask'.rows = ask.rows
                    \/ ask.pc = "paging" /\ scan["strategies"].pc = "done" /\ ask'.at = scan["strategies"].top /\ ask'.rows = PagedRows
           /\ \A k \in Kinds : ScanFails(k) /\ ask.kind # "reliability" =>
                 SameAsk /\ ask'.pc = "failed" /\ ask'.source = ask.source /\ ask'.at = ask.at /\ ask'.rows = ask.rows
<1>1. AnswerReliability => SameAsk /\ ask'.pc = "answered" /\ ask'.source = ask.source /\ ask'.at = ask.at /\ ask'.rows = Verdicts
  <2>1. AnswerReliability => ask' = [ask EXCEPT !.pc = "answered", !.rows = Verdicts]
    BY DEF AnswerReliability, Verdicts
  <2> QED
    BY <2>1 DEF SameAsk, Fields
<1>2. IndexFresh => /\ SameAsk /\ ask'.source = ask.source /\ ask'.at = ask.at
                    /\ \/ ask'.pc = "query" /\ ~ TooFar
                       \/ ask'.pc = IF ask.kind = "history" THEN "await" ELSE "answered"
  BY DEF IndexFresh, Unindexed, SameAsk, Fields
<1>3. FallBack => SameAsk /\ ask'.pc = "paging" /\ ask'.source = "log" /\ ask'.at = ask.at
  BY DEF FallBack, SameAsk, Fields
<1>4. AnswerHistory =>
         /\ SameAsk /\ ask'.pc = "answered" /\ ask'.source = ask.source /\ ask'.swaps = SwapHistory
         /\ \/ ask.pc = "await" /\ ask.source = "graph" /\ ask'.at = ask.at /\ ask'.rows = ask.rows
            \/ ask.pc = "paging" /\ scan["strategies"].pc = "done" /\ ask'.at = scan["strategies"].top /\ ask'.rows = PagedRows
  BY DEF AnswerHistory, SameAsk, Fields
<1>5. ASSUME NEW k \in Kinds, ScanFails(k), ask.kind # "reliability"
      PROVE SameAsk /\ ask'.pc = "failed" /\ ask'.source = ask.source /\ ask'.at = ask.at /\ ask'.rows = ask.rows
  BY <1>5 DEF ScanFails, SameAsk, Fields
<1> QED
  BY <1>1, <1>2, <1>3, <1>4, <1>5

LEMMA FromGraphIs ==
    ASSUME DOMAIN ask = Fields, FromGraph
    PROVE  /\ SameAsk /\ ask'.pc = IF ask.kind = "history" THEN "await" ELSE "answered"
           /\ \/ ask'.source = ask.source /\ ask'.at = ask.at
              \/ /\ ask'.source = "graph" /\ ask'.at = indexed
                 /\ ask.kind = "history" => ask'.rows = StrategyHistoryFromGraph
                 /\ ask.kind = "apps" => ask'.rows \in {appBreakdown(some) : some \in FirstOf(index.live)}
                 /\ ask.kind = "pairs" => ask'.rows \in {liquidPairsFromGraph(some) : some \in FirstOf(index.live \cap Ours)}
<1> DEFINE q == [ask EXCEPT !.source = "graph", !.at = indexed, !.pc = IF ask.kind = "history" THEN "await" ELSE "answered"]
           answers ==
            CASE ask.kind = "history" -> {StrategyHistoryFromGraph}
              [] ask.kind = "apps"    -> {appBreakdown(some) : some \in FirstOf(index.live)}
              [] ask.kind = "pairs"   -> {liquidPairsFromGraph(some) : some \in FirstOf(index.live \cap Ours)}
<1>1. \/ \E rows \in answers : ask' = [q EXCEPT !.rows = rows]
      \/ ask' = Unindexed
  BY DEF FromGraph
<1>2. CASE ask' = Unindexed
  BY <1>2 DEF Unindexed, SameAsk, Fields
<1>3. CASE \E rows \in answers : ask' = [q EXCEPT !.rows = rows]
  <2>1. PICK rows \in answers : ask' = [q EXCEPT !.rows = rows]
    BY <1>3
  <2>2. /\ DOMAIN q = Fields /\ q.kind = ask.kind /\ q.maker = ask.maker /\ q.began = ask.began /\ q.source = "graph" /\ q.at = indexed
        /\ q.pc = IF ask.kind = "history" THEN "await" ELSE "answered"
    BY DEF Fields
  <2> HIDE DEF q
  <2>3. /\ DOMAIN ask' = Fields /\ ask'.kind = q.kind /\ ask'.maker = q.maker /\ ask'.began = q.began /\ ask'.source = q.source
        /\ ask'.at = q.at /\ ask'.pc = q.pc /\ ask'.rows = rows
    BY <2>1, <2>2 DEF Fields
  <2>4. /\ ask.kind = "history" => rows = StrategyHistoryFromGraph
        /\ ask.kind = "apps" => rows \in {appBreakdown(some) : some \in FirstOf(index.live)}
        /\ ask.kind = "pairs" => rows \in {liquidPairsFromGraph(some) : some \in FirstOf(index.live \cap Ours)}
    OBVIOUS
  <2> QED
    BY <2>2, <2>3, <2>4 DEF SameAsk
<1> QED
  BY <1>1, <1>2, <1>3

-----------------------------------------------------------------------------
LEMMA ScansStay ==
    ASSUME ChainOK, ScansOK, Grows, Len(chain') \in Nat, scan' = scan,
           \A k \in Kinds : scan[k].pc # "idle" => FloorOK(k)' /\ ask'.began = ask.began /\ ask'.maker = ask.maker
    PROVE  ScansOK'
<1>1. ASSUME NEW k \in Kinds PROVE ScanOK(k)'
  <2>1. scan'[k] = scan[k] /\ (scan[k].pc # "idle" => FloorOK(k)' /\ ask'.began = ask.began /\ ask'.maker = ask.maker)
    OBVIOUS
  <2> QED
    BY <2>1, ScanKept
<1> QED
  BY <1>1 DEF ScansOK

LEMMA FreshScans ==
    ASSUME ChainOK, chain' = chain, NEW k \in Kinds, NEW floor \in Nat
    PROVE  /\ scan'[k] = IdleScan => ScanOK(k)'
           /\ scan'[k] = [IdleScan EXCEPT !.pc = "failed"] /\ FloorOK(k)' => ScanOK(k)'
           /\ scan'[k] = Begun(floor) /\ FloorOK(k)' => ScanOK(k)'
<1>1. Latest' \in Nat /\ 0 <= Latest'
  BY ChainIs DEF Latest
<1>2. IdleScan.pc = "idle" /\ IdleScan.top = 0
  BY DEF IdleScan
<1>3. PICK out : out = [IdleScan EXCEPT !.pc = "failed"]
  OBVIOUS
<1>4. out.pc = "failed" /\ out.top = 0
  BY <1>3 DEF IdleScan
<1>5. Begun(floor).pc = "head" /\ Begun(floor).top = 0 /\ Begun(floor).floor = floor
  BY BegunIs
<1>6. scan'[k] = IdleScan => ScanOK(k)'
  BY <1>1, <1>2 DEF ScanOK
<1>7. scan'[k] = out /\ FloorOK(k)' => ScanOK(k)'
  BY <1>1, <1>3, <1>4 DEF ScanOK
<1>8. scan'[k] = Begun(floor) /\ FloorOK(k)' => ScanOK(k)'
  BY <1>1, <1>5 DEF ScanOK
<1> QED
  BY <1>3, <1>6, <1>7, <1>8

\* A request that touches no scan: those under way are still its own.
LEMMA AskMoves ==
    ASSUME ChainOK, ScansOK, AskOK, UNCHANGED <<chain, scan>>,
           \/ AnswerReliability \/ IndexFresh \/ FromGraph \/ AnswerHistory
           \/ \E kind \in {"apps", "pairs"} : AskListing(kind)
    PROVE  ScansOK'
<1>1. Grows /\ Len(chain') \in Nat
  BY Same
<1>2. DOMAIN ask = Fields
  BY DEF AskOK
<1>3. \A k \in Kinds : ScanOK(k)
  BY DEF ScansOK
<1>4. \A k \in Kinds : scan[k].pc # "idle" => FloorOK(k)
  BY <1>3 DEF ScanOK
<1>5. IdleScan.pc = "idle"
  BY DEF IdleScan
<1>6. CASE AnswerReliability
  <2>1. SameAsk /\ ask'.pc = "answered" /\ ask'.source = ask.source /\ ask.kind = "reliability"
    BY <1>2, <1>6, StepsAre DEF AnswerReliability
  <2>2. \A k \in Kinds : scan[k].pc # "idle" => FloorOK(k)'
    BY <1>4, <2>1 DEF FloorOK, SameAsk, WindowFloor
  <2> QED
    BY <1>1, <2>1, <2>2, ScansStay DEF SameAsk
<1>7. CASE IndexFresh
  <2>1. SameAsk /\ ask'.pc \in {"query", "await", "answered"} /\ ask.pc = "fresh" /\ ask'.source = ask.source
    <3>1. ask.pc = "fresh"
      BY <1>7 DEF IndexFresh
    <3> QED
      BY <1>2, <1>7, <3>1, StepsAre
  <2>2. ask.kind # "reliability"
    BY <2>1 DEF AskOK, Stages
  <2>3. \A k \in Kinds : scan[k].pc # "idle" => k = "swaps"
    BY <1>5, <2>1, <2>2, NobodyScans DEF Kinds
  <2>4. \A k \in Kinds : scan[k].pc # "idle" => FloorOK(k)'
    BY <1>4, <2>1, <2>3 DEF FloorOK, SameAsk, WindowFloor
  <2> QED
    BY <1>1, <2>1, <2>4, ScansStay DEF SameAsk
<1>8. CASE FromGraph
  <2>1. SameAsk /\ ask'.pc \in {"await", "answered"}
    BY <1>2, <1>8, FromGraphIs
  <2>2. ask.pc = "query"
    BY <1>8 DEF FromGraph
  <2>3. ask.kind # "reliability"
    BY <2>2 DEF AskOK, Stages
  <2>4. \A k \in Kinds : scan[k].pc # "idle" => k = "swaps"
    BY <1>5, <2>2, <2>3, NobodyScans DEF Kinds
  <2>5. \A k \in Kinds : scan[k].pc # "idle" => FloorOK(k)'
    BY <1>4, <2>1, <2>4 DEF FloorOK, SameAsk, WindowFloor
  <2> QED
    BY <1>1, <2>1, <2>5, ScansStay DEF SameAsk
<1>9. CASE AnswerHistory
  <2>1. SameAsk /\ ask'.pc = "answered" /\ ask'.source = ask.source /\ ask.kind = "history"
    BY <1>2, <1>9, StepsAre DEF AnswerHistory
  <2>2. \A k \in Kinds : scan[k].pc # "idle" => FloorOK(k)'
    BY <1>4, <2>1 DEF FloorOK, SameAsk, WindowFloor
  <2> QED
    BY <1>1, <2>1, <2>2, ScansStay DEF SameAsk
<1>10. CASE \E kind \in {"apps", "pairs"} : AskListing(kind)
  <2>1. ask.pc = "idle"
    BY <1>10 DEF AskListing
  <2>2. \A k \in Kinds : scan[k].pc = "idle"
    BY <1>5, <2>1, NobodyScans
  <2> QED
    BY <1>1, <2>2, ScansStay
<1> QED
  BY <1>6, <1>7, <1>8, <1>9, <1>10

LEMMA ScanTyped ==
    ASSUME ScansOK, NEW k \in Kinds, NEW q \in Scan PROVE [scan EXCEPT ![k] = q] \in [Kinds -> Scan]
BY DEF ScansOK

LEMMA ReliabilityAsked == ASSUME ChainOK, ScansOK, AskOK, AskReliability PROVE ScansOK'
<1>1. PICK floor : floor = WindowFloor("fills", Latest)
  OBVIOUS
<1>2. floor \in Nat
  BY <1>1, FloorIs, ChainIs DEF Kinds
<1>3. scan' = [scan EXCEPT !["fills"] = Begun(floor), !["refusals"] = Begun(floor)] /\ chain' = chain /\ ask.pc = "idle"
  BY <1>1 DEF AskReliability
<1>4. scan \in [Kinds -> Scan] /\ {"fills", "refusals"} \subseteq Kinds /\ Begun(floor) \in Scan /\ IdleScan \in Scan
  BY <1>2, BegunIs DEF ScansOK, Kinds
<1>5. \A k \in Kinds : scan'[k] = IF k \in {"fills", "refusals"} THEN Begun(floor) ELSE IdleScan
  BY <1>3, <1>4, NobodyScans
<1>6. scan' \in [Kinds -> Scan]
  BY <1>3, <1>4
<1>7. ask'.kind = "reliability" /\ ask'.pc = "scanning" /\ ask'.began = Latest
  BY AsksAre
<1>8. \A k \in {"fills", "refusals"} : FloorOK(k)'
  <2>1. \A k \in {"fills", "refusals"} : scan'[k].floor = floor
    BY <1>2, <1>4, <1>5, BegunIs
  <2> QED
    BY <1>1, <1>7, <2>1 DEF FloorOK, WindowFloor
<1>9. ASSUME NEW k \in Kinds PROVE ScanOK(k)'
  BY <1>2, <1>3, <1>5, <1>8, FreshScans
<1> QED
  BY <1>6, <1>9 DEF ScansOK

LEMMA HistoryAsked == ASSUME ChainOK, ScansOK, AskOK, NEW m \in Makers, AskHistory(m) PROVE ScansOK'
<1>1. scan' = [scan EXCEPT !["swaps"] = Begun(0)] /\ chain' = chain /\ ask.pc = "idle"
  BY DEF AskHistory
<1>2. scan \in [Kinds -> Scan] /\ "swaps" \in Kinds /\ Begun(0) \in Scan /\ IdleScan \in Scan
  BY BegunIs DEF ScansOK, Kinds
<1>3. \A k \in Kinds : scan'[k] = IF k = "swaps" THEN Begun(0) ELSE IdleScan
  BY <1>1, <1>2, NobodyScans
<1>4. scan' \in [Kinds -> Scan]
  BY <1>1, <1>2
<1>5. ask'.kind = "history" /\ ask'.pc = "fresh"
  BY AsksAre
<1>6. scan'["swaps"].pc = "head"
  BY <1>2, <1>3, BegunIs
<1>7. FloorOK("swaps")'
  BY <1>5, <1>6 DEF FloorOK
<1>8. ASSUME NEW k \in Kinds PROVE ScanOK(k)'
  BY <1>1, <1>3, <1>7, FreshScans
<1> QED
  BY <1>4, <1>8 DEF ScansOK

LEMMA FellBack == ASSUME ChainOK, ScansOK, AskOK, FallBack PROVE ScansOK'
<1>1. scan' = [scan EXCEPT !["strategies"] = Begun(0)] /\ chain' = chain /\ ask.pc = "await"
  BY DEF FallBack
<1>2. scan \in [Kinds -> Scan] /\ "strategies" \in Kinds /\ Begun(0) \in Scan
  BY BegunIs DEF ScansOK, Kinds
<1>3. scan'["strategies"] = Begun(0) /\ scan' \in [Kinds -> Scan] /\ \A k \in Kinds : k # "strategies" => scan'[k] = scan[k]
  BY <1>1, <1>2
<1>4. SameAsk /\ ask'.pc = "paging" /\ ask'.source = "log"
  BY StepsAre DEF AskOK
<1>5. ask.kind = "history"
  BY <1>1 DEF AskOK, Stages
<1>6. scan'["strategies"].pc = "head"
  BY <1>3, BegunIs
<1>7. FloorOK("strategies")'
  BY <1>4, <1>5, <1>6 DEF FloorOK, SameAsk
<1>8. ScanOK("strategies")'
  BY <1>1, <1>2, <1>3, <1>7, FreshScans
<1>9. ASSUME NEW k \in Kinds, k # "strategies" PROVE ScanOK(k)'
  <2>1. scan'[k] = scan[k] /\ ScanOK(k)
    BY <1>3, <1>9 DEF ScansOK
  <2>2. scan[k].pc # "idle" => FloorOK(k)
    BY <2>1 DEF ScanOK
  <2>3. scan[k].pc # "idle" => FloorOK(k)'
    BY <1>4, <1>5, <1>9, <2>1, <2>2 DEF FloorOK, SameAsk, WindowFloor, Kinds
  <2>4. Grows /\ Len(chain') \in Nat
    BY <1>1, Same
  <2> QED
    BY <1>4, <2>1, <2>3, <2>4, ScanKept DEF SameAsk
<1> QED
  BY <1>3, <1>8, <1>9 DEF ScansOK

LEMMA ScanFailed == ASSUME ChainOK, ScansOK, AskOK, NEW k \in Kinds, ScanFails(k) PROVE ScansOK'
<1>1. chain' = chain /\ scan[k].pc \in {"head", "page"}
  BY DEF ScanFails
<1>2. ScanOK(k) /\ FloorOK(k)
  BY <1>1 DEF ScansOK, ScanOK
<1>3. CASE ask.kind = "reliability"
  <2>1. PICK out : out = [IdleScan EXCEPT !.pc = "failed"]
    OBVIOUS
  <2>2. scan' = [scan EXCEPT ![k] = out] /\ ask' = ask
    BY <1>3, <2>1 DEF ScanFails
  <2>3. out \in Scan /\ out.pc = "failed" /\ scan \in [Kinds -> Scan]
    <3>1. out \in Scan
      BY <2>1, BegunIs, 0 \in Nat
    <3> QED
      BY <2>1, <3>1 DEF IdleScan, ScansOK
  <2>4. scan'[k] = out /\ scan' = [x \in Kinds |-> scan'[x]] /\ \A x \in Kinds : x # k => scan'[x] = scan[x]
    BY <2>2, <2>3
  <2>5. k \in {"fills", "refusals"}
    BY <1>2, <1>3 DEF FloorOK
  <2>6. FloorOK(k)'
    BY <1>2, <2>2, <2>3, <2>4, <2>5 DEF FloorOK
  <2>7. ScanOK(k)'
    BY <1>1, <2>1, <2>4, <2>6, FreshScans, 0 \in Nat
  <2> QED
    BY <1>1, <2>2, <2>3, <2>4, <2>7, OneScanMoves
<1>4. CASE ask.kind # "reliability"
  <2>1. scan' = [x \in Kinds |-> IdleScan]
    BY <1>4 DEF ScanFails
  <2>2. scan' \in [Kinds -> Scan] /\ \A x \in Kinds : scan'[x] = IdleScan
    BY <2>1, BegunIs, 0 \in Nat
  <2>3. \A x \in Kinds : ScanOK(x)'
    BY <1>1, <2>2, FreshScans, 0 \in Nat
  <2> QED
    BY <2>2, <2>3 DEF ScansOK
<1> QED
  BY <1>3, <1>4

LEMMA ScansGoOn == ASSUME ChainOK, ScansOK, AskOK, RecordsNext PROVE ScansOK'
<1>1. CASE Mine \/ IndexBlock
  <2>1. UNCHANGED <<ask, scan>> /\ Grows /\ Len(chain') \in Nat
    <3>1. CASE Mine
      BY <3>1, MineGrows DEF Mine, ChainOK
    <3>2. CASE IndexBlock
      BY <3>2, Same DEF IndexBlock
    <3> QED
      BY <1>1, <3>1, <3>2
  <2>2. \A k \in Kinds : scan[k].pc # "idle" => FloorOK(k)
    BY DEF ScansOK, ScanOK
  <2>3. \A k \in Kinds : scan[k].pc # "idle" => FloorOK(k)'
    BY <2>1, <2>2 DEF FloorOK, WindowFloor
  <2> QED
    BY <2>1, <2>3, ScansStay
<1>2. CASE AnswerReliability \/ IndexFresh \/ FromGraph \/ AnswerHistory \/ \E kind \in {"apps", "pairs"} : AskListing(kind)
  <2>1. UNCHANGED <<chain, scan>>
    BY <1>2 DEF AnswerReliability, IndexFresh, FromGraph, AnswerHistory, AskListing
  <2> QED
    BY <1>2, <2>1, AskMoves
<1>3. CASE AskReliability
  BY <1>3, ReliabilityAsked
<1>4. CASE \E m \in Makers : AskHistory(m)
  BY <1>4, HistoryAsked
<1>5. CASE FallBack
  BY <1>5, FellBack
<1>6. CASE \E k \in Kinds : ReadHead(k) \/ ReadPage(k) \/ ScanFails(k)
  BY <1>6, HeadRead, PageRead, ScanFailed
<1> QED
  BY <1>1, <1>2, <1>3, <1>4, <1>5, <1>6 DEF RecordsNext

-----------------------------------------------------------------------------
(***************************************************************************)
(* The chain and the request, whatever is done.                            *)
(***************************************************************************)
LEMMA ChainGoesOn == ASSUME ChainOK, RecordsNext PROVE ChainOK' /\ Grows /\ Len(chain') \in Nat
<1>1. CASE Mine
  BY <1>1, MineGrows DEF ChainOK
<1>2. ASSUME chain' = chain, indexed' \in 0 .. Latest, faults' \in 0 .. MaxFaults
      PROVE ChainOK' /\ Grows /\ Len(chain') \in Nat
  <2>1. Grows /\ Len(chain') \in Nat /\ Latest' = Latest
    BY <1>2, Same
  <2>2. \A k \in 1 .. Latest : Allowed(k)'
    BY <2>1, Stays DEF ChainOK
  <2> QED
    BY <1>2, <2>1, <2>2 DEF ChainOK
<1>3. CASE IndexBlock
  <2>1. chain' = chain /\ indexed' = indexed + 1 /\ indexed < Latest /\ faults' = faults
    BY <1>3 DEF IndexBlock
  <2>2. indexed' \in 0 .. Latest /\ faults' \in 0 .. MaxFaults
    BY <2>1, ChainIs DEF ChainOK
  <2> QED
    BY <1>2, <2>1, <2>2
<1>4. CASE ~ Mine /\ ~ IndexBlock
  <2>1. chain' = chain /\ indexed' = indexed /\ (faults' = faults \/ (faults < MaxFaults /\ faults' = faults + 1))
    <3>1. CASE AskReliability \/ AnswerReliability \/ FallBack \/ AnswerHistory
      BY <3>1 DEF AskReliability, AnswerReliability, FallBack, AnswerHistory
    <3>2. CASE IndexFresh \/ FromGraph
      BY <3>2 DEF IndexFresh, FromGraph
    <3>3. CASE \E k \in Kinds : ReadHead(k) \/ ReadPage(k) \/ ScanFails(k)
      BY <3>3 DEF ReadHead, ReadPage, ScanFails
    <3>4. CASE \E m \in Makers : AskHistory(m)
      BY <3>4 DEF AskHistory
    <3>5. CASE \E kind \in {"apps", "pairs"} : AskListing(kind)
      BY <3>5 DEF AskListing
    <3> QED
      BY <1>4, <3>1, <3>2, <3>3, <3>4, <3>5 DEF RecordsNext
  <2>2. indexed' \in 0 .. Latest /\ faults' \in 0 .. MaxFaults
    BY <2>1, ConstantsAre DEF ChainOK
  <2> QED
    BY <1>2, <2>1, <2>2
<1> QED
  BY <1>1, <1>3, <1>4

LEMMA GraphStays ==
    ASSUME ChainOK, Grows, Len(chain') \in Nat, NEW b \in 0 .. Latest, ask'.kind = ask.kind, ask'.maker = ask.maker
    PROVE  GraphAnswers(b)' = GraphAnswers(b)
<1>1. OpenAt(b)' = OpenAt(b) /\ IdsBy(b)' = IdsBy(b)
  BY Stays
<1> QED
  BY <1>1 DEF GraphAnswers

LEMMA InRange ==
    ASSUME ChainOK, ScansOK, NEW k \in Kinds
    PROVE  \A i \in DOMAIN scan[k].out : scan[k].out[i][1] \in 1 .. Latest
<1>1. /\ ScanOK(k) /\ scan[k].pc \in {"idle", "head", "page", "done", "failed"}
      /\ scan[k].floor \in Nat /\ scan[k].top \in Nat /\ scan[k].end \in Int
  BY ScanIs
<1>2. CASE scan[k].pc \in {"idle", "head", "failed"}
  <2>1. IdleScan.out = <<>> /\ [IdleScan EXCEPT !.pc = "failed"].out = <<>> /\ Begun(scan[k].floor).out = <<>>
    BY <1>1, BegunIs DEF IdleScan
  <2>2. scan[k].out = <<>>
    BY <1>1, <1>2, <2>1 DEF ScanOK
  <2> QED
    BY <2>2
<1>3. CASE scan[k].pc \in {"page", "done"}
  <2>1. PICK low \in Int : HasRead(k, low)
    <3>1. scan[k].end + 1 \in Int /\ Lowest(k) \in Int
      BY <1>1, Reach
    <3> QED
      BY <1>1, <1>3, <3>1 DEF ScanOK
  <2>2. ToSet(scan[k].out) = LogsIn(k, low, scan[k].top)
    BY <2>1 DEF HasRead
  <2>3. \A log \in LogsIn(k, low, scan[k].top) : log[1] \in 1 .. Latest
    <3>1. scan[k].top \in Int
      BY <1>1
    <3> QED
      BY <3>1, RangesAre
  <2> QED
    BY <2>2, <2>3 DEF ToSet
<1> QED
  BY <1>1, <1>2, <1>3

LEMMA AnswersStay ==
    ASSUME ChainOK, ScansOK, Grows, Len(chain') \in Nat, scan' = scan, ask'.maker = ask.maker
    PROVE  Verdicts' = Verdicts /\ PagedRows' = PagedRows /\ SwapHistory' = SwapHistory
<1>1. \A k \in Kinds : \A i \in DOMAIN scan[k].out : MakerOf(scan[k].out[i])' = MakerOf(scan[k].out[i])
  BY InRange, Stays
<1>2. \A k \in Kinds : \A m \in Makers : CountOf(k, m)' = CountOf(k, m)
  BY <1>1 DEF CountOf, MakerOf
<1>3. Verdicts' = Verdicts
  BY <1>2 DEF Verdicts, Kinds
<1>4. \A i \in DOMAIN scan["strategies"].out : chain'[scan["strategies"].out[i][1]] = chain[scan["strategies"].out[i][1]]
  <2>1. \A i \in DOMAIN scan["strategies"].out : scan["strategies"].out[i][1] \in 1 .. Latest
    BY InRange DEF Kinds
  <2> QED
    BY <2>1 DEF Grows, Latest
<1>5. PagedRows' = PagedRows
  BY <1>4 DEF PagedRows
<1>6. SwapHistory' = SwapHistory
  BY DEF SwapHistory
<1> QED
  BY <1>3, <1>5, <1>6

\* The request waits while something else happens that no answer rests on.
LEMMA AskWaits ==
    ASSUME ChainOK, ScansOK, AskOK, Grows, Len(chain') \in Nat, ask' = ask, indexed' \in Nat, indexed' >= indexed,
           scan' = scan \/ (ask.pc # "answered" /\ scan'["swaps"].pc = "done") \/ (ask.pc \notin {"answered", "paging"})
    PROVE  AskOK'
<1>1. Latest \in Nat /\ Latest' \in Nat /\ Latest <= Latest' /\ indexed \in Nat
  BY ChainIs DEF Grows, Latest
<1>2. ask.began \in 0 .. Latest' /\ ask.at \in 0 .. Latest' /\ ask.began \in Nat /\ ask.at \in 0 .. Latest
  BY <1>1 DEF AskOK
<1>3. ask.pc = "query" => indexed' >= ask.began - MaxLag
  BY <1>1, <1>2, ConstantsAre DEF AskOK
<1>4. ask.source = "graph" => ask.rows \in GraphAnswers(ask.at)'
  <2>1. PICK b \in 0 .. Latest : b = ask.at
    BY <1>2
  <2>2. GraphAnswers(b)' = GraphAnswers(b)
    BY GraphStays
  <2>3. ask.source = "graph" => ask.rows \in GraphAnswers(b)
    BY <2>1 DEF AskOK
  <2> QED
    BY <2>1, <2>2, <2>3
<1>5. ask.kind = "reliability" /\ ask.pc = "answered" =>
          /\ \A k \in {"fills", "refusals"} : scan'[k].pc \in {"done", "failed"}
          /\ ask.rows = Verdicts'
  <2>1. SUFFICES ASSUME ask.kind = "reliability" /\ ask.pc = "answered"
                 PROVE (\A k \in {"fills", "refusals"} : scan'[k].pc \in {"done", "failed"}) /\ ask.rows = Verdicts'
    OBVIOUS
  <2>2. scan' = scan
    BY <2>1
  <2>3. Verdicts' = Verdicts
    BY <2>2, AnswersStay
  <2> QED
    BY <2>1, <2>2, <2>3 DEF AskOK
<1>6. ask.kind = "history" /\ ask.pc = "answered" =>
          /\ ask.source # "none" /\ scan'["swaps"].pc = "done" /\ ask.swaps = SwapHistory'
          /\ ask.source = "log" => /\ scan'["strategies"].pc = "done" /\ ask.at = scan'["strategies"].top
                                   /\ ask.rows = PagedRows'
  <2>1. SUFFICES ASSUME ask.kind = "history" /\ ask.pc = "answered"
                 PROVE /\ ask.source # "none" /\ scan'["swaps"].pc = "done" /\ ask.swaps = SwapHistory'
                       /\ ask.source = "log" => /\ scan'["strategies"].pc = "done" /\ ask.at = scan'["strategies"].top
                                                /\ ask.rows = PagedRows'
    OBVIOUS
  <2>2. scan' = scan
    BY <2>1
  <2>3. SwapHistory' = SwapHistory /\ PagedRows' = PagedRows
    BY <2>2, AnswersStay
  <2> QED
    BY <2>1, <2>2, <2>3 DEF AskOK
<1>7. ask.pc = "paging" => ask.source = "log" /\ scan'["swaps"].pc = "done"
  BY DEF AskOK
<1> HIDE DEF Verdicts, SwapHistory, PagedRows, GraphAnswers
<1> QED
  BY <1>2, <1>3, <1>4, <1>5, <1>6, <1>7 DEF AskOK

LEMMA NoneReading ==
    ASSUME ScansOK, AskOK, NEW k \in Kinds, scan[k].pc \in {"head", "page"}
    PROVE  /\ ask.pc # "answered" /\ FloorOK(k) /\ ask.kind \in {"reliability", "history"}
           /\ ask.pc = "paging" => k # "swaps"
<1>1. FloorOK(k) /\ ScanOK(k)
  BY DEF ScansOK, ScanOK
<1>2. ask.kind = "reliability" \/ ask.kind = "history"
  BY <1>1 DEF FloorOK
<1>3. ask.pc = "paging" => k # "swaps"
  BY DEF AskOK
<1>4. ask.pc # "answered"
  <2>1. SUFFICES ASSUME ask.pc = "answered" PROVE FALSE
    OBVIOUS
  <2>2. CASE ask.kind = "reliability"
    BY <1>1, <2>1, <2>2 DEF AskOK, FloorOK
  <2>3. CASE ask.kind = "history"
    <3>1. scan["swaps"].pc = "done" /\ (ask.source = "log" => scan["strategies"].pc = "done")
      BY <2>1, <2>3 DEF AskOK
    <3>2. k = "strategies" /\ ask.source = "log"
      BY <1>1, <2>3, <3>1 DEF FloorOK, Kinds
    <3> QED
      BY <3>1, <3>2
  <2> QED
    BY <1>2, <2>2, <2>3
<1> QED
  BY <1>1, <1>2, <1>3, <1>4

LEMMA Asked ==
    ASSUME ChainOK, AskOK, chain' = chain,
           \/ AskReliability \/ \E m \in Makers : AskHistory(m)
           \/ \E kind \in {"apps", "pairs"} : AskListing(kind)
    PROVE  AskOK'
<1>1. /\ DOMAIN ask' = Fields /\ ask'.began = Latest /\ ask'.source = "none" /\ ask'.at = 0
      /\ \/ ask'.kind = "reliability" /\ ask'.pc = "scanning"
         \/ ask'.kind \in {"history", "apps", "pairs"} /\ ask'.pc = "fresh"
  BY AsksAre
<1>2. Latest' = Latest /\ Latest \in Nat
  BY Same, ChainIs
<1>3. ask'.pc \in Stages(ask'.kind)
  BY <1>1 DEF Stages
<1>4. ask'.began \in 0 .. Latest' /\ ask'.at \in 0 .. Latest'
  BY <1>1, <1>2
<1> QED
  BY <1>1, <1>3, <1>4 DEF AskOK

LEMMA Judged == ASSUME ChainOK, ScansOK, AskOK, AnswerReliability PROVE AskOK'
<1>1. /\ UNCHANGED <<chain, scan>> /\ ask.kind = "reliability"
      /\ \A k \in {"fills", "refusals"} : scan[k].pc \in {"done", "failed"}
  BY DEF AnswerReliability
<1>2. SameAsk /\ ask'.pc = "answered" /\ ask'.source = ask.source /\ ask'.at = ask.at /\ ask'.rows = Verdicts
  BY StepsAre DEF AskOK
<1>3. Verdicts' = Verdicts
  BY <1>1, <1>2, Same, AnswersStay DEF SameAsk
<1>4. Latest' = Latest
  BY <1>1, Same
<1>5. ask'.pc \in Stages(ask'.kind)
  BY <1>1, <1>2 DEF Stages, SameAsk
<1> HIDE DEF Verdicts
<1> QED
  BY <1>1, <1>2, <1>3, <1>4, <1>5 DEF AskOK, SameAsk

LEMMA FreshOrNot == ASSUME ChainOK, AskOK, IndexFresh PROVE AskOK'
<1>1. chain' = chain /\ indexed' = indexed /\ ask.pc = "fresh"
  BY DEF IndexFresh
<1>2. /\ SameAsk /\ ask'.source = ask.source /\ ask'.at = ask.at
      /\ \/ ask'.pc = "query" /\ ~ TooFar
         \/ ask'.pc = IF ask.kind = "history" THEN "await" ELSE "answered"
  BY StepsAre DEF AskOK
<1>3. ask.kind \in {"history", "apps", "pairs"} /\ ask.source = "none"
  BY <1>1 DEF AskOK, Stages
<1>4. Latest' = Latest /\ Latest \in Nat /\ indexed \in Nat /\ ask.began \in 0 .. Latest
  BY <1>1, Same, ChainIs DEF AskOK
<1>5. ask'.pc \in Stages(ask'.kind)
  BY <1>2, <1>3 DEF Stages, SameAsk
<1>6. ask'.pc = "query" => indexed' >= ask'.began - MaxLag
  BY <1>1, <1>2, <1>4, ConstantsAre DEF SameAsk, TooFar
<1>7. ask'.pc # "paging" /\ (ask.kind = "history" => ask'.pc # "answered")
  BY <1>2, <1>3
<1> QED
  BY <1>2, <1>3, <1>4, <1>5, <1>6, <1>7 DEF AskOK, SameAsk

LEMMA GraphAnswered == ASSUME ChainOK, IndexOK, AskOK, FromGraph PROVE AskOK'
<1>1. chain' = chain /\ ask.pc = "query"
  BY DEF FromGraph
<1>2. /\ SameAsk /\ ask'.pc = IF ask.kind = "history" THEN "await" ELSE "answered"
      /\ \/ ask'.source = ask.source /\ ask'.at = ask.at
         \/ /\ ask'.source = "graph" /\ ask'.at = indexed
            /\ ask.kind = "history" => ask'.rows = StrategyHistoryFromGraph
            /\ ask.kind = "apps" => ask'.rows \in {appBreakdown(some) : some \in FirstOf(index.live)}
            /\ ask.kind = "pairs" => ask'.rows \in {liquidPairsFromGraph(some) : some \in FirstOf(index.live \cap Ours)}
  BY FromGraphIs DEF AskOK
<1>3. ask.kind \in {"history", "apps", "pairs"} /\ ask.source = "none"
  BY <1>1 DEF AskOK, Stages
<1>4. Latest' = Latest /\ Latest \in Nat /\ indexed \in 0 .. Latest /\ ask.began \in 0 .. Latest
  BY <1>1, Same, ChainIs DEF AskOK
<1>5. ask'.pc \in Stages(ask'.kind)
  BY <1>2, <1>3 DEF Stages, SameAsk
<1>6. indexed >= ask.began - MaxLag
  BY <1>1 DEF AskOK
<1>7. ask'.source = "graph" => ask'.at = indexed /\ ask'.rows \in GraphAnswers(ask.at)'
  <2>1. SUFFICES ASSUME ask'.source = "graph" PROVE ask'.at = indexed /\ ask'.rows \in GraphAnswers(ask.at)'
    OBVIOUS
  <2>2. PICK b \in 0 .. Latest : b = indexed
    BY <1>4
  <2>3. index.live = OpenAt(b) /\ index.known = IdsBy(b)
    BY <2>2 DEF IndexOK
  <2>4. /\ ask'.at = b
        /\ ask.kind = "history" => ask'.rows = StrategyHistoryFromGraph
        /\ ask.kind = "apps" => ask'.rows \in {appBreakdown(some) : some \in FirstOf(index.live)}
        /\ ask.kind = "pairs" => ask'.rows \in {liquidPairsFromGraph(some) : some \in FirstOf(index.live \cap Ours)}
    BY <1>2, <1>3, <2>1, <2>2
  <2>5. ask'.rows \in GraphAnswers(b)
    <3>1. CASE ask.kind = "history"
      <4>1. StrategyHistoryFromGraph =
                {[s |-> s, active |-> s \in OpenAt(b)] : s \in {x \in Ours : StrategyId(x) \in IdsBy(b) /\ Owner[x] = ask.maker}}
        BY <2>3 DEF StrategyHistoryFromGraph
      <4> QED
        BY <2>4, <3>1, <4>1 DEF GraphAnswers
    <3>2. CASE ask.kind = "apps"
      BY <2>3, <2>4, <3>2 DEF GraphAnswers
    <3>3. CASE ask.kind = "pairs"
      BY <2>3, <2>4, <3>3 DEF GraphAnswers
    <3> QED
      BY <1>3, <3>1, <3>2, <3>3
  <2>6. GraphAnswers(b)' = GraphAnswers(b)
    BY <1>1, <1>2, Same, GraphStays DEF SameAsk
  <2> QED
    BY <2>2, <2>4, <2>5, <2>6
<1>8. ask'.at \in 0 .. Latest
  BY <1>2, <1>4 DEF AskOK
<1>9. ask'.pc # "paging" /\ ask'.pc # "fresh" /\ ask'.pc # "query" /\ (ask.kind = "history" => ask'.pc # "answered")
  BY <1>2, <1>3
<1>10. ask'.source \in {"none", "graph"}
  BY <1>2, <1>3
<1> HIDE DEF GraphAnswers
<1> QED
  BY <1>2, <1>3, <1>4, <1>5, <1>6, <1>7, <1>8, <1>9, <1>10 DEF AskOK, SameAsk

LEMMA FallBackAsk == ASSUME ChainOK, ScansOK, AskOK, FallBack PROVE AskOK'
<1>1. chain' = chain /\ ask.pc = "await" /\ scan["swaps"].pc = "done" /\ scan' = [scan EXCEPT !["strategies"] = Begun(0)]
  BY DEF FallBack
<1>2. SameAsk /\ ask'.pc = "paging" /\ ask'.source = "log" /\ ask'.at = ask.at
  BY StepsAre DEF AskOK
<1>3. ask.kind = "history"
  BY <1>1 DEF AskOK, Stages
<1>4. Latest' = Latest
  BY <1>1, Same
<1>5. ask'.pc \in Stages(ask'.kind)
  BY <1>2, <1>3 DEF Stages, SameAsk
<1>6. scan'["swaps"].pc = "done"
  BY <1>1
<1> QED
  BY <1>2, <1>3, <1>4, <1>5, <1>6 DEF AskOK, SameAsk

LEMMA HistoryTold == ASSUME ChainOK, ScansOK, AskOK, AnswerHistory PROVE AskOK'
<1>1. UNCHANGED <<chain, scan>> /\ ask.kind = "history"
  BY DEF AnswerHistory
<1>2. /\ SameAsk /\ ask'.pc = "answered" /\ ask'.source = ask.source /\ ask'.swaps = SwapHistory
      /\ \/ ask.pc = "await" /\ ask.source = "graph" /\ ask'.at = ask.at /\ ask'.rows = ask.rows
         \/ ask.pc = "paging" /\ scan["strategies"].pc = "done" /\ ask'.at = scan["strategies"].top /\ ask'.rows = PagedRows
  BY StepsAre DEF AskOK
<1>3. scan["swaps"].pc = "done"
  BY DEF AnswerHistory, AskOK
<1>4. SwapHistory' = SwapHistory /\ PagedRows' = PagedRows
  BY <1>1, <1>2, Same, AnswersStay DEF SameAsk
<1>5. Latest' = Latest /\ Latest \in Nat
  BY <1>1, Same, ChainIs
<1>6. scan["strategies"].top \in 0 .. Latest
  <2>1. scan["strategies"].top \in Nat /\ ScanOK("strategies")
    BY ScanIs DEF Kinds
  <2> QED
    BY <1>5, <2>1 DEF ScanOK
<1>7. ask'.pc \in Stages(ask'.kind)
  BY <1>1, <1>2 DEF Stages, SameAsk
<1>8. ask.source = "graph" => ask'.at = ask.at /\ ask'.rows = ask.rows
  BY <1>2 DEF AskOK
<1>9. ask.source = "graph" => ask.at >= ask.began - MaxLag /\ ask'.rows \in GraphAnswers(ask.at)'
  <2>1. PICK b \in 0 .. Latest : b = ask.at
    BY DEF AskOK
  <2>2. GraphAnswers(b)' = GraphAnswers(b)
    BY <1>1, <1>2, Same, GraphStays DEF SameAsk
  <2>3. ask.source = "graph" => ask.at >= ask.began - MaxLag /\ ask.rows \in GraphAnswers(b)
    BY <2>1 DEF AskOK
  <2>4. ask.source = "graph" => ask'.at = b
    BY <1>8, <2>1
  <2> QED
    BY <1>8, <2>2, <2>3, <2>4
<1>10. ask'.at \in 0 .. Latest
  BY <1>2, <1>6 DEF AskOK
<1>11. ask.source = "log" => scan["strategies"].pc = "done" /\ ask'.at = scan["strategies"].top /\ ask'.rows = PagedRows
  BY <1>2
<1>12. ask.source \in {"graph", "log"}
  BY <1>2 DEF AskOK
<1> HIDE DEF GraphAnswers, PagedRows, SwapHistory
<1> QED
  BY <1>1, <1>2, <1>3, <1>4, <1>5, <1>7, <1>8, <1>9, <1>10, <1>11, <1>12 DEF AskOK, SameAsk

LEMMA RequestFailed ==
    ASSUME ChainOK, ScansOK, AskOK, NEW k \in Kinds, ScanFails(k), ask.kind # "reliability"
    PROVE  AskOK'
<1>1. chain' = chain /\ scan[k].pc \in {"head", "page"}
  BY DEF ScanFails
<1>2. SameAsk /\ ask'.pc = "failed" /\ ask'.source = ask.source /\ ask'.at = ask.at /\ ask'.rows = ask.rows
  BY StepsAre DEF AskOK
<1>3. ask.kind = "history"
  BY <1>1, NoneReading
<1>4. Latest' = Latest
  BY <1>1, Same
<1>5. ask'.pc \in Stages(ask'.kind)
  BY <1>2, <1>3 DEF Stages, SameAsk
<1>6. ask.source = "graph" => ask.rows \in GraphAnswers(ask.at)'
  <2>1. PICK b \in 0 .. Latest : b = ask.at
    BY DEF AskOK
  <2>2. GraphAnswers(b)' = GraphAnswers(b)
    BY <1>1, <1>2, Same, GraphStays DEF SameAsk
  <2>3. ask.source = "graph" => ask.rows \in GraphAnswers(b) /\ ask'.at = b
    BY <1>2, <2>1 DEF AskOK
  <2> QED
    BY <1>2, <2>1, <2>2, <2>3
<1> HIDE DEF GraphAnswers
<1> QED
  BY <1>2, <1>3, <1>4, <1>5, <1>6 DEF AskOK, SameAsk

LEMMA AskGoesOn == ASSUME ChainOK, IndexOK, ScansOK, AskOK, RecordsNext PROVE AskOK'
<1>1. Grows /\ Len(chain') \in Nat /\ indexed \in Nat
  BY ChainGoesOn, ChainIs
<1>2. CASE Mine \/ IndexBlock
  <2>1. UNCHANGED <<ask, scan>> /\ indexed' \in Nat /\ indexed' >= indexed
    <3>1. CASE Mine
      BY <1>1, <3>1 DEF Mine
    <3>2. CASE IndexBlock
      BY <1>1, <3>2 DEF IndexBlock
    <3> QED
      BY <1>2, <3>1, <3>2
  <2> QED
    BY <1>1, <2>1, AskWaits
<1>3. CASE AskReliability \/ (\E m \in Makers : AskHistory(m)) \/ \E kind \in {"apps", "pairs"} : AskListing(kind)
  <2>1. chain' = chain
    BY <1>3 DEF AskReliability, AskHistory, AskListing
  <2> QED
    BY <1>3, <2>1, Asked
<1>4. CASE AnswerReliability
  BY <1>4, Judged
<1>5. CASE IndexFresh
  BY <1>5, FreshOrNot
<1>6. CASE FromGraph
  BY <1>6, GraphAnswered
<1>7. CASE FallBack
  BY <1>7, FallBackAsk
<1>8. CASE AnswerHistory
  BY <1>8, HistoryTold
<1>9. ASSUME NEW k \in Kinds, ReadHead(k) \/ ReadPage(k) \/ (ScanFails(k) /\ ask.kind = "reliability") PROVE AskOK'
  <2>1. ask' = ask /\ indexed' = indexed /\ scan[k].pc \in {"head", "page"}
    BY <1>9 DEF ReadHead, ReadPage, ScanFails
  <2>2. ask.pc # "answered" /\ (ask.pc = "paging" => k # "swaps")
    BY <2>1, NoneReading
  <2>3. k # "swaps" => scan'["swaps"] = scan["swaps"]
    <3>1. scan' = [scan EXCEPT ![k] = scan'[k]]
      <4>1. scan \in [Kinds -> Scan]
        BY DEF ScansOK
      <4>2. CASE ReadHead(k)
        BY <4>1, <4>2, HeadIs
      <4>3. CASE ReadPage(k)
        BY <4>1, <4>3, PageIs
      <4>4. CASE ScanFails(k) /\ ask.kind = "reliability"
        BY <4>1, <4>4 DEF ScanFails
      <4> QED
        BY <1>9, <4>2, <4>3, <4>4
    <3> QED
      BY <3>1 DEF ScansOK, Kinds
  <2>4. ask.pc = "paging" => scan["swaps"].pc = "done"
    BY DEF AskOK
  <2>5. (ask.pc # "answered" /\ scan'["swaps"].pc = "done") \/ (ask.pc \notin {"answered", "paging"})
    BY <2>2, <2>3, <2>4
  <2>6. indexed' \in Nat /\ indexed' >= indexed
    BY <1>1, <2>1
  <2> QED
    BY <1>1, <2>1, <2>5, <2>6, AskWaits
<1>10. ASSUME NEW k \in Kinds, ScanFails(k), ask.kind # "reliability" PROVE AskOK'
  BY <1>10, RequestFailed
<1> QED
  BY <1>2, <1>3, <1>4, <1>5, <1>6, <1>7, <1>8, <1>9, <1>10 DEF RecordsNext

LEMMA IndexGoesOn == ASSUME ChainOK, IndexOK, RecordsNext PROVE IndexOK'
<1>1. CASE IndexBlock
  BY <1>1, BlockIndexed
<1>2. CASE ~ IndexBlock
  <2>1. index' = index /\ indexed' = indexed
    <3>1. CASE AskReliability \/ AnswerReliability \/ FallBack \/ AnswerHistory \/ Mine
      BY <3>1 DEF AskReliability, AnswerReliability, FallBack, AnswerHistory, Mine
    <3>2. CASE IndexFresh \/ FromGraph
      BY <3>2 DEF IndexFresh, FromGraph
    <3>3. CASE \E k \in Kinds : ReadHead(k) \/ ReadPage(k) \/ ScanFails(k)
      BY <3>3 DEF ReadHead, ReadPage, ScanFails
    <3>4. CASE \E m \in Makers : AskHistory(m)
      BY <3>4 DEF AskHistory
    <3>5. CASE \E kind \in {"apps", "pairs"} : AskListing(kind)
      BY <3>5 DEF AskListing
    <3> QED
      BY <1>2, <3>1, <3>2, <3>3, <3>4, <3>5 DEF RecordsNext
  <2> QED
    BY <2>1, ChainGoesOn, MinedIndex
<1> QED
  BY <1>1, <1>2

LEMMA HInvInit == ASSUME RecordsInit PROVE HInv
<1>1. chain = <<>> /\ indexed = 0 /\ faults = 0 /\ Latest = 0 /\ ask = IdleAsk /\ scan = [k \in Kinds |-> IdleScan]
  BY DEF RecordsInit, Latest
<1>2. ChainOK
  <2>1. \A k \in 1 .. 0 : FALSE
    OBVIOUS
  <2> QED
    BY <1>1, <2>1, ConstantsAre DEF ChainOK
<1>3. ShippedBy(0) = Genesis /\ DockedBy(0) = {} /\ OpenAt(0) = Genesis
  BY RecordsAssumption DEF ShippedBy, DockedBy, OpenAt
<1>4. IndexOK
  <2>1. /\ index.known = {StrategyId(s) : s \in Genesis} /\ index.live = Genesis /\ index.refusals = {} /\ index.unmatched = 0
        /\ index.skips = [m \in Makers |-> 0] /\ index.fills = [m \in Makers |-> 0]
    BY DEF RecordsInit
  <2>2. {StrategyId(s) : s \in Genesis} \in SUBSET Ids /\ Genesis \in SUBSET Strategies
    BY RecordsAssumption DEF StrategyId, Ids
  <2>3. [m \in Makers |-> 0] \in [Makers -> Nat]
    OBVIOUS
  <2>4. index \in Entities
    <3>1. index = [known |-> {StrategyId(s) : s \in Genesis}, live |-> Genesis, refusals |-> {}, unmatched |-> 0,
                   skips |-> [m \in Makers |-> 0], fills |-> [m \in Makers |-> 0]]
      BY DEF RecordsInit
    <3>2. PICK k, l, r, u, c : k = {StrategyId(s) : s \in Genesis} /\ l = Genesis /\ r = {} /\ u = 0 /\ c = [m \in Makers |-> 0]
      OBVIOUS
    <3>3. index = [known |-> k, live |-> l, refusals |-> r, unmatched |-> u, skips |-> c, fills |-> c]
      BY <3>1, <3>2
    <3>4. k \in SUBSET Ids /\ l \in SUBSET Strategies /\ r \in SUBSET Refusal /\ u \in Nat /\ c \in [Makers -> Nat]
      BY <2>2, <2>3, <3>2
    <3> QED
      BY <3>3, <3>4 DEF Entities
  <2>5. IdsBy(0) = {StrategyId(s) : s \in Genesis}
    BY <1>3 DEF IdsBy
  <2>6. ASSUME NEW m \in Makers PROVE /\ Cardinality(RefusedIn(m, 0)) = 0 /\ Cardinality(Of(LogsIn("fills", 1, 0), m)) = 0
    <3>1. RefusedIn(m, 0) = {}
      BY DEF RefusedIn
    <3>2. LogsIn("fills", 1, 0) = {}
      BY <1>2, PastHead DEF Kinds
    <3>3. Of(LogsIn("fills", 1, 0), m) = {}
      BY <3>2 DEF Of
    <3> QED
      BY <3>1, <3>3, FS_EmptySet
  <2> QED
    BY <1>1, <1>3, <2>1, <2>4, <2>5, <2>6 DEF IndexOK
<1>5. ScansOK
  <2>1. IdleScan \in Scan /\ IdleScan.pc = "idle" /\ IdleScan.top = 0
    BY BegunIs, 0 \in Nat DEF IdleScan
  <2> QED
    BY <1>1, <2>1 DEF ScansOK, ScanOK
<1>6. AskOK
  BY <1>1, IdleAskIs DEF AskOK, Stages
<1> QED
  BY <1>2, <1>4, <1>5, <1>6 DEF HInv

LEMMA HInvNext == ASSUME HInv, [RecordsNext]_RecordsVars PROVE HInv'
<1>1. CASE RecordsNext
  BY <1>1, ChainGoesOn, IndexGoesOn, ScansGoOn, AskGoesOn DEF HInv
<1>2. CASE UNCHANGED RecordsVars
  <2>1. UNCHANGED <<chain, indexed, index, ask, scan, faults>>
    BY <1>2 DEF RecordsVars
  <2>2. Grows /\ Len(chain') \in Nat
    BY <2>1, Same DEF HInv
  <2>3. ChainOK'
    <3>1. \A k \in 1 .. Latest : Allowed(k)'
      BY <2>1, <2>2, Stays DEF ChainOK, HInv
    <3> QED
      BY <2>1, <3>1 DEF ChainOK, HInv, Latest
  <2>4. IndexOK'
    BY <2>1, <2>2, MinedIndex DEF HInv
  <2>5. ScansOK'
    <3>1. \A k \in Kinds : scan[k].pc # "idle" => FloorOK(k)
      BY DEF HInv, ScansOK, ScanOK
    <3>2. \A k \in Kinds : scan[k].pc # "idle" => FloorOK(k)'
      BY <2>1, <3>1 DEF FloorOK, WindowFloor
    <3> QED
      BY <2>1, <2>2, <3>2, ScansStay DEF HInv
  <2>6. AskOK'
    <3>1. indexed' \in Nat /\ indexed' >= indexed
      BY <2>1, ChainIs DEF HInv
    <3> QED
      BY <2>1, <2>2, <3>1, AskWaits DEF HInv
  <2> QED
    BY <2>3, <2>4, <2>5, <2>6 DEF HInv
<1> QED
  BY <1>1, <1>2

(***************************************************************************)
(* Whatever is mined, indexed, read, failed or asked for, in any order,    *)
(* the index is of the blocks it has handled, a scan has every log of its  *)
(* kind from its head down to where it is, and a request that is answered  *)
(* was answered from one of the two.                                       *)
(***************************************************************************)
THEOREM RecordsStand == RecordsSpec => []HInv
BY HInvInit, HInvNext, PTL DEF RecordsSpec

-----------------------------------------------------------------------------
(***************************************************************************)
(* What the invariant says of the answers.                                 *)
(***************************************************************************)
LEMMA RecordsInvHolds == ASSUME HInv PROVE RecordsInv
<1>1. RecordsTypeOK
  <2>1. Latest \in 0 .. MaxBlock /\ indexed \in 0 .. Latest /\ faults \in 0 .. MaxFaults
    BY ChainIs, ConstantsAre DEF HInv, ChainOK
  <2>2. ask.pc \in {"idle", "scanning", "fresh", "query", "await", "paging", "answered", "failed"}
    BY DEF HInv, AskOK, Stages
  <2>3. ASSUME NEW k \in Kinds
        PROVE /\ scan[k].pc \in {"idle", "head", "page", "done", "failed"}
              /\ scan[k].top \in 0 .. Latest /\ scan[k].pages \in 0 .. Budget(k)
    <3>1. /\ ScanOK(k) /\ scan[k].top \in Nat /\ scan[k].pages \in Nat /\ scan[k].floor \in Nat
          /\ scan[k].pc \in {"idle", "head", "page", "done", "failed"}
      BY ScanIs DEF HInv
    <3>2. Budget(k) \in Nat /\ Latest \in Nat
      BY BudgetIs, ChainIs DEF HInv
    <3>3. IdleScan.pages = 0 /\ [IdleScan EXCEPT !.pc = "failed"].pages = 0 /\ Begun(scan[k].floor).pages = 0
      BY <3>1, BegunIs DEF IdleScan
    <3>5. scan[k].pc \in {"idle", "head", "failed"} => scan[k].pages = 0
      BY <3>1, <3>3 DEF ScanOK
    <3>6. scan[k].pc \in {"page", "done"} => scan[k].pages <= Budget(k)
      BY <3>1, <3>2 DEF ScanOK
    <3>4. scan[k].pages <= Budget(k)
      BY <3>1, <3>2, <3>5, <3>6
    <3> QED
      BY <3>1, <3>2, <3>4 DEF ScanOK
  <2> QED
    BY <2>1, <2>2, <2>3 DEF RecordsTypeOK
<1>2. IndexCountsSwaps
  BY DEF HInv, IndexOK, IndexCountsSwaps, RefusedIn
<1>3. ScansAreExact
  BY DEF HInv, ScansOK, ScanOK, HasRead, ScansAreExact
<1> QED
  BY <1>1, <1>2, <1>3 DEF RecordsInv

\* How many of a scan's logs are a maker's.
LEMMA CountIs ==
    ASSUME HInv, NEW k \in {"fills", "refusals"}, NEW m \in Makers, scan[k].pc \in {"done", "failed"}
    PROVE  /\ CountOf(k, m) \in Nat
           /\ scan[k].pc = "failed" => CountOf(k, m) = 0
           /\ scan[k].pc = "done" =>
                 /\ IsFiniteSet(Of(LogsIn(k, Lowest(k), scan[k].top), m))
                 /\ CountOf(k, m) = Cardinality(Of(LogsIn(k, Lowest(k), scan[k].top), m))
<1>1. PICK q : q = scan[k].out
  OBVIOUS
<1>2. ScanOK(k) /\ q \in Seq(Log)
  BY <1>1, ScanIs DEF HInv, Kinds
<1>3. IsInjective(q) /\ (scan[k].pc = "done" => ToSet(q) = LogsIn(k, Lowest(k), scan[k].top)) /\ (scan[k].pc = "failed" => ToSet(q) = {})
  <2>1. CASE scan[k].pc = "done"
    BY <1>1, <1>2, <2>1 DEF ScanOK, HasRead
  <2>2. CASE scan[k].pc = "failed"
    <3>1. scan[k] = [IdleScan EXCEPT !.pc = "failed"]
      BY <1>2, <2>2 DEF ScanOK
    <3>2. q = <<>>
      BY <1>1, <3>1 DEF IdleScan
    <3> QED
      BY <2>2, <3>2 DEF IsInjective, ToSet
  <2> QED
    BY <2>1, <2>2
<1>4. Of(ToSet(q), m) \subseteq ToSet(q)
  BY DEF Of
<1>5. IsFiniteSet(Of(ToSet(q), m)) /\ Cardinality({i \in DOMAIN q : q[i] \in Of(ToSet(q), m)}) = Cardinality(Of(ToSet(q), m))
  BY <1>2, <1>3, <1>4, Counted
<1>6. {i \in DOMAIN q : q[i] \in Of(ToSet(q), m)} = {i \in DOMAIN q : MakerOf(q[i]) = m}
  BY DEF Of, ToSet
<1>7. CountOf(k, m) = Cardinality(Of(ToSet(q), m))
  BY <1>1, <1>5, <1>6 DEF CountOf
<1>8. Cardinality(Of(ToSet(q), m)) \in Nat
  BY <1>5, FS_CardinalityType
<1>9. scan[k].pc = "failed" => CountOf(k, m) = 0
  <2>1. ToSet(q) = {} => Of(ToSet(q), m) = {}
    BY DEF Of
  <2> QED
    BY <1>3, <1>7, <2>1, FS_EmptySet
<1> QED
  BY <1>3, <1>5, <1>7, <1>8, <1>9

\* A maker refuses in no more swaps than it has refusals.
LEMMA RefusalsCover ==
    ASSUME ChainOK, NEW m \in Makers, IsFiniteSet(Of(LogsIn("refusals", 1, indexed), m))
    PROVE  Cardinality(RefusedIn(m, indexed)) <= Cardinality(Of(LogsIn("refusals", 1, indexed), m))
<1> DEFINE logs == Of(LogsIn("refusals", 1, indexed), m)
           swaps == RefusedIn(m, indexed)
           f == [log \in logs |-> log[1]]
<1>1. indexed \in Nat /\ indexed <= Latest /\ Latest \in Nat /\ 1 \in Int /\ indexed \in Int
  BY ChainIs
<1>2. \A log : log \in LogsIn("refusals", 1, indexed) <=> log[1] \in 1 .. indexed /\ log[1] \in 1 .. Latest /\ log \in Logs("refusals", log[1])
  BY <1>1, RangesAre DEF Kinds
<1>3. ASSUME NEW log \in logs PROVE log[1] \in swaps
  BY <1>2 DEF Of, MakerOf, RefusedIn
<1>4. ASSUME NEW b \in swaps PROVE \E log \in logs : log[1] = b
  <2>1. b \in 1 .. indexed /\ b \in 1 .. Latest /\ Owner[chain[b].s] = m
    BY <1>1 DEF RefusedIn
  <2>2. PICK log \in Logs("refusals", b) : TRUE
    BY DEF RefusedIn
  <2>3. log[1] = b
    BY <2>1, <2>2, LogsAre DEF Kinds
  <2>4. log \in LogsIn("refusals", 1, indexed)
    BY <1>2, <2>1, <2>2, <2>3
  <2>5. MakerOf(log) = m
    BY <2>1, <2>3 DEF MakerOf
  <2> QED
    BY <2>3, <2>4, <2>5 DEF Of
<1> HIDE DEF logs, swaps
<1>5. f \in Surjection(logs, swaps)
  BY <1>3, <1>4 DEF Surjection
<1>6. IsFiniteSet(logs)
  BY DEF logs
<1>7. Cardinality(swaps) <= Cardinality(logs)
  BY <1>5, <1>6, FS_Surjection
<1> QED
  BY <1>7 DEF logs, swaps

LEMMA VerdictsHold == ASSUME HInv PROVE VerdictsAreEarned
<1> SUFFICES ASSUME ask.kind = "reliability", ask.pc = "answered", NEW row \in ask.rows
             PROVE  /\ row.status # "RELIABLE" =>
                          \E log \in LogsIn("refusals", WindowFloor("fills", ask.began), Latest) : MakerOf(log) = row.maker
                    /\ (\A k \in {"fills", "refusals"} :
                           scan[k].pc = "done" /\ scan[k].top = indexed /\ Lowest(k) = 1) =>
                          row.skips >= index.skips[row.maker] /\ row.fills <= index.fills[row.maker]
  BY DEF VerdictsAreEarned
<1>1. ask.rows = Verdicts /\ \A k \in {"fills", "refusals"} : scan[k].pc \in {"done", "failed"}
  BY DEF HInv, AskOK
<1>2. PICK m \in Makers : row = [maker |-> m, fills |-> CountOf("fills", m), skips |-> CountOf("refusals", m),
                                 status |-> Status(CountOf("fills", m), CountOf("refusals", m))]
  BY <1>1 DEF Verdicts
<1>3. CountOf("fills", m) \in Nat /\ CountOf("refusals", m) \in Nat
  BY <1>1, CountIs
<1>4. ASSUME row.status # "RELIABLE"
      PROVE \E log \in LogsIn("refusals", WindowFloor("fills", ask.began), Latest) : MakerOf(log) = row.maker
  <2>1. CountOf("refusals", m) # 0
    <3>1. Status(CountOf("fills", m), 0) = "RELIABLE"
      BY <1>3 DEF Status
    <3> QED
      BY <1>2, <1>4, <3>1
  <2>2. scan["refusals"].pc = "done"
    BY <1>1, <2>1, CountIs
  <2>3. PICK low \in Int, top \in Nat : low = Lowest("refusals") /\ top = scan["refusals"].top /\ top <= Latest /\ low >= WindowFloor("fills", ask.began)
    <3>1. ScanOK("refusals") /\ scan["refusals"].floor \in Nat /\ scan["refusals"].top \in Nat
      BY ScanIs DEF HInv, Kinds
    <3>2. scan["refusals"].floor = WindowFloor("fills", ask.began) /\ scan["refusals"].top <= Latest
      BY <2>2, <3>1 DEF ScanOK, FloorOK
    <3>3. Lowest("refusals") \in Int /\ Lowest("refusals") >= scan["refusals"].floor
      BY <3>1, Reach DEF Kinds
    <3> QED
      BY <3>1, <3>2, <3>3
  <2>4. Of(LogsIn("refusals", low, top), m) # {}
    <3>1. CountOf("refusals", m) = Cardinality(Of(LogsIn("refusals", low, top), m))
      BY <2>2, <2>3, CountIs
    <3> QED
      BY <2>1, <3>1, FS_EmptySet
  <2>5. PICK log \in LogsIn("refusals", low, top) : MakerOf(log) = m
    BY <2>4 DEF Of
  <2>6. log \in LogsIn("refusals", WindowFloor("fills", ask.began), Latest)
    <3>1. WindowFloor("fills", ask.began) \in Int /\ Latest \in Int /\ top \in Int /\ ChainOK
      <4>1. ask.began \in Nat /\ ChainOK /\ Latest \in Nat
        BY ChainIs DEF HInv, AskOK
      <4>2. WindowFloor("fills", ask.began) \in Nat
        BY <4>1, FloorIs DEF Kinds
      <4> QED
        BY <4>1, <4>2
    <3>2. log[1] \in low .. top /\ log[1] \in 1 .. Latest /\ log \in Logs("refusals", log[1])
      BY <2>5, <3>1, RangesAre DEF Kinds
    <3>3. log[1] \in WindowFloor("fills", ask.began) .. Latest
      BY <2>3, <3>1, <3>2
    <3> QED
      BY <3>1, <3>2, <3>3, RangesAre DEF Kinds
  <2> QED
    BY <1>2, <2>5, <2>6
<1>5. ASSUME \A k \in {"fills", "refusals"} : scan[k].pc = "done" /\ scan[k].top = indexed /\ Lowest(k) = 1
      PROVE row.skips >= index.skips[row.maker] /\ row.fills <= index.fills[row.maker]
  <2>1. /\ CountOf("refusals", m) = Cardinality(Of(LogsIn("refusals", 1, indexed), m))
        /\ IsFiniteSet(Of(LogsIn("refusals", 1, indexed), m))
        /\ CountOf("fills", m) = Cardinality(Of(LogsIn("fills", 1, indexed), m))
    <3>1. scan["refusals"].pc = "done" /\ scan["refusals"].top = indexed /\ Lowest("refusals") = 1
      BY <1>5
    <3>2. scan["fills"].pc = "done" /\ scan["fills"].top = indexed /\ Lowest("fills") = 1
      BY <1>5
    <3>3. IsFiniteSet(Of(LogsIn("refusals", Lowest("refusals"), scan["refusals"].top), m))
          /\ CountOf("refusals", m) = Cardinality(Of(LogsIn("refusals", Lowest("refusals"), scan["refusals"].top), m))
      BY <3>1, CountIs
    <3>4. CountOf("fills", m) = Cardinality(Of(LogsIn("fills", Lowest("fills"), scan["fills"].top), m))
      BY <3>2, CountIs
    <3> QED
      BY <3>1, <3>2, <3>3, <3>4
  <2>2. index.skips[m] = Cardinality(RefusedIn(m, indexed)) /\ index.fills[m] >= Cardinality(Of(LogsIn("fills", 1, indexed), m))
    BY DEF HInv, IndexOK
  <2>3. index.skips[m] \in Nat /\ index.fills[m] \in Nat
    BY DEF HInv, IndexOK, Entities
  <2>4. Cardinality(RefusedIn(m, indexed)) <= Cardinality(Of(LogsIn("refusals", 1, indexed), m))
    BY <2>1, RefusalsCover DEF HInv
  <2>5. row.skips = CountOf("refusals", m) /\ row.fills = CountOf("fills", m) /\ row.maker = m
    BY <1>2
  <2> QED
    BY <1>3, <2>1, <2>2, <2>3, <2>4, <2>5
<1> QED
  BY <1>4, <1>5

-----------------------------------------------------------------------------
(***************************************************************************)
(* A window's swaps, newest first.                                         *)
(***************************************************************************)
Newest(seq, n) == \A i, j \in 1 .. n : i < j => seq[i][1] > seq[j][1]

\* One log of a block: the logs of a range can be put in order.
LEMMA Sortable ==
    ASSUME ChainOK, NEW low \in Int, NEW top \in Nat
    PROVE  \E n \in Nat : \E seq \in [1 .. n -> LogsIn("swaps", low, top)] :
              Newest(seq, n) /\ {seq[i] : i \in 1 .. n} = LogsIn("swaps", low, top)
<1> DEFINE In(h) == LogsIn("swaps", low, h)
           Sorted(h) == \E n \in Nat : \E seq \in [1 .. n -> In(h)] : Newest(seq, n) /\ {seq[i] : i \in 1 .. n} = In(h)
           Good == {h \in 0 .. top : Sorted(h)}
<1>1. 0 \in Good
  <2>1. \A log : log \notin In(0)
    <3>1. \A x : ~ (x \in low .. 0 /\ x \in 1 .. Latest)
      BY ChainIs
    <3> QED
      BY <3>1, RangesAre, 0 \in Int DEF Kinds
  <2>2. In(0) = {}
    BY <2>1
  <2>3. PICK seq : seq = [i \in 1 .. 0 |-> i]
    OBVIOUS
  <2>4. seq \in [1 .. 0 -> In(0)] /\ Newest(seq, 0) /\ {seq[i] : i \in 1 .. 0} = In(0)
    BY <2>2, <2>3 DEF Newest
  <2> HIDE DEF In
  <2>5. Sorted(0)
    BY <2>4
  <2>6. 0 \in 0 .. top
    OBVIOUS
  <2> QED
    BY <2>5, <2>6
<1>2. ASSUME NEW h \in 1 .. top, h - 1 \in Good PROVE h \in Good
  <2>1. h \in Int /\ h - 1 \in Int /\ h \in 0 .. top
    OBVIOUS
  <2>8. PICK n \in Nat : \E seq \in [1 .. n -> In(h - 1)] : Newest(seq, n) /\ {seq[i] : i \in 1 .. n} = In(h - 1)
    BY <1>2
  <2>2. PICK old \in [1 .. n -> In(h - 1)] : Newest(old, n) /\ {old[i] : i \in 1 .. n} = In(h - 1)
    BY <2>8
  <2> DEFINE more == IF h \in 1 .. Latest /\ low <= h THEN Logs("swaps", h) ELSE {}
  <2>3. In(h) = In(h - 1) \cup more
    <3>1. \A log : log \in more <=> log[1] = h /\ low <= h /\ log[1] \in 1 .. Latest /\ log \in Logs("swaps", log[1])
      BY LogsAre DEF Kinds
    <3>2. \A x \in Int : x \in low .. h <=> x \in low .. h - 1 \/ (x = h /\ low <= h)
      BY <2>1
    <3>3. \A x \in 1 .. Latest : x \in Int
      BY ChainIs
    <3>4. \A log : log \in In(h) <=> log[1] \in low .. h /\ log[1] \in 1 .. Latest /\ log \in Logs("swaps", log[1])
      BY <2>1, RangesAre DEF Kinds
    <3>5. \A log : log \in In(h - 1) <=> log[1] \in low .. h - 1 /\ log[1] \in 1 .. Latest /\ log \in Logs("swaps", log[1])
      BY <2>1, RangesAre DEF Kinds
    <3> HIDE DEF more, In
    <3>6. \A log : log \in In(h) <=> log \in In(h - 1) \/ log \in more
      BY <3>1, <3>2, <3>3, <3>4, <3>5
    <3> QED
      BY <3>6
  <2>4. \A log \in In(h - 1) : log[1] < h /\ log[1] \in Int
    <3>1. \A log \in In(h - 1) : log[1] \in low .. h - 1
      BY <2>1, RangesAre DEF Kinds
    <3> QED
      BY <2>1, <3>1
  <2>5. more = {} \/ more = {<<h, 0>>}
    BY LogsAre DEF Kinds
  <2> HIDE DEF more, In
  <2>6. CASE more = {}
    BY <2>1, <2>2, <2>3, <2>6
  <2>7. CASE more = {<<h, 0>>}
    <3>11. PICK new : new = <<h, 0>>
      OBVIOUS
    <3>1. new = <<h, 0>> /\ new[1] = h
      BY <3>11
    <3>2. PICK seq : seq = [i \in 1 .. n + 1 |-> IF i = 1 THEN new ELSE old[i - 1]]
      OBVIOUS
    <3>3. \A i \in 1 .. n + 1 : i # 1 => i - 1 \in 1 .. n /\ i - 1 \in Int
      OBVIOUS
    <3>4. seq[1] = new /\ (\A i \in 1 .. n + 1 : i # 1 => seq[i] = old[i - 1]) /\ \A i \in 1 .. n : i + 1 \in 1 .. n + 1 /\ seq[i + 1] = old[i]
      BY <3>2
    <3>5. new \in In(h) /\ \A log \in In(h) : log = new \/ log \in In(h - 1)
      BY <2>3, <2>7, <3>1
    <3>6. \A i \in 1 .. n : old[i] \in In(h - 1) /\ old[i] \in In(h)
      BY <2>3
    <3>7. seq \in [1 .. n + 1 -> In(h)]
      BY <3>2, <3>3, <3>5, <3>6
    <3>8. {seq[i] : i \in 1 .. n + 1} = In(h)
      <4>1. ASSUME NEW log \in In(h) PROVE \E i \in 1 .. n + 1 : seq[i] = log
        <5>1. CASE log = new
          BY <3>4, <5>1
        <5>2. CASE log \in In(h - 1)
          <6>1. PICK i \in 1 .. n : old[i] = log
            BY <2>2, <5>2
          <6> QED
            BY <3>4, <6>1
        <5> QED
          BY <3>5, <5>1, <5>2
      <4> QED
        BY <3>7, <4>1
    <3>9. ASSUME NEW i \in 1 .. n + 1, NEW j \in 1 .. n + 1, i < j PROVE seq[i][1] > seq[j][1]
      <4>1. j # 1 /\ seq[j] = old[j - 1] /\ j - 1 \in 1 .. n
        BY <3>3, <3>4, <3>9
      <4>2. CASE i = 1
        <5>1. old[j - 1][1] < h /\ old[j - 1][1] \in Int
          BY <2>4, <3>6, <4>1
        <5> QED
          BY <2>1, <3>1, <3>4, <4>1, <4>2, <5>1
      <4>3. CASE i # 1
        <5>1. seq[i] = old[i - 1] /\ i - 1 \in 1 .. n /\ i - 1 < j - 1
          BY <3>3, <3>4, <3>9, <4>3
        <5> QED
          BY <2>2, <4>1, <5>1 DEF Newest
      <4> QED
        BY <4>2, <4>3
    <3>10. Newest(seq, n + 1) /\ n + 1 \in Nat
      BY <3>9 DEF Newest
    <3> QED
      BY <2>1, <3>7, <3>8, <3>10
  <2> QED
    BY <2>5, <2>6, <2>7
<1> HIDE DEF Good
<1>3. top \in Good
  BY <1>1, <1>2, Climb
<1> QED
  BY <1>3 DEF Good

LEMMA Distinct ==
    ASSUME NEW S, NEW n \in Nat, NEW seq \in [1 .. n -> S], Newest(seq, n), \A x \in S : x[1] \in Int
    PROVE  IsInjective(seq)
<1>1. ASSUME NEW i \in 1 .. n, NEW j \in 1 .. n, seq[i] = seq[j] PROVE i = j
  <2>1. \A a, b \in 1 .. n : a < b => seq[a] # seq[b]
    <3>1. ASSUME NEW a \in 1 .. n, NEW b \in 1 .. n, a < b, seq[a] = seq[b] PROVE FALSE
      <4>1. seq[a] \in S /\ seq[a][1] > seq[b][1]
        BY <3>1 DEF Newest
      <4>2. PICK x \in Int : x = seq[a][1]
        BY <4>1
      <4> QED
        BY <3>1, <4>1, <4>2
    <3> QED
      BY <3>1
  <2> QED
    BY <1>1, <2>1
<1> QED
  BY <1>1 DEF IsInjective

\* SwapHistory exists, has every swap that was read, and each after the newer ones.
LEMMA SwapHistoryIs ==
    ASSUME ChainOK, NEW low \in Int, NEW top \in Nat, ToSet(scan["swaps"].out) = LogsIn("swaps", low, top)
    PROVE  /\ ToSet(SwapHistory) = LogsIn("swaps", low, top)
           /\ \A i, j \in DOMAIN SwapHistory : i < j => SwapHistory[i][1] > SwapHistory[j][1]
<1>1. PICK made : made = LogsIn("swaps", low, top)
  OBVIOUS
<1>2. IsFiniteSet(made) /\ \A log \in made : log[1] \in Int
  <2>1. \A log \in made : log \in Log
    BY <1>1, RangesAre DEF Kinds
  <2> QED
    BY <1>1, <2>1, RangeFinite DEF Kinds, Log
<1>15. PICK n \in Nat : \E s \in [1 .. n -> made] : Newest(s, n) /\ {s[i] : i \in 1 .. n} = made
  BY <1>1, Sortable
<1>3. PICK seq \in [1 .. n -> made] : Newest(seq, n) /\ {seq[i] : i \in 1 .. n} = made
  BY <1>15
<1>4. seq \in Bijection(1 .. n, made)
  <2>1. IsInjective(seq)
    BY <1>2, <1>3, Distinct
  <2> QED
    BY <1>3, <2>1 DEF Bijection, Injection, Surjection
<1>5. Cardinality(made) = n
  <2>1. IsFiniteSet(1 .. n) /\ Cardinality(1 .. n) = n
    BY FS_Interval
  <2> QED
    BY <1>4, <2>1, FS_Bijection DEF ExistsBijection
<1>6. PICK told : told = SwapHistory
  OBVIOUS
<1>7. told = CHOOSE s \in [1 .. n -> made] : \A i, j \in DOMAIN s : i < j => s[i][1] > s[j][1]
  BY <1>1, <1>5, <1>6 DEF SwapHistory
<1>8. \E s \in [1 .. n -> made] : \A i, j \in DOMAIN s : i < j => s[i][1] > s[j][1]
  BY <1>3 DEF Newest
<1>9. told \in [1 .. n -> made] /\ \A i, j \in DOMAIN told : i < j => told[i][1] > told[j][1]
  BY <1>7, <1>8
<1>10. Newest(told, n)
  BY <1>9 DEF Newest
<1>11. IsInjective(told)
  BY <1>2, <1>9, <1>10, Distinct
<1>12. told \in Injection(1 .. n, made)
  BY <1>9, <1>11 DEF Injection
<1>13. told \in Surjection(1 .. n, made)
  <2>1. IsFiniteSet(1 .. n) /\ Cardinality(1 .. n) = n
    BY FS_Interval
  <2> QED
    BY <1>2, <1>5, <1>12, <2>1, FS_Injection
<1>14. ToSet(told) = made
  BY <1>9, <1>13 DEF ToSet, Surjection
<1> QED
  BY <1>1, <1>6, <1>9, <1>14

\* The budget for a wallet's swaps reaches the window's floor.
LEMMA EnoughPages ==
    ASSUME NEW w \in Nat, NEW p \in Nat, p >= 1
    PROVE  w + 1 <= (w \div p + 2) * (p + 1) /\ w \div p \in Nat
<1>1. PICK d \in Nat : d = w \div p
  OBVIOUS
<1>2. w < d * p + p
  BY <1>1
<1>3. (d + 2) * (p + 1) = d * p + d + p + p + 2
  OBVIOUS
<1>4. PICK x \in Nat : x = d * p
  OBVIOUS
<1>5. w + 1 <= x + d + p + p + 2
  BY <1>2, <1>4
<1> QED
  BY <1>1, <1>3, <1>4, <1>5

LEMMA SwapsReach ==
    ASSUME scan["swaps"].top \in Nat, scan["swaps"].floor = WindowFloor("swaps", scan["swaps"].top)
    PROVE  Lowest("swaps") = WindowFloor("swaps", scan["swaps"].top)
<1>1. PICK w \in Nat, p \in Nat, t \in Nat, f \in Nat : w = WindowOf["swaps"] /\ p = Page /\ t = scan["swaps"].top /\ f = scan["swaps"].floor
  <2>1. WindowFloor("swaps", scan["swaps"].top) \in Nat
    BY FloorIs DEF Kinds
  <2> QED
    BY <2>1, ConstantsAre DEF Kinds
<1>2. Budget("swaps") = w \div p + 2 /\ p >= 1
  BY <1>1, ConstantsAre DEF Budget
<1>3. f = IF t > w THEN t - w ELSE 0
  BY <1>1 DEF WindowFloor
<1>4. PICK reach \in Nat : reach = Budget("swaps") * (p + 1)
  <2>1. w \div p \in Nat
    BY <1>2, EnoughPages
  <2> QED
    BY <1>2, <2>1
<1>5. w + 1 <= reach
  BY <1>2, <1>4, EnoughPages
<1>6. f >= t - reach + 1
  BY <1>3, <1>5
<1>7. Lowest("swaps") = IF f >= t - reach + 1 THEN f ELSE t - reach + 1
  BY <1>1, <1>4, Reach DEF Kinds
<1> QED
  BY <1>1, <1>6, <1>7

-----------------------------------------------------------------------------
(***************************************************************************)
(* A wallet's history.                                                     *)
(***************************************************************************)
\* What has docked did so in a transaction of its own, when it was open.
LEMMA DocksAre ==
    ASSUME ChainOK, NEW k \in 1 .. Latest, chain[k].kind = "dock"
    PROVE  chain[k] = Tx("dock", chain[k].s, <<>>) /\ chain[k].s \in ShippedBy(k - 1)
<1>1. chain[k] \in Transaction /\ Allowed(k)
  BY ChainIs DEF ChainOK
<1>2. PICK tx \in Transaction : tx = chain[k]
  BY <1>1
<1>3. tx.did = <<>> /\ tx.s \in ShippedBy(k - 1)
  BY <1>1, <1>2 DEF Allowed, OpenAt
<1>4. tx = [kind |-> tx.kind, s |-> tx.s, did |-> tx.did]
  BY DEF Transaction
<1> QED
  BY <1>2, <1>3, <1>4 DEF Tx

LEMMA DocksFollow ==
    ASSUME ChainOK, NEW j \in 1 .. Latest, NEW k \in 1 .. Latest, chain[j].kind = "ship", chain[k].kind = "dock",
           chain[j].s = chain[k].s
    PROVE  j < k
<1>1. Latest \in Nat /\ chain[j].s \in Strategies /\ j \in Nat /\ k \in Nat
  BY ChainIs DEF Transaction
<1>2. chain[j].s \notin ShippedBy(j - 1) /\ chain[j].s \in ShippedBy(k - 1)
  BY DocksAre DEF ChainOK, Allowed
<1>3. ~ k <= j
  <2>1. ASSUME k <= j PROVE FALSE
    <3>1. k - 1 \in 0 .. Latest /\ j - 1 \in 0 .. Latest /\ k - 1 <= j - 1
      BY <1>1, <2>1
    <3> QED
      BY <1>1, <1>2, <3>1, Outlasts
  <2> QED
    BY <2>1
<1> QED
  BY <1>1, <1>3

\* The rows of the log: a dock of a strategy it has the ship of is on the
\* pages too.
LEMMA PagedRowsTell ==
    ASSUME HInv, scan["strategies"].pc = "done", NEW row \in PagedRows
    PROVE  IF row.active THEN row.s \in OpenAt(scan["strategies"].top)
           ELSE \E s \in DockedBy(scan["strategies"].top) : HashOf[s] = HashOf[row.s] /\ Owner[s] = Owner[row.s]
<1>1. ChainOK /\ ScansOK /\ "strategies" \in Kinds
  BY DEF HInv, Kinds
<1>2. PICK top : top = scan["strategies"].top
  OBVIOUS
<1>3. PICK low : low = Lowest("strategies")
  OBVIOUS
<1>4. PICK out : out = scan["strategies"].out
  OBVIOUS
<1>5. PICK docks : docks = scan["strategies"].docks
  OBVIOUS
<1>6. top \in Nat /\ top <= Latest /\ low \in Int /\ Latest \in Nat
  BY <1>1, <1>2, <1>3, ScanIs, Reach, ChainIs DEF ScanOK
<1>7. ToSet(out) = LogsIn("strategies", low, top) /\ docks = HashesDocked(low, top)
  BY <1>1, <1>2, <1>3, <1>4, <1>5, ScanIs DEF ScanOK, HasRead
<1>8. PICK s : /\ s \in Strategies /\ Owner[s] = ask.maker /\ \E i \in DOMAIN out : chain[out[i][1]].s = s
               /\ row = [s |-> s, active |-> HashOf[s] \notin docks]
  BY <1>4, <1>5 DEF PagedRows, Ours
<1>9. PICK i \in DOMAIN out : chain[out[i][1]].s = s
  BY <1>8
<1>10. PICK j : j = out[i][1]
  OBVIOUS
<1>11. out[i] \in LogsIn("strategies", low, top)
  BY <1>7 DEF ToSet
<1>12. j \in low .. top /\ j \in 1 .. Latest /\ out[i] \in Logs("strategies", j)
  BY <1>1, <1>6, <1>10, <1>11, RangesAre
<1>13. chain[j].kind = "ship" /\ chain[j].s = s
  BY <1>9, <1>10, <1>12 DEF Logs
<1>14. row.s = s /\ (row.active <=> HashOf[s] \notin docks)
  BY <1>8
<1>15. CASE HashOf[s] \notin docks
  <2>1. s \in ShippedBy(top)
    <3>1. j \in 1 .. top
      BY <1>6, <1>12
    <3> QED
      BY <1>8, <1>13, <3>1 DEF ShippedBy
  <2>2. ASSUME s \in DockedBy(top) PROVE FALSE
    <3>1. PICK k \in 1 .. top : chain[k].kind = "dock" /\ chain[k].s = s
      BY <2>2 DEF DockedBy
    <3>2. k \in 1 .. Latest
      BY <1>6
    <3>3. chain[k] = Tx("dock", s, <<>>) /\ j < k
      BY <1>1, <1>12, <1>13, <3>1, <3>2, DocksAre, DocksFollow
    <3>4. k \in low .. top
      BY <1>6, <1>12, <3>3
    <3>5. s \in DockedIn(low, top)
      BY <1>8, <3>2, <3>3, <3>4 DEF DockedIn
    <3> QED
      BY <1>7, <1>8, <1>15, <3>5 DEF HashesDocked
  <2> QED
    BY <1>2, <1>14, <1>15, <2>1, <2>2 DEF OpenAt
<1>16. CASE HashOf[s] \in docks
  <2>1. PICK x \in DockedIn(low, top) : HashOf[x] = HashOf[s] /\ Owner[x] = ask.maker
    BY <1>7, <1>16 DEF HashesDocked
  <2>2. PICK k \in low .. top : k \in 1 .. Latest /\ chain[k] = Tx("dock", x, <<>>) /\ x \in Strategies
    BY <2>1 DEF DockedIn
  <2>3. k \in 1 .. top /\ chain[k].kind = "dock" /\ chain[k].s = x
    BY <1>6, <2>2 DEF Tx
  <2>4. x \in DockedBy(top)
    BY <2>2, <2>3 DEF DockedBy
  <2> QED
    BY <1>2, <1>8, <1>14, <1>16, <2>1, <2>4
<1> QED
  BY <1>15, <1>16

\* The rows of the index: a strategy it knows by an id has shipped under it.
LEMMA GraphRowsTell ==
    ASSUME ChainOK, NEW b \in 0 .. Latest, ask.kind = "history", ask.rows \in GraphAnswers(b), NEW row \in ask.rows
    PROVE  IF row.active THEN row.s \in OpenAt(b)
           ELSE \E s \in DockedBy(b) : HashOf[s] = HashOf[row.s] /\ Owner[s] = Owner[row.s]
<1>1. ask.rows = {[s |-> s, active |-> s \in OpenAt(b)] : s \in {x \in Ours : StrategyId(x) \in IdsBy(b) /\ Owner[x] = ask.maker}}
  BY DEF GraphAnswers
<1>2. PICK s \in Ours : StrategyId(s) \in IdsBy(b) /\ row = [s |-> s, active |-> s \in OpenAt(b)]
  BY <1>1
<1>3. row.s = s /\ (row.active <=> s \in OpenAt(b))
  BY <1>2
<1>4. PICK r \in ShippedBy(b) : StrategyId(s) = StrategyId(r)
  BY <1>2 DEF IdsBy
<1>5. HashOf[s] = HashOf[r] /\ AppOf[s] = AppOf[r]
  BY <1>4 DEF StrategyId
<1>6. s \in Strategies /\ r \in Strategies
  BY RecordsAssumption DEF Ours, ShippedBy
<1>7. s \in ShippedBy(b)
  BY <1>4, <1>5, <1>6, RecordsAssumption
<1> QED
  BY <1>3, <1>7 DEF OpenAt

\* The swaps of the window, all of them.
LEMMA SwapsAreTold ==
    ASSUME HInv, ask.kind = "history", ask.pc = "answered"
    PROVE  LET made == LogsIn("swaps", WindowFloor("swaps", scan["swaps"].top), scan["swaps"].top)
               shown == ask.swaps
           IN ToSet(shown) = made /\ \A i, j \in DOMAIN shown : i < j => shown[i][1] > shown[j][1]
<1>1. ChainOK /\ ScansOK /\ AskOK /\ "swaps" \in Kinds
  BY DEF HInv, Kinds
<1>2. scan["swaps"].pc = "done" /\ ask.swaps = SwapHistory
  BY <1>1 DEF AskOK
<1>3. PICK top : top = scan["swaps"].top
  OBVIOUS
<1>4. ScanOK("swaps") /\ top \in Nat /\ scan["swaps"].floor \in Nat
  BY <1>1, <1>3, ScanIs
<1>5. FloorOK("swaps") /\ ToSet(scan["swaps"].out) = LogsIn("swaps", Lowest("swaps"), top)
  BY <1>2, <1>3, <1>4 DEF ScanOK, HasRead
<1>6. scan["swaps"].floor = WindowFloor("swaps", top)
  BY <1>2, <1>3, <1>5 DEF FloorOK
<1>7. Lowest("swaps") = WindowFloor("swaps", top)
  BY <1>3, <1>4, <1>6, SwapsReach
<1>8. PICK low \in Nat : low = WindowFloor("swaps", top)
  BY <1>1, <1>4, FloorIs
<1>9. ToSet(scan["swaps"].out) = LogsIn("swaps", low, top) /\ low \in Int
  BY <1>5, <1>7, <1>8
<1>10. /\ ToSet(SwapHistory) = LogsIn("swaps", low, top)
       /\ \A i, j \in DOMAIN SwapHistory : i < j => SwapHistory[i][1] > SwapHistory[j][1]
  BY <1>1, <1>4, <1>9, SwapHistoryIs
<1> QED
  BY <1>2, <1>3, <1>8, <1>10

LEMMA TheirsHolds == ASSUME HInv PROVE HistoryIsTheirs
<1> SUFFICES ASSUME ask.kind = "history", ask.pc = "answered"
             PROVE  /\ ask.at >= ask.began - MaxLag
                    /\ \A row \in ask.rows :
                          IF row.active THEN row.s \in OpenAt(ask.at)
                          ELSE \E s \in DockedBy(ask.at) : HashOf[s] = HashOf[row.s] /\ Owner[s] = Owner[row.s]
  BY SwapsAreTold DEF HistoryIsTheirs
<1>1. ChainOK /\ ScansOK /\ AskOK /\ "strategies" \in Kinds
  BY DEF HInv, Kinds
<1>2. ask.source \in {"graph", "log"} /\ ask.at \in 0 .. Latest /\ ask.began \in 0 .. Latest
  BY <1>1 DEF AskOK
<1>3. CASE ask.source = "graph"
  <2>1. ask.at >= ask.began - MaxLag /\ ask.rows \in GraphAnswers(ask.at)
    BY <1>1, <1>3 DEF AskOK
  <2>2. PICK b \in 0 .. Latest : b = ask.at
    BY <1>2
  <2>3. ASSUME NEW row \in ask.rows
        PROVE IF row.active THEN row.s \in OpenAt(b)
              ELSE \E s \in DockedBy(b) : HashOf[s] = HashOf[row.s] /\ Owner[s] = Owner[row.s]
    BY <1>1, <2>1, <2>2, GraphRowsTell
  <2> QED
    BY <2>1, <2>2, <2>3
<1>4. CASE ask.source = "log"
  <2>1. scan["strategies"].pc = "done" /\ ask.at = scan["strategies"].top /\ ask.rows = PagedRows
    BY <1>1, <1>4 DEF AskOK
  <2>2. ask.began <= ask.at
    BY <1>1, <2>1, ScanIs DEF ScanOK
  <2>3. ask.at >= ask.began - MaxLag
    BY <1>2, <2>2, ConstantsAre, ChainIs, <1>1
  <2>4. ASSUME NEW row \in PagedRows
        PROVE IF row.active THEN row.s \in OpenAt(scan["strategies"].top)
              ELSE \E s \in DockedBy(scan["strategies"].top) : HashOf[s] = HashOf[row.s] /\ Owner[s] = Owner[row.s]
    BY <2>1, PagedRowsTell
  <2> QED
    BY <2>1, <2>3, <2>4
<1> QED
  BY <1>2, <1>3, <1>4

-----------------------------------------------------------------------------
(***************************************************************************)
(* The listings.                                                           *)
(***************************************************************************)
\* A row's strategies are some of those it could be of, and its makers theirs.
LEMMA RowCounts ==
    ASSUME NEW of, IsFiniteSet(of), NEW part, part \subseteq of
    PROVE  /\ IsFiniteSet(part) /\ Cardinality(part) \in Nat /\ Cardinality(MakersIn(part)) \in Nat
           /\ Cardinality(of) \in Nat /\ Cardinality(MakersIn(of)) \in Nat
           /\ Cardinality(MakersIn(part)) <= Cardinality(MakersIn(of))
           /\ part # {} => Cardinality(MakersIn(part)) >= 1
           /\ Cardinality(MakersIn(part)) <= Cardinality(part) /\ Cardinality(part) <= Cardinality(of)
<1>1. IsFiniteSet(part) /\ Cardinality(part) <= Cardinality(of)
  BY FS_Subset
<1>2. IsFiniteSet(MakersIn(part)) /\ Cardinality(MakersIn(part)) <= Cardinality(part)
  <2>1. PICK f : f = [s \in part |-> Owner[s]]
    OBVIOUS
  <2>2. f \in Surjection(part, MakersIn(part))
    BY <2>1 DEF Surjection, MakersIn
  <2> QED
    BY <1>1, <2>2, FS_Surjection
<1>3. IsFiniteSet(MakersIn(of))
  <2>1. PICK f : f = [s \in of |-> Owner[s]]
    OBVIOUS
  <2>2. f \in Surjection(of, MakersIn(of))
    BY <2>1 DEF Surjection, MakersIn
  <2> QED
    BY <2>2, FS_Surjection
<1>4. MakersIn(part) \subseteq MakersIn(of)
  BY DEF MakersIn
<1>5. Cardinality(MakersIn(part)) <= Cardinality(MakersIn(of))
  BY <1>3, <1>4, FS_Subset
<1>6. Cardinality(part) \in Nat /\ Cardinality(MakersIn(part)) \in Nat /\ Cardinality(of) \in Nat /\ Cardinality(MakersIn(of)) \in Nat
  BY <1>1, <1>2, <1>3, FS_CardinalityType
<1>7. ASSUME part # {} PROVE Cardinality(MakersIn(part)) >= 1
  <2>1. MakersIn(part) # {}
    BY <1>7 DEF MakersIn
  <2>2. Cardinality(MakersIn(part)) # 0
    BY <1>2, <2>1, FS_EmptySet
  <2> QED
    BY <1>6, <2>2
<1> QED
  BY <1>1, <1>2, <1>5, <1>6, <1>7

\* What the query reached of what there was.
LEMMA FirstIs ==
    ASSUME NEW pool, IsFiniteSet(pool), NEW some \in FirstOf(pool)
    PROVE  some \subseteq pool /\ (Cardinality(pool) <= First => some = pool)
<1>1. some \subseteq pool /\ Cardinality(some) = IF Cardinality(pool) < First THEN Cardinality(pool) ELSE First
  BY DEF FirstOf
<1>2. Cardinality(pool) \in Nat /\ First \in Nat
  BY FS_CardinalityType, ConstantsAre
<1>3. Cardinality(pool) <= First => Cardinality(some) = Cardinality(pool)
  BY <1>1, <1>2
<1> QED
  BY <1>1, <1>3, FS_Subset

\* A row of a listing, the strategies it may be of, and whether all were read.
Counts(row, of, whole) ==
    LET whose == Cardinality({Owner[s] : s \in of}) IN
    /\ row.makers \in 1 .. whose /\ row.strategies \in row.makers .. Cardinality(of)
    /\ whole => row.makers = whose /\ row.strategies = Cardinality(of)

AppsTell(open, some, rows) ==
    /\ \A row \in rows : Counts(row, {s \in open : AppOf[s] = row.app}, some = open)
    /\ some = open => \A s \in open : \E row \in rows : AppOf[s] = row.app

PairsTell(open, whole, rows) ==
    /\ \A row \in rows : Counts(row, {s \in open : row.tokens \subseteq TokensOf[s]}, whole)
    /\ whole => \A s \in open : \E row \in rows : row.tokens \subseteq TokensOf[s]
    /\ \A x, y \in rows : x.tokens \subseteq y.tokens => x.makers >= y.makers

\* One app's row, and one pair's or token's.
LEMMA AppsCount ==
    ASSUME NEW open, IsFiniteSet(open), NEW some, some \subseteq open
    PROVE  AppsTell(open, some, appBreakdown(some))
<1>1. ASSUME NEW row \in appBreakdown(some)
      PROVE  Counts(row, {s \in open : AppOf[s] = row.app}, some = open)
  <2>1. PICK s \in some : LET under == {x \in some : AppOf[x] = AppOf[s]} IN
             row = [app |-> AppOf[s], isOurs |-> AppOf[s] = Router, strategies |-> Cardinality(under),
                    makers |-> Cardinality(MakersIn(under))]
    BY <1>1 DEF appBreakdown
  <2>2. PICK app : app = AppOf[s]
    OBVIOUS
  <2>3. PICK part : part = {x \in some : AppOf[x] = app}
    OBVIOUS
  <2>4. PICK of : of = {x \in open : AppOf[x] = app}
    OBVIOUS
  <2>5. row.app = app /\ row.strategies = Cardinality(part) /\ row.makers = Cardinality(MakersIn(part))
    BY <2>1, <2>2, <2>3
  <2>6. part \subseteq of /\ part # {} /\ of \subseteq open /\ (some = open => part = of)
    BY <2>2, <2>3, <2>4
  <2>7. IsFiniteSet(of)
    BY <2>6, FS_Subset
  <2>8. /\ row.makers \in 1 .. Cardinality(MakersIn(of)) /\ row.strategies \in row.makers .. Cardinality(of)
        /\ some = open => row.makers = Cardinality(MakersIn(of)) /\ row.strategies = Cardinality(of)
    BY <2>5, <2>6, <2>7, RowCounts
  <2> QED
    BY <2>4, <2>5, <2>8 DEF MakersIn, Counts
<1>2. ASSUME some = open, NEW s \in open PROVE \E row \in appBreakdown(some) : AppOf[s] = row.app
  <2> DEFINE Row(a) == [app |-> a, isOurs |-> a = Router, strategies |-> Cardinality({x \in some : AppOf[x] = a}),
                        makers |-> Cardinality(MakersIn({x \in some : AppOf[x] = a}))]
  <2>1. appBreakdown(some) = {Row(a) : a \in {AppOf[x] : x \in some}}
    BY DEF appBreakdown
  <2>2. Row(AppOf[s]).app = AppOf[s]
    OBVIOUS
  <2> HIDE DEF Row
  <2>3. Row(AppOf[s]) \in appBreakdown(some)
    BY <1>2, <2>1
  <2> QED
    BY <2>2, <2>3
<1> QED
  BY <1>1, <1>2 DEF AppsTell

LEMMA PairsCount ==
    ASSUME NEW pool, IsFiniteSet(pool), NEW some, some \subseteq pool
    PROVE  PairsTell({s \in pool : Cardinality(TokensOf[s]) = 2}, some = pool, liquidPairsFromGraph(some))
<1>1. PICK open : open = {s \in pool : Cardinality(TokensOf[s]) = 2}
  OBVIOUS
<1>2. PICK paired : paired = {s \in some : Cardinality(TokensOf[s]) = 2}
  OBVIOUS
<1>3. paired \subseteq open /\ open \subseteq pool /\ (some = pool => paired = open)
  BY <1>1, <1>2
<1>4. IsFiniteSet(open) /\ IsFiniteSet(paired)
  BY <1>3, FS_Subset
<1> DEFINE On(tokens) == {s \in paired : tokens \subseteq TokensOf[s]}
           Listed == {TokensOf[s] : s \in paired} \cup {{t} : t \in UNION {TokensOf[s] : s \in paired}}
           Row(tokens) == [tokens |-> tokens, strategies |-> Cardinality(On(tokens)), makers |-> Cardinality(MakersIn(On(tokens)))]
<1>5. liquidPairsFromGraph(some) = {Row(tokens) : tokens \in Listed}
  BY <1>2 DEF liquidPairsFromGraph
<1>6. \A tokens \in Listed : \E s \in paired : tokens \subseteq TokensOf[s]
  OBVIOUS
<1>7. \A s \in paired : TokensOf[s] \in Listed
  OBVIOUS
<1>8. \A tokens : /\ Row(tokens).tokens = tokens /\ Row(tokens).strategies = Cardinality(On(tokens))
                  /\ Row(tokens).makers = Cardinality(MakersIn(On(tokens)))
  OBVIOUS
<1>9. \A tokens : On(tokens) = {s \in paired : tokens \subseteq TokensOf[s]}
  OBVIOUS
<1> HIDE DEF On, Listed, Row
<1>10. ASSUME NEW row \in liquidPairsFromGraph(some)
       PROVE  Counts(row, {s \in open : row.tokens \subseteq TokensOf[s]}, some = pool)
  <2>1. PICK tokens \in Listed : row = Row(tokens)
    BY <1>5, <1>10
  <2>2. PICK of : of = {s \in open : tokens \subseteq TokensOf[s]}
    OBVIOUS
  <2>3. PICK part : part = On(tokens)
    OBVIOUS
  <2>4. row.tokens = tokens /\ row.strategies = Cardinality(part) /\ row.makers = Cardinality(MakersIn(part))
    BY <1>8, <2>1, <2>3
  <2>5. part \subseteq of /\ part # {} /\ of \subseteq open /\ (some = pool => part = of)
    BY <1>3, <1>6, <1>9, <2>2, <2>3
  <2>6. IsFiniteSet(of)
    BY <1>4, <2>5, FS_Subset
  <2>7. /\ row.makers \in 1 .. Cardinality(MakersIn(of)) /\ row.strategies \in row.makers .. Cardinality(of)
        /\ some = pool => row.makers = Cardinality(MakersIn(of)) /\ row.strategies = Cardinality(of)
    BY <2>4, <2>5, <2>6, RowCounts
  <2> QED
    BY <2>2, <2>4, <2>7 DEF MakersIn, Counts
<1>11. ASSUME some = pool, NEW s \in open PROVE \E row \in liquidPairsFromGraph(some) : row.tokens \subseteq TokensOf[s]
  <2>1. s \in paired
    BY <1>3, <1>11
  <2>2. Row(TokensOf[s]) \in liquidPairsFromGraph(some)
    BY <1>5, <1>7, <2>1
  <2> QED
    BY <1>8, <2>2
<1>12. ASSUME NEW x \in liquidPairsFromGraph(some), NEW y \in liquidPairsFromGraph(some), x.tokens \subseteq y.tokens
       PROVE  x.makers >= y.makers
  <2>1. PICK a \in Listed : x = Row(a)
    BY <1>5, <1>12
  <2>2. PICK b \in Listed : y = Row(b)
    BY <1>5, <1>12
  <2>3. a \subseteq b
    BY <1>8, <1>12, <2>1, <2>2
  <2>4. On(b) \subseteq On(a) /\ On(a) \subseteq paired
    BY <1>9, <2>3
  <2>5. IsFiniteSet(On(a))
    BY <1>4, <2>4, FS_Subset
  <2>6. /\ Cardinality(MakersIn(On(a))) \in Nat /\ Cardinality(MakersIn(On(b))) \in Nat
        /\ Cardinality(MakersIn(On(b))) <= Cardinality(MakersIn(On(a)))
    BY <2>4, <2>5, RowCounts
  <2> QED
    BY <1>8, <2>1, <2>2, <2>6
<1> QED
  BY <1>1, <1>10, <1>11, <1>12 DEF PairsTell

LEMMA ListingsHold == ASSUME HInv PROVE ListingsCount
<1> SUFFICES ASSUME ask.kind \in {"apps", "pairs"}, ask.source = "graph" PROVE ListingsCount
  BY DEF ListingsCount
<1>1. ask.at \in 0 .. Latest /\ ask.at >= ask.began - MaxLag /\ ask.rows \in GraphAnswers(ask.at)
  BY DEF HInv, AskOK
<1>2. PICK b \in 0 .. Latest : b = ask.at
  BY <1>1
<1>3. PICK rows : rows = ask.rows
  OBVIOUS
<1>4. IsFiniteSet(OpenAt(b)) /\ IsFiniteSet(OpenAt(b) \cap Ours)
  <2>1. OpenAt(b) \in SUBSET Strategies /\ OpenAt(b) \cap Ours \in SUBSET Strategies
    BY RecordsAssumption DEF OpenAt, ShippedBy, Ours
  <2> QED
    BY <2>1, FS_Subset, RecordsAssumption
<1>5. CASE ask.kind = "apps"
  <2>1. PICK pool : pool = OpenAt(b)
    OBVIOUS
  <2>2. PICK some \in FirstOf(pool) : rows = appBreakdown(some)
    BY <1>1, <1>2, <1>3, <1>5, <2>1 DEF GraphAnswers
  <2>3. some \subseteq pool /\ (Cardinality(pool) <= First => some = pool)
    BY <1>4, <2>1, FirstIs
  <2>4. AppsTell(pool, some, rows)
    <3>1. IsFiniteSet(pool) /\ some \subseteq pool
      BY <1>4, <2>1, <2>3
    <3> QED
      BY <2>2, <3>1, AppsCount
  <2>5. pool = {s \in OpenAt(ask.at) : ask.kind = "pairs" => s \in Ours /\ Cardinality(TokensOf[s]) = 2}
    BY <1>2, <1>5, <2>1
  <2>6. pool = {s \in OpenAt(ask.at) : ask.kind = "pairs" => s \in Ours}
    BY <1>2, <1>5, <2>1
  <2> QED
    BY <1>1, <1>3, <1>5, <2>3, <2>4, <2>5, <2>6 DEF ListingsCount, AppsTell, Counts
<1>6. CASE ask.kind = "pairs"
  <2>1. PICK pool : pool = OpenAt(b) \cap Ours
    OBVIOUS
  <2>2. PICK some \in FirstOf(pool) : rows = liquidPairsFromGraph(some)
    BY <1>1, <1>2, <1>3, <1>6, <2>1 DEF GraphAnswers
  <2>3. some \subseteq pool /\ (Cardinality(pool) <= First => some = pool)
    BY <1>4, <2>1, FirstIs
  <2>7. PICK open : open = {s \in pool : Cardinality(TokensOf[s]) = 2}
    OBVIOUS
  <2>4. PairsTell(open, some = pool, rows)
    <3>1. IsFiniteSet(pool) /\ some \subseteq pool
      BY <1>4, <2>1, <2>3
    <3> QED
      BY <2>2, <2>7, <3>1, PairsCount
  <2>5. open = {s \in OpenAt(ask.at) : ask.kind = "pairs" => s \in Ours /\ Cardinality(TokensOf[s]) = 2}
    BY <1>2, <1>6, <2>1, <2>7
  <2>6. pool = {s \in OpenAt(ask.at) : ask.kind = "pairs" => s \in Ours}
    BY <1>2, <1>6, <2>1
  <2>8. Cardinality(pool) <= First => some = pool
    BY <2>3
  <2> QED
    <3>1. \A row \in rows : Counts(row, {s \in open : row.tokens \subseteq TokensOf[s]}, some = pool)
      BY <2>4 DEF PairsTell
    <3>2. \A row : {s \in open : row.tokens \subseteq TokensOf[s]} =
                   {s \in open : IF ask.kind = "apps" THEN AppOf[s] = row.app ELSE row.tokens \subseteq TokensOf[s]}
      BY <1>6
    <3>3. \A row \in rows :
             Counts(row, {s \in open : IF ask.kind = "apps" THEN AppOf[s] = row.app ELSE row.tokens \subseteq TokensOf[s]}, some = pool)
      BY <3>1, <3>2
    <3>4. some = pool => \A s \in open : \E row \in rows : IF ask.kind = "apps" THEN AppOf[s] = row.app ELSE row.tokens \subseteq TokensOf[s]
      BY <1>6, <2>4 DEF PairsTell
    <3>5. \A x, y \in rows : x.tokens \subseteq y.tokens => x.makers >= y.makers
      BY <2>4 DEF PairsTell
    <3> QED
      BY <1>1, <1>3, <2>5, <2>6, <2>8, <3>3, <3>4, <3>5 DEF ListingsCount, Counts
<1> QED
  BY <1>5, <1>6

(***************************************************************************)
(* The subgraph's counters are the chain's, and a scan that has ended      *)
(* holds every log of its kind once, whatever was mined while it ran       *)
(* (tap.ts:38-74, refusals.ts:74-193, history.ts:51-166).                  *)
(***************************************************************************)
THEOREM RecordsAreExact == RecordsSpec => []RecordsInv
<1>1. HInv => RecordsInv
  BY RecordsInvHolds
<1> QED
  BY <1>1, RecordsStand, PTL

(***************************************************************************)
(* Nobody is called degraded or unreliable who has not refused in the      *)
(* window, whichever scan failed, and a verdict is no kinder than the      *)
(* index's counters (reliability.ts, refusals.ts:74-193).                  *)
(***************************************************************************)
THEOREM VerdictsEarned == RecordsSpec => []VerdictsAreEarned
<1>1. HInv => VerdictsAreEarned
  BY VerdictsHold
<1> QED
  BY <1>1, RecordsStand, PTL

(***************************************************************************)
(* A wallet's history and a listing tell what was so at one block no older *)
(* than the lag, whether the index answered or the log was paged           *)
(* (history.ts:51-166, graph.ts:317-517).                                  *)
(***************************************************************************)
THEOREM HistoryIsOfTheBook == RecordsSpec => []HistoryIsTheBook
<1>1. HInv => HistoryIsTheBook
  BY TheirsHolds, ListingsHold DEF HistoryIsTheBook
<1> QED
  BY <1>1, RecordsStand, PTL
=============================================================================
