----------------------------- MODULE RouteServer -----------------------------
(***************************************************************************)
(* GET /api/route: how one server process shares quotes between requests.  *)
(* A quote takes many seconds of chain reads, so finished plans are cached *)
(* for ROUTE_CACHE_TTL and a request for a key being computed waits for    *)
(* that computation.  fresh=1, sent before signing, takes neither.         *)
(*                                                                         *)
(* Handlers interleave only where they await: while waiting for another's  *)
(* promise and while computing.  A plan is as old as its first read, taken *)
(* when the computation began; what it contains is not modelled here.      *)
(***************************************************************************)
EXTENDS Integers, FiniteSets

CONSTANTS
    Requests,
    Keys,           \* chain, pair and amount
    TTL,            \* ROUTE_CACHE_TTL
    CacheMax,       \* entries above which the cache is cleared
    MaxCompute,     \* bound on how long a computation takes
    MaxNow          \* bound on the clock

VARIABLES
    now,
    cache,          \* routeServerCache: per key an entry, or NoEntry
    inflight,       \* routeInflight: per key the request whose promise it is, or NoOne
    promise,        \* per request, its promise: pending, or what it was settled with
    request         \* per request: key, fresh, where it is, and its answer

vars == <<now, cache, inflight, promise, request>>

None == -1
NoOne == "no one"

ASSUME RouteServerAssumption ==
    /\ TTL \in Nat \ {0} /\ CacheMax \in Nat /\ MaxCompute \in Nat /\ MaxNow \in Nat
    /\ NoOne \notin Requests

NoEntry == [key |-> None, read |-> None, at |-> None]
Pending == [kind |-> "pending", key |-> None, read |-> None]
Null == [kind |-> "null", key |-> None, read |-> None]
Plan(k, read) == [kind |-> "plan", key |-> k, read |-> read]
Empty(k, read) == [kind |-> "empty", key |-> k, read |-> read]
Idle == [pc |-> "idle", key |-> None, fresh |-> FALSE, waitsFor |-> NoOne,
         arrived |-> None, began |-> None, answer |-> Null]
Failed == [kind |-> "error", key |-> None, read |-> None]

-----------------------------------------------------------------------------
Entries(c) == {k \in Keys : c[k] # NoEntry}

Hit(k, fresh) == ~ fresh /\ cache[k] # NoEntry /\ now - cache[k].at < TTL

\* Joins a computation even to answer fresh=1 (fault).
Joins_Always(k, fresh) == inflight[k] # NoOne

Joins(k, fresh) == ~ fresh /\ inflight[k] # NoOne

Answer(r, fields, answer) ==
    request' = [request EXCEPT ![r] =
        [Idle EXCEPT !.pc = "done", !.key = fields.key, !.fresh = fields.fresh, !.answer = answer]]

\* Registers the promise of r and starts computing; fresh=1 registers nothing.
Compute(r, fields) ==
    /\ request' = [request EXCEPT ![r] = [fields EXCEPT !.pc = "compute", !.began = now]]
    /\ IF fields.fresh THEN UNCHANGED <<inflight, promise>>
       ELSE /\ inflight' = [inflight EXCEPT ![fields.key] = r]
            /\ promise' = [promise EXCEPT ![r] = Pending]

\* Everything up to the first await.
Arrive(r, k, fresh) ==
    LET fields == [request[r] EXCEPT !.key = k, !.fresh = fresh, !.arrived = now] IN
    /\ request[r].pc = "idle"
    /\ UNCHANGED <<now, cache>>
    /\ IF Hit(k, fresh)
       THEN Answer(r, fields, Plan(cache[k].key, cache[k].read)) /\ UNCHANGED <<inflight, promise>>
       ELSE IF Joins(k, fresh)
       THEN /\ request' = [request EXCEPT ![r] =
                             [fields EXCEPT !.pc = "wait", !.waitsFor = inflight[k]]]
            /\ UNCHANGED <<inflight, promise>>
       ELSE Compute(r, fields)

\* The awaited promise is settled: share its plan, or compute after all.
Resume(r) ==
    LET shared == promise[request[r].waitsFor] IN
    /\ request[r].pc = "wait" /\ shared # Pending
    /\ UNCHANGED <<now, cache>>
    /\ IF shared # Null
       THEN Answer(r, request[r], shared) /\ UNCHANGED <<inflight, promise>>
       ELSE Compute(r, request[r])

\* Leaves the entry in routeInflight (fault).
Settle_Listed(r, value) ==
    IF request[r].fresh THEN UNCHANGED <<inflight, promise>>
    ELSE promise' = [promise EXCEPT ![r] = value] /\ UNCHANGED inflight

\* finally: settle(null) unless settled, and drop the entry of the key, no
\* matter whose promise it holds by now.
Settle(r, value) ==
    IF request[r].fresh THEN UNCHANGED <<inflight, promise>>
    ELSE /\ promise' = [promise EXCEPT ![r] = value]
         /\ inflight' = [inflight EXCEPT ![request[r].key] = NoOne]

\* The cache never forgets (fault).
Kept_All == cache

Kept == IF Cardinality(Entries(cache)) > CacheMax THEN [k \in Keys |-> NoEntry] ELSE cache

Planned(r) ==
    LET k == request[r].key
        plan == Plan(k, request[r].began) IN
    /\ request[r].pc = "compute"
    /\ cache' = [Kept EXCEPT ![k] = [key |-> k, read |-> plan.read, at |-> now]]
    /\ Settle(r, plan)
    /\ Answer(r, request[r], plan)
    /\ UNCHANGED now

\* Leaves the waiters of an empty plan waiting (fault).
NoPlan_Unsettled(r) ==
    /\ request[r].pc = "compute"
    /\ Answer(r, request[r], Empty(request[r].key, request[r].began))
    /\ IF request[r].fresh THEN UNCHANGED inflight
       ELSE inflight' = [inflight EXCEPT ![request[r].key] = NoOne]
    /\ UNCHANGED <<now, cache, promise>>

\* Nobody can fill it: the answer is returned from inside the try, neither
\* cached nor shared.
NoPlan(r) ==
    /\ request[r].pc = "compute"
    /\ Settle(r, Null)
    /\ Answer(r, request[r], Empty(request[r].key, request[r].began))
    /\ UNCHANGED <<now, cache>>

Throws(r) ==
    /\ request[r].pc = "compute"
    /\ Settle(r, Null)
    /\ Answer(r, request[r], Failed)
    /\ UNCHANGED <<now, cache>>

Finish(r) == Planned(r) \/ NoPlan(r) \/ Throws(r)

\* Time passes while the handlers wait for the chain.
Tick ==
    /\ now < MaxNow
    /\ \A r \in Requests : request[r].pc = "compute" => now - request[r].began < MaxCompute
    /\ \A r \in Requests : request[r].pc = "wait" => promise[request[r].waitsFor] = Pending
    /\ now' = now + 1
    /\ UNCHANGED <<cache, inflight, promise, request>>

-----------------------------------------------------------------------------
Init ==
    /\ now = 0
    /\ cache = [k \in Keys |-> NoEntry]
    /\ inflight = [k \in Keys |-> NoOne]
    /\ promise = [r \in Requests |-> Null]
    /\ request = [r \in Requests |-> Idle]

Next ==
    \/ \E r \in Requests :
          \/ \E k \in Keys, fresh \in BOOLEAN : Arrive(r, k, fresh)
          \/ Resume(r) \/ Finish(r)
    \/ Tick

Spec == Init /\ [][Next]_vars

\* The event loop runs every resolved await, and a computation ends: every
\* chain read returns or times out.
FairSpec == Spec /\ \A r \in Requests : WF_vars(Resume(r)) /\ WF_vars(Finish(r))

-----------------------------------------------------------------------------
Times == Nat \cup {None}
Answers == [kind : {"pending", "null", "plan", "empty", "error"}, key : Keys \cup {None}, read : Times]
CacheEntries == [key : Keys \cup {None}, read : Times, at : Times]
RequestStates ==
    [pc : {"idle", "wait", "compute", "done"}, key : Keys \cup {None}, fresh : BOOLEAN,
     waitsFor : Requests \cup {NoOne}, arrived : Times, began : Times, answer : Answers]

TypeOK ==
    /\ now \in Nat
    /\ cache \in [Keys -> CacheEntries]
    /\ Cardinality(Entries(cache)) <= CacheMax + 1
    /\ inflight \in [Keys -> Requests \cup {NoOne}]
    /\ promise \in [Requests -> Answers]
    /\ request \in [Requests -> RequestStates]

(***************************************************************************)
(* What a request can join is being computed, and what it has joined is    *)
(* settled or being computed: entries are overwritten by waiters that fell *)
(* through and deleted by whoever finishes first, yet no entry outlives    *)
(* its computation and no promise is abandoned.                            *)
(***************************************************************************)
JoinsOnlyTheRunning ==
    /\ \A k \in Keys : inflight[k] # NoOne =>
          /\ request[inflight[k]].pc = "compute" /\ request[inflight[k]].key = k
          /\ promise[inflight[k]] = Pending
    /\ \A r \in Requests : promise[r] = Pending => request[r].pc = "compute"

(***************************************************************************)
(* A plan that is about to be signed was read after it was asked for, and  *)
(* any other is for the key asked and no older than the cache allows plus  *)
(* the time it took to compute.                                            *)
(***************************************************************************)
PlansAreCurrent ==
    [][\A r \in Requests :
        LET q == request[r]
            done == request'[r] IN
        q.pc # "done" /\ done.pc = "done" /\ done.answer.kind = "plan" =>
            /\ done.answer.key = done.key
            /\ IF done.fresh THEN done.answer.read >= q.arrived
                             ELSE now - done.answer.read < TTL + MaxCompute]_vars

\* Every request is answered: no waiter is left on a promise nobody settles.
Answered == \A r \in Requests : request[r].pc # "idle" ~> request[r].pc = "done"

(***************************************************************************)
(* The cache stays bounded, and whoever waits waits for a computation that *)
(* is still running and will settle its promise (route.ts:14-62, 307-325). *)
(***************************************************************************)
RouteInv == TypeOK /\ JoinsOnlyTheRunning
=============================================================================
