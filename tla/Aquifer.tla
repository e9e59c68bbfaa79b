------------------------------ MODULE Aquifer ------------------------------
(***************************************************************************)
(* Aquifer, the subgraph: one maker's strategies on Aqua, the events Aqua  *)
(* and the router emit, and the index built from them, event by event.     *)
(*                                                                         *)
(* Aqua's mapping cannot be enumerated, so the index is the only place     *)
(* that knows what a maker has promised in total and which siblings a      *)
(* capped strategy fails to declare.  The node feeds handlers one log at   *)
(* a time in chain order; the index may lag behind the chain.  Makers      *)
(* share nothing but the protocol's counters, so one maker is modelled.    *)
(***************************************************************************)
EXTENDS Integers, Sequences, FiniteSets, FiniteSetsExt, SequencesExt

CONSTANTS
    Strategies,       \* Strategy ids, app-hash
    Tokens,
    AppOf, HashOf,    \* the two halves of an id
    UsesEncumbrance,  \* does the program hold opcode 35
    DeclaredSiblings, \* the hashes that program lists
    ShipLists,        \* token lists a strategy may be shipped with
    ReshipsLive,      \* may a hash be shipped again, for other tokens, while live
    Amounts,          \* amounts of a push, a pull or an observed backing
    MaxBalance,       \* bound on an Aqua balance
    MaxLag,           \* bound on the events not yet indexed
    Bps, MaxI32       \* 10000 and 2^31 - 1, scaled down for checking

None == -1
\* The marker Aqua keeps per token: an eight-bit count of the strategy's tokens,
\* or one of these.
NeverShipped == 0
Docked == 255

ASSUME AquiferAssumption ==
    /\ IsFiniteSet(Strategies)
    /\ MaxBalance \in Nat /\ Amounts \subseteq 1 .. MaxBalance
    /\ UsesEncumbrance \in [Strategies -> BOOLEAN]
    /\ ReshipsLive \in BOOLEAN
    /\ MaxLag \in Nat /\ Bps \in Nat /\ MaxI32 \in Nat
    /\ \A s, r \in Strategies : AppOf[s] = AppOf[r] /\ HashOf[s] = HashOf[r] => s = r
    /\ \A s \in Strategies : \A list \in ShipLists[s] :
          list \in Seq(Tokens) /\ Len(list) \in 1 .. Docked - 1 /\ IsInjective(list)

VARIABLES
    aqua,         \* Aqua's books: per strategy and token, marker and balance
    log,          \* events emitted and not yet handled, oldest first
    strategy,     \* the Strategy entities
    remaining,    \* the Commitment entities: remaining, or None
    position,     \* the MakerTokenPosition entities
    active,       \* Maker.activeStrategies, and Protocol.strategiesActive with it
    halted        \* a handler aborted: the node stops indexing

index == <<strategy, remaining, position, active, halted>>
vars == <<aqua, log, index>>

Hashes == {HashOf[s] : s \in Strategies}

-----------------------------------------------------------------------------
(***************************************************************************)
(* The chain.  ship writes the books of a list of tokens never written     *)
(* before; dock closes exactly such a list; fills push and pull.           *)
(***************************************************************************)
IsLive(s, t) == aqua[s][t].count \notin {NeverShipped, Docked}
LiveBook(s) == \E t \in Tokens : IsLive(s, t)

Emit(events) ==
    /\ Len(log) + Len(events) <= MaxLag
    /\ log' = log \o events

\* ship emits Shipped, then Pushed for each token.
Ship(s, list, amount) ==
    /\ \A t \in ToSet(list) : aqua[s][t].count = NeverShipped
    /\ LiveBook(s) => ReshipsLive
    /\ Emit(<<[kind |-> "Shipped", s |-> s]>>
            \o [i \in DOMAIN list |->
                  [kind |-> "Pushed", s |-> s, t |-> list[i], amount |-> amount]])
    /\ aqua' = [aqua EXCEPT ![s] =
                  [t \in Tokens |-> IF t \in ToSet(list)
                                    THEN [count |-> Len(list), balance |-> amount]
                                    ELSE aqua[s][t]]]
    /\ UNCHANGED index

Dock(s, list) ==
    /\ \A t \in ToSet(list) : aqua[s][t].count = Len(list)
    /\ Emit(<<[kind |-> "Docked", s |-> s]>>)
    /\ aqua' = [aqua EXCEPT ![s] =
                  [t \in Tokens |-> IF t \in ToSet(list)
                                    THEN [count |-> Docked, balance |-> 0]
                                    ELSE aqua[s][t]]]
    /\ UNCHANGED index

Push(s, t, amount) ==
    /\ IsLive(s, t)
    /\ aqua[s][t].balance + amount <= MaxBalance
    /\ Emit(<<[kind |-> "Pushed", s |-> s, t |-> t, amount |-> amount]>>)
    /\ aqua' = [aqua EXCEPT ![s][t].balance = @ + amount]
    /\ UNCHANGED index

Promised(t) == MapThenSumSet(LAMBDA s : aqua[s][t].balance, Strategies)

\* A pull; a capped strategy first reports the backing it found.  due is not
\* in the event: it is what Aqua's books promised of the token at that moment.
Pull(s, t, amount, backing) ==
    /\ IsLive(s, t)
    /\ amount <= aqua[s][t].balance
    /\ LET pulled == [kind |-> "Pulled", s |-> s, t |-> t, amount |-> amount]
           applied == [kind |-> "EncumbranceApplied", s |-> s, t |-> t,
                       backing |-> backing, due |-> Promised(t)]
       IN Emit(IF UsesEncumbrance[s] THEN <<applied, pulled>> ELSE <<pulled>>)
    /\ aqua' = [aqua EXCEPT ![s][t].balance = @ - amount]
    /\ UNCHANGED index

-----------------------------------------------------------------------------
(***************************************************************************)
(* recomputeStrategyCompleteness on the row of s, live being the           *)
(* liveStrategies of every position as stored when it runs.                *)
(***************************************************************************)
\* Looks only at the first token of the strategy (fault).
SiblingsOf_FirstToken(s, row, live) ==
    (UNION {live[t] : t \in ToSet(SubSeq(row.tokens, 1, 1))}) \ {HashOf[s]}

SiblingsOf(s, row, live) ==
    (UNION {live[t] : t \in ToSet(row.tokens)}) \ {HashOf[s]}

RecomputedRow(s, row, live) == [row EXCEPT !.siblings = SiblingsOf(s, row, live)]

Missing(s) ==
    IF UsesEncumbrance[s] THEN strategy[s].siblings \ DeclaredSiblings[s] ELSE {}

SiblingListComplete(s) == Missing(s) = {}

(***************************************************************************)
(* handleShipped and handleDocked go through the tokens of s one by one,   *)
(* passing over those it does not hold: take s off the token's live list,  *)
(* then recompute every strategy left on it, each at its first appearance  *)
(* only, when the later tokens still list s.  Siblings are looked up under *)
(* the app of the event.                                                   *)
(***************************************************************************)
LiveAfter(s, tokens) ==
    [t \in Tokens |-> IF t \in tokens THEN position[t].live \ {HashOf[s]} ELSE position[t].live]

AppearsAt(x, s, held) ==
    {i \in DOMAIN strategy[s].tokens :
        LET t == strategy[s].tokens[i]
        IN t \in held /\ HashOf[x] \in position[t].live \ {HashOf[s]}}

Recomputed(s, held) ==
    [x \in Strategies |->
        LET at == AppearsAt(x, s, held)
            passed == {strategy[s].tokens[i] : i \in 1 .. Min(at)}
        IN IF at # {} /\ AppOf[x] = AppOf[s] /\ strategy[x].active
           THEN RecomputedRow(x, strategy[x], LiveAfter(s, held \cap passed))
           ELSE strategy[x]]

Committed(s, t) == IF remaining[s][t] = None THEN 0 ELSE remaining[s][t]

AtLeastZero(n) == IF n > 0 THEN n ELSE 0

\* Forgets to give back what was committed (fault).
Released_Kept(t, amount) ==
    [position[t] EXCEPT !.activeStrategies = AtLeastZero(@ - 1)]

Released(t, amount) ==
    [position[t] EXCEPT !.totalCommitted = AtLeastZero(@ - amount),
                        !.activeStrategies = AtLeastZero(@ - 1)]

\* Leaves the strategy on the live lists (fault).
Unwound_Listed(s, held) ==
    [t \in Tokens |-> IF t \in held THEN Released(t, remaining[s][t]) ELSE position[t]]

\* The positions once s is off the live lists of the tokens it held.
Unwound(s, held) ==
    [t \in Tokens |-> IF t \in held THEN [Released(t, remaining[s][t]) EXCEPT !.live = @ \ {HashOf[s]}]
                      ELSE position[t]]

\* A shipped strategy: if the row exists, the commitments it still claims are
\* released first.
HandleShipped(s) ==
    LET stale == ToSet(strategy[s].tokens)
        claimed == {t \in stale : remaining[s][t] # None /\ remaining[s][t] > 0}
    IN /\ position' = Unwound(s, claimed)
       /\ strategy' = [Recomputed(s, claimed) EXCEPT ![s] =
                         [known |-> TRUE, active |-> TRUE, tokens |-> <<>>, siblings |-> {}]]
       /\ remaining' = [remaining EXCEPT ![s] =
                          [t \in Tokens |-> IF t \in stale THEN None ELSE @[t]]]
       /\ active' = active + 1
       /\ UNCHANGED halted

HandleDocked(s) ==
    IF ~ strategy[s].known THEN UNCHANGED index
    ELSE LET held == {t \in ToSet(strategy[s].tokens) : remaining[s][t] # None}
         IN /\ position' = Unwound(s, held)
            /\ strategy' = [Recomputed(s, held) EXCEPT
                              ![s] = [@ EXCEPT !.active = FALSE, !.siblings = {}]]
            /\ remaining' = [remaining EXCEPT ![s] =
                               [t \in Tokens |-> IF t \in held THEN 0 ELSE @[t]]]
            /\ active' = AtLeastZero(active - 1)
            /\ UNCHANGED halted

\* Takes a commitment drained to zero for one never made (fault).
FirstPush_Drained(s, t) == remaining[s][t] \in {None, 0}

FirstPush(s, t) == remaining[s][t] = None

\* The first push of a token puts the strategy on its live list, after which
\* everyone on the list is recomputed.
HandlePushed(s, t, amount) ==
    IF ~ strategy[s].known THEN UNCHANGED index
    ELSE LET first == FirstPush(s, t)
             live == IF first THEN position[t].live \cup {HashOf[s]} ELSE position[t].live
             listed == [strategy EXCEPT ![s].tokens = IF first THEN Append(@, t) ELSE @]
             seen == [k \in Tokens |-> IF k = t THEN live ELSE position[k].live]
         IN /\ remaining' = [remaining EXCEPT ![s][t] = Committed(s, t) + amount]
            /\ position' = [position EXCEPT
                              ![t].totalCommitted = @ + amount,
                              ![t].activeStrategies = IF first THEN @ + 1 ELSE @,
                              ![t].live = live]
            /\ strategy' =
                 [x \in Strategies |->
                    IF first /\ HashOf[x] \in live /\ AppOf[x] = AppOf[s] /\ listed[x].active
                    THEN RecomputedRow(x, listed[x], seen)
                    ELSE listed[x]]
            /\ UNCHANGED <<active, halted>>

HandlePulled(s, t, amount) ==
    IF remaining[s][t] = None THEN UNCHANGED index
    ELSE /\ remaining' = [remaining EXCEPT ![s][t] = AtLeastZero(@ - amount)]
         /\ position' = [position EXCEPT ![t].totalCommitted = AtLeastZero(@ - amount)]
         /\ UNCHANGED <<strategy, active, halted>>

\* toI32 aborts the handler when the quotient does not fit.
HandleEncumbranceApplied(t, backing, due) ==
    LET util == (position[t].totalCommitted * Bps) \div backing IN
    /\ IF util > MaxI32
       THEN halted' = TRUE /\ UNCHANGED position
       ELSE /\ position' = [position EXCEPT ![t].observed =
                              [backing |-> backing, util |-> util, due |-> due]]
            /\ UNCHANGED halted
    /\ UNCHANGED <<strategy, remaining, active>>

Index ==
    /\ log # <<>> /\ ~ halted
    /\ log' = Tail(log)
    /\ UNCHANGED aqua
    /\ LET e == Head(log) IN
       \/ e.kind = "Shipped" /\ HandleShipped(e.s)
       \/ e.kind = "Docked" /\ HandleDocked(e.s)
       \/ e.kind = "Pushed" /\ HandlePushed(e.s, e.t, e.amount)
       \/ e.kind = "Pulled" /\ HandlePulled(e.s, e.t, e.amount)
       \/ e.kind = "EncumbranceApplied" /\ HandleEncumbranceApplied(e.t, e.backing, e.due)

-----------------------------------------------------------------------------
NeverObserved == [backing |-> None, util |-> None, due |-> None]

Init ==
    /\ aqua = [s \in Strategies |-> [t \in Tokens |-> [count |-> NeverShipped, balance |-> 0]]]
    /\ log = <<>>
    /\ strategy = [s \in Strategies |->
                     [known |-> FALSE, active |-> FALSE, tokens |-> <<>>, siblings |-> {}]]
    /\ remaining = [s \in Strategies |-> [t \in Tokens |-> None]]
    /\ position = [t \in Tokens |-> [totalCommitted |-> 0, activeStrategies |-> 0,
                                     live |-> {}, observed |-> NeverObserved]]
    /\ active = 0
    /\ halted = FALSE

Next ==
    \/ \E s \in Strategies : \E list \in ShipLists[s] :
          \/ \E amount \in Amounts : Ship(s, list, amount)
          \/ Dock(s, list)
    \/ \E s \in Strategies, t \in Tokens, amount \in Amounts :
          \/ Push(s, t, amount)
          \/ \E backing \in Amounts : Pull(s, t, amount, backing)
    \/ Index

Spec == Init /\ [][Next]_vars

-----------------------------------------------------------------------------
TypeOK ==
    /\ \A s \in Strategies, t \in Tokens :
          /\ aqua[s][t].balance \in 0 .. MaxBalance
          /\ remaining[s][t] \in {None} \cup 0 .. MaxBalance
          /\ strategy[s].known \in BOOLEAN /\ strategy[s].active \in BOOLEAN
          /\ IsInjective(strategy[s].tokens)
          /\ strategy[s].siblings \subseteq Hashes
    /\ \A t \in Tokens :
          /\ position[t].totalCommitted \in Nat /\ position[t].activeStrategies \in Nat
          /\ position[t].live \subseteq Hashes
    /\ active \in Nat /\ halted \in BOOLEAN
    /\ Len(log) <= MaxLag

CaughtUp == log = <<>> /\ ~ halted

(***************************************************************************)
(* The number the index exists for: once it has caught up, the commitment  *)
(* of each strategy, and the total per token, are what Aqua's books hold,  *)
(* through ships, fills, docks and rows reused by a later ship.            *)
(***************************************************************************)
BooksAgree ==
    CaughtUp => \A t \in Tokens :
        /\ \A s \in Strategies : Committed(s, t) = aqua[s][t].balance
        /\ position[t].totalCommitted = Promised(t)

(***************************************************************************)
(* The counters are counts: of the strategies with a live book, and per    *)
(* token of those that hold it.  Flooring at zero must never be what keeps *)
(* them right.                                                             *)
(***************************************************************************)
CountersAgree ==
    CaughtUp =>
        /\ active = Cardinality({s \in Strategies : LiveBook(s)})
        /\ \A t \in Tokens :
              position[t].activeStrategies = Cardinality({s \in Strategies : IsLive(s, t)})

\* Every other strategy that is live, by the index's own books, on a token of s.
LiveSiblings(s) ==
    {HashOf[x] : x \in {x \in Strategies \ {s} :
        /\ strategy[x].active
        /\ ToSet(strategy[x].tokens) \cap ToSet(strategy[s].tokens) # {}}}

(***************************************************************************)
(* A capped strategy shown as declaring all its siblings does: nobody is   *)
(* told a list is complete while an undeclared sibling draws on the wallet.*)
(***************************************************************************)
CompleteIsComplete ==
    \A s \in Strategies :
        strategy[s].active /\ UsesEncumbrance[s] /\ SiblingListComplete(s)
            => LiveSiblings(s) \subseteq DeclaredSiblings[s]

(***************************************************************************)
(* The plan's definition, missingSiblings = L \ declaredSiblings with L    *)
(* the live strategies that hold a token of s, "recompute for every        *)
(* affected strategy on Shipped and Docked".                               *)
(***************************************************************************)
MissingIsCurrent ==
    \A s \in Strategies :
        strategy[s].active /\ UsesEncumbrance[s]
            => Missing(s) = LiveSiblings(s) \ DeclaredSiblings[s]

(***************************************************************************)
(* The utilisation shown is a snapshot of one instant, although the index  *)
(* divides its own total, when it gets to the event, by the backing found  *)
(* on chain when it was emitted.                                           *)
(***************************************************************************)
UtilIsOneInstant ==
    \A t \in Tokens :
        LET o == position[t].observed IN
        o # NeverObserved => o.util = (o.due * Bps) \div o.backing

(***************************************************************************)
(* The index's totals and counters are those of the chain at the block it  *)
(* has reached, and its rows are well formed (aqua.ts:207-395).            *)
(***************************************************************************)
BooksInv == TypeOK /\ BooksAgree /\ CountersAgree

(***************************************************************************)
(* What a strategy's row says of its siblings is true of the live          *)
(* strategies now, not of those at its own last event (aqua.ts:87-122).    *)
(***************************************************************************)
SiblingsAreCurrent == CompleteIsComplete /\ MissingIsCurrent
=============================================================================
