--------------------------- MODULE SwapDeskProofs ---------------------------
(***************************************************************************)
(* What the swap page shows, asks the wallet for and reports, for any      *)
(* number of chains, pairs, amounts, offers, loads and swaps.              *)
(***************************************************************************)
EXTENDS SwapDesk, TLAPS

Route == [key : Key \cup {NoKey}, hook : Hooks, out : Nat, gen : 0 .. MaxGen]
Quote == [key : Key, hook : Hooks, out : Nat]
Stage == {"none", "check", "approve", "reread", "ask", "receipt", "readback", "done", "ended", "refused"}
Run == [pc : Stage, key : Key \cup {NoKey}, route : Route, plan : Route]
Modal == {"closed", "counting", "handed"}
Phase == {"idle", "approving", "swapping", "done"}

\* No load waits for its timer, and none was made for the selection of a swap.
Settling == timer = NoKey /\ \A r \in Runs : runs[r].pc # "done"

\* The timer is set for what is selected; the cache answers what it is asked; the
\* newest of the loads is for what is selected, unless the timer will start another.
PageOK ==
    /\ TypeOK
    /\ timer \in {NoKey, sel}
    /\ cached \in [Key -> {NoRoute} \cup Quote]
    /\ \A k \in Key : cached[k] = NoRoute \/ (cached[k] \in Quote /\ cached[k].key = k)
    /\ \A l \in loads : l.gen <= gen
    /\ Settling => \A l \in loads : l.gen = gen => l.key = sel
    /\ SettledIsSelected

\* The plan of a swap is the one it read again, for its own pool, and good enough.
Kept(r) ==
    /\ runs[r].plan.key = [runs[r].key EXCEPT !.amount = runs[r].plan.key.amount]
    /\ runs[r].plan.hook = runs[r].route.hook
    /\ runs[r].plan.out >= (runs[r].route.out * 99) \div 100

RunsOK ==
    /\ runs \in [Runs -> Run]
    /\ \A r \in Runs : runs[r].pc = "ask" => Kept(r)
    /\ \A a \in asked : a.run \in Runs /\ runs[a.run].pc # "none"
    /\ SignsWhatItReread

IInv == PageOK /\ RunsOK

\* A swap that is done stays so.
DoneStays == \A r \in Runs : runs[r].pc = "done" => runs'[r].pc = "done"

-----------------------------------------------------------------------------
LEMMA PageTyped ==
    TypeOK <=>
      /\ sel \in Key /\ moves \in 0 .. MaxMoves /\ gen \in 0 .. MaxGen
      /\ shown \in Route
      /\ timer \in Key \cup {NoKey} /\ loads \subseteq [gen : 1 .. MaxGen, key : Key]
      /\ busy \in BOOLEAN /\ error \in BOOLEAN /\ better \in BOOLEAN
      /\ modal \in Modal /\ phase \in Phase
BY DEF TypeOK, Route, Modal, Phase

\* The same of the next state.
LEMMA NextTyped ==
    ASSUME sel' \in Key, moves' \in 0 .. MaxMoves, gen' \in 0 .. MaxGen, shown' \in Route,
           timer' \in Key \cup {NoKey}, loads' \subseteq [gen : 1 .. MaxGen, key : Key],
           busy' \in BOOLEAN, error' \in BOOLEAN, better' \in BOOLEAN, modal' \in Modal, phase' \in Phase
    PROVE  TypeOK'
BY DEF TypeOK, Route, Modal, Phase

LEMMA KeysAreReal == NoKey \notin Key /\ \A k \in Key : k.chain \in Chains /\ k # NoKey
BY DeskAssumption DEF Key, NoKey

LEMMA NothingIsARoute == NoRoute \in Route
<1>1. "configured" \in Hooks
  BY DEF Hooks
<1>2. 0 \in 0 .. MaxGen /\ 0 \in Nat /\ NoKey \in Key \cup {NoKey}
  BY DeskAssumption
<1> QED
  BY <1>1, <1>2 DEF NoRoute, Route

LEMMA PlansAreQuotes == ASSUME NEW plan \in Plan PROVE plan \in Quote
BY DeskAssumption DEF Plan, Quote

\* What is shown of a quote is the quote, with the generation that brought it.
LEMMA ShownTyped ==
    ASSUME NEW q \in Quote, NEW g \in 0 .. MaxGen
    PROVE  Shown(q, g) \in Route /\ Shown(q, g).key = q.key /\ Shown(q, g).hook = q.hook /\ Shown(q, g).out = q.out
BY DEF Shown, Quote, Route

LEMMA ModalTyped == ASSUME NEW p, Rendered(p) PROVE modal' \in Modal
BY DEF Rendered, Modal

LEMMA InitInv == Init => IInv
<1> SUFFICES ASSUME Init PROVE IInv
  OBVIOUS
<1> USE DeskAssumption DEF Init
<1>1. sel \in Key
  BY DEF Key
<1>2. TypeOK
  <2>1. 0 \in 0 .. MaxMoves /\ 0 \in 0 .. MaxGen
    OBVIOUS
  <2>2. shown \in Route /\ timer \in Key \cup {NoKey}
    BY <1>1, NothingIsARoute
  <2>3. modal \in Modal /\ phase \in Phase
    BY DEF Modal, Phase
  <2>4. sel \in Key /\ moves \in 0 .. MaxMoves /\ gen \in 0 .. MaxGen
        /\ busy \in BOOLEAN /\ error \in BOOLEAN /\ better \in BOOLEAN
        /\ loads \subseteq [gen : 1 .. MaxGen, key : Key]
    BY <1>1, <2>1
  <2> QED
    BY <2>2, <2>3, <2>4, PageTyped
<1>3. SettledIsSelected
  BY DEF SettledIsSelected
<1>4. PageOK
  BY <1>1, <1>2, <1>3 DEF PageOK
<1>5. NotRun \in Run
  BY NothingIsARoute DEF NotRun, Run, Stage
<1>6. RunsOK
  BY <1>5 DEF RunsOK, NotRun, SignsWhatItReread
<1> QED
  BY <1>4, <1>6 DEF IInv

-----------------------------------------------------------------------------
(* The swaps.                                                               *)

LEMMA RunTyped == ASSUME RunsOK, NEW r \in Runs PROVE runs \in [Runs -> Run] /\ runs[r] \in Run
BY DEF RunsOK

LEMMA GotoKeeps ==
    ASSUME RunsOK, NEW r \in Runs, NEW p \in Stage \ {"none", "ask"}, Goto(r, p),
           runs[r].pc \notin {"none", "done"}, asked' = asked
    PROVE  RunsOK' /\ DoneStays
<1>1. runs' = [runs EXCEPT ![r].pc = p] /\ runs \in [Runs -> Run]
  BY DEF Goto, RunsOK
<1>2. /\ runs' \in [Runs -> Run] /\ runs'[r].pc = p
      /\ \A q \in Runs : /\ runs'[q].key = runs[q].key /\ runs'[q].route = runs[q].route /\ runs'[q].plan = runs[q].plan
                         /\ q # r => runs'[q] = runs[q]
  BY <1>1 DEF Run
<1>3. \A q \in Runs : runs'[q].pc = "ask" => Kept(q)'
  BY <1>2 DEF RunsOK, Kept
<1>4. \A a \in asked' : a.run \in Runs /\ runs'[a.run].pc # "none"
  BY <1>2 DEF RunsOK
<1>5. SignsWhatItReread'
  BY <1>2 DEF RunsOK, SignsWhatItReread
<1> QED
  BY <1>2, <1>3, <1>4, <1>5 DEF RunsOK, DoneStays

LEMMA RunsRest ==
    ASSUME RunsOK, runs' = runs, asked' = asked PROVE RunsOK' /\ DoneStays
BY DEF RunsOK, Kept, SignsWhatItReread, DoneStays

LEMMA BeginKeeps ==
    ASSUME IInv, NEW r \in Runs, Begin(r) PROVE RunsOK' /\ DoneStays
<1>1. runs[r].pc = "none" /\ asked' = asked
  BY DEF Begin
<1>2. RunsOK /\ runs \in [Runs -> Run] /\ sel \in Key /\ shown \in Route
  BY PageTyped DEF IInv, RunsOK, PageOK
<1>3. CASE runs' = runs
  BY <1>1, <1>2, <1>3, RunsRest
<1>4. CASE runs' = [runs EXCEPT ![r] = [pc |-> "check", key |-> sel, route |-> shown, plan |-> NoRoute]]
  <2>1. runs' \in [Runs -> Run] /\ runs'[r].pc = "check" /\ \A q \in Runs : q # r => runs'[q] = runs[q]
    BY <1>2, <1>4, NothingIsARoute DEF Run, Stage
  <2>2. \A q \in Runs : runs'[q].pc = "ask" => Kept(q)'
    BY <1>2, <2>1 DEF RunsOK, Kept
  <2>3. \A a \in asked' : a.run \in Runs /\ a.run # r /\ runs'[a.run] = runs[a.run]
    BY <1>1, <1>2, <2>1 DEF RunsOK
  <2>4. SignsWhatItReread'
    BY <1>1, <1>2, <2>3 DEF RunsOK, SignsWhatItReread
  <2> QED
    BY <1>1, <1>2, <2>1, <2>2, <2>3, <2>4 DEF RunsOK, DoneStays
<1> QED
  BY <1>3, <1>4 DEF Begin

LEMMA RequoteKeeps ==
    ASSUME IInv, NEW r \in Runs, NEW plan \in Plan, Requote(r, plan) PROVE RunsOK' /\ DoneStays
<1>1. RunsOK /\ runs \in [Runs -> Run] /\ runs[r] \in Run /\ asked' = asked /\ runs[r].pc = "reread"
  BY DEF IInv, RunsOK, Requote, Rest
<1>2. CASE Goto(r, "ended") \/ Goto(r, "refused")
  BY <1>1, <1>2, GotoKeeps DEF Stage
<1>3. CASE Acceptable(r, plan) /\ runs' = [runs EXCEPT ![r].pc = "ask", ![r].plan = Shown(plan, 0)]
  <2>1. plan \in Quote /\ plan.key = Reread(r)
    BY PlansAreQuotes DEF Requote
  <2>2. 0 \in 0 .. MaxGen
    BY DeskAssumption
  <2>3. /\ Shown(plan, 0) \in Route /\ Shown(plan, 0).key = plan.key
        /\ Shown(plan, 0).hook = plan.hook /\ Shown(plan, 0).out = plan.out
    BY <2>1, <2>2, ShownTyped
  <2>4. /\ runs' \in [Runs -> Run] /\ runs'[r].pc = "ask" /\ runs'[r].plan = Shown(plan, 0)
        /\ \A q \in Runs : /\ runs'[q].key = runs[q].key /\ runs'[q].route = runs[q].route
                           /\ q # r => runs'[q] = runs[q]
    BY <1>1, <1>3, <2>3 DEF Run, Stage
  <2>5. plan.key = [runs[r].key EXCEPT !.amount = plan.key.amount]
    BY <1>1, <2>1 DEF Reread, Run, Key, NoKey
  <2>6. Kept(r)'
    BY <1>3, <2>3, <2>4, <2>5 DEF Kept, Acceptable
  <2>7. \A q \in Runs : runs'[q].pc = "ask" => Kept(q)'
    BY <1>1, <2>4, <2>6 DEF RunsOK, Kept
  <2>8. SignsWhatItReread' /\ \A a \in asked' : a.run \in Runs /\ runs'[a.run].pc # "none"
    BY <1>1, <2>4 DEF RunsOK, SignsWhatItReread
  <2> QED
    BY <1>1, <2>4, <2>7, <2>8 DEF RunsOK, DoneStays
<1> QED
  BY <1>2, <1>3 DEF Requote

\* Taking one per cent off preserves the order.
LEMMA MarginMonotone ==
    ASSUME NEW x \in Nat, NEW y \in Nat, x >= y PROVE (x * 99) \div 100 >= (y * 99) \div 100
OBVIOUS

LEMMA AskKeeps ==
    ASSUME IInv, NEW r \in Runs, Ask(r) PROVE RunsOK' /\ DoneStays
<1> DEFINE new == [run |-> r, key |-> runs[r].key, pool |-> runs[r].route.hook,
                   plan |-> runs[r].plan, floor |-> (runs[r].plan.out * 99) \div 100]
<1>1. RunsOK /\ runs \in [Runs -> Run] /\ runs[r] \in Run /\ asked' = asked \cup {new} /\ runs[r].pc = "ask" /\ Goto(r, "receipt")
  BY DEF IInv, RunsOK, Ask
<1>2. Kept(r)
  BY <1>1 DEF RunsOK
<1>3. /\ runs' \in [Runs -> Run] /\ runs'[r].pc = "receipt"
      /\ \A q \in Runs : /\ runs'[q].key = runs[q].key /\ runs'[q].route = runs[q].route /\ runs'[q].plan = runs[q].plan
                         /\ q # r => runs'[q] = runs[q]
  BY <1>1 DEF Goto, Run, Stage
<1>4. \A q \in Runs : runs'[q].pc = "ask" => Kept(q)'
  BY <1>1, <1>3 DEF RunsOK, Kept
<1>5. \A a \in asked' : a.run \in Runs /\ runs'[a.run].pc # "none"
  BY <1>1, <1>3 DEF RunsOK
<1>6. /\ new.plan.key = [new.key EXCEPT !.amount = new.plan.key.amount]
      /\ new.plan.hook = new.pool
  BY <1>2 DEF Kept
<1>7. new.floor >= (((runs'[new.run].route.out * 99) \div 100) * 99) \div 100
  <2>1. runs[r].plan.out \in Nat /\ runs[r].route.out \in Nat
    BY <1>1 DEF Run, Route
  <2>2. (runs[r].route.out * 99) \div 100 \in Nat
    BY <2>1
  <2>3. (runs[r].plan.out * 99) \div 100 >= (((runs[r].route.out * 99) \div 100) * 99) \div 100
    BY <1>2, <2>1, <2>2, MarginMonotone DEF Kept
  <2> QED
    BY <1>3, <2>3
<1>8. ASSUME NEW a \in asked
      PROVE  /\ a.plan.key = [a.key EXCEPT !.amount = a.plan.key.amount]
             /\ a.plan.hook = a.pool
             /\ a.floor >= (((runs'[a.run].route.out * 99) \div 100) * 99) \div 100
  <2>1. a.run \in Runs /\ runs'[a.run].route = runs[a.run].route
    BY <1>1, <1>3 DEF RunsOK
  <2> QED
    BY <1>1, <2>1 DEF RunsOK, SignsWhatItReread
<1> HIDE DEF new
<1>9. SignsWhatItReread'
  BY <1>1, <1>6, <1>7, <1>8 DEF SignsWhatItReread
<1> QED
  BY <1>1, <1>3, <1>4, <1>5, <1>9 DEF RunsOK, DoneStays

LEMMA RunsKeep ==
    ASSUME IInv, Next PROVE RunsOK' /\ DoneStays
<1>1. RunsOK
  BY DEF IInv
<1>2. CASE UNCHANGED <<runs, asked>>
  BY <1>1, <1>2, RunsRest
<1>3. ASSUME NEW r \in Runs, Continue(r) \/ Countdown(r) PROVE RunsOK' /\ DoneStays
  BY <1>3, BeginKeeps DEF Continue, Countdown
<1>4. ASSUME NEW r \in Runs, Check(r) \/ Approved(r) \/ Receipt(r) \/ Done(r) \/ Thrown(r)
      PROVE RunsOK' /\ DoneStays
  <2>1. asked' = asked /\ runs[r].pc \in Stage \ {"none", "done"}
    BY <1>4 DEF Check, Approved, Receipt, Done, Thrown, Rest, Stage
  <2>2. PICK p \in Stage \ {"none", "ask"} : Goto(r, p)
    BY <1>4 DEF Check, Approved, Receipt, Done, Thrown, Stage
  <2> QED
    BY <1>1, <2>1, <2>2, GotoKeeps
<1>5. ASSUME NEW r \in Runs, Ask(r) PROVE RunsOK' /\ DoneStays
  BY <1>5, AskKeeps
<1>6. ASSUME NEW r \in Runs, NEW plan \in Plan, Requote(r, plan) PROVE RunsOK' /\ DoneStays
  BY <1>6, RequoteKeeps
<1>7. CASE User
  <2>1. CASE \E r \in Runs : Continue(r)
    BY <2>1, <1>3
  <2>2. CASE ~ \E r \in Runs : Continue(r)
    <3>1. UNCHANGED <<runs, asked>>
      BY <1>7, <2>2 DEF User, SwitchChain, SwitchInModal, SwitchTo, PickPair, Retype, Moved, Press, Close
    <3> QED
      BY <1>2, <3>1
  <2> QED
    BY <2>1, <2>2
<1>8. CASE Network
  <2>1. UNCHANGED <<runs, asked>>
    BY <1>8 DEF Network, LateAnswer, Answer, Refusal, LoadFails, Landed, Prewarmed, Expire, OtherNews
  <2> QED
    BY <1>2, <2>1
<1>9. CASE Script
  <2>1. CASE TimerFires
    BY <2>1, <1>2 DEF TimerFires
  <2> QED
    BY <1>3, <1>4, <1>5, <1>6, <1>9, <2>1 DEF Script
<1> QED
  BY <1>7, <1>8, <1>9 DEF Next

-----------------------------------------------------------------------------
(* The page.                                                                *)

\* What a step that leaves the page alone may change.
LEMMA Steady ==
    ASSUME PageOK, UNCHANGED page, better' \in BOOLEAN, modal' \in Modal, phase' \in Phase, DoneStays
    PROVE  PageOK'
<1>1. /\ sel' = sel /\ moves' = moves /\ shown' = shown /\ gen' = gen /\ timer' = timer
      /\ loads' = loads /\ busy' = busy /\ error' = error /\ cached' = cached
  BY DEF page
<1>2. TypeOK'
  BY <1>1, PageTyped, NextTyped DEF PageOK
<1>3. Settling' => Settling
  BY <1>1 DEF Settling, DoneStays
<1>4. SettledIsSelected'
  BY <1>1 DEF PageOK, SettledIsSelected, DoneStays
<1> QED
  BY <1>1, <1>2, <1>3, <1>4 DEF PageOK

\* Another selection: the timer is set.
LEMMA SelectKeeps ==
    ASSUME PageOK, NEW k \in Key, Moved(k), timer' = k, shown' \in {shown, NoRoute}, error' \in BOOLEAN,
           modal' \in Modal, phase' \in Phase
    PROVE  PageOK'
<1>1. /\ sel' = k /\ moves' = moves + 1 /\ moves < MaxMoves /\ gen' = gen /\ loads' = loads
      /\ busy' = busy /\ cached' = cached /\ better' = better
  BY DEF Moved
<1>2. shown' \in Route /\ moves' \in 0 .. MaxMoves
  BY <1>1, PageTyped, NothingIsARoute, DeskAssumption DEF PageOK
<1>3. TypeOK'
  BY <1>1, <1>2, PageTyped, NextTyped DEF PageOK
<1>4. timer' # NoKey
  BY KeysAreReal
<1>5. ~ Settling' /\ SettledIsSelected'
  BY <1>4 DEF Settling, SettledIsSelected
<1> QED
  BY <1>1, <1>3, <1>5 DEF PageOK

\* A load, of the selection unless the timer is set or a swap is done.
LEMMA LoadKeeps ==
    ASSUME PageOK, NEW k \in Key, Load(k), UNCHANGED <<sel, moves>>, timer' \in {NoKey, sel},
           better' \in BOOLEAN, modal' \in Modal, phase' \in Phase,
           k = sel \/ \E r \in Runs : runs'[r].pc = "done"
    PROVE  PageOK'
<1>1. gen < MaxGen /\ gen' = gen + 1 /\ error' = FALSE /\ cached' = cached /\ sel' = sel /\ moves' = moves
  BY DEF Load
<1>2. gen \in 0 .. MaxGen /\ MaxGen \in Nat /\ sel \in Key /\ loads \subseteq [gen : 1 .. MaxGen, key : Key] /\ shown \in Route
  BY PageTyped, DeskAssumption DEF PageOK
<1>3. gen' \in 1 .. MaxGen /\ gen' \in 0 .. MaxGen
  BY <1>1, <1>2
<1>4. \/ shown' \in Route /\ shown'.key = k /\ busy' = FALSE /\ loads' = loads
      \/ shown' = shown /\ busy' = TRUE /\ loads' = loads \cup {[gen |-> gen', key |-> k]}
  <2>1. CASE cached[k] # NoRoute
    <3>1. cached[k] \in Quote /\ cached[k].key = k
      BY <2>1 DEF PageOK
    <3>2. shown' = Shown(cached[k], gen') /\ busy' = FALSE /\ loads' = loads
      BY <1>1, <2>1 DEF Load, Hit
    <3> QED
      BY <1>3, <3>1, <3>2, ShownTyped
  <2>2. CASE cached[k] = NoRoute
    BY <1>1, <2>2 DEF Load
  <2> QED
    BY <2>1, <2>2
<1>5. loads' \subseteq [gen : 1 .. MaxGen, key : Key] /\ shown' \in Route /\ busy' \in BOOLEAN
  <2>1. [gen |-> gen', key |-> k] \in [gen : 1 .. MaxGen, key : Key]
    BY <1>3
  <2>2. loads' \subseteq loads \cup {[gen |-> gen', key |-> k]}
    BY <1>4
  <2>3. loads' \subseteq [gen : 1 .. MaxGen, key : Key]
    BY <1>2, <2>1, <2>2
  <2> QED
    BY <1>2, <1>4, <2>3
<1>6. TypeOK'
  BY <1>1, <1>2, <1>3, <1>5, PageTyped, NextTyped DEF PageOK
<1>7. \A l \in loads' : l.gen <= gen' /\ (l.gen = gen' => l.key = k)
  <2>1. \A l \in loads : l.gen <= gen /\ l.gen \in Nat
    BY <1>2 DEF PageOK
  <2>2. \A l \in loads : l.gen <= gen' /\ l.gen # gen'
    BY <1>1, <1>2, <2>1
  <2> QED
    BY <1>3, <1>4, <2>2
<1>8. Settling' => k = sel
  BY DEF Settling
<1>9. SettledIsSelected'
  BY <1>1, <1>4 DEF SettledIsSelected
<1> QED
  BY <1>1, <1>6, <1>7, <1>8, <1>9 DEF PageOK

LEMMA TimerKeeps ==
    ASSUME PageOK, TimerFires PROVE PageOK'
<1>1. timer = sel /\ sel \in Key /\ better \in BOOLEAN /\ phase \in Phase
  BY PageTyped DEF PageOK, TimerFires
<1>2. Load(sel) /\ UNCHANGED <<sel, moves>> /\ timer' \in {NoKey, sel} /\ better' = better /\ phase' = phase
  BY <1>1 DEF TimerFires
<1>3. modal' \in Modal
  BY ModalTyped DEF TimerFires
<1> QED
  BY <1>1, <1>2, <1>3, LoadKeeps

\* An answer of any kind to a load.
LEMMA LandedKeeps ==
    ASSUME PageOK, NEW l \in loads,
           LateAnswer(l) \/ Refusal(l) \/ LoadFails(l) \/ \E plan \in Plan : Answer(l, plan)
    PROVE  PageOK'
<1>1. /\ loads' = loads \ {l} /\ sel' = sel /\ moves' = moves /\ gen' = gen /\ better' = better /\ phase' = phase
      /\ runs' = runs
  BY DEF LateAnswer, Refusal, LoadFails, Answer, Landed
<1>2. /\ sel \in Key /\ shown \in Route /\ l.gen \in 0 .. MaxGen /\ l.key \in Key /\ loads' \subseteq [gen : 1 .. MaxGen, key : Key]
      /\ timer \in {NoKey, sel}
  BY <1>1, PageTyped DEF PageOK
<1>3. modal' \in Modal
  BY ModalTyped, PageTyped DEF PageOK, LateAnswer, Refusal, LoadFails, Answer
<1>4. ASSUME shown' \in Route, timer' \in {timer, sel}, busy' \in BOOLEAN, error' \in BOOLEAN PROVE TypeOK'
  BY <1>1, <1>2, <1>3, <1>4, PageTyped, NextTyped DEF PageOK
<1>5. ASSUME timer' \in {timer, sel} PROVE Settling' => \A m \in loads' : m.gen = gen' => m.key = sel'
  BY <1>1, <1>2, <1>5, KeysAreReal DEF PageOK, Settling
<1>6. CASE LateAnswer(l)
  <2>1. UNCHANGED <<shown, timer, busy, error, cached>>
    BY <1>6 DEF LateAnswer
  <2>2. TypeOK'
    BY <1>2, <1>4, <2>1, PageTyped, NextTyped DEF PageOK
  <2>3. SettledIsSelected'
    BY <1>1, <2>1 DEF PageOK, SettledIsSelected
  <2> QED
    BY <1>1, <1>5, <2>1, <2>2, <2>3 DEF PageOK
<1>7. CASE \E plan \in Plan : Answer(l, plan)
  <2>1. PICK plan \in Plan : Answer(l, plan)
    BY <1>7
  <2>2. /\ l.gen = gen /\ plan.key = l.key /\ shown' = Shown(plan, l.gen) /\ timer' \in {timer, sel}
        /\ cached' = [cached EXCEPT ![l.key] = plan] /\ busy' = FALSE /\ error' = error
    BY <2>1 DEF Answer, IsNewest, Rearmed
  <2>3. plan \in Quote /\ shown' \in Route /\ shown'.key = l.key
    BY <1>2, <2>2, PlansAreQuotes, ShownTyped
  <2>4. TypeOK'
    BY <1>4, <2>2, <2>3, PageTyped, NextTyped DEF PageOK
  <2>5. /\ cached' \in [Key -> {NoRoute} \cup Quote]
        /\ \A k \in Key : cached'[k] = NoRoute \/ (cached'[k] \in Quote /\ cached'[k].key = k)
    BY <1>2, <2>2, <2>3 DEF PageOK
  <2>6. Settling' => l.key = sel
    BY <1>1, <1>2, <2>2, KeysAreReal DEF PageOK, Settling
  <2>7. SettledIsSelected'
    BY <1>1, <2>3, <2>6 DEF SettledIsSelected, Settling
  <2> QED
    BY <1>1, <1>2, <1>5, <2>2, <2>4, <2>5, <2>7 DEF PageOK
<1>8. CASE Refusal(l) \/ LoadFails(l)
  <2>1. /\ shown' \in {shown, NoRoute} /\ timer' \in {timer, sel} /\ cached' = cached /\ busy' = FALSE /\ error' = TRUE
    BY <1>8 DEF Refusal, LoadFails, Rearmed
  <2>2. shown' \in Route
    BY <1>2, <2>1, NothingIsARoute
  <2>3. TypeOK'
    BY <1>4, <2>1, <2>2
  <2>4. SettledIsSelected'
    BY <2>1 DEF SettledIsSelected
  <2> QED
    BY <1>1, <1>2, <1>5, <2>1, <2>3, <2>4 DEF PageOK
<1> QED
  BY <1>6, <1>7, <1>8

\* An entry of the cache ends, or a counterpart is read ahead.
LEMMA CacheKeeps ==
    ASSUME PageOK, (\E k \in Key : Expire(k)) \/ (\E plan \in Plan : Prewarmed(plan)) PROVE PageOK'
<1>1. UNCHANGED <<sel, moves, shown, gen, timer, loads, busy, error, modal, better, phase, runs, asked>>
  BY DEF Expire, Prewarmed
<1>2. /\ cached' \in [Key -> {NoRoute} \cup Quote]
      /\ \A k \in Key : cached'[k] = NoRoute \/ (cached'[k] \in Quote /\ cached'[k].key = k)
  <2>1. CASE \E k \in Key : Expire(k)
    BY <2>1 DEF Expire, PageOK
  <2>2. ASSUME NEW plan \in Plan, Prewarmed(plan)
        PROVE  /\ cached' \in [Key -> {NoRoute} \cup Quote]
               /\ \A k \in Key : cached'[k] = NoRoute \/ (cached'[k] \in Quote /\ cached'[k].key = k)
    <3>1. plan \in Quote /\ plan.key \in Key
      BY PlansAreQuotes DEF Quote
    <3>2. cached' = [cached EXCEPT ![plan.key] = plan]
      BY <2>2 DEF Prewarmed
    <3> QED
      BY <3>1, <3>2 DEF PageOK
  <2> QED
    BY <2>1, <2>2
<1>3. TypeOK'
  BY <1>1, PageTyped, NextTyped DEF PageOK
<1> QED
  BY <1>1, <1>2, <1>3 DEF PageOK, Settling, SettledIsSelected

LEMMA DoneKeeps ==
    ASSUME IInv, NEW r \in Runs, Done(r), DoneStays PROVE PageOK'
<1>1. PageOK /\ runs \in [Runs -> Run] /\ runs[r] \in Run /\ better' = better
  BY DEF IInv, RunsOK, Done, Rest
<1>2. CASE ~ StillHere(r)
  <2>1. UNCHANGED page /\ modal' = modal /\ phase' = phase
    BY <1>2 DEF Done, Quietly
  <2> QED
    BY <1>1, <2>1, Steady, PageTyped DEF PageOK
<1>3. CASE StillHere(r)
  <2>1. Report("done") /\ Load(runs[r].key) /\ UNCHANGED <<sel, moves>> /\ timer' = Rearmed(shown') /\ Goto(r, "done")
    BY <1>3 DEF Done
  <2>2. runs'[r].pc = "done"
    BY <1>1, <2>1 DEF Goto, Run
  <2>3. runs[r].key \in Key
    <3>1. runs[r].key.chain \in Chains
      BY <1>1, <1>3, PageTyped, KeysAreReal DEF StillHere, PageOK
    <3> QED
      BY <1>1, <3>1, DeskAssumption DEF Run, NoKey
  <2>4. timer' \in {NoKey, sel} /\ better' \in BOOLEAN
    BY <1>1, <2>1, PageTyped DEF Rearmed, PageOK
  <2>5. modal' \in Modal /\ phase' \in Phase
    BY <2>1, ModalTyped DEF Report, Phase
  <2> QED
    BY <1>1, <2>1, <2>2, <2>3, <2>4, <2>5, LoadKeeps
<1> QED
  BY <1>2, <1>3

\* A step of a swap that leaves the page alone, and says where it is or does not.
LEMMA QuietKeeps ==
    ASSUME PageOK, UNCHANGED <<page, better>>, DoneStays,
           (\E p \in Phase : Report(p)) \/ Quietly \/ (modal' \in Modal /\ phase' = phase)
    PROVE  PageOK'
<1>1. better' \in BOOLEAN /\ modal \in Modal /\ phase \in Phase
  BY PageTyped DEF PageOK
<1>2. modal' \in Modal /\ phase' \in Phase
  BY <1>1, ModalTyped DEF Report, Quietly
<1> QED
  BY <1>1, <1>2, Steady

LEMMA UserKeeps ==
    ASSUME IInv, User, DoneStays PROVE PageOK'
<1>1. PageOK /\ sel \in Key /\ error \in BOOLEAN /\ better \in BOOLEAN /\ phase \in Phase
  BY PageTyped DEF IInv, PageOK
<1>2. ASSUME NEW k \in Key, Moved(k), Reset(k), modal' \in Modal PROVE PageOK'
  BY <1>1, <1>2, SelectKeeps DEF Reset, Phase
<1>3. ASSUME NEW c \in Chains, SwitchChain(c) \/ SwitchInModal(c) PROVE PageOK'
  <2> DEFINE k == [chain |-> c, pair |-> DefaultPair, flipped |-> sel.flipped, amount |-> DefaultAmount]
  <2>1. k \in Key
    BY <1>1, DeskAssumption DEF Key
  <2>2. Moved(k) /\ Reset(k)
    BY <1>3 DEF SwitchChain, SwitchInModal, SwitchTo
  <2>3. modal' \in Modal
    BY <1>3, ModalTyped DEF SwitchChain, SwitchInModal, Modal
  <2> QED
    BY <1>2, <2>1, <2>2, <2>3
<1>4. ASSUME NEW p \in Pairs, PickPair(p) PROVE PageOK'
  <2> DEFINE k == [sel EXCEPT !.pair = p, !.flipped = FALSE, !.amount = DefaultAmount]
  <2>1. k \in Key
    BY <1>1, DeskAssumption DEF Key
  <2>2. Moved(k) /\ Reset(k) /\ modal' \in Modal
    BY <1>4, ModalTyped DEF PickPair
  <2> QED
    BY <1>2, <2>1, <2>2
<1>5. ASSUME NEW f \in BOOLEAN, NEW a \in Amounts, Retype(f, a) PROVE PageOK'
  <2> DEFINE k == [sel EXCEPT !.flipped = f, !.amount = a]
  <2>1. k \in Key
    BY <1>1 DEF Key
  <2>2. Moved(k) /\ timer' = k /\ shown' = shown /\ error' = error /\ phase' = phase /\ modal' \in Modal
    BY <1>5, ModalTyped DEF Retype
  <2> QED
    BY <1>1, <2>1, <2>2, SelectKeeps
<1>6. ASSUME Press \/ Close \/ \E r \in Runs : Continue(r) PROVE PageOK'
  <2>1. UNCHANGED <<page, better>> /\ modal' \in Modal /\ phase' = phase
    BY <1>6 DEF Press, Close, Continue, Begin, Modal
  <2> QED
    BY <1>1, <2>1, QuietKeeps
<1> QED
  BY <1>3, <1>4, <1>5, <1>6 DEF User

LEMMA NetworkKeeps ==
    ASSUME IInv, Network, DoneStays PROVE PageOK'
<1>1. PageOK /\ phase \in Phase
  BY PageTyped DEF IInv, PageOK
<1>2. CASE \E l \in loads : LateAnswer(l) \/ Refusal(l) \/ LoadFails(l) \/ \E plan \in Plan : Answer(l, plan)
  BY <1>1, <1>2, LandedKeeps
<1>3. CASE (\E k \in Key : Expire(k)) \/ (\E plan \in Plan : Prewarmed(plan))
  BY <1>1, <1>3, CacheKeeps
<1>4. CASE OtherNews
  <2>1. UNCHANGED page /\ better' \in BOOLEAN /\ phase' = phase /\ modal' \in Modal
    BY <1>4, ModalTyped DEF OtherNews
  <2> QED
    BY <1>1, <2>1, Steady
<1> QED
  BY <1>2, <1>3, <1>4 DEF Network

LEMMA ScriptKeeps ==
    ASSUME IInv, Script, DoneStays PROVE PageOK'
<1>1. PageOK
  BY DEF IInv
<1>2. CASE TimerFires
  BY <1>1, <1>2, TimerKeeps
<1>3. ASSUME NEW r \in Runs, Done(r) PROVE PageOK'
  BY <1>3, DoneKeeps
<1>4. ASSUME NEW r \in Runs, Countdown(r) \/ Check(r) \/ Approved(r) \/ Ask(r) \/ Receipt(r) \/ Thrown(r)
                               \/ \E plan \in Plan : Requote(r, plan)
      PROVE  PageOK'
  <2>1. UNCHANGED <<page, better>>
    BY <1>4 DEF Countdown, Begin, Check, Approved, Ask, Receipt, Thrown, Requote, Rest
  <2>2. (\E p \in Phase : Report(p)) \/ Quietly \/ (modal' \in Modal /\ phase' = phase)
    BY <1>4 DEF Countdown, Begin, Check, Approved, Ask, Receipt, Thrown, Requote, Modal, Phase
  <2> QED
    BY <1>1, <2>1, <2>2, QuietKeeps
<1> QED
  BY <1>2, <1>3, <1>4 DEF Script

LEMMA NextInv == IInv /\ [Next]_vars => IInv'
<1> SUFFICES ASSUME IInv, [Next]_vars PROVE IInv'
  OBVIOUS
<1>1. CASE Next
  BY <1>1, RunsKeep, UserKeeps, NetworkKeeps, ScriptKeeps DEF Next, IInv
<1>2. CASE UNCHANGED vars
  <2>1. RunsOK' /\ DoneStays
    BY <1>2, RunsRest DEF IInv, vars
  <2>2. UNCHANGED page /\ better' = better /\ modal' = modal /\ phase' = phase
    BY <1>2 DEF vars, page
  <2>3. PageOK'
    BY <2>1, <2>2, Steady, PageTyped DEF IInv, PageOK
  <2> QED
    BY <2>1, <2>3 DEF IInv
<1> QED
  BY <1>1, <1>2

\* Only a swap that found its receipt says that one is done.
LEMMA DoneHere ==
    ASSUME IInv, [Next]_vars, phase' = "done", phase # "done"
    PROVE  \E r \in Runs : runs[r].pc = "readback" /\ runs'[r].pc = "done" /\ runs[r].key.chain = sel'.chain
<1>1. PICK r \in Runs : Done(r) /\ StillHere(r)
  <2>1. Next
    BY DEF vars
  <2>2. ~ User
    BY DEF User, SwitchChain, SwitchInModal, SwitchTo, PickPair, Retype, Reset, Press, Close, Continue, Begin
  <2>3. ~ Network
    BY DEF Network, LateAnswer, Answer, Refusal, LoadFails, Landed, Prewarmed, Expire, OtherNews
  <2>4. Script
    BY <2>1, <2>2, <2>3 DEF Next
  <2> QED
    BY <2>4 DEF Script, TimerFires, Countdown, Begin, Check, Approved, Ask, Receipt, Done, Thrown, Requote, Quietly, Report
<1>2. runs \in [Runs -> Run] /\ runs[r].pc = "readback" /\ Goto(r, "done") /\ sel' = sel
  BY <1>1 DEF IInv, RunsOK, Done
<1>3. runs'[r].pc = "done"
  BY <1>2 DEF Goto, Run
<1> QED
  BY <1>1, <1>2, <1>3 DEF StillHere

-----------------------------------------------------------------------------
(***************************************************************************)
(* Everything on the page is well formed, and when the page has settled    *)
(* without an error it shows a route for what is selected, in whichever    *)
(* order loads, cache and answers came (Desk.tsx:311-374).                 *)
(***************************************************************************)
THEOREM PageIsCurrent == Spec => []DeskInv
<1>1. IInv => DeskInv
  BY DEF IInv, PageOK, DeskInv
<1> QED
  BY <1>1, InitInv, NextInv, PTL DEF Spec

(***************************************************************************)
(* Whatever is selected while a swap waits, the wallet is asked to sign a  *)
(* plan read again for the swap's own chain, pair, direction and pool, and *)
(* with a floor under the quote accepted (Desk.tsx:546-606).               *)
(***************************************************************************)
THEOREM SignsItsOwn == Spec => []SignsWhatItReread
<1>1. IInv => SignsWhatItReread
  BY DEF IInv, RunsOK
<1> QED
  BY <1>1, InitInv, NextInv, PTL DEF Spec

(***************************************************************************)
(* The page says that a swap is done only on the chain it was done on      *)
(* (Desk.tsx:603-642).                                                     *)
(***************************************************************************)
THEOREM DoneWhereItRan == Spec => DoneOnItsChain
<1>1. IInv /\ [Next]_vars =>
         [phase' = "done" /\ phase # "done" =>
             \E r \in Runs : /\ runs[r].pc = "readback" /\ runs'[r].pc = "done"
                             /\ runs[r].key.chain = sel'.chain]_vars
  BY DoneHere
<1> QED
  BY <1>1, InitInv, NextInv, PTL DEF Spec, DoneOnItsChain
=============================================================================
