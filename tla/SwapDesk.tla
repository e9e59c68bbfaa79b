------------------------------ MODULE SwapDesk ------------------------------
(***************************************************************************)
(* The swap page: Desk.tsx, the Swap card and its pre-flight modal, and    *)
(* the browser cache under them, in one tab.                               *)
(*                                                                         *)
(* The page loads a quote for what is selected, 250 ms after the selection *)
(* changed; answers carry a generation and only the newest may be shown.   *)
(* The modal counts down and then runs executeSwap, which keeps the quote  *)
(* and the selection of the moment it began (its closure) while it waits   *)
(* for the chain, for the server and for the wallet.                       *)
(*                                                                         *)
(* Script runs to its next await in one step, and an effect runs with the  *)
(* render that causes it.  The server may answer any quote at any time.    *)
(* Lifetimes in the browser cache are modelled by Expire.                  *)
(***************************************************************************)
EXTENDS Integers, FiniteSets

CONSTANTS
    Chains, Pairs,
    Amounts,        \* amounts typed into the box
    DefaultChain, DefaultPair, DefaultAmount,
    Offers,         \* what a plan may say: the hook it runs through and the amount out,
                    \* 0 when nobody can fill it
    MaxMoves,       \* bound on changes of the selection
    MaxGen,         \* bound on loads
    MaxRuns         \* bound on calls of executeSwap

VARIABLES
    sel,            \* chain, pair, direction and amount selected
    moves,
    shown,          \* route on screen, with the generation that brought it, or NoRoute
    gen,
    timer,          \* the selection the debounced load will ask for, or NoKey
    loads,          \* requests under way
    busy, error,
    cached,         \* browser cache: per selection a route, or NoRoute
    modal,          \* "closed", "counting" down to a swap, or "handed" over to one
    better,         \* does the radar report a much better price on the other chain?
    phase,          \* txState.phase
    runs,           \* calls of executeSwap, with what their closures captured
    asked           \* every swap the wallet has been asked to sign

page == <<sel, moves, shown, gen, timer, loads, busy, error, cached>>
vars == <<sel, moves, shown, gen, timer, loads, busy, error, cached,
          modal, better, phase, runs, asked>>

Key == [chain: Chains, pair: Pairs, flipped: BOOLEAN, amount: Amounts]
NoKey == [chain |-> 0, pair |-> "none", flipped |-> FALSE, amount |-> 0]
Hooks == {"configured"} \cup {o.hook : o \in Offers}
Plan == {[key |-> k, hook |-> o.hook, out |-> o.out] : k \in Key, o \in Offers}
NoRoute == [key |-> NoKey, hook |-> "configured", out |-> 0, gen |-> 0]
Runs == 1 .. MaxRuns
NotRun == [pc |-> "none", key |-> NoKey, route |-> NoRoute, plan |-> NoRoute]

ASSUME DeskAssumption ==
    /\ 0 \notin Chains
    /\ DefaultChain \in Chains /\ DefaultPair \in Pairs /\ DefaultAmount \in Amounts
    /\ Offers \subseteq [hook: Hooks, out: Nat]
    /\ MaxMoves \in Nat /\ MaxGen \in Nat /\ MaxRuns \in Nat

\* Forgets which request brought it (fault).
Shown_Bare(plan, g) == plan

Shown(plan, g) == [key |-> plan.key, hook |-> plan.hook, out |-> plan.out, gen |-> g]

\* A plan has hookData when somebody can fill it.
Quoted(route) == route.out > 0

-----------------------------------------------------------------------------
(***************************************************************************)
(* The modal's effect depends on an arrow made anew by every render of the *)
(* card, so it runs with each: it counts down again while nothing is being *)
(* signed, whether or not it has handed over already.                      *)
(***************************************************************************)
Rendered(p) == modal' = IF modal = "closed" THEN "closed"
                        ELSE IF p = "idle" THEN "counting" ELSE "handed"

\* The hook of the route on screen is in the pool key, and load depends on that.
Rearmed(route) == IF route.hook # shown.hook THEN sel ELSE timer

\* The effect on [chainId, currentPair.id].
Reset(k) == timer' = k /\ error' = FALSE /\ phase' = "idle" /\ shown' = NoRoute

Moved(k) ==
    /\ k # sel /\ moves < MaxMoves
    /\ sel' = k /\ moves' = moves + 1
    /\ UNCHANGED <<gen, loads, busy, cached, better, runs, asked>>

\* The pair goes back to the default one; the direction stays.
SwitchTo(c) ==
    LET k == [chain |-> c, pair |-> DefaultPair, flipped |-> sel.flipped, amount |-> DefaultAmount] IN
    c # sel.chain /\ Moved(k) /\ Reset(k)

SwitchChain(c) == modal = "closed" /\ SwitchTo(c) /\ Rendered("idle")

\* The modal offers the better chain, and closes itself.
SwitchInModal(c) ==
    /\ modal = "counting" /\ better
    /\ SwitchTo(c) /\ modal' = "closed"

PickPair(p) ==
    LET k == [sel EXCEPT !.pair = p, !.flipped = FALSE, !.amount = DefaultAmount] IN
    modal = "closed" /\ p # sel.pair /\ Moved(k) /\ Reset(k) /\ Rendered("idle")

\* Neither flipping nor typing drops the route on screen.
Retype(flipped, amount) ==
    LET k == [sel EXCEPT !.flipped = flipped, !.amount = amount] IN
    modal = "closed" /\ Moved(k) /\ timer' = k /\ Rendered(phase) /\ UNCHANGED <<shown, error, phase>>

-----------------------------------------------------------------------------
\* A hit leaves the earlier request busy (fault).
Hit_Busy(k) == shown' = Shown(cached[k], gen + 1) /\ UNCHANGED <<busy, loads>>

\* A hit answers at once.
Hit(k) == shown' = Shown(cached[k], gen + 1) /\ busy' = FALSE /\ UNCHANGED loads

Load(k) ==
    /\ gen < MaxGen
    /\ gen' = gen + 1 /\ error' = FALSE
    /\ IF cached[k] # NoRoute THEN Hit(k)
       ELSE busy' = TRUE /\ loads' = loads \cup {[gen |-> gen + 1, key |-> k]} /\ UNCHANGED shown
    /\ UNCHANGED cached

TimerFires ==
    /\ timer # NoKey /\ Load(timer)
    /\ timer' = IF shown'.hook # shown.hook THEN sel ELSE NoKey
    /\ Rendered(phase) /\ UNCHANGED <<sel, moves, better, phase, runs, asked>>

\* Any answer is shown (fault).
IsNewest_Any(l) == TRUE
IsNewest(l) == l.gen = gen

Landed(l) ==
    /\ l \in loads /\ loads' = loads \ {l}
    /\ UNCHANGED <<sel, moves, gen, better, phase, runs, asked>>

\* An answer nobody waits for is not even cached.
LateAnswer(l) == Landed(l) /\ ~ IsNewest(l) /\ UNCHANGED <<shown, timer, busy, error, cached, modal>>

Answer(l, plan) ==
    /\ Landed(l) /\ IsNewest(l) /\ plan.key = l.key
    /\ shown' = Shown(plan, l.gen) /\ timer' = Rearmed(shown')
    /\ cached' = [cached EXCEPT ![l.key] = plan]
    /\ busy' = FALSE /\ Rendered(phase) /\ UNCHANGED error

\* The server answered with an error.
Refusal(l) ==
    /\ Landed(l) /\ IsNewest(l)
    /\ shown' = NoRoute /\ timer' = Rearmed(NoRoute)
    /\ busy' = FALSE /\ error' = TRUE /\ Rendered(phase) /\ UNCHANGED cached

\* No answer within getJson's deadline: the route on screen stays.
LoadFails(l) ==
    /\ Landed(l) /\ IsNewest(l)
    /\ busy' = FALSE /\ error' = TRUE /\ Rendered(phase) /\ UNCHANGED <<shown, timer, cached>>

Expire(k) ==
    /\ cached[k] # NoRoute /\ cached' = [cached EXCEPT ![k] = NoRoute]
    /\ UNCHANGED <<sel, moves, shown, gen, timer, loads, busy, error, modal, better, phase, runs, asked>>

\* The counterpart of a route on the other chain is read ahead after each load,
\* with nobody waiting; it counts where its makers are cached too.
Prewarmed(plan) ==
    /\ plan.key = [shown.key EXCEPT !.chain = plan.key.chain] /\ plan.key # shown.key
    /\ cached[plan.key] = NoRoute
    /\ cached' = [cached EXCEPT ![plan.key] = plan]
    /\ UNCHANGED <<sel, moves, shown, gen, timer, loads, busy, error, modal, better, phase, runs, asked>>

\* Balance, coverage, the finding, the apps or the radar arrive: a render.
OtherNews ==
    /\ better' \in BOOLEAN /\ Rendered(phase) /\ <<better', modal'>> # <<better, modal>>
    /\ UNCHANGED <<page, phase, runs, asked>>

-----------------------------------------------------------------------------
\* The button wants a quote and no swap under way; the radar's pill does not ask.
Press ==
    /\ modal = "closed" /\ \E r \in Runs : runs[r].pc = "none"
    /\ better \/ (Quoted(shown) /\ phase \notin {"approving", "swapping"})
    /\ modal' = IF phase = "idle" THEN "counting" ELSE "handed"
    /\ UNCHANGED <<page, better, phase, runs, asked>>

Close ==
    /\ modal # "closed" /\ phase \in {"idle", "done"}
    /\ modal' = "closed" /\ UNCHANGED <<page, better, phase, runs, asked>>

\* executeSwap up to its first await: nothing is rendered.
Begin(r) ==
    /\ runs[r].pc = "none" /\ \A q \in Runs : q < r => runs[q].pc # "none"
    /\ runs' = IF ~ Quoted(shown) THEN runs
               ELSE [runs EXCEPT ![r] = [pc |-> "check", key |-> sel, route |-> shown,
                                         plan |-> NoRoute]]
    /\ modal' = "handed"
    /\ UNCHANGED <<page, better, phase, asked>>

\* The countdown ends.
Countdown(r) == modal = "counting" /\ ~ better /\ Begin(r)

\* "Continue anyway".
Continue(r) == modal = "counting" /\ better /\ Begin(r)

StillHere_Always(r) == TRUE      \* (fault)
StillHere(r) == runs[r].key.chain = sel.chain

Goto(r, pc) == runs' = [runs EXCEPT ![r].pc = pc]
Report(p) == phase' = p /\ Rendered(p)
Quietly == UNCHANGED <<phase, modal>>
Rest == UNCHANGED <<better, asked>>

\* No contract, or not enough balance: a note, on whatever is selected by now.
\* An allowance too small asks for an approval first.
Check(r) ==
    /\ runs[r].pc = "check" /\ UNCHANGED page /\ Rest
    /\ \/ Goto(r, "ended") /\ Report("idle")
       \/ Goto(r, "approve") /\ Report("approving")
       \/ Goto(r, "reread") /\ Quietly

Approved(r) == runs[r].pc = "approve" /\ Goto(r, "reread") /\ Quietly /\ UNCHANGED page /\ Rest

\* What the server is asked before signing: the closure's tokens, the amount
\* of the route that was on screen.
Reread(r) == [runs[r].key EXCEPT !.amount = runs[r].route.key.amount]

\* Any book's plan will do (fault).
Acceptable_AnyBook(r, plan) ==
    Quoted(plan) /\ plan.out >= (runs[r].route.out * 99) \div 100

Acceptable(r, plan) ==
    /\ Quoted(plan) /\ plan.hook = runs[r].route.hook
    /\ plan.out >= (runs[r].route.out * 99) \div 100

Requote(r, plan) ==
    /\ runs[r].pc = "reread" /\ plan.key = Reread(r) /\ UNCHANGED page /\ Rest
    /\ \/ ~ StillHere(r) /\ Goto(r, "ended") /\ Quietly
       \/ StillHere(r) /\ ~ Acceptable(r, plan) /\ Goto(r, "refused") /\ Report("idle")
       \/ /\ StillHere(r) /\ Acceptable(r, plan)
          /\ runs' = [runs EXCEPT ![r].pc = "ask", ![r].plan = Shown(plan, 0)]
          /\ Report("swapping")

\* Calldata: the closure's pool, and the re-read plan less 1%.
Ask(r) ==
    /\ runs[r].pc = "ask" /\ Goto(r, "receipt") /\ Quietly
    /\ asked' = asked \cup {[run |-> r, key |-> runs[r].key, pool |-> runs[r].route.hook,
                             plan |-> runs[r].plan, floor |-> (runs[r].plan.out * 99) \div 100]}
    /\ UNCHANGED <<page, better>>

Receipt(r) ==
    /\ runs[r].pc = "receipt" /\ UNCHANGED page /\ Rest /\ Quietly
    /\ Goto(r, IF StillHere(r) THEN "readback" ELSE "ended")

\* Both balances are read back; then the page loads again, for the closure.
Done(r) ==
    /\ runs[r].pc = "readback" /\ Goto(r, IF StillHere(r) THEN "done" ELSE "ended") /\ Rest
    /\ IF StillHere(r)
       THEN /\ Report("done") /\ Load(runs[r].key) /\ timer' = Rearmed(shown')
            /\ UNCHANGED <<sel, moves>>
       ELSE Quietly /\ UNCHANGED page

\* catch: a prompt was rejected or a read failed.
Thrown(r) ==
    /\ runs[r].pc \in {"check", "approve", "reread", "ask", "receipt"}
    /\ Goto(r, "ended") /\ UNCHANGED page /\ Rest
    /\ IF StillHere(r) THEN Report("idle") ELSE Quietly

-----------------------------------------------------------------------------
Init ==
    /\ sel = [chain |-> DefaultChain, pair |-> DefaultPair, flipped |-> FALSE, amount |-> DefaultAmount]
    /\ moves = 0 /\ shown = NoRoute /\ gen = 0 /\ timer = sel /\ loads = {}
    /\ busy = FALSE /\ error = FALSE /\ cached = [k \in Key |-> NoRoute]
    /\ modal = "closed" /\ better = FALSE /\ phase = "idle"
    /\ runs = [r \in Runs |-> NotRun] /\ asked = {}

User ==
    \/ \E c \in Chains : SwitchChain(c) \/ SwitchInModal(c)
    \/ \E p \in Pairs : PickPair(p)
    \/ \E f \in BOOLEAN, a \in Amounts : Retype(f, a)
    \/ Press
    \/ Close
    \/ \E r \in Runs : Continue(r)

Network ==
    \/ \E l \in loads : LateAnswer(l) \/ Refusal(l) \/ LoadFails(l) \/ \E plan \in Plan : Answer(l, plan)
    \/ \E plan \in Plan : Prewarmed(plan)
    \/ \E k \in Key : Expire(k)
    \/ OtherNews

Script ==
    \/ TimerFires
    \/ \E r \in Runs :
          Countdown(r) \/ Check(r) \/ Approved(r) \/ Ask(r) \/ Receipt(r) \/ Done(r) \/ Thrown(r)
             \/ \E plan \in Plan : Requote(r, plan)

Next == User \/ Network \/ Script

\* Timers fire, and getJson's deadline ends every load.
Fairness ==
    /\ WF_vars(TimerFires)
    /\ WF_vars(\E l \in loads : LateAnswer(l) \/ Refusal(l) \/ LoadFails(l) \/ \E plan \in Plan : Answer(l, plan))

Spec == Init /\ [][Next]_vars /\ Fairness

-----------------------------------------------------------------------------
\* Every variable holds a value of its kind.
TypeOK ==
    /\ sel \in Key /\ moves \in 0 .. MaxMoves /\ gen \in 0 .. MaxGen
    /\ shown \in [key: Key \cup {NoKey}, hook: Hooks, out: Nat, gen: 0 .. MaxGen]
    /\ timer \in Key \cup {NoKey} /\ loads \subseteq [gen: 1 .. MaxGen, key: Key]
    /\ busy \in BOOLEAN /\ error \in BOOLEAN /\ better \in BOOLEAN
    /\ modal \in {"closed", "counting", "handed"}
    /\ phase \in {"idle", "approving", "swapping", "done"}

\* Whatever was on screen when the swap began, and whatever has been selected
\* since, the wallet is asked to sign a plan re-read for the chain, the pair and
\* the direction of the transaction's own pool, made for the hook of that pool,
\* with a floor at most two margins of 1% under the quote that was accepted.
SignsWhatItReread ==
    \A a \in asked :
        /\ a.plan.key = [a.key EXCEPT !.amount = a.plan.key.amount]
        /\ a.plan.hook = a.pool
        /\ a.floor >= (((runs[a.run].route.out * 99) \div 100) * 99) \div 100

\* When the page has stopped reading and shows no error, what it shows is what
\* is selected, whatever was cached and in whichever order answers came.  (Not
\* after a swap is done: the load it ends with asks for what was selected then.)
SettledIsSelected ==
    timer = NoKey /\ ~ busy /\ ~ error /\ (\A r \in Runs : runs[r].pc # "done")
        => shown = NoRoute \/ shown.key = sel

\* A swap's outcome is reported on the chain it ran on: "done" appears only
\* by a run whose chain is the one selected.
DoneOnItsChain ==
    [][phase' = "done" /\ phase # "done" =>
          \E r \in Runs : /\ runs[r].pc = "readback" /\ runs'[r].pc = "done"
                          /\ runs[r].key.chain = sel'.chain]_vars

\* The page stops saying "reading" however loads overtake one another: the
\* newest request is answered, refused, failed or served from the cache.
BusyEnds == busy ~> ~ busy

(***************************************************************************)
(* What the page has settled on belongs to what is selected, and           *)
(* everything on screen is well formed (Desk.tsx:311-374).                 *)
(***************************************************************************)
DeskInv == TypeOK /\ SettledIsSelected
=============================================================================
