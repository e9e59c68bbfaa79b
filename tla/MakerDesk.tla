------------------------------ MODULE MakerDesk ------------------------------
(***************************************************************************)
(* A maker's two tabs: Provide, which has a strategy built, ships it and   *)
(* approves Aqua, and Portfolio, which docks one.  Every press starts a    *)
(* job that outlives the tab it was pressed in, while the page's chain and *)
(* the wallet's move on their own.                                         *)
(*                                                                         *)
(* What the tabs have read (balances, book) is Panels' subject, and what a *)
(* strategy declares is Publishing's.                                      *)
(***************************************************************************)
EXTENDS Integers, FiniteSets

CONSTANTS
    Chains,         \* the networks of the page
    Rows,           \* strategies of the maker that the Portfolio lists
    Home,           \* the chain of each
    Mislisted,      \* those whose row does not name all their tokens
    MaxJobs,        \* bound on presses that start something
    MaxMounts       \* bound on changes of tab

VARIABLES
    net,            \* the chain the page shows
    wallet,         \* the chain the wallet is on
    tab,            \* the tab open, and which mounting of it this is
    jobs,           \* what was started, by whom, and how far it is
    provide,        \* the Provide tab's flags and its two lines of outcome
    dock,           \* DockState per row
    published,      \* shipments on chain: which job's, on which chain
    docked          \* rows docked on chain

makerDeskVars == <<net, wallet, tab, jobs, provide, dock, published, docked>>

Jobs == 1 .. MaxJobs
NotSent == [chain |-> "none", status |-> "none"]
NoJob == [kind |-> "none", row |-> "none", forChain |-> "none", mount |-> 0, pc |-> "none", tx |-> NotSent]
Fresh == [busy |-> FALSE, approving |-> FALSE, shipped |-> 0, error |-> FALSE]

ASSUME MakerDeskAssumption ==
    /\ "none" \notin Chains \cup Rows
    /\ Home \in [Rows -> Chains] /\ Mislisted \subseteq Rows
    /\ MaxJobs \in Nat \ {0} /\ MaxMounts \in Nat \ {0}

-----------------------------------------------------------------------------
wrongChain == wallet # net

InFlight(j) == jobs[j].pc \notin {"none", "done"}

\* What is said of an unmounted tab is shown in the one that replaced it (fault).
Mounted_Always(j) == TRUE

\* A component that was unmounted since no longer shows anything.
Mounted(j) == jobs[j].mount = tab.mount

Flags(f) == provide' = f
Shows(j, f) == Flags(IF Mounted(j) THEN f ELSE provide)

setDockFor(r, k) == dock' = [dock EXCEPT ![r] = k]
ShowsDock(j, k) == IF Mounted(j) THEN setDockFor(jobs[j].row, k) ELSE UNCHANGED dock

At(j, kind, pc) == jobs[j].kind = kind /\ jobs[j].pc = pc
Goes(j, pc) == jobs' = [jobs EXCEPT ![j].pc = pc]

Starts(kind, r, pc) ==
    \E j \in Jobs :
        /\ jobs[j] = NoJob /\ \A i \in 1 .. j - 1 : jobs[i] # NoJob
        /\ jobs' = [jobs EXCEPT ![j] =
               [kind |-> kind, row |-> r, forChain |-> net, mount |-> tab.mount, pc |-> pc, tx |-> NotSent]]

\* A press that failed says so where it was pressed, and lowers its flag.
Failed(j) ==
    /\ Goes(j, "done")
    /\ CASE jobs[j].kind = "ship" -> Shows(j, [provide EXCEPT !.busy = FALSE, !.error = TRUE]) /\ UNCHANGED dock
         [] jobs[j].kind = "approve" -> Shows(j, [provide EXCEPT !.approving = FALSE, !.error = TRUE]) /\ UNCHANGED dock
         [] jobs[j].kind = "dock" -> ShowsDock(j, "error") /\ UNCHANGED provide

Page == <<net, wallet, tab>>
Chain == <<published, docked>>

-----------------------------------------------------------------------------
(***************************************************************************)
(* The page and the wallet.                                                *)
(***************************************************************************)
\* The page follows whether or not the wallet agrees to.
handleSwitchChain(c) ==
    /\ c # net /\ net' = c
    /\ UNCHANGED <<wallet, tab, jobs, provide, dock, Chain>>

WalletMoves(c) ==
    /\ c # wallet /\ wallet' = c
    /\ UNCHANGED <<net, tab, jobs, provide, dock, Chain>>

\* Only the tab that is open is mounted; leaving it forgets what it showed.
OpenTab(t) ==
    /\ t # tab.name /\ tab.mount < MaxMounts
    /\ tab' = [name |-> t, mount |-> tab.mount + 1]
    /\ Flags(Fresh) /\ dock' = [r \in Rows |-> "idle"]
    /\ UNCHANGED <<net, wallet, jobs, Chain>>

(***************************************************************************)
(* Presses.                                                                *)
(***************************************************************************)
\* A second press is not stopped (fault).
disabled_NotByBusy == wrongChain \/ provide.approving

\* What is shown of amounts, backing and allowance may hold it back as well.
disabled == wrongChain \/ provide.busy \/ provide.approving

handleShip ==
    /\ tab.name = "provide" /\ ~ disabled
    /\ Starts("ship", "none", "building")
    /\ Flags([provide EXCEPT !.busy = TRUE, !.error = FALSE, !.shipped = 0])
    /\ UNCHANGED <<Page, dock, Chain>>

\* Two of the three buttons look at nothing but the flag of their own.
handleApproveAqua ==
    /\ tab.name = "provide" /\ ~ provide.approving
    /\ Starts("approve", "none", "signing")
    /\ Flags([provide EXCEPT !.approving = TRUE, !.error = FALSE])
    /\ UNCHANGED <<Page, dock, Chain>>

\* Only a strategy of the chain shown has a button.
Here(r) == tab.name = "portfolio" /\ Home[r] = net

onAsk(r) ==
    /\ Here(r) /\ ~ wrongChain /\ dock[r] \in {"idle", "error"} /\ setDockFor(r, "confirm")
    /\ UNCHANGED <<Page, jobs, provide, Chain>>

onCancel(r) ==
    /\ Here(r) /\ dock[r] = "confirm" /\ setDockFor(r, "idle")
    /\ UNCHANGED <<Page, jobs, provide, Chain>>

onConfirm(r) ==
    /\ Here(r) /\ dock[r] = "confirm" /\ setDockFor(r, "checking")
    /\ Starts("dock", r, "checking")
    /\ UNCHANGED <<Page, provide, Chain>>

(***************************************************************************)
(* Jobs, up to the wallet.                                                 *)
(***************************************************************************)
\* The closure's net is the net it began with: nothing is noticed of a switch.
Built(j) ==
    /\ At(j, "ship", "building")
    /\ \/ Goes(j, "signing") /\ UNCHANGED <<provide, dock>>
       \/ Failed(j)
    /\ UNCHANGED <<Page, Chain>>

\* Docking needs a strategy still open and every token it holds.
Dockable(r) == r \notin docked /\ r \notin Mislisted

\* The wallet is opened without a simulation (fault).
Simulates_Never(r) == TRUE

Simulates(r) == Dockable(r)

Checked(j) ==
    /\ At(j, "dock", "checking")
    /\ \/ Simulates(jobs[j].row) /\ Goes(j, "signing") /\ ShowsDock(j, "signing") /\ UNCHANGED provide
       \/ Failed(j)
    /\ UNCHANGED <<Page, Chain>>

\* A dock goes to whatever chain the wallet is on (fault).
Accepts_AnyChain(j) == TRUE

\* Only a dock names the chain it is for, and is refused on another.
Accepts(j) == jobs[j].kind = "dock" => wallet = jobs[j].forChain

Signed(j) ==
    /\ jobs[j].pc = "signing" /\ Accepts(j)
    /\ jobs' = [jobs EXCEPT ![j].pc = "waiting", ![j].tx = [chain |-> wallet, status |-> "pending"]]
    /\ IF jobs[j].kind = "dock" THEN ShowsDock(j, "mining") ELSE UNCHANGED dock
    /\ UNCHANGED <<Page, provide, Chain>>

\* Turned down by the user, or by the wallet for its chain.
Rejected(j) == jobs[j].pc = "signing" /\ Failed(j) /\ UNCHANGED <<Page, Chain>>

(***************************************************************************)
(* The chains.                                                             *)
(***************************************************************************)
Docks(j) == jobs[j].tx.chain = Home[jobs[j].row] /\ Dockable(jobs[j].row)

Mined(j) ==
    /\ jobs[j].tx.status = "pending"
    /\ \E status \in {"out of gas", IF jobs[j].kind = "dock" /\ ~ Docks(j) THEN "reverted" ELSE "success"} :
          /\ jobs' = [jobs EXCEPT ![j].tx.status = status]
          /\ published' = published \cup
                 {x \in {[job |-> j, chain |-> jobs[j].tx.chain]} : jobs[j].kind = "ship" /\ status = "success"}
          /\ docked' = docked \cup {r \in {jobs[j].row} : jobs[j].kind = "dock" /\ status = "success"}
    /\ UNCHANGED <<Page, provide, dock>>

\* The maker docks it from another page.
DockedElsewhere(r) ==
    /\ r \notin docked /\ docked' = docked \cup {r}
    /\ UNCHANGED <<Page, jobs, provide, dock, published>>

(***************************************************************************)
(* Receipts.                                                               *)
(***************************************************************************)
\* Whatever chain the transaction went to is asked (fault).
Found_Anywhere(j) == jobs[j].tx.status \notin {"none", "pending"}

\* A receipt is looked for on the chain the job began on.
Found(j) == jobs[j].tx.chain = jobs[j].forChain /\ jobs[j].tx.status \notin {"none", "pending"}

\* A receipt is a success (fault).
Succeeded_Unread(j) == TRUE

\* An approval's status is not looked at.
Succeeded(j) == jobs[j].kind = "approve" \/ jobs[j].tx.status = "success"

Receipt(j) ==
    /\ jobs[j].pc = "waiting" /\ Found(j)
    /\ CASE ~ Succeeded(j) -> Failed(j)
         [] Succeeded(j) /\ jobs[j].kind = "dock" -> Goes(j, "done") /\ ShowsDock(j, "done") /\ UNCHANGED provide
         [] Succeeded(j) /\ jobs[j].kind = "ship" ->
                Goes(j, "reloading") /\ Shows(j, [provide EXCEPT !.shipped = j]) /\ UNCHANGED dock
         [] Succeeded(j) /\ jobs[j].kind = "approve" -> Goes(j, "reloading") /\ UNCHANGED <<provide, dock>>
    /\ UNCHANGED <<Page, Chain>>

\* Only a revert ends the wait (fault).
ReceiptTimesOut_IfReverted(j) ==
    jobs[j].pc = "waiting" /\ jobs[j].tx.status \in {"reverted", "out of gas"} /\ Failed(j) /\ UNCHANGED <<Page, Chain>>

\* The client stops waiting after three minutes.
ReceiptTimesOut(j) == jobs[j].pc = "waiting" /\ Failed(j) /\ UNCHANGED <<Page, Chain>>

\* Balances and exposure are read again, each swallowing its own failure.
Reloaded(j) ==
    /\ jobs[j].pc = "reloading" /\ Goes(j, "done")
    /\ Shows(j, IF jobs[j].kind = "ship" THEN [provide EXCEPT !.busy = FALSE] ELSE [provide EXCEPT !.approving = FALSE])
    /\ UNCHANGED <<Page, dock, Chain>>

-----------------------------------------------------------------------------
Init ==
    /\ net \in Chains /\ wallet \in Chains
    /\ tab \in [name : {"provide", "portfolio"}, mount : {1}]
    /\ jobs = [j \in Jobs |-> NoJob]
    /\ provide = Fresh /\ dock = [r \in Rows |-> "idle"]
    /\ published = {} /\ docked = {}

Advances(j) == Built(j) \/ Checked(j) \/ Receipt(j) \/ ReceiptTimesOut(j) \/ Reloaded(j)

Next ==
    \/ \E c \in Chains : handleSwitchChain(c) \/ WalletMoves(c)
    \/ \E t \in {"provide", "portfolio"} : OpenTab(t)
    \/ handleShip \/ handleApproveAqua
    \/ \E r \in Rows : onAsk(r) \/ onCancel(r) \/ onConfirm(r) \/ DockedElsewhere(r)
    \/ \E j \in Jobs : Advances(j) \/ Signed(j) \/ Rejected(j) \/ Mined(j)

\* Requests are answered or fail and waiting is limited; nobody has to sign.
Fairness == \A j \in Jobs : WF_makerDeskVars(Advances(j))

Spec == Init /\ [][Next]_makerDeskVars /\ Fairness

-----------------------------------------------------------------------------
(***************************************************************************)
(* "Shipped" is only said of a strategy that is published on the chain it  *)
(* was built for, whatever the wallet did in between: a transaction it     *)
(* sent elsewhere is never taken for the one awaited (src/web/app/ui/app/  *)
(* Provide.tsx:443-453).                                                   *)
(***************************************************************************)
ShippedIsPublished ==
    provide.shipped # 0 =>
        [job |-> provide.shipped, chain |-> jobs[provide.shipped].forChain] \in published

(***************************************************************************)
(* "docked" is only said of a promise that is gone for good                *)
(* (src/web/app/ui/app/Portfolio.tsx:126-128).                             *)
(***************************************************************************)
DoneMeansDocked == \A r \in Rows : dock[r] = "done" => r \in docked

(***************************************************************************)
(* A wrong token list "fails here by name -- not as an opaque revert after *)
(* a signature" (src/web/app/ui/app/Portfolio.tsx:105-108): a dock that    *)
(* was signed is turned down by Aqua only when the strategy was docked     *)
(* since it was simulated, and on the chain it was simulated on.           *)
(***************************************************************************)
RevertsOnlyIfOvertaken ==
    \A j \in Jobs :
        jobs[j].kind = "dock" /\ jobs[j].tx.status = "reverted" =>
            jobs[j].row \in docked /\ jobs[j].tx.chain = Home[jobs[j].row]

(***************************************************************************)
(* A mounted tab's flags are those of its own jobs, and one press at a     *)
(* time: never two strategies shipped by a double press, never a flag left *)
(* up by a job that has ended (src/web/app/ui/app/Provide.tsx:366-373).    *)
(***************************************************************************)
OneAtATime ==
    LET mine(kind) == {j \in Jobs : jobs[j].kind = kind /\ InFlight(j) /\ Mounted(j)} IN
    /\ Cardinality(mine("ship")) = IF provide.busy THEN 1 ELSE 0
    /\ Cardinality(mine("approve")) = IF provide.approving THEN 1 ELSE 0

(***************************************************************************)
(* What was signed is not waited for, for ever, even when the wallet sent  *)
(* it to a chain where nobody looks.                                       *)
(***************************************************************************)
WaitingEnds == \A j \in Jobs : jobs[j].pc = "waiting" ~> jobs[j].pc = "done"

DeskTypeOK ==
    /\ net \in Chains /\ wallet \in Chains
    /\ tab \in [name : {"provide", "portfolio"}, mount : 1 .. MaxMounts]
    /\ jobs \in [Jobs -> [kind : {"none", "ship", "approve", "dock"}, row : Rows \cup {"none"},
                          forChain : Chains \cup {"none"}, mount : 0 .. MaxMounts,
                          pc : {"none", "building", "checking", "signing", "waiting", "reloading", "done"},
                          tx : [chain : Chains \cup {"none"}, status : {"none", "pending", "success", "reverted", "out of gas"}]]]
    /\ provide \in [busy : BOOLEAN, approving : BOOLEAN, shipped : {0} \cup Jobs, error : BOOLEAN]
    /\ dock \in [Rows -> {"idle", "confirm", "checking", "signing", "mining", "done", "error"}]
    /\ published \subseteq [job : Jobs, chain : Chains] /\ docked \subseteq Rows
    /\ \A r \in Rows : dock[r] # "idle" => tab.name = "portfolio"

(***************************************************************************)
(* The flags of the tab on screen are those of its own jobs, one of each   *)
(* kind at a time (Provide.tsx:366-373, 403-466).                          *)
(***************************************************************************)
MakerDeskInv == DeskTypeOK /\ OneAtATime

(***************************************************************************)
(* Whatever the tabs say has happened on chain has happened there, and a   *)
(* dock that was simulated fails only if overtaken (Provide.tsx:443-453,   *)
(* Portfolio.tsx:103-129).                                                 *)
(***************************************************************************)
OutcomeIsReal == ShippedIsPublished /\ DoneMeansDocked /\ RevertsOnlyIfOvertaken
=============================================================================
