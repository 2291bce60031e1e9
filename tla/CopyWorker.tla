----------------------------- MODULE CopyWorker -----------------------------
(***************************************************************************)
(* One target's copy worker (internal/copier: worker.go, upkeep.go): its   *)
(* Run goroutine, the calls that reach it from other goroutines (Wake,     *)
(* Stop, Pause, Resume), the goroutine that watches the copy window and    *)
(* the one that recounts how far behind the target is.                     *)
(*                                                                         *)
(* A step is what one goroutine does under w.mu, or one call that leaves   *)
(* it.  Revisions are counted: local has `local' of them and the target    *)
(* the first `target' of those (InUse.tla has the revisions themselves).   *)
(* A context is cancelled only with `stops' already raised, so the count   *)
(* stands for both.                                                        *)
(***************************************************************************)
EXTENDS Integers

CONSTANTS
    HasWindow,    \* whether the target has a copy window (Worker.Window)
    MaxBackups,   \* bounds on what happens to the worker in a behaviour
    MaxStops,
    MaxPauses,
    MaxCloses,
    MaxFails,
    MaxRestarts

ASSUME WorkerAssumption ==
    /\ HasWindow \in BOOLEAN
    /\ \A n \in {MaxBackups, MaxStops, MaxPauses, MaxCloses, MaxFails, MaxRestarts} : n \in Nat

VARIABLES
    status,       \* state.Status
    behind,       \* state.Behind
    stops, wakes, wakesAtStop, passWakes, listWakes,  \* Worker's counts
    paused,       \* Worker.paused
    token,        \* whether the wake channel (capacity 1) holds a token
    pc,           \* where the Run goroutine is
    parked,       \* whether it waits in ready for a pause to end
    my,           \* the stop count its pass was handed
    timer,        \* what Run's select waits for besides the token
    stage,        \* the command the pass is at: a copy, or one of upkeep's
    seen,         \* missing: local as listed
    seenWakes,    \* missing: wakes, read before listing
    before,       \* pass: local as listed before the copy just made, or -1
    lastTarget,   \* the target at the last listing, or -1 (lastLocal, lastMissing)
    proc,         \* the duplicacy command of `current': none, or how it is
    dying,        \* whether it is being terminated (Copy.Terminate)
    goal,         \* a running copy: local when duplicacy listed it
    sends,        \* Wakes that have counted and not yet sent their token
    recounts,     \* recount goroutines that have not begun
    recount,      \* the one that has: none, listing, or listed
    recountDue, recountFresh, recountLocal,
    watch,        \* watchWindow: waiting, or about to hold or nudge
    open,         \* whether the window is open
    local, target,
    unsaid,       \* backups local has that no Wake has told the worker of
    halted,       \* history: stopped, and no Wake since
    used          \* the bounds used up so far

cmdVars     == <<proc, dying, goal>>
listVars    == <<seen, seenWakes, before, lastTarget, listWakes>>
recountVars == <<recounts, recount, recountDue, recountFresh, recountLocal>>
dataVars    == <<local, target, unsaid>>
passVars    == <<pc, parked, my, timer, stage, passWakes>>
stateVars   == <<status, behind>>
ctlVars     == <<stops, wakes, wakesAtStop, paused, token, sends, halted>>
windowVars  == <<watch, open>>
vars == <<stateVars, ctlVars, passVars, listVars, cmdVars, recountVars,
          windowVars, dataVars, used>>

Bounds == [backups |-> MaxBackups, stops |-> MaxStops, pauses |-> MaxPauses,
           closes |-> MaxCloses, fails |-> MaxFails, restarts |-> MaxRestarts]
Use(b) == used[b] < Bounds[b] /\ used' = [used EXCEPT ![b] = @ + 1]

Failing   == {"retrying", "down"}
WindowShut == HasWindow /\ ~ open

-------------------------------------------------------------------------------
(* A worker as New makes it; Run makes a first pass at once. *)

\* New: a copy, a stop or a hold does not outlive the process.
NewStatus(saved) == IF saved \in {"copying", "stopped", "held"} THEN "idle" ELSE saved

Init ==
    /\ status = "idle" /\ behind = 0
    /\ stops = 0 /\ wakes = 0 /\ wakesAtStop = 0 /\ passWakes = 0 /\ listWakes = 0
    /\ paused = FALSE /\ token = FALSE /\ sends = 0 /\ halted = FALSE
    /\ pc = "go" /\ parked = FALSE /\ my = 0 /\ timer = "none" /\ stage = "copy"
    /\ seen = 0 /\ seenWakes = 0 /\ before = -1 /\ lastTarget = -1
    /\ proc = "none" /\ dying = FALSE /\ goal = 0
    /\ recounts = 0 /\ recount = "none" /\ recountDue = FALSE
    /\ recountFresh = FALSE /\ recountLocal = 0
    /\ watch = "waiting" /\ open \in {TRUE, ~ HasWindow}
    /\ local = 1 /\ target = 0 /\ unsaid = 0
    /\ used = [b \in DOMAIN Bounds |-> 0]

\* The daemon's process ends, its duplicacy with it, and a new one starts.  A
\* backup's word that local changed may be lost meanwhile.
Restart ==
    /\ Use("restarts")
    /\ status' = NewStatus(status)
    /\ stops' = 0 /\ wakes' = 0 /\ wakesAtStop' = 0 /\ passWakes' = 0 /\ listWakes' = 0
    /\ paused' = FALSE /\ token' = FALSE /\ sends' = 0 /\ halted' = FALSE
    /\ pc' = "go" /\ parked' = FALSE /\ my' = 0 /\ timer' = "none" /\ stage' = "copy"
    /\ seen' = 0 /\ seenWakes' = 0 /\ before' = -1 /\ lastTarget' = -1
    /\ proc' = "none" /\ dying' = FALSE /\ goal' = 0
    /\ recounts' = 0 /\ recount' = "none" /\ recountDue' = FALSE
    /\ recountFresh' = FALSE /\ recountLocal' = 0
    /\ watch' = "waiting" /\ unsaid' \in {unsaid, 0}
    /\ UNCHANGED <<behind, open, local, target>>

-------------------------------------------------------------------------------
(* The calls that reach the worker *)

\* External: a backup puts a revision on local; the Wake that says so follows.
Backup ==
    /\ Use("backups")
    /\ local' = local + 1 /\ unsaid' = unsaid + 1
    /\ UNCHANGED <<stateVars, ctlVars, passVars, listVars, cmdVars, recountVars,
                   windowVars, target>>

\* Wake, under the lock: a running check is ended, since a copy comes first.
Wake ==
    /\ unsaid > 0
    /\ unsaid' = 0
    /\ wakes' = wakes + 1 /\ sends' = sends + 1 /\ halted' = FALSE
    /\ dying' = (dying \/ (proc # "none" /\ stage = "check"))
    /\ UNCHANGED <<stateVars, stops, wakesAtStop, paused, token, passVars, listVars,
                   proc, goal, recountVars, windowVars, local, target, used>>

\* Mutant of WakeSend: a wake that finds the worker busy is dropped.
WakeSendIdle ==
    /\ sends > 0
    /\ sends' = sends - 1 /\ token' = (token \/ pc = "wait") /\ recounts' = recounts + 1
    /\ UNCHANGED <<stateVars, stops, wakes, wakesAtStop, paused, halted, passVars, listVars,
                   cmdVars, recount, recountDue, recountFresh, recountLocal,
                   windowVars, dataVars, used>>

\* The rest of Wake: the token, unless one is there, and a recount.
WakeSend ==
    /\ sends > 0
    /\ sends' = sends - 1 /\ token' = TRUE /\ recounts' = recounts + 1
    /\ UNCHANGED <<stateVars, stops, wakes, wakesAtStop, paused, halted, passVars, listVars,
                   cmdVars, recount, recountDue, recountFresh, recountLocal,
                   windowVars, dataVars, used>>

\* SIGCONT to a frozen command.
Thaw == proc' = IF proc = "frozen" THEN "running" ELSE proc

\* Stop
Stop ==
    /\ Use("stops")
    /\ stops' = stops + 1 /\ wakesAtStop' = wakes /\ token' = FALSE
    /\ paused' = FALSE /\ parked' = FALSE
    /\ status' = "stopped"
    /\ dying' = (proc # "none") /\ Thaw
    /\ halted' = TRUE
    /\ UNCHANGED <<behind, wakes, sends, pc, my, timer, stage, passWakes, listVars,
                   goal, recountVars, windowVars, dataVars>>

\* Pause
Pause ==
    /\ ~ paused
    /\ Use("pauses")
    /\ paused' = TRUE
    /\ proc' = IF proc = "running" THEN "frozen" ELSE proc
    /\ UNCHANGED <<stateVars, stops, wakes, wakesAtStop, token, sends, halted, passVars,
                   listVars, dying, goal, recountVars, windowVars, dataVars>>

\* Mutant of Resume: the channel a parked pass waits on is not closed.
ResumeParked ==
    /\ paused
    /\ paused' = FALSE
    /\ Thaw
    /\ UNCHANGED <<stateVars, stops, wakes, wakesAtStop, token, sends, halted, passVars,
                   listVars, dying, goal, recountVars, windowVars, dataVars, used>>

\* Resume
Resume ==
    /\ paused
    /\ paused' = FALSE
    /\ parked' = FALSE
    /\ Thaw
    /\ UNCHANGED <<stateVars, stops, wakes, wakesAtStop, token, sends, halted, pc, my, timer,
                   stage, passWakes, listVars, dying, goal, recountVars, windowVars,
                   dataVars, used>>

-------------------------------------------------------------------------------
(* The copy window: watchWindow *)

\* markHeld: a failure keeps its status.
MarkHeld == status' = IF status \in Failing THEN status ELSE "held"

\* The clock passes an edge of the window, and watchWindow's timer fires.
WindowCloses ==
    /\ HasWindow /\ open /\ watch = "waiting"
    /\ Use("closes")
    /\ open' = FALSE /\ watch' = "hold"
    /\ UNCHANGED <<stateVars, ctlVars, passVars, listVars, cmdVars, recountVars, dataVars>>

WindowOpens ==
    /\ HasWindow /\ ~ open /\ watch = "waiting"
    /\ open' = TRUE /\ watch' = "nudge"
    /\ UNCHANGED <<stateVars, ctlVars, passVars, listVars, cmdVars, recountVars, dataVars, used>>

\* hold, of a stopped worker
HoldStopped ==
    /\ watch = "hold"
    /\ status = "stopped"
    /\ watch' = "waiting"
    /\ UNCHANGED <<stateVars, ctlVars, passVars, listVars, cmdVars, recountVars, open,
                   dataVars, used>>

\* hold: like a stop, but the worker carries on by itself.
Hold ==
    /\ watch = "hold"
    /\ status # "stopped"
    /\ watch' = "waiting"
    /\ stops' = stops + 1
    /\ MarkHeld
    /\ dying' = (proc # "none")
    /\ Thaw
    /\ UNCHANGED <<behind, wakes, wakesAtStop, paused, token, sends, halted, passVars,
                   listVars, goal, recountVars, open, dataVars, used>>

\* nudge, as the window opens
Nudge ==
    /\ watch = "nudge"
    /\ watch' = "waiting" /\ token' = TRUE
    /\ UNCHANGED <<stateVars, stops, wakes, wakesAtStop, paused, sends, halted, passVars,
                   listVars, cmdVars, recountVars, open, dataVars, used>>

-------------------------------------------------------------------------------
(* Run *)

Goto(l) == pc' = l /\ UNCHANGED <<parked, my, timer, stage, passWakes>>
Ended   == stops # my

\* The top of the loop: what the select will wait for.
Arm ==
    /\ pc = "top"
    /\ pc' = "wait"
    /\ timer' = IF status = "stopped" \/ WindowShut THEN "none"
                ELSE IF status \in Failing THEN "retry" ELSE "safety"
    /\ UNCHANGED <<stateVars, ctlVars, parked, my, stage, passWakes, listVars, cmdVars, recountVars,
                   windowVars, dataVars, used>>

Woken ==
    /\ pc = "wait"
    /\ token
    /\ token' = FALSE
    /\ pc' = "go" /\ timer' = "none"
    /\ UNCHANGED <<parked, my, stage, passWakes, stateVars, stops, wakes, wakesAtStop, paused, sends, halted, listVars,
                   cmdVars, recountVars, windowVars, dataVars, used>>

\* A retry, or the next check, exhaustive prune or SafetyWake, falls due.
Due(t) ==
    /\ pc = "wait"
    /\ timer = t
    /\ pc' = "go" /\ timer' = "none"
    /\ UNCHANGED <<parked, my, stage, passWakes, stateVars, ctlVars, listVars, cmdVars, recountVars, windowVars,
                   dataVars, used>>

\* Stopped, and not woken since: back to the select.
StayStopped ==
    /\ pc = "go"
    /\ status = "stopped" /\ wakes = wakesAtStop
    /\ Goto("top")
    /\ UNCHANGED <<stateVars, ctlVars, listVars, cmdVars, recountVars, windowVars,
                   dataVars, used>>

Dispatch ==
    /\ pc = "go"
    /\ status # "stopped" \/ wakes # wakesAtStop
    /\ status' = IF status = "stopped" THEN "idle" ELSE status
    /\ my' = stops /\ passWakes' = wakes
    /\ pc' = "pass" /\ stage' = "copy" /\ before' = -1
    /\ UNCHANGED <<behind, ctlVars, parked, timer, seen, seenWakes, lastTarget,
                   listWakes, cmdVars, recountVars, windowVars, dataVars, used>>

-------------------------------------------------------------------------------
(* pass *)

\* pass begins, unless a stop came since it was dispatched.
PassBegin ==
    /\ pc = "pass"
    /\ Goto(IF Ended THEN "top" ELSE "window")
    /\ UNCHANGED <<stateVars, ctlVars, listVars, cmdVars, recountVars, windowVars,
                   dataVars, used>>

\* outsideWindow, under the lock it takes again.
OutsideWindow ==
    /\ pc = "window"
    /\ IF WindowShut
       THEN MarkHeld /\ Goto("top")
       ELSE UNCHANGED status /\ Goto("ready1")
    /\ UNCHANGED <<behind, ctlVars, listVars, cmdVars, recountVars, windowVars,
                   dataVars, used>>

\* Where ready lets a pass go on: to the probe, to a listing; run's own call of
\* it is part of Start.
Onward == [ready1 |-> "contact", ready2 |-> "list"]

\* ready: a pass waits out a pause; Resume and Stop wake it, hold does not.
Ready ==
    /\ pc \in DOMAIN Onward /\ ~ parked
    /\ Ended \/ ~ paused
    /\ Goto(IF Ended THEN "end" ELSE Onward[pc])
    /\ seenWakes' = wakes
    /\ UNCHANGED <<stateVars, ctlVars, seen, before, lastTarget, listWakes, cmdVars,
                   recountVars, windowVars, dataVars, used>>

Park ==
    /\ pc \in DOMAIN Onward \cup {"start"} /\ ~ parked
    /\ ~ Ended /\ paused
    /\ parked' = TRUE
    /\ UNCHANGED <<stateVars, ctlVars, pc, my, timer, stage, passWakes, listVars, cmdVars,
                   recountVars, windowVars, dataVars, used>>

\* failed, under the lock: a stop since the pass began wins.  How long the
\* target has been failing, and so whether it counts as down, is left open.
Failed ==
    /\ pc' = "end" /\ UNCHANGED <<parked, my, timer, stage, passWakes>>
    /\ IF Ended
       THEN UNCHANGED status
       ELSE status' \in Failing
    /\ UNCHANGED behind

\* A probe, preparation, listing, registration, lock or start fails, and the
\* pass with it; a check that cannot start only reports so.
FailStep ==
    /\ pc \in {"contact", "list", "upkeep", "start"} /\ ~ parked
    /\ Use("fails")
    /\ IF pc = "start" /\ stage = "check"
       THEN Goto("caughtup") /\ UNCHANGED stateVars
       ELSE Failed
    /\ UNCHANGED <<ctlVars, listVars, cmdVars, recountVars, windowVars, dataVars>>

\* reachable and Prepare pass.
Contact ==
    /\ pc = "contact"
    /\ Goto("ready2")
    /\ UNCHANGED <<stateVars, ctlVars, listVars, cmdVars, recountVars, windowVars,
                   dataVars, used>>

\* missing lists local, then the target, which only this worker adds to; it has
\* read the wakes first (Ready).
List ==
    /\ pc = "list"
    /\ seen' = local
    /\ Goto("listed")
    /\ UNCHANGED <<stateVars, ctlVars, seenWakes, before, lastTarget, listWakes, cmdVars,
                   recountVars, windowVars, dataVars, used>>

\* The rest of missing, and what pass does with it.  A copy that left a revision
\* it was meant to send missing fails the pass.
Listed ==
    /\ pc = "listed"
    /\ lastTarget' = target /\ listWakes' = seenWakes
    /\ recountFresh' = FALSE
    /\ before' = seen
    /\ IF ~ Ended /\ seen > target /\ before > target
       THEN Failed
       ELSE /\ behind' = IF seen = target THEN 0 ELSE behind
            /\ Goto(IF Ended THEN "end" ELSE IF seen = target THEN "upkeep" ELSE "start")
            /\ UNCHANGED status
    /\ UNCHANGED <<ctlVars, seen, seenWakes, cmdVars, recounts, recount, recountDue,
                   recountLocal, windowVars, dataVars, used>>

\* upkeep: mirror and the exhaustive prune, if this deployment maintains the
\* target and one is due, then the check, if due and nothing has woken the worker
\* since the pass began.
Upkeep ==
    /\ pc = "upkeep"
    /\ \/ /\ \/ stage = "copy" /\ stage' = "mirror"
             \/ stage = "mirror" /\ stage' = "prune"
             \/ wakes = passWakes /\ stage' = "check"
          /\ pc' = "start"
       \/ UNCHANGED stage /\ pc' = "caughtup"
    /\ UNCHANGED <<stateVars, ctlVars, parked, my, timer, passWakes, listVars, cmdVars,
                   recountVars, windowVars, dataVars, used>>

-------------------------------------------------------------------------------
(* run: one duplicacy command *)

\* Whether a check gives way to a backup that has come meanwhile.
CheckYields == stage = "check" /\ wakes # passWakes

StatusOf == [copy |-> "copying", mirror |-> "mirroring", prune |-> "pruning",
             check |-> "checking"]

\* Mutant of Start: the pause is not looked at again under the lock.
StartPaused ==
    /\ pc = "start" /\ ~ parked
    /\ ~ Ended /\ ~ CheckYields
    /\ proc' = "running" /\ dying' = FALSE /\ goal' = local
    /\ status' = StatusOf[stage]
    /\ behind' = IF stage = "copy" THEN seen - target ELSE behind
    /\ Goto("running")
    /\ UNCHANGED <<ctlVars, listVars, recountVars, windowVars, dataVars, used>>

\* Mutant of Start: a stop since the pass began is not looked at.
StartStopped ==
    /\ pc = "start" /\ ~ parked
    /\ ~ CheckYields /\ ~ paused
    /\ proc' = "running" /\ dying' = FALSE /\ goal' = local
    /\ status' = StatusOf[stage]
    /\ behind' = IF stage = "copy" THEN seen - target ELSE behind
    /\ Goto("running")
    /\ UNCHANGED <<ctlVars, listVars, recountVars, windowVars, dataVars, used>>

\* Mutant of Start: a check does not look for wakes.
StartCheck ==
    /\ pc = "start" /\ ~ parked
    /\ ~ Ended /\ ~ paused
    /\ proc' = "running" /\ dying' = FALSE /\ goal' = local
    /\ status' = StatusOf[stage]
    /\ behind' = IF stage = "copy" THEN seen - target ELSE behind
    /\ Goto("running")
    /\ UNCHANGED <<ctlVars, listVars, recountVars, windowVars, dataVars, used>>

\* Started and made current under the lock, so a pause or a stop sees it.
Start ==
    /\ pc = "start" /\ ~ parked
    /\ ~ Ended /\ ~ CheckYields /\ ~ paused
    /\ proc' = "running" /\ dying' = FALSE /\ goal' = local
    /\ status' = StatusOf[stage]
    /\ behind' = IF stage = "copy" THEN seen - target ELSE behind
    /\ Goto("running")
    /\ UNCHANGED <<ctlVars, listVars, recountVars, windowVars, dataVars, used>>

\* A stop or a wake prevented it.
NotStarted ==
    /\ pc = "start" /\ ~ parked
    /\ Ended \/ CheckYields
    /\ Goto(IF Ended THEN "end" ELSE "caughtup")
    /\ UNCHANGED <<stateVars, ctlVars, listVars, cmdVars, recountVars, windowVars,
                   dataVars, used>>

\* External, duplicacy: a copy's revisions reach the target one by one.
CopyOne ==
    /\ proc = "running" /\ stage = "copy"
    /\ target < goal
    /\ target' = target + 1
    /\ UNCHANGED <<stateVars, ctlVars, passVars, listVars, cmdVars, recountVars,
                   windowVars, local, unsaid, used>>

\* External: the command ends by itself, well or not (a copy may even
\* report success and have left a revision out), or is terminated (INT,
\* TERM, then KILL, which ends even a frozen one).
Exit ==
    \/ /\ proc = "running" /\ (stage = "copy" => target = goal)
       /\ proc' = "good"
       /\ UNCHANGED used
    \/ /\ proc = "running" /\ Use("fails")
       /\ proc' \in {"good", "bad"}
    \/ /\ proc \in {"running", "frozen"} /\ dying
       /\ proc' = "bad"
       /\ UNCHANGED used
ExitStep ==
    /\ Exit
    /\ UNCHANGED <<stateVars, ctlVars, passVars, listVars, dying, goal, recountVars,
                   windowVars, dataVars>>

\* Wait returns: a stop or an interrupted check outweighs how it ended; a failed
\* check is reported and changes nothing else.
Reap ==
    /\ pc = "running"
    /\ proc \in {"good", "bad"}
    /\ proc' = "none" /\ dying' = FALSE /\ goal' = 0
    /\ IF ~ Ended /\ ~ CheckYields /\ proc = "bad" /\ stage # "check"
       THEN Failed
       ELSE /\ Goto(IF Ended THEN "end"
                    ELSE IF stage = "copy" THEN "ready2"
                    ELSE IF stage = "check" THEN "caughtup" ELSE "upkeep")
            /\ UNCHANGED stateVars
    /\ UNCHANGED <<ctlVars, listVars, recountVars, windowVars, dataVars, used>>

\* upkeep's deferred return to idle, and caughtUp.
CaughtUp ==
    /\ pc = "caughtup"
    /\ Goto("end")
    /\ IF Ended
       THEN UNCHANGED stateVars
       ELSE /\ status' = "idle"
            /\ behind' = IF wakes = listWakes THEN 0 ELSE behind
    /\ UNCHANGED <<ctlVars, listVars, cmdVars, recountVars, windowVars,
                   dataVars, used>>

\* pass returns.  What only the pass used is set back: the next one sets it anew.
PassEnd ==
    /\ pc = "end"
    /\ pc' = "top"
    /\ my' = 0 /\ stage' = "copy" /\ passWakes' = 0
    /\ seen' = 0 /\ seenWakes' = 0 /\ before' = -1
    /\ UNCHANGED <<stateVars, ctlVars, parked, timer, lastTarget, listWakes, cmdVars,
                   recountVars, windowVars, dataVars, used>>

-------------------------------------------------------------------------------
(* recount *)

\* Whether a pass will not list for a while yet.
Busy == lastTarget # -1 /\ ~ paused
        /\ status \in {"mirroring", "pruning", "copying", "held"}

\* The loop's top, under the lock.
RecountOn ==
    /\ recountDue' = FALSE
    /\ IF Busy THEN recount' = "listing" /\ recountFresh' = TRUE
               ELSE recount' = "none" /\ recountFresh' = FALSE

\* recount begins; one that finds another at work leaves it a note.
RecountBegin ==
    /\ recounts > 0
    /\ recounts' = recounts - 1
    /\ IF recount # "none"
       THEN recountDue' = TRUE /\ UNCHANGED <<recount, recountFresh>>
       ELSE RecountOn
    /\ UNCHANGED <<stateVars, ctlVars, passVars, listVars, cmdVars, recountLocal,
                   windowVars, dataVars, used>>

RecountList ==
    /\ recount = "listing"
    /\ \/ recount' = "listed" /\ recountLocal' = local /\ UNCHANGED <<recountFresh, used>>
       \/ /\ recount' = "none" /\ recountFresh' = FALSE /\ UNCHANGED recountLocal
          /\ Use("fails")
    /\ UNCHANGED <<stateVars, ctlVars, passVars, listVars, cmdVars, recounts, recountDue,
                   windowVars, dataVars>>

\* The count is dropped if a pass has listed meanwhile; round again if asked.
RecountEnd ==
    /\ recount = "listed"
    /\ behind' = IF recountFresh THEN recountLocal - lastTarget ELSE behind
    /\ IF recountDue THEN RecountOn
                     ELSE recount' = "none" /\ recountFresh' = FALSE /\ UNCHANGED recountDue
    /\ recountLocal' = 0
    /\ UNCHANGED <<status, ctlVars, passVars, listVars, cmdVars, recounts,
                   windowVars, dataVars, used>>

-------------------------------------------------------------------------------
RunStep ==
    \/ Arm \/ Woken \/ Due("retry") \/ StayStopped \/ Dispatch \/ PassBegin
    \/ OutsideWindow \/ Ready \/ Park \/ Contact \/ List \/ Listed \/ Upkeep
    \/ Start \/ NotStarted \/ Reap \/ CaughtUp \/ PassEnd

Calls == Backup \/ Wake \/ WakeSend \/ Stop \/ Pause \/ Resume

Watcher == WindowCloses \/ WindowOpens \/ HoldStopped \/ Hold \/ Nudge

Recount == RecountBegin \/ RecountList \/ RecountEnd

Next ==
    \/ RunStep \/ Due("safety") \/ FailStep \/ CopyOne \/ ExitStep
    \/ Calls \/ Watcher \/ Recount \/ Restart

Spec == Init /\ [][Next]_vars

\* The goroutines run, commands end, Wake's callers get to it, a pause and a
\* closed window end.  Nothing is assumed of SafetyWake: six hours may never pass.
Fairness ==
    /\ WF_vars(RunStep) /\ WF_vars(CopyOne) /\ WF_vars(ExitStep)
    /\ WF_vars(Wake) /\ WF_vars(WakeSend) /\ WF_vars(Resume)
    /\ WF_vars(WindowOpens) /\ WF_vars(HoldStopped \/ Hold \/ Nudge)

FairSpec == Spec /\ Fairness

-------------------------------------------------------------------------------
(* Properties *)

Statuses == {"idle", "copying", "retrying", "down", "stopped", "held",
             "mirroring", "pruning", "checking"}

\* The type invariant: among the rest, no count of revisions behind goes below
\* zero.
TypeOK ==
    /\ status \in Statuses
    /\ {behind, stops, wakes, wakesAtStop, passWakes, listWakes, my, seen, seenWakes,
        goal, sends, recounts, recountLocal, local, target, unsaid} \subseteq Nat
    /\ {before, lastTarget} \subseteq Nat \cup {-1}
    /\ {paused, token, parked, dying, recountDue, recountFresh, open, halted} \subseteq BOOLEAN
    /\ pc \in {"top", "wait", "go", "pass", "window", "ready1", "contact", "ready2", "list",
               "listed", "start", "running", "upkeep", "caughtup", "end"}
    /\ timer \in {"none", "retry", "safety"}
    /\ stage \in {"copy", "mirror", "prune", "check"}
    /\ proc \in {"none", "running", "frozen", "good", "bad"}
    /\ recount \in {"none", "listing", "listed"}
    /\ watch \in {"waiting", "hold", "nudge"}
    /\ used \in [DOMAIN Bounds -> Nat]

\* A command at work on the target that nothing has told to end.
Working == proc \in {"running", "frozen"} /\ ~ dying

\* worker.go, `stops': "a stop wins wherever it lands"; ADR 15: "each worker
\* copies again when local next changes".  From a Stop to the next Wake no
\* command runs but one that is being ended.
StopHolds == halted => ~ Working

\* "Pause freezes a running copy and starts nothing new until Resume."
PauseHolds == paused /\ Working => proc = "frozen"

\* docs/storage.md: outside the window the worker copies, mirrors, prunes and
\* checks nothing, once watchWindow has seen it close.
WindowHolds == WindowShut /\ watch = "waiting" => ~ Working

\* "a check never delays a copy": none goes on once a backup has come since its
\* pass began.
CheckGivesWay == stage = "check" /\ wakes # passWakes => ~ Working

\* A worker that rests idle, every change told, has the target caught up and
\* says so: no Wake is lost to a pass, a stop, a pause or a window, and no recount
\* that ends late leaves a stale count.
IdleCaughtUp ==
    pc = "wait" /\ status = "idle" /\ ~ token /\ unsaid = 0 /\ sends = 0
    => target = local /\ behind = 0

\* A worker left alone catches up, however stops, pauses, windows, failures and
\* restarts fell before: unless it is stopped and no backup has come since.
CatchesUp == <>[](halted \/ target = local)

===============================================================================
