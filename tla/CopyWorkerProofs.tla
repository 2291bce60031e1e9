-------------------------- MODULE CopyWorkerProofs --------------------------
(***************************************************************************)
(* What one target's worker keeps through stops, pauses, wakes, windows,   *)
(* failures and restarts, in whatever number and wherever they fall.       *)
(*                                                                         *)
(* All of it rests on the two counts.  A pass has the stop count it was    *)
(* dispatched with, and whatever stops it raises the worker's (StopInv,    *)
(* WindowInv); so a command needs only to compare them as it starts.  A    *)
(* change of local that a listing missed is always on its way to the       *)
(* worker (Pending), so what a listing said either still holds or will be  *)
(* asked again (ListInv).                                                  *)
(*                                                                         *)
(* The container the workers run in comes last, as the instance Box of     *)
(* Container over ContainerState: how its stops and its end treat the runs *)
(* and the copies.                                                         *)
(***************************************************************************)
EXTENDS CopyWorker, ContainerState, TLAPS

\* Between a pass's dispatch and its return.
InPass    == pc \in {"pass", "window", "ready1", "contact", "ready2", "list", "listed",
                     "start", "running", "upkeep", "caughtup", "end"}
PastWindow == InPass /\ pc \notin {"pass", "window"}

\* The target has all that the pass's listing of local had.
CaughtTo == \/ pc \in {"upkeep", "caughtup"}
            \/ pc \in {"start", "running"} /\ stage # "copy"

\* The worker is done, and says that it has nothing to do.
Rests == pc \in {"end", "top", "wait"} /\ status = "idle"

\* Something will make it look again.
Pending == token \/ sends > 0 \/ unsaid > 0

\* A command is current while Run waits for it and only then.
CommandInv ==
    /\ proc # "none" <=> pc = "running"
    /\ dying => proc # "none"
    /\ pc \in {"pass", "window", "ready1", "contact", "ready2", "list", "listed"} => stage = "copy"

\* A pass that a stop has come into says neither that it is idle nor goes on,
\* and a stop is never forgotten within a pass.
StopInv ==
    /\ my <= stops
    /\ InPass /\ Ended => status # "idle"
    /\ InPass /\ status = "stopped" => Ended
    /\ status = "stopped" => ~ Working
    /\ halted => wakes = wakesAtStop
    /\ halted /\ ~ HasWindow => status = "stopped"

\* Once the close of a window has been seen, a pass that began in it is ended.
WindowInv ==
    /\ watch = "nudge" => open
    /\ watch # "waiting" => HasWindow
    /\ WindowShut /\ watch = "waiting" /\ PastWindow => Ended

\* What a listing knows holds while nothing has ended its pass, or something
\* will make the worker look again.
ListInv ==
    /\ target <= local /\ seen <= local /\ lastTarget <= target
    /\ pc = "listed" => target <= seen
    /\ pc = "start" /\ stage = "copy" => target < seen
    /\ pc = "running" /\ stage = "copy" => target <= goal /\ goal <= local
    /\ pc \in {"listed", "start", "running", "upkeep", "caughtup"} /\ ~ Ended =>
           seen = local \/ Pending
    /\ CaughtTo => target = seen /\ lastTarget = target
    /\ CaughtTo /\ ~ Ended => behind = 0 \/ Pending
    /\ Rests => /\ lastTarget = target
                /\ target = local \/ Pending
                /\ behind = 0 \/ Pending

\* A recount that still counts is of the last listing of the target.
RecountInv ==
    /\ recount # "none" /\ recountFresh => lastTarget # -1
    /\ recount = "listed" => recountLocal <= local
    /\ recount = "listed" /\ recountFresh => lastTarget <= recountLocal

IInv == /\ TypeOK /\ CommandInv /\ StopInv /\ WindowInv /\ ListInv /\ RecountInv
        /\ PauseHolds /\ CheckGivesWay /\ WindowHolds

-------------------------------------------------------------------------------
(* The types: no count ever falls below zero. *)

Numbers ==
    /\ behind \in Nat /\ stops \in Nat /\ wakes \in Nat /\ wakesAtStop \in Nat
    /\ passWakes \in Nat /\ listWakes \in Nat /\ my \in Nat /\ seen \in Nat
    /\ seenWakes \in Nat /\ goal \in Nat /\ sends \in Nat /\ recounts \in Nat
    /\ recountLocal \in Nat /\ local \in Nat /\ target \in Nat /\ unsaid \in Nat
    /\ before \in Nat \cup {-1} /\ lastTarget \in Nat \cup {-1}

Switches ==
    /\ paused \in BOOLEAN /\ token \in BOOLEAN /\ parked \in BOOLEAN /\ dying \in BOOLEAN
    /\ recountDue \in BOOLEAN /\ recountFresh \in BOOLEAN /\ open \in BOOLEAN
    /\ halted \in BOOLEAN

Places ==
    /\ status \in Statuses
    /\ pc \in {"top", "wait", "go", "pass", "window", "ready1", "contact", "ready2", "list",
               "listed", "start", "running", "upkeep", "caughtup", "end"}
    /\ timer \in {"none", "retry", "safety"}
    /\ stage \in {"copy", "mirror", "prune", "check"}
    /\ proc \in {"none", "running", "frozen", "good", "bad"}
    /\ recount \in {"none", "listing", "listed"}
    /\ watch \in {"waiting", "hold", "nudge"}

UsedOK == used \in [DOMAIN Bounds -> Nat]

\* TypeOK in its parts.
LEMMA Parts == TypeOK <=> Numbers /\ Switches /\ Places /\ UsedOK
BY DEF TypeOK, Numbers, Switches, Places, UsedOK

\* What is subtracted is never more than what it is subtracted from: a copy starts for a
\* target that lacks something, and a recount that still counts lists local later.
LEMMA NumbersKept ==
    ASSUME Numbers, ListInv, RecountInv, [Next]_vars
    PROVE  Numbers'
<1> USE DEF Numbers, ListInv, RecountInv, stateVars, ctlVars, passVars, listVars,
            cmdVars, recountVars, windowVars, dataVars, vars
<1>1. CASE Calls
  BY <1>1 DEF Calls, Backup, Wake, WakeSend, Stop, Pause, Resume, Thaw
<1>2. CASE Watcher
  BY <1>2 DEF Watcher, WindowCloses, WindowOpens, HoldStopped, Hold, Nudge, Thaw,
     MarkHeld
<1>3. CASE Recount
  BY <1>3 DEF Recount, RecountBegin, RecountOn, RecountList, RecountEnd
<1>4. CASE Restart
  BY <1>4 DEF Restart, NewStatus
<1>5. CASE CopyOne \/ ExitStep
  BY <1>5 DEF CopyOne, ExitStep, Exit
<1>6. CASE FailStep
  BY <1>6 DEF FailStep, Failed, Goto
<1>7. CASE Arm \/ Woken \/ Due("retry") \/ Due("safety") \/ StayStopped \/ Dispatch
  BY <1>7 DEF Arm, Woken, Due, StayStopped, Dispatch, Goto
<1>8. CASE PassBegin \/ OutsideWindow \/ Ready \/ Park \/ Contact
  BY <1>8 DEF PassBegin, OutsideWindow, MarkHeld, Ready, Onward, Park, Contact, Goto
<1>9. CASE List \/ Listed \/ Upkeep
  BY <1>9 DEF List, Listed, Upkeep, Failed, Goto
<1>10. CASE Start
  BY <1>10 DEF Start, StatusOf, Goto
<1>11. CASE NotStarted \/ Reap \/ CaughtUp \/ PassEnd
  BY <1>11 DEF NotStarted, Reap, CaughtUp, PassEnd, Failed, Goto
<1>12. CASE UNCHANGED vars
  BY <1>12
<1>13. QED
  BY <1>1, <1>2, <1>3, <1>4, <1>5, <1>6, <1>7, <1>8, <1>9, <1>10, <1>11, <1>12 DEF Next,
     RunStep

\* The switches stay switches.
LEMMA SwitchesKept ==
    ASSUME Switches, [Next]_vars
    PROVE  Switches'
<1> USE DEF Switches, stateVars, ctlVars, passVars, listVars, cmdVars, recountVars,
            windowVars, dataVars, vars
<1>1. CASE Calls
  BY <1>1, ZenonT(40) DEF Calls, Backup, Wake, WakeSend, Stop, Pause, Resume, Thaw
<1>2. CASE Watcher
  BY <1>2, ZenonT(40) DEF Watcher, WindowCloses, WindowOpens, HoldStopped, Hold, Nudge, Thaw,
     MarkHeld
<1>3. CASE Recount
  BY <1>3 DEF Recount, RecountBegin, RecountOn, RecountList, RecountEnd
<1>4. CASE Restart
  BY <1>4 DEF Restart, NewStatus
<1>5. CASE CopyOne \/ ExitStep
  BY <1>5 DEF CopyOne, ExitStep, Exit
<1>6. CASE FailStep
  BY <1>6 DEF FailStep, Failed, Goto
<1>7. CASE Arm \/ Woken \/ Due("retry") \/ Due("safety") \/ StayStopped \/ Dispatch
  BY <1>7, ZenonT(40) DEF Arm, Woken, Due, StayStopped, Dispatch, Goto
<1>8. CASE PassBegin \/ OutsideWindow \/ Ready \/ Park \/ Contact
  BY <1>8, ZenonT(40) DEF PassBegin, OutsideWindow, MarkHeld, Ready, Onward, Park, Contact, Goto
<1>9. CASE List \/ Listed \/ Upkeep
  BY <1>9 DEF List, Listed, Upkeep, Failed, Goto
<1>10. CASE Start
  BY <1>10 DEF Start, StatusOf, Goto
<1>11. CASE NotStarted \/ Reap \/ CaughtUp \/ PassEnd
  BY <1>11, ZenonT(40) DEF NotStarted, Reap, CaughtUp, PassEnd, Failed, Goto
<1>12. CASE UNCHANGED vars
  BY <1>12
<1>13. QED
  BY <1>1, <1>2, <1>3, <1>4, <1>5, <1>6, <1>7, <1>8, <1>9, <1>10, <1>11, <1>12 DEF Next,
     RunStep

\* Every place a step goes to is one there is.
LEMMA PlacesKept ==
    ASSUME Places, [Next]_vars
    PROVE  Places'
<1> USE DEF Places, Statuses, Failing, stateVars, ctlVars, passVars, listVars, cmdVars,
            recountVars, windowVars, dataVars, vars
<1>1. CASE Calls
  BY <1>1 DEF Calls, Backup, Wake, WakeSend, Stop, Pause, Resume, Thaw
<1>2. CASE Watcher
  BY <1>2 DEF Watcher, WindowCloses, WindowOpens, HoldStopped, Hold, Nudge, Thaw,
     MarkHeld
<1>3. CASE Recount
  BY <1>3 DEF Recount, RecountBegin, RecountOn, RecountList, RecountEnd
<1>4. CASE Restart
  BY <1>4 DEF Restart, NewStatus
<1>5. CASE CopyOne \/ ExitStep
  BY <1>5 DEF CopyOne, ExitStep, Exit
<1>6. CASE FailStep
  BY <1>6 DEF FailStep, Failed, Goto
<1>7. CASE Arm \/ Woken \/ Due("retry") \/ Due("safety") \/ StayStopped \/ Dispatch
  BY <1>7 DEF Arm, Woken, Due, StayStopped, Dispatch, Goto
<1>8. CASE PassBegin \/ OutsideWindow \/ Ready \/ Park \/ Contact
  BY <1>8 DEF PassBegin, OutsideWindow, MarkHeld, Ready, Onward, Park, Contact, Goto
<1>9. CASE List \/ Listed \/ Upkeep
  BY <1>9 DEF List, Listed, Upkeep, Failed, Goto
<1>10. CASE Start
  BY <1>10 DEF Start, StatusOf, Goto
<1>11. CASE NotStarted \/ Reap \/ CaughtUp \/ PassEnd
  BY <1>11 DEF NotStarted, Reap, CaughtUp, PassEnd, Failed, Goto
<1>12. CASE UNCHANGED vars
  BY <1>12
<1>13. QED
  BY <1>1, <1>2, <1>3, <1>4, <1>5, <1>6, <1>7, <1>8, <1>9, <1>10, <1>11, <1>12 DEF Next,
     RunStep

\* The bounds' counters are counted up one at a time.
LEMMA UsedKept ==
    ASSUME UsedOK, [Next]_vars
    PROVE  UsedOK'
<1> USE DEF UsedOK, Use, Bounds, stateVars, ctlVars, passVars, listVars, cmdVars,
            recountVars, windowVars, dataVars, vars
<1>1. CASE Calls
  BY <1>1 DEF Calls, Backup, Wake, WakeSend, Stop, Pause, Resume, Thaw
<1>2. CASE Watcher
  BY <1>2 DEF Watcher, WindowCloses, WindowOpens, HoldStopped, Hold, Nudge, Thaw,
     MarkHeld
<1>3. CASE Recount
  BY <1>3 DEF Recount, RecountBegin, RecountOn, RecountList, RecountEnd
<1>4. CASE Restart
  BY <1>4 DEF Restart, NewStatus
<1>5. CASE CopyOne \/ ExitStep
  BY <1>5 DEF CopyOne, ExitStep, Exit
<1>6. CASE FailStep
  BY <1>6 DEF FailStep, Failed, Goto
<1>7. CASE Arm \/ Woken \/ Due("retry") \/ Due("safety") \/ StayStopped \/ Dispatch
  BY <1>7 DEF Arm, Woken, Due, StayStopped, Dispatch, Goto
<1>8. CASE PassBegin \/ OutsideWindow \/ Ready \/ Park \/ Contact
  BY <1>8 DEF PassBegin, OutsideWindow, MarkHeld, Ready, Onward, Park, Contact, Goto
<1>9. CASE List \/ Listed \/ Upkeep
  BY <1>9 DEF List, Listed, Upkeep, Failed, Goto
<1>10. CASE Start
  BY <1>10 DEF Start, StatusOf, Goto
<1>11. CASE NotStarted \/ Reap \/ CaughtUp \/ PassEnd
  BY <1>11 DEF NotStarted, Reap, CaughtUp, PassEnd, Failed, Goto
<1>12. CASE UNCHANGED vars
  BY <1>12
<1>13. QED
  BY <1>1, <1>2, <1>3, <1>4, <1>5, <1>6, <1>7, <1>8, <1>9, <1>10, <1>11, <1>12 DEF Next,
     RunStep

-------------------------------------------------------------------------------
(* The parts of the invariant *)

\* Run makes a command current as it starts it and none as its Wait returns, and does nothing
\* else meanwhile.
LEMMA CommandKept ==
    ASSUME TypeOK, CommandInv, [Next]_vars
    PROVE  CommandInv'
<1> USE DEF TypeOK, CommandInv, CheckYields, Ended, stateVars, ctlVars, passVars,
            listVars, cmdVars, recountVars, windowVars, dataVars, vars
<1>1. CASE Calls
  <2>1. CASE Backup
    BY <2>1 DEF Backup
  <2>2. CASE Wake
    BY <2>2 DEF Wake
  <2>3. CASE WakeSend
    BY <2>3 DEF WakeSend
  <2>4. CASE Stop
    BY <2>4 DEF Stop, Thaw
  <2>5. CASE Pause
    BY <2>5 DEF Pause
  <2>6. CASE Resume
    BY <2>6 DEF Resume, Thaw
  <2>7. QED
    BY <1>1, <2>1, <2>2, <2>3, <2>4, <2>5, <2>6 DEF Calls
<1>2. CASE Watcher
  <2>1. CASE WindowCloses
    BY <2>1 DEF WindowCloses
  <2>2. CASE WindowOpens
    BY <2>2 DEF WindowOpens
  <2>3. CASE HoldStopped
    BY <2>3 DEF HoldStopped
  <2>4. CASE Hold
    BY <2>4 DEF Hold, Thaw, MarkHeld
  <2>5. CASE Nudge
    BY <2>5 DEF Nudge
  <2>6. QED
    BY <1>2, <2>1, <2>2, <2>3, <2>4, <2>5 DEF Watcher
<1>3. CASE Recount
  BY <1>3 DEF Recount, RecountBegin, RecountOn, RecountList, RecountEnd
<1>4. CASE Restart
  BY <1>4 DEF Restart, NewStatus
<1>5. CASE CopyOne \/ ExitStep
  BY <1>5 DEF CopyOne, ExitStep, Exit
<1>6. CASE FailStep
  BY <1>6 DEF FailStep, Failed, Goto
<1>7. CASE Arm \/ Woken \/ Due("retry") \/ Due("safety") \/ StayStopped \/ Dispatch
  BY <1>7 DEF Arm, Woken, Due, StayStopped, Dispatch, Goto
<1>8. CASE PassBegin \/ OutsideWindow \/ Ready \/ Park \/ Contact
  BY <1>8 DEF PassBegin, OutsideWindow, MarkHeld, Ready, Onward, Park, Contact, Goto
<1>9. CASE List \/ Listed \/ Upkeep
  BY <1>9 DEF List, Listed, Upkeep, Failed, Goto
<1>10. CASE Start
  BY <1>10 DEF Start, StatusOf, Goto
<1>11. CASE NotStarted \/ Reap \/ CaughtUp \/ PassEnd
  BY <1>11 DEF NotStarted, Reap, CaughtUp, PassEnd, Failed, Goto
<1>12. CASE UNCHANGED vars
  BY <1>12
<1>13. QED
  BY <1>1, <1>2, <1>3, <1>4, <1>5, <1>6, <1>7, <1>8, <1>9, <1>10, <1>11, <1>12 DEF Next,
     RunStep

\* A stop or a hold raises the count past the pass's own, and only a dispatch, which takes the
\* new count, lets a stopped worker be anything else (without a window).
LEMMA StopKept ==
    ASSUME TypeOK, CommandInv, StopInv, WindowInv, [Next]_vars
    PROVE  StopInv'
<1> USE DEF TypeOK, CommandInv, StopInv, WindowInv, InPass, Ended, Working, Failing,
            WindowShut, CheckYields, stateVars, ctlVars, passVars, listVars, cmdVars,
            recountVars, windowVars, dataVars, vars
<1>1. CASE Calls
  <2>1. CASE Backup
    BY <2>1 DEF Backup
  <2>2. CASE Wake
    BY <2>2 DEF Wake
  <2>3. CASE WakeSend
    BY <2>3 DEF WakeSend
  <2>4. CASE Stop
    <3>1. /\ my' <= stops' /\ (InPass /\ Ended => status # "idle")'
          /\ (InPass /\ status = "stopped" => Ended)'
      BY <2>4 DEF Stop
    <3>2. (status = "stopped" => ~ Working)'
      BY <2>4 DEF Stop, Thaw
    <3>3. QED
      BY <2>4, <3>1, <3>2 DEF Stop
  <2>5. CASE Pause
    BY <2>5 DEF Pause
  <2>6. CASE Resume
    BY <2>6 DEF Resume, Thaw
  <2>7. QED
    BY <1>1, <2>1, <2>2, <2>3, <2>4, <2>5, <2>6 DEF Calls
<1>2. CASE Watcher
  BY <1>2 DEF Watcher, WindowCloses, WindowOpens, HoldStopped, Hold, Nudge, Thaw,
     MarkHeld
<1>3. CASE Recount
  BY <1>3 DEF Recount, RecountBegin, RecountOn, RecountList, RecountEnd
<1>4. CASE Restart
  BY <1>4 DEF Restart, NewStatus
<1>5. CASE CopyOne \/ ExitStep
  BY <1>5 DEF CopyOne, ExitStep, Exit
<1>6. CASE FailStep
  BY <1>6 DEF FailStep, Failed, Goto
<1>7. CASE Arm \/ Woken \/ Due("retry") \/ Due("safety") \/ StayStopped \/ Dispatch
  BY <1>7 DEF Arm, Woken, Due, StayStopped, Dispatch, Goto
<1>8. CASE PassBegin \/ OutsideWindow \/ Ready \/ Park \/ Contact
  BY <1>8 DEF PassBegin, OutsideWindow, MarkHeld, Ready, Onward, Park, Contact, Goto
<1>9. CASE List \/ Listed \/ Upkeep
  BY <1>9 DEF List, Listed, Upkeep, Failed, Goto
<1>10. CASE Start
  BY <1>10 DEF Start, StatusOf, Goto
<1>11. CASE NotStarted \/ Reap \/ CaughtUp \/ PassEnd
  BY <1>11 DEF NotStarted, Reap, CaughtUp, PassEnd, Failed, Goto
<1>12. CASE UNCHANGED vars
  BY <1>12
<1>13. QED
  BY <1>1, <1>2, <1>3, <1>4, <1>5, <1>6, <1>7, <1>8, <1>9, <1>10, <1>11, <1>12 DEF Next,
     RunStep

\* A window closes before the hold that ends the pass, which then waits to be acted on.
LEMMA WindowKept ==
    ASSUME TypeOK, CommandInv, StopInv, WindowInv, [Next]_vars
    PROVE  WindowInv'
<1> USE DEF TypeOK, CommandInv, StopInv, WindowInv, InPass, PastWindow, Ended,
            WindowShut, CheckYields, stateVars, ctlVars, passVars, listVars, cmdVars,
            recountVars, windowVars, dataVars, vars
<1>1. CASE Calls
  BY <1>1 DEF Calls, Backup, Wake, WakeSend, Stop, Pause, Resume, Thaw
<1>2. CASE Watcher
  BY <1>2 DEF Watcher, WindowCloses, WindowOpens, HoldStopped, Hold, Nudge, Thaw,
     MarkHeld
<1>3. CASE Recount
  BY <1>3 DEF Recount, RecountBegin, RecountOn, RecountList, RecountEnd
<1>4. CASE Restart
  BY <1>4 DEF Restart, NewStatus
<1>5. CASE CopyOne \/ ExitStep
  BY <1>5 DEF CopyOne, ExitStep, Exit
<1>6. CASE FailStep
  BY <1>6 DEF FailStep, Failed, Goto
<1>7. CASE Arm \/ Woken \/ Due("retry") \/ Due("safety") \/ StayStopped \/ Dispatch
  BY <1>7 DEF Arm, Woken, Due, StayStopped, Dispatch, Goto
<1>8. CASE PassBegin \/ OutsideWindow \/ Ready \/ Park \/ Contact
  BY <1>8 DEF PassBegin, OutsideWindow, MarkHeld, Ready, Onward, Park, Contact, Goto
<1>9. CASE List \/ Listed \/ Upkeep
  BY <1>9 DEF List, Listed, Upkeep, Failed, Goto
<1>10. CASE Start
  BY <1>10 DEF Start, StatusOf, Goto
<1>11. CASE NotStarted \/ Reap \/ CaughtUp \/ PassEnd
  BY <1>11 DEF NotStarted, Reap, CaughtUp, PassEnd, Failed, Goto
<1>12. CASE UNCHANGED vars
  BY <1>12
<1>13. QED
  BY <1>1, <1>2, <1>3, <1>4, <1>5, <1>6, <1>7, <1>8, <1>9, <1>10, <1>11, <1>12 DEF Next,
     RunStep

\* A change of local after a listing is told: it is unsaid, then on its way, then the token,
\* which goes only when a new pass begins or with a stop that ends this one.
LEMMA ListKept ==
    ASSUME TypeOK, CommandInv, StopInv, WindowInv, ListInv, RecountInv, [Next]_vars
    PROVE  ListInv'
<1> USE DEF TypeOK, CommandInv, StopInv, ListInv, RecountInv, InPass, CaughtTo, Rests,
            Pending, Ended, Failing, CheckYields, stateVars, ctlVars, passVars,
            listVars, cmdVars, recountVars, windowVars, dataVars, vars
<1>1. CASE Calls
  BY <1>1 DEF Calls, Backup, Wake, WakeSend, Stop, Pause, Resume, Thaw
<1>2. CASE Watcher
  BY <1>2 DEF Watcher, WindowCloses, WindowOpens, HoldStopped, Hold, Nudge, Thaw,
     MarkHeld
<1>3. CASE Recount
  BY <1>3 DEF Recount, RecountBegin, RecountOn, RecountList, RecountEnd
<1>4. CASE Restart
  BY <1>4 DEF Restart, NewStatus
<1>5. CASE CopyOne \/ ExitStep
  BY <1>5 DEF CopyOne, ExitStep, Exit
<1>6. CASE FailStep
  BY <1>6 DEF FailStep, Failed, Goto
<1>7. CASE Arm \/ Woken \/ Due("retry") \/ Due("safety") \/ StayStopped \/ Dispatch
  BY <1>7 DEF Arm, Woken, Due, StayStopped, Dispatch, Goto
<1>8. CASE PassBegin \/ OutsideWindow \/ Ready \/ Park \/ Contact
  BY <1>8 DEF PassBegin, OutsideWindow, MarkHeld, Ready, Onward, Park, Contact, Goto
<1>9. CASE List \/ Listed \/ Upkeep
  BY <1>9 DEF List, Listed, Upkeep, Failed, Goto
<1>10. CASE Start
  BY <1>10 DEF Start, StatusOf, Goto
<1>11. CASE NotStarted \/ Reap \/ CaughtUp \/ PassEnd
  BY <1>11 DEF NotStarted, Reap, CaughtUp, PassEnd, Failed, Goto
<1>12. CASE UNCHANGED vars
  BY <1>12
<1>13. QED
  BY <1>1, <1>2, <1>3, <1>4, <1>5, <1>6, <1>7, <1>8, <1>9, <1>10, <1>11, <1>12 DEF Next,
     RunStep

\* A listing by a pass makes a running recount's count stale.
LEMMA RecountKept ==
    ASSUME TypeOK, CommandInv, StopInv, WindowInv, ListInv, RecountInv, [Next]_vars
    PROVE  RecountInv'
<1> USE DEF TypeOK, ListInv, RecountInv, Busy, stateVars, ctlVars, passVars, listVars,
            cmdVars, recountVars, windowVars, dataVars, vars
<1>1. CASE Calls
  BY <1>1 DEF Calls, Backup, Wake, WakeSend, Stop, Pause, Resume, Thaw
<1>2. CASE Watcher
  BY <1>2 DEF Watcher, WindowCloses, WindowOpens, HoldStopped, Hold, Nudge, Thaw,
     MarkHeld
<1>3. CASE Recount
  BY <1>3 DEF Recount, RecountBegin, RecountOn, RecountList, RecountEnd
<1>4. CASE Restart
  BY <1>4 DEF Restart, NewStatus
<1>5. CASE CopyOne \/ ExitStep
  BY <1>5 DEF CopyOne, ExitStep, Exit
<1>6. CASE FailStep
  BY <1>6 DEF FailStep, Failed, Goto
<1>7. CASE Arm \/ Woken \/ Due("retry") \/ Due("safety") \/ StayStopped \/ Dispatch
  BY <1>7 DEF Arm, Woken, Due, StayStopped, Dispatch, Goto
<1>8. CASE PassBegin \/ OutsideWindow \/ Ready \/ Park \/ Contact
  BY <1>8 DEF PassBegin, OutsideWindow, MarkHeld, Ready, Onward, Park, Contact, Goto
<1>9. CASE List \/ Listed \/ Upkeep
  BY <1>9 DEF List, Listed, Upkeep, Failed, Goto
<1>10. CASE Start
  BY <1>10 DEF Start, StatusOf, Goto
<1>11. CASE NotStarted \/ Reap \/ CaughtUp \/ PassEnd
  BY <1>11 DEF NotStarted, Reap, CaughtUp, PassEnd, Failed, Goto
<1>12. CASE UNCHANGED vars
  BY <1>12
<1>13. QED
  BY <1>1, <1>2, <1>3, <1>4, <1>5, <1>6, <1>7, <1>8, <1>9, <1>10, <1>11, <1>12 DEF Next,
     RunStep

\* What a pause, a wake and a window do to a command, and what Start looks at before one.
LEMMA WorkKept ==
    ASSUME TypeOK, CommandInv, StopInv, WindowInv, PauseHolds, CheckGivesWay,
           WindowHolds, [Next]_vars
    PROVE  (PauseHolds /\ CheckGivesWay /\ WindowHolds)'
<1> USE DEF TypeOK, CommandInv, StopInv, WindowInv, PauseHolds, CheckGivesWay,
            WindowHolds, Working, WindowShut, InPass, PastWindow, Ended, CheckYields,
            stateVars, ctlVars, passVars, listVars, cmdVars, recountVars, windowVars,
            dataVars, vars
<1>1. CASE Calls
  <2>1. CASE Backup
    BY <2>1 DEF Backup
  <2>2. CASE Wake
    BY <2>2 DEF Wake
  <2>3. CASE WakeSend
    BY <2>3 DEF WakeSend
  <2>4. CASE Stop
    BY <2>4 DEF Stop, Thaw
  <2>5. CASE Pause
    BY <2>5 DEF Pause
  <2>6. CASE Resume
    BY <2>6 DEF Resume, Thaw
  <2>7. QED
    BY <1>1, <2>1, <2>2, <2>3, <2>4, <2>5, <2>6 DEF Calls
<1>2. CASE Watcher
  <2>1. CASE WindowCloses
    BY <2>1 DEF WindowCloses
  <2>2. CASE WindowOpens
    BY <2>2 DEF WindowOpens
  <2>3. CASE HoldStopped
    BY <2>3 DEF HoldStopped
  <2>4. CASE Hold
    BY <2>4 DEF Hold, Thaw, MarkHeld
  <2>5. CASE Nudge
    BY <2>5 DEF Nudge
  <2>6. QED
    BY <1>2, <2>1, <2>2, <2>3, <2>4, <2>5 DEF Watcher
<1>3. CASE Recount
  BY <1>3 DEF Recount, RecountBegin, RecountOn, RecountList, RecountEnd
<1>4. CASE Restart
  BY <1>4 DEF Restart, NewStatus
<1>5. CASE CopyOne \/ ExitStep
  BY <1>5 DEF CopyOne, ExitStep, Exit
<1>6. CASE FailStep
  BY <1>6 DEF FailStep, Failed, Goto
<1>7. CASE Arm \/ Woken \/ Due("retry") \/ Due("safety") \/ StayStopped \/ Dispatch
  BY <1>7 DEF Arm, Woken, Due, StayStopped, Dispatch, Goto
<1>8. CASE PassBegin \/ OutsideWindow \/ Ready \/ Park \/ Contact
  BY <1>8 DEF PassBegin, OutsideWindow, MarkHeld, Ready, Onward, Park, Contact, Goto
<1>9. CASE List \/ Listed \/ Upkeep
  BY <1>9 DEF List, Listed, Upkeep, Failed, Goto
<1>10. CASE Start
  BY <1>10 DEF Start, StatusOf, Goto
<1>11. CASE NotStarted \/ Reap \/ CaughtUp \/ PassEnd
  BY <1>11 DEF NotStarted, Reap, CaughtUp, PassEnd, Failed, Goto
<1>12. CASE UNCHANGED vars
  BY <1>12
<1>13. QED
  BY <1>1, <1>2, <1>3, <1>4, <1>5, <1>6, <1>7, <1>8, <1>9, <1>10, <1>11, <1>12 DEF Next,
     RunStep

-------------------------------------------------------------------------------
(* The theorems *)

\* A new worker has the invariant.
LEMMA Initially == Init => IInv
<1> SUFFICES ASSUME Init PROVE IInv
  OBVIOUS
<1>1. TypeOK
  <2>1. Numbers /\ Switches /\ Places
    BY WorkerAssumption DEF Init, Numbers, Switches, Places, Statuses
  <2>2. UsedOK
    BY DEF Init, UsedOK
  <2>3. QED
    BY <2>1, <2>2, Parts
<1>2. CommandInv /\ WindowInv
  BY DEF Init, CommandInv, WindowInv, PastWindow, InPass
<1>3. StopInv /\ RecountInv
  BY DEF Init, StopInv, RecountInv, InPass, Working
<1>4. ListInv
  BY DEF Init, ListInv, CaughtTo, Rests
<1>5. PauseHolds /\ CheckGivesWay /\ WindowHolds
  BY DEF Init, PauseHolds, CheckGivesWay, WindowHolds, Working
<1>6. QED
  BY <1>1, <1>2, <1>3, <1>4, <1>5 DEF IInv

\* Every step keeps it.
LEMMA Stepwise == IInv /\ [Next]_vars => IInv'
<1> SUFFICES ASSUME IInv, [Next]_vars PROVE IInv'
  OBVIOUS
<1>1. TypeOK'
  <2>1. Numbers' /\ Switches' /\ Places' /\ UsedOK'
    BY Parts, NumbersKept, SwitchesKept, PlacesKept, UsedKept DEF IInv
  <2>2. QED
    BY <2>1 DEF TypeOK, Numbers, Switches, Places, UsedOK
<1>2. CommandInv' /\ StopInv' /\ WindowInv' /\ ListInv' /\ RecountInv'
  BY CommandKept, StopKept, WindowKept, ListKept, RecountKept DEF IInv
<1>3. PauseHolds' /\ CheckGivesWay' /\ WindowHolds'
  BY WorkKept DEF IInv
<1>4. QED
  BY <1>1, <1>2, <1>3 DEF IInv

\* The inductive invariant, whatever the bounds, with a copy window and without.
THEOREM CopyWorkerInvariant == Spec => []IInv
BY Initially, Stepwise, PTL DEF Spec

\* The counts are counts: in particular, a target is never less than nothing behind.
THEOREM CopyWorkerTyping == Spec => []TypeOK
<1>1. IInv => TypeOK
  BY DEF IInv
<1>2. QED
  BY <1>1, CopyWorkerInvariant, PTL

\* worker.go: "a stop wins wherever it lands", of a target without a copy window: from a Stop
\* to the next Wake no command runs but one that is being ended.  (With a window it does
\* not: outsideWindow writes over the stop.)
THEOREM CopyWorkerStopHolds ==
    ASSUME ~ HasWindow
    PROVE  Spec => []StopHolds
<1>1. IInv => StopHolds
  BY DEF IInv, StopInv, StopHolds
<1>2. QED
  BY <1>1, CopyWorkerInvariant, PTL

\* worker.go: "Pause freezes a running copy and starts nothing new until Resume", through
\* stops, holds and wakes that meet it.
THEOREM CopyWorkerPauseHolds == Spec => []PauseHolds
<1>1. IInv => PauseHolds
  BY DEF IInv
<1>2. QED
  BY <1>1, CopyWorkerInvariant, PTL

\* "A check never delays a copy": none goes on once a backup has come since its pass began.
THEOREM CopyWorkerCheckGivesWay == Spec => []CheckGivesWay
<1>1. IInv => CheckGivesWay
  BY DEF IInv
<1>2. QED
  BY <1>1, CopyWorkerInvariant, PTL

\* docs/storage.md: outside the copy window nothing runs on the target, once watchWindow has
\* seen it close, wherever in a pass the close fell.
THEOREM CopyWorkerWindowHolds == Spec => []WindowHolds
<1>1. IInv => WindowHolds
  BY DEF IInv
<1>2. QED
  BY <1>1, CopyWorkerInvariant, PTL

\* No Wake is lost: a worker that rests idle, every change told, has the target caught up and
\* its count of revisions behind is zero, whichever recounts were under way.
THEOREM CopyWorkerIdleCaughtUp == Spec => []IdleCaughtUp
<1>1. IInv => IdleCaughtUp
  BY DEF IInv, ListInv, Rests, Pending, IdleCaughtUp, TypeOK
<1>2. QED
  BY <1>1, CopyWorkerInvariant, PTL

-------------------------------------------------------------------------------
(***************************************************************************)
(* The container.  A stop ends with the workers stopped, and what then     *)
(* could wake one is a run that has not ended (Rested) or a new daemon     *)
(* (Housed).  The mark of a shutdown does not outlive the next start       *)
(* (Marked), so a run that ends outside a shutdown finds none.  And what   *)
(* the shutdown tells to stop it tells before it looks at the locks        *)
(* (Told).                                                                 *)
(***************************************************************************)
Box == INSTANCE Container

\* A worker runs in a daemon that serves, and no daemon outlives its container.
Housed ==
    /\ ~ Box!Workers => worker = "off"
    /\ box = "down" => daemon = "none"

\* What a stop has quieted has no run.
Rested == quiet => \A k \in Box!Kinds : run[k] = Box!Off

\* The mark of a shutdown is only up until the next container is.
Marked == box = "up" => ~ flag

\* Only a shutdown's own stop tells a run of it, before the wait; so a run in the container's
\* last moments was told only if the wait ran out.
Told ==
    /\ cmd["shutdown"] # "none" => box = "stop"
    /\ \A k \in Box!Kinds : run[k].st = "begun" => ~ run[k].told
    /\ box = "term" /\ ~ late => \A k \in Box!Kinds : ~ (Box!Locked(k) /\ run[k].told)

BoxInv == Box!TypeOK /\ Housed /\ Rested /\ Marked /\ Told /\ Box!StopSticks

\* What a run is made of.
RunOf == [st : {"off", "begun", "locked", "working", "wrap", "copying", "kit", "stopped", "done"},
          by : {"none", "job", "hand"}, told : BOOLEAN]

\* A run that begins has not been told to stop.
LEMMA BeginFacts ==
    ASSUME Box!TypeOK, NEW k \in Box!Kinds, NEW by \in {"job", "hand"}, Box!Begin(k, by)
    PROVE  /\ run' \in [Box!Kinds -> RunOf] /\ quiet' = FALSE
           /\ run'[k].st = "begun" /\ run'[k].told = FALSE
           /\ \A j \in Box!Kinds \ {k} : run'[j] = run[j]
<1> DEFINE new == [Box!Off EXCEPT !.st = "begun", !.by = by]
<1>1. Box!Off \in RunOf /\ Box!Off.told = FALSE
  BY DEF Box!Off, RunOf
<1>2. new \in RunOf /\ new.st = "begun" /\ new.told = FALSE
  BY <1>1 DEF RunOf
<1>3. run' = [run EXCEPT ![k] = new] /\ quiet' = FALSE
  BY DEF Box!Begin
<1>4. run \in [Box!Kinds -> RunOf]
  BY DEF Box!TypeOK, RunOf
<1> HIDE DEF new
<1>5. QED
  BY <1>2, <1>3, <1>4

\* A request for a stop changes the flag and the mark of one run that has its lock.
LEMMA RequestFacts ==
    ASSUME Box!TypeOK, NEW c \in Box!Stops, NEW k \in Box!Kinds, Box!Request(c, k)
    PROVE  /\ run' \in [Box!Kinds -> RunOf] /\ stopReq' \in [Box!Kinds -> BOOLEAN]
           /\ \A j \in Box!Kinds : run'[j].st = run[j].st
           /\ \A j \in Box!Kinds : run'[j].told # run[j].told => c = "shutdown" /\ Box!Locked(j)
           /\ \A j \in Box!Kinds : ~ Box!Locked(j) => run'[j] = run[j]
<1>1. run \in [Box!Kinds -> RunOf] /\ stopReq \in [Box!Kinds -> BOOLEAN]
  BY DEF Box!TypeOK, RunOf
<1>2. CASE ~ Box!Locked(k)
  BY <1>1, <1>2 DEF Box!Request
<1>3. CASE Box!Locked(k)
  <2>1. run' = [run EXCEPT ![k].told = @ \/ c = "shutdown"]
        /\ stopReq' = [stopReq EXCEPT ![k] = TRUE]
    BY <1>3 DEF Box!Request
  <2>2. [run[k] EXCEPT !.told = @ \/ c = "shutdown"] \in RunOf
    BY <1>1 DEF RunOf
  <2>3. run' = [run EXCEPT ![k] = [run[k] EXCEPT !.told = @ \/ c = "shutdown"]]
    BY <2>1
  <2>4. run' \in [Box!Kinds -> RunOf] /\ stopReq' \in [Box!Kinds -> BOOLEAN]
    BY <2>1, <2>2, <2>3, <1>1
  <2>5. /\ run'[k].st = run[k].st
        /\ run'[k].told # run[k].told => c = "shutdown"
        /\ \A j \in Box!Kinds \ {k} : run'[j] = run[j]
    BY <2>3, <1>1 DEF RunOf
  <2>6. QED
    BY <2>4, <2>5, <1>3
<1>4. QED
  BY <1>2, <1>3

\* Every step of the container keeps the types, one action after the other.
LEMMA TypeStep ==
    ASSUME Box!TypeOK, [Box!Next]_(Box!vars) PROVE Box!TypeOK'
<1> USE DEF Box!TypeOK
<1>0. run \in [Box!Kinds -> RunOf]
  BY DEF RunOf
<1>1. CASE Box!Start
  BY <1>1, ContainerAssumption DEF Kinds, Box!Kinds, Box!Start, Box!Clear, Box!CatchUp
<1>2. CASE Box!Serve
  BY <1>2 DEF Box!Serve, Box!Decide, Box!StartWorkers, Box!CatchUp
<1>3. CASE Box!DaemonDrained \/ Box!DaemonClosed
  BY <1>3 DEF Box!DaemonDrained, Box!DaemonClosed
<1>4. CASE Box!BackupStep
  <2>1. CASE Box!CopyInline
    BY <2>1 DEF Box!CopyInline, Box!Step, Box!Kinds
  <2>2. CASE Box!CopiedInline
    BY <2>2 DEF Box!CopiedInline, Box!Step, Box!Kinds
  <2>3. CASE Box!Kit
    BY <2>3 DEF Box!Kit, Box!Step, Box!Kinds
  <2>4. QED
    BY <1>4, <2>1, <2>2, <2>3 DEF Box!BackupStep
<1>5. ASSUME NEW k \in Box!Kinds, Box!JobRun(k) PROVE Box!TypeOK'
  <2>1. CASE run[k] = Box!Off
    <3>1. Box!Begin(k, "job") /\ job' = [job EXCEPT ![k] = "child"]
      BY <1>5, <2>1 DEF Box!JobRun
    <3>2. run' \in [Box!Kinds -> RunOf] /\ quiet' = FALSE
      BY <1>0, <3>1, BeginFacts
    <3>3. QED
      BY <1>5, <3>1, <3>2 DEF Box!JobRun, RunOf
  <2>2. CASE run[k] # Box!Off
    BY <1>5, <2>2 DEF Box!JobRun, Box!NextSlot
  <2>3. QED
    BY <2>1, <2>2
<1>6. ASSUME NEW k \in Box!Kinds, Box!JobQuit(k) PROVE Box!TypeOK'
  BY <1>6 DEF Box!JobQuit
<1>7. ASSUME NEW k \in Box!Kinds, Box!HandRun(k) PROVE Box!TypeOK'
  <2>1. run' \in [Box!Kinds -> RunOf] /\ quiet' = FALSE
    BY <1>0, <1>7, BeginFacts DEF Box!HandRun
  <2>2. QED
    BY <1>7, <2>1 DEF Box!HandRun, RunOf
<1>8. ASSUME NEW k \in Box!Kinds, Box!Acquire(k) \/ Box!RecordRun(k) \/ Box!Work(k) PROVE Box!TypeOK'
  <2>1. CASE Box!Acquire(k)
    BY <2>1 DEF Box!Acquire, Box!Step
  <2>2. CASE Box!RecordRun(k)
    <3>0. asked \in BOOLEAN /\ Box!Workers \in BOOLEAN
      BY DEF Box!Workers
    <3>1. asked' \in BOOLEAN
      BY <2>2, <3>0 DEF Box!RecordRun
    <3>2. QED
      BY <2>2, <3>1 DEF Box!RecordRun, Box!Step
  <2>3. CASE Box!Work(k)
    BY <2>3 DEF Box!Work, Box!Step
  <2>4. QED
    BY <1>8, <2>1, <2>2, <2>3
<1>9. ASSUME NEW k \in Box!Kinds, Box!HandOff(k) PROVE Box!TypeOK'
  BY <1>9 DEF Box!HandOff, Box!Step, Box!Send, Box!Wake
<1>10. ASSUME NEW k \in Box!Kinds, Box!End(k) PROVE Box!TypeOK'
  BY <1>10 DEF Box!End, Box!NextSlot, Box!KeepRecord, Box!Off
<1>11. CASE Box!WorkerCopy \/ Box!WorkerDone \/ Box!WorkerQuit
  BY <1>11 DEF Box!WorkerCopy, Box!WorkerDone, Box!WorkerQuit, Box!Copying
<1>12. CASE Box!StopAsked
  BY <1>12 DEF Box!StopAsked, Box!Stops
<1>13. ASSUME NEW c \in Box!Stops, Box!StopRuns(c) PROVE Box!TypeOK'
  <2>1. run' \in [Box!Kinds -> RunOf] /\ stopReq' \in [Box!Kinds -> BOOLEAN]
    BY <1>13, RequestFacts DEF Box!StopRuns, Box!Kinds
  <2>2. worker' \in {"off", "idle", "copying", "ending", "rewoken", "stopped"}
    BY <1>13 DEF Box!StopRuns, Box!StopWorkers
  <2>3. QED
    BY <1>13, <2>1, <2>2 DEF Box!StopRuns, RunOf
<1>14. ASSUME NEW c \in Box!Stops, Box!StopBackup(c) PROVE Box!TypeOK'
  <2>1. run' \in [Box!Kinds -> RunOf] /\ stopReq' \in [Box!Kinds -> BOOLEAN]
    BY <1>14, RequestFacts DEF Box!StopBackup, Box!Kinds
  <2>2. QED
    BY <1>14, <2>1 DEF Box!StopBackup, RunOf
<1>15. ASSUME NEW c \in Box!Stops, Box!StopWaitOut(c) PROVE Box!TypeOK'
  BY <1>15 DEF Box!StopWaitOut
<1>16. ASSUME NEW c \in Box!Stops, Box!StopAgain(c) PROVE Box!TypeOK'
  BY <1>16 DEF Box!StopAgain, Box!StopWorkers, Box!LastStop
<1>17. CASE Box!Sigterm
  BY <1>17, ContainerAssumption DEF Kinds, Box!Kinds, Box!Sigterm, Box!Stops
<1>18. CASE (\E l \in BOOLEAN : Box!Waited(l)) \/ Box!Exit \/ Box!Crash
  <2>1. ASSUME NEW l \in BOOLEAN, Box!EndBox(l), ends' \in 0 .. MaxEnds, UNCHANGED <<flag, stopReq, record>>
        PROVE  Box!TypeOK'
    BY <2>1 DEF Box!EndBox, Box!Off
  <2>2. ASSUME NEW l \in BOOLEAN, Box!Waited(l) PROVE Box!TypeOK'
    <3>1. CASE daemon = "none"
      BY <2>1, <2>2, <3>1 DEF Box!Waited
    <3>2. CASE daemon # "none"
      BY <2>2, <3>2 DEF Box!Waited
    <3>3. QED
      BY <3>1, <3>2
  <2>3. CASE Box!Exit
    <3>1. (late \/ daemon # "off") \in BOOLEAN
      OBVIOUS
    <3>2. QED
      BY <2>1, <2>3, <3>1 DEF Box!Exit
  <2>4. CASE Box!Crash
    <3>1. ends' \in 0 .. MaxEnds
      BY <2>4, ContainerAssumption DEF Kinds, Box!Kinds, Box!Crash
    <3>2. Box!EndBox(TRUE) /\ UNCHANGED <<flag, stopReq, record>>
      BY <2>4 DEF Box!Crash
    <3>3. QED
      BY <2>1, <3>1, <3>2
  <2>5. QED
    BY <1>18, <2>2, <2>3, <2>4
<1>19. CASE UNCHANGED Box!vars
  BY <1>19 DEF Box!vars
<1>20. QED
  BY <1>1, <1>2, <1>3, <1>4, <1>5, <1>6, <1>7, <1>8, <1>9, <1>10, <1>11, <1>12, <1>13, <1>14,
     <1>15, <1>16, <1>17, <1>18, <1>19
     DEF Box!Next, Box!DaemonStep, Box!RunStep, Box!StopStep

\* The worker ends before its daemon does, or both with the container.
LEMMA HousedStep ==
    ASSUME Box!TypeOK, Housed, [Box!Next]_(Box!vars) PROVE Housed'
<1> USE DEF Housed, Box!Workers
<1>1. CASE Box!Start
  BY <1>1 DEF Box!Start
<1>2. CASE Box!Serve
  BY <1>2 DEF Box!Serve, Box!Decide, Box!StartWorkers
<1>3. CASE Box!DaemonDrained \/ Box!DaemonClosed
  BY <1>3 DEF Box!DaemonDrained, Box!DaemonClosed, Box!Copying
<1>4. CASE Box!BackupStep
  BY <1>4 DEF Box!BackupStep, Box!CopyInline, Box!CopiedInline, Box!Kit
<1>5. ASSUME NEW k \in Box!Kinds, Box!JobRun(k) \/ Box!JobQuit(k) \/ Box!HandRun(k) PROVE Housed'
  BY <1>5 DEF Box!JobRun, Box!JobQuit, Box!HandRun
<1>6. ASSUME NEW k \in Box!Kinds, Box!RunStep(k) PROVE Housed'
  BY <1>6 DEF Box!RunStep, Box!Acquire, Box!RecordRun, Box!Work, Box!HandOff, Box!End, Box!Send
<1>7. CASE Box!WorkerCopy \/ Box!WorkerDone \/ Box!WorkerQuit
  BY <1>7 DEF Box!WorkerCopy, Box!WorkerDone, Box!WorkerQuit, Box!Copying
<1>8. CASE Box!StopAsked
  BY <1>8 DEF Box!StopAsked
<1>9. ASSUME NEW c \in Box!Stops, Box!StopStep(c) PROVE Housed'
  <2>1. box' = "down" => box = "down"
    BY <1>9 DEF Box!StopStep, Box!StopRuns, Box!StopBackup, Box!StopWaitOut, Box!StopAgain
  <2>2. daemon' = daemon /\ (worker' = worker \/ Box!StopWorkers)
    BY <1>9 DEF Box!StopStep, Box!StopRuns, Box!StopBackup, Box!StopWaitOut, Box!StopAgain, Box!LastStop
  <2>3. QED
    BY <2>1, <2>2 DEF Box!StopWorkers
<1>10. CASE Box!Sigterm
  BY <1>10 DEF Box!Sigterm
<1>11. CASE (\E l \in BOOLEAN : Box!Waited(l)) \/ Box!Exit \/ Box!Crash
  BY <1>11 DEF Box!Waited, Box!Exit, Box!Crash, Box!EndBox
<1>12. CASE UNCHANGED Box!vars
  BY <1>12 DEF Box!vars
<1>13. QED
  BY <1>1, <1>2, <1>3, <1>4, <1>5, <1>6, <1>7, <1>8, <1>9, <1>10, <1>11, <1>12
     DEF Box!Next, Box!DaemonStep

\* What is quiet has no run to begin with, so that the only steps left of the runs begin one.
LEMMA RestedStep ==
    ASSUME Box!TypeOK, Housed, Rested, Box!StopSticks, [Box!Next]_(Box!vars) PROVE Rested' /\ Box!StopSticks'
<1> USE DEF Rested, Box!StopSticks
<1>0. quiet => \A k \in Box!Kinds : run[k].st = "off" /\ ~ Box!Locked(k)
  BY DEF Box!Off, Box!Locked
<1>1. CASE Box!Start
  BY <1>1 DEF Box!Start
<1>2. CASE Box!Serve
  BY <1>2 DEF Box!Serve
<1>3. CASE Box!DaemonDrained \/ Box!DaemonClosed
  BY <1>3 DEF Box!DaemonDrained, Box!DaemonClosed, Box!Copying
<1>4. CASE Box!BackupStep
  BY <1>0, <1>4 DEF Box!BackupStep, Box!CopyInline, Box!CopiedInline, Box!Kit, Box!Kinds
<1>5. ASSUME NEW k \in Box!Kinds, Box!JobRun(k) \/ Box!JobQuit(k) \/ Box!HandRun(k) PROVE Rested' /\ Box!StopSticks'
  BY <1>5 DEF Box!JobRun, Box!JobQuit, Box!HandRun, Box!Begin
<1>6. ASSUME NEW k \in Box!Kinds, Box!RunStep(k) PROVE Rested' /\ Box!StopSticks'
  <2>1. ~ quiet
    BY <1>0, <1>6 DEF Box!RunStep, Box!Acquire, Box!RecordRun, Box!Work, Box!HandOff, Box!End
  <2>2. quiet' = quiet
    BY <1>6 DEF Box!RunStep, Box!Acquire, Box!RecordRun, Box!Work, Box!HandOff, Box!End
  <2>3. QED
    BY <2>1, <2>2
<1>7. CASE Box!WorkerCopy \/ Box!WorkerDone \/ Box!WorkerQuit
  BY <1>7 DEF Box!WorkerCopy, Box!WorkerDone, Box!WorkerQuit, Box!Copying
<1>8. CASE Box!StopAsked
  BY <1>8 DEF Box!StopAsked
<1>9. ASSUME NEW c \in Box!Stops, Box!StopRuns(c) PROVE Rested' /\ Box!StopSticks'
  <2>1. quiet' = quiet /\ (quiet => run' = run)
    BY <1>0, <1>9 DEF Box!StopRuns, Box!Request, Box!Kinds
  <2>2. QED
    BY <1>9, <2>1 DEF Box!StopRuns, Box!StopWorkers
<1>10. ASSUME NEW c \in Box!Stops, Box!StopBackup(c) PROVE Rested' /\ Box!StopSticks'
  <2>1. quiet' = quiet /\ (quiet => run' = run)
    BY <1>0, <1>10 DEF Box!StopBackup, Box!Request, Box!Kinds
  <2>2. QED
    BY <1>10, <2>1 DEF Box!StopBackup
<1>11. ASSUME NEW c \in Box!Stops, Box!StopWaitOut(c) PROVE Rested' /\ Box!StopSticks'
  BY <1>11 DEF Box!StopWaitOut
<1>12. ASSUME NEW c \in Box!Stops, Box!StopAgain(c) PROVE Rested' /\ Box!StopSticks'
  <2>1. Rested'
    BY <1>12 DEF Box!StopAgain
  <2>2. worker' \in {"off", "ending", "stopped"}
    BY <1>12 DEF Box!StopAgain, Box!LastStop, Box!StopWorkers, Housed, Box!TypeOK
  <2>3. QED
    BY <2>1, <2>2
<1>13. CASE Box!Sigterm
  BY <1>13 DEF Box!Sigterm
<1>14. CASE (\E l \in BOOLEAN : Box!Waited(l)) \/ Box!Exit \/ Box!Crash
  BY <1>14 DEF Box!Waited, Box!Exit, Box!Crash, Box!EndBox
<1>15. CASE UNCHANGED Box!vars
  BY <1>15 DEF Box!vars
<1>16. QED
  BY <1>1, <1>2, <1>3, <1>4, <1>5, <1>6, <1>7, <1>8, <1>9, <1>10, <1>11, <1>12, <1>13, <1>14, <1>15
     DEF Box!Next, Box!DaemonStep, Box!StopStep

\* The mark is set as the shutdown begins, and cleared as a container starts.
LEMMA MarkedStep ==
    ASSUME Box!TypeOK, Marked, [Box!Next]_(Box!vars) PROVE Marked'
<1> USE DEF Marked
<1>1. CASE Box!Start
  BY <1>1 DEF Box!Start, Box!Clear
<1>2. CASE Box!Sigterm
  BY <1>2 DEF Box!Sigterm
<1>3. CASE (\E l \in BOOLEAN : Box!Waited(l)) \/ Box!Exit \/ Box!Crash
  BY <1>3 DEF Box!Waited, Box!Exit, Box!Crash, Box!EndBox
<1>4. ASSUME NEW c \in Box!Stops, Box!StopStep(c) PROVE Marked'
  <2>1. flag' = flag /\ (box' = "up" => box = "up")
    BY <1>4 DEF Box!StopStep, Box!StopRuns, Box!StopBackup, Box!StopWaitOut, Box!StopAgain
  <2>2. QED
    BY <2>1
<1>5. CASE UNCHANGED <<box, flag>>
  BY <1>5
<1>6. CASE Box!DaemonStep \/ Box!BackupStep
  BY <1>5, <1>6 DEF Box!DaemonStep, Box!Serve, Box!DaemonDrained, Box!DaemonClosed, Box!BackupStep,
                    Box!CopyInline, Box!CopiedInline, Box!Kit
<1>7. ASSUME NEW k \in Box!Kinds, Box!JobRun(k) \/ Box!JobQuit(k) \/ Box!HandRun(k) \/ Box!RunStep(k) PROVE Marked'
  BY <1>5, <1>7 DEF Box!JobRun, Box!JobQuit, Box!HandRun, Box!RunStep, Box!Acquire, Box!RecordRun,
                    Box!Work, Box!HandOff, Box!End
<1>8. CASE Box!WorkerCopy \/ Box!WorkerDone \/ Box!WorkerQuit \/ Box!StopAsked
  BY <1>5, <1>8 DEF Box!WorkerCopy, Box!WorkerDone, Box!WorkerQuit, Box!StopAsked
<1>9. CASE UNCHANGED Box!vars
  BY <1>5, <1>9 DEF Box!vars
<1>10. QED
  BY <1>1, <1>2, <1>3, <1>4, <1>6, <1>7, <1>8, <1>9 DEF Box!Next

\* A step of a run keeps the mark of what it was told, and is of one that has its lock or
\* takes it.
LEMMA StepFacts ==
    ASSUME Box!TypeOK, NEW k \in Box!Kinds, NEW st \in {"locked", "working", "wrap", "copying", "kit",
               "stopped", "done"}, Box!Step(k, st)
    PROVE  /\ run'[k].st = st /\ run'[k].told = run[k].told
           /\ \A j \in Box!Kinds \ {k} : run'[j] = run[j]
<1>1. run \in [Box!Kinds -> RunOf]
  BY DEF Box!TypeOK, RunOf
<1>2. QED
  BY <1>1 DEF Box!Step, RunOf

\* What Told says of the runs.
ToldRuns ==
    /\ \A k \in Box!Kinds : run[k].st = "begun" => ~ run[k].told
    /\ box = "term" /\ ~ late => \A k \in Box!Kinds : ~ (Box!Locked(k) /\ run[k].told)

\* A step that leaves the container and its lateness, and makes no run one that has its
\* lock and was told to stop that was not.
LEMMA ToldKept ==
    ASSUME Box!TypeOK, ToldRuns, UNCHANGED <<box, late>>,
           \A k \in Box!Kinds : \/ run'[k] = run[k]
                                \/ run'[k].told = FALSE
                                \/ run'[k].st # "begun" /\ run'[k].told = run[k].told /\ run[k].st # "off"
    PROVE  ToldRuns'
<1> USE DEF ToldRuns, Box!Locked
<1>1. \A k \in Box!Kinds : run'[k].st = "begun" => ~ run'[k].told
  OBVIOUS
<1>2. ASSUME box = "term", ~ late, NEW k \in Box!Kinds PROVE ~ (Box!Locked(k)' /\ run'[k].told)
  BY <1>2
<1>3. QED
  BY <1>1, <1>2

\* The shutdown's stop ends before the wait begins, so that nothing is told to stop after the
\* locks have been looked at.
LEMMA ToldStep ==
    ASSUME Box!TypeOK, Told, [Box!Next]_(Box!vars) PROVE Told'
<1>0. ToldRuns /\ (cmd["shutdown"] # "none" => box = "stop")
  BY DEF Told, ToldRuns
<1> DEFINE Called == cmd["shutdown"] # "none" => box = "stop"
<1>1. CASE Box!Start
  BY <1>1 DEF Box!Start, Told
<1>2. CASE Box!DaemonStep
  BY <1>2 DEF Box!DaemonStep, Box!Serve, Box!DaemonDrained, Box!DaemonClosed, Told, Box!Locked
<1>3. CASE Box!BackupStep
  <2>1. UNCHANGED <<box, late, cmd>>
    BY <1>3 DEF Box!BackupStep, Box!CopyInline, Box!CopiedInline, Box!Kit
  <2>2. /\ run["backup"].st \in {"wrap", "copying", "kit"}
        /\ \E st \in {"copying", "stopped", "kit", "done"} : Box!Step("backup", st)
    BY <1>3 DEF Box!BackupStep, Box!CopyInline, Box!CopiedInline, Box!Kit
  <2>3. ToldRuns'
    BY <1>0, <2>1, <2>2, StepFacts, ToldKept DEF Box!Kinds
  <2>4. QED
    BY <1>0, <2>1, <2>3 DEF Told, ToldRuns
<1>4. ASSUME NEW k \in Box!Kinds, Box!JobRun(k) \/ Box!JobQuit(k) \/ Box!HandRun(k) PROVE Told'
  <2>1. UNCHANGED <<box, late, cmd>>
    BY <1>4 DEF Box!JobRun, Box!JobQuit, Box!HandRun
  <2>2. run' = run \/ \E by \in {"job", "hand"} : Box!Begin(k, by)
    BY <1>4 DEF Box!JobRun, Box!JobQuit, Box!HandRun
  <2>3. ToldRuns'
    <3>1. CASE run' = run
      BY <1>0, <2>1, <3>1, ToldKept
    <3>2. ASSUME NEW by \in {"job", "hand"}, Box!Begin(k, by) PROVE ToldRuns'
      BY <1>0, <2>1, <3>2, BeginFacts, ToldKept
    <3>3. QED
      BY <2>2, <3>1, <3>2
  <2>4. QED
    BY <1>0, <2>1, <2>3 DEF Told, ToldRuns
<1>5. ASSUME NEW k \in Box!Kinds, Box!Acquire(k) \/ Box!RecordRun(k) \/ Box!Work(k) \/ Box!HandOff(k) PROVE Told'
  <2>1. UNCHANGED <<box, late, cmd>>
    BY <1>5 DEF Box!Acquire, Box!RecordRun, Box!Work, Box!HandOff
  <2>2. /\ run[k].st \in {"begun", "locked", "working", "wrap"}
        /\ \E st \in {"locked", "working", "stopped", "wrap", "kit", "done"} : Box!Step(k, st)
    BY <1>5 DEF Box!Acquire, Box!RecordRun, Box!Work, Box!HandOff
  <2>3. ToldRuns'
    BY <1>0, <2>1, <2>2, StepFacts, ToldKept
  <2>4. QED
    BY <1>0, <2>1, <2>3 DEF Told, ToldRuns
<1>6. ASSUME NEW k \in Box!Kinds, Box!End(k) PROVE Told'
  <2>1. UNCHANGED <<box, late>> /\ run' = [run EXCEPT ![k] = Box!Off]
    BY <1>6 DEF Box!End
  <2>2. cmd'["shutdown"] # "none" => cmd["shutdown"] # "none"
    BY <1>6 DEF Box!End, Box!Stops
  <2>3. Box!Off.told = FALSE
    BY DEF Box!Off
  <2>4. \A j \in Box!Kinds : run'[j] = run[j] \/ run'[j].told = FALSE
    BY <2>1, <2>3 DEF Box!TypeOK
  <2>5. ToldRuns'
    BY <1>0, <2>1, <2>4, ToldKept
  <2>6. QED
    BY <1>0, <2>1, <2>2, <2>5 DEF Told, ToldRuns
<1>7. CASE Box!WorkerCopy \/ Box!WorkerDone \/ Box!WorkerQuit
  BY <1>7 DEF Box!WorkerCopy, Box!WorkerDone, Box!WorkerQuit, Told, Box!Locked
<1>8. CASE Box!StopAsked
  BY <1>8 DEF Box!StopAsked, Told, Box!Locked, Box!TypeOK, Box!Stops
<1>9. ASSUME NEW c \in Box!Stops, NEW k \in Box!Kinds, Box!Request(c, k), cmd[c] # "none", UNCHANGED <<box, late>>
      PROVE  ToldRuns'
  <2>1. CASE c = "shutdown"
    <3>1. box = "stop"
      BY <1>0, <1>9, <2>1
    <3>2. \A j \in Box!Kinds : run'[j].st = "begun" => run'[j].told = run[j].told
      BY <1>9, RequestFacts DEF Box!Locked
    <3>3. \A j \in Box!Kinds : run'[j].st = run[j].st
      BY <1>9, RequestFacts
    <3>4. QED
      BY <1>0, <1>9, <3>1, <3>2, <3>3 DEF ToldRuns
  <2>2. CASE c # "shutdown"
    <3>1. \A j \in Box!Kinds : run'[j].st = run[j].st /\ run'[j].told = run[j].told
      BY <1>9, <2>2, RequestFacts
    <3>2. QED
      BY <1>0, <1>9, <3>1 DEF ToldRuns, Box!Locked
  <2>3. QED
    BY <2>1, <2>2
<1>10. ASSUME NEW c \in Box!Stops, Box!StopRuns(c) \/ Box!StopBackup(c) PROVE Told'
  <2>1. \E k \in Box!Kinds : Box!Request(c, k)
    BY <1>10 DEF Box!StopRuns, Box!StopBackup, Box!Kinds
  <2>2. UNCHANGED <<box, late>> /\ cmd[c] # "none"
    BY <1>10 DEF Box!StopRuns, Box!StopBackup
  <2>3. cmd'["shutdown"] # "none" => cmd["shutdown"] # "none"
    BY <1>10 DEF Box!StopRuns, Box!StopBackup, Box!TypeOK, Box!Stops
  <2>4. ToldRuns'
    BY <1>9, <2>1, <2>2
  <2>5. QED
    BY <1>0, <2>2, <2>3, <2>4 DEF Told, ToldRuns
<1>11. ASSUME NEW c \in Box!Stops, Box!StopWaitOut(c) PROVE Told'
  BY <1>11 DEF Box!StopWaitOut, Told, Box!Locked, Box!TypeOK, Box!Stops
<1>12. ASSUME NEW c \in Box!Stops, Box!StopAgain(c) PROVE Told'
  <2>1. run' = run /\ late' = late /\ (box' = "term" => box = "term")
    BY <1>12 DEF Box!StopAgain
  <2>2. cmd'["shutdown"] # "none" => box' = "stop"
    BY <1>0, <1>12 DEF Box!StopAgain, Box!TypeOK, Box!Stops
  <2>3. QED
    BY <1>0, <2>1, <2>2 DEF Told, ToldRuns, Box!Locked
<1>13. CASE Box!Sigterm
  BY <1>13 DEF Box!Sigterm, Told
<1>14. ASSUME NEW l \in BOOLEAN, Box!EndBox(l) PROVE Told'
  BY <1>14 DEF Box!EndBox, Told, Box!Off, Box!Stops
<1>15. ASSUME NEW l \in BOOLEAN, Box!Waited(l) PROVE Told'
  <2>1. CASE daemon = "none"
    BY <1>14, <1>15, <2>1 DEF Box!Waited
  <2>2. CASE daemon # "none"
    BY <1>15, <2>2 DEF Box!Waited, Box!LocksClear, Told, Box!Locked
  <2>3. QED
    BY <2>1, <2>2
<1>16. CASE Box!Exit
  <2>1. (late \/ daemon # "off") \in BOOLEAN
    OBVIOUS
  <2>2. QED
    BY <1>14, <1>16, <2>1 DEF Box!Exit
<1>17. CASE Box!Crash
  BY <1>14, <1>17 DEF Box!Crash
<1>18. CASE UNCHANGED Box!vars
  BY <1>18 DEF Box!vars, Told, Box!Locked
<1>19. QED
  BY <1>1, <1>2, <1>3, <1>4, <1>5, <1>6, <1>7, <1>8, <1>10, <1>11, <1>12, <1>13, <1>15, <1>16,
     <1>17, <1>18 DEF Box!Next, Box!StopStep, Box!RunStep

-------------------------------------------------------------------------------
\* Every variable of the container keeps its type.
THEOREM ContainerTyping == Box!Spec => []Box!TypeOK
<1>1. Box!Init => Box!TypeOK
  <2> SUFFICES ASSUME Box!Init PROVE Box!TypeOK
    OBVIOUS
  <2>1. Box!Off \in RunOf
    BY DEF Box!Off, RunOf
  <2>2. run \in [Box!Kinds -> RunOf]
    BY <2>1 DEF Box!Init
  <2>3. {flag, asked, late, quiet} \subseteq BOOLEAN
    BY Zenon DEF Box!Init
  <2>4. ends \in 0 .. MaxEnds /\ scheduled \subseteq Box!Kinds
    BY ContainerAssumption DEF Kinds, Box!Kinds, Box!Init
  <2>5. QED
    BY <2>2, <2>3, <2>4 DEF Box!Init, Box!TypeOK, RunOf
<1>2. Box!TypeOK /\ [Box!Next]_(Box!vars) => Box!TypeOK'
  BY TypeStep
<1>3. QED
  BY <1>1, <1>2, PTL DEF Box!Spec

\* The container's invariant: what holds at its start is kept by every step.
LEMMA Boxed == Box!Spec => []BoxInv
<1>1. Box!Init => Housed /\ Rested /\ Marked /\ Told /\ Box!StopSticks
  BY DEF Box!Init, Housed, Box!Workers, Rested, Marked, Told, Box!StopSticks, Box!Off, Box!Stops
<1>2. Box!TypeOK /\ Housed /\ Rested /\ Marked /\ Told /\ Box!StopSticks /\ [Box!Next]_(Box!vars)
      => (Housed /\ Rested /\ Marked /\ Told /\ Box!StopSticks)'
  BY HousedStep, RestedStep, MarkedStep, ToldStep
<1>3. QED
  BY <1>1, <1>2, ContainerTyping, PTL DEF Box!Spec, BoxInv

\* runctl.Stop stops the workers again at its end: once it has ended with no run left, no
\* copy begins until another run or daemon starts.
THEOREM ContainerStopSticks == Box!Spec => []StopSticks
<1>1. BoxInv => StopSticks
  BY DEF BoxInv, StopSticks, Box!StopSticks
<1>2. QED
  BY <1>1, Boxed, PTL

\* A run that ends in a container nobody is shutting down leaves no record to resume from: the
\* mark of an earlier shutdown, which finish looks at, went when the container started.
THEOREM ContainerEndsClean == Box!Spec => EndsClean
<1>1. BoxInv /\ [Box!Next]_(Box!vars) =>
      [\A k \in Kinds :
         run[k].st \in {"stopped", "done"} /\ run'[k] = Off /\ box' = "up" => ~ record'[k]]_run
  <2> SUFFICES ASSUME BoxInv, [Box!Next]_(Box!vars), Box!vars' # Box!vars, NEW k \in Box!Kinds,
                      run[k].st \in {"stopped", "done"}, run'[k] = Box!Off, box' = "up"
               PROVE  ~ record'[k]
    BY DEF Kinds, Box!Kinds, Off, Box!Off, Box!vars
  <2> USE DEF BoxInv
  <2>1. run'[k].st = "off" /\ run'[k] # run[k]
    BY DEF Box!Off
  <2>2. run \in [Box!Kinds -> RunOf]
    BY DEF Box!TypeOK, RunOf
  <2>3. ~ (Box!Start \/ Box!DaemonStep \/ Box!WorkerCopy \/ Box!WorkerDone \/ Box!WorkerQuit \/ Box!StopAsked \/ Box!Sigterm)
    BY <2>1 DEF Box!Start, Box!DaemonStep, Box!Serve, Box!DaemonDrained, Box!DaemonClosed,
                Box!WorkerCopy, Box!WorkerDone,
                Box!WorkerQuit, Box!StopAsked, Box!Sigterm
  <2>4. ~ Box!BackupStep
    <3>1. ASSUME Box!BackupStep PROVE \E st \in {"copying", "kit", "stopped", "done"} : Box!Step("backup", st)
      BY <3>1 DEF Box!BackupStep, Box!CopyInline, Box!CopiedInline, Box!Kit
    <3>2. QED
      BY <2>1, <3>1, StepFacts DEF Box!Kinds
  <2>5. ASSUME NEW j \in Box!Kinds, Box!JobRun(j) \/ Box!JobQuit(j) \/ Box!HandRun(j) PROVE FALSE
    <3>1. run' = run \/ \E by \in {"job", "hand"} : Box!Begin(j, by)
      BY <2>5 DEF Box!JobRun, Box!JobQuit, Box!HandRun
    <3>2. QED
      BY <2>1, <3>1, BeginFacts
  <2>6. ASSUME NEW j \in Box!Kinds, Box!Acquire(j) \/ Box!RecordRun(j) \/ Box!Work(j) \/ Box!HandOff(j) PROVE FALSE
    <3>1. \E st \in {"locked", "working", "stopped", "wrap", "kit", "done"} : Box!Step(j, st)
      BY <2>6 DEF Box!Acquire, Box!RecordRun, Box!Work, Box!HandOff
    <3>2. QED
      BY <2>1, <3>1, StepFacts
  <2>7. ASSUME NEW j \in Box!Kinds, Box!End(j) PROVE ~ record'[k]
    <3>1. j = k
      BY <2>1, <2>2, <2>7 DEF Box!End
    <3>2. record'[k] = Box!KeepRecord(k) /\ box = "up"
      BY <2>7, <3>1 DEF Box!End, Box!TypeOK
    <3>3. QED
      BY <3>2 DEF Box!KeepRecord, Marked
  <2>8. ASSUME NEW c \in Box!Stops, Box!StopStep(c) PROVE FALSE
    <3>1. run' = run \/ \E j \in Box!Kinds : Box!Request(c, j)
      BY <2>8 DEF Box!StopStep, Box!StopRuns, Box!StopBackup, Box!StopWaitOut, Box!StopAgain, Box!Kinds
    <3>2. QED
      BY <2>1, <3>1, RequestFacts
  <2>9. ~ ((\E l \in BOOLEAN : Box!Waited(l)) \/ Box!Exit \/ Box!Crash)
    BY DEF Box!Waited, Box!Exit, Box!Crash, Box!EndBox
  <2>10. QED
    BY <2>3, <2>4, <2>5, <2>6, <2>7, <2>8, <2>9 DEF Box!Next, Box!RunStep, Box!vars
<1>2. QED
  BY <1>1, Boxed, PTL DEF Box!Spec, EndsClean

\* As long as no wait runs out, the container does not end under a run its shutdown told to
\* stop, nor under a copy: shutdown looks at the locks, and the daemon waits for its workers.
THEOREM ContainerGracefulStop == Box!Spec => GracefulStop
<1>1. BoxInv /\ [Box!Next]_(Box!vars) =>
      [box # "down" /\ box' = "down" /\ ~ late' =>
         /\ ~ Copying
         /\ \A k \in Kinds : ~ (Locked(k) /\ run[k].told)]_box
  <2> SUFFICES ASSUME BoxInv, [Box!Next]_(Box!vars), Box!vars' # Box!vars, box # "down", box' = "down", ~ late'
               PROVE  ~ Box!Copying /\ \A k \in Box!Kinds : ~ (Box!Locked(k) /\ run[k].told)
    BY DEF Kinds, Box!Kinds, Copying, Box!Copying, Locked, Box!Locked, Box!vars
  <2> USE DEF BoxInv
  <2>1. (\E l \in BOOLEAN : Box!Waited(l)) \/ Box!Exit
    <3>1. ~ (Box!Start \/ Box!DaemonStep \/ Box!BackupStep \/ Box!WorkerCopy \/ Box!WorkerDone \/ Box!WorkerQuit \/ Box!StopAsked
             \/ Box!Sigterm)
      BY DEF Box!Start, Box!DaemonStep, Box!Serve, Box!DaemonDrained, Box!DaemonClosed, Box!BackupStep,
             Box!CopyInline,
             Box!CopiedInline, Box!Kit, Box!WorkerCopy, Box!WorkerDone, Box!WorkerQuit, Box!StopAsked, Box!Sigterm
    <3>2. \A k \in Box!Kinds : ~ (Box!JobRun(k) \/ Box!JobQuit(k) \/ Box!HandRun(k) \/ Box!RunStep(k))
      BY DEF Box!JobRun, Box!JobQuit, Box!HandRun, Box!RunStep, Box!Acquire, Box!RecordRun, Box!Work,
             Box!HandOff, Box!End
    <3>3. \A c \in Box!Stops : ~ Box!StopStep(c)
      BY DEF Box!StopStep, Box!StopRuns, Box!StopBackup, Box!StopWaitOut, Box!StopAgain
    <3>4. ~ Box!Crash
      BY DEF Box!Crash, Box!EndBox
    <3>5. QED
      BY <3>1, <3>2, <3>3, <3>4 DEF Box!Next
  <2>2. ASSUME NEW l \in BOOLEAN, Box!Waited(l)
        PROVE  ~ Box!Copying /\ \A k \in Box!Kinds : ~ (Box!Locked(k) /\ run[k].told)
    <3>1. ~ l
      BY <2>2 DEF Box!Waited, Box!EndBox
    <3>2. QED
      BY <2>2, <3>1 DEF Box!Waited, Box!LocksClear
  <2>3. CASE Box!Exit
    <3>1. box = "term" /\ ~ late /\ daemon = "off"
      BY <2>3 DEF Box!Exit, Box!EndBox
    <3>2. ~ Box!Copying
      BY <3>1 DEF Housed, Box!Workers, Box!Copying
    <3>3. QED
      BY <3>1, <3>2 DEF Told
  <2>4. QED
    BY <2>1, <2>2, <2>3
<1>2. QED
  BY <1>1, Boxed, PTL DEF Box!Spec, GracefulStop

===============================================================================
