------------------------------- MODULE Backup -------------------------------
(***************************************************************************)
(* The backup pipeline (internal/pipeline, backup.go) and the record it    *)
(* keeps of a run in progress (internal/resume, ADR 46): each service's    *)
(* pre-backup hook, backup and post-backup hook, services in parallel,     *)
(* stops and shutdowns, the primary going down, and a process killed at    *)
(* any step.                                                               *)
(*                                                                         *)
(* What a pre hook stopped (a database, say) is owed its post hook: that   *)
(* is `owed'.  A post hook that cannot be run then, because its file is    *)
(* gone, cannot be read or does not start, or because its service is not   *)
(* configured any more, is given up: the run goes on as if it had run.     *)
(* The services' order is any order.  Pauses, the copies and kit of a run  *)
(* without copy workers, hooks that come and go for a service that is not  *)
(* owed one, and a record that cannot be written (a full logs volume, of   *)
(* which the run only warns) are left out.                                 *)
(***************************************************************************)
EXTENDS Naturals, FiniteSets

CONSTANTS
    Services,     \* the service directories that are ever configured
    HasPre,       \* those with a pre-backup hook
    HasPost,      \* those with a post-backup hook
    Groups,       \* groupServices: the services that go one after another
    Parallelism   \* BACKUP_PARALLELISM

ASSUME BackupAssumption ==
    /\ HasPre \subseteq Services /\ HasPost \subseteq Services
    /\ UNION Groups = Services
    /\ \A g, h \in Groups : g # h => g \cap h = {}
    /\ Parallelism \in Nat \ {0}

VARIABLES
    run,       \* where the pipeline's process is; "off" when there is none
    svc,       \* where each service is in this run
    result,    \* how its backup went, as its post hook is told
    preRan,    \* whether its pre hook ran in this run
    cut,       \* whether a stop kept its backup from ending (or from starting)
    stage,     \* the record on disk: each service's stage, "none" for no record
    owed,      \* "yes" when a pre hook has run and since then no post hook to its end, and
               \* "given up" once a run has found that it cannot run it
    left,      \* a group's hook state directory (it is of one snapshot ID): whose pre hooks wrote it
    stop,      \* "no", "asked" (the stop flag) or "signaled" (onSignal has run)
    shutdown,  \* the entrypoint's flag that the container is stopping
    lost,      \* primaryDown
    halting,   \* main's `stop': a service ended the run
    outcome    \* the lock's last event: running, stopped or completed

vars == <<run, svc, result, preRan, cut, stage, owed, left, stop, shutdown, lost,
          halting, outcome>>

inRun == <<stop, shutdown, lost, halting, outcome>>

GroupOf(s) == CHOOSE g \in Groups : s \in g

\* A service holds its group's slot from its start to its end.
Active(s) == svc[s] \notin {"waiting", "ended", "unconfigured"}
ActiveGroups == {g \in Groups : \E s \in g : Active(s)}

\* stopped(): the flag is up, or a signal came.
Stopped == stop # "no"

-------------------------------------------------------------------------------
Init ==
    /\ run = "off"
    /\ svc = [s \in Services |-> "waiting"]
    /\ result = [s \in Services |-> "none"]
    /\ preRan = [s \in Services |-> FALSE]
    /\ cut = [s \in Services |-> FALSE]
    /\ stage = [s \in Services |-> "none"]
    /\ owed = [s \in Services |-> "no"]
    /\ left = [g \in Groups |-> {}]
    /\ stop = "no" /\ shutdown = FALSE /\ lost = FALSE /\ halting = FALSE
    /\ outcome = "running"

Recorded == \E s \in Services : stage[s] # "none"

\* On schedule, by hand, or for a recorded run at the container's start; the daemon
\* still starts one while `archiver stop --shutdown' waits.  With the lock taken, a
\* left-over stop flag goes.  A directory that is not there, or not configured now, is
\* none of this run's services.
Start ==
    /\ run = "off"
    /\ run' = "begun"
    /\ \E here \in SUBSET Services :
        svc' = [s \in Services |-> IF s \in here THEN "waiting" ELSE "unconfigured"]
    /\ result' = [s \in Services |-> "none"]
    /\ preRan' = [s \in Services |-> FALSE]
    /\ cut' = [s \in Services |-> FALSE]
    /\ stop' = "no" /\ lost' = FALSE /\ halting' = FALSE /\ outcome' = "running"
    /\ UNCHANGED <<stage, owed, left, shutdown>>

-------------------------------------------------------------------------------
(* finishInterrupted, then this run's own record *)

\* What becomes of a service's debt with its post hook run to its end, or not run.
Undone(s, ran) ==
    owed' = [owed EXCEPT ![s] = IF ran \/ @ = "no" THEN "no" ELSE "given up"]

\* The post hook an interrupted run did not reach: run to its end, or it cannot run.
FinishHook(s, ran) ==
    /\ run = "begun"
    /\ stage[s] = "hooked" /\ svc[s] = "waiting"
    /\ \A t \in Services : svc[t] # "undone"
    /\ Undone(s, ran)
    /\ svc' = [svc EXCEPT ![s] = "undone"]
    /\ UNCHANGED <<run, result, preRan, cut, stage, left, inRun>>

\* Whether it ran or not, its state directory goes, and it is recorded at once.
FinishRecord(s) ==
    /\ run = "begun"
    /\ svc[s] = "undone"
    /\ stage' = [stage EXCEPT ![s] = "pending"]
    /\ left' = [left EXCEPT ![GroupOf(s)] = {}]
    /\ svc' = [svc EXCEPT ![s] = "waiting"]
    /\ UNCHANGED <<run, result, preRan, cut, owed, inRun>>

\* A directory not configured now is never acted on: no hook, and its state stays.
FinishUnconfigured(s) ==
    /\ run = "begun"
    /\ stage[s] = "hooked" /\ svc[s] = "unconfigured"
    /\ \A t \in Services : svc[t] # "undone"
    /\ Undone(s, FALSE)
    /\ stage' = [stage EXCEPT ![s] = "pending"]
    /\ UNCHANGED <<run, svc, result, preRan, cut, left, inRun>>

\* Mutant of RecordRun: the run is recorded without waiting for the hooks an
\* interrupted one left.
RecordRunFirst ==
    /\ run = "begun"
    /\ \A s \in Services : svc[s] # "undone"
    /\ stage' = [s \in Services |-> IF svc[s] = "unconfigured" THEN "none" ELSE "pending"]
    /\ run' = "probe"
    /\ UNCHANGED <<svc, result, preRan, cut, owed, left, inRun>>

\* recordRun: every service of this run pending, over whatever was recorded.
RecordRun ==
    /\ run = "begun"
    /\ \A s \in Services : stage[s] # "hooked"
    /\ stage' = [s \in Services |-> IF svc[s] = "unconfigured" THEN "none" ELSE "pending"]
    /\ run' = "probe"
    /\ UNCHANGED <<svc, result, preRan, cut, owed, left, inRun>>

\* verifyConfig refuses: the run ends where it is, as in finish.
BadConfig ==
    /\ run = "begun"
    /\ \A s \in Services : stage[s] # "hooked"
    /\ run' = "finish"
    /\ UNCHANGED <<svc, result, preRan, cut, stage, owed, left, inRun>>

-------------------------------------------------------------------------------
(* main *)

\* A stop before any service, or while the primary is probed: handleStop.
StopEarly ==
    /\ run = "probe"
    /\ Stopped
    /\ run' = "finish" /\ outcome' = "stopped"
    /\ UNCHANGED <<svc, result, preRan, cut, stage, owed, left, stop, shutdown, lost,
                   halting>>

\* The primary is up, or down and every service skipped.
Probe(up) ==
    /\ run = "probe"
    /\ ~ Stopped
    /\ run' = IF up THEN "services" ELSE "finish"
    /\ outcome' = IF up THEN outcome ELSE "completed"
    /\ svc' = IF up THEN svc
              ELSE [s \in Services |-> IF svc[s] = "waiting" THEN "ended" ELSE svc[s]]
    /\ lost' = ~ up
    /\ UNCHANGED <<result, preRan, cut, stage, owed, left, stop, shutdown, halting>>

\* Mutant of Begin: services of one snapshot ID go in parallel.
BeginUngrouped(s) ==
    /\ run = "services"
    /\ svc[s] = "waiting"
    /\ ~ halting /\ ~ Stopped
    /\ Cardinality({t \in Services : Active(t)}) < Parallelism
    /\ svc' = [svc EXCEPT ![s] = IF lost THEN "ended" ELSE "entered"]
    /\ UNCHANGED <<run, result, preRan, cut, stage, owed, left, inRun>>

\* A group's next service takes its turn; with the primary down it is skipped.
Begin(s) ==
    /\ run = "services"
    /\ svc[s] = "waiting"
    /\ ~ halting /\ ~ Stopped
    /\ \A t \in GroupOf(s) : ~ Active(t)
    /\ Cardinality(ActiveGroups) < Parallelism
    /\ svc' = [svc EXCEPT ![s] = IF lost THEN "ended" ELSE "entered"]
    /\ UNCHANGED <<run, result, preRan, cut, stage, owed, left, inRun>>

\* processService refuses it before any hook: no such directory, a bad ID, hooks or
\* filters that cannot be read.  What is recorded of it stays.
Refuse(s) ==
    /\ svc[s] = "entered"
    /\ svc' = [svc EXCEPT ![s] = "ended"]
    /\ UNCHANGED <<run, result, preRan, cut, stage, owed, left, inRun>>

\* The primary was lost while this service waited for its slot.
SkipLost(s) ==
    /\ svc[s] = "entered"
    /\ lost
    /\ svc' = [svc EXCEPT ![s] = "ended"]
    /\ left' = [left EXCEPT ![GroupOf(s)] = {}]
    /\ UNCHANGED <<run, result, preRan, cut, stage, owed, inRun>>

\* Mutant of Hook: the pre hook is not recorded before it runs.
HookUnrecorded(s) ==
    /\ svc[s] = "entered"
    /\ ~ lost
    /\ left' = [left EXCEPT ![GroupOf(s)] = {}]
    /\ svc' = [svc EXCEPT ![s] = IF s \in HasPre THEN "hook" ELSE "ready"]
    /\ UNCHANGED <<run, result, preRan, cut, stage, owed, inRun>>

\* backupService up to its pre hook: an empty state directory, and the hook recorded
\* before it runs.
Hook(s) ==
    /\ svc[s] = "entered"
    /\ ~ lost
    /\ left' = [left EXCEPT ![GroupOf(s)] = {}]
    /\ LET skip == s \in HasPre /\ Stopped
           pre  == s \in HasPre /\ ~ Stopped
       IN  /\ svc' = [svc EXCEPT ![s] = IF skip THEN "post" ELSE IF pre THEN "hook" ELSE "ready"]
           /\ result' = [result EXCEPT ![s] = IF skip THEN "stopped" ELSE @]
           /\ cut' = [cut EXCEPT ![s] = skip]
           /\ stage' = [stage EXCEPT ![s] = IF pre THEN "hooked" ELSE @]
    /\ UNCHANGED <<run, preRan, owed, inRun>>

\* runHook looks at the stop again before the pre hook starts.
PreHook(s) ==
    /\ svc[s] = "hook"
    /\ IF Stopped
       THEN /\ svc' = [svc EXCEPT ![s] = "post"]
            /\ result' = [result EXCEPT ![s] = "stopped"]
            /\ cut' = [cut EXCEPT ![s] = TRUE]
            /\ UNCHANGED <<preRan, owed, left>>
       ELSE /\ svc' = [svc EXCEPT ![s] = "hooking"]
            /\ preRan' = [preRan EXCEPT ![s] = TRUE]
            /\ owed' = [owed EXCEPT ![s] = IF s \in HasPost THEN "yes" ELSE "no"]
            /\ left' = [left EXCEPT ![GroupOf(s)] = @ \cup {s}]
            /\ UNCHANGED <<result, cut>>
    /\ UNCHANGED <<run, stage, inRun>>

\* The pre hook ends: well, failed, or with filters that cannot be read.
PreEnd(s, r) ==
    /\ svc[s] = "hooking"
    /\ r \in {"none", "skipped", "failed"}
    /\ result' = [result EXCEPT ![s] = r]
    /\ svc' = [svc EXCEPT ![s] = IF r = "none" THEN "ready" ELSE "post"]
    /\ UNCHANGED <<run, preRan, cut, stage, owed, left, inRun>>

\* primaryBackup starts, unless stopped.
BackupStart(s) ==
    /\ svc[s] = "ready"
    /\ svc' = [svc EXCEPT ![s] = IF Stopped THEN "post" ELSE "init"]
    /\ result' = [result EXCEPT ![s] = IF Stopped THEN "stopped" ELSE @]
    /\ cut' = [cut EXCEPT ![s] = Stopped]
    /\ UNCHANGED <<run, preRan, stage, owed, left, inRun>>

\* duplicacy init, then the start of duplicacy backup: one failed, by itself or
\* because a signal ended it or kept it from starting.
InitFail(s) ==
    /\ svc[s] = "init"
    /\ svc' = [svc EXCEPT ![s] = "post"]
    /\ result' = [result EXCEPT ![s] = "failed"]
    /\ cut' = [cut EXCEPT ![s] = stop = "signaled"]
    /\ UNCHANGED <<run, preRan, stage, owed, left, inRun>>

InitDone(s) ==
    /\ svc[s] = "init"
    /\ stop # "signaled"
    /\ svc' = [svc EXCEPT ![s] = "backup"]
    /\ UNCHANGED <<run, result, preRan, cut, stage, owed, left, inRun>>

\* duplicacy backup ends: its exit code counts only if no signal came by then, and the
\* stop flag, looked at every second, ends it.
BackupEnd(s, r) ==
    /\ svc[s] = "backup"
    /\ \/ r \in {"success", "failed"} /\ stop # "signaled"
       \/ r = "stopped" /\ Stopped
    /\ result' = [result EXCEPT ![s] = r]
    /\ cut' = [cut EXCEPT ![s] = r = "stopped"]
    /\ svc' = [svc EXCEPT ![s] = "post"]
    /\ UNCHANGED <<run, preRan, stage, owed, left, inRun>>

\* Mutant of PostHook: a stopped service's post hook is left out.
PostHookStopped(s) ==
    /\ svc[s] = "post"
    /\ svc' = [svc EXCEPT ![s] =
                  IF s \in HasPost /\ preRan[s] /\ result[s] # "stopped"
                  THEN "posting" ELSE "posted"]
    /\ UNCHANGED <<run, result, preRan, cut, stage, owed, left, inRun>>

\* The post hook runs whenever the pre hook ran, and without a pre hook always.
PostHook(s) ==
    /\ svc[s] = "post"
    /\ svc' = [svc EXCEPT ![s] =
                  IF s \in HasPost /\ (preRan[s] \/ s \notin HasPre)
                  THEN "posting" ELSE "posted"]
    /\ UNCHANGED <<run, result, preRan, cut, stage, owed, left, inRun>>

\* It ends, or it cannot be started.
PostEnd(s, ran) ==
    /\ svc[s] = "posting"
    /\ Undone(s, ran)
    /\ svc' = [svc EXCEPT ![s] = "posted"]
    /\ UNCHANGED <<run, result, preRan, cut, stage, left, inRun>>

\* The hooks are through: finished, unless its backup was stopped.
SetStage(s) ==
    /\ svc[s] = "posted"
    /\ stage' = [stage EXCEPT ![s] = IF result[s] = "stopped" THEN "pending" ELSE "done"]
    /\ svc' = [svc EXCEPT ![s] = "recorded"]
    /\ UNCHANGED <<run, result, preRan, cut, owed, left, inRun>>

\* A failed backup has the primary probed again; a stopped one ends the run.  The
\* state directory goes.
ServiceEnd(s, up) ==
    /\ svc[s] = "recorded"
    /\ (result[s] = "failed" /\ ~ Stopped) \/ up
    /\ svc' = [svc EXCEPT ![s] = "ended"]
    /\ left' = [left EXCEPT ![GroupOf(s)] = {}]
    /\ lost' = (lost \/ ~ up)
    /\ halting' = (halting \/ Stopped \/ result[s] = "stopped")
    /\ UNCHANGED <<run, result, preRan, cut, stage, owed, stop, shutdown, outcome>>

\* Every service started has ended, and the rest will not start.  A primary that is
\* down, now or when probed again, ends the run as completed.
WrapUp(up) ==
    /\ run = "services"
    /\ \A s \in Services : ~ Active(s)
    /\ halting \/ Stopped \/ \A s \in Services : svc[s] # "waiting"
    /\ up \/ ~ (halting \/ lost \/ Stopped)
    /\ lost' = (lost \/ ~ up)
    /\ outcome' = IF halting \/ (Stopped /\ ~ lost') THEN "stopped"
                  ELSE IF lost' THEN "completed" ELSE outcome
    /\ run' = IF outcome' = "running" THEN "handoff" ELSE "finish"
    /\ UNCHANGED <<svc, result, preRan, cut, stage, owed, left, stop, shutdown, halting>>

\* The copy workers are woken and the kit uploaded, and a stop is looked for again:
\* none of it if no service was backed up.
HandOff ==
    /\ run = "handoff"
    /\ run' = "finish"
    /\ outcome' = IF Stopped /\ \E s \in Services : result[s] = "success"
                  THEN "stopped" ELSE "completed"
    /\ UNCHANGED <<svc, result, preRan, cut, stage, owed, left, stop, shutdown, lost,
                   halting>>

\* Mutant of Finish: a stop for a shutdown ends the record too.
FinishAlways ==
    /\ run = "finish"
    /\ stage' = [s \in Services |-> "none"]
    /\ run' = "off" /\ stop' = "no"
    /\ UNCHANGED <<svc, result, preRan, cut, owed, left, shutdown, lost, halting, outcome>>

\* finish: the record stays only for a stop that a shutdown asked for.
Finish ==
    /\ run = "finish"
    /\ stage' = IF outcome = "stopped" /\ shutdown THEN stage
                ELSE [s \in Services |-> "none"]
    /\ run' = "off" /\ stop' = "no"
    /\ UNCHANGED <<svc, result, preRan, cut, owed, left, shutdown, lost, halting, outcome>>

-------------------------------------------------------------------------------
(* What happens to the run *)

\* archiver stop: the flag.  The entrypoint's, --shutdown, marks the shutdown first.
Stop(sd) ==
    /\ run # "off"
    /\ ~ Stopped \/ (sd /\ ~ shutdown)
    /\ stop' = IF Stopped THEN stop ELSE "asked"
    /\ shutdown' = (shutdown \/ sd)
    /\ UNCHANGED <<run, svc, result, preRan, cut, stage, owed, left, lost, halting, outcome>>

\* onSignal: a signal, or the run's watch finding the flag.
Signal ==
    /\ run # "off"
    /\ stop # "signaled"
    /\ stop' = "signaled"
    /\ UNCHANGED <<run, svc, result, preRan, cut, stage, owed, left, shutdown, lost,
                   halting, outcome>>

\* The process is killed, or the container dies: only what is on disk, and what
\* the hooks did, is left.
Kill ==
    /\ run # "off"
    /\ run' = "off"
    /\ UNCHANGED <<svc, result, preRan, cut, stage, owed, left, inRun>>

\* The container starts again: the entrypoint clears the shutdown flag.
ContainerStart ==
    /\ run = "off" /\ shutdown
    /\ shutdown' = FALSE
    /\ UNCHANGED <<run, svc, result, preRan, cut, stage, owed, left, stop, lost, halting,
                   outcome>>

\* A service's steps are its goroutine's, and end with the process.
ServiceStep(s) ==
    /\ run # "off"
    /\ \/ FinishRecord(s) \/ FinishUnconfigured(s) \/ Begin(s) \/ Refuse(s) \/ SkipLost(s) \/ Hook(s)
       \/ PreHook(s) \/ BackupStart(s) \/ InitFail(s) \/ InitDone(s)
       \/ PostHook(s) \/ SetStage(s)
       \/ \E ran \in BOOLEAN : FinishHook(s, ran) \/ PostEnd(s, ran)
       \/ \E r \in {"none", "skipped", "failed"} : PreEnd(s, r)
       \/ \E r \in {"success", "failed", "stopped"} : BackupEnd(s, r)
       \/ \E up \in BOOLEAN : ServiceEnd(s, up)

RunStep ==
    \/ RecordRun \/ BadConfig \/ StopEarly \/ HandOff \/ Finish
    \/ \E up \in BOOLEAN : Probe(up) \/ WrapUp(up)
    \/ \E s \in Services : ServiceStep(s)

Next ==
    \/ RunStep \/ Start \/ Signal \/ Kill \/ ContainerStart
    \/ \E sd \in BOOLEAN : Stop(sd)

Spec == Init /\ [][Next]_vars

\* The process runs and its programs end; a recorded run is followed by another, by
\* its schedule or by the container's next start.
FairSpec == Spec /\ WF_vars(RunStep) /\ WF_vars(Recorded /\ Start)

-------------------------------------------------------------------------------
(* Properties *)

\* The type invariant.
TypeOK ==
    /\ run \in {"off", "begun", "probe", "services", "handoff", "finish"}
    /\ svc \in [Services -> {"waiting", "undone", "entered", "hook", "hooking", "ready", "init",
                             "backup", "post", "posting", "posted", "recorded", "ended",
                             "unconfigured"}]
    /\ result \in [Services -> {"none", "success", "skipped", "failed", "stopped"}]
    /\ preRan \in [Services -> BOOLEAN]
    /\ cut \in [Services -> BOOLEAN]
    /\ stage \in [Services -> {"none", "pending", "hooked", "done"}]
    /\ owed \in [Services -> {"no", "yes", "given up"}]
    /\ left \in [Groups -> SUBSET Services]
    /\ stop \in {"no", "asked", "signaled"}
    /\ shutdown \in BOOLEAN /\ lost \in BOOLEAN /\ halting \in BOOLEAN
    /\ outcome \in {"running", "stopped", "completed"}

\* ADR 46: whatever a pre hook stopped is on record until its post hook has run or has
\* been given up, so wherever the process dies the next run finds it.
OwedRecorded == \A s \in Services : owed[s] = "yes" => stage[s] = "hooked"

\* backupService: until its post hook has run or been given up, a service's hook state
\* directory, which every service of its snapshot ID uses, holds what its own pre hook
\* left and nothing else, in this run or for the next one.
StateKept == \A s \in Services : owed[s] = "yes" => left[GroupOf(s)] = {s}

\* A pre hook never runs on a service still owed its post hook, in any later run
\* either: what it saves of the service would be the stopped state.  Given up, the
\* service is its operator's, and runs go on with it.
PreHookOnce ==
    [][\A s \in Services : svc[s] = "hook" /\ svc'[s] = "hooking" => owed[s] # "yes"]_vars

\* ADR 46 as it is put: a run begins by running the post hook of each service that an
\* interrupted one left between its hooks; no other way takes the service off the record.
PostHookNext ==
    [][\A s \in Services :
        run = "begun" /\ stage[s] = "hooked" /\ stage'[s] # "hooked" => owed'[s] = "no"]_vars

\* The run is past its configuration, and a shutdown's stop came before some service
\* had its turn.
CutByShutdown ==
    run = "finish" /\ outcome # "running" /\ shutdown /\ Stopped
    /\ \E s \in Services : svc[s] = "waiting"

\* finish: a run that a shutdown's stop cut short is still on record when it has
\* ended, for the container's next start, if the primary was up.
ShutdownResumes == [][CutByShutdown /\ ~ lost /\ run' = "off" => Recorded']_vars

\* The same whether the primary was up or down, as finish's comment has it.
ShutdownKeepsRecord == [][CutByShutdown /\ run' = "off" => Recorded']_vars

\* backupService's comment on the record: finished, however it went, unless a stop cut
\* it short.
CutShortFirst == \A s \in Services : cut[s] => stage[s] # "done"

\* Whatever a pre hook stopped is started again, or given up, through stops, outages and
\* restarts, once the runs are no longer killed: no debt rests on the record for ever.
HooksUndone == <>[][~ Kill]_vars => \A s \in Services : owed[s] = "yes" ~> owed[s] # "yes"

===============================================================================
