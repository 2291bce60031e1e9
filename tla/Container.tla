------------------------------ MODULE Container ------------------------------
(***************************************************************************)
(* The container (cmd/archiver/entrypoint.go, internal/entrypoint), the    *)
(* daemon it runs (internal/daemon, runDaemon in cmd/archiver/main.go)     *)
(* with its schedules, its socket and its copy workers                     *)
(* (cmd/archiver/workers.go), the runs that the schedules, a person and    *)
(* the last container's records start (internal/resume), and `archiver     *)
(* stop' by a person or by the container's own shutdown.                   *)
(*                                                                         *)
(* Of the kinds of run, the backup and the maintenance are here: both      *)
(* wake the workers, and only the backup's end is waited for by a stop.    *)
(* Each is looked at from outside: its lock, its record, where it looks    *)
(* for a stop and what it sends to the daemon.  One secondary storage, one *)
(* worker, without its pauses and failures (see CopyWorker).  A run        *)
(* started while another of its kind has the lock is refused at once.      *)
(* A start that the configuration refuses is left out, and so are runs     *)
(* killed on their own (see Backup): here the whole container is.          *)
(***************************************************************************)
EXTENDS ContainerState

\* Who asks for a stop: a person, or the entrypoint as the container shuts down.
Stops == {"person", "shutdown"}

vars == <<box, ends, scheduled, flag, daemon, job, run, stopReq, record, asked, worker, cmd,
          late, quiet>>

TypeOK ==
    /\ box \in {"down", "up", "stop", "wait", "term"}
    /\ ends \in 0 .. MaxEnds
    /\ scheduled \subseteq Kinds
    /\ daemon \in {"none", "deciding", "serving", "deaf", "closing", "off"}
    /\ job \in [Kinds -> {"off", "catchup", "slot", "child"}]
    /\ run \in [Kinds -> [st : {"off", "begun", "locked", "working", "wrap", "copying",
                                "kit", "stopped", "done"},
                          by : {"none", "job", "hand"}, told : BOOLEAN]]
    /\ stopReq \in [Kinds -> BOOLEAN] /\ record \in [Kinds -> BOOLEAN]
    /\ worker \in {"off", "idle", "copying", "ending", "rewoken", "stopped"}
    /\ cmd \in [Stops -> {"none", "runs", "backup", "await", "last"}]
    /\ {flag, asked, late, quiet} \subseteq BOOLEAN

Init ==
    /\ box = "down" /\ ends = 0 /\ scheduled = {} /\ flag = FALSE /\ daemon = "none"
    /\ job = [k \in Kinds |-> "off"] /\ run = [k \in Kinds |-> Off]
    /\ stopReq = [k \in Kinds |-> FALSE] /\ record = [k \in Kinds |-> FALSE]
    /\ asked = FALSE
    /\ worker = "off"
    /\ cmd = [c \in Stops |-> "none"] /\ late = FALSE /\ quiet = FALSE

\* The daemon answers on its socket and owns the copies.
Workers == daemon \in {"serving", "closing"}

-------------------------------------------------------------------------------
(* The copy worker *)

\* handle(local-changed): Worker.Wake, which also ends a stop, once the copy it ends has
\* ended.  A worker whose loop has ended is not woken, and an idle one may copy at any
\* time, for its periodic check.
Wake ==
    worker' = CASE worker = "stopped" -> "idle"
                [] worker = "ending" -> "rewoken"
                [] OTHER -> worker

\* handle(stop): Worker.Stop, which drains the wake.  A copy being ended still runs.
StopWorkers ==
    worker' = IF ~ Workers THEN worker
              ELSE CASE worker = "idle" -> "stopped"
                     [] worker \in {"copying", "rewoken"} -> "ending"
                     [] OTHER -> worker

\* A pass copies under the copy lock, which a backup's own copies take too.
WorkerCopy ==
    /\ worker = "idle" /\ box # "term"
    /\ run["backup"].st # "copying"
    /\ worker' = "copying"
    /\ UNCHANGED <<box, ends, scheduled, flag, daemon, job, run, stopReq, record, asked, cmd, late, quiet>>

WorkerDone ==
    /\ Copying
    /\ worker' = IF worker = "ending" THEN "stopped" ELSE "idle"
    /\ UNCHANGED <<box, ends, scheduled, flag, daemon, job, run, stopReq, record, asked, cmd, late, quiet>>

\* Worker.Run returns as the daemon's context ends.
WorkerQuit ==
    /\ box = "term" /\ worker \in {"idle", "stopped"}
    /\ worker' = "off"
    /\ UNCHANGED <<box, ends, scheduled, flag, daemon, job, run, stopReq, record, asked, cmd, late, quiet>>

-------------------------------------------------------------------------------
(* The start, the daemon and its jobs *)

\* Mutant of CatchUp: only what has a schedule is caught up.
CatchUpScheduled(s) == {k \in s : record[k]}

\* The runs the last container left unfinished start now, scheduled or not.
CatchUp(s) == {k \in Kinds : record[k]}

\* Mutant of Clear: the last shutdown's mark is left.
ClearLocksOnly ==
    /\ stopReq' = [k \in Kinds |-> FALSE]
    /\ UNCHANGED flag

\* ClearLocks, and the last shutdown's mark, both of which outlive a restart.
Clear ==
    /\ stopReq' = [k \in Kinds |-> FALSE]
    /\ flag' = FALSE

\* The container starts, with the schedules it now has: the daemon, or without schedules
\* the interrupted runs, by the entrypoint itself.
Start ==
    /\ box = "down"
    /\ box' = "up"
    /\ scheduled' \in Schedules
    /\ Clear
    /\ daemon' = IF scheduled' = {} THEN "none" ELSE "deciding"
    /\ job' = [k \in Kinds |-> IF scheduled' = {} /\ k \in CatchUp({}) THEN "catchup" ELSE "off"]
    /\ late' = FALSE
    /\ UNCHANGED <<ends, run, record, asked, worker, cmd, quiet>>

\* startWorkers: without a second storage, or where the configuration cannot be used, the
\* daemon keeps no worker and opens no socket; where the socket does not open, neither.
Decide == {"serving", "deaf"}

\* The workers run once the socket serves.
StartWorkers(d) == worker' = IF d = "serving" THEN "idle" ELSE worker

\* The workers are made before the socket opens and run once it serves; without it there
\* are none.  Then the interrupted runs are looked for, and every schedule begins.
Serve ==
    /\ daemon = "deciding"
    /\ daemon' \in Decide
    /\ StartWorkers(daemon')
    /\ job' = [k \in Kinds |-> IF k \in CatchUp(scheduled) THEN "catchup"
                               ELSE IF k \in scheduled THEN "slot" ELSE "off"]
    /\ quiet' = FALSE
    /\ UNCHANGED <<box, ends, scheduled, flag, run, stopReq, record, asked, cmd, late>>

\* What a job does after its run, or where that is refused: its schedule, if it has one.
NextSlot(k) == IF k \in scheduled THEN "slot" ELSE "off"

\* A process of the run starts, unless one of its kind is there.
Begin(k, by) ==
    /\ run' = [run EXCEPT ![k] = [Off EXCEPT !.st = "begun", !.by = by]]
    /\ quiet' = FALSE

\* runNow and schedule: a run on its slot or at once, never after the context has ended,
\* and never two of one job.
JobRun(k) ==
    /\ job[k] \in {"catchup", "slot"} /\ box # "term"
    /\ IF run[k] = Off
       THEN Begin(k, "job") /\ job' = [job EXCEPT ![k] = "child"]
       ELSE job' = [job EXCEPT ![k] = NextSlot(k)] /\ UNCHANGED <<run, quiet>>
    /\ UNCHANGED <<box, ends, scheduled, flag, daemon, stopReq, record, asked, worker, cmd, late>>

JobQuit(k) ==
    /\ job[k] \in {"catchup", "slot"} /\ box = "term"
    /\ job' = [job EXCEPT ![k] = "off"]
    /\ UNCHANGED <<box, ends, scheduled, flag, daemon, run, stopReq, record, asked, worker, cmd, late, quiet>>

\* archiver backup or maintenance by hand, in a container that has not ended.
HandRun(k) ==
    /\ box # "down" /\ k \in ByHand /\ run[k] = Off
    /\ Begin(k, "hand")
    /\ UNCHANGED <<box, ends, scheduled, flag, daemon, job, stopReq, record, asked, worker, cmd, late>>

\* The daemon waits for its jobs, then stops its workers and waits for them; only then
\* does the socket close.
DaemonDrained ==
    /\ box = "term" /\ daemon \in {"serving", "deaf"}
    /\ \A k \in Kinds : job[k] = "off"
    /\ daemon' = IF daemon = "serving" THEN "closing" ELSE "off"
    /\ worker' = IF Copying THEN "ending" ELSE worker
    /\ UNCHANGED <<box, ends, scheduled, flag, job, run, stopReq, record, asked, cmd, late, quiet>>

DaemonClosed ==
    /\ daemon = "closing" /\ worker = "off"
    /\ daemon' = "off"
    /\ UNCHANGED <<box, ends, scheduled, flag, job, run, stopReq, record, asked, worker, cmd, late, quiet>>

-------------------------------------------------------------------------------
(* The runs *)

Step(k, st) == run' = [run EXCEPT ![k].st = st]

\* Acquire: the lock is taken and a stop flag left over goes.
Acquire(k) ==
    /\ run[k].st = "begun"
    /\ Step(k, "locked")
    /\ stopReq' = [stopReq EXCEPT ![k] = FALSE]
    /\ UNCHANGED <<box, ends, scheduled, flag, daemon, job, record, asked, worker, cmd, late, quiet>>

\* The run is recorded, in place of one that was interrupted, and the daemon asked whether
\* workers keep the secondaries.
RecordRun(k) ==
    /\ run[k].st = "locked"
    /\ Step(k, "working")
    /\ record' = [record EXCEPT ![k] = TRUE]
    /\ asked' = IF k = "backup" THEN Workers ELSE asked
    /\ UNCHANGED <<box, ends, scheduled, flag, daemon, job, stopReq, worker, cmd, late, quiet>>

\* It works until it is done or finds that it is to stop; the last look before the copies.
Work(k) ==
    /\ run[k].st = "working"
    /\ Step(k, IF stopReq[k] THEN "stopped" ELSE "wrap")
    /\ UNCHANGED <<box, ends, scheduled, flag, daemon, job, stopReq, record, asked, worker, cmd, late, quiet>>

\* Send: a command to the daemon's socket, which may not get it.
Send(Handle) == (Workers /\ Handle) \/ UNCHANGED worker

\* handOffCopies, and maintenance's word of a prune: the daemon may not get it, and
\* maintenance that deleted nothing sends none.
HandOff(k) ==
    /\ run[k].st = "wrap" /\ (asked \/ k = "maintenance")
    /\ Step(k, IF k = "backup" THEN "kit" ELSE "done")
    /\ Send(Wake)
    /\ UNCHANGED <<box, ends, scheduled, flag, daemon, job, stopReq, record, asked, cmd, late, quiet>>

\* Without workers the backup copies for itself, one copier at a time on a storage.
CopyInline ==
    /\ run["backup"].st = "wrap" /\ ~ asked
    /\ ~ Copying
    /\ Step("backup", "copying")
    /\ UNCHANGED <<box, ends, scheduled, flag, daemon, job, stopReq, record, asked, worker, cmd, late, quiet>>

\* A stop ends a wait for the copy lock as it ends the copies.
CopiedInline ==
    /\ \/ run["backup"].st = "copying"
       \/ run["backup"].st = "wrap" /\ ~ asked /\ stopReq["backup"]
    /\ Step("backup", IF stopReq["backup"] THEN "stopped" ELSE "kit")
    /\ UNCHANGED <<box, ends, scheduled, flag, daemon, job, stopReq, record, asked, worker, cmd, late, quiet>>

\* The recovery kit's step, and the last look for a stop.
Kit ==
    /\ run["backup"].st = "kit"
    /\ Step("backup", IF stopReq["backup"] THEN "stopped" ELSE "done")
    /\ UNCHANGED <<box, ends, scheduled, flag, daemon, job, stopReq, record, asked, worker, cmd, late, quiet>>

\* finish: only a stop for a shutdown leaves the run to be resumed.
KeepRecord(k) == run[k].st = "stopped" /\ flag

\* finish, Release and the process's end; a stop that waits for the backup sees it gone,
\* and its job goes on.
End(k) ==
    /\ run[k].st \in {"stopped", "done"}
    /\ record' = [record EXCEPT ![k] = KeepRecord(k)]
    /\ run' = [run EXCEPT ![k] = Off]
    /\ stopReq' = [stopReq EXCEPT ![k] = FALSE]
    /\ job' = IF run[k].by = "job" THEN [job EXCEPT ![k] = NextSlot(k)] ELSE job
    /\ cmd' = IF k = "backup" THEN [c \in Stops |-> IF cmd[c] = "await" THEN "last" ELSE cmd[c]] ELSE cmd
    /\ asked' = (asked /\ k # "backup")
    /\ UNCHANGED <<box, ends, scheduled, flag, daemon, worker, late, quiet>>

-------------------------------------------------------------------------------
(* archiver stop *)

StopAsked ==
    /\ box # "down" /\ cmd["person"] = "none"
    /\ cmd' = [cmd EXCEPT !["person"] = "runs"]
    /\ UNCHANGED <<box, ends, scheduled, flag, daemon, job, run, stopReq, record, asked, worker, late, quiet>>

\* The stop flag of a run that has its lock.
Request(c, k) ==
    IF Locked(k)
    THEN /\ stopReq' = [stopReq EXCEPT ![k] = TRUE]
         /\ run' = [run EXCEPT ![k].told = @ \/ c = "shutdown"]
    ELSE UNCHANGED <<stopReq, run>>

\* The runs other than the backup are told, and not waited for; the workers are stopped.
StopRuns(c) ==
    /\ cmd[c] = "runs"
    /\ Request(c, "maintenance")
    /\ StopWorkers
    /\ cmd' = [cmd EXCEPT ![c] = "backup"]
    /\ UNCHANGED <<box, ends, scheduled, flag, daemon, job, record, asked, late, quiet>>

StopBackup(c) ==
    /\ cmd[c] = "backup"
    /\ Request(c, "backup")
    /\ cmd' = [cmd EXCEPT ![c] = IF Locked("backup") THEN "await" ELSE "last"]
    /\ UNCHANGED <<box, ends, scheduled, flag, daemon, job, record, asked, worker, late, quiet>>

\* StopWait has passed and the backup is still ending.
StopWaitOut(c) ==
    /\ cmd[c] = "await"
    /\ cmd' = [cmd EXCEPT ![c] = "last"]
    /\ UNCHANGED <<box, ends, scheduled, flag, daemon, job, run, stopReq, record, asked, worker, late, quiet>>

\* Mutant of LastStop: the workers are stopped once.
LastStopNone == UNCHANGED worker

\* The workers are stopped again: the backup may have woken them meanwhile.
LastStop == StopWorkers

StopAgain(c) ==
    /\ cmd[c] = "last"
    /\ LastStop
    /\ cmd' = [cmd EXCEPT ![c] = "none"]
    /\ box' = IF c = "shutdown" THEN "wait" ELSE box
    /\ quiet' = (daemon # "deciding" /\ \A k \in Kinds : run[k] = Off)
    /\ UNCHANGED <<ends, scheduled, flag, daemon, job, run, stopReq, record, asked, late>>

-------------------------------------------------------------------------------
(* The container's end *)

\* SIGTERM: the entrypoint marks the shutdown and runs archiver stop.  Without a daemon
\* it has started the interrupted runs before it listens.
Sigterm ==
    /\ box = "up" /\ ends < MaxEnds
    /\ daemon = "none" => \A k \in Kinds : job[k] # "catchup"
    /\ box' = "stop" /\ ends' = ends + 1
    /\ flag' = TRUE
    /\ cmd' = [cmd EXCEPT !["shutdown"] = "runs"]
    /\ UNCHANGED <<scheduled, daemon, job, run, stopReq, record, asked, worker, late, quiet>>

\* The container's processes end with it; its locks and its mark are still there when it
\* is started again.
EndBox(l) ==
    /\ box' = "down" /\ late' = l
    /\ daemon' = "none" /\ job' = [k \in Kinds |-> "off"]
    /\ run' = [k \in Kinds |-> Off]
    /\ asked' = FALSE
    /\ worker' = "off"
    /\ cmd' = [c \in Stops |-> "none"]
    /\ scheduled' = {} /\ quiet' = FALSE

\* Mutant of LocksClear: only the backup's lock and the copies' are looked at.
LocksClearBackup == ~ Locked("backup") /\ ~ Copying

\* No run's lock file is there and no copy lock is held.
LocksClear == (\A k \in Kinds : ~ Locked(k)) /\ ~ Copying

\* shutdown's wait ends, after 100 seconds whatever runs: then the daemon gets its
\* SIGTERM, or the container ends.
Waited(l) ==
    /\ box = "wait" /\ (l \/ LocksClear)
    /\ IF daemon = "none"
       THEN EndBox(l) /\ UNCHANGED <<ends, flag, stopReq, record>>
       ELSE /\ box' = "term" /\ late' = l
            /\ UNCHANGED <<ends, scheduled, flag, daemon, job, run, stopReq, record, asked, worker, cmd, quiet>>

\* The daemon has exited, or is killed after 20 seconds.
Exit ==
    /\ box = "term"
    /\ EndBox(late \/ daemon # "off")
    /\ UNCHANGED <<ends, flag, stopReq, record>>

Crash ==
    /\ box # "down" /\ ends < MaxEnds
    /\ ends' = ends + 1
    /\ EndBox(TRUE)
    /\ UNCHANGED <<flag, stopReq, record>>

-------------------------------------------------------------------------------
RunStep(k) == Acquire(k) \/ RecordRun(k) \/ Work(k) \/ HandOff(k) \/ End(k)

BackupStep == CopyInline \/ CopiedInline \/ Kit

StopStep(c) == StopRuns(c) \/ StopBackup(c) \/ StopWaitOut(c) \/ StopAgain(c)

DaemonStep == Serve \/ DaemonDrained \/ DaemonClosed

Next ==
    \/ Start \/ DaemonStep \/ BackupStep
    \/ \E k \in Kinds : JobRun(k) \/ JobQuit(k) \/ HandRun(k) \/ RunStep(k)
    \/ WorkerCopy \/ WorkerDone \/ WorkerQuit
    \/ StopAsked \/ \E c \in Stops : StopStep(c)
    \/ Sigterm \/ (\E l \in BOOLEAN : Waited(l)) \/ Exit \/ Crash

Spec == Init /\ [][Next]_vars

\* A container that is down is started again, and what it runs goes on: processes are
\* scheduled, programs end and schedules come round.
Fairness ==
    /\ WF_vars(Start) /\ WF_vars(DaemonStep) /\ WF_vars(BackupStep) /\ WF_vars(Exit)
    /\ \A k \in Kinds : WF_vars(JobRun(k)) /\ WF_vars(JobQuit(k)) /\ WF_vars(RunStep(k))
    /\ WF_vars(WorkerDone) /\ WF_vars(WorkerQuit)
    /\ \A c \in Stops : WF_vars(StopStep(c))
    /\ WF_vars(\E l \in BOOLEAN : Waited(l))

FairSpec == Spec /\ Fairness

===============================================================================
