----------------------------- MODULE RunControl -----------------------------
(***************************************************************************)
(* A run under its lock (internal/runlock, internal/lockstate), and        *)
(* `archiver stop', `pause' and `resume' acting on it from other processes *)
(* (internal/runctl): a backup, a restore drill or a deep check, whose     *)
(* programs (internal/proc) a pause freezes and a stop ends.               *)
(*                                                                         *)
(* A behaviour is of one kind of run, since each kind has a lock file, a   *)
(* stop flag and an edit lock of its own.  Of the lock file's events only  *)
(* the last is ever looked at.  A backup is that of one service with both  *)
(* hooks, a drill that of one service with a drill hook.                   *)
(*                                                                         *)
(* --immediate is left out: its SIGTERM does what the run's own watch of   *)
(* the stop flag does.  So are commands killed halfway, and lock files     *)
(* that cannot be read or written.                                         *)
(***************************************************************************)
EXTENDS Naturals, Sequences, FiniteSets

CONSTANTS
    Kinds,   \* the kinds of run looked at, of "backup", "drill" and "check"
    MaxRuns, \* a bound on the runs; each one's number stands for its process ID
    Cmds     \* commands under way at a time

ASSUME RunControlAssumption ==
    Kinds \subseteq {"backup", "drill", "check"} /\ MaxRuns \in Nat \ {0} /\ "none" \notin Cmds

VARIABLES
    kind,     \* the kind of run whose lock this is
    pc,       \* where each run's process is
    at,       \* which of its programs is next, or runs
    up,       \* whether a program of the run runs, stopped or not
    frozen,   \* whether that program is stopped (SIGSTOP)
    cancel,   \* whether a signal, a timeout or the watch ended the run (b.signaled, ctx)
    cut,      \* whether a program of it was left out or ended before its time
    file,     \* the lock file: its holder and last event
    flag,     \* the stop flag
    edit,     \* who holds the .edit lock across steps
    cmd,      \* what each command does next, on which run
    crossed   \* history: a command acted on a run other than the one it read

vars == <<kind, pc, at, up, frozen, cancel, cut, file, flag, edit, cmd, crossed>>

runVars == <<pc, at, up, frozen, cancel, cut>>

Runs == 1 .. MaxRuns

None == "none"
NoRun == 0
NoFile == [pid |-> NoRun, ev |-> None]

-------------------------------------------------------------------------------
(* The lock *)

\* The programs of a run, in order.
Plan == CASE kind = "backup" -> <<"pre", "dup", "post">>
          [] kind = "drill"  -> <<"dup", "hook">>
          [] kind = "check"  -> <<"dup">>

Program(r) == Plan[at[r]]

\* Lock.Alive: the process exists.
Alive(r) == r \in Runs /\ pc[r] \notin {"new", "gone", "killed"}

\* Lock.Paused: the latest event was a pause.
Paused == file.ev = "paused"

\* Mutant of Holds: the kernel lock's file is not passed to a check's duplicacy.
HoldsProcess(r) == Alive(r)

\* The kernel lock is its process's, and that of a deep check's duplicacy (Lock.File).
Holds(r) == Alive(r) \/ (kind = "check" /\ up[r])

\* Every edit of the lock file waits for the edit lock.
EditFree == edit = None

\* An append fails where there is no lock file.
AppendEvent(ev) == file' = IF file = NoFile THEN NoFile ELSE [file EXCEPT !.ev = ev]

\* Acquire: the kernel lock, then a left-over stop flag goes and the lock file is
\* written.  A run that finds it taken is refused, and may be started again.
Acquire(r) ==
    /\ pc[r] = "new" /\ \A q \in 1 .. r - 1 : pc[q] # "new"
    /\ \A q \in Runs : ~ Holds(q)
    /\ flag' = FALSE
    /\ file' = [pid |-> r, ev |-> "running"]
    /\ pc' = [pc EXCEPT ![r] = "idle"]
    /\ UNCHANGED <<kind, at, up, frozen, cancel, cut, edit, cmd, crossed>>

\* The process ends, and what it knows with it.
Exit(r, how) ==
    /\ pc' = [pc EXCEPT ![r] = how]
    /\ at' = [at EXCEPT ![r] = 1]
    /\ cancel' = [cancel EXCEPT ![r] = FALSE]
    /\ cut' = [cut EXCEPT ![r] = FALSE]

\* Release removes the lock file, then the flag, and the kernel lock is dropped.
ReleaseFile(r) ==
    /\ pc[r] = "ended"
    /\ file' = NoFile
    /\ pc' = [pc EXCEPT ![r] = "released"]
    /\ UNCHANGED <<kind, at, up, frozen, cancel, cut, flag, edit, cmd, crossed>>

ReleaseLock(r) ==
    /\ pc[r] = "released"
    /\ flag' = FALSE
    /\ Exit(r, "gone")
    /\ UNCHANGED <<kind, up, frozen, file, edit, cmd, crossed>>

-------------------------------------------------------------------------------
(* The run and its programs *)

\* What a run takes as the end of a wait for a pause: a backup and a drill look at the
\* flag, a check at its context.
Ending(r) == cancel[r] \/ (flag /\ kind # "check")

\* Whether a program still starts when its time has come: a backup's duplicacy not
\* after a signal, its hooks always; a drill's hook not after a stop.
Starts(r) ==
    \/ Program(r) \in {"pre", "post"}
    \/ ~ cancel[r] /\ (Program(r) = "hook" => ~ flag)

\* Left out, or refused: a backup without its pre hook needs no post hook, one without
\* its duplicacy does.
SkipTo(r) == IF kind = "backup" /\ Program(r) = "dup" THEN at[r] + 1 ELSE Len(Plan) + 1

Skip(r) ==
    /\ at' = [at EXCEPT ![r] = SkipTo(r)]
    /\ pc' = [pc EXCEPT ![r] = "idle"]
    /\ cut' = [cut EXCEPT ![r] = TRUE]
    /\ UNCHANGED <<up, frozen>>

StartProgram(r) ==
    /\ up' = [up EXCEPT ![r] = TRUE]
    /\ frozen' = [frozen EXCEPT ![r] = FALSE]
    /\ pc' = [pc EXCEPT ![r] = "up"]
    /\ UNCHANGED <<at, cut>>

\* waitWhilePaused, the drill's stopRequested, the check's wait.
Wait(r) ==
    /\ pc[r] = "idle"
    /\ at[r] <= Len(Plan)
    /\ ~ Paused \/ Ending(r)
    /\ pc' = [pc EXCEPT ![r] = IF Ending(r) THEN "forced" ELSE "willing"]
    /\ UNCHANGED <<kind, at, up, frozen, cancel, cut, file, flag, edit, cmd, crossed>>

\* Mutant of Unpaused: the program starts without another look at the pause.
UnpausedUnlocked(r) ==
    /\ pc[r] = "willing"
    /\ IF Starts(r) THEN StartProgram(r) ELSE Skip(r)
    /\ UNCHANGED <<kind, cancel, file, flag, edit, cmd, crossed>>

\* Unpaused: under the edit lock, unless a pause got in.
Unpaused(r) ==
    /\ pc[r] = "willing"
    /\ EditFree
    /\ IF Paused
       THEN pc' = [pc EXCEPT ![r] = "idle"] /\ UNCHANGED <<at, up, frozen, cut>>
       ELSE IF Starts(r) THEN StartProgram(r) ELSE Skip(r)
    /\ UNCHANGED <<kind, cancel, file, flag, edit, cmd, crossed>>

\* A run that is ending starts what it must without the lock: a post hook, and a
\* duplicacy whose run looked for the stop just before it came.
Forced(r) ==
    /\ pc[r] = "forced"
    /\ \/ Program(r) # "pre" /\ Starts(r) /\ StartProgram(r)
       \/ Program(r) # "post" /\ Skip(r)
    /\ UNCHANGED <<kind, cancel, file, flag, edit, cmd, crossed>>

\* A program ends, by itself or at a signal it handles; a stopped one does not.
ProgramEnds(r) ==
    /\ up[r] /\ ~ frozen[r]
    /\ up' = [up EXCEPT ![r] = FALSE]
    /\ UNCHANGED <<kind, pc, at, frozen, cancel, cut, file, flag, edit, cmd, crossed>>

\* Mutant of Terminate: no KILL after the signals a stopped program does not handle.
TerminateHandled(r) ==
    /\ pc[r] = "up" /\ up[r] /\ ~ frozen[r]
    /\ Program(r) = "dup"
    /\ cancel[r] \/ (kind = "backup" /\ flag)
    /\ up' = [up EXCEPT ![r] = FALSE]
    /\ cut' = [cut EXCEPT ![r] = TRUE]
    /\ UNCHANGED <<kind, pc, at, frozen, cancel, file, flag, edit, cmd, crossed>>

\* Terminate on a run that is ending: INT or TERM, and KILL in the end, which reaches a
\* stopped program too.  A backup's hooks are left to finish.
Terminate(r) ==
    /\ pc[r] = "up" /\ up[r]
    /\ Program(r) = "dup"
    /\ cancel[r] \/ (kind = "backup" /\ flag)
    /\ up' = [up EXCEPT ![r] = FALSE]
    /\ frozen' = [frozen EXCEPT ![r] = FALSE]
    /\ cut' = [cut EXCEPT ![r] = TRUE]
    /\ UNCHANGED <<kind, pc, at, cancel, file, flag, edit, cmd, crossed>>

\* The run sees its program done and goes on to the next.
Done(r) ==
    /\ pc[r] = "up" /\ ~ up[r]
    /\ Program(r) # "hook"
    /\ at' = [at EXCEPT ![r] = IF kind # "backup" /\ cut[r] THEN Len(Plan) + 1 ELSE @ + 1]
    /\ pc' = [pc EXCEPT ![r] = "idle"]
    /\ UNCHANGED <<kind, up, frozen, cancel, cut, file, flag, edit, cmd, crossed>>

\* Mutant of Cleanup: the hook's cleanup is not recorded, so a pause may freeze it.
CleanupUnrecorded(r) ==
    /\ pc[r] = "up"
    /\ Program(r) = "hook"
    /\ ~ up[r] \/ flag \/ cancel[r] \/ ~ Paused
    /\ EditFree
    /\ cut' = [cut EXCEPT ![r] = @ \/ up[r]]
    /\ pc' = [pc EXCEPT ![r] = "cleanup"]
    /\ UNCHANGED <<kind, at, up, frozen, cancel, file, flag, edit, cmd, crossed>>

\* A drill hook that ended, was stopped or used up its time, which stands still in a
\* pause: its process group's cleanup begins.
Cleanup(r) ==
    /\ pc[r] = "up"
    /\ Program(r) = "hook"
    /\ ~ up[r] \/ flag \/ cancel[r] \/ ~ Paused
    /\ EditFree
    /\ AppendEvent("cleanup")
    /\ cut' = [cut EXCEPT ![r] = @ \/ up[r]]
    /\ pc' = [pc EXCEPT ![r] = "cleanup"]
    /\ UNCHANGED <<kind, at, up, frozen, cancel, flag, edit, cmd, crossed>>

\* TerminateGroupGrace: CONT first, so that the TERM after it is handled.
CleanupContinue(r) ==
    /\ pc[r] = "cleanup"
    /\ frozen' = [frozen EXCEPT ![r] = FALSE]
    /\ pc' = [pc EXCEPT ![r] = "grace"]
    /\ UNCHANGED <<kind, at, up, cancel, cut, file, flag, edit, cmd, crossed>>

\* The group ended within its grace, or was killed.
CleanupEnd(r) ==
    /\ pc[r] = "grace"
    /\ EditFree
    /\ up' = [up EXCEPT ![r] = FALSE]
    /\ frozen' = [frozen EXCEPT ![r] = FALSE]
    /\ AppendEvent("running")
    /\ at' = [at EXCEPT ![r] = @ + 1]
    /\ pc' = [pc EXCEPT ![r] = "idle"]
    /\ UNCHANGED <<kind, cancel, cut, flag, edit, cmd, crossed>>

\* How the run went.
Outcome(r) == IF cut[r] \/ Ending(r) THEN "stopped" ELSE "completed"

\* The run is through, or stopped: it records which.
Record(r) ==
    /\ pc[r] = "idle"
    /\ at[r] > Len(Plan)
    /\ EditFree
    /\ AppendEvent(Outcome(r))
    /\ pc' = [pc EXCEPT ![r] = "ended"]
    /\ UNCHANGED <<kind, at, up, frozen, cancel, cut, flag, edit, cmd, crossed>>

\* onSignal, the context's cancel: the watch finds the flag; or a signal, a time limit
\* or (a check) a backup.
Cancel(r) ==
    /\ Alive(r) /\ ~ cancel[r]
    /\ cancel' = [cancel EXCEPT ![r] = TRUE]
    /\ UNCHANGED <<kind, pc, at, up, frozen, cut, file, flag, edit, cmd, crossed>>

\* The process is killed.  Its program, if any, runs on.
Kill(r) ==
    /\ Alive(r)
    /\ Exit(r, "killed")
    /\ UNCHANGED <<kind, up, frozen, file, flag, edit, cmd, crossed>>

-------------------------------------------------------------------------------
(* The commands *)

Idle == [do |-> None, run |-> NoRun, was |-> FALSE]

\* Command c goes on to its next step, or is done.
Then(c, do) == cmd' = [cmd EXCEPT ![c] = IF do = None THEN Idle ELSE [@ EXCEPT !.do = do]]

\* c acts on the lock file or the flag: is the run there the one it read?
Touch(c) == crossed' = (crossed \/ (file # NoFile /\ file.pid # cmd[c].run))

\* Every command reads the lock first; only `archiver pause' of a backup looks for a stop.
ReadPause(c) ==
    /\ cmd[c] = Idle
    /\ Alive(file.pid)
    /\ ~ Paused
    /\ kind = "backup" => ~ flag
    /\ cmd' = [cmd EXCEPT ![c] = [do |-> "pause", run |-> file.pid, was |-> FALSE]]
    /\ UNCHANGED <<kind, runVars, file, flag, edit, crossed>>

\* resumeDrill does it in one step, under the edit lock.
ResumeDo == IF kind = "drill" THEN "resume" ELSE "cont"

ReadResume(c) ==
    /\ cmd[c] = Idle
    /\ Alive(file.pid)
    /\ Paused
    /\ cmd' = [cmd EXCEPT ![c] = [do |-> ResumeDo, run |-> file.pid, was |-> TRUE]]
    /\ UNCHANGED <<kind, runVars, file, flag, edit, crossed>>

ReadStop(c) ==
    /\ cmd[c] = Idle
    /\ Alive(file.pid)
    /\ cmd' = [cmd EXCEPT ![c] = [do |-> "flag", run |-> file.pid, was |-> Paused]]
    /\ UNCHANGED <<kind, runVars, file, flag, edit, crossed>>

\* runlock.Pause, up to its signal: not if the run ended, is paused, or cleans up.
Pause(c) ==
    /\ cmd[c].do = "pause"
    /\ EditFree
    /\ IF file = NoFile \/ Paused \/ file.ev = "cleanup"
       THEN Then(c, None) /\ UNCHANGED <<file, edit, crossed>>
       ELSE AppendEvent("paused") /\ edit' = c /\ Then(c, "freeze") /\ Touch(c)
    /\ UNCHANGED <<kind, runVars, flag>>

\* Its signal, with the edit lock still held: SIGSTOP to whatever the run has started.
Freeze(c) ==
    /\ cmd[c].do = "freeze"
    /\ frozen' = [frozen EXCEPT ![cmd[c].run] = up[cmd[c].run]]
    /\ edit' = None
    /\ Then(c, None)
    /\ UNCHANGED <<kind, pc, at, up, cancel, cut, file, flag, crossed>>

\* Mutant of Resume: the programs continue, but what another command recorded since is
\* not looked at.
ResumeAlways(c) ==
    /\ cmd[c].do = "resume"
    /\ Touch(c) /\ AppendEvent("running")
    /\ frozen' = IF Paused THEN [frozen EXCEPT ![cmd[c].run] = FALSE] ELSE frozen
    /\ Then(c, None)
    /\ UNCHANGED <<kind, pc, at, up, cancel, cut, flag, edit>>

\* runlock.Resume, a drill's: only a paused run, under the edit lock.
Resume(c) ==
    /\ cmd[c].do = "resume"
    /\ EditFree
    /\ IF Paused
       THEN /\ frozen' = [frozen EXCEPT ![cmd[c].run] = FALSE]
            /\ AppendEvent("running")
            /\ Touch(c)
       ELSE UNCHANGED <<frozen, file, crossed>>
    /\ Then(c, None)
    /\ UNCHANGED <<kind, pc, at, up, cancel, cut, flag, edit>>

\* Env.resume, a backup's and a check's: SIGCONT, ...
Continue(c) ==
    /\ cmd[c].do = "cont"
    /\ frozen' = [frozen EXCEPT ![cmd[c].run] = FALSE]
    /\ Then(c, "append")
    /\ UNCHANGED <<kind, pc, at, up, cancel, cut, file, flag, edit, crossed>>

\* ... and then its event, whatever the last one is by now.
AppendRunning(c) ==
    /\ cmd[c].do = "append"
    /\ EditFree
    /\ AppendEvent("running")
    /\ Touch(c)
    /\ Then(c, None)
    /\ UNCHANGED <<kind, runVars, flag, edit>>

\* stopDrill and deepChecks("stop") go on to a resume in any case, a backup's stop if
\* the run was seen paused.
StopDo(was) == IF kind = "backup" /\ ~ was THEN None ELSE ResumeDo

\* The flag first.
Stop(c) ==
    /\ cmd[c].do = "flag"
    /\ flag' = TRUE
    /\ Touch(c)
    /\ Then(c, StopDo(cmd[c].was))
    /\ UNCHANGED <<kind, runVars, file, edit>>

-------------------------------------------------------------------------------
Init ==
    /\ kind \in Kinds
    /\ pc = [r \in Runs |-> "new"]
    /\ at = [r \in Runs |-> 1]
    /\ up = [r \in Runs |-> FALSE]
    /\ frozen = [r \in Runs |-> FALSE]
    /\ cancel = [r \in Runs |-> FALSE]
    /\ cut = [r \in Runs |-> FALSE]
    /\ file = NoFile
    /\ flag = FALSE
    /\ edit = None
    /\ cmd = [c \in Cmds |-> Idle]
    /\ crossed = FALSE

RunStep(r) ==
    \/ Wait(r) \/ Unpaused(r) \/ Forced(r) \/ Done(r) \/ Record(r)
    \/ Cleanup(r) \/ CleanupContinue(r) \/ CleanupEnd(r)
    \/ ReleaseFile(r) \/ ReleaseLock(r)

ProgramStep(r) == ProgramEnds(r) \/ Terminate(r)

CmdStep(c) ==
    \/ Pause(c) \/ Freeze(c) \/ Resume(c) \/ Continue(c) \/ AppendRunning(c) \/ Stop(c)

Next ==
    \/ \E r \in Runs :
          RunStep(r) \/ ProgramStep(r) \/ Acquire(r) \/ Cancel(r) \/ Kill(r)
    \/ \E c \in Cmds : CmdStep(c) \/ ReadPause(c) \/ ReadResume(c) \/ ReadStop(c)

Spec == Init /\ [][Next]_vars

\* Processes that are not killed go on, and get the edit lock however many wait for it
\* (flock serves its waiters in turn); programs that are not stopped end, the watch looks
\* for the flag every second, and a command once begun is carried out.  Nothing makes
\* anyone give one.
FairSpec ==
    /\ Spec
    /\ SF_vars(\E r \in Runs : RunStep(r))
    /\ SF_vars(\E r \in Runs : ProgramStep(r))
    /\ WF_vars(flag /\ \E r \in Runs : Cancel(r))
    /\ \A c \in Cmds : WF_vars(CmdStep(c))

-------------------------------------------------------------------------------
(* Properties *)

\* The type invariant.
TypeOK ==
    /\ kind \in Kinds
    /\ pc \in [Runs -> {"new", "idle", "willing", "forced", "up", "cleanup", "grace",
                        "ended", "released", "gone", "killed"}]
    /\ at \in [Runs -> 1 .. Len(Plan) + 1]
    /\ up \in [Runs -> BOOLEAN] /\ frozen \in [Runs -> BOOLEAN]
    /\ cancel \in [Runs -> BOOLEAN] /\ cut \in [Runs -> BOOLEAN]
    /\ file \in {NoFile} \cup
         [pid : Runs, ev : {"running", "paused", "cleanup", "stopped", "completed"}]
    /\ flag \in BOOLEAN /\ crossed \in BOOLEAN
    /\ edit \in Cmds \cup {None}
    /\ cmd \in [Cmds -> [do : {None, "pause", "freeze", "resume", "cont", "append", "flag"},
                         run : Runs \cup {NoRun}, was : BOOLEAN]]

\* Pause and Unpaused: while a run is recorded paused nothing of it runs, wherever the
\* pause met the start of a program, unless it is being stopped or a resume is halfway.
PausedFrozen ==
    \A r \in Runs :
        /\ file.pid = r /\ Paused /\ Alive(r) /\ up[r]
        /\ ~ flag /\ ~ cancel[r] /\ ~ crossed
        /\ \A c \in Cmds : cmd[c].do \notin {"freeze", "append"}
        => frozen[r]

\* runlock.Resume: a drill's program never stays stopped with nothing on record to
\* resume.  (A backup's and a check's resume are two steps, and it may.)
FrozenPaused ==
    kind = "drill" /\ ~ crossed =>
        \A r \in Runs : pc[r] = "up" /\ up[r] /\ frozen[r] => file.pid = r /\ Paused

\* Cleanup: no pause freezes a drill hook that is cleaning up.
CleanupRuns == \A r \in Runs : pc[r] = "grace" => ~ (up[r] /\ frozen[r])

\* Lock.File: a check never runs beside another's duplicacy, that of a killed one included.
OneCheck == kind = "check" => \A q, r \in Runs : up[q] /\ up[r] => q = r

\* A stopped run ends: a drill and a check in any case, a backup unless a pause that
\* came with the stop has one of its hooks frozen.
StopEnds ==
    flag /\ Alive(file.pid)
        ~> ~ flag \/ ~ Alive(file.pid)
           \/ (kind = "backup" /\ up[file.pid] /\ frozen[file.pid])

\* The same for every run: "a stop resumes and ends whatever runs".
StopAlwaysEnds == flag /\ Alive(file.pid) ~> ~ flag \/ ~ Alive(file.pid)

===============================================================================
