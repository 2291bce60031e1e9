-------------------------- MODULE RunControlProofs --------------------------
(***************************************************************************)
(* What a run and the commands that act on it keep, for every kind of run  *)
(* and any number of runs and commands: a recorded pause is a real one, a  *)
(* drill's program does not stay stopped with nothing on record, a cleanup *)
(* is never frozen, and one check's programs run at a time.                *)
(***************************************************************************)
EXTENDS RunControl, TLAPS

\* The kernel lock has one holder.
OneHolder == \A q, r \in Runs : Holds(q) /\ Holds(r) => q = r

\* The lock file is its holder's until it releases it.
Own ==
    \A r \in Runs :
        /\ Alive(r) /\ pc[r] # "released" => file.pid = r
        /\ pc[r] = "released" => file = NoFile

\* What is on file, or was read there, has been a run's.
Begun ==
    /\ file.pid \in Runs => pc[file.pid] # "new"
    /\ \A c \in Cmds : cmd[c].run \in Runs => pc[cmd[c].run] # "new"
    /\ \A c \in Cmds : cmd[c].do # None => cmd[c].run \in Runs

\* The edit lock is kept by a pause on its way to its signal, ...
Editing == \A c \in Cmds : cmd[c].do = "freeze" <=> edit = c

\* ... whose run is still the one on file, and still paused, or gone.
Freezing ==
    \A c \in Cmds : edit = c /\ ~ crossed =>
        /\ Paused => file.pid = cmd[c].run
        /\ Alive(cmd[c].run) /\ pc[cmd[c].run] # "released" => Paused

\* A run that passes a pause by is ending.
Passing == \A r \in Runs : pc[r] = "forced" => Ending(r)

\* No command gets at a cleanup: the file says so, and no signal is on its way.
Cleaning ==
    \A r \in Runs : pc[r] \in {"cleanup", "grace"} =>
        kind = "drill" /\ file.ev = "cleanup" /\ edit = None

\* A drill's resume is one step.
OneStep == kind = "drill" => \A c \in Cmds : cmd[c].do \notin {"cont", "append"}

\* A run that starts a program, or has one, has it in its plan.
InPlan == \A r \in Runs : pc[r] \in {"willing", "forced", "up", "cleanup", "grace"} => at[r] <= Len(Plan)

ControlInv ==
    /\ TypeOK /\ OneHolder /\ Own /\ Begun /\ Editing /\ Freezing /\ Passing /\ Cleaning
    /\ OneStep /\ InPlan /\ PausedFrozen /\ FrozenPaused /\ CleanupRuns

-----------------------------------------------------------------------------
(* Operators *)

\* A run has one to three programs, and only a drill has a hook.
LEMMA PlanFacts ==
    ASSUME kind \in Kinds
    PROVE  /\ Len(Plan) \in 1..3
           /\ \A i \in 1..Len(Plan) : Plan[i] = "hook" => kind = "drill"
<1>1. kind \in {"backup", "drill", "check"}
  BY RunControlAssumption
<1>2. CASE kind = "backup"
  BY <1>2 DEF Plan
<1>3. CASE kind = "drill"
  BY <1>3 DEF Plan
<1>4. CASE kind = "check"
  BY <1>4 DEF Plan
<1>5. QED
  BY <1>1, <1>2, <1>3, <1>4

\* A run has its lock file until its lock is released.
LEMMA OwnFile ==
    ASSUME TypeOK, Own, NEW r \in Runs, Alive(r), pc[r] # "released"
    PROVE  file # NoFile /\ file.pid = r /\ r # NoRun
BY DEF Own, NoFile, NoRun, Runs

-----------------------------------------------------------------------------
(* The types *)

PcType == {"new", "idle", "willing", "forced", "up", "cleanup", "grace",
           "ended", "released", "gone", "killed"}
EvType == {"running", "paused", "cleanup", "stopped", "completed"}
DoType == {None, "pause", "freeze", "resume", "cont", "append", "flag"}

\* A step of run r moves r only.
LEMMA RunTyping ==
    ASSUME TypeOK, InPlan, NEW r \in Runs,
           RunStep(r) \/ ProgramStep(r) \/ Acquire(r) \/ Cancel(r) \/ Kill(r)
    PROVE  TypeOK'
<1>0. /\ kind' = kind /\ kind \in Kinds /\ Len(Plan) \in Nat /\ Len(Plan) >= 1 /\ Plan' = Plan
      /\ at[r] \in Nat /\ at[r] >= 1 /\ at[r] <= Len(Plan) + 1
  <2>1. kind' = kind
    BY DEF RunStep, ProgramStep, Acquire, Cancel, Kill, Wait, Unpaused, Forced, Done, Record, Cleanup,
           CleanupContinue, CleanupEnd, ReleaseFile, ReleaseLock, ProgramEnds, Terminate
  <2>2. kind \in Kinds
    BY DEF TypeOK
  <2>3. Len(Plan) \in 1..3
    BY <2>2, PlanFacts
  <2>4. Plan' = Plan
    BY <2>1 DEF Plan
  <2>5. at[r] \in 1 .. Len(Plan) + 1
    <3>1. at \in [Runs -> 1 .. Len(Plan) + 1]
      BY DEF TypeOK
    <3>2. QED
      BY <3>1, <2>3
  <2>6. Len(Plan) \in Nat /\ Len(Plan) >= 1
    BY <2>3
  <2>7. at[r] \in Nat /\ at[r] >= 1 /\ at[r] <= Len(Plan) + 1
    BY <2>5, <2>6
  <2>8. QED
    BY <2>1, <2>2, <2>4, <2>6, <2>7
<1>1. pc' \in [Runs -> PcType]
  <2>1. \/ pc' = pc
        \/ pc' = [pc EXCEPT ![r] = "idle"]
        \/ pc' = [pc EXCEPT ![r] = "willing"]
        \/ pc' = [pc EXCEPT ![r] = "forced"]
        \/ pc' = [pc EXCEPT ![r] = "up"]
        \/ pc' = [pc EXCEPT ![r] = "cleanup"]
        \/ pc' = [pc EXCEPT ![r] = "grace"]
        \/ pc' = [pc EXCEPT ![r] = "ended"]
        \/ pc' = [pc EXCEPT ![r] = "released"]
        \/ pc' = [pc EXCEPT ![r] = "gone"]
        \/ pc' = [pc EXCEPT ![r] = "killed"]
    BY DEF RunStep, ProgramStep, Acquire, Cancel, Kill, Wait, Unpaused, Forced, Done, Record,
         Cleanup, CleanupContinue, CleanupEnd, ReleaseFile, ReleaseLock, ProgramEnds, Terminate,
         StartProgram, Skip, Exit
  <2>2. QED
    BY <2>1 DEF TypeOK, PcType
<1>2. at' \in [Runs -> 1 .. Len(Plan) + 1]
  <2>1. at' = at \/ \E n \in 1 .. Len(Plan) + 1 : at' = [at EXCEPT ![r] = n]
    <3>1. SkipTo(r) \in 1 .. Len(Plan) + 1 \/ at[r] > Len(Plan)
      BY <1>0 DEF SkipTo
    <3>2. QED
      BY <1>0, <3>1 DEF InPlan, RunStep, ProgramStep, Acquire, Cancel, Kill, Wait, Unpaused, Forced, Done, Record,
         Cleanup, CleanupContinue, CleanupEnd, ReleaseFile, ReleaseLock, ProgramEnds, Terminate,
         StartProgram, Skip, Exit
  <2>2. QED
    BY <2>1 DEF TypeOK
<1>3. up' \in [Runs -> BOOLEAN] /\ frozen' \in [Runs -> BOOLEAN]
  BY DEF TypeOK, RunStep, ProgramStep, Acquire, Cancel, Kill, Wait, Unpaused, Forced, Done, Record,
         Cleanup, CleanupContinue, CleanupEnd, ReleaseFile, ReleaseLock, ProgramEnds, Terminate,
         StartProgram, Skip, Exit
<1>4. cancel' \in [Runs -> BOOLEAN] /\ cut' \in [Runs -> BOOLEAN]
  BY DEF TypeOK, RunStep, ProgramStep, Acquire, Cancel, Kill, Wait, Unpaused, Forced, Done, Record,
         Cleanup, CleanupContinue, CleanupEnd, ReleaseFile, ReleaseLock, ProgramEnds, Terminate,
         StartProgram, Skip, Exit
<1>5. file' \in {NoFile} \cup [pid : Runs, ev : EvType]
  <2>1. \A ev \in EvType : AppendEvent(ev) => file' \in {NoFile} \cup [pid : Runs, ev : EvType]
    BY DEF AppendEvent, TypeOK, EvType
  <2>2. Outcome(r) \in EvType
    BY DEF Outcome, EvType
  <2>3. QED
    BY <2>1, <2>2 DEF EvType, TypeOK, RunStep, ProgramStep, Acquire, Cancel, Kill, Wait, Unpaused, Forced,
         Done, Record, Cleanup, CleanupContinue, CleanupEnd, ReleaseFile, ReleaseLock, ProgramEnds, Terminate
<1>6. flag' \in BOOLEAN /\ crossed' \in BOOLEAN
  BY DEF TypeOK, RunStep, ProgramStep, Acquire, Cancel, Kill, Wait, Unpaused, Forced, Done, Record,
         Cleanup, CleanupContinue, CleanupEnd, ReleaseFile, ReleaseLock, ProgramEnds, Terminate
<1>7. UNCHANGED <<edit, cmd>>
  BY DEF RunStep, ProgramStep, Acquire, Cancel, Kill, Wait, Unpaused, Forced, Done, Record,
         Cleanup, CleanupContinue, CleanupEnd, ReleaseFile, ReleaseLock, ProgramEnds, Terminate
<1>8. QED
  BY <1>0, <1>1, <1>2, <1>3, <1>4, <1>5, <1>6, <1>7 DEF TypeOK, PcType, EvType, Runs


CmdType == [do : DoType, run : Runs \cup {NoRun}, was : BOOLEAN]

\* A command's next step is its own affair.
LEMMA ThenTyping ==
    ASSUME TypeOK, NEW c \in Cmds, NEW do \in DoType, Then(c, do)
    PROVE  /\ cmd' \in [Cmds -> CmdType]
           /\ cmd'[c].do = do
           /\ cmd'[c].run = IF do = None THEN NoRun ELSE cmd[c].run
           /\ \A d \in Cmds \ {c} : cmd'[d] = cmd[d]
<1>1. cmd \in [Cmds -> CmdType] /\ cmd[c] \in CmdType
  BY DEF TypeOK, CmdType, DoType
<1>2. Idle \in CmdType /\ Idle.do = None /\ Idle.run = NoRun
  BY DEF Idle, CmdType, DoType
<1>3. /\ [cmd[c] EXCEPT !.do = do] \in CmdType
      /\ [cmd[c] EXCEPT !.do = do].do = do
      /\ [cmd[c] EXCEPT !.do = do].run = cmd[c].run
  BY <1>1 DEF CmdType
<1>4. CASE do = None
  <2>1. cmd' = [cmd EXCEPT ![c] = Idle]
    BY <1>4 DEF Then
  <2>2. QED
    BY <2>1, <1>1, <1>2, <1>4
<1>5. CASE do # None
  <2>1. cmd' = [cmd EXCEPT ![c] = [cmd[c] EXCEPT !.do = do]]
    BY <1>5 DEF Then
  <2>2. QED
    BY <2>1, <1>1, <1>3, <1>5
<1>6. QED
  BY <1>4, <1>5

\* A command that reads the lock has the run on file to act on.
ReadStep(c) == ReadPause(c) \/ ReadResume(c) \/ ReadStop(c)

\* What a command reads is the run on file, which is alive.
LEMMA ReadTyping ==
    ASSUME TypeOK, NEW c \in Cmds, ReadStep(c)
    PROVE  /\ cmd' \in [Cmds -> CmdType]
           /\ cmd'[c].do \in {"pause", "resume", "cont", "flag"}
           /\ cmd'[c].run = file.pid /\ Alive(file.pid)
           /\ kind = "drill" => cmd'[c].do # "cont"
           /\ \A d \in Cmds \ {c} : cmd'[d] = cmd[d]
           /\ cmd[c].do = None
           /\ UNCHANGED <<kind, runVars, file, flag, edit, crossed>>
<1>1. UNCHANGED <<kind, runVars, file, flag, edit, crossed>>
  BY DEF ReadStep, ReadPause, ReadResume, ReadStop
<1>2. cmd[c].do = None /\ Alive(file.pid)
  BY DEF ReadStep, ReadPause, ReadResume, ReadStop, Idle
<1>3. cmd \in [Cmds -> CmdType] /\ file.pid \in Runs
  BY <1>2 DEF TypeOK, CmdType, DoType, Alive
<1>4. Paused \in BOOLEAN
  BY DEF Paused
<1>5. PICK do \in {"pause", "resume", "cont", "flag"}, was \in BOOLEAN :
          /\ cmd' = [cmd EXCEPT ![c] = [do |-> do, run |-> file.pid, was |-> was]]
          /\ kind = "drill" => do # "cont"
  <2>1. CASE ReadPause(c)
    BY <2>1 DEF ReadPause
  <2>2. CASE ReadResume(c)
    BY <2>2 DEF ReadResume, ResumeDo
  <2>3. CASE ReadStop(c)
    BY <2>3, <1>4 DEF ReadStop
  <2>4. QED
    BY <2>1, <2>2, <2>3 DEF ReadStep
<1>6. [do |-> do, run |-> file.pid, was |-> was] \in CmdType
  BY <1>3 DEF CmdType, DoType
<1>7. QED
  BY <1>1, <1>2, <1>3, <1>5, <1>6

\* What each step of a command does to the commands.
LEMMA CmdNext ==
    ASSUME TypeOK, NEW c \in Cmds, CmdStep(c)
    PROVE  /\ cmd' \in [Cmds -> CmdType]
           /\ \A d \in Cmds \ {c} : cmd'[d] = cmd[d]
           /\ cmd'[c].do = None \/ cmd'[c].run = cmd[c].run
           /\ cmd'[c].do # None => cmd[c].do # None
           /\ cmd'[c].run \in {cmd[c].run, NoRun}
           /\ cmd'[c].do \in {None, "freeze", "append", "resume", "cont"}
           /\ cmd'[c].do = "freeze" <=> Pause(c) /\ edit' = c
           /\ cmd'[c].do = "append" => Continue(c)
           /\ kind = "drill" => cmd'[c].do # "cont"
<1>1. StopDo(cmd[c].was) \in {None, "resume", "cont"} /\ (kind = "drill" => StopDo(cmd[c].was) # "cont")
  BY DEF StopDo, ResumeDo, None
<1>0. /\ None = "none" /\ edit \in Cmds \cup {None} /\ None \notin Cmds
      /\ {None, "append", "freeze"} \subseteq DoType /\ StopDo(cmd[c].was) \in DoType
      /\ NoRun = 0
  BY <1>1, RunControlAssumption DEF TypeOK, DoType, None, NoRun
<1>2. CASE Pause(c)
  <2>1. cmd[c].do = "pause" /\ edit = None
    BY <1>2 DEF Pause, EditFree
  <2>2. CASE Then(c, None) /\ edit' = edit
    BY <2>1, <2>2, <1>0, ThenTyping
  <2>3. CASE Then(c, "freeze") /\ edit' = c
    BY <2>1, <2>3, <1>0, <1>2, ThenTyping
  <2>4. QED
    BY <1>2, <2>2, <2>3 DEF Pause
<1>3. CASE Freeze(c)
  <2>1. cmd[c].do = "freeze" /\ Then(c, None)
    BY <1>3 DEF Freeze
  <2>2. ~ Pause(c)
    BY <2>1 DEF Pause
  <2>3. QED
    BY <2>1, <2>2, <1>0, ThenTyping
<1>4. CASE Resume(c)
  <2>1. cmd[c].do = "resume" /\ Then(c, None)
    BY <1>4 DEF Resume
  <2>2. ~ Pause(c)
    BY <2>1 DEF Pause
  <2>3. QED
    BY <2>1, <2>2, <1>0, ThenTyping
<1>5. CASE Continue(c)
  <2>1. cmd[c].do = "cont" /\ Then(c, "append")
    BY <1>5 DEF Continue
  <2>2. ~ Pause(c)
    BY <2>1 DEF Pause
  <2>3. QED
    BY <2>1, <2>2, <1>0, <1>5, ThenTyping
<1>6. CASE AppendRunning(c)
  <2>1. cmd[c].do = "append" /\ Then(c, None)
    BY <1>6 DEF AppendRunning
  <2>2. ~ Pause(c)
    BY <2>1 DEF Pause
  <2>3. QED
    BY <2>1, <2>2, <1>0, ThenTyping
<1>7. CASE Stop(c)
  <2>1. cmd[c].do = "flag" /\ Then(c, StopDo(cmd[c].was))
    BY <1>7 DEF Stop
  <2>2. ~ Pause(c)
    BY <2>1 DEF Pause
  <2>3. QED
    BY <2>1, <2>2, <1>0, <1>1, ThenTyping
<1>8. QED
  BY <1>2, <1>3, <1>4, <1>5, <1>6, <1>7 DEF CmdStep

\* A step of a command keeps the types.
LEMMA CmdTyping ==
    ASSUME TypeOK, NEW c \in Cmds, CmdStep(c) \/ ReadStep(c)
    PROVE  TypeOK'
<1>0. UNCHANGED <<kind, pc, at, up, cancel, cut>>
  BY ReadTyping DEF CmdStep, Pause, Freeze, Resume, Continue, AppendRunning, Stop, runVars
<1>1. cmd' \in [Cmds -> CmdType]
  BY CmdNext, ReadTyping
<1>2. frozen' \in [Runs -> BOOLEAN]
  <2>1. \/ frozen' = frozen
        \/ frozen' = [frozen EXCEPT ![cmd[c].run] = up[cmd[c].run]]
        \/ frozen' = [frozen EXCEPT ![cmd[c].run] = FALSE]
    BY ReadTyping DEF CmdStep, Pause, Freeze, Resume, Continue, AppendRunning, Stop, runVars
  <2>2. up \in [Runs -> BOOLEAN] /\ frozen \in [Runs -> BOOLEAN]
    BY DEF TypeOK
  <2>3. QED
    BY <2>1, <2>2
<1>3. file' \in {NoFile} \cup [pid : Runs, ev : EvType]
  <2>1. \A ev \in EvType : AppendEvent(ev) => file' \in {NoFile} \cup [pid : Runs, ev : EvType]
    BY DEF AppendEvent, TypeOK, EvType
  <2>2. file' = file \/ AppendEvent("paused") \/ AppendEvent("running")
    BY ReadTyping DEF CmdStep, Pause, Freeze, Resume, Continue, AppendRunning, Stop
  <2>3. QED
    BY <2>1, <2>2 DEF EvType, TypeOK
<1>4. edit' \in Cmds \cup {None}
  BY ReadTyping DEF TypeOK, CmdStep, Pause, Freeze, Resume, Continue, AppendRunning, Stop
<1>5. flag' \in BOOLEAN
  BY ReadTyping DEF TypeOK, CmdStep, Pause, Freeze, Resume, Continue, AppendRunning, Stop
<1>6. crossed' \in BOOLEAN
  BY ReadTyping DEF TypeOK, CmdStep, Pause, Freeze, Resume, Continue, AppendRunning, Stop, Touch
<1>7. Plan' = Plan
  BY <1>0 DEF Plan
<1>8. QED
  BY <1>0, <1>1, <1>2, <1>3, <1>4, <1>5, <1>6, <1>7 DEF TypeOK, PcType, EvType, CmdType, DoType, Runs

-----------------------------------------------------------------------------
(* The steps *)

RunAct(r) == RunStep(r) \/ ProgramStep(r) \/ Acquire(r) \/ Cancel(r) \/ Kill(r)

CmdAct(c) == CmdStep(c) \/ ReadStep(c)

\* A step of a run leaves the commands, and the other runs, alone.
LEMMA RunFrame ==
    ASSUME TypeOK, NEW r \in Runs, RunAct(r)
    PROVE  /\ UNCHANGED <<kind, edit, cmd, crossed>>
           /\ \A q \in Runs \ {r} :
                /\ pc'[q] = pc[q] /\ at'[q] = at[q] /\ up'[q] = up[q]
                /\ frozen'[q] = frozen[q] /\ cancel'[q] = cancel[q]
           /\ Plan' = Plan
<1>1. UNCHANGED <<kind, edit, cmd, crossed>>
  BY DEF RunAct, RunStep, ProgramStep, Acquire, Cancel, Kill, Wait, Unpaused, Forced, Done, Record, Cleanup,
         CleanupContinue, CleanupEnd, ReleaseFile, ReleaseLock, ProgramEnds, Terminate
<1>2. \A q \in Runs \ {r} : pc'[q] = pc[q] /\ at'[q] = at[q]
  BY DEF TypeOK, RunAct, RunStep, ProgramStep, Acquire, Cancel, Kill, Wait, Unpaused, Forced, Done, Record, Cleanup,
         CleanupContinue, CleanupEnd, ReleaseFile, ReleaseLock, ProgramEnds, Terminate, StartProgram, Skip, Exit
<1>3. \A q \in Runs \ {r} : up'[q] = up[q] /\ frozen'[q] = frozen[q] /\ cancel'[q] = cancel[q]
  BY DEF TypeOK, RunAct, RunStep, ProgramStep, Acquire, Cancel, Kill, Wait, Unpaused, Forced, Done, Record, Cleanup,
         CleanupContinue, CleanupEnd, ReleaseFile, ReleaseLock, ProgramEnds, Terminate, StartProgram, Skip, Exit
<1>4. QED
  BY <1>1, <1>2, <1>3 DEF Plan

\* A step of a command leaves the runs alone, except for what it freezes and lets go on.
LEMMA CmdFrame ==
    ASSUME TypeOK, NEW c \in Cmds, CmdAct(c)
    PROVE  /\ UNCHANGED <<kind, pc, at, up, cancel, cut>>
           /\ Plan' = Plan
           /\ flag => flag'
           /\ ~ crossed' => ~ crossed
           /\ file'.pid = file.pid
<1>1. UNCHANGED <<kind, pc, at, up, cancel, cut>>
  BY ReadTyping DEF CmdAct, CmdStep, Pause, Freeze, Resume, Continue, AppendRunning, Stop, runVars
<1>2. flag => flag'
  BY ReadTyping DEF CmdAct, CmdStep, Pause, Freeze, Resume, Continue, AppendRunning, Stop
<1>3. ~ crossed' => ~ crossed
  BY ReadTyping DEF CmdAct, CmdStep, Pause, Freeze, Resume, Continue, AppendRunning, Stop, Touch
<1>4. file'.pid = file.pid
  <2>1. \A ev : AppendEvent(ev) => file'.pid = file.pid
    BY DEF AppendEvent, TypeOK, NoFile
  <2>2. file' = file \/ AppendEvent("paused") \/ AppendEvent("running")
    BY ReadTyping DEF CmdAct, CmdStep, Pause, Freeze, Resume, Continue, AppendRunning, Stop
  <2>3. QED
    BY <2>1, <2>2
<1>5. QED
  BY <1>1, <1>2, <1>3, <1>4 DEF Plan

\* A step of a run needs its process, except for the start, and for the end of a program.
LEMMA RunAlive ==
    ASSUME TypeOK, OneHolder, NEW r \in Runs, RunAct(r), ~ ProgramEnds(r)
    PROVE  /\ \A q \in Runs \ {r} : ~ Alive(q) /\ ~ Alive(q)'
           /\ ~ Alive(r) => Acquire(r)
           /\ Acquire(r) => ~ Alive(r)
<1>1. ~ Alive(r) => Acquire(r)
  BY DEF Alive, RunAct, RunStep, ProgramStep, Acquire, Cancel, Kill, Wait, Unpaused, Forced, Done, Record, Cleanup,
         CleanupContinue, CleanupEnd, ReleaseFile, ReleaseLock, Terminate
<1>2. \A q \in Runs \ {r} : ~ Alive(q)
  BY <1>1 DEF OneHolder, Holds, Acquire
<1>3. \A q \in Runs \ {r} : ~ Alive(q)'
  BY <1>2, RunFrame DEF Alive
<1>4. Acquire(r) => ~ Alive(r)
  BY DEF Acquire, Alive
<1>5. QED
  BY <1>1, <1>2, <1>3, <1>4

\* Nobody gets at a lock that is taken.
LEMMA OneHolderRun ==
    ASSUME TypeOK, OneHolder, NEW r \in Runs, RunAct(r)
    PROVE  OneHolder'
<1>1. CASE Acquire(r)
  <2>1. \A q \in Runs \ {r} : ~ Holds(q)'
    BY <1>1, RunFrame DEF Acquire, Holds, Alive
  <2>2. QED
    BY <2>1 DEF OneHolder
<1>2. CASE ~ Acquire(r)
  <2>1. up'[r] => up[r] \/ Alive(r)
    BY DEF TypeOK, Alive, RunAct, RunStep, ProgramStep, Acquire, Cancel, Kill, Wait, Unpaused, Forced, Done, Record,
         Cleanup, CleanupContinue, CleanupEnd, ReleaseFile, ReleaseLock, ProgramEnds, Terminate, StartProgram, Skip, Exit
  <2>2. Alive(r)' => Alive(r)
    BY <1>2 DEF TypeOK, Alive, RunAct, RunStep, ProgramStep, Acquire, Cancel, Kill, Wait, Unpaused, Forced, Done, Record,
         Cleanup, CleanupContinue, CleanupEnd, ReleaseFile, ReleaseLock, ProgramEnds, Terminate, StartProgram, Skip, Exit
  <2>3. \A q \in Runs : Holds(q)' => Holds(q)
    BY <2>1, <2>2, RunFrame DEF Holds, Alive
  <2>4. QED
    BY <2>3 DEF OneHolder
<1>3. QED
  BY <1>1, <1>2

\* The lock file follows its holder.
LEMMA OwnRun ==
    ASSUME TypeOK, OneHolder, Own, NEW r \in Runs, RunAct(r)
    PROVE  Own'
<1>1. CASE ProgramEnds(r)
  BY <1>1 DEF ProgramEnds, Own, Alive
<1>2. CASE Acquire(r)
  <2>1. \A q \in Runs \ {r} : ~ Alive(q)'
    BY <1>2, RunFrame DEF Acquire, Holds, Alive
  <2>2. file'.pid = r /\ pc'[r] = "idle"
    BY <1>2 DEF Acquire, TypeOK
  <2>3. QED
    BY <2>1, <2>2 DEF Own, Alive
<1>3. CASE ~ ProgramEnds(r) /\ ~ Acquire(r)
  <2>1. \A q \in Runs \ {r} : ~ Alive(q)'
    BY <1>3, RunAlive
  <2>2. Alive(r)
    BY <1>3, RunAlive
  <2>3. CASE Kill(r) \/ ReleaseLock(r)
    BY <2>3, <2>1 DEF Kill, ReleaseLock, Exit, TypeOK, Own, Alive
  <2>4. CASE ReleaseFile(r)
    BY <2>4, <2>1 DEF ReleaseFile, TypeOK, Own, Alive
  <2>5. CASE ~ Kill(r) /\ ~ ReleaseLock(r) /\ ~ ReleaseFile(r)
    <3>1. Alive(r)' => (pc[r] # "released" /\ pc'[r] # "released") \/ UNCHANGED <<pc, file>>
      <4>1. CASE Cancel(r) \/ Terminate(r)
        BY <4>1 DEF Cancel, Terminate
      <4>2. CASE RunStep(r)
        BY <2>5, <4>2 DEF TypeOK, RunStep, Wait, Unpaused, Forced, Done, Record,
           Cleanup, CleanupContinue, CleanupEnd, StartProgram, Skip
      <4>3. QED
        BY <1>3, <2>5, <4>1, <4>2 DEF RunAct, ProgramStep
    <3>3. \A ev : AppendEvent(ev) => file'.pid = file.pid
      BY DEF AppendEvent, TypeOK, NoFile
    <3>4. file'.pid = file.pid
      BY <1>3, <2>5, <3>3 DEF RunAct, RunStep, ProgramStep, Cancel, Wait, Unpaused, Forced, Done, Record,
         Cleanup, CleanupContinue, CleanupEnd, Terminate
    <3>5. QED
      BY <2>1, <2>2, <3>1, <3>4 DEF Own, Alive
  <2>6. QED
    BY <2>3, <2>4, <2>5
<1>4. QED
  BY <1>1, <1>2, <1>3

\* A process that was is never to be again.
LEMMA BegunRun ==
    ASSUME TypeOK, OneHolder, Begun, NEW r \in Runs, RunAct(r)
    PROVE  Begun'
<1>1. pc'[r] # "new" \/ pc'[r] = pc[r]
  BY DEF TypeOK, RunAct, RunStep, ProgramStep, Acquire, Cancel, Kill, Wait, Unpaused, Forced, Done, Record, Cleanup,
         CleanupContinue, CleanupEnd, ReleaseFile, ReleaseLock, ProgramEnds, Terminate, StartProgram, Skip, Exit
<1>2. \A q \in Runs : pc'[q] = "new" => pc[q] = "new"
  BY <1>1, RunFrame
<1>3. file'.pid \in Runs => file'.pid = file.pid \/ pc'[file'.pid] # "new"
  <2>1. CASE Acquire(r)
    BY <2>1 DEF Acquire, TypeOK
  <2>2. CASE ReleaseFile(r)
    BY <2>2 DEF ReleaseFile, NoFile, NoRun, Runs
  <2>3. CASE ~ Acquire(r) /\ ~ ReleaseFile(r)
    <3>1. \A ev : AppendEvent(ev) => file'.pid = file.pid
      BY DEF AppendEvent, TypeOK, NoFile
    <3>2. QED
      BY <2>3, <3>1 DEF RunAct, RunStep, ProgramStep, Cancel, Kill, Wait, Unpaused, Forced, Done, Record,
         Cleanup, CleanupContinue, CleanupEnd, ReleaseLock, ProgramEnds, Terminate
  <2>4. QED
    BY <2>1, <2>2, <2>3
<1>4. cmd' = cmd
  BY RunFrame
<1>5. QED
  BY <1>2, <1>3, <1>4 DEF Begun

\* A command reads a run that is alive, so one that has begun.
LEMMA BegunCmd ==
    ASSUME TypeOK, Begun, NEW c \in Cmds, CmdAct(c)
    PROVE  Begun'
<1>1. pc' = pc /\ file'.pid = file.pid
  BY CmdFrame
<1>2. CASE ReadStep(c)
  <2>1. Alive(cmd'[c].run)
    BY <1>2, ReadTyping
  <2>2. \A d \in Cmds \ {c} : cmd'[d] = cmd[d]
    BY <1>2, ReadTyping
  <2>3. QED
    BY <1>1, <2>1, <2>2 DEF Begun, Alive
<1>3. CASE CmdStep(c)
  <2>1. /\ \A d \in Cmds \ {c} : cmd'[d] = cmd[d]
        /\ cmd'[c].do = None \/ cmd'[c].run = cmd[c].run
        /\ cmd'[c].do # None => cmd[c].do # None
        /\ cmd'[c].run \in {cmd[c].run, NoRun}
    BY <1>3, CmdNext
  <2>2. NoRun \notin Runs
    BY DEF NoRun, Runs
  <2>3. QED
    BY <1>1, <2>1, <2>2 DEF Begun
<1>4. QED
  BY <1>2, <1>3 DEF CmdAct

\* The edit lock is taken and let go by the pause that keeps it.
LEMMA EditingCmd ==
    ASSUME TypeOK, Editing, NEW c \in Cmds, CmdAct(c)
    PROVE  Editing'
<1>0. None \notin Cmds
  BY RunControlAssumption DEF None
<1>1. CASE ReadStep(c)
  <2>1. /\ cmd'[c].do # "freeze" /\ cmd[c].do # "freeze" /\ edit' = edit
        /\ \A d \in Cmds \ {c} : cmd'[d] = cmd[d]
    BY <1>1, ReadTyping DEF None
  <2>2. QED
    BY <2>1 DEF Editing
<1>2. CASE CmdStep(c)
  <2>1. /\ \A d \in Cmds \ {c} : cmd'[d] = cmd[d]
        /\ cmd'[c].do = "freeze" <=> Pause(c) /\ edit' = c
    BY <1>2, CmdNext
  <2>2. CASE Pause(c)
    <3>1. edit = None /\ edit' \in {edit, c}
      BY <2>2 DEF Pause, EditFree
    <3>2. QED
      BY <1>0, <2>1, <2>2, <3>1 DEF Editing
  <2>3. CASE Freeze(c)
    <3>1. edit' = None /\ cmd[c].do = "freeze" /\ ~ Pause(c)
      BY <2>3 DEF Freeze, Pause
    <3>2. QED
      BY <1>0, <2>1, <3>1 DEF Editing
  <2>4. CASE ~ Pause(c) /\ ~ Freeze(c)
    <3>1. edit' = edit /\ cmd[c].do # "freeze"
      BY <1>2, <2>4 DEF CmdStep, Resume, Continue, AppendRunning, Stop
    <3>2. QED
      BY <2>1, <2>4, <3>1 DEF Editing
  <2>5. QED
    BY <2>2, <2>3, <2>4
<1>3. QED
  BY <1>1, <1>2 DEF CmdAct

\* While the edit lock is kept, the lock file changes hands only.
LEMMA FreezingRun ==
    ASSUME TypeOK, OneHolder, Own, Begun, Editing, Freezing, NEW r \in Runs, RunAct(r)
    PROVE  Freezing'
<1>1. SUFFICES ASSUME NEW c \in Cmds, edit' = c, ~ crossed'
               PROVE  /\ Paused' => file'.pid = cmd'[c].run
                      /\ Alive(cmd[c].run)' /\ pc'[cmd'[c].run] # "released" => Paused'
  BY DEF Freezing
<1>2. /\ edit = c /\ ~ crossed /\ cmd' = cmd /\ edit # None
  BY <1>1, RunFrame, RunControlAssumption DEF None
<1>3. /\ Paused => file.pid = cmd[c].run
      /\ Alive(cmd[c].run) /\ pc[cmd[c].run] # "released" => Paused
      /\ cmd[c].run \in Runs /\ pc[cmd[c].run] # "new"
  BY <1>2 DEF Freezing, Editing, Begun, None
<1>4. CASE Acquire(r)
  <2>1. ~ Paused'
    BY <1>4 DEF Acquire, Paused
  <2>2. cmd[c].run # r
    BY <1>3, <1>4 DEF Acquire
  <2>3. ~ Alive(cmd[c].run)
    BY <1>3, <1>4 DEF Acquire, Holds
  <2>4. ~ Alive(cmd[c].run)'
    BY <1>3, <2>2, <2>3, RunFrame, <1>2 DEF Alive
  <2>5. QED
    BY <1>2, <2>1, <2>4
<1>5. CASE ReleaseFile(r)
  <2>1. ~ Paused'
    BY <1>5 DEF ReleaseFile, Paused, NoFile, None
  <2>2. pc'[r] = "released"
    BY <1>5 DEF ReleaseFile, TypeOK
  <2>3. \A q \in Runs \ {r} : ~ Alive(q)'
    BY <1>5, RunAlive DEF ReleaseFile, ProgramEnds, TypeOK
  <2>4. QED
    BY <1>2, <1>3, <2>1, <2>2, <2>3
<1>6. CASE ~ Acquire(r) /\ ~ ReleaseFile(r)
  <2>1. file' = file
    BY <1>2, <1>6 DEF EditFree, RunAct, RunStep, ProgramStep, Cancel, Kill, Wait, Unpaused, Forced, Done, Record,
         Cleanup, CleanupContinue, CleanupEnd, ReleaseLock, ProgramEnds, Terminate
  <2>2. Alive(r)' => Alive(r) /\ (pc[r] = "released" => pc'[r] = "released")
    BY <1>6 DEF TypeOK, Alive, RunAct, RunStep, ProgramStep, Cancel, Kill, Wait, Unpaused, Forced, Done, Record,
         Cleanup, CleanupContinue, CleanupEnd, ReleaseLock, ProgramEnds, Terminate, StartProgram, Skip, Exit
  <2>3. \A q \in Runs \ {r} : pc'[q] = pc[q]
    BY RunFrame
  <2>4. QED
    BY <1>2, <1>3, <2>1, <2>2, <2>3 DEF Alive, Paused
<1>7. QED
  BY <1>4, <1>5, <1>6

\* The pause that takes the edit lock records itself with it, and others wait.
LEMMA FreezingCmd ==
    ASSUME TypeOK, Own, Begun, Editing, Freezing, NEW c \in Cmds, CmdAct(c)
    PROVE  Freezing'
<1>1. SUFFICES ASSUME NEW d \in Cmds, edit' = d, ~ crossed'
               PROVE  /\ Paused' => file'.pid = cmd'[d].run
                      /\ Alive(cmd[d].run)' /\ pc'[cmd'[d].run] # "released" => Paused'
  BY DEF Freezing
<1>2. ~ crossed /\ pc' = pc /\ file'.pid = file.pid /\ None \notin Cmds
  BY <1>1, CmdFrame, RunControlAssumption DEF None
<1>3. Editing'
  BY EditingCmd
<1>4. CASE edit = d
  <2>1. cmd[d].do = "freeze" /\ cmd'[d].do = "freeze" /\ edit # None
    BY <1>1, <1>2, <1>3, <1>4 DEF Editing
  <2>2. ~ Pause(c) /\ file' = file
    BY <1>2, <2>1, ReadTyping DEF EditFree, CmdAct, CmdStep, Pause, Freeze, Resume, Continue, AppendRunning, Stop
  <2>3. cmd'[d].run = cmd[d].run
    BY <2>1, <2>2, CmdNext, ReadTyping DEF CmdAct, None
  <2>4. QED
    BY <1>2, <1>4, <2>2, <2>3 DEF Freezing, Paused, Alive
<1>5. CASE edit # d
  <2>1. Pause(c) /\ c = d
    BY <1>1, <1>2, <1>5, ReadTyping DEF CmdAct, CmdStep, Pause, Freeze, Resume, Continue, AppendRunning, Stop
  <2>2. file # NoFile /\ AppendEvent("paused") /\ Touch(c)
    BY <1>1, <1>5, <2>1 DEF Pause
  <2>3. file.pid = cmd[c].run
    BY <1>1, <2>2 DEF Touch
  <2>4. Paused'
    BY <2>2 DEF AppendEvent, Paused, TypeOK, NoFile
  <2>5. CmdStep(c)
    BY <2>1 DEF CmdStep
  <2>6. cmd'[c].do = "freeze"
    BY <1>1, <2>1, <2>5, CmdNext
  <2>7. cmd'[c].run = cmd[c].run
    BY <2>5, <2>6, CmdNext DEF None
  <2>8. QED
    BY <1>2, <2>1, <2>3, <2>4, <2>7
<1>6. QED
  BY <1>4, <1>5

\* What ends a run is there until its process is gone.
LEMMA PassingRun ==
    ASSUME TypeOK, OneHolder, Passing, NEW r \in Runs, RunAct(r)
    PROVE  Passing'
<1>0. kind' = kind
  BY RunFrame
<1>1. CASE ProgramEnds(r)
  BY <1>1 DEF ProgramEnds, Passing, Ending
<1>2. CASE Wait(r)
  <2>1. pc'[r] = "forced" => Ending(r)
    BY <1>2 DEF Wait, TypeOK
  <2>2. Ending(r)' <=> Ending(r)
    BY <1>2 DEF Wait, Ending
  <2>3. \A q \in Runs \ {r} : ~ Alive(q)'
    BY <1>2, RunAlive DEF Wait, ProgramEnds, TypeOK
  <2>4. QED
    BY <2>1, <2>2, <2>3 DEF Passing, Alive
<1>3. CASE ~ ProgramEnds(r) /\ ~ Wait(r)
  <2>1. \A q \in Runs \ {r} : ~ Alive(q)'
    BY <1>3, RunAlive
  <2>2. pc'[r] = "forced" => Cancel(r)
    <3>1. RunStep(r) => pc'[r] # "forced"
      BY <1>3 DEF TypeOK, RunStep, Unpaused, Forced, Done, Record, Cleanup, CleanupContinue, CleanupEnd,
         ReleaseFile, ReleaseLock, StartProgram, Skip, Exit
    <3>2. Terminate(r) \/ Acquire(r) \/ Kill(r) => pc'[r] # "forced"
      BY DEF TypeOK, Terminate, Acquire, Kill, Exit
    <3>3. QED
      BY <1>3, <3>1, <3>2 DEF RunAct, ProgramStep
  <2>3. Cancel(r) => pc' = pc /\ flag' = flag /\ cancel'[r]
    BY DEF Cancel, TypeOK
  <2>4. QED
    BY <1>0, <2>1, <2>2, <2>3 DEF Passing, Alive, Ending
<1>4. QED
  BY <1>1, <1>2, <1>3

\* A stop is never taken back by a command.
LEMMA PassingCmd ==
    ASSUME TypeOK, Passing, NEW c \in Cmds, CmdAct(c)
    PROVE  Passing'
BY CmdFrame DEF Passing, Ending

\* A program that is to start or was started is one of the plan.
LEMMA InPlanRun ==
    ASSUME TypeOK, InPlan, NEW r \in Runs, RunAct(r)
    PROVE  InPlan'
<1>1. \A q \in Runs \ {r} : pc'[q] = pc[q] /\ at'[q] = at[q]
  BY RunFrame
<1>2. Plan' = Plan
  BY RunFrame
<1>3. pc'[r] \in {"willing", "forced", "up", "cleanup", "grace"} => at'[r] = at[r] /\ at[r] <= Len(Plan)
  BY DEF InPlan, TypeOK, RunAct, RunStep, ProgramStep, Acquire, Cancel, Kill, Wait, Unpaused, Forced, Done, Record, Cleanup,
         CleanupContinue, CleanupEnd, ReleaseFile, ReleaseLock, ProgramEnds, Terminate, StartProgram, Skip, Exit
<1>4. QED
  BY <1>1, <1>2, <1>3 DEF InPlan

\* Commands do not touch the plan.
LEMMA InPlanCmd ==
    ASSUME TypeOK, InPlan, NEW c \in Cmds, CmdAct(c)
    PROVE  InPlan'
BY CmdFrame DEF InPlan

\* Only a drill has a hook.
LEMMA HookDrill ==
    ASSUME TypeOK, InPlan, NEW r \in Runs, pc[r] = "up", Program(r) = "hook"
    PROVE  kind = "drill"
<1>1. kind \in Kinds
  BY DEF TypeOK
<1>2. at[r] \in 1 .. Len(Plan)
  <2>1. Len(Plan) \in Nat
    BY <1>1, PlanFacts
  <2>2. at[r] \in 1 .. Len(Plan) + 1
    BY DEF TypeOK
  <2>3. at[r] <= Len(Plan)
    BY DEF InPlan
  <2>4. QED
    BY <2>1, <2>2, <2>3
<1>3. QED
  BY <1>1, <1>2, PlanFacts DEF Program

\* A cleanup is on record from its first step to its last.
LEMMA CleaningRun ==
    ASSUME TypeOK, OneHolder, Own, InPlan, Cleaning, NEW r \in Runs, RunAct(r)
    PROVE  Cleaning'
<1>0. kind' = kind /\ edit' = edit
  BY RunFrame
<1>1. CASE ProgramEnds(r)
  BY <1>1 DEF ProgramEnds, Cleaning
<1>2. CASE Cleanup(r)
  <2>1. kind = "drill" /\ edit = None
    BY <1>2, HookDrill DEF Cleanup, EditFree
  <2>2. file # NoFile
    BY <1>2, OwnFile DEF Cleanup, Alive
  <2>3. file'.ev = "cleanup"
    BY <1>2, <2>2 DEF Cleanup, AppendEvent, TypeOK
  <2>4. \A q \in Runs \ {r} : ~ Alive(q)'
    BY <1>2, RunAlive DEF Cleanup, ProgramEnds, TypeOK
  <2>5. QED
    BY <1>0, <2>1, <2>3, <2>4 DEF Cleaning, Alive
<1>3. CASE ~ ProgramEnds(r) /\ ~ Cleanup(r)
  <2>1. \A q \in Runs \ {r} : ~ Alive(q)'
    BY <1>3, RunAlive
  <2>2. pc'[r] \in {"cleanup", "grace"} => pc[r] \in {"cleanup", "grace"} /\ file' = file
    BY <1>3 DEF TypeOK, RunAct, RunStep, ProgramStep, Acquire, Cancel, Kill, Wait, Unpaused, Forced, Done, Record,
         CleanupContinue, CleanupEnd, ReleaseFile, ReleaseLock, Terminate, StartProgram, Skip, Exit
  <2>3. QED
    BY <1>0, <2>1, <2>2 DEF Cleaning, Alive
<1>4. QED
  BY <1>1, <1>2, <1>3

\* A pause refuses, and nothing else records anything over a cleanup.
LEMMA CleaningCmd ==
    ASSUME TypeOK, Cleaning, Editing, OneStep, NEW c \in Cmds, CmdAct(c)
    PROVE  Cleaning'
<1>1. SUFFICES ASSUME NEW r \in Runs, pc'[r] \in {"cleanup", "grace"}
               PROVE  kind' = "drill" /\ file'.ev = "cleanup" /\ edit' = None
  BY DEF Cleaning
<1>2. kind = "drill" /\ kind' = kind /\ file.ev = "cleanup" /\ edit = None
  BY <1>1, CmdFrame DEF Cleaning
<1>3. ~ Paused /\ cmd[c].do # "append" /\ cmd[c].do # "freeze"
  BY <1>2, RunControlAssumption DEF Paused, OneStep, Editing, None
<1>4. file' = file /\ edit' = edit
  BY <1>2, <1>3, ReadTyping DEF CmdAct, CmdStep, Pause, Freeze, Resume, Continue, AppendRunning, Stop
<1>5. QED
  BY <1>2, <1>4

\* The resume of a drill has no second step.
LEMMA OneStepCmd ==
    ASSUME TypeOK, OneStep, NEW c \in Cmds, CmdAct(c)
    PROVE  OneStep'
<1>1. SUFFICES ASSUME kind = "drill" PROVE \A d \in Cmds : cmd'[d].do \notin {"cont", "append"}
  BY CmdFrame DEF OneStep
<1>2. \A d \in Cmds : cmd[d].do \notin {"cont", "append"}
  BY <1>1 DEF OneStep
<1>3. CASE ReadStep(c)
  BY <1>1, <1>2, <1>3, ReadTyping
<1>4. CASE CmdStep(c)
  <2>1. ~ Continue(c)
    BY <1>2 DEF Continue
  <2>2. QED
    BY <1>1, <1>2, <1>4, <2>1, CmdNext
<1>5. QED
  BY <1>3, <1>4 DEF CmdAct

-----------------------------------------------------------------------------
(* What a pause promises *)

\* A program that starts does so beside no pause, or on a run that is ending.
LEMMA PausedFrozenRun ==
    ASSUME TypeOK, OneHolder, Own, Cleaning, Passing, PausedFrozen, NEW r \in Runs, RunAct(r)
    PROVE  PausedFrozen'
<1>0. kind' = kind /\ cmd' = cmd /\ crossed' = crossed
  BY RunFrame
<1>1. SUFFICES ASSUME NEW q \in Runs, file'.pid = q, Paused', Alive(q)', up'[q],
                      ~ flag', ~ cancel'[q], ~ crossed',
                      \A c \in Cmds : cmd'[c].do \notin {"freeze", "append"}
               PROVE  frozen'[q]
  BY DEF PausedFrozen
<1>2. CASE ProgramEnds(r)
  <2>1. q # r
    BY <1>1, <1>2 DEF ProgramEnds, TypeOK
  <2>2. QED
    BY <1>0, <1>1, <1>2, <2>1, RunFrame DEF ProgramEnds, PausedFrozen, Paused, Alive
<1>3. CASE ~ ProgramEnds(r)
  <2>1. q = r
    BY <1>1, <1>3, RunAlive
  <2>2. ~ Acquire(r) /\ ~ Cleanup(r) /\ ~ CleanupContinue(r) /\ ~ CleanupEnd(r)
    <3>1. ~ Acquire(r)
      BY <1>1 DEF Acquire, Paused
    <3>2. ~ Cleanup(r) /\ ~ CleanupEnd(r)
      BY <1>1 DEF Cleanup, CleanupEnd, AppendEvent, Paused, TypeOK, NoFile, None
    <3>3. ~ CleanupContinue(r)
      BY <1>1 DEF CleanupContinue, Paused, Cleaning
    <3>4. QED
      BY <3>1, <3>2, <3>3
  <2>3. ~ Kill(r) /\ ~ ReleaseLock(r) /\ ~ ReleaseFile(r) /\ ~ Record(r) /\ ~ Terminate(r)
    <3>1. ~ Kill(r) /\ ~ ReleaseLock(r)
      BY <1>1, <2>1 DEF Kill, ReleaseLock, Exit, Alive, TypeOK
    <3>2. ~ ReleaseFile(r)
      BY <1>1 DEF ReleaseFile, Paused, NoFile, None
    <3>3. ~ Record(r)
      BY <1>1 DEF Record, AppendEvent, Outcome, Paused, TypeOK, NoFile, None
    <3>4. ~ Terminate(r)
      BY <1>1, <2>1 DEF Terminate, TypeOK
    <3>5. QED
      BY <3>1, <3>2, <3>3, <3>4
  <2>4. /\ file' = file /\ flag' = flag /\ ~ cancel[r]
        /\ \/ up'[r] = up[r] /\ frozen'[r] = frozen[r] 
           \/ pc[r] = "willing" /\ ~ Paused
           \/ pc[r] = "forced"
    BY <1>1, <1>3, <2>1, <2>2, <2>3 DEF TypeOK, RunAct, RunStep, ProgramStep, Cancel, Wait, Unpaused, Forced,
         Done, StartProgram, Skip
  <2>5. pc[r] # "forced"
    BY <1>1, <2>1, <2>4 DEF Passing, Ending
  <2>6. up'[r] = up[r] /\ frozen'[r] = frozen[r]
    BY <1>1, <2>4, <2>5 DEF Paused
  <2>7. Alive(r)
    BY <1>3, <2>2, RunAlive
  <2>8. QED
    BY <1>0, <1>1, <2>1, <2>4, <2>6, <2>7 DEF PausedFrozen, Paused
<1>4. QED
  BY <1>2, <1>3

\* A pause sends its signal before anyone else gets the edit lock.
LEMMA PausedFrozenCmd ==
    ASSUME TypeOK, Editing, Freezing, Begun, PausedFrozen, NEW c \in Cmds, CmdAct(c)
    PROVE  PausedFrozen'
<1>1. SUFFICES ASSUME NEW q \in Runs, file'.pid = q, Paused', Alive(q)', up'[q],
                      ~ flag', ~ cancel'[q], ~ crossed',
                      \A d \in Cmds : cmd'[d].do \notin {"freeze", "append"}
               PROVE  frozen'[q]
  BY DEF PausedFrozen
<1>2. /\ UNCHANGED <<pc, up, cancel>> /\ file.pid = q /\ ~ crossed /\ Alive(q)
      /\ flag => flag'
  BY <1>1, CmdFrame DEF Alive
<1>3. flag \in BOOLEAN /\ ~ flag
  BY <1>1, <1>2 DEF TypeOK
<1>4. \A d \in Cmds \ {c} : cmd[d].do \notin {"freeze", "append"}
  BY <1>1, CmdNext, ReadTyping DEF CmdAct
<1>5. CASE ReadStep(c)
  BY <1>1, <1>2, <1>3, <1>4, <1>5, ReadTyping DEF PausedFrozen, runVars, None, Paused
<1>6. CASE Pause(c)
  <2>1. file' = file /\ frozen' = frozen /\ cmd[c].do = "pause"
    <3>1. CmdStep(c)
      BY <1>6 DEF CmdStep
    <3>2. edit' # c
      BY <1>1, <1>6, <3>1, CmdNext
    <3>3. QED
      BY <1>6, <3>2 DEF Pause, runVars
  <2>2. QED
    BY <1>1, <1>2, <1>3, <1>4, <2>1 DEF PausedFrozen, Paused
<1>7. CASE Freeze(c)
  <2>1. file' = file /\ edit = c
    BY <1>7 DEF Freeze, Editing
  <2>2. cmd[c].run = q
    BY <1>1, <1>2, <2>1 DEF Freezing, Paused
  <2>3. QED
    BY <1>1, <1>2, <1>7, <2>2 DEF Freeze, TypeOK
<1>8. CASE Resume(c)
  <2>1. ~ Paused
    BY <1>1, <1>8 DEF Resume, AppendEvent, Paused, TypeOK, NoFile, None
  <2>2. QED
    BY <1>1, <1>8, <2>1 DEF Resume, Paused
<1>9. CASE Continue(c)
  <2>1. CmdStep(c) /\ Then(c, "append") /\ "append" \in DoType
    BY <1>9 DEF CmdStep, Continue, DoType
  <2>2. cmd'[c].do = "append"
    BY <2>1, ThenTyping
  <2>3. QED
    BY <1>1, <2>2
<1>10. CASE AppendRunning(c)
  BY <1>1, <1>10 DEF AppendRunning, AppendEvent, Paused, TypeOK, NoFile, None
<1>11. CASE Stop(c)
  BY <1>1, <1>11 DEF Stop
<1>12. QED
  BY <1>5, <1>6, <1>7, <1>8, <1>9, <1>10, <1>11 DEF CmdAct, CmdStep

\* A drill's program is frozen and let go together with the record of it.
LEMMA FrozenPausedRun ==
    ASSUME TypeOK, OneHolder, Own, InPlan, FrozenPaused, NEW r \in Runs, RunAct(r)
    PROVE  FrozenPaused'
<1>0. kind' = kind /\ crossed' = crossed
  BY RunFrame
<1>1. SUFFICES ASSUME kind = "drill", ~ crossed, NEW q \in Runs, pc'[q] = "up", up'[q], frozen'[q]
               PROVE  file'.pid = q /\ Paused'
  BY <1>0 DEF FrozenPaused
<1>2. CASE ProgramEnds(r)
  <2>1. q # r
    BY <1>1, <1>2 DEF ProgramEnds, TypeOK
  <2>2. QED
    BY <1>0, <1>1, <1>2, <2>1, RunFrame DEF ProgramEnds, FrozenPaused, Paused
<1>3. CASE ~ ProgramEnds(r)
  <2>1. q = r
    BY <1>1, <1>3, RunAlive DEF Alive
  <2>2. pc[r] = "up" /\ up[r] /\ frozen[r] /\ file' = file
    BY <1>1, <1>3, <2>1 DEF TypeOK, RunAct, RunStep, ProgramStep, Acquire, Cancel, Kill, Wait, Unpaused, Forced,
         Done, Record, Cleanup, CleanupContinue, CleanupEnd, ReleaseFile, ReleaseLock, Terminate, StartProgram, Skip, Exit
  <2>3. QED
    BY <1>1, <2>1, <2>2 DEF FrozenPaused, Paused
<1>4. QED
  BY <1>2, <1>3

\* A drill's pause and resume each change signal and record under one lock.
LEMMA FrozenPausedCmd ==
    ASSUME TypeOK, Own, Begun, Editing, Freezing, OneStep, FrozenPaused, NEW c \in Cmds, CmdAct(c)
    PROVE  FrozenPaused'
<1>1. SUFFICES ASSUME kind = "drill", ~ crossed', NEW q \in Runs, pc[q] = "up", up[q], frozen'[q]
               PROVE  file'.pid = q /\ Paused'
  BY CmdFrame DEF FrozenPaused
<1>2. ~ crossed /\ file'.pid = file.pid
  BY <1>1, CmdFrame
<1>3. frozen[q] => file.pid = q /\ Paused
  BY <1>1, <1>2 DEF FrozenPaused
<1>4. Alive(q) /\ pc[q] # "released" /\ file # NoFile
  BY <1>1, OwnFile DEF Alive
<1>5. CASE ReadStep(c) \/ Stop(c)
  BY <1>1, <1>2, <1>3, <1>5, ReadTyping DEF Stop, runVars, Paused
<1>6. CASE Pause(c)
  <2>1. frozen' = frozen
    BY <1>6 DEF Pause, runVars
  <2>2. file' = file \/ Paused'
    BY <1>6 DEF Pause, AppendEvent, Paused, TypeOK
  <2>3. QED
    BY <1>1, <1>2, <1>3, <2>1, <2>2 DEF Paused
<1>7. CASE Freeze(c)
  <2>1. file' = file /\ edit = c
    BY <1>7 DEF Freeze, Editing
  <2>2. CASE cmd[c].run = q
    BY <1>1, <1>2, <1>4, <2>1, <2>2 DEF Freezing, Paused
  <2>3. CASE cmd[c].run # q
    <3>1. frozen'[q] = frozen[q]
      BY <1>7, <2>3 DEF Freeze, TypeOK
    <3>2. QED
      BY <1>1, <1>3, <2>1, <3>1 DEF Paused
  <2>4. QED
    BY <2>2, <2>3
<1>8. CASE Resume(c)
  <2>1. CASE ~ Paused
    BY <1>1, <1>3, <1>8, <2>1 DEF Resume
  <2>2. CASE Paused
    <3>1. cmd[c].run = file.pid
      BY <1>1, <1>4, <1>8, <2>2 DEF Resume, Touch
    <3>2. frozen' = [frozen EXCEPT ![cmd[c].run] = FALSE]
      BY <1>8, <2>2 DEF Resume
    <3>3. frozen[q] /\ cmd[c].run # q
      BY <1>1, <3>2 DEF TypeOK
    <3>4. QED
      BY <1>3, <3>1, <3>3
  <2>3. QED
    BY <2>1, <2>2
<1>9. CASE Continue(c) \/ AppendRunning(c)
  BY <1>1, <1>9 DEF OneStep, Continue, AppendRunning
<1>10. QED
  BY <1>5, <1>6, <1>7, <1>8, <1>9 DEF CmdAct, CmdStep

\* A cleanup lets the program go on, and nothing stops it again.
LEMMA CleanupRunsRun ==
    ASSUME TypeOK, OneHolder, CleanupRuns, NEW r \in Runs, RunAct(r)
    PROVE  CleanupRuns'
<1>1. pc'[r] = "grace" => ~ (up'[r] /\ frozen'[r])
  BY DEF CleanupRuns, TypeOK, RunAct, RunStep, ProgramStep, Acquire, Cancel, Kill, Wait, Unpaused, Forced,
     Done, Record, Cleanup, CleanupContinue, CleanupEnd, ReleaseFile, ReleaseLock, ProgramEnds, Terminate,
     StartProgram, Skip, Exit
<1>2. QED
  BY <1>1, RunFrame DEF CleanupRuns

\* No signal reaches a program that is cleaned up.
LEMMA CleanupRunsCmd ==
    ASSUME TypeOK, Editing, Cleaning, CleanupRuns, NEW c \in Cmds, CmdAct(c)
    PROVE  CleanupRuns'
<1>1. SUFFICES ASSUME NEW q \in Runs, pc[q] = "grace", up[q], frozen'[q] PROVE FALSE
  BY CmdFrame DEF CleanupRuns
<1>2. ~ frozen[q] /\ edit = None
  BY <1>1 DEF CleanupRuns, Cleaning
<1>3. ~ Freeze(c)
  BY <1>2, RunControlAssumption DEF Freeze, Editing, None
<1>4. frozen' = frozen \/ frozen' = [frozen EXCEPT ![cmd[c].run] = FALSE]
  BY <1>3, ReadTyping DEF CmdAct, CmdStep, Pause, Resume, Continue, AppendRunning, Stop, runVars
<1>5. QED
  BY <1>1, <1>2, <1>4 DEF TypeOK

-----------------------------------------------------------------------------
(* Every run *)

\* Nothing has begun at first.
LEMMA RunControlInit ==
    ASSUME Init PROVE ControlInv
<1>1. Len(Plan) \in 1..3 /\ kind \in Kinds
  BY PlanFacts DEF Init
<1>2. 1 \in 1 .. Len(Plan) + 1
  BY <1>1
<1>3. at \in [Runs -> 1 .. Len(Plan) + 1]
  BY <1>2 DEF Init
<1>4. Idle \in CmdType /\ Idle.do = None /\ Idle.run = NoRun
  BY DEF Idle, CmdType, DoType
<1>5. cmd \in [Cmds -> CmdType] /\ \A c \in Cmds : cmd[c].do = None /\ cmd[c].run = NoRun
  BY <1>4 DEF Init
<1>6. NoRun \notin Runs /\ NoFile.pid = NoRun /\ NoFile.ev = None /\ None \notin Cmds
  BY RunControlAssumption DEF NoRun, Runs, NoFile, None
<1>7. /\ pc \in [Runs -> PcType] /\ up \in [Runs -> BOOLEAN] /\ frozen \in [Runs -> BOOLEAN]
      /\ cancel \in [Runs -> BOOLEAN] /\ cut \in [Runs -> BOOLEAN]
  BY DEF Init, PcType
<1>8. /\ file = NoFile /\ ~ flag /\ flag \in BOOLEAN /\ crossed \in BOOLEAN /\ edit = None
      /\ \A r \in Runs : pc[r] = "new" /\ ~ up[r]
  BY DEF Init
<1>9. TypeOK
  BY <1>1, <1>3, <1>5, <1>7, <1>8 DEF TypeOK, PcType, CmdType, DoType
<1>10. OneHolder /\ Own
  BY <1>8 DEF OneHolder, Own, Holds, Alive
<1>11. Begun /\ Editing /\ Freezing
  BY <1>5, <1>6, <1>8 DEF Begun, Editing, Freezing, None
<1>12. Passing /\ Cleaning /\ OneStep /\ InPlan
  BY <1>5, <1>8 DEF Passing, Cleaning, OneStep, InPlan, None
<1>13. PausedFrozen /\ FrozenPaused /\ CleanupRuns
  BY <1>8 DEF PausedFrozen, FrozenPaused, CleanupRuns, Alive
<1>14. QED
  BY <1>9, <1>10, <1>11, <1>12, <1>13 DEF ControlInv

\* Every step keeps the invariant.
LEMMA RunControlStep ==
    ASSUME ControlInv, [Next]_vars PROVE ControlInv'
<1>1. /\ TypeOK /\ OneHolder /\ Own /\ Begun /\ Editing /\ Freezing /\ Passing /\ Cleaning
      /\ OneStep /\ InPlan /\ PausedFrozen /\ FrozenPaused /\ CleanupRuns
  BY DEF ControlInv
<1>2. ASSUME NEW r \in Runs, RunAct(r) PROVE ControlInv'
  <2>1. TypeOK'
    BY <1>1, <1>2, RunTyping DEF RunAct
  <2>2. Editing' /\ OneStep'
    BY <1>1, <1>2, RunFrame DEF Editing, OneStep
  <2>3. OneHolder' /\ Own' /\ Begun' /\ Freezing'
    BY <1>1, <1>2, OneHolderRun, OwnRun, BegunRun, FreezingRun
  <2>4. Passing' /\ Cleaning' /\ InPlan'
    BY <1>1, <1>2, PassingRun, CleaningRun, InPlanRun
  <2>5. PausedFrozen' /\ FrozenPaused' /\ CleanupRuns'
    BY <1>1, <1>2, PausedFrozenRun, FrozenPausedRun, CleanupRunsRun
  <2>6. QED
    BY <2>1, <2>2, <2>3, <2>4, <2>5 DEF ControlInv
<1>3. ASSUME NEW c \in Cmds, CmdAct(c) PROVE ControlInv'
  <2>1. TypeOK'
    BY <1>1, <1>3, CmdTyping DEF CmdAct
  <2>2. OneHolder' /\ Own'
    <3>1. UNCHANGED <<kind, pc, up>> /\ file'.pid = file.pid
      BY <1>1, <1>3, CmdFrame
    <3>2. file = NoFile => file' = NoFile
      BY <1>3, ReadTyping, <1>1 DEF CmdAct, CmdStep, Pause, Freeze, Resume, Continue, AppendRunning, Stop,
         AppendEvent
    <3>3. QED
      BY <1>1, <3>1, <3>2 DEF OneHolder, Own, Holds, Alive
  <2>3. Begun' /\ Editing' /\ Freezing'
    BY <1>1, <1>3, BegunCmd, EditingCmd, FreezingCmd
  <2>4. Passing' /\ Cleaning' /\ OneStep' /\ InPlan'
    BY <1>1, <1>3, PassingCmd, CleaningCmd, OneStepCmd, InPlanCmd
  <2>5. PausedFrozen' /\ FrozenPaused' /\ CleanupRuns'
    BY <1>1, <1>3, PausedFrozenCmd, FrozenPausedCmd, CleanupRunsCmd
  <2>6. QED
    BY <2>1, <2>2, <2>3, <2>4, <2>5 DEF ControlInv
<1>4. CASE UNCHANGED vars
  <2>1. /\ UNCHANGED <<kind, pc, at, up, frozen, cancel>> /\ UNCHANGED <<cut, file, flag, edit, cmd, crossed>>
        /\ Plan' = Plan
    BY <1>4 DEF vars, Plan
  <2>2. TypeOK'
    BY <1>1, <2>1 DEF TypeOK
  <2>3. OneHolder' /\ Own' /\ Begun' /\ Editing' /\ Freezing'
    BY <1>1, <2>1 DEF OneHolder, Holds, Own, Begun, Editing, Freezing, Alive, Paused
  <2>4. Passing' /\ Cleaning' /\ OneStep' /\ InPlan'
    BY <1>1, <2>1 DEF Passing, Ending, Cleaning, OneStep, InPlan
  <2>5. PausedFrozen' /\ FrozenPaused' /\ CleanupRuns'
    BY <1>1, <2>1 DEF PausedFrozen, FrozenPaused, CleanupRuns, Alive, Paused
  <2>6. QED
    BY <2>2, <2>3, <2>4, <2>5 DEF ControlInv
<1>5. QED
  BY <1>2, <1>3, <1>4 DEF Next, RunAct, CmdAct, ReadStep

\* Every reachable state satisfies the invariant: the lock has one holder, whose lock file
\* it is, and the edit lock is kept only by a pause that has yet to send its signal.
THEOREM RunControlInvariant == Spec => []ControlInv
<1>1. Init => ControlInv
  BY RunControlInit
<1>2. ControlInv /\ [Next]_vars => ControlInv'
  BY RunControlStep
<1>3. QED
  BY <1>1, <1>2, PTL DEF Spec

\* Every variable keeps its type (runlock, runctl): in particular a run's next program is
\* always one of its plan, or the end of it.
THEOREM RunControlTyping == Spec => []TypeOK
<1>1. ControlInv => TypeOK
  BY DEF ControlInv
<1>2. QED
  BY <1>1, RunControlInvariant, PTL

\* While a run is recorded paused nothing of it runs, however many commands and runs come
\* together (runlock.Pause, Unpaused), for every number of them.
THEOREM RunControlPausedFrozen == Spec => []PausedFrozen
<1>1. ControlInv => PausedFrozen
  BY DEF ControlInv
<1>2. QED
  BY <1>1, RunControlInvariant, PTL

\* A drill's program never stays stopped with nothing on record to resume (runlock.Resume).
THEOREM RunControlFrozenPaused == Spec => []FrozenPaused
<1>1. ControlInv => FrozenPaused
  BY DEF ControlInv
<1>2. QED
  BY <1>1, RunControlInvariant, PTL

\* No pause freezes a drill hook that cleans up (runlock.Cleanup, TerminateGroupGrace),
\* whichever commands were under way when the cleanup began.
THEOREM RunControlCleanupRuns == Spec => []CleanupRuns
<1>1. ControlInv => CleanupRuns
  BY DEF ControlInv
<1>2. QED
  BY <1>1, RunControlInvariant, PTL

\* A check never runs beside another's duplicacy, since that keeps the kernel lock it was
\* passed when its check is killed (Lock.File).
THEOREM RunControlOneCheck == Spec => []OneCheck
<1>1. ControlInv => OneCheck
  BY DEF ControlInv, OneHolder, OneCheck, Holds
<1>2. QED
  BY <1>1, RunControlInvariant, PTL

=============================================================================
