------------------------------- MODULE Drills --------------------------------
(***************************************************************************)
(* Restore drills (internal/restore/drill.go) and what they remember       *)
(* between runs (internal/lockstate/drill.go): which services are still to *)
(* be drilled on a storage, where the rotation stands, which storage an    *)
(* alternating drill is at, and, in the record of the run                  *)
(* (internal/resume), the directories it restores into.                    *)
(*                                                                         *)
(* Two drills share a lock, a run record and a state file: the configured  *)
(* one, which takes the next Count services in rotation on every storage,  *)
(* and a named one, which takes all of its own on one storage at a time.   *)
(* A service's copy and its repository are one directory.  The restore     *)
(* itself is its outcome (see InUse for the revision it reads, RunControl  *)
(* for its programs and their pauses); times and messages, which only      *)
(* reports read, are left out.                                             *)
(***************************************************************************)
EXTENDS DrillsState

\* One directory more than faults can leave behind.
Dirs == 1 .. MaxFaults + 1
NoDir == 0

fileVars == <<pending, rotation, next, turn, result>>
dirVars == <<record, disk, stray>>
ctlVars == <<stopReq, flag, faults>>
vars == <<fileVars, open, dirVars, pc, run, ctlVars, owed, last>>

NoRun == [drill |-> "none", one |-> 0, targets |-> <<>>, picked |-> <<>>, dir |-> NoDir,
          res |-> "none", failed |-> FALSE, stopped |-> FALSE]

NoRecord == [drill |-> "none", dirs |-> {}]

Outcomes == {"ok", "failed", "skipped", "interrupted"}

TypeOK ==
    /\ pending \in [Drills -> [Storages -> Seq(Services)]]
    /\ rotation \in [Storages -> 0 .. NServices - 1]
    /\ next \in 0 .. NStorages - 1 /\ turn \in Storages \cup {NoStorage}
    /\ result \in [Keys -> Outcomes \cup {"none"}]
    /\ open \subseteq Keys /\ owed \subseteq Keys
    /\ record \in [drill : Drills \cup {"none"}, dirs : SUBSET Dirs]
    /\ disk \subseteq Dirs /\ stray \subseteq Dirs
    /\ pc \in {"idle", "clean", "begin", "select", "pick", "next", "make", "made", "try", "save",
               "report", "wrap", "end"}
    /\ run \in [drill : Drills \cup {"none"}, one : {0} \cup Services, targets : Seq(Storages),
                picked : Seq(Services), dir : Dirs \cup {NoDir}, res : Outcomes \cup {"none"},
                failed : BOOLEAN, stopped : BOOLEAN]
    /\ {stopReq, flag} \subseteq BOOLEAN /\ faults \in 0 .. MaxFaults

Init ==
    /\ pending = [d \in Drills |-> [t \in Storages |-> <<>>]] /\ rotation = [t \in Storages |-> 0]
    /\ next = 0 /\ turn = NoStorage /\ result = [x \in Keys |-> "none"]
    /\ open = {} /\ record = NoRecord /\ disk = {} /\ stray = {}
    /\ pc = "idle" /\ run = NoRun
    /\ stopReq = FALSE /\ flag = FALSE /\ faults = 0
    /\ owed = {} /\ last = <<"none", NoStorage, 0>>

Fault == faults < MaxFaults /\ faults' = faults + 1

\* The service and the storage at hand.
Target == Head(run.targets)
Service == Head(run.picked)
Key == <<run.drill, Target, Service>>

-------------------------------------------------------------------------------
(* The start *)

\* Mutant of First: what an interrupted drill left is not looked at.
FirstBegin == "begin"

\* An interrupted drill's copies are deleted before this drill's record takes its place.
First == IF record # NoRecord THEN "clean" ELSE "begin"

\* Acquire, which clears the stop flag.  A drill by hand is of one service; the named drill
\* takes none.
Start(d, one) ==
    /\ pc = "idle"
    /\ IF one = 0 THEN UNCHANGED faults ELSE d = "rotate" /\ Fault
    /\ pc' = First
    /\ run' = [NoRun EXCEPT !.drill = d, !.one = one]
    /\ stopReq' = FALSE
    /\ UNCHANGED <<fileVars, open, dirVars, flag, owed, last>>

\* leftover: a directory that is no longer plainly the drill's own (moved, mounted over, or
\* in a service's data by now) is kept, and so is one that cannot be deleted.
Kept == SUBSET record.dirs

\* The interrupted drill's copies are deleted.
Clean ==
    /\ pc = "clean"
    /\ \E kept \in Kept :
         /\ IF kept = {} THEN UNCHANGED faults ELSE Fault
         /\ disk' = disk \ (record.dirs \ kept)
         /\ stray' = stray \cup (kept \cap disk)
    /\ pc' = "begin"
    /\ UNCHANGED <<fileVars, open, record, run, stopReq, flag, owed, last>>

\* resume.Begin.
Begin ==
    /\ pc = "begin"
    /\ record' = [drill |-> run.drill, dirs |-> {}]
    /\ pc' = "select"
    /\ UNCHANGED <<fileVars, open, disk, stray, run, ctlVars, owed, last>>

-------------------------------------------------------------------------------
(* The selection *)

\* The storage the named drill is at: the unfinished one, else the next.
TurnStorage == IF turn # NoStorage THEN turn ELSE next + 1

\* selection; a storage that cannot be resolved, or a drill directory that is no good,
\* ends the drill early.
Select ==
    /\ pc = "select"
    /\ \/ /\ run' = [run EXCEPT !.targets = IF run.drill = "named" THEN <<TurnStorage>>
                                            ELSE [t \in Storages |-> t]]
          /\ pc' = "pick"
          /\ UNCHANGED faults
       \/ Fault /\ pc' = "end" /\ UNCHANGED run
    /\ UNCHANGED <<fileVars, open, dirVars, stopReq, flag, owed, last>>

\* The sequence of those of s that are in S, in their order: the one of this set, where s
\* names nothing twice.
Filtered(s, S) ==
    {q \in UNION {[1 .. n -> Elements(s) \cap S] : n \in 0 .. Len(s)} :
        /\ \A e \in Elements(s) \cap S : \E i \in DOMAIN q : q[i] = e
        /\ \A i, j \in DOMAIN q : i < j => \E k, l \in DOMAIN s : k < l /\ s[k] = q[i] /\ s[l] = q[j]}

\* The covered services in the order of their names.
Sorted(S) == Filtered([i \in Services |-> i], S)

\* n services of a list from its place i (counted from 0), going round.
Rotated(list, i, n) == [k \in 1 .. n |-> list[((i + k - 1) % Len(list)) + 1]]

\* Mutant of Turns: the first place of the next selection is off by one.
TurnsShort(i, n, len) == (i + n - 1) % len

\* Where the rotation goes on.
Turns(i, n, len) == (i + n) % len

\* Mutant of AddPending: the selection is not kept.
AddPendingNone(p, out) == {p}

\* The selection joins what is pending, once.
AddPending(p, out) == {p \o q : q \in Filtered(out, Services \ Elements(p))}

\* All that is pending on the storage: the rotation's drill leaves out of it what it no
\* longer covers.
Due(d, t, every) == IF every THEN {pending[d][t]} ELSE Filtered(pending[d][t], Covered(d, 0))

\* pick, and the save before anything is restored: the named drill and one by hand take
\* all they cover; else what is pending, and only with nothing pending the next in
\* rotation.
Pick ==
    LET d == run.drill
        every == d = "named" \/ run.one # 0
    IN  /\ pc = "pick"
        /\ \E list \in Sorted(Covered(d, run.one)), due \in Due(d, Target, every) :
             LET again == ~ every /\ due # <<>>
                 all == every \/ Count = 0 \/ Count >= Len(list)
                 out == IF again THEN due
                        ELSE IF all THEN list ELSE Rotated(list, rotation[Target] % Len(list), Count)
             IN  /\ \E p \in IF again THEN {due} ELSE AddPending(due, out) :
                      pending' = [pending EXCEPT ![d][Target] = p]
                 /\ rotation' = IF again \/ all THEN rotation
                                ELSE [rotation EXCEPT ![Target] = Turns(@ % Len(list), Count, Len(list))]
                 /\ owed' = IF run.one = 0 THEN owed \cup {<<d, Target, s>> : s \in Elements(out)}
                            ELSE owed
                 /\ run' = [run EXCEPT !.picked = out]
        /\ IF d = "named" THEN turn' = Target /\ next' = Target - 1 ELSE UNCHANGED <<turn, next>>
        /\ pc' = "next"
        /\ UNCHANGED <<result, open, dirVars, ctlVars, last>>

-------------------------------------------------------------------------------
(* One service after the other *)

\* Before each service: a stop, or the drill's time is over.
StopFound ==
    /\ pc = "next" /\ run.picked # <<>>
    /\ IF stopReq THEN UNCHANGED faults ELSE Fault
    /\ run' = [run EXCEPT !.stopped = TRUE]
    /\ pc' = "wrap"
    /\ UNCHANGED <<fileVars, open, dirVars, stopReq, flag, owed, last>>

\* A storage is through: the next one, or the end.
TargetDone ==
    /\ pc = "next" /\ run.picked = <<>>
    /\ run' = [run EXCEPT !.targets = Tail(@)]
    /\ pc' = IF Len(run.targets) = 1 THEN "wrap" ELSE "pick"
    /\ UNCHANGED <<fileVars, open, dirVars, ctlVars, owed, last>>

\* The result is "interrupted, remains due" until the restore is done.
MarkDue ==
    /\ pc = "next" /\ run.picked # <<>> /\ ~ stopReq
    /\ result' = [result EXCEPT ![Key] = "interrupted"]
    /\ pc' = "make"
    /\ UNCHANGED <<pending, rotation, next, turn, open, dirVars, run, ctlVars, owed, last>>

\* MkdirTemp: a directory that was not there.
Make ==
    /\ pc = "make"
    /\ LET d == CHOOSE x \in Dirs \ disk : TRUE
       IN  disk' = disk \cup {d} /\ run' = [run EXCEPT !.dir = d]
    /\ pc' = "made"
    /\ UNCHANGED <<fileVars, open, record, stray, ctlVars, owed, last>>

\* run.Set: the directory is on record before anything is restored into it.
Note ==
    /\ pc = "made"
    /\ record' = [record EXCEPT !.dirs = @ \cup {run.dir}]
    /\ pc' = "try"
    /\ UNCHANGED <<fileVars, open, disk, stray, run, ctlVars, owed, last>>

\* What one restore may come to.  Under a stop, or past the drill's time, a failure or a
\* skip is an interruption, and so is what would have passed but for the last look.
Outcome(r) == r = "interrupted" \/ ~ stopReq

\* What it takes of MaxFaults, with a copy that cannot be deleted.
Cost(r, gone) ==
    (IF r = "ok" \/ (r = "interrupted" /\ stopReq) THEN 0 ELSE 1) + (IF gone THEN 0 ELSE 1)

\* one: the restore, its check and its drill hook, and the copy's deletion.
Try(r) ==
    /\ pc = "try"
    /\ Outcome(r)
    /\ \E gone \in BOOLEAN :
         /\ faults + Cost(r, gone) <= MaxFaults /\ faults' = faults + Cost(r, gone)
         /\ disk' = IF gone THEN disk \ {run.dir} ELSE disk
         /\ record' = IF gone THEN [record EXCEPT !.dirs = @ \ {run.dir}] ELSE record
    /\ run' = [run EXCEPT !.res = r, !.dir = NoDir]
    /\ pc' = "save"
    /\ UNCHANGED <<fileVars, open, stray, stopReq, flag, owed, last>>

\* A pass ends a service's turn, and so does a skip unless an incident is open.
Finished(r, isOpen) == r = "ok" \/ (r = "skipped" /\ ~ isOpen)

\* The result is saved, with what is still pending.
Save ==
    /\ pc = "save"
    /\ result' = [result EXCEPT ![Key] = run.res]
    /\ IF Finished(run.res, Key \in open)
       THEN \E p \in Filtered(pending[run.drill][Target], Services \ {Service}) :
              pending' = [pending EXCEPT ![run.drill][Target] = p]
       ELSE UNCHANGED pending
    /\ owed' = IF run.res = "ok" \/ (run.res = "skipped" /\ Key \notin open) THEN owed \ {Key} ELSE owed
    /\ last' = IF run.res = "ok" THEN Key ELSE last
    /\ pc' = "report"
    /\ UNCHANGED <<rotation, next, turn, open, dirVars, run, ctlVars>>

\* Raise, or Clear; then the next, or the end on an interruption, a stop or the drill's time.
Report ==
    /\ pc = "report"
    /\ LET stop == run.res = "interrupted" \/ stopReq
       IN  /\ open' = CASE run.res = "failed" -> open \cup {Key}
                        [] run.res = "ok" -> open \ {Key}
                        [] OTHER -> open
           /\ run' = [run EXCEPT !.picked = Tail(@), !.res = "none", !.stopped = stop,
                                 !.failed = @ \/ run.res = "failed"]
           /\ pc' = IF stop THEN "wrap" ELSE "next"
    /\ UNCHANGED <<fileVars, dirVars, ctlVars, owed, last>>

-------------------------------------------------------------------------------
(* The end *)

\* The storage's turn is over: all passed, and nothing is pending on it.
TurnOver(t) == ~ run.stopped /\ ~ run.failed /\ pending["named"][t] = <<>>

\* Open incidents are raised again, which leaves them open; the named drill moves on; the
\* drill's own verdict is saved.
Wrap ==
    /\ pc = "wrap"
    /\ IF run.drill = "named" /\ TurnOver(turn)
       THEN next' = (next + 1) % NStorages /\ turn' = NoStorage
       ELSE UNCHANGED <<next, turn>>
    /\ pc' = "end"
    /\ UNCHANGED <<pending, rotation, result, open, dirVars, run, ctlVars, owed, last>>

\* The record goes, unless a stop for a shutdown ended the drill; the lock is released.
End ==
    /\ pc = "end"
    /\ IF stopReq /\ flag THEN UNCHANGED <<record, stray>>
       ELSE record' = NoRecord /\ stray' = stray \cup (record.dirs \cap disk)
    /\ pc' = "idle" /\ run' = NoRun /\ stopReq' = FALSE
    /\ UNCHANGED <<fileVars, open, disk, flag, faults, owed, last>>

\* archiver stop drill, or the stop of a shutdown, which marks it.
Stop ==
    /\ pc # "idle" /\ ~ stopReq /\ Fault
    /\ stopReq' = TRUE /\ flag' \in {flag, TRUE}
    /\ UNCHANGED <<fileVars, open, dirVars, pc, run, owed, last>>

\* The drill's process is killed, alone or with its container, whose next start takes the
\* shutdown's mark away.
Kill ==
    /\ pc # "idle" /\ Fault
    /\ pc' = "idle" /\ run' = NoRun
    /\ stray' = IF pc = "made" THEN stray \cup {run.dir} ELSE stray
    /\ flag' \in {flag, FALSE}
    /\ UNCHANGED <<fileVars, open, record, disk, stopReq, owed, last>>

ContainerStart ==
    /\ pc = "idle" /\ flag
    /\ flag' = FALSE
    /\ UNCHANGED <<fileVars, open, dirVars, pc, run, stopReq, faults, owed, last>>

-------------------------------------------------------------------------------
DrillStep ==
    \/ Clean \/ Begin \/ Select \/ Pick \/ StopFound \/ TargetDone \/ MarkDue \/ Make \/ Note
    \/ \E r \in Outcomes : Try(r)
    \/ Save \/ Report \/ Wrap \/ End

Next ==
    \/ \E d \in Drills, one \in {0} \cup Services : Start(d, one)
    \/ DrillStep
    \/ Stop \/ Kill \/ ContainerStart

Spec == Init /\ [][Next]_vars

\* Each drill's schedule comes round, where the other leaves it the lock again and again;
\* a drill that runs goes on; a container that was shut down is started again.
FairSpec ==
    /\ Spec /\ WF_vars(DrillStep) /\ WF_vars(ContainerStart)
    /\ \A d \in Drills : SF_vars(Start(d, 0))

===============================================================================
