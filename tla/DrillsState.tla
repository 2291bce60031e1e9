----------------------------- MODULE DrillsState -----------------------------
(***************************************************************************)
(* What restore drills remember and leave behind, and what they promise:   *)
(* the state file, the run's record, the copies on disk, and what may      *)
(* never become of them.  Drills says what they do.                        *)
(***************************************************************************)
EXTENDS ConfiguredServices, Sequences, FiniteSets

CONSTANTS
    Excluded,  \* those RESTORE_DRILL_EXCLUDE names: not in the rotation
    OwnServices, \* the services of the named drill
    NStorages, \* the storages drilled, 1 .. NStorages in the order configured
    Count,     \* how many services the configured drill takes, 0 for all
    MaxFaults  \* a bound on failures, skips, timeouts, stops, kills and drills by hand

ASSUME DrillsAssumption ==
    /\ {NServices, NStorages} \subseteq Nat \ {0} /\ {Count, MaxFaults} \subseteq Nat
    /\ Excluded \subseteq 1 .. NServices /\ Excluded # 1 .. NServices
    /\ OwnServices \subseteq 1 .. NServices

Storages == 1 .. NStorages
NoStorage == 0

\* The configured drill, and the named one.
Drills == {"rotate", "named"}

VARIABLES
    pending,  \* state file: of each drill and storage, the services selected and not finished
    rotation, \* state file: where the next selection starts, for each storage
    next,     \* state file: NextStorage of the named drill
    turn,     \* state file: Storage, the one the named drill is at, or NoStorage
    result,   \* state file: how each drill's last restore of a service from a storage went
    open,     \* the open incidents of single restores
    record,   \* the run record: of which drill, if any, and the directories in it
    disk,     \* the drills' directories that exist
    pc,       \* where the drill that has the lock is, "idle" without one
    run,      \* its local variables
    stopReq, flag, \* a stop was requested; the container is shutting down
    faults,   \* how much of MaxFaults is used
    owed,     \* history: <<drill, storage, service>> selected for a turn and not finished since
    last,     \* history: the last <<drill, storage, service>> that passed
    stray     \* history: directories a kill or a failed deletion left on no record

-------------------------------------------------------------------------------
\* The services a drill covers: one by hand, the named drill's own, or those not excluded.
Covered(d, one) == IF one # 0 THEN {one} ELSE IF d = "named" THEN OwnServices ELSE Services \ Excluded

Keys == Drills \X Storages \X Services

Elements(s) == {s[i] : i \in DOMAIN s}

-------------------------------------------------------------------------------
(* Properties *)

\* The rotation moves on, and the named drill to its next storage, only once each service
\* selected on the storage has passed, or was skipped with no failure open, since it was
\* selected: never over one that a stop, a timeout or a kill cut short (DrillState's
\* NextStorage and Pending, pick, Drill).
SelectionFinished ==
    [][\A t \in Storages :
         /\ rotation'[t] # rotation[t] => \A s \in Services \ Excluded : <<"rotate", t, s>> \notin owed
         /\ turn = t /\ turn' # t => \A s \in OwnServices : <<"named", t, s>> \notin owed]_<<rotation, turn>>

\* Once drills pass again, each drill restores each of its services from each storage again
\* and again, whatever failed, was skipped, stopped or killed before (pick, selection).
Covers ==
    \A d \in Drills, t \in Storages, s \in Services : s \in Covered(d, 0) => []<>(last = <<d, t, s>>)

\* What is shown as failed, or as interrupted and still due, is drilled again in the next
\* run of its drill, wherever this one was killed; a service drilled by hand that the
\* rotation leaves out is not (Drill, pick).
DueKept ==
    \A x \in Keys : result[x] \in {"failed", "interrupted"} /\ x[3] \in Covered(x[1], 0)
                       => x[3] \in Elements(pending[x[1]][x[2]])

\* Every copy on disk is on the run's record, so that the next drill deletes it, but for
\* one being made, one whose drill was killed that very moment, and those that could not
\* be deleted (one, resume.Run.Forget, Drill's clearing of an interrupted drill).
CopiesKnown ==
    disk \subseteq record.dirs \cup stray \cup (IF pc = "made" THEN {run.dir} ELSE {})

===============================================================================
