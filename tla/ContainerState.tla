---------------------------- MODULE ContainerState ----------------------------
(***************************************************************************)
(* What there is in a container, and what it promises: its runs, its       *)
(* daemon and the copy worker, the records and marks that outlive it, and  *)
(* what may never become of them.  Container says what they do.            *)
(***************************************************************************)
EXTENDS Naturals, FiniteSets

Kinds == {"backup", "maintenance"}

CONSTANTS
    MaxEnds,   \* a bound on the container's shutdowns and crashes
    Schedules, \* the sets of kinds a container may have schedules for
    ByHand     \* the kinds of run a person starts

ASSUME ContainerAssumption ==
    MaxEnds \in Nat /\ Schedules \subseteq SUBSET Kinds /\ ByHand \subseteq Kinds

VARIABLES
    box,       \* the container: down, up, or how far its shutdown is
    ends,      \* how often it was shut down or crashed
    scheduled, \* the kinds of run this container has a schedule for
    flag,      \* the mark of a shutdown in /var/lock
    daemon,    \* the daemon's process
    job,       \* what the daemon (or the entrypoint) waits for, for each kind
    run,       \* the run of each kind, who started it, and whether the shutdown told it to stop
    stopReq,   \* the stop flag of each kind
    record,    \* whether there is a record of a run in progress on the logs volume
    asked,     \* whether the backup heard that copy workers keep the secondary
    worker,    \* the copy worker
    cmd,       \* how far each `archiver stop' is
    late,      \* history: this end of the container was a crash, or outlasted a wait
    quiet      \* history: a stop has ended, with no run, and nothing has started since

-------------------------------------------------------------------------------
\* No process of the run.
Off == [st |-> "off", by |-> "none", told |-> FALSE]

\* The run's lock file is there.
Locked(k) == run[k].st \notin {"off", "begun"}

\* The worker's copy runs, under the copy lock.
Copying == worker \in {"copying", "ending", "rewoken"}

-------------------------------------------------------------------------------
(* Properties *)

\* A run that a shutdown, a crash or a kill cut short after it was recorded is run again
\* in a later container, whether or not that one has a schedule for it, and however many
\* containers end before they get to it (interruptedRuns, daemon.Run, ADR 46).
Resumes ==
    \A k \in Kinds : (box = "down" /\ record[k]) ~> (run[k].st = "working")

\* The other way round: a run that ends in a container nobody is shutting down, because it
\* is done or because a person stopped it, leaves nothing to resume, even when an earlier
\* shutdown left its mark in /var/lock (finish in each pipeline, entrypoint's start).
EndsClean ==
    [][\A k \in Kinds :
         run[k].st \in {"stopped", "done"} /\ run'[k] = Off /\ box' = "up" => ~ record'[k]]_run

\* As long as no wait runs out, the container does not end under a run its shutdown told
\* to stop, nor under a copy a worker is still ending (shutdown, LocksClear, runDaemon's
\* deferred calls).
GracefulStop ==
    [][box # "down" /\ box' = "down" /\ ~ late' =>
         /\ ~ Copying
         /\ \A k \in Kinds : ~ (Locked(k) /\ run[k].told)]_box

\* Once archiver stop has ended with no run left, no copy begins until another run or
\* daemon starts, though the backup it ended may have woken the workers after they were
\* stopped (Stop, handOffCopies).
StopSticks == quiet => worker \in {"off", "ending", "stopped"}

===============================================================================
