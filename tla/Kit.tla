-------------------------------- MODULE Kit --------------------------------
(***************************************************************************)
(* The recovery kit (internal/kit: kit.go, upload.go, payload.go; ADR 10): *)
(* the configuration, encrypted, kept current beside the backups on every  *)
(* storage.  It is placed by a process of its own, started as a backup's   *)
(* last step, by the daemon when a storage that lacks it is caught up, or  *)
(* by `archiver recovery-kit'; a lock lets one place at a time, and a      *)
(* state file records which kit is where so that nothing is sent twice.    *)
(*                                                                         *)
(* A kit is the version of the configuration it holds, and the version     *)
(* whose recovery password sealed it: a placement reads its configuration  *)
(* twice, before it waits for the lock and with the lock held.  Versions   *)
(* only grow: a configuration is never put back to an earlier one, and     *)
(* names the same storages at the same places.  A process that is ended    *)
(* takes its uploads with it (proc.Spec.Group).                            *)
(***************************************************************************)
EXTENDS Naturals, FiniteSetsExt

CONSTANTS
    NTargets,    \* the storages are 1..NTargets, 1 the primary
    Windowed,    \* the secondaries that have a copy window
    HasWorkers,  \* whether the daemon's copy workers keep the secondaries
    Key,         \* the recovery password of each configuration
    Lacking,     \* those with a RECOVERY_KIT_EXTRA_PATHS entry that does not exist
    MaxConf,     \* bounds on a behaviour: the last configuration
    MaxFaults,   \* how often something fails or is killed
    MaxOutages   \* and how often a storage goes down or its window closes

Targets == 1..NTargets
Primary == 1
Secondaries == Targets \ {Primary}

ASSUME KitAssumption ==
    /\ NTargets \in Nat \ {0} /\ Windowed \subseteq Secondaries
    /\ HasWorkers \in BOOLEAN /\ Key \in [1..MaxConf -> Nat] /\ Lacking \subseteq 1..MaxConf
    /\ MaxConf \in Nat \ {0} /\ MaxFaults \in Nat /\ MaxOutages \in Nat

VARIABLES
    conf,      \* the configuration as it is now
    at,        \* the kit each storage holds, 0 for none
    sealed,    \* the configuration whose recovery password opens it
    rec,       \* the state file: a fingerprint and the storages under it
    down,      \* the storages that do not answer
    shut,      \* those whose window is closed
    failing,   \* those their copy worker reports failing
    run,       \* what each placing process is at
    incident,  \* whether the "kit" incident is open
    crossed,   \* history: the recovery password changed while a placement that had read it
               \* had not made its kit
    vouched,   \* history: the configuration as the last backup's kit step began, once
               \* that backup counts the step as done; 0 otherwise
    faults, outages  \* the bounds used up so far

world == <<conf, crossed, down, shut, failing>>
storages == <<at, sealed>>
told == <<incident, vouched>>
vars == <<conf, crossed, at, sealed, rec, down, shut, failing, run, incident, vouched,
          faults, outages>>

Runners == {"backup", "daemon", "manual"}
Inside == {"build", "upload", "write"}
Codes == {"none", "ok", "failed", "unverified", "secondary"}

Idle == [pc |-> "idle", asked |-> 0, fp |-> 0, skip |-> {}, held |-> {}, todo |-> {},
         placed |-> {}, unsure |-> {}, failed |-> {}, marker |-> FALSE, erred |-> FALSE,
         behind |-> FALSE, code |-> "none"]

Run == [pc : Inside \cup {"idle", "lock", "report"},
        asked : 0..MaxConf, fp : 0..MaxConf,
        skip : SUBSET Targets, held : SUBSET Targets, todo : SUBSET Targets,
        placed : SUBSET Targets, unsure : SUBSET Targets, failed : SUBSET Targets,
        marker : BOOLEAN, erred : BOOLEAN, behind : BOOLEAN, code : Codes]

NoState == [fp |-> 0, names |-> {}]

Init ==
    /\ conf = 1 /\ crossed = FALSE /\ rec = NoState
    /\ at = [t \in Targets |-> 0] /\ sealed = [t \in Targets |-> 0]
    /\ down = {} /\ shut = {} /\ failing = {}
    /\ run = [p \in Runners |-> Idle]
    /\ incident = FALSE /\ vouched = 0 /\ faults = 0 /\ outages = 0

Fault == faults < MaxFaults /\ faults' = faults + 1 /\ UNCHANGED outages
Sound == UNCHANGED <<faults, outages>>
Out == outages < MaxOutages /\ outages' = outages + 1 /\ UNCHANGED faults

-----------------------------------------------------------------------------
(* Starting a placement *)

\* The process starts, and config.Load reads the configuration of now: its recovery
\* password is the one the kit is sealed with.
Begin(p, skip) ==
    /\ run[p].pc = "idle"
    /\ run' = [run EXCEPT ![p] =
          [Idle EXCEPT !.pc = "lock", !.asked = conf, !.skip = skip]]

\* A backup's last step, recoveryKit: it leaves out what the workers report failing
\* (refreshFailing) and what the run itself found down.
BackupStep ==
    /\ \E found \in SUBSET (down \ {Primary}) :
        Begin("backup", (IF HasWorkers THEN failing ELSE {}) \cup found)
    /\ vouched' = 0
    /\ Sound /\ UNCHANGED <<world, storages, rec, incident>>

\* `archiver recovery-kit [force]'
Manual ==
    /\ Begin("manual", {})
    /\ Sound /\ UNCHANGED <<world, storages, rec, told>>

\* A pass leaves t caught up: its worker says so, and kitWhenBack starts a step of the
\* daemon's own where the state file does not name t, unless one runs already.  Nothing
\* starts at a shutdown or a stop, or when the program cannot be run.
CaughtUp(t) ==
    /\ HasWorkers /\ t \in Secondaries \ down
    /\ failing' = failing \ {t}
    /\ \/ /\ t \notin rec.names
          /\ Begin("daemon", failing')
       \/ t \in failing /\ UNCHANGED run
    /\ Sound /\ UNCHANGED <<conf, crossed, down, shut, storages, rec, told>>

\* A pass of t's worker fails.
PassFails(t) ==
    /\ HasWorkers /\ t \in (Secondaries \cap down) \ failing
    /\ failing' = failing \cup {t}
    /\ Sound /\ UNCHANGED <<conf, crossed, down, shut, storages, rec, run, told>>

-----------------------------------------------------------------------------
(* Execute *)

\* Mutant of LockFree: a placement that finds the lock held goes on without it.
LockFreeAlways == TRUE

\* Run.lock: the kit lock, an flock that ends with its holder.
LockFree == \A q \in Runners : run[q].pc \notin Inside

Take(p) ==
    /\ run[p].pc = "lock" /\ LockFree
    /\ run' = [run EXCEPT ![p].pc = "build"]
    /\ Sound /\ UNCHANGED <<world, storages, rec, told>>

\* TryLock: the daemon's step gives way, and says nothing.
Busy ==
    /\ run["daemon"].pc = "lock" /\ ~ LockFree
    /\ run' = [run EXCEPT !["daemon"] = Idle]
    /\ Sound /\ UNCHANGED <<world, storages, rec, told>>

\* Execute returns, and lets the lock go: what is left is what kitExecute looks at, and
\* for a backup its step's code and marker.  Every failure is logged as an error.
Returned(p, r, code) ==
    LET end == [Idle EXCEPT !.pc = "report",
                    !.erred = r.erred \/ code \in {"failed", "secondary"},
                    !.behind = r.skip \cup r.held # {} \/ code = "unverified"]
    IN  IF p = "backup" THEN [end EXCEPT !.asked = r.asked, !.marker = r.marker, !.code = code]
        ELSE end

\* The configuration cannot be read, or the payload not written.
BuildFails(p) ==
    /\ run[p].pc \in {"lock", "build"}
    /\ run' = [run EXCEPT ![p] = Returned(p, run[p], "failed")]
    /\ Fault /\ UNCHANGED <<world, storages, rec, told>>

\* readState
Recorded(fp) == IF rec.fp = fp THEN rec.names ELSE {}

\* Mutant of PrimaryHasKit: the marker is made before the upload to the primary.
PrimaryHasKitEarly(pending) == TRUE

\* The primary is known to hold the kit when the plan has nothing to send it.
PrimaryHasKit(pending) == Primary \notin pending

\* What is kept, what is held for its window and what is sent: payload, readState and
\* the first loop over the targets.  The payload is of the configuration of now, and a
\* missing extra path is an error, but the kit still goes out without it.  Only the
\* backup's step has a marker to make, and only the operator's may be forced: that is
\* asked of it here, where it matters.
Planned(p, force) ==
    LET r == run[p]
        rest == Targets \ r.skip
        kept == {t \in rest \cap Recorded(conf) : ~ force \/ t \in shut}
        held == (rest \ kept) \cap shut
        pending == (rest \ kept) \ held
    IN  [r EXCEPT !.pc = "upload", !.fp = conf, !.placed = kept, !.held = held,
                  !.todo = pending, !.marker = p = "backup" /\ PrimaryHasKit(pending),
                  !.erred = conf \in Lacking]

Build(p) == \E force \in {FALSE, p = "manual"} :
    LET plan == Planned(p, force)
    IN  /\ run[p].pc = "build"
        /\ run' = [run EXCEPT ![p] = IF plan.todo = {} THEN Returned(p, plan, "ok") ELSE plan]
        /\ Sound /\ UNCHANGED <<world, storages, rec, told>>

\* encrypt, or writing the README, fails.
SealFails(p) == \E force \in {FALSE, p = "manual"} :
    LET plan == Planned(p, force)
    IN  /\ run[p].pc = "build" /\ plan.todo # {}
        /\ run' = [run EXCEPT ![p] = Returned(p, plan, "failed")]
        /\ Fault /\ UNCHANGED <<world, storages, rec, told>>

Uploading(p, t) == run[p].pc = "upload" /\ run[p].todo # {} /\ t = Min(run[p].todo)

\* encrypt: the payload's kit, sealed with the password read first.
Publish(p, t) ==
    /\ at' = [at EXCEPT ![t] = run[p].fp]
    /\ sealed' = [sealed EXCEPT ![t] = run[p].asked]

\* outsideWindow again, as the upload of t would start
Hold(p, t) ==
    /\ Uploading(p, t) /\ t \in shut
    /\ run' = [run EXCEPT ![p].todo = @ \ {t}, ![p].held = @ \cup {t}]
    /\ Sound /\ UNCHANGED <<world, storages, rec, told>>

UploadOK(p, t) ==
    /\ Uploading(p, t) /\ t \notin shut \cup down
    /\ Publish(p, t)
    /\ run' = [run EXCEPT ![p].todo = @ \ {t}, ![p].placed = @ \cup {t},
                          ![p].marker = @ \/ (p = "backup" /\ t = Primary)]
    /\ Sound /\ UNCHANGED <<world, rec, told>>

\* Placed, but less readable than the storage's own files: localAccess, sftpAccess.
UploadUnverified(p, t) ==
    /\ Uploading(p, t) /\ t \notin shut \cup down
    /\ Publish(p, t)
    /\ run' = [run EXCEPT ![p].todo = @ \ {t}, ![p].unsure = @ \cup {t}]
    /\ Fault /\ UNCHANGED <<world, rec, told>>

\* The storage does not answer, or an upload fails: the kit's, leaving the one there,
\* or the README's after it.
UploadFails(p, t) ==
    /\ Uploading(p, t) /\ t \notin shut
    /\ \/ t \in down /\ Sound /\ UNCHANGED storages
       \/ t \notin down /\ Fault /\ (UNCHANGED storages \/ Publish(p, t))
    /\ run' = [run EXCEPT ![p].todo = @ \ {t}, ![p].failed = @ \cup {t}]
    /\ UNCHANGED <<world, rec, told>>

\* Mutant of ToRecord: every storage the loop was through with is recorded.
ToRecordTried(r) == r.placed \cup r.failed

\* Failed and unverified storages stay out of the state record.
ToRecord(r) == r.placed

Code(r) ==
    CASE Primary \in r.failed -> "failed"
      [] Primary \notin r.failed /\ r.failed # {} -> "secondary"
      [] r.failed = {} /\ r.unsure # {} -> "unverified"
      [] OTHER -> "ok"

\* writeState, os.WriteFile: the file is cut to nothing, then written.
Truncate(p) ==
    /\ run[p].pc = "upload" /\ run[p].todo = {}
    /\ rec' = NoState
    /\ run' = [run EXCEPT ![p].pc = "write"]
    /\ Sound /\ UNCHANGED <<world, storages, told>>

Write(p) ==
    /\ run[p].pc = "write"
    /\ rec' = [fp |-> run[p].fp, names |-> ToRecord(run[p])]
    /\ run' = [run EXCEPT ![p] = Returned(p, run[p], Code(run[p]))]
    /\ Sound /\ UNCHANGED <<world, storages, told>>

\* The state file cannot be opened, or not written: only a warning.
WriteFails(p) ==
    /\ run[p].pc \in {"upload", "write"} /\ run[p].todo = {}
    /\ run' = [run EXCEPT ![p] = Returned(p, run[p], Code(run[p]))]
    /\ Fault /\ UNCHANGED <<world, storages, rec, told>>

-----------------------------------------------------------------------------
(* What comes of it *)

\* kitExecute: an error that was logged opens the incident, whatever the code; one still
\* missing a storage that was skipped or held, or unverified, leaves it as it is; a kit
\* current everywhere clears it.
Incident(r) == r.erred \/ (incident /\ r.behind)

\* recoveryKit: with workers, a failure after the marker was made is a secondary's and
\* not the run's.
Vouched(r) ==
    IF r.code \in {"ok", "unverified"} \/ (HasWorkers /\ (r.marker \/ r.code = "secondary"))
    THEN r.asked ELSE 0

\* The lock is let go before this: another placement may come in between.
Report(p) ==
    /\ run[p].pc = "report"
    /\ incident' = Incident(run[p])
    /\ vouched' = IF p = "backup" THEN Vouched(run[p]) ELSE vouched
    /\ run' = [run EXCEPT ![p] = Idle]
    /\ Sound /\ UNCHANGED <<world, storages, rec>>

\* A process is ended, perhaps just as the storage took the kit it was sending.
Ended(p) ==
    /\ run[p].pc # "idle"
    /\ \/ UNCHANGED storages
       \/ \E t \in Targets \ (shut \cup down) : Uploading(p, t) /\ Publish(p, t)
    /\ run' = [run EXCEPT ![p] = Idle]
    /\ Fault /\ UNCHANGED <<world, rec>>

\* KitDeadline: the backup ends a step that takes too long, and says so itself.
Deadline ==
    /\ HasWorkers /\ Ended("backup")
    /\ incident' = TRUE
    /\ vouched' = Vouched([run["backup"] EXCEPT !.code = "failed"])

\* A kill: the container's end (of the backup too), kitRetryLimit, a stop (stopKit), a
\* daemon's shutdown, an operator's.
Kill(p) == Ended(p) /\ UNCHANGED told

-----------------------------------------------------------------------------
(* Around it *)

\* A secret, a key, a mounted manifest or an extra file changes.
Reconfigure ==
    /\ conf < MaxConf /\ conf' = conf + 1
    /\ crossed' = (crossed \/ (/\ Key[conf'] # Key[conf]
                               /\ \E p \in Runners : run[p].pc \in {"lock", "build"}))
    /\ Sound /\ UNCHANGED <<down, shut, failing, storages, rec, run, told>>

Outage(t) ==
    /\ t \notin down /\ down' = down \cup {t}
    /\ Out /\ UNCHANGED <<conf, crossed, shut, failing, storages, rec, run, told>>

Return(t) ==
    /\ t \in down /\ down' = down \ {t}
    /\ Sound /\ UNCHANGED <<conf, crossed, shut, failing, storages, rec, run, told>>

Close(t) ==
    /\ t \in Windowed \ shut /\ shut' = shut \cup {t}
    /\ Out /\ UNCHANGED <<conf, crossed, down, failing, storages, rec, run, told>>

Open(t) ==
    /\ t \in shut /\ shut' = shut \ {t}
    /\ Sound /\ UNCHANGED <<conf, crossed, down, failing, storages, rec, run, told>>

Work(p) ==
    \/ Take(p) \/ Build(p) \/ Truncate(p) \/ Write(p) \/ Report(p)
    \/ p = "daemon" /\ Busy
    \/ \E t \in Targets : Hold(p, t) \/ UploadOK(p, t) \/ UploadFails(p, t)

Next ==
    \/ BackupStep \/ Manual \/ Reconfigure \/ Deadline
    \/ \E p \in Runners : Work(p) \/ BuildFails(p) \/ SealFails(p) \/ WriteFails(p) \/ Kill(p)
    \/ \E p \in Runners, t \in Targets : UploadUnverified(p, t)
    \/ \E t \in Targets :
        CaughtUp(t) \/ PassFails(t) \/ Outage(t) \/ Return(t) \/ Close(t) \/ Open(t)

\* Processes run on, and a backup's that waits for the lock gets it: placements are far
\* apart.  Backups are made again and again, copy workers make their passes, and what is
\* down or shut is not so for ever.
Fairness ==
    /\ \A p \in Runners : WF_vars(Work(p))
    /\ SF_vars(Take("backup"))
    /\ WF_vars(BackupStep)
    /\ \A t \in Secondaries : WF_vars(CaughtUp(t))
    /\ WF_vars(\E t \in Targets : Return(t) \/ Open(t))

Spec == Init /\ [][Next]_vars /\ Fairness

-----------------------------------------------------------------------------

TypeOK ==
    /\ conf \in 1..MaxConf /\ vouched \in 0..MaxConf
    /\ at \in [Targets -> 0..MaxConf] /\ sealed \in [Targets -> 0..MaxConf]
    /\ rec \in [fp : 0..MaxConf, names : SUBSET Targets]
    /\ down \subseteq Targets /\ shut \subseteq Windowed /\ failing \subseteq Secondaries
    /\ run \in [Runners -> Run]
    /\ incident \in BOOLEAN /\ crossed \in BOOLEAN
    /\ faults \in 0..MaxFaults /\ outages \in 0..MaxOutages

\* The kit on t opens with the recovery password that belongs to what it holds.
Opens(t) == at[t] # 0 => Key[sealed[t]] = Key[at[t]]

\* The same, unless a change of the recovery password has crossed a placement.
OpensUncrossed(t) == crossed \/ Opens(t)

\* CurrentOn "reports the storages holding the kit for the configuration as it is now": a
\* storage the state file names under the present configuration holds that very kit, and
\* if no placement was crossed, one that the present password opens, whatever placements
\* ran beside each other, were killed or cut the file short.  A later run sends nothing to
\* such a storage, so another kit there would stay.
CurrentTrue == rec.fp = conf => \A t \in rec.names : at[t] = conf /\ OpensUncrossed(t)

\* The same of every placement, as CurrentOn and docs/recovery.md have it: "To rotate it,
\* replace the secret file", and the next backup re-encrypts and re-uploads everywhere.
CurrentOpens == rec.fp = conf => \A t \in rec.names : Opens(t)

\* A backup whose kit step did not fail leaves the primary with a kit no older than the
\* configuration the step began with, and one that opens if no placement was crossed,
\* although it counts a failure or a deadline after the marker as a secondary's.
PrimaryVouched ==
    /\ at[Primary] >= vouched
    /\ vouched # 0 => OpensUncrossed(Primary)

\* A storage never goes back to an older kit, nor, if no placement was crossed, to one
\* sealed with another password than its own: the lock keeps a placement that is slow, or
\* waits, from sending one made of an earlier configuration over a newer (Run.lock).
KitsGrow == [][\A t \in Targets : at'[t] >= at[t] /\ OpensUncrossed(t)']_storages

\* Once the configuration settles, every storage comes to hold its kit and keeps it, as
\* good as CurrentTrue says, and the incident ends, or stays open while an extra path is
\* missing: "Failed and unverified storages stay out of the state record, so the next run
\* retries them."
KitArrives ==
    <>[](/\ incident <=> conf \in Lacking
         /\ \A t \in Targets : at[t] = conf /\ OpensUncrossed(t))
=============================================================================
