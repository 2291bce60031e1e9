# Archiver: a verification project

Archiver backs service directories up to a primary storage with duplicacy, keeps the other
storages ("targets") copies of it, prunes, checks and drills them, and runs unattended in a
container for years. This directory holds TLA+ models of the parts of it that several
processes or goroutines share, the TLC configurations that check them on small instances,
and TLAPS proofs of the results that matter most.

Contents: [the system](#the-system), [modules](#modules), [runs](#runs), [fairness](#fairness),
[proofs](#proofs), [known disagreements](#known-disagreements), [not modelled](#not-modelled),
[plan](#plan).
`PROJECT.json` maps each definition to the lines it models, and lists components, hazards,
mutants and theorems.

    tlc -workers 2 -config BackupRuns.cfg MCBackup     # a run
    tlapm InUseProofs.tla                              # proofs

## The system

| Part | State | Operations | Shared with |
| --- | --- | --- | --- |
| Revisions in use (`internal/inuse`) | per storage: a gate (flock) and a file per reader, locked while in use | enter shared or exclusive, add, set, list | every reader and every deleter |
| Local prune (`internal/localprune`) | none of its own | gate, read the registry, dry run, delete in parts | maintenance's process |
| Mirror pass (`internal/copier/mirror.go`, `upkeep.go`) | held-back deletions | list local and target, plan, delete | the copy worker's pass |
| Forget (`internal/forget`) | none | plan over all storages, delete storage by storage | its own process |
| Copy worker (`internal/copier`) | status, counts of wakes and stops, the running command, last listings | `Run`, `Wake`, `Stop`, `Pause`, `Resume`, window watch, recount | one per target, in the daemon; told by backups over a socket |
| Backup pipeline (`internal/pipeline`) | per run: services' progress; on disk: the run's record, hook state directories | finish an interrupted run, probe, per service: pre hook, init, backup, post hook, record; hand off | schedule, `archiver backup`, stop, the container's shutdown |
| Run records (`internal/resume`) | one file per kind of run | begin, set, forget, end, read | the daemon, which starts recorded runs again |
| Run lock and control (`internal/runlock`, `runctl`, `lockstate`) | per kind of run: lock file with its events, kernel lock, edit lock, stop flag | acquire, start a program unpaused, clean up, pause, resume, stop | all commands |
| Maintenance (`internal/maintenance`) | its repository: duplicacy's caches, the identities they were made for, fossil collections | per storage: check and prune; adopt old collections | the registry, the workers, stop |
| Restore drills (`internal/restore/drill.go`) | pending services and rotation per storage, results, copies on disk | select, restore and compare, save, clean up | stop, timeout, pause; the container's restart |
| Restores and recovery (`internal/restore`) | the restore lock; a recovery's directory with its mark | restore one or all, guided recovery from a kit, hook under a guard | backups, which look for each other |
| Recovery kit (`internal/kit`) | kit lock, state file, a kit on every storage | place where it is missing or old | a backup's last step, the daemon, `archiver recovery-kit` |
| Notifications (`internal/notify`) | one record of open incidents | raise, clear, deliver | every process |
| Daemon and entrypoint (`internal/daemon`, `cmd/archiver`) | schedules, workers, the mark of a shutdown | start, run due and interrupted jobs, stop everything, wait, end | all of the above |
| Deep check, doctor | verdicts, a record | read everything; probe keys | gate and registry, run lock |
| Configuration, envelope, health, status, metrics, logs | text and views | parse, show | read only |

Readers and deleters meet at the gate and the registry. A backup ends by waking the copy
workers, whose passes list local and the target, copy, then mirror, prune and check. A stop
or pause reaches a run through its lock and a worker through the daemon's socket. All of
them raise and clear incidents. What survives a crash is on disk: the registry's locks end
with their processes, the run record and the incidents stay.

What is hard here: a listing used after another process has changed what was listed; a
process that dies while the duplicacy it started goes on; stops, pauses and windows that fall
between a decision and its command; the one-token wake channel; hooks that have stopped a
service whose backup is then killed; messages whose arrival nobody recorded. What makes each
part correct:

* in use: nothing a reader counts on is deleted, whoever dies; targets delete only what local
  pruned and never an ID's newest; what forget removed does not come back;
* copy worker: a stop, a pause and a closed window hold wherever they fall; no backup told of
  is lost; left alone it catches up;
* backup: whatever a pre hook stopped is started again, or given up with a message; its saved state
  is its own; a run cut short by a shutdown resumes;
* incidents: alerts and recoveries in order, at least once, to those concerned, and an end;
* run control: what is paused stands still and can be resumed, a stopped run ends, a clean-up and
  a killed check's duplicacy are not run into;
* container: a shutdown ends with nothing running or starting, leaves no mark behind, and what it
  cut short is started again;
* drills: nothing selected is forgotten, nothing restored is left behind, everything has its turn;
* maintenance: no cache serves another storage than its own, no fossil collection is lost;
* restores: never in a directory with a backup or each other; a recovery that reports success is
  complete and overwrites no other;
* kit: what the state file calls current is current, and it gets everywhere.

## Modules

`MirrorPlan` – `PlanMirror` and its rails (own IDs, local's newest, target's newest, more than
half) as operators over sets of `<<id, revision>>`.

`InUse` (extends `MirrorPlan`) – composes everything that reads or deletes revisions: backups,
one copy worker per target with its mirror pass, restores, drills, doctor's key probes, deep
checks, the local prune and forget. State: `has` (each storage's snapshot files), the gates,
each reader's registration and what it needs (`need`: listed under the gate, or being read),
each deleter's step, its view of the registry and its remaining deletions. A registration is
what `inuse` writes: exact revisions, "this and newer", and `*` for IDs it does not name.
`Spec` has a container restart at any step and readers killed with their duplicacy going on;
`OrphanSpec` adds a prune that goes on when maintenance is killed. Which revisions a retention
policy selects is any choice that leaves each ID its newest, as duplicacy does. A drill is
reading while its restore runs; the listing of a revision's files before it is left out. What a
mirror pass deletes is decided with and without `--allow-large`.

`CopyWorker` – one worker's goroutines at the grain of its mutex: `Run` and its passes (window,
pause, contact, list, copy, upkeep's mirror, prune and check, caught up), the calls of others,
the window watch and the recount. Revisions are counts. A command is running, frozen, or ended
well or badly; termination is asked for, then happens.

`Backup` – the pipeline, its services in groups of one snapshot ID, in parallel up to
`Parallelism`, and the record. `owed` says that a pre hook ran and no post hook has since; `left`
whose state a hook state directory holds. Stops, signals, a shutdown, the primary lost and a kill
may fall at any step, and runs follow one another without bound. Which services are configured may
differ from run to run. `finishInterrupted` gives up a post hook that is gone, cannot be read or does
not start (`FinishHook` with `ran` false), and one whose service is not configured any more
(`FinishUnconfigured`), but records the service as it does otherwise: `owed` is then "given up", a
third value, so that the properties say which debts they are about. A post hook that cannot be started
in the run itself is given up likewise (`PostEnd`).

`Incidents` – one incident's record on disk, `Raise`, `Clear` and `deliver` case by case, from
callers whose reports may be stale when made, to destinations each caller may have configured
differently.

`RunControl` – one kind of run at a time (backup, drill or check) with its programs, its lock file's
last event, the edit lock and the stop flag, and pauses, resumes and stops as processes of their own:
a pause is "record, then freeze" under the edit lock for a backup's run, a resume "signal, then
record" (`runctl.resume`) or both under the lock (`runlock.Resume`), as the code has it per kind.
`crossed` marks behaviours in which a command acted on a later run than it read.

`Container` – the entrypoint, the daemon with its scheduled and interrupted jobs, the backup and
maintenance seen from outside (lock, record, where they look for a stop, when they wake the
workers), one copy worker, `archiver stop` by a person and by the shutdown, and the end or the crash
of the container, after which the volumes are what is left. It extends `ContainerState`, which has the
variables and the properties stated of them; so does `Drills` with `DrillsState`.

`Drills` – one drill process over the state file, the run record, its directories and its incidents,
for a rotating drill and a named one; it may be killed after every write. What is taken out of a list
(`slices.DeleteFunc`) is stated as what the result is, its elements in their order (`Filtered`), so that
it can be reasoned about; it is one list, where no service is named twice. Its services are those of
`Restore`, from `ConfiguredServices`.

`Maintenance` – one run over `N` storages and what outlives it: identities, caches, collections.
A cache is the URL it was made of.

`ServiceGate` – the abstract specification: at most one command at a time works on the service
directories. `Restore` – restores, recoveries and backups as processes at the grain of the restore
lock, their looks for each other, the duplicacy and the hook each starts and may leave behind. It
implements `ServiceGate` with `working <- AtWork`: whoever is past its look, or whose duplicacy or
hook still runs, dead or alive. The step that takes the lock and the one that looks are separate, so
a restore that has the lock and finds a backup maps to a stutter; the backup's own lock and probe
likewise.

`Kit` – a placement as the processes that make one, each with its plan; a kit is the version of the
configuration it holds, a storage the version it has, the state file a version and names, torn when
its writer is killed in between. `Execute` reads the configuration twice: `config.Load` before it waits
for the kit lock (`asked`, whose recovery password seals the kit), and the payload with its fingerprint
under the lock (`fp`). `sealed` is therefore a version of its own, and `crossed` marks behaviours in which the
recovery password changed between the two reads of some placement. A missing entry of
`RECOVERY_KIT_EXTRA_PATHS` (`Lacking`) logs an error, which opens the incident although the placement
succeeds.

`MCInUse` and the other `MC` modules give TLC the constants. The theorems are in `InUseProofs`,
`BackupProofs`, `RunControlProofs`, `CopyWorkerProofs`, `RestoreProofs`, `KitProofs`,
`MaintenanceProofs` and `IncidentsProofs`, each of which extends the component of its name. Two have
another component's as well, beside the one it belongs with: `CopyWorkerProofs` that of the container
the workers run in (`Box == INSTANCE Container`), `RestoreProofs` that of the drills, which restore too
(`Drill == INSTANCE Drills`). They extend its state module, so that a theorem such as
`Box!Spec => []StopSticks` is about the very property the run checks. Operators named `...Late`,
`...Ungated`, `...Never` and so on, marked "Mutant of", are deliberate mistakes; `PROJECT.json` says which property finds each.

## Runs

| Run | Properties | Instance and why it is enough |
| --- | --- | --- |
| `InUseReaders` | `InUseKept`, `TargetDeletesOnlyPruned`, `NewestKept` | One ID, three revisions, one target, a restore and a drill: enough for an old, a middle and a newest revision, for two readers on one storage or on two, and for a backup between a listing and its use. |
| `InUseProbes` | `InUseKept`, `NoRecopy` | A retired ID, key probe, deep check, forget, copy and both prunes: the readers with the `*` registration against every deleter. |
| `WorkerControl` | `StopHolds`, `PauseHolds`, `CheckGivesWay`, `IdleCaughtUp` | Two backups, one each of stop, pause, failure and restart, no window: each may fall at every step, also together. |
| `WorkerLive` | `CatchesUp` | A window closing and opening with a backup, a stop, a pause and a failure, each at every step of a pass, under fairness. |
| `BackupRuns` | `OwedRecorded`, `StateKept`, `PreHookOnce`, `ShutdownResumes`, `HooksUndone` | Two services of one ID and a third, two in parallel, any number of runs, kills and stops, any of the services configured in a run or not, post hooks that run or cannot: no bound but the services. |
| `Incidents` | `HeardOwed`, `InOrder`, `OverOnlyToTold`, `AlertArrives`, `Settles` | Two callers, a destination that always receives and one whose configuration varies; the condition changes three times (bad, over, bad again) with two faults of any kind. |
| `RunControl` | `PausedFrozen`, `FrozenPaused`, `CleanupRuns`, `OneCheck`, `StopEnds` | Each kind of run, two runs one after the other (the second finds what a killed first one left), two commands at a time and any number in all: two are what a race between a pause, a resume and a stop takes. |
| `Container` | `StopSticks`, `EndsClean`, `GracefulStop`, `Resumes` | Two ends of a container, each a shutdown or a crash, then a third container; with a schedule for backups and without; maintenance by hand, a stop by hand. |
| `Drills` | `CopiesKnown`, `SelectionFinished`, `Covers` | Three services of which one is excluded, one at a time, and a named drill of one, on two storages; two faults (failure, skip, timeout, stop, kill, drill by hand) at any step, then any number of good runs. Three services make a rotation that can skip one; two storages an alternation. |
| `Maintenance` | `CacheTrue`, `FossilsKept` | Two storages that may swap places, a collection for each, one of another URL and one reached through a link; two changed configurations and two kills, so that a kill can fall into the run that repairs another. |
| `Restore` | `RecoverNewest`, `Excludes`, `OutKept` | Two commands of any kind and a backup, two services of which each storage lacks the newest revision of one, two kits of which one does not list its services; kills anywhere and any number of commands in turn. |
| `Kit` | `CurrentTrue`, `PrimaryVouched`, `KitArrives` | Three processes without bound on their starts, a primary and a secondary with a window, two configurations (the second with another recovery password, and with the extra path the first lacks), one fault (a failed upload, a torn or unwritten state file, a deadline, a kill) and one outage or closed window, together or apart. |

All of them pass. `TypeOK` of every module holds too and is not repeated in the runs: it is proved for
every component with theorems (in `Restore`, whose records have fields that come and go, as far as the
proofs need it). `WindowHolds` (`CopyWorker`) and
`KitsGrow` (`Kit`) are proved as well and left out of the runs, and so is `DueKept` (`Drills`).

`StopHolds` is checked without a copy window in `WorkerControl`: with one it does not hold
(`WorkerStopLost.cfg`). `ShutdownResumes` leaves out a lost primary (`BackupOutage.cfg`), `StopEnds`
a backup's frozen hook (`RunControlStop.cfg`), `OwedRecorded`, `StateKept`, `PreHookOnce` and `HooksUndone` a
hook given up (`BackupGivenUp.cfg`). What `CurrentTrue`, `PrimaryVouched`, `KitsGrow` and `KitArrives` say of the
password leaves out behaviours in which a new one `crossed` a placement (`KitTorn.cfg`); what they say of
the versions held does not. Deadlock is checked everywhere but for run control, where a last run's end is the end, and the
copy worker, whose bounded
behaviours end (bounds `MaxBackups`, `MaxStops`, `MaxPauses`, `MaxCloses`, `MaxFails`,
`MaxRestarts`; a worker stopped with no backup to come rests for good).
The other bounds are `MaxRev` (revisions per ID), `MaxFlips` and `MaxFaults` (incidents), `MaxRuns`
(run control), `MaxEnds` (container), `MaxFaults` (drills, kit), `MaxOutages` and `MaxConf` (kit),
`MaxConfs` and `MaxKills` (maintenance). `Restore` is checked up to the symmetry of its commands.

## Fairness

* `CopyWorker`: the worker's goroutine runs when it can, commands end, a backup's caller gets to
  `Wake`, a `Resume` follows a pause, a closed window opens, the window watch acts. The retry timer
  is part of the goroutine. Nothing is assumed of `SafetyWake` (six hours), so `CatchesUp` does not
  rest on it; failures are bounded.
* `Backup`: a process that runs takes its steps (hooks and duplicacy end), and a recorded run is
  followed by another: the schedule, or the daemon's restart of recorded runs. `HooksUndone` is for
  behaviours in which kills stop; the model itself has any number of them.
* `Incidents`: runs keep coming and report what they find, calls end, a dead sender's claim runs
  out. Nothing is assumed of the repeat interval, which may be "never". Failed sends are bounded.
* `RunControl`: processes and the programs they start take their steps unless frozen, strongly fair
  because a pause and its resume may alternate for ever; a stop flag is seen by the run's own watch.
* `Container`: whatever runs goes on; nothing is assumed of crashes, schedules or people.
* `Drills`: a drill that runs goes on, a container that stopped is started, and each drill is started
  on its schedule again and again, though another may have the lock then (hence strong).
* `Kit`: placing processes go on, backups recur, workers make their passes, an outage and a closed
  window end; a backup waiting for the kit lock gets it, as other placements are far apart and the
  daemon's does not wait. Faults are bounded, so `KitArrives` is about what follows the last of them.

## Proofs

Every safety property of the runs is a theorem of the module's `Spec` (`Drills`' and `Container`'s of
`Drill!Spec` and `Box!Spec`), for every value of the constants that the `ASSUME`s allow: any readers, storages, services, callers and
commands, and any bound on revisions, faults and kills. The assumptions say that
values do not coincide, that bounds are numbers, that the groups partition the services, and that a storage's
finitely many revisions have a newest. Hardly any of the properties is inductive alone: each
comes from a stronger invariant, which TLC checked on the run's instance before it was proved. A proof has a lemma per
action, or per part of the invariant with a step per action, and a temporal theorem that puts them
together.

* `InUseProofs!InUseSafe`: `Spec => []InUseKept`, with `Typing` for `TypeOK`. `IndInv` adds: who holds a
  gate (`GateInv`); that a reader between listing and registering holds it (`ReaderInv`); that a
  registration covers what its reader needs (`CoverInv`); that a copy worker's registration covers
  whatever duplicacy may find when it lists local for itself, later (`CopyInv`: "this and newer" for what
  backups add, and `f[i]`, the newest listed, never past local's newest for an ID still backed up); that a
  plan made under the gate touches nothing registered, and leaves each ID of the primary its newest
  (`PlanInv`, which `CopyInv` needs); and that forget goes to the primary first and only for retired IDs
  (`ForgetInv`, the same).
* `InUseTargetDeletesOnlyPruned`, `InUseNewestKept` and `InUseNoRecopy` rest on `IndInv` and two parts more.
  `MirrorInv` is about plans made from two listings: local never lags behind a target for an ID still
  backed up, what is planned is on the target and no longer on local, and the target keeps something newer
  of each ID. `GoneInv`: local has nothing of an ID that is forgotten or that forget has left it behind
  for. That a set of revisions has a newest is an instance of well-foundedness (`Least`).
* `BackupProofs!BackupOwedRecorded`, `BackupStateKept`, `BackupPreHookOnce`, with `BackupTyping`. `IndInv`
  relates a service's step in this run to its record (`Tracks`), its step to the run's (`Phases`)
  and says that one service of a group is active at a time (`Alone`); the properties themselves complete it.
  They hold for what is owed and not given up: a debt leaves the record only as it ends in one of the two ways.
  `BackupShutdownResumes` adds `OnRecord`: from its start to its finish a run has every service on record,
  and it says it is completed only if the primary is lost or all services had their turn.
* `RunControlProofs`: `PausedFrozen`, `FrozenPaused`, `CleanupRuns` and `OneCheck`. `ControlInv` says that the
  kernel lock has one holder and the lock file is its holder's until released (`OneHolder`, `Own`), that
  the edit lock is kept by a pause on its way to its signal, whose run is the one on file unless it
  `crossed` over to a later one (`Editing`, `Freezing`), and that with a cleanup on file no signal is on its
  way (`Cleaning`), which is why `CleanupRuns` holds whichever run the pause had read of.
* `CopyWorkerProofs`: `PauseHolds`, `CheckGivesWay`, `WindowHolds`, `IdleCaughtUp`, and `StopHolds` with the
  hypothesis `~ HasWindow`, since with a window it does not hold (below). All rest on two counts. Whatever
  stops a pass raises the worker's count past the pass's own, so a command only compares them as it starts
  (`StopInv`, `WindowInv`). And a change of local that a listing missed is on its way to the worker
  (`Pending`), so what a listing said holds or will be asked again (`ListInv`; `RecountInv` for a count that
  ends late).
* `RestoreProofs`: `Excludes` is the refinement of `ServiceGate`, initial states and then step by step. `GateInv`
  says who has the restore lock's file, dead or alive (`Locked`), that the lock has one holder, and that
  while a backup saves, a restore has the lock at most to look for it (`OneBackup`): that is why looking
  after locking, on both sides, is enough. `RecoverNewest` needs only what a recovery knows at each of its
  steps (`RecoverInv`); `OutKept` needs that one recovery writes, one that marked the directory or found its
  own mark, and that what the mark says is all the directory holds (`OutInv`).
* The container, in `CopyWorkerProofs`: `StopSticks`, `EndsClean`, `GracefulStop`, with `ContainerTyping`. A worker
  runs only in a daemon that serves, and no daemon outlives its container (`Housed`); what a stop has left
  quiet has no run that could wake a worker (`Rested`), and the stop's last look at the workers comes
  after the backup has gone, which gives `StopSticks`. The mark of a shutdown is gone once a container is
  up (`Marked`), so `finish` there keeps no record: `EndsClean`. `GracefulStop` is `Waited`'s look at the
  locks, if nobody is told to stop after it: the shutdown's stop is over when the wait begins, and a run
  that begins later was told nothing (`Told`); and the copies end before the daemon's socket closes.
* The drills, in `RestoreProofs`: `CopiesKnown`, `SelectionFinished` and `DueKept`, with `DrillsTyping`. Typing is
  the hard part: `Make` has a directory to make only because there are no more than the faults used up can
  have left (`FewDirs`), and a drill between its choice of services and the last of them has a storage and a
  service at hand (`AtHand`). `CopiesKnown` needs that an interrupted drill's copies are deleted or given
  up before its record is replaced (`Cleared`). `SelectionFinished`: what is owed of a turn is covered and
  pending (`OwedPending`), the named drill works at the storage whose turn it is (`AtTurn`), and both the
  next selection and the end of a turn look for an empty list. `DueKept` needs in addition that no list
  names a service twice, or a first result would leave a second due one behind (`PendingOnce`), and that
  what is picked and not yet restored is pending (`PickedPending`). What filtering, joining and rotating a
  list keep are lemmas (`FilteredFacts`, `JoinFacts`, `RotatedFacts`).
* `KitProofs`: `CurrentTrue`, `PrimaryVouched` and `KitsGrow`. One placement is inside the lock (`OneInside`); what
  it sends is the newest kit there is, and what it counts as placed or unsure holds just that (`Sent`);
  the backup's has the primary in its plan from the moment it asked (`Promise`). `RecordHeld` and
  `VouchKept` are what the first two say of the versions held, and need no premise. Until a new password
  crosses a placement, each placement has read both halves under one password, so whatever it made or placed
  opens (`SealInv`).
* `MaintenanceProofs`: `CacheTrue` and `FossilsKept`. The identities file is right about every cache, from before
  the cache is made until after it has gone (`Identified`); a run that has written it works for just those
  URLs (`InRun`); a collection is in the cache before it leaves the service repository (`TakenFirst`).
* `IncidentsProofs`: `HeardOwed`, `InOrder` and `OverOnlyToTold`. Whoever an alert may yet reach is on the record
  of its incident, also when a claim has run out and others have sent since (`Meaning`). While no send has
  outlasted its claim there is one sender, of what the record says (`OneSender`), so what the record says of
  those told is true (`Reached`).

Proving changed three definitions. `CleanupRuns` and `IdleCaughtUp` turned out to hold under weaker
premises than the runs first gave them, and are now stated so: a cleanup is safe also from a pause that
crossed over, and an idle worker's count is right also while a recount goes on. And a named drill or one by hand adds to
the whole pending list, as `pick` does: only the rotation's `pick` first drops what it no longer covers.
(A named drill drops that before it picks, `internal/restore/drill.go:262-264`; with the constant services of
`Drills` there is nothing to drop.) `KitsGrow` came out of the invariant of `Kit`.

Model-checked only: the liveness properties (`CatchesUp`, `HooksUndone`, `AlertArrives`, `Settles`, `StopEnds`,
`Resumes`, `Covers`, `KitArrives`), since the prover has no rule for fairness and `ENABLED`.

## Known disagreements

Statements of the repository that the code does not keep. Each has a property and a small instance
beside the runs, kept out of them; `tlc -config <name>.cfg <module>` prints the behaviour.

1. `InUseOrphan` (`MCInUse`, `InUseKept`): "a prune holds the gate exclusively from reading the registry
   until its deletions are done" (`internal/inuse/inuse.go:7-8`), but the gate's lock is not handed to
   the duplicacy that maintenance starts (`internal/localprune/run.go:87-102`). Maintenance killed alone
   leaves a prune deleting with the gate open.
2. `InUseForget` (`MCInUse`, `ForgottenGone`): "Every storage is listed before anything goes, so the plan
   shown is the whole of it" (`internal/forget/forget.go:84`), but a copy under way brings the ID to a
   storage that had none, and nothing removes it there.
3. `WorkerStopLost` (`MCCopyWorker`, `StopHolds`): "a stop wins wherever it lands"
   (`internal/copier/worker.go:149-150`), but between a pass's check of it and `outsideWindow` (line 424)
   it is overwritten by "held", and the worker copies by itself when the window opens.
4. `BackupCut` (`MCBackup`, `CutShortFirst`): "finished, however it went, unless a stop cut it short (then
   it is first next time)" (`internal/pipeline/backup.go:672-673`), but a stop during `duplicacy init`
   counts as the service's failure and it is recorded as finished.
5. `BackupOutage` (`MCBackup`, `ShutdownKeepsRecord`): "A stop for a container shutdown keeps the record"
   (`internal/pipeline/backup.go:1665-1666`), but with the primary down the run is recorded completed
   though services had no turn.
6. `IncidentLost` (`MCIncidents`, `RecoveryReaches`): a recovery goes "wherever the incident went"
   (`internal/notify/incident.go:94`), but not to a destination whose alert arrived without being recorded
   as arrived, if the condition ends before the next raise.
7. `RunControlStop` (`MCRunControl`, `StopAlwaysEnds`): "a stop resumes and ends whatever runs"
   (`internal/runlock/runlock.go:177`), but a pause recorded just after the stop saw the run unpaused
   freezes a backup's hook, and the run then waits for it until somebody resumes it.
8. `BackupGivenUp` (`MCBackup`, `PostHookNext`): "On start, Archiver first runs the post-backup hook of each
   service interrupted between its hooks" (`docs/adr/0046-interrupted-runs-resume.md:31-32`), but with hooks
   that cannot be read (`internal/pipeline/backup.go:257-258`), a hook that is gone or does not start (263), or
   a directory not configured now (250-254), the service is recorded as pending all the same (252, 268), and
   no later run tries again. What the pre hook stopped stays stopped; a message says to look.
9. `KitTorn` (`MCKit`, `CurrentOpens`): "To rotate it, replace the secret file and update your password manager
   — the next backup re-encrypts and re-uploads everywhere automatically" (`docs/recovery.md:15`), but a
   placement takes the password before it waits for the kit lock (`internal/kit/kit.go:104-114`) and the
   payload and its fingerprint after (123-140). A kit sealed with the old password (390) is then recorded
   under the new configuration, and no later placement sends it again unless forced. `CurrentOn` reports it as
   "the kit for the configuration as it is now" (297).

Met while modelling, without a run of their own: `writePrivate` removes a recovery's mark before it
writes it anew, so a kill in between has the same kit refused (`internal/restore/recover.go:72-74` says
it is not); a kill between the write and the unlink of an adopted fossil collection has it processed
twice (`internal/maintenance/repo.go:129`); a kit placed by a run killed before `writeState` is not what
`CurrentOn` reports if the configuration is then put back; the step `kitWhenBack` gives way to need not
cover the storage (`cmd/archiver/workers.go:224-225`), since a backup's may have skipped it; `kitExecute`
reports after the kit lock is let go, so a "current everywhere" may clear what a later placement raised.

## Not modelled

* The registry's files: its locks, renames and stale files are one atomic step in `InUse`.
* In `CopyWorker`: backoff times, check-ins, the state file's contents beyond status and count.
* In `Backup`: pauses, the copies and kit of a run without workers, statistics, a record that cannot
  be written, a hook state directory that cannot be made, hooks that come and go for a service that is
  not owed one.
* In `Incidents`: kinds, titles and texts; a record that cannot be read or written; several keys.
* In `RunControl`: `--immediate`, commands killed halfway, lock files that cannot be read.
* In `InUse`: forget removes an ID's whole directory, the model what the listing had of it; the difference is
  what arrived in between, which `InUseForget` is about.
* In `Container`: a backup refused while a restore has its lock (`internal/pipeline/backup.go:155-166`), after
  which a catch-up waits for the schedule or the next start of the container; deep checks and drills as jobs (their records and stops are as maintenance's), runs
  killed on their own, a start the configuration refuses.
* In `Drills`: what a restore compares; a run record replaced by another drill's.
* In `Maintenance`: which fossils and chunks duplicacy prune collects; a storage taken out of the
  configuration, whose cache is cleared likewise, is not told apart from one that has changed.
* In `Restore`: two recoveries at once into one directory (nothing locks it), the prompts, the
  verification of restored files; guards that take longer than their limit; that a recovery's restores
  take `DRY_RUN` and `RESTORE_PATHS` from the `archiver.env` it has recovered (`internal/restore/recover.go:217`,
  241-242) and that it makes a missing service directory before its guard (219-228).
* In `Kit`: a configuration put back to an earlier one, changed targets (one whose URL changes while a
  placement waits is recorded like the kit of `KitTorn`), no recovery password at all, uploads that outlive their
  process, the kit drills (`internal/kit/drill.go`) and diagnosis.
* Deep check's verdicts and resume; configuration, envelope, rendering, metrics, logs, setup: text and
  views, no protocol.

## Plan

Models: `Registry`, `inuse` at the grain of files and locks, shown to implement the atomic registry of
`InUse`, with the proof; the deep check's run; kit drills; pure operators (the local prune's split, `groupServices`, backup
health) against reference definitions.
