------------------------------ MODULE Restore ------------------------------
(* The restore commands: auto-restore, auto-restore-all, the interactive      *)
(* restore and the guided recovery from a kit, each a process that may be     *)
(* killed, beside the backups they must not meet in a service directory.      *)
(*                                                                            *)
(* A restore into a service directory takes the restore lock (an flock) and   *)
(* then looks for a live backup; a backup takes its own lock and then probes  *)
(* the restore lock.  The lock's file is passed on to the duplicacy a restore *)
(* runs and to the guard of its hook, so it is held by whatever of a killed   *)
(* restore still writes.  Storages answer or do not, as they please.          *)
EXTENDS ConfiguredServices, Sequences, FiniteSets, FiniteSetsExt

CONSTANTS
    Commands,   \* restore processes
    Backups,    \* backup processes
    Stored,     \* Stored[t][s]: the revisions of service s that storage t holds
    Kits,       \* recovery kits an operator may have at hand
    OldKits,    \* those made before a kit listed its services
    NFiles      \* a kit is copied to the recovery's directory as the files 1..NFiles

Targets == 1..Len(Stored)

\* A destination that is, holds and lies in no service directory.
Elsewhere == 0

\* Where nothing works.
Nowhere == NServices + 1

Files == 1..NFiles

ASSUME RestoreAssumption ==
    /\ NServices \in Nat \ {0} /\ NFiles \in Nat
    /\ Stored \in Seq([Services -> SUBSET (Nat \ {0})])
    /\ \A t \in Targets, s \in Services : \* they are finitely many
          Stored[t][s] # {} => \E r \in Stored[t][s] : \A q \in Stored[t][s] : q <= r
    /\ Commands \cap Backups = {}
    /\ OldKits \subseteq Kits /\ Kits \cap {"absent", "part"} = {}

VARIABLES
    cmd,    \* a restore process: where it is, what it restores, what it holds
    child,  \* the directory its duplicacy restores, or Nowhere; outlives it
    inherited, \* that duplicacy has the restore lock's file
    guard,  \* its hook's guard: "none", "starting", "running" or "ending"
    hook,   \* the directory its hook's process group works on, or Nowhere
    backup, \* a backup process
    out     \* the recovery's directory: the mark and the files

vars == <<cmd, child, inherited, guard, hook, backup, out>>

Quiet == [pc |-> "idle", kind |-> "none", todo |-> <<>>, left |-> <<>>, want |-> 0,
          answered |-> FALSE, held |-> FALSE, failed |-> FALSE, kit |-> "none",
          listed |-> [s \in Services |-> 0], from |-> [s \in Services |-> 0],
          got |-> [s \in Services |-> 0], code |-> "none"]

Init ==
    /\ cmd = [c \in Commands |-> Quiet]
    /\ child = [c \in Commands |-> Nowhere]
    /\ inherited = [c \in Commands |-> FALSE]
    /\ guard = [c \in Commands |-> "none"]
    /\ hook = [c \in Commands |-> Nowhere]
    /\ backup = [b \in Backups |-> "idle"]
    /\ out = [mark |-> "absent", files |-> [f \in Files |-> "absent"]]

-----------------------------------------------------------------------------
(* Locks                                                                      *)

Ended == {"idle", "done", "dead"}

Live(c) == cmd[c].pc \notin Ended

\* Everything of c that has the lock's open file: itself, its duplicacy, the guard.
HoldsLock(c) ==
    \/ Live(c) /\ cmd[c].held
    \/ child[c] # Nowhere /\ inherited[c]
    \/ guard[c] # "none" /\ inherited[c]

\* runlock.Hold succeeds: no open file of another holds the flock.  A backup's probe
\* has it from its own Hold to its Close.
LockFree ==
    /\ \A c \in Commands : ~ HoldsLock(c)
    /\ \A b \in Backups : backup[b] # "probing"

\* A backup's lock file names a process that is alive.
backupRunning == \E b \in Backups : backup[b] \in {"locked", "probing", "saving"}

-----------------------------------------------------------------------------
(* Backups, as far as restores see them                                       *)

BackupLock(b) ==
    /\ backup[b] = "idle"
    /\ ~ backupRunning
    /\ backup' = [backup EXCEPT ![b] = "locked"]
    /\ UNCHANGED <<cmd, child, inherited, guard, hook, out>>

\* Probed with the backup lock held; refused while a restore has its lock.
BackupProbe(b) ==
    /\ backup[b] = "locked"
    /\ backup' = [backup EXCEPT ![b] = IF LockFree THEN "probing" ELSE "idle"]
    /\ UNCHANGED <<cmd, child, inherited, guard, hook, out>>

BackupProceed(b) ==
    /\ backup[b] = "probing"
    /\ backup' = [backup EXCEPT ![b] = "saving"]
    /\ UNCHANGED <<cmd, child, inherited, guard, hook, out>>

\* It ends, or is killed at any point: either way its lock no longer counts.  A program a
\* killed backup leaves running has neither lock and is not seen by anyone.
BackupEnd(b) ==
    /\ backup[b] # "idle"
    /\ backup' = [backup EXCEPT ![b] = "idle"]
    /\ UNCHANGED <<cmd, child, inherited, guard, hook, out>>

-----------------------------------------------------------------------------
(* Starting a command                                                         *)

\* The fields of r, and what q has besides.
Over(r, q) == [f \in DOMAIN r \cup DOMAIN q |-> IF f \in DOMAIN r THEN r[f] ELSE q[f]]

\* c's record with the fields of r replaced.
With(c, r) == cmd' = [cmd EXCEPT ![c] = Over(r, @)]

\* The process is gone.  What it was restoring names the directory of the hook it may have
\* left starting.
Gone(c) == Over([pc |-> "dead", todo |-> cmd[c].todo], Quiet)

\* It returns its exit code, letting the restore lock go.
Done(c, code) ==
    IF cmd[c].kind = "recover"
    THEN Over([pc |-> "done", kind |-> "recover", kit |-> cmd[c].kit, code |-> code,
               listed |-> cmd[c].listed, got |-> cmd[c].got], Quiet)
    ELSE Over([pc |-> "done"], Quiet)

\* What a command line starts as: its directories, and the revision asked for (0: latest).
Asked(kind, todo, left, want) ==
    Over([pc |-> "next", kind |-> kind, todo |-> todo, left |-> left, want |-> want], Quiet)

AllTargets == [t \in Targets |-> t]

EveryService == [s \in Services |-> s]

\* auto-restore: SNAPSHOT_ID's service into its directory or elsewhere, from every storage or
\* the one STORAGE_TARGET names, the latest revision or the one REVISION names.
AutoRequests ==
    {Asked("one", <<d>>, left, r) :
        d \in {Elsewhere} \cup Services, left \in {AllTargets} \cup {<<t>> : t \in Targets},
        r \in {0} \cup UNION {Stored[t][s] : t \in Targets, s \in Services}}

\* The interactive restore's answers: a storage, and one of the revisions it listed.
InteractiveRequests ==
    UNION {{Asked("one", <<s>>, <<t>>, r) : r \in Stored[t][s]} :
              s \in Services, t \in Targets}

AllRequest == Asked("all", EveryService, <<>>, 0)

Fresh(c) == cmd[c].pc \in Ended /\ child[c] = Nowhere /\ guard[c] = "none"

\* Refused with the busy code while a backup runs; the questions of an interactive restore
\* come after this look, the guard's own look after them.
Start(c) ==
    /\ Fresh(c)
    /\ ~ backupRunning
    /\ \E r \in AutoRequests \cup InteractiveRequests \cup {AllRequest} :
          cmd' = [cmd EXCEPT ![c] = r]
    /\ UNCHANGED <<child, inherited, guard, hook, backup, out>>

-----------------------------------------------------------------------------
(* The guided recovery, up to its restores                                    *)

Recovering(c) == Live(c) /\ cmd[c].kind = "recover"

\* Step 1: the kit opens.  No look for a backup yet: the guard makes it.  Nothing locks the
\* directory a recovery writes: one recovery at a time is the operator's part.
RecoverBegin(c) ==
    /\ Fresh(c)
    /\ \A d \in Commands : ~ Recovering(d)
    /\ \E k \in Kits :
          cmd' = [cmd EXCEPT ![c] = Over([pc |-> "out", kind |-> "recover", kit |-> k], Quiet)]
    /\ UNCHANGED <<child, inherited, guard, hook, backup, out>>

OutEmpty == out.mark = "absent" /\ \A f \in Files : out.files[f] = "absent"

\* Mutant of OutAccepts: a directory without a mark counts as a fresh one.
OutAcceptsUnmarked(k) == out.mark \in {"absent", k}

\* An empty directory, or one marked as a recovery of this very kit.
OutAccepts(k) == OutEmpty \/ out.mark = k

\* Step 2 begins: anything else there is never overwritten.
RecoverOut(c) ==
    /\ cmd[c].pc = "out"
    /\ With(c, IF OutAccepts(cmd[c].kit) THEN [pc |-> "unmark"] ELSE Done(c, "notfound"))
    /\ UNCHANGED <<child, inherited, guard, hook, backup, out>>

\* writePrivate of the mark, before anything is copied: the entry there is removed, a new
\* one created, and the contents hash written.
MarkSteps(k) == [unmark |-> <<"absent", "create">>, create |-> <<"part", "write">>,
                 write |-> <<k, "copy">>]

RecoverMark(c) ==
    /\ cmd[c].pc \in DOMAIN MarkSteps("none")
    /\ LET step == MarkSteps(cmd[c].kit)[cmd[c].pc] IN
          /\ out' = [out EXCEPT !.mark = step[1]]
          /\ With(c, [pc |-> step[2], left |-> [f \in Files |-> f]])
    /\ UNCHANGED <<child, inherited, guard, hook, backup>>

\* copyPrivate, file after file: each is removed and written anew.
RecoverCopy(c) ==
    /\ cmd[c].pc \in {"copy", "fill"} /\ cmd[c].left # <<>>
    /\ LET f == Head(cmd[c].left) IN
          \/ /\ cmd[c].pc = "copy"
             /\ out' = [out EXCEPT !.files[f] = "part"]
             /\ With(c, [pc |-> "fill"])
          \/ /\ cmd[c].pc = "fill"
             /\ out' = [out EXCEPT !.files[f] = cmd[c].kit]
             /\ With(c, [pc |-> "copy", left |-> Tail(cmd[c].left)])
    /\ UNCHANGED <<child, inherited, guard, hook, backup>>

\* Step 3, and the configuration read from the copy; either may fail.
RecoverKeys(c) ==
    /\ cmd[c].pc = "copy" /\ cmd[c].left = <<>>
    /\ \/ With(c, [pc |-> "list", left |-> AllTargets])
       \/ With(c, Done(c, "notfound"))
    /\ UNCHANGED <<child, inherited, guard, hook, backup, out>>

Newest(t, s) == Max(Stored[t][s] \cup {0})

\* Step 4, storage after storage: one that cannot be read is passed over, and of what the
\* others hold each service's newest revision is kept, with where it is.
RecoverList(c) ==
    /\ cmd[c].pc = "list" /\ cmd[c].left # <<>>
    /\ LET t == Head(cmd[c].left)
            newer == {s \in Services : Newest(t, s) > cmd[c].listed[s]}
       IN \/ With(c, [left |-> Tail(cmd[c].left)])
          \/ With(c, [left |-> Tail(cmd[c].left),
                      listed |-> [s \in Services |->
                                    IF s \in newer THEN Newest(t, s) ELSE cmd[c].listed[s]],
                      from |-> [s \in Services |-> IF s \in newer THEN t ELSE cmd[c].from[s]]])
    /\ UNCHANGED <<child, inherited, guard, hook, backup, out>>

\* placeRecorded: a kit lists the services; those no readable storage holds are missing.
placeRecorded(found) == {[todo |-> found, missing |-> Services \ found]}

\* Without the list they are found from the snapshots: a name that may be another host's is
\* left for a person (placeServices), and only what SERVICE_DIRECTORIES names literally is
\* missed (missingLiterals).
placeServices(found) == [todo : SUBSET found, missing : SUBSET (Services \ found)]

\* The services of S, one after the other in the order of their numbers.
InTurn(S) ==
    {q \in UNION {[1..n -> S] : n \in 0..NServices} :
        /\ \A s \in S : \E i \in DOMAIN q : q[i] = s
        /\ \A i, j \in DOMAIN q : i < j => q[i] < q[j]}

\* The host's snapshots that are restored; what is left out fails the recovery.
Plans(c) ==
    LET found == {s \in Services : cmd[c].listed[s] > 0}
    IN  UNION {{[pc |-> "next", todo |-> q, failed |-> p.todo # found \/ p.missing # {}] :
                  q \in InTurn(p.todo)} :
            p \in IF cmd[c].kit \in OldKits THEN placeServices(found) ELSE placeRecorded(found)}

\* Step 5 begins, if the operator agrees.
RecoverPlan(c) ==
    /\ cmd[c].pc = "list" /\ cmd[c].left = <<>>
    /\ \E p \in Plans(c) :
          \/ p.todo # <<>> /\ With(c, p)
          \/ p.todo # <<>> /\ With(c, Done(c, "declined"))
          \/ p.todo = <<>> /\ With(c, Done(c, "notfound"))
    /\ UNCHANGED <<child, inherited, guard, hook, backup, out>>

-----------------------------------------------------------------------------
(* Restoring one directory after another                                      *)

\* The service whose snapshots a destination gets.
Source(d) == IF d = Elsewhere THEN 1 ELSE d

\* Mutant of Wanted: a recovery restores whatever is newest where it ends up reading.
WantedLatest(c, s) == IF cmd[c].kind \in {"all", "recover"} THEN 0 ELSE cmd[c].want

\* A recovery wants the revision it planned, auto-restore-all the latest.
Wanted(c, s) ==
    CASE cmd[c].kind = "recover" -> cmd[c].listed[s]
      [] cmd[c].kind = "all" -> 0
      [] OTHER -> cmd[c].want

\* The storages to try: a recovery starts with the one it found the newest on.
TryOrder(c, s) ==
    CASE cmd[c].kind = "recover" ->
            <<cmd[c].from[s]>> \o SelectSeq(AllTargets, LAMBDA t : t # cmd[c].from[s])
      [] cmd[c].kind = "all" -> AllTargets
      [] OTHER -> cmd[c].left

NextService(c) ==
    /\ cmd[c].pc = "next" /\ cmd[c].todo # <<>>
    /\ LET s == Head(cmd[c].todo) IN
          With(c, [pc |-> "guard", answered |-> FALSE, want |-> Wanted(c, s), left |-> TryOrder(c, s)])
    /\ UNCHANGED <<child, inherited, guard, hook, backup, out>>

\* A command over several services goes on after one that failed; it lets the lock go at
\* its end, and fails if one did.
Served(c, code) ==
    IF cmd[c].kind = "one"
    THEN Done(c, code)
    ELSE [pc |-> "next", todo |-> Tail(cmd[c].todo), left |-> <<>>,
          failed |-> cmd[c].failed \/ code # "ok"]

Finish(c) ==
    /\ cmd[c].pc = "next" /\ cmd[c].todo = <<>>
    /\ With(c, Done(c, IF cmd[c].failed THEN "notfound" ELSE "ok"))
    /\ UNCHANGED <<child, inherited, guard, hook, backup, out>>

\* guard: nothing to take when the lock is held from an earlier directory; outside the
\* service directories only a look for a backup; else the restore lock first.
Guard(c) ==
    /\ cmd[c].pc = "guard"
    /\ With(c, CASE cmd[c].held -> [pc |-> "connect"]
                 [] Head(cmd[c].todo) = Elsewhere ->
                       IF backupRunning THEN Served(c, "busy") ELSE [pc |-> "connect"]
                 [] OTHER ->
                       IF LockFree THEN [pc |-> "look", held |-> TRUE] ELSE Served(c, "busy"))
    /\ UNCHANGED <<child, inherited, guard, hook, backup, out>>

\* Then the look for a backup, with the lock held.
Look(c) ==
    /\ cmd[c].pc = "look"
    /\ With(c, IF backupRunning THEN Over([held |-> FALSE], Served(c, "busy"))
                                ELSE [pc |-> "connect"])
    /\ UNCHANGED <<child, inherited, guard, hook, backup, out>>

\* pick: the newest revision, or the one asked for if the storage has it; 0 for none.
pick(t, s, want) ==
    CASE want = 0 -> Newest(t, s)
      [] want \in Stored[t][s] -> want
      [] OTHER -> 0

\* The next storage cannot be connected or listed, or has no such revision.
Passed(c) ==
    /\ cmd[c].pc = "connect" /\ cmd[c].left # <<>>
    /\ \/ With(c, [left |-> Tail(cmd[c].left)])
       \/ /\ pick(Head(cmd[c].left), Source(Head(cmd[c].todo)), cmd[c].want) = 0
          /\ With(c, [left |-> Tail(cmd[c].left), answered |-> TRUE])
    /\ UNCHANGED <<child, inherited, guard, hook, backup, out>>

\* None is left to try.
Exhausted(c) ==
    /\ cmd[c].pc = "connect" /\ cmd[c].left = <<>>
    /\ With(c, Served(c, IF cmd[c].answered THEN "notfound" ELSE "unreachable"))
    /\ UNCHANGED <<child, inherited, guard, hook, backup, out>>

\* Mutant of Inherited: the lock's file is not passed on.
InheritedNot(c) == FALSE

\* inherit, and Guarded's lock: what a restore starts gets the lock's file if it has it.
Inherited(c) == cmd[c].held

\* The storage has it: duplicacy restores it into the directory.
Restore(c) ==
    /\ cmd[c].pc = "connect" /\ cmd[c].left # <<>>
    /\ LET d == Head(cmd[c].todo)
            r == pick(Head(cmd[c].left), Source(d), cmd[c].want)
       IN /\ r # 0
          /\ With(c, [pc |-> "restore", want |-> r])
          /\ child' = [child EXCEPT ![c] = d]
          /\ inherited' = [inherited EXCEPT ![c] = Inherited(c)]
    /\ UNCHANGED <<guard, hook, backup, out>>

\* duplicacy ends.  A live restore takes its result: a failure ends this directory without
\* trying another storage; a success is followed by the hook, if asked for.
RestoreEnd(c) ==
    /\ child[c] # Nowhere
    /\ child' = [child EXCEPT ![c] = Nowhere]
    /\ LET d == Head(cmd[c].todo)
            kept == [got |-> IF cmd[c].kind = "recover"
                             THEN [cmd[c].got EXCEPT ![d] = cmd[c].want] ELSE cmd[c].got]
       IN \/ Live(c) /\ With(c, Served(c, "notfound")) /\ UNCHANGED <<inherited, guard>>
          \/ Live(c) /\ With(c, Over(Served(c, "ok"), kept)) /\ UNCHANGED <<inherited, guard>>
          \/ /\ Live(c)
             /\ With(c, Over([pc |-> "hook"], kept))
             /\ guard' = [guard EXCEPT ![c] = "starting"]
             /\ inherited' = [inherited EXCEPT ![c] = Inherited(c)]
          \/ ~ Live(c) /\ UNCHANGED <<cmd, inherited, guard>>
    /\ UNCHANGED <<hook, backup, out>>

-----------------------------------------------------------------------------
(* The restore hook under its guard                                           *)

\* The guard starts the hook in a process group of its own, without the lock's file.  Its
\* restore's death may have come before the guard listened for it, which ends it, or after.
HookStart(c) ==
    /\ guard[c] = "starting"
    /\ \/ /\ guard' = [guard EXCEPT ![c] = "running"]
          /\ hook' = [hook EXCEPT ![c] = Head(cmd[c].todo)]
          /\ UNCHANGED cmd
       \/ /\ Live(c) \* it cannot be run
          /\ guard' = [guard EXCEPT ![c] = "none"]
          /\ With(c, Served(c, "notfound"))
          /\ UNCHANGED hook
       \/ /\ ~ Live(c)
          /\ guard' = [guard EXCEPT ![c] = "none"]
          /\ UNCHANGED <<cmd, hook>>
    /\ UNCHANGED <<child, inherited, backup, out>>

\* The hook exits while its restore lives: the guard hands its exit code on.
HookEnd(c) ==
    /\ guard[c] = "running" /\ Live(c)
    /\ guard' = [guard EXCEPT ![c] = "none"]
    /\ hook' = [hook EXCEPT ![c] = Nowhere]
    /\ \E code \in {"ok", "notfound"} : With(c, Served(c, code))
    /\ UNCHANGED <<child, inherited, backup, out>>

\* The restore is dead: SIGKILL to the hook's group.
GuardKill(c) ==
    /\ guard[c] = "running" /\ ~ Live(c)
    /\ guard' = [guard EXCEPT ![c] = "ending"]
    /\ UNCHANGED <<cmd, child, inherited, hook, backup, out>>

\* The hook's group is gone, by the guard's kill or by itself.
HookGone(c) ==
    /\ hook[c] # Nowhere /\ ~ Live(c)
    /\ hook' = [hook EXCEPT ![c] = Nowhere]
    /\ UNCHANGED <<cmd, child, inherited, guard, backup, out>>

\* Only then does the guard exit, and the lock with it.
GuardExit(c) ==
    /\ guard[c] = "ending" /\ hook[c] = Nowhere
    /\ guard' = [guard EXCEPT ![c] = "none"]
    /\ UNCHANGED <<cmd, child, inherited, hook, backup, out>>

-----------------------------------------------------------------------------
\* A restore killed wherever it is; what it started is not.
Kill(c) ==
    /\ Live(c)
    /\ With(c, Gone(c))
    /\ UNCHANGED <<child, inherited, guard, hook, backup, out>>

Step(c) ==
    \/ Start(c) \/ RecoverBegin(c) \/ RecoverOut(c) \/ RecoverMark(c) \/ RecoverCopy(c)
    \/ RecoverKeys(c) \/ RecoverList(c) \/ RecoverPlan(c)
    \/ NextService(c) \/ Finish(c) \/ Guard(c) \/ Look(c) \/ Passed(c) \/ Exhausted(c)
    \/ Restore(c) \/ RestoreEnd(c)
    \/ HookStart(c) \/ HookEnd(c) \/ GuardKill(c) \/ HookGone(c) \/ GuardExit(c) \/ Kill(c)

BackupStep(b) == BackupLock(b) \/ BackupProbe(b) \/ BackupProceed(b) \/ BackupEnd(b)

Next == (\E c \in Commands : Step(c)) \/ (\E b \in Backups : BackupStep(b))

Spec == Init /\ [][Next]_vars

-----------------------------------------------------------------------------
(* Properties                                                                 *)

\* At work on a service directory: a backup past its probe; a restore past its look, its
\* duplicacy or its hook, whether the restore itself still lives or not.
AtWork ==
    {b \in Backups : backup[b] = "saving"}
    \cup {c \in Commands : child[c] \in Services \/ hook[c] \in Services
                            \/ (Live(c) /\ cmd[c].held /\ cmd[c].pc # "look")}

Gate == INSTANCE ServiceGate WITH Actors <- Commands \cup Backups, working <- AtWork

\* The commands implement ServiceGate: whatever the interleaving and whichever restore is
\* killed, a backup saves no service directory that a restore, what its duplicacy still
\* writes or what its hook still runs is changing, and no two restores change them at once
\* (guard; the backup's probe; inherit; the hook's guard).
Excludes == Gate!Spec

\* A recovery that reports every service restored has restored, of each it knows of, the
\* newest revision that any storage it could read held when it checked them, and it knows
\* of every service its kit lists: a storage lost since fails the service and no older copy
\* takes its place (Recover's steps 4 and 5).
RecoverNewest ==
    \A c \in Commands :
        cmd[c].kind = "recover" /\ cmd[c].code = "ok" =>
            \A s \in Services : /\ cmd[c].got[s] = cmd[c].listed[s]
                                /\ cmd[c].kit \notin OldKits => cmd[c].got[s] # 0

\* A file recovered from a kit is only ever replaced by a recovery of the same kit,
\* however the recoveries before it were cut short (Recover's step 2).
OutKept ==
    [][\A f \in Files : out.files[f] \in Kits /\ out'.files[f] # out.files[f] =>
          \E c \in Commands : Recovering(c) /\ cmd[c].kit = out.files[f]]_vars
=============================================================================
