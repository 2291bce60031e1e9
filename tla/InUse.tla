-------------------------------- MODULE InUse --------------------------------
(***************************************************************************)
(* Revisions in use (ADR 19): the readers of a storage (copy workers,      *)
(* restores, drills, key probes, deep checks) register the revisions they  *)
(* need in internal/inuse, and whatever deletes revisions (the local       *)
(* prune, a target's mirror pass, `archiver forget`) leaves those alone.   *)
(*                                                                         *)
(* A storage is the set of its snapshot files, pairs <<id, revision>>.     *)
(* The registry is taken as atomic; its files and their locks are left     *)
(* out.  Each storage has a gate, an flock: shared for a reader listing    *)
(* and registering, exclusive for a deleter.                               *)
(***************************************************************************)
EXTENDS MirrorPlan

CONSTANTS
    Primary,      \* the primary storage
    Targets,      \* the others; each has one copy worker, named for its target
    IDs,          \* snapshot IDs
    Configured,   \* those of services still backed up; the rest are retired
    AnyID,        \* inuse's "*": every ID the same registration does not name
    Restores,     \* names of restores, drills, doctor key probes, deep checks
    Drills,
    Doctors,
    DeepChecks,
    Forget,       \* the deleter behind `archiver forget`
    Nobody,       \* who holds an open gate
    MaxRev        \* bound: no ID is backed up past this revision

Retired  == IDs \ Configured
Storages == {Primary} \cup Targets
Others   == Restores \cup Drills \cup Doctors \cup DeepChecks
Readers  == Targets \cup Others
\* A storage's own name is its regular deleter: the local prune on the
\* primary, the mirror pass of its copy worker on a target.
Deleters == Storages \cup {Forget}
Rev      == IDs \X (1..MaxRev)
Entry    == [id : IDs \cup {AnyID}, rev : 0..(MaxRev + 1), newer : BOOLEAN]

ASSUME ConstantsAssumption ==
    /\ MaxRev \in Nat \ {0}
    /\ Configured \subseteq IDs
    /\ AnyID \notin IDs
    /\ Primary \notin Targets
    /\ Others \cap Targets = {}
    /\ Drills \cap Restores = {} /\ Doctors \cap (Restores \cup Drills) = {}
    /\ DeepChecks \cap (Restores \cup Drills \cup Doctors) = {}
    /\ Forget \notin Storages /\ Nobody \notin Storages \cup {Forget}

VARIABLES
    has,     \* [Storages -> SUBSET Rev]: the snapshot files on each storage
    shared,  \* [Storages -> SUBSET Readers]: who holds its gate shared
    excl,    \* [Storages -> Deleters \cup {Nobody}]: who holds it exclusively
    rpc,     \* [Readers -> ...]: where each reader is
    on,      \* [Readers -> Storages]: the storage it reads
    reg,     \* [Readers -> SUBSET Entry]: its live registration, {} for none
    need,    \* [Readers -> SUBSET Rev]: what it has listed or is reading
    listed,  \* [Targets -> SUBSET Rev]: a copy worker's listing of local
    newest,  \* [Targets -> [IDs -> Nat]]: Worker.listedNewest, 0 for none
    dpc,     \* [Deleters -> ...]: where each deleter is
    busy,    \* [Deleters -> SUBSET SUBSET Entry]: inuse.Set, as it read it
    now,     \* [Deleters -> SUBSET Rev]: deletions still to make
    mlocal,  \* [Targets -> SUBSET Rev]: a mirror pass's listing of local
    fid,     \* SUBSET IDs: the ID `archiver forget` is forgetting, or none
    fleft,   \* SUBSET Storages: the storages its plan has left
    done     \* SUBSET IDs: the IDs it has reported forgotten

gateVars   == <<shared, excl>>
forgetVars == <<fid, fleft, done>>
readerVars == <<rpc, on, reg, need, listed, newest>>
prunerVars == <<dpc, busy, now, mlocal, forgetVars>>
vars == <<has, shared, excl, rpc, on, reg, need, listed, newest,
          dpc, busy, now, mlocal, fid, fleft, done>>

-------------------------------------------------------------------------------
(* The registry's contents *)

\* Revision.covers
Covers(e, rev) == rev = e.rev \/ (e.newer /\ rev >= e.rev)

\* Set.Has, of one registration: "*" counts only for an ID it does not name.
HeldBy(ents, x) ==
    LET named == {e \in ents : e.id = x[1]}
    IN  IF named # {}
        THEN \E e \in named : Covers(e, x[2])
        ELSE \E e \in ents : e.id = AnyID /\ Covers(e, x[2])

\* Set.Has
Has(holdings, x) == \E ents \in holdings : HeldBy(ents, x)

Exact(x) == [id |-> x[1], rev |-> x[2], newer |-> FALSE]

\* listedNewest: the newest revision of each ID in a listing.
IsListedNewest(f, revs) ==
    \A i \in IDs :
        IF ByID(revs, i) = {} THEN f[i] = 0
        ELSE <<i, f[i]>> \in revs /\ \A x \in ByID(revs, i) : x[2] <= f[i]

\* Worker.revisions: the keys themselves, everything past the newest listed of
\* each ID, and everything of an ID the listing did not have.
CopyEntries(keys, f) ==
    {Exact(x) : x \in keys}
        \cup {[id |-> i, rev |-> f[i] + 1, newer |-> TRUE] :
                 i \in {j \in IDs : f[j] # 0}}
        \cup {[id |-> AnyID, rev |-> 1, newer |-> TRUE]}

\* Mutant of EverythingHeld: revision 0 alone, not everything from it on.
EverythingHeldExact == {[id |-> AnyID, rev |-> 0, newer |-> FALSE]}

\* A deep check's registration: every revision, new ones included.
EverythingHeld == {[id |-> AnyID, rev |-> 0, newer |-> TRUE]}

\* inuse.Read: what the live readers of storage s have registered.
ReadRegistry(s) == {reg[r] : r \in {q \in Readers : on[q] = s /\ reg[q] # {}}}

GateOpenShared(s) == excl[s] = Nobody
GateOpenExcl(s)   == shared[s] = {} /\ excl[s] = Nobody

-------------------------------------------------------------------------------
Init ==
    /\ has \in {h \in [Storages -> SUBSET (Retired \X (1..MaxRev))] :
                  /\ h[Primary] = Retired \X (1..MaxRev)
                  /\ \A t \in Targets : h[t] \subseteq h[Primary]}
    /\ shared = [s \in Storages |-> {}]
    /\ excl = [s \in Storages |-> Nobody]
    /\ rpc = [r \in Readers |-> "idle"]
    /\ on = [r \in Readers |-> Primary]
    /\ reg = [r \in Readers |-> {}]
    /\ need = [r \in Readers |-> {}]
    /\ listed = [t \in Targets |-> {}]
    /\ newest = [t \in Targets |-> [i \in IDs |-> 0]]
    /\ dpc = [d \in Deleters |-> "idle"]
    /\ busy = [d \in Deleters |-> {}]
    /\ now = [d \in Deleters |-> {}]
    /\ mlocal = [t \in Targets |-> {}]
    /\ fid = {} /\ fleft = {} /\ done = {}

\* External, duplicacy backup: the ID's next revision appears on the primary.
Backup(i) ==
    /\ i \in Configured
    /\ \E n \in 1..MaxRev :
          /\ \A x \in ByID(has[Primary], i) : x[2] < n
          /\ n = 1 \/ <<i, n - 1>> \in has[Primary]
          /\ has' = [has EXCEPT ![Primary] = @ \cup {<<i, n>>}]
    /\ UNCHANGED <<gateVars, readerVars, prunerVars>>

-------------------------------------------------------------------------------
(* Copy workers: Worker.missing and the copy it leads to *)

\* listLocal: list local under its gate, held shared.
ListLocal(t) ==
    /\ rpc[t] \in {"idle", "again"}
    /\ GateOpenShared(Primary)
    /\ \E f \in [IDs -> 0..MaxRev] :
          /\ IsListedNewest(f, has[Primary])
          /\ newest' = [newest EXCEPT ![t] = f]
    /\ shared' = [shared EXCEPT ![Primary] = @ \cup {t}]
    /\ listed' = [listed EXCEPT ![t] = has[Primary]]
    /\ need' = [need EXCEPT ![t] = has[Primary]]
    /\ rpc' = [rpc EXCEPT ![t] = "listed"]
    /\ UNCHANGED <<has, excl, on, reg, prunerVars>>

\* The rest of listLocal: register everything listed, release the gate.
HoldAll(t) ==
    /\ rpc[t] = "listed"
    /\ reg' = [reg EXCEPT ![t] = CopyEntries(listed[t], newest[t])]
    /\ shared' = [shared EXCEPT ![Primary] = @ \ {t}]
    /\ rpc' = [rpc EXCEPT ![t] = "all"]
    /\ UNCHANGED <<has, excl, on, need, listed, newest, prunerVars>>

\* The rest of missing: list the target, keep only what it lacks registered.
Narrow(t) ==
    LET missing == listed[t] \ has[t] IN
    /\ rpc[t] = "all"
    /\ reg' = [reg EXCEPT ![t] = CopyEntries(missing, newest[t])]
    /\ need' = [need EXCEPT ![t] = missing]
    /\ rpc' = [rpc EXCEPT ![t] = IF missing = {} THEN "upkeep" ELSE "narrowed"]
    /\ UNCHANGED <<has, gateVars, on, listed, newest, prunerVars>>

\* StartCopy: duplicacy lists both storages itself and copies what differs,
\* so also what local gained since the worker's own listing.
StartCopy(t) ==
    /\ rpc[t] = "narrowed"
    /\ need' = [need EXCEPT ![t] = has[Primary] \ has[t]]
    /\ rpc' = [rpc EXCEPT ![t] = "reading"]
    /\ UNCHANGED <<has, gateVars, on, reg, listed, newest, prunerVars>>

\* External, duplicacy copy: one revision's snapshot file reaches the target.
CopyOne(t, x) ==
    /\ rpc[t] = "reading"
    /\ x \in need[t]
    /\ has' = [has EXCEPT ![t] = @ \cup {x}]
    /\ need' = [need EXCEPT ![t] = @ \ {x}]
    /\ UNCHANGED <<gateVars, rpc, on, reg, listed, newest, prunerVars>>

\* The copy succeeded: the pass lists again, still registered.
CopyDone(t) ==
    /\ rpc[t] = "reading"
    /\ need[t] = {}
    /\ rpc' = [rpc EXCEPT ![t] = "again"]
    /\ UNCHANGED <<has, gateVars, on, reg, need, listed, newest, prunerVars>>

\* pass's deferred release, wherever a failure, a stop or its end left it.
\* Both listings are read again only after the next listLocal has set them.
PassEnd(t) ==
    /\ rpc[t] # "idle"
    /\ dpc[t] = "idle"
    /\ reg' = [reg EXCEPT ![t] = {}]
    /\ need' = [need EXCEPT ![t] = {}]
    /\ shared' = [shared EXCEPT ![Primary] = @ \ {t}]
    /\ rpc' = [rpc EXCEPT ![t] = "idle"]
    /\ listed' = [listed EXCEPT ![t] = {}]
    /\ newest' = [newest EXCEPT ![t] = [i \in IDs |-> 0]]
    /\ UNCHANGED <<has, excl, on, prunerVars>>

-------------------------------------------------------------------------------
(* Restores, drills, key probes and deep checks *)

\* Env.restore registers a revision under the gate.  It was picked from an
\* earlier listing, with no gate held, or typed in: it may not exist by now.
RestoreHold(r, s, x) ==
    /\ r \in Restores
    /\ rpc[r] = "idle"
    /\ GateOpenShared(s)
    /\ on' = [on EXCEPT ![r] = s]
    /\ reg' = [reg EXCEPT ![r] = {Exact(x)}]
    /\ rpc' = [rpc EXCEPT ![r] = "held"]
    /\ UNCHANGED <<has, gateVars, need, listed, newest, prunerVars>>

\* Mutant of DrillList: the listing is made without the gate.
DrillListUngated(r, s, x) ==
    /\ r \in Drills
    /\ rpc[r] = "idle"
    /\ x \in has[s] /\ IsNewest(has[s], x)
    /\ on' = [on EXCEPT ![r] = s]
    /\ need' = [need EXCEPT ![r] = {x}]
    /\ rpc' = [rpc EXCEPT ![r] = "listed"]
    /\ UNCHANGED <<has, shared, excl, reg, listed, newest, prunerVars>>

\* A drill lists one ID's revisions under the gate and takes the newest.
DrillList(r, s, x) ==
    /\ r \in Drills
    /\ rpc[r] = "idle"
    /\ GateOpenShared(s)
    /\ x \in has[s] /\ IsNewest(has[s], x)
    /\ shared' = [shared EXCEPT ![s] = @ \cup {r}]
    /\ on' = [on EXCEPT ![r] = s]
    /\ need' = [need EXCEPT ![r] = {x}]
    /\ rpc' = [rpc EXCEPT ![r] = "listed"]
    /\ UNCHANGED <<has, excl, reg, listed, newest, prunerVars>>

\* The doctor's key probe lists every ID's newest revision under the gate.
DoctorList(r, s) ==
    /\ r \in Doctors
    /\ rpc[r] = "idle"
    /\ GateOpenShared(s)
    /\ shared' = [shared EXCEPT ![s] = @ \cup {r}]
    /\ on' = [on EXCEPT ![r] = s]
    /\ need' = [need EXCEPT ![r] = {x \in has[s] : IsNewest(has[s], x)}]
    /\ rpc' = [rpc EXCEPT ![r] = "listed"]
    /\ UNCHANGED <<has, excl, reg, listed, newest, prunerVars>>

\* Drill and doctor register exactly what they listed and leave the gate.
ReaderHold(r) ==
    /\ r \in Drills \cup Doctors
    /\ rpc[r] = "listed"
    /\ reg' = [reg EXCEPT ![r] = {Exact(x) : x \in need[r]}]
    /\ shared' = [shared EXCEPT ![on[r]] = @ \ {r}]
    /\ rpc' = [rpc EXCEPT ![r] = "held"]
    /\ UNCHANGED <<has, excl, on, need, listed, newest, prunerVars>>

\* A deep check registers the whole storage, without listing it.
DeepHold(r, s) ==
    /\ r \in DeepChecks
    /\ rpc[r] = "idle"
    /\ GateOpenShared(s)
    /\ on' = [on EXCEPT ![r] = s]
    /\ reg' = [reg EXCEPT ![r] = EverythingHeld]
    /\ rpc' = [rpc EXCEPT ![r] = "held"]
    /\ UNCHANGED <<has, gateVars, need, listed, newest, prunerVars>>

\* What the reader's duplicacy will read once started: a restore finds its
\* revision or fails at once; `check -all` takes whatever is there.
ReadSet(r) ==
    IF r \in Restores THEN {x \in has[on[r]] : Exact(x) \in reg[r]}
    ELSE IF r \in DeepChecks THEN has[on[r]]
    ELSE need[r]

\* duplicacy starts, with the registration's locked file among its own.
StartRead(r) ==
    /\ rpc[r] = "held"
    /\ need' = [need EXCEPT ![r] = ReadSet(r)]
    /\ rpc' = [rpc EXCEPT ![r] = "reading"]
    /\ UNCHANGED <<has, gateVars, on, reg, listed, newest, prunerVars>>

\* Release, at the end, on a failure or a stop; also an orphan's exit, whose
\* file is then unlocked.
ReadEnd(r) ==
    /\ r \in Others
    /\ rpc[r] # "idle"
    /\ reg' = [reg EXCEPT ![r] = {}]
    /\ need' = [need EXCEPT ![r] = {}]
    /\ shared' = [shared EXCEPT ![on[r]] = @ \ {r}]
    /\ rpc' = [rpc EXCEPT ![r] = "idle"]
    /\ on' = [on EXCEPT ![r] = Primary]
    /\ UNCHANGED <<has, excl, listed, newest, prunerVars>>

\* The process is killed while its duplicacy runs: the child keeps the lock,
\* so the registration stays live (Holding.File).
KilledReading(r) ==
    /\ r \in Others
    /\ rpc[r] = "reading"
    /\ rpc' = [rpc EXCEPT ![r] = "orphan"]
    /\ UNCHANGED <<has, gateVars, on, reg, need, listed, newest, prunerVars>>

-------------------------------------------------------------------------------
(* The local prune: Options.prune *)

PruneEnter ==
    /\ dpc[Primary] = "idle"
    /\ GateOpenExcl(Primary)
    /\ excl' = [excl EXCEPT ![Primary] = Primary]
    /\ dpc' = [dpc EXCEPT ![Primary] = "gated"]
    /\ UNCHANGED <<has, shared, readerVars, busy, now, mlocal, forgetVars>>

PruneRead ==
    /\ dpc[Primary] = "gated"
    /\ busy' = [busy EXCEPT ![Primary] = ReadRegistry(Primary)]
    /\ dpc' = [dpc EXCEPT ![Primary] = "read"]
    /\ UNCHANGED <<has, gateVars, readerVars, now, mlocal, forgetVars>>

\* The dry run selects any revisions older than their ID's newest (external:
\* duplicacy's non-exclusive prune); Split keeps back those in use.
PrunePlan ==
    /\ dpc[Primary] = "read"
    /\ \E f \in [IDs -> 0..MaxRev] :
          /\ IsListedNewest(f, has[Primary])
          /\ \E planned \in SUBSET {x \in has[Primary] : x[2] < f[x[1]]} :
                now' = [now EXCEPT ![Primary] =
                           {x \in planned : ~ Has(busy[Primary], x)}]
    /\ busy' = [busy EXCEPT ![Primary] = {}]
    /\ dpc' = [dpc EXCEPT ![Primary] = "deleting"]
    /\ UNCHANGED <<has, gateVars, readerVars, mlocal, forgetVars>>

\* One snapshot file goes.  A local prune or a mirror pass; or a prune whose
\* archiver process was killed.
Delete(d, x) ==
    /\ dpc[d] \in {"deleting", "orphan"}
    /\ d \in Storages
    /\ x \in now[d]
    /\ has' = [has EXCEPT ![d] = @ \ {x}]
    /\ now' = [now EXCEPT ![d] = @ \ {x}]
    /\ UNCHANGED <<gateVars, readerVars, dpc, busy, mlocal, forgetVars>>

\* The gate opens again once the deletions are made, or one of them or an
\* earlier step failed or was stopped.
PruneLeave(d) ==
    /\ d \in Storages
    /\ dpc[d] \notin {"idle", "orphan"}
    /\ excl' = [excl EXCEPT ![d] = Nobody]
    /\ busy' = [busy EXCEPT ![d] = {}]
    /\ now' = [now EXCEPT ![d] = {}]
    /\ mlocal' = [t \in Targets |-> IF t = d THEN {} ELSE mlocal[t]]
    /\ dpc' = [dpc EXCEPT ![d] = "idle"]
    /\ UNCHANGED <<has, shared, readerVars, forgetVars>>

\* maintenance is killed mid-prune: the kernel drops its gate, and the prune of
\* the one ID it had started runs on, since it was not given the gate's file.
PruneOrphaned(i) ==
    /\ dpc[Primary] = "deleting"
    /\ excl' = [excl EXCEPT ![Primary] = Nobody]
    /\ now' = [now EXCEPT ![Primary] = ByID(@, i)]
    /\ dpc' = [dpc EXCEPT ![Primary] = "orphan"]
    /\ UNCHANGED <<has, shared, readerVars, busy, mlocal, forgetVars>>

OrphanEnd ==
    /\ dpc[Primary] = "orphan"
    /\ now' = [now EXCEPT ![Primary] = {}]
    /\ dpc' = [dpc EXCEPT ![Primary] = "idle"]
    /\ UNCHANGED <<has, gateVars, readerVars, busy, mlocal, forgetVars>>

-------------------------------------------------------------------------------
(* A target's mirror pass: Worker.mirror, run once nothing is missing *)

MirrorEnter(t) ==
    /\ rpc[t] = "upkeep"
    /\ dpc[t] = "idle"
    /\ GateOpenExcl(t)
    /\ excl' = [excl EXCEPT ![t] = t]
    /\ dpc' = [dpc EXCEPT ![t] = "gated"]
    /\ UNCHANGED <<has, shared, readerVars, busy, now, mlocal, forgetVars>>

MirrorListLocal(t) ==
    /\ t \in Targets
    /\ dpc[t] = "gated"
    /\ mlocal' = [mlocal EXCEPT ![t] = has[Primary]]
    /\ dpc' = [dpc EXCEPT ![t] = "listed"]
    /\ UNCHANGED <<has, gateVars, readerVars, busy, now, forgetVars>>

\* List the target, plan, and leave out what a restore reads (leaveInUse).  allow:
\* whether `archiver mirror --allow-large' was asked for.
MirrorPlanStep(t, allow) ==
    /\ dpc[t] = "listed"
    /\ now' = [now EXCEPT ![t] =
                  {x \in PlanMirror(mlocal[t], has[t], Configured, allow) :
                      ~ Has(ReadRegistry(t), x)}]
    /\ mlocal' = [mlocal EXCEPT ![t] = {}]
    /\ dpc' = [dpc EXCEPT ![t] = "deleting"]
    /\ UNCHANGED <<has, gateVars, readerVars, busy, forgetVars>>

-------------------------------------------------------------------------------
(* archiver forget *)

\* Every storage is listed; the plan is the ones that hold the ID.  One step for
\* all the listings: the plan only says which storages are gone to, and each is
\* listed again there, under its gate.
ForgetPlan(i) ==
    /\ i \in Retired
    /\ fleft = {}
    /\ dpc[Forget] = "idle"
    /\ fid' = {i}
    /\ fleft' = {s \in Storages : ByID(has[s], i) # {}}
    /\ UNCHANGED <<has, gateVars, readerVars, dpc, busy, now, mlocal, done>>

\* forget, storage by storage, the primary first.
ForgetEnter(s) ==
    /\ dpc[Forget] = "idle"
    /\ s \in fleft
    /\ Primary \in fleft => s = Primary
    /\ GateOpenExcl(s)
    /\ excl' = [excl EXCEPT ![s] = Forget]
    /\ dpc' = [dpc EXCEPT ![Forget] = "gated"]
    /\ UNCHANGED <<has, shared, readerVars, busy, now, mlocal, forgetVars>>

ForgetRead(s) ==
    /\ excl[s] = Forget
    /\ dpc[Forget] = "gated"
    /\ busy' = [busy EXCEPT ![Forget] = ReadRegistry(s)]
    /\ dpc' = [dpc EXCEPT ![Forget] = "read"]
    /\ UNCHANGED <<has, gateVars, readerVars, now, mlocal, forgetVars>>

\* Mutant of ForgetList: the registry read is not consulted.
ForgetListBusy(s) ==
    /\ excl[s] = Forget
    /\ dpc[Forget] = "read"
    /\ now' = [now EXCEPT ![Forget] = {x \in has[s] : x[1] \in fid}]
    /\ busy' = [busy EXCEPT ![Forget] = {}]
    /\ dpc' = [dpc EXCEPT ![Forget] = "deleting"]
    /\ UNCHANGED <<has, gateVars, readerVars, mlocal, forgetVars>>

\* Listed again: if any revision is in use the whole ID is left alone.
ForgetList(s) ==
    LET revs == {x \in has[s] : x[1] \in fid} IN
    /\ excl[s] = Forget
    /\ dpc[Forget] = "read"
    /\ \A x \in revs : ~ Has(busy[Forget], x)
    /\ now' = [now EXCEPT ![Forget] = revs]
    /\ busy' = [busy EXCEPT ![Forget] = {}]
    /\ dpc' = [dpc EXCEPT ![Forget] = "deleting"]
    /\ UNCHANGED <<has, gateVars, readerVars, mlocal, forgetVars>>

\* Remove the ID's directory, a file at a time.
ForgetDelete(s, x) ==
    /\ excl[s] = Forget
    /\ dpc[Forget] = "deleting"
    /\ x \in now[Forget]
    /\ has' = [has EXCEPT ![s] = @ \ {x}]
    /\ now' = [now EXCEPT ![Forget] = @ \ {x}]
    /\ UNCHANGED <<gateVars, readerVars, dpc, busy, mlocal, forgetVars>>

\* The storage is done; after the plan's last the ID is forgotten.
ForgetNext(s) ==
    /\ excl[s] = Forget
    /\ dpc[Forget] = "deleting"
    /\ now[Forget] = {}
    /\ excl' = [excl EXCEPT ![s] = Nobody]
    /\ dpc' = [dpc EXCEPT ![Forget] = "idle"]
    /\ fleft' = fleft \ {s}
    /\ IF fleft = {s} THEN fid' = {} /\ done' = done \cup fid
                      ELSE UNCHANGED <<fid, done>>
    /\ UNCHANGED <<has, shared, readerVars, busy, now, mlocal>>

\* Any failure (a revision in use, an unreachable storage) ends the run.
ForgetStop ==
    /\ fleft # {}
    /\ excl' = [s \in Storages |-> IF excl[s] = Forget THEN Nobody ELSE excl[s]]
    /\ busy' = [busy EXCEPT ![Forget] = {}]
    /\ now' = [now EXCEPT ![Forget] = {}]
    /\ dpc' = [dpc EXCEPT ![Forget] = "idle"]
    /\ fid' = {} /\ fleft' = {}
    /\ UNCHANGED <<has, shared, readerVars, mlocal, done>>

-------------------------------------------------------------------------------
\* The container restarts: every process dies, and with it every lock.
Restart ==
    /\ shared' = [s \in Storages |-> {}]
    /\ excl' = [s \in Storages |-> Nobody]
    /\ rpc' = [r \in Readers |-> "idle"]
    /\ reg' = [r \in Readers |-> {}]
    /\ need' = [r \in Readers |-> {}]
    /\ dpc' = [d \in Deleters |-> "idle"]
    /\ busy' = [d \in Deleters |-> {}]
    /\ now' = [d \in Deleters |-> {}]
    /\ fid' = {} /\ fleft' = {}
    /\ on' = [r \in Readers |-> Primary]
    /\ listed' = [t \in Targets |-> {}]
    /\ newest' = [t \in Targets |-> [i \in IDs |-> 0]]
    /\ mlocal' = [t \in Targets |-> {}]
    /\ UNCHANGED <<has, done>>

CopyNext ==
    \E t \in Targets :
        \/ ListLocal(t) \/ HoldAll(t) \/ Narrow(t) \/ StartCopy(t)
        \/ CopyDone(t) \/ PassEnd(t)
        \/ \E x \in Rev : CopyOne(t, x)

ReaderNext ==
    \E r \in Others :
        \/ ReaderHold(r) \/ StartRead(r) \/ ReadEnd(r) \/ KilledReading(r)
        \/ \E s \in Storages, x \in Rev : RestoreHold(r, s, x) \/ DrillList(r, s, x)
        \/ \E s \in Storages : DoctorList(r, s) \/ DeepHold(r, s)

PruneNext ==
    \/ PruneEnter \/ PruneRead \/ PrunePlan
    \/ \E d \in Storages : PruneLeave(d)
    \/ \E d \in Storages, x \in Rev : Delete(d, x)
    \/ \E t \in Targets : MirrorEnter(t) \/ MirrorListLocal(t)
    \/ \E t \in Targets, allow \in BOOLEAN : MirrorPlanStep(t, allow)

ForgetStep ==
    \/ ForgetStop
    \/ \E i \in IDs : ForgetPlan(i)
    \/ \E s \in Storages : ForgetEnter(s) \/ ForgetRead(s) \/ ForgetList(s) \/ ForgetNext(s)
    \/ \E s \in Storages, x \in Rev : ForgetDelete(s, x)

Next ==
    \/ \E i \in IDs : Backup(i)
    \/ CopyNext \/ ReaderNext \/ PruneNext \/ ForgetStep \/ Restart

Spec == Init /\ [][Next]_vars

\* The same with prunes that may outlive the process that started them.
OrphanSpec == Init /\ [][Next \/ OrphanEnd \/ \E i \in IDs : PruneOrphaned(i)]_vars

-------------------------------------------------------------------------------
(* Properties *)

\* The type invariant: among the rest, no registration names a revision past
\* the one after the newest there can be.
TypeOK ==
    /\ has \in [Storages -> SUBSET Rev]
    /\ shared \in [Storages -> SUBSET Readers]
    /\ excl \in [Storages -> Deleters \cup {Nobody}]
    /\ rpc \in [Readers -> {"idle", "listed", "all", "narrowed", "upkeep",
                             "held", "reading", "again", "orphan"}]
    /\ on \in [Readers -> Storages]
    /\ reg \in [Readers -> SUBSET Entry]
    /\ need \in [Readers -> SUBSET Rev]
    /\ listed \in [Targets -> SUBSET Rev]
    /\ newest \in [Targets -> [IDs -> 0..MaxRev]]
    /\ dpc \in [Deleters -> {"idle", "gated", "read", "listed", "deleting", "orphan"}]
    /\ busy \in [Deleters -> SUBSET SUBSET Entry]
    /\ now \in [Deleters -> SUBSET Rev]
    /\ mlocal \in [Targets -> SUBSET Rev]
    /\ fid \in SUBSET Retired /\ fleft \in SUBSET Storages /\ done \in SUBSET Retired

\* ADR 19: no prune, mirror pass or forget deletes a revision that a reader has
\* listed under the gate or is reading, whether the reader's own process still
\* lives or only the duplicacy it started.
InUseKept == \A r \in Readers : need[r] \subseteq has[on[r]]

\* ADR 12: "A target never deletes a revision local still holds", so no copy
\* sends one again.
TargetDeletesOnlyPruned ==
    [][\A t \in Targets : (has[t] \ has'[t]) \cap has[Primary] = {}]_vars

\* PlanMirror's rails, over the pass and not only the plan: an ID still backed
\* up keeps its newest revision on every storage that has it.
NewestKept ==
    [][\A s \in Storages : \A x \in has[s] :
          x[1] \in Configured /\ IsNewest(has[s], x) => x \in has'[s]]_vars

\* forget.go: "Every storage is listed before anything goes, so the plan shown
\* is the whole of it": an ID reported forgotten is on no storage.
ForgottenGone ==
    \A i \in done : \A s \in Storages : ByID(has[s], i) = {}

\* Why forget takes the primary first and leaves an ID in use alone: once the
\* primary is clean, no copy puts the ID back on a target forget has been to.
NoRecopy ==
    [][\A t \in Targets : \A x \in has'[t] \ has[t] :
          x[1] \notin done /\ (x[1] \in fid => Primary \in fleft)]_vars

-------------------------------------------------------------------------------
(* The inductive invariant behind InUseKept, part by part *)

\* A gate is held exclusively by one deleter and no reader, and a deleter past
\* its first step holds the gate of the storage it works on.
GateInv ==
    /\ \A s \in Storages : excl[s] # Nobody => \A r \in Readers : r \notin shared[s]
    /\ \A s \in Storages : excl[s] \in {Nobody, s, Forget}
    /\ \A s \in Storages : dpc[s] \notin {"idle", "orphan"} <=> excl[s] = s
    /\ \A s, u \in Storages : excl[s] = Forget /\ excl[u] = Forget => s = u
    /\ dpc[Forget] # "idle" => \E s \in Storages : excl[s] = Forget
    /\ dpc[Forget] = "idle" => \A s \in Storages : excl[s] # Forget
    /\ \A d \in Deleters : dpc[d] # "orphan"

\* A reader between its listing and its registration holds the gate; a copy
\* worker reads the primary only and mirrors only with nothing to read.
ReaderInv ==
    /\ \A r \in Readers : rpc[r] = "listed" => r \in shared[on[r]]
    /\ \A r \in Readers : rpc[r] = "idle" => need[r] = {} /\ reg[r] = {}
    /\ \A t \in Targets : on[t] = Primary
    /\ \A t \in Targets : dpc[t] # "idle" => rpc[t] = "upkeep"
    /\ \A t \in Targets : rpc[t] \notin {"held", "orphan"}
    /\ \A r \in Others : rpc[r] \in {"idle", "listed", "held", "reading", "orphan"}
    /\ \A r \in DeepChecks : rpc[r] # "idle" => reg[r] = EverythingHeld

\* What a reader needs is covered by its registration once it has left the gate.
CoverInv ==
    \A r \in Readers : rpc[r] \notin {"idle", "listed"} =>
        \A x \in need[r] : HeldBy(reg[r], x)

\* A copy worker's registration covers whatever duplicacy may find to copy,
\* also what local gained since the worker listed it.
CopyOK(local, target, pc, ents, needed, revs, f) ==
    /\ pc \in {"listed", "all", "narrowed"} =>
          /\ IsListedNewest(f, revs)
          /\ \A x \in local : x \in revs \/ x[2] > f[x[1]]
          /\ \A i \in Configured : f[i] # 0 => \E x \in ByID(local, i) : x[2] >= f[i]
    /\ pc \in {"listed", "all"} => needed = revs
    /\ pc = "all" => ents = CopyEntries(revs, f)
    /\ pc = "narrowed" =>
          \E keys \in SUBSET revs :
              /\ ents = CopyEntries(keys, f)
              /\ \A x \in local \ target : x \in revs => x \in keys

CopyInv ==
    \A t \in Targets :
        CopyOK(has[Primary], has[t], rpc[t], reg[t], need[t], listed[t], newest[t])

\* A deleter's plan touches nothing a registration covers, and leaves each ID
\* of the primary its newest revision.
PlanInv ==
    /\ \A d \in Storages : dpc[d] = "read" =>
          \A r \in Readers : on[r] = d => \A x \in Rev : HeldBy(reg[r], x) => Has(busy[d], x)
    /\ \A d \in Storages : dpc[d] = "deleting" =>
          \A r \in Readers : on[r] = d => \A x \in now[d] : ~ HeldBy(reg[r], x)
    /\ \A d \in Storages : dpc[d] # "deleting" => now[d] = {}
    /\ dpc[Primary] = "deleting" =>
          \A x \in now[Primary] : \E y \in has[Primary] \ now[Primary] :
              y[1] = x[1] /\ y[2] > x[2]

\* forget works through the primary first, on retired IDs only.
ForgetInv ==
    /\ dpc[Forget] # "idle" => \A s \in Storages : excl[s] = Forget => s \in fleft
    /\ fleft # {} /\ Primary \notin fleft =>
          \A x \in has[Primary] : x[1] \notin fid
    /\ \A s \in Storages : excl[s] = Forget /\ Primary \in fleft => s = Primary
    /\ \A x \in now[Forget] : x[1] \in fid
    /\ dpc[Forget] # "deleting" => now[Forget] = {}
    /\ dpc[Forget] = "deleting" => \A s \in Storages : excl[s] = Forget =>
          /\ {x \in has[s] : x[1] \in fid} \subseteq now[Forget]
          /\ \A r \in Readers : on[r] = s => \A x \in now[Forget] : ~ HeldBy(reg[r], x)
    /\ dpc[Forget] = "read" => \A s \in Storages : excl[s] = Forget =>
          \A r \in Readers : on[r] = s =>
              \A x \in Rev : HeldBy(reg[r], x) => Has(busy[Forget], x)

IndInv ==
    /\ TypeOK /\ GateInv /\ ReaderInv /\ CoverInv
    /\ CopyInv /\ PlanInv /\ ForgetInv /\ InUseKept

===============================================================================
