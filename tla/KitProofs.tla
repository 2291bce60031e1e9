------------------------------ MODULE KitProofs ------------------------------
(***************************************************************************)
(* What the kit's state file says is so and what a backup's kit step       *)
(* promises is kept, for any number of storages, windows, configurations   *)
(* and failures.  Both rest on the lock: while one placement sends the kit *)
(* it made, no other writes a storage or the state file, so a storage only *)
(* ever goes to a newer kit.  Until a change of the recovery password      *)
(* crosses a placement, every kit made or placed opens (SealInv).          *)
(***************************************************************************)
EXTENDS Kit, TLAPS

\* The typing of everything but the storages, the state file and the placements.
Rest ==
    /\ conf \in 1..MaxConf /\ vouched \in 0..MaxConf
    /\ down \subseteq Targets /\ shut \subseteq Windowed /\ failing \subseteq Secondaries
    /\ incident \in BOOLEAN /\ crossed \in BOOLEAN
    /\ faults \in 0..MaxFaults /\ outages \in 0..MaxOutages

\* The lock has one holder.
OneInside ==
    \A p, q \in Runners : run[p].pc \in Inside /\ run[q].pc \in Inside => p = q

\* Nothing is newer than the configuration.
Known == rec.fp <= conf /\ \A t \in Targets : at[t] <= conf

\* A placement r that sends, with a on the storages, sends the newest kit there is: nothing
\* newer was recorded or sent before it.
SentBy(r, a) ==
    /\ r.pc \in {"lock", "build"} => r.unsure = {} /\ r.failed = {}
    /\ r.pc \in {"upload", "write"} =>
        /\ rec.fp <= r.fp /\ r.fp <= conf
        /\ \A t \in Targets : a[t] <= r.fp
        /\ \A t \in r.placed \cup r.unsure : a[t] = r.fp
        /\ r.pc = "write" => r.todo = {}

Sent == \A p \in Runners : SentBy(run[p], at)

\* What the backup's placement r has of the primary, wherever it is.
PromisedBy(r, a) ==
    /\ Primary \notin r.skip
    /\ r.asked <= conf
    /\ r.marker => a[Primary] >= r.asked
    /\ r.pc \in {"upload", "write"} =>
          /\ r.asked <= r.fp
          /\ Primary \in r.todo \cup r.placed \cup r.unsure \cup r.failed
    /\ r.pc = "report" => a[Primary] >= Vouched(r)

Promise == PromisedBy(run["backup"], at)

\* What CurrentTrue and PrimaryVouched say of the kits' contents.
RecordHeld == rec.fp = conf => \A t \in rec.names : at[t] = conf
VouchKept == at[Primary] >= vouched

KitInv == TypeOK /\ OneInside /\ Known /\ Sent /\ Promise /\ RecordHeld /\ VouchKept

\* A placement r seals its kit with the password of what it holds, c being configured.
SealedBy(r, c) ==
    /\ r.pc \in {"lock", "build"} => Key[r.asked] = Key[c]
    /\ r.pc \in {"upload", "write"} => Key[r.asked] = Key[r.fp]

\* Until a change of the password crosses a placement, every kit opens, made or placed.
SealInv ==
    crossed \/ /\ \A p \in Runners : SealedBy(run[p], conf)
               /\ \A t \in Targets : Opens(t)

-----------------------------------------------------------------------------
(* Operators *)

\* The primary is neither a secondary nor behind a window.
LEMMA PrimaryTarget == Primary \in Targets /\ Primary \notin Secondaries /\ Primary \notin Windowed
BY KitAssumption DEF Primary, Targets, Secondaries

\* Nothing happens to a placement that has not begun.
LEMMA IdleRun == Idle \in Run
<1>1. 0 \in 0..MaxConf
  BY KitAssumption
<1>2. QED
  BY <1>1 DEF Idle, Run, Codes

\* What Execute returns is a placement that is through.
LEMMA ReturnedRun ==
    ASSUME NEW p \in Runners, NEW r \in Run, NEW code \in Codes
    PROVE  Returned(p, r, code) \in Run
<1>1. 0 \in 0..MaxConf
  BY KitAssumption
<1>2. QED
  <2> DEFINE erred == r.erred \/ code \in {"failed", "secondary"}
             behind == r.skip \cup r.held # {} \/ code = "unverified"
             end == [Idle EXCEPT !.pc = "report", !.erred = erred, !.behind = behind]
             full == [end EXCEPT !.asked = r.asked, !.marker = r.marker, !.code = code]
  <2>1. erred \in BOOLEAN /\ behind \in BOOLEAN
    BY DEF Run
  <2>2. Returned(p, r, code) = IF p = "backup" THEN full ELSE end
    BY DEF Returned
  <2> HIDE DEF erred, behind
  <2>3. end \in Run
    BY <1>1, <2>1 DEF Idle, Run, Codes
  <2>4. full \in Run
    BY <1>1, <2>1 DEF Idle, Run
  <2>5. QED
    BY <2>2, <2>3, <2>4

\* What is vouched for is what was asked, or nothing.
LEMMA VouchedAsked ==
    ASSUME NEW r \in Run
    PROVE  Vouched(r) \in 0..MaxConf /\ Vouched(r) \in {0, r.asked}
BY KitAssumption DEF Vouched, Run

-----------------------------------------------------------------------------
(* The steps *)

\* A placement moves, and may send its kit as it does.
LEMMA Moves ==
    ASSUME KitInv, NEW p \in Runners, NEW r \in Run, run' = [run EXCEPT ![p] = r],
           Rest', conf' = conf, rec' = rec,
           UNCHANGED storages \/ \E t \in Targets : Uploading(p, t) /\ Publish(p, t),
           r.pc \in Inside => run[p].pc \in Inside \/ LockFree,
           SentBy(r, at'),
           p = "backup" => PromisedBy(r, at'),
           vouched' <= at'[Primary] \/ vouched' = vouched
    PROVE  KitInv' /\ \A t \in Targets : at'[t] >= at[t]
<1>1. /\ conf \in Nat /\ at \in [Targets -> Nat] /\ rec.fp \in Nat /\ rec.names \subseteq Targets
      /\ DOMAIN run = Runners /\ \A q \in Runners : run[q].fp \in Nat
  BY KitAssumption DEF KitInv, TypeOK, Run
<1>2. run'[p] = r /\ DOMAIN run' = Runners /\ \A q \in Runners \ {p} : run'[q] = run[q]
  BY <1>1
<1>3. ASSUME NEW t \in Targets
      PROVE  /\ at'[t] \in Nat /\ at'[t] >= at[t] /\ at'[t] <= conf
             /\ at'[t] # at[t] => run[p].pc = "upload" /\ at'[t] = run[p].fp
             /\ at'[t] \in 0..MaxConf
  <2>1. CASE UNCHANGED storages
    BY <1>1, <2>1 DEF KitInv, Known, TypeOK, storages
  <2>2. CASE \E s \in Targets : Uploading(p, s) /\ Publish(p, s)
    <3>1. run[p].pc = "upload" /\ at'[t] \in {at[t], run[p].fp}
      BY <1>1, <2>2 DEF Uploading, Publish
    <3>2. at[t] <= run[p].fp /\ run[p].fp <= conf
      BY <3>1 DEF KitInv, Sent, SentBy
    <3>3. at[t] \in 0..MaxConf /\ run[p].fp \in 0..MaxConf
      BY DEF KitInv, TypeOK, Run
    <3>4. QED
      BY <1>1, <3>1, <3>2, <3>3
  <2>3. QED
    BY <2>1, <2>2
<1>4. TypeOK'
  <2>1. DOMAIN at' = Targets /\ at' = [t \in Targets |-> at'[t]]
    BY <1>1 DEF Publish, storages
  <2>2. at' \in [Targets -> 0..MaxConf]
    BY <1>3, <2>1
  <2>5. sealed' \in [Targets -> 0..MaxConf]
    BY DEF Publish, storages, KitInv, TypeOK, Run
  <2>3. run' \in [Runners -> Run]
    BY DEF KitInv, TypeOK
  <2>4. QED
    BY <2>2, <2>3, <2>5 DEF Rest, KitInv, TypeOK, Targets, Secondaries, Run, Runners
<1>5. OneInside'
  BY <1>2 DEF KitInv, OneInside, LockFree
<1>6. Known'
  BY <1>3 DEF KitInv, Known
<1>7. Sent'
  <2> SUFFICES ASSUME NEW q \in Runners PROVE SentBy(run'[q], at')
    BY DEF Sent, SentBy, Targets
  <2>1. CASE q = p
    BY <1>2, <2>1
  <2>2. CASE q # p
    <3>1. SentBy(run[q], at) /\ run'[q] = run[q]
      BY <1>2, <2>2 DEF KitInv, Sent
    <3>2. run[q].pc \in {"upload", "write"} => \A t \in Targets : at'[t] = at[t]
      BY <1>3, <2>2 DEF KitInv, OneInside, Inside
    <3>3. run[q].placed \cup run[q].unsure \subseteq Targets
      BY DEF KitInv, TypeOK, Run
    <3>4. QED
      BY <3>1, <3>2, <3>3 DEF SentBy
  <2>3. QED
    BY <2>1, <2>2
<1>8. Promise'
  <2>1. CASE p = "backup"
    BY <1>2, <2>1 DEF Promise, PromisedBy, Primary, Vouched
  <2>2. CASE p # "backup"
    <3>1. run'["backup"] = run["backup"] /\ PromisedBy(run["backup"], at) /\ run["backup"] \in Run
      BY <1>2, <2>2 DEF KitInv, Promise, Runners, TypeOK
    <3>2. at'[Primary] >= at[Primary] /\ at'[Primary] \in Nat /\ at[Primary] \in Nat
      BY <1>1, <1>3, PrimaryTarget
    <3>3. Vouched(run["backup"]) \in Nat /\ run["backup"].asked \in Nat
      BY <3>1, VouchedAsked, KitAssumption DEF Run
    <3>4. PromisedBy(run["backup"], at')
      BY <3>1, <3>2, <3>3 DEF PromisedBy
    <3>5. QED
      BY <3>1, <3>4 DEF Promise, PromisedBy, Primary, Vouched
  <2>3. QED
    BY <2>1, <2>2
<1>9. RecordHeld'
  <2> SUFFICES ASSUME rec.fp = conf, NEW t \in rec.names PROVE at'[t] = conf
    BY DEF RecordHeld
  <2>1. t \in Targets /\ at[t] = conf
    BY <1>1 DEF KitInv, RecordHeld
  <2>2. QED
    BY <1>1, <1>3, <2>1
<1>10. VouchKept'
  <2>1. at'[Primary] >= at[Primary] /\ at'[Primary] \in Nat /\ at[Primary] \in Nat
    BY <1>1, <1>3, PrimaryTarget
  <2>2. vouched \in Nat /\ vouched' \in Nat
    BY KitAssumption DEF KitInv, TypeOK, Rest
  <2>3. QED
    BY <2>1, <2>2 DEF KitInv, VouchKept, Primary
<1>11. QED
  BY <1>3, <1>4, <1>5, <1>6, <1>7, <1>8, <1>9, <1>10 DEF KitInv

\* A step around the placements: the configuration may go on, what storages hold stays.
LEMMA WorldMoves ==
    ASSUME KitInv, Rest', conf' >= conf, UNCHANGED <<storages, rec, run, vouched>>
    PROVE  KitInv' /\ \A t \in Targets : at'[t] >= at[t]
<1>1. /\ conf \in Nat /\ conf' \in Nat /\ at \in [Targets -> Nat] /\ rec.fp \in Nat
      /\ \A q \in Runners : run[q].fp \in Nat /\ run[q].asked \in Nat
  BY KitAssumption DEF KitInv, TypeOK, Rest, Run
<1>0. at' = at /\ sealed' = sealed /\ rec' = rec /\ run' = run /\ vouched' = vouched
  BY DEF storages
<1>2. TypeOK'
  BY <1>0 DEF KitInv, TypeOK, Rest, Targets, Secondaries, Run, Runners
<1>3. OneInside'
  BY <1>0 DEF KitInv, OneInside
<1>4. Known'
  BY <1>0, <1>1 DEF KitInv, Known
<1>5. Sent'
  BY <1>0, <1>1 DEF KitInv, Sent, SentBy, Targets
<1>6. Promise'
  BY <1>0, <1>1 DEF KitInv, Promise, PromisedBy, Primary, Vouched, Runners
<1>7. RecordHeld'
  BY <1>0, <1>1 DEF KitInv, RecordHeld, Known
<1>8. VouchKept'
  BY <1>0 DEF KitInv, VouchKept, Primary
<1>9. QED
  BY <1>0, <1>1, <1>2, <1>3, <1>4, <1>5, <1>6, <1>7, <1>8 DEF KitInv

\* A placement begins: as the backup's, with the configuration of now.
LEMMA Begins ==
    ASSUME KitInv, BackupStep \/ Manual \/ \E t \in Targets : CaughtUp(t)
    PROVE  KitInv' /\ \A t \in Targets : at'[t] >= at[t]
<1>0. conf \in 1..MaxConf /\ failing \subseteq Secondaries /\ Primary \in Targets /\ Rest
  BY PrimaryTarget DEF KitInv, TypeOK, Rest
<1>z. 0 \in 0..MaxConf /\ conf \in 0..MaxConf
  BY <1>0, KitAssumption
<1>1. ASSUME NEW p \in Runners, NEW skip \in SUBSET Secondaries, Begin(p, skip),
             Rest', conf' = conf, UNCHANGED storages, rec' = rec, vouched' \in {0, vouched}
      PROVE  KitInv' /\ \A t \in Targets : at'[t] >= at[t]
  <2> DEFINE r == [Idle EXCEPT !.pc = "lock", !.asked = conf, !.skip = skip]
  <2>0. run' = [run EXCEPT ![p] = r]
    BY <1>1 DEF Begin
  <2>3. /\ r \in Run /\ r.pc = "lock" /\ r.asked = conf /\ r.skip = skip /\ ~ r.marker
        /\ r.unsure = {} /\ r.failed = {}
    BY <1>z, <1>1 DEF Idle, Run, Codes, Secondaries
  <2> HIDE DEF r
  <2>1. SentBy(r, at') /\ PromisedBy(r, at')
    BY <1>0, <1>1, <2>3, PrimaryTarget DEF SentBy, PromisedBy
  <2>2. vouched' <= at'[Primary] \/ vouched' = vouched
    BY <1>0, <1>1 DEF KitInv, TypeOK, storages
  <2>4. QED
    BY <1>1, <2>0, <2>1, <2>2, <2>3, Moves DEF Inside
<1>2. CASE BackupStep
  <2>1. PICK found \in SUBSET (down \ {Primary}) :
            Begin("backup", (IF HasWorkers THEN failing ELSE {}) \cup found)
    BY <1>2 DEF BackupStep
  <2>2. (IF HasWorkers THEN failing ELSE {}) \cup found \in SUBSET Secondaries
    BY <1>0 DEF Rest, Secondaries
  <2>3. incident' = incident /\ vouched' = 0
        /\ UNCHANGED <<storages, rec, conf, crossed, down, shut, failing, faults, outages>>
    BY <1>2 DEF BackupStep, Sound, world
  <2>4. Rest'
    BY <1>0, <1>z, <2>3 DEF Rest, Targets, Secondaries
  <2>5. QED
    BY <1>1, <2>1, <2>2, <2>3, <2>4 DEF Runners
<1>3. CASE Manual
  <2>1. Begin("manual", {})
    BY <1>3 DEF Manual
  <2>2. Rest' /\ conf' = conf /\ UNCHANGED storages /\ rec' = rec /\ vouched' = vouched
    BY <1>0, <1>3 DEF Manual, Rest, Sound, world, told, Targets, Secondaries
  <2>3. QED
    BY <1>1, <2>1, <2>2 DEF Runners
<1>4. ASSUME NEW t \in Targets, CaughtUp(t)
      PROVE  KitInv' /\ \A s \in Targets : at'[s] >= at[s]
  <2>1. failing' \in SUBSET Secondaries /\ UNCHANGED <<conf, storages, rec, vouched>>
    BY <1>0, <1>4 DEF CaughtUp, told
  <2>2. Rest'
    BY <1>0, <1>4, <2>1 DEF CaughtUp, Rest, Sound, told, Targets, Secondaries
  <2>3. ASSUME Begin("daemon", failing')
        PROVE  KitInv' /\ \A s \in Targets : at'[s] >= at[s]
    BY <1>1, <2>1, <2>2, <2>3 DEF Runners
  <2>4. ASSUME run' = run
        PROVE  KitInv' /\ \A s \in Targets : at'[s] >= at[s]
    BY <1>0, <2>1, <2>2, <2>4, WorldMoves
  <2>5. QED
    BY <1>4, <2>3, <2>4 DEF CaughtUp
<1>5. QED
  BY <1>2, <1>3, <1>4

\* What the steps of a placement that leaves the rest alone have in common.
LEMMA Others ==
    ASSUME KitInv, Sound \/ Fault
    PROVE  UNCHANGED <<world, told>> => Rest' /\ conf' = conf /\ vouched' = vouched
<1>1. Rest
  BY DEF KitInv, TypeOK, Rest
<1>2. faults' \in 0..MaxFaults /\ outages' = outages
  BY <1>1, KitAssumption DEF Sound, Fault, Rest
<1>3. QED
  BY <1>1, <1>2 DEF Rest, world, told, Targets, Secondaries

\* What a placement has of the primary is what it says it has.
LEMMA CurrentPlan ==
    ASSUME KitInv, NEW p \in Runners, run[p].pc = "build", NEW force \in BOOLEAN
    PROVE  /\ Planned(p, force) \in Run
           /\ Planned(p, force).pc = "upload" /\ Planned(p, force).unsure = {} /\ Planned(p, force).failed = {}
           /\ SentBy(Planned(p, force), at)
           /\ p = "backup" => PromisedBy(Planned(p, force), at)
<1> DEFINE r == run[p]
           rest == Targets \ r.skip
           kept == {t \in rest \cap Recorded(conf) : ~ force \/ t \in shut}
           held == (rest \ kept) \cap shut
           pending == (rest \ kept) \ held
           mark == p = "backup" /\ PrimaryHasKit(pending)
           lack == conf \in Lacking
<1>1. Planned(p, force) = [r EXCEPT !.pc = "upload", !.fp = conf, !.placed = kept, !.held = held,
                                    !.todo = pending, !.marker = mark, !.erred = lack]
  BY DEF Planned
<1>2. /\ r \in Run /\ conf \in 1..MaxConf /\ shut \subseteq Windowed /\ rec.names \subseteq Targets
      /\ at \in [Targets -> 0..MaxConf]
  BY DEF KitInv, TypeOK
<1>3. kept \in SUBSET Targets /\ held \in SUBSET Targets /\ pending \in SUBSET Targets
  OBVIOUS
<1>4. mark \in BOOLEAN /\ lack \in BOOLEAN
  BY DEF PrimaryHasKit
<1>5. \A t \in kept : at[t] = conf
  BY DEF Recorded, KitInv, RecordHeld
<1>6. p = "backup" => Primary \in rest /\ Primary \notin shut
  BY <1>2, PrimaryTarget DEF KitInv, Promise, PromisedBy
<1>7. p = "backup" => Primary \in pending \cup kept /\ (mark => Primary \in kept)
  BY <1>6 DEF PrimaryHasKit
<1> HIDE DEF kept, held, pending, mark, lack
<1>8. Planned(p, force) \in Run
  <2>1. conf \in 0..MaxConf
    BY <1>2, KitAssumption
  <2>2. QED
    BY <1>1, <1>2, <1>3, <1>4, <2>1, ZenonT(40) DEF Run, Inside
<1>9. /\ Planned(p, force).pc = "upload" /\ Planned(p, force).fp = conf /\ Planned(p, force).placed = kept
      /\ Planned(p, force).todo = pending /\ (Planned(p, force).marker <=> mark)
      /\ Planned(p, force).asked = r.asked /\ Planned(p, force).skip = r.skip /\ Planned(p, force).unsure = r.unsure
      /\ Planned(p, force).failed = r.failed
  BY <1>1, <1>2 DEF Run
<1>10. p = "backup" => r.asked <= conf
  BY DEF KitInv, Promise, PromisedBy
<1>11. r.unsure = {} /\ r.failed = {}
  BY DEF KitInv, Sent, SentBy
<1>12. SentBy(Planned(p, force), at)
  BY <1>2, <1>5, <1>9, <1>11 DEF SentBy, KitInv, Known
<1>13. CASE p = "backup"
  <2>1. at[Primary] = conf \/ ~ mark
    BY <1>5, <1>7, <1>13
  <2>2. PromisedBy(Planned(p, force), at)
    BY <1>2, <1>6, <1>7, <1>9, <1>10, <1>13, <2>1 DEF PromisedBy
  <2>3. QED
    BY <1>8, <1>9, <1>11, <1>12, <2>2
<1>14. QED
  BY <1>8, <1>9, <1>11, <1>12, <1>13

\* A placement r that returns sends nothing more, and a backup's still has what it promises:
\* a failure counts only what its marker says.
LEMMA Returns ==
    ASSUME NEW r \in Run, NEW code \in Codes, NEW p \in Runners, KitInv,
           p = "backup" => PromisedBy(r, at) /\ (code = "failed" \/ at[Primary] >= r.asked)
    PROVE  /\ Returned(p, r, code) \in Run
           /\ Returned(p, r, code).pc = "report" /\ SentBy(Returned(p, r, code), at)
           /\ p = "backup" => PromisedBy(Returned(p, r, code), at)
<1> DEFINE x == Returned(p, r, code)
<1>1. x \in Run
  BY ReturnedRun
<1>2. x.pc = "report" /\ x.skip = {}
  BY DEF Returned, Idle
<1>b. p = "backup" => x.asked = r.asked /\ x.code = code /\ (x.marker <=> r.marker)
  BY DEF Returned, Idle, Run
<1> HIDE DEF x
<1>3. at[Primary] \in Nat /\ x.asked \in Nat
  BY <1>1, PrimaryTarget, KitAssumption DEF KitInv, TypeOK, Run
<1>4. SentBy(x, at)
  BY <1>2 DEF SentBy
<1>5. ASSUME p = "backup" PROVE Vouched(x) <= at[Primary]
  <2>1. CASE at[Primary] >= r.asked
    BY <1>5, <1>1, <1>2, <1>b, <1>3, <2>1, VouchedAsked
  <2>2. CASE code = "failed"
    <3>1. Vouched(x) = 0 \/ x.marker
      BY <1>5, <1>2, <1>b, <2>2 DEF Vouched
    <3>2. x.marker => at[Primary] >= x.asked
      BY <1>2, <1>b, <1>5 DEF PromisedBy
    <3>3. QED
      BY <1>1, <1>3, <3>1, <3>2, VouchedAsked
  <2>3. QED
    BY <1>5, <2>1, <2>2
<1>6. p = "backup" => PromisedBy(x, at)
  <2> SUFFICES ASSUME p = "backup" PROVE PromisedBy(x, at)
    OBVIOUS
  <2>1. Vouched(x) \in Nat /\ Vouched(x) <= at[Primary]
    BY <1>1, <1>5, VouchedAsked, KitAssumption
  <2>2. QED
    BY <1>2, <1>b, <1>3, <2>1 DEF PromisedBy
<1>7. QED
  BY <1>1, <1>2, <1>4, <1>6 DEF x

\* A placement takes the lock, plans what it sends, or returns before it sends anything.
LEMMA Plans ==
    ASSUME KitInv, NEW p \in Runners,
           Take(p) \/ (p = "daemon" /\ Busy) \/ BuildFails(p) \/ Build(p) \/ SealFails(p)
    PROVE  KitInv' /\ \A t \in Targets : at'[t] >= at[t]
<1>0. /\ UNCHANGED <<storages, rec>> /\ at' = at /\ Rest' /\ conf' = conf /\ vouched' = vouched
      /\ run[p] \in Run /\ conf \in Nat /\ at[Primary] \in Nat /\ run[p].asked \in Nat
      /\ SentBy(run[p], at) /\ (p = "backup" => PromisedBy(run[p], at))
  <2>1. UNCHANGED <<storages, rec, world, told>> /\ (Sound \/ Fault)
    BY DEF Take, Busy, BuildFails, Build, SealFails
  <2>2. run[p] \in Run /\ at \in [Targets -> 0..MaxConf] /\ conf \in 1..MaxConf
    BY DEF KitInv, TypeOK
  <2>3. conf \in Nat /\ at[Primary] \in Nat /\ run[p].asked \in Nat
    BY <2>2, PrimaryTarget, KitAssumption DEF Run
  <2>4. SentBy(run[p], at) /\ (p = "backup" => PromisedBy(run[p], at))
    BY DEF KitInv, Sent, Promise
  <2>5. Rest' /\ conf' = conf /\ vouched' = vouched
    BY <2>1, Others
  <2>6. QED
    BY <2>1, <2>2, <2>3, <2>4, <2>5 DEF storages
<1>1. ASSUME NEW r \in Run, run' = [run EXCEPT ![p] = r],
             r.pc \in Inside => run[p].pc \in Inside \/ LockFree,
             SentBy(r, at), p = "backup" => PromisedBy(r, at)
      PROVE  KitInv' /\ \A t \in Targets : at'[t] >= at[t]
  BY <1>0, <1>1, Moves
<1>2. ASSUME NEW r \in Run, NEW code \in {"ok", "failed"}, run' = [run EXCEPT ![p] = Returned(p, r, code)],
             p = "backup" => PromisedBy(r, at) /\ (code = "failed" \/ at[Primary] >= r.asked)
      PROVE  KitInv' /\ \A t \in Targets : at'[t] >= at[t]
  <2>1. code \in Codes
    BY <1>2 DEF Codes
  <2>2. QED
    BY <1>1, <1>2, <2>1, Returns DEF Inside
<1>3. CASE Take(p)
  <2> DEFINE r == [run[p] EXCEPT !.pc = "build"]
  <2>1. run' = [run EXCEPT ![p] = r] /\ LockFree /\ run[p].pc = "lock"
    BY <1>3 DEF Take, KitInv, TypeOK
  <2>2. r \in Run
    BY <1>0 DEF Run, Inside
  <2>3. /\ r.pc = "build" /\ r.skip = run[p].skip /\ r.asked = run[p].asked
        /\ r.unsure = run[p].unsure /\ r.failed = run[p].failed /\ (r.marker <=> run[p].marker)
    BY <1>0 DEF Run
  <2>4. SentBy(r, at) /\ (p = "backup" => PromisedBy(r, at))
    BY <1>0, <2>1, <2>3 DEF SentBy, PromisedBy
  <2> HIDE DEF r
  <2>5. QED
    BY <1>1, <2>1, <2>2, <2>4
<1>4. CASE p = "daemon" /\ Busy
  <2>1. run' = [run EXCEPT ![p] = Idle] /\ Idle.pc = "idle"
    BY <1>4 DEF Busy, Idle
  <2>2. SentBy(Idle, at)
    BY <2>1 DEF SentBy
  <2>3. QED
    BY <1>1, <1>4, <2>1, <2>2, IdleRun DEF Inside
<1>5. CASE BuildFails(p)
  BY <1>0, <1>2, <1>5 DEF BuildFails
<1>6. ASSUME NEW code \in {"ok", "failed"}, NEW force \in BOOLEAN, run[p].pc = "build",
             run' = [run EXCEPT ![p] = Returned(p, Planned(p, force), code)],
             code = "ok" => Planned(p, force).todo = {}
      PROVE  KitInv' /\ \A t \in Targets : at'[t] >= at[t]
  <2> DEFINE r == Planned(p, force)
  <2>1. r \in Run /\ r.pc = "upload" /\ SentBy(r, at) /\ (p = "backup" => PromisedBy(r, at))
    BY <1>6, CurrentPlan
  <2>2. r.unsure = {} /\ r.failed = {}
    BY <1>6, CurrentPlan
  <2> HIDE DEF r
  <2>3. p = "backup" /\ code = "ok" => at[Primary] >= r.asked
    BY <1>0, <1>6, <2>1, <2>2 DEF SentBy, PromisedBy, r
  <2>4. QED
    BY <1>2, <1>6, <2>1, <2>3 DEF r
<1>7. CASE Build(p)
  <2> PICK force \in {FALSE, p = "manual"} :
          /\ run[p].pc = "build"
          /\ run' = [run EXCEPT ![p] = IF Planned(p, force).todo = {}
                                      THEN Returned(p, Planned(p, force), "ok") ELSE Planned(p, force)]
    BY <1>7 DEF Build
  <2>0. force \in BOOLEAN
    OBVIOUS
  <2>1. CASE Planned(p, force).todo = {}
    BY <1>6, <2>0, <2>1
  <2>2. CASE Planned(p, force).todo # {}
    BY <1>0, <1>1, <2>0, <2>2, CurrentPlan DEF Inside
  <2>3. QED
    BY <2>1, <2>2
<1>8. CASE SealFails(p)
  <2> PICK force \in {FALSE, p = "manual"} :
          /\ run[p].pc = "build"
          /\ run' = [run EXCEPT ![p] = Returned(p, Planned(p, force), "failed")]
    BY <1>8 DEF SealFails
  <2>1. force \in BOOLEAN
    OBVIOUS
  <2>2. QED
    BY <1>6, <2>1
<1>9. QED
  BY <1>3, <1>4, <1>5, <1>7, <1>8

\* An idle placement promises nothing.
LEMMA IdleKeeps ==
    ASSUME KitInv, NEW a
    PROVE  /\ Idle.pc = "idle" /\ Idle.pc \notin Inside
           /\ SentBy(Idle, a) /\ PromisedBy(Idle, a)
<1>1. /\ Idle.pc = "idle" /\ Idle.skip = {} /\ Idle.asked = 0 /\ ~ Idle.marker
  BY DEF Idle
<1>2. conf \in Nat
  BY KitAssumption DEF KitInv, TypeOK
<1>3. QED
  BY <1>1, <1>2 DEF SentBy, PromisedBy, Inside

\* A backup's placement that is through with its storages has sent the primary a kit, or has
\* failed there.
LEMMA SentPrimary ==
    ASSUME KitInv, run["backup"].pc \in {"upload", "write"}, run["backup"].todo = {}
    PROVE  Primary \in run["backup"].failed \/ at[Primary] >= run["backup"].asked
<1>1. PromisedBy(run["backup"], at) /\ SentBy(run["backup"], at) /\ run["backup"] \in Run
  BY DEF KitInv, TypeOK, Sent, Promise, Runners
<1>2. QED
  BY <1>1 DEF PromisedBy, SentBy

\* A placement goes through its storages: it holds t for its window, or sends it the kit.
LEMMA Uploads ==
    ASSUME KitInv, NEW p \in Runners, NEW t \in Targets,
           Hold(p, t) \/ UploadOK(p, t) \/ UploadUnverified(p, t) \/ UploadFails(p, t)
    PROVE  KitInv' /\ \A s \in Targets : at'[s] >= at[s]
<1> DEFINE q == run[p]
<1>0. /\ rec' = rec /\ Rest' /\ conf' = conf /\ vouched' = vouched
      /\ q \in Run /\ q.pc = "upload"
      /\ (UNCHANGED storages \/ (Uploading(p, t) /\ Publish(p, t)))
      /\ SentBy(q, at) /\ (p = "backup" => PromisedBy(q, at))
      /\ at \in [Targets -> Nat] /\ q.fp \in Nat /\ q.asked \in Nat /\ conf \in Nat /\ rec.fp \in Nat
  <2>1. UNCHANGED <<rec, world, told>> /\ (Sound \/ Fault) /\ Uploading(p, t)
        /\ (UNCHANGED storages \/ Publish(p, t))
    BY DEF Hold, UploadOK, UploadUnverified, UploadFails
  <2>2. Rest' /\ conf' = conf /\ vouched' = vouched /\ rec' = rec
    BY <2>1, Others
  <2>3. q \in Run /\ q.pc = "upload" /\ SentBy(q, at) /\ (p = "backup" => PromisedBy(q, at))
    BY <2>1 DEF KitInv, TypeOK, Sent, Promise, Uploading
  <2>4. at \in [Targets -> Nat] /\ conf \in Nat /\ rec.fp \in Nat
    BY KitAssumption DEF KitInv, TypeOK
  <2>5. q.fp \in Nat /\ q.asked \in Nat
    BY <2>3, KitAssumption DEF Run
  <2>6. QED
    BY <2>1, <2>2, <2>3, <2>4, <2>5
<1>1. ASSUME NEW s \in Targets
      PROVE  at'[s] \in Nat /\ at'[s] <= q.fp /\ at'[s] >= at[s] /\ (s # t => at'[s] = at[s])
             /\ (Publish(p, t) => at'[t] = q.fp)
  <2>1. at' = at \/ at' = [at EXCEPT ![t] = q.fp]
    BY <1>0 DEF Publish, storages
  <2>2. Publish(p, t) => at' = [at EXCEPT ![t] = q.fp]
    BY DEF Publish
  <2>3. QED
    BY <1>0, <2>1, <2>2 DEF SentBy
\* What moves is t, and what is sent stays.
<1>2. ASSUME NEW r \in Run, run' = [run EXCEPT ![p] = r],
             r.pc = "upload", r.fp = q.fp, r.asked = q.asked, r.skip = q.skip,
             r.todo = q.todo \ {t},
             r.placed \cup r.unsure \subseteq q.placed \cup q.unsure \cup {t},
             t \in r.placed \cup r.unsure => Publish(p, t) \/ t \in q.placed \cup q.unsure,
             q.placed \subseteq r.placed, q.unsure \subseteq r.unsure, q.failed \subseteq r.failed,
             r.marker => q.marker \/ (t = Primary /\ Publish(p, t)),
             t \in r.placed \cup r.unsure \cup r.failed \/ t \in shut
      PROVE  KitInv' /\ \A s \in Targets : at'[s] >= at[s]
  <2>1. SentBy(r, at')
    <3>1. rec.fp <= r.fp /\ r.fp <= conf /\ \A s \in Targets : at'[s] <= r.fp
      BY <1>0, <1>1, <1>2 DEF SentBy
    <3>2. \A s \in r.placed \cup r.unsure : at'[s] = r.fp
      <4> SUFFICES ASSUME NEW s \in r.placed \cup r.unsure PROVE at'[s] = q.fp
        BY <1>2
      <4>1. s \in Targets
        BY <1>2 DEF Run
      <4>2. CASE s = t
        BY <1>0, <1>1, <1>2, <4>1, <4>2 DEF SentBy
      <4>3. CASE s # t
        BY <1>0, <1>1, <1>2, <4>1, <4>3 DEF SentBy
      <4>4. QED
        BY <4>2, <4>3
    <3>3. QED
      BY <1>2, <3>1, <3>2 DEF SentBy
  <2>2. ASSUME p = "backup" PROVE PromisedBy(r, at')
    <3>1. Primary \in Targets /\ Primary \notin shut
      BY PrimaryTarget DEF KitInv, TypeOK
    <3>2. PromisedBy(q, at) /\ q.asked <= q.fp
      BY <1>0, <2>2 DEF PromisedBy
    <3>3. r.marker => at'[Primary] >= r.asked
      BY <1>0, <1>1, <1>2, <3>1, <3>2 DEF PromisedBy
    <3>4. Primary \in r.todo \cup r.placed \cup r.unsure \cup r.failed
      BY <1>0, <1>2, <3>1, <3>2 DEF PromisedBy
    <3>5. QED
      BY <1>2, <3>2, <3>3, <3>4 DEF PromisedBy
  <2>3. QED
    BY <1>0, <1>2, <2>1, <2>2, Moves DEF Inside
<1>3. CASE Hold(p, t)
  <2> DEFINE r == [q EXCEPT !.todo = @ \ {t}, !.held = @ \cup {t}]
  <2>1. run' = [run EXCEPT ![p] = r] /\ t \in shut
    BY <1>3 DEF Hold, KitInv, TypeOK
  <2>2. /\ r \in Run
        /\ r.pc = "upload" /\ r.fp = q.fp /\ r.asked = q.asked /\ r.skip = q.skip
        /\ r.todo = q.todo \ {t} /\ r.placed = q.placed /\ r.unsure = q.unsure
        /\ r.failed = q.failed /\ (r.marker <=> q.marker)
    BY <1>0 DEF Run
  <2> HIDE DEF r
  <2>3. QED
    BY <1>2, <2>1, <2>2
<1>4. CASE UploadOK(p, t)
  <2> DEFINE m == q.marker \/ (p = "backup" /\ t = Primary)
             r == [q EXCEPT !.todo = @ \ {t}, !.placed = @ \cup {t}, !.marker = m]
  <2>1. run' = [run EXCEPT ![p] = r] /\ Publish(p, t)
    BY <1>4 DEF UploadOK, KitInv, TypeOK
  <2>2. m \in BOOLEAN
    OBVIOUS
  <2>3. m => q.marker \/ t = Primary
    OBVIOUS
  <2> HIDE DEF m
  <2>4. /\ r \in Run
        /\ r.pc = "upload" /\ r.fp = q.fp /\ r.asked = q.asked /\ r.skip = q.skip
        /\ r.todo = q.todo \ {t} /\ r.placed = q.placed \cup {t} /\ r.unsure = q.unsure
        /\ r.failed = q.failed /\ (r.marker <=> m)
    BY <1>0, <2>2 DEF Run
  <2> HIDE DEF r
  <2>5. QED
    BY <1>2, <2>1, <2>3, <2>4
<1>5. CASE UploadUnverified(p, t)
  <2> DEFINE r == [q EXCEPT !.todo = @ \ {t}, !.unsure = @ \cup {t}]
  <2>1. run' = [run EXCEPT ![p] = r] /\ Publish(p, t)
    BY <1>5 DEF UploadUnverified, KitInv, TypeOK
  <2>2. /\ r \in Run
        /\ r.pc = "upload" /\ r.fp = q.fp /\ r.asked = q.asked /\ r.skip = q.skip
        /\ r.todo = q.todo \ {t} /\ r.placed = q.placed /\ r.unsure = q.unsure \cup {t}
        /\ r.failed = q.failed /\ (r.marker <=> q.marker)
    BY <1>0 DEF Run
  <2> HIDE DEF r
  <2>3. QED
    BY <1>2, <2>1, <2>2
<1>6. CASE UploadFails(p, t)
  <2> DEFINE r == [q EXCEPT !.todo = @ \ {t}, !.failed = @ \cup {t}]
  <2>1. run' = [run EXCEPT ![p] = r]
    BY <1>6 DEF UploadFails, KitInv, TypeOK
  <2>2. /\ r \in Run
        /\ r.pc = "upload" /\ r.fp = q.fp /\ r.asked = q.asked /\ r.skip = q.skip
        /\ r.todo = q.todo \ {t} /\ r.placed = q.placed /\ r.unsure = q.unsure
        /\ r.failed = q.failed \cup {t} /\ (r.marker <=> q.marker)
    BY <1>0 DEF Run
  <2> HIDE DEF r
  <2>3. QED
    BY <1>2, <2>1, <2>2
<1>7. QED
  BY <1>3, <1>4, <1>5, <1>6

\* A placement ends: by itself, after its report, or by a kill as it sends.
LEMMA Ends ==
    ASSUME KitInv, NEW p \in Runners, WriteFails(p) \/ Report(p) \/ Kill(p) \/ (p = "backup" /\ Deadline)
    PROVE  KitInv' /\ \A t \in Targets : at'[t] >= at[t]
<1> DEFINE q == run[p]
<1>0. /\ q \in Run /\ SentBy(q, at) /\ (p = "backup" => PromisedBy(q, at))
      /\ at[Primary] \in Nat /\ q.asked \in Nat /\ vouched \in Nat
      /\ Rest /\ rec.fp \in Nat /\ conf \in Nat
  BY PrimaryTarget, KitAssumption DEF KitInv, TypeOK, Run, Sent, Promise, Rest
<1>1. CASE WriteFails(p)
  <2>1. /\ q.pc \in {"upload", "write"} /\ q.todo = {} /\ run' = [run EXCEPT ![p] = Returned(p, q, Code(q))]
        /\ UNCHANGED <<storages, rec, world, told>> /\ Fault
    BY <1>1 DEF WriteFails
  <2>2. Code(q) \in Codes
    BY DEF Code, Codes
  <2>3. p = "backup" => Code(q) = "failed" \/ at[Primary] >= q.asked
    BY <1>0, <2>1, SentPrimary DEF SentBy, PromisedBy, Code
  <2>4. /\ Returned(p, q, Code(q)) \in Run
        /\ Returned(p, q, Code(q)).pc = "report" /\ SentBy(Returned(p, q, Code(q)), at)
        /\ p = "backup" => PromisedBy(Returned(p, q, Code(q)), at)
    BY <1>0, <2>2, <2>3, Returns
  <2>5. at' = at
    BY <2>1 DEF storages
  <2>6. QED
    BY <2>1, <2>4, <2>5, Others, Moves DEF Inside
<1>2. CASE Report(p)
  <2>1. Vouched(q) \in 0..MaxConf
    BY <1>0, VouchedAsked
  <2>2. /\ run' = [run EXCEPT ![p] = Idle] /\ UNCHANGED <<world, storages, rec, faults, outages>>
        /\ at' = at
        /\ vouched' = (IF p = "backup" THEN Vouched(q) ELSE vouched)
        /\ q.pc = "report"
    BY <1>2 DEF Report, Sound, storages
  <2>3. incident' \in BOOLEAN
    BY <1>0, <1>2 DEF Report, Incident, Rest, Run
  <2>4. Rest'
    BY <1>0, <2>1, <2>2, <2>3 DEF Rest, world, Targets, Secondaries
  <2>5. vouched' <= at[Primary] \/ vouched' = vouched
    BY <1>0, <2>2 DEF PromisedBy
  <2>6. QED
    BY <2>2, <2>4, <2>5, <1>0, IdleKeeps, IdleRun, Moves DEF world
<1>a. ASSUME Ended(p)
      PROVE  /\ run' = [run EXCEPT ![p] = Idle] /\ conf' = conf /\ rec' = rec
             /\ UNCHANGED <<down, shut, failing>> /\ faults' \in 0..MaxFaults /\ outages' = outages
             /\ UNCHANGED storages \/ \E t \in Targets : Uploading(p, t) /\ Publish(p, t)
             /\ crossed' = crossed
  BY <1>a, <1>0, KitAssumption DEF Ended, Fault, Rest, world
<1>3. CASE Kill(p)
  <2>1. Rest' /\ vouched' = vouched
    BY <1>0, <1>3, <1>a DEF Kill, told, Rest, Targets, Secondaries
  <2>2. QED
    BY <1>0, <1>3, <1>a, <2>1, IdleKeeps, IdleRun, Moves DEF Kill
<1>4. CASE p = "backup" /\ Deadline
  <2> DEFINE x == [q EXCEPT !.code = "failed"]
  <2>1. x \in Run /\ x.asked = q.asked /\ (x.marker <=> q.marker) /\ x.code = "failed"
    BY <1>0 DEF Run, Codes
  <2>2. vouched' = Vouched(x) /\ incident' = TRUE /\ Ended(p)
    BY <1>4 DEF Deadline
  <2> HIDE DEF x
  <2>3. Vouched(x) \in 0..MaxConf /\ Vouched(x) <= at[Primary]
    <3>1. Vouched(x) = 0 \/ x.marker
      BY <2>1 DEF Vouched
    <3>2. x.marker => at[Primary] >= x.asked
      BY <1>0, <1>4, <2>1 DEF PromisedBy
    <3>3. QED
      BY <1>0, <2>1, <3>1, <3>2, VouchedAsked
  <2>4. Rest'
    BY <1>0, <1>a, <2>2, <2>3 DEF Rest, Targets, Secondaries
  <2>5. at'[Primary] >= at[Primary] /\ at'[Primary] \in Nat
    <3>1. CASE UNCHANGED storages
      BY <1>0, <3>1 DEF Primary, storages
    <3>2. ASSUME NEW t \in Targets, Uploading(p, t), Publish(p, t)
          PROVE  at'[Primary] >= at[Primary] /\ at'[Primary] \in Nat
      <4>1. at' = [at EXCEPT ![t] = q.fp] /\ q.pc = "upload"
        BY <3>2 DEF Publish, Uploading
      <4>2. at[Primary] <= q.fp /\ q.fp \in Nat
        BY <1>0, <4>1, PrimaryTarget, KitAssumption DEF SentBy, Run
      <4>3. QED
        BY <1>0, <4>1, <4>2, PrimaryTarget DEF KitInv, TypeOK
    <3>3. QED
      BY <1>a, <2>2, <3>1, <3>2
  <2>6. vouched' <= at'[Primary]
    BY <1>0, <2>2, <2>3, <2>5
  <2>7. QED
    BY <1>4, <1>a, <2>2, <2>4, <2>6, IdleKeeps, IdleRun, Moves DEF Runners
<1>5. QED
  BY <1>1, <1>2, <1>3, <1>4

\* The state file is cut to nothing, then names what was sent.
LEMMA Writes ==
    ASSUME KitInv, NEW p \in Runners, Truncate(p) \/ Write(p)
    PROVE  KitInv' /\ \A t \in Targets : at'[t] >= at[t]
<1> DEFINE q == run[p]
<1>0. /\ q \in Run /\ q.pc \in {"upload", "write"} /\ q.todo = {}
      /\ SentBy(q, at) /\ (p = "backup" => PromisedBy(q, at))
      /\ UNCHANGED <<storages, world, told, faults, outages>>
      /\ at \in [Targets -> Nat] /\ q.fp \in 0..MaxConf /\ q.placed \subseteq Targets /\ conf \in Nat
  <2>1. run[p] \in Run /\ at \in [Targets -> 0..MaxConf] /\ conf \in 1..MaxConf
    BY DEF KitInv, TypeOK
  <2>2. SentBy(q, at) /\ (p = "backup" => PromisedBy(q, at))
    BY DEF KitInv, Sent, Promise
  <2>3. /\ q.pc \in {"upload", "write"} /\ (q.pc = "write" \/ q.todo = {})
        /\ UNCHANGED <<storages, world, told, faults, outages>>
    BY DEF Truncate, Write, Sound
  <2>4. q.todo = {}
    BY <2>2, <2>3 DEF SentBy
  <2>5. at \in [Targets -> Nat] /\ q.fp \in 0..MaxConf /\ q.placed \subseteq Targets /\ conf \in Nat
    BY <2>1, KitAssumption DEF Run
  <2>6. QED
    BY <2>1, <2>2, <2>3, <2>4, <2>5
<1>4. at' = at /\ at \in [Targets -> Nat]
  BY <1>0 DEF storages
<1>5. \A t \in Targets : at'[t] >= at[t]
  BY <1>4
<1>1. ASSUME NEW r \in Run, run' = [run EXCEPT ![p] = r],
             rec' \in [fp : 0..MaxConf, names : SUBSET Targets],
             rec'.fp = 0 \/ (rec'.fp = q.fp /\ rec'.names = q.placed /\ r.pc = "report"),
             r.pc \in {"write", "report"}, r.pc = "write" => SentBy(r, at),
             p = "backup" => PromisedBy(r, at)
      PROVE  KitInv'
  <2>0. run'[p] = r /\ \A o \in Runners \ {p} : run'[o] = run[o] /\ run[o].pc \notin Inside
    BY <1>0, <1>1 DEF KitInv, TypeOK, OneInside, Inside
  <2>1. TypeOK'
    <3>1. run' \in [Runners -> Run]
      BY <1>1 DEF KitInv, TypeOK
    <3>2. at' = at /\ sealed' = sealed
      BY <1>0 DEF storages
    <3>3. QED
      BY <1>0, <1>1, <3>1, <3>2 DEF KitInv, TypeOK, world, told, Targets, Secondaries, Run, Runners
  <2>2. OneInside'
    BY <2>0 DEF OneInside
  <2>3. Known'
    BY <1>0, <1>4, <1>1 DEF KitInv, Known, SentBy, world
  <2>4. Sent'
    <3> SUFFICES ASSUME NEW o \in Runners PROVE SentBy(run[o], at)'
      BY DEF Sent
    <3>1. CASE o # p
      <4>1. SentBy(run[o], at) /\ run'[o] = run[o] /\ run[o].pc \notin {"upload", "write"}
        BY <2>0, <3>1 DEF KitInv, Sent, Inside
      <4>2. QED
        BY <1>0, <1>4, <4>1 DEF SentBy
    <3>2. CASE o = p /\ r.pc = "report"
      BY <2>0, <3>2 DEF SentBy
    <3>3. CASE o = p /\ r.pc = "write"
      <4>1. rec'.fp = 0 /\ conf' = conf /\ at' = at /\ run'[o] = r /\ SentBy(r, at) /\ r.fp \in Nat
        BY <1>0, <1>4, <1>1, <2>0, <3>3, KitAssumption DEF world, Run
      <4>2. QED
        BY <3>3, <4>1 DEF SentBy, Targets
    <3>4. QED
      BY <1>1, <3>1, <3>2, <3>3
  <2>5. Promise'
    <3>1. CASE p = "backup"
      BY <1>0, <1>4, <1>1, <2>0, <3>1 DEF Promise, PromisedBy, world, Primary, Vouched
    <3>2. CASE p # "backup"
      <4>1. run'["backup"] = run["backup"]
        BY <2>0, <3>2 DEF Runners
      <4>2. QED
        BY <1>0, <1>4, <4>1 DEF KitInv, Promise, PromisedBy, world, Primary, Vouched
    <3>3. QED
      BY <3>1, <3>2
  <2>6. RecordHeld'
    <3> SUFFICES ASSUME rec'.fp = conf, NEW t \in rec'.names PROVE at[t] = conf
      BY <1>0, <1>4 DEF RecordHeld, world
    <3>1. conf # 0
      BY DEF KitInv, TypeOK
    <3>2. rec'.fp = q.fp /\ t \in q.placed
      BY <1>1, <3>1
    <3>3. QED
      BY <1>0, <3>2 DEF SentBy
  <2>7. VouchKept'
    BY <1>0, <1>4 DEF KitInv, VouchKept, told, Primary
  <2>8. QED
    BY <2>1, <2>2, <2>3, <2>4, <2>5, <2>6, <2>7 DEF KitInv
<1>2. CASE Truncate(p)
  <2> DEFINE r == [q EXCEPT !.pc = "write"]
  <2>1. run' = [run EXCEPT ![p] = r] /\ rec' = NoState
    BY <1>2 DEF Truncate, KitInv, TypeOK
  <2>2. /\ r \in Run
        /\ r.pc = "write" /\ r.skip = q.skip /\ r.asked = q.asked /\ (r.marker <=> q.marker)
        /\ r.fp = q.fp /\ r.todo = q.todo /\ r.placed = q.placed /\ r.unsure = q.unsure
        /\ r.failed = q.failed
    BY <1>0 DEF Run, Inside
  <2> HIDE DEF r
  <2>3. NoState \in [fp : 0..MaxConf, names : SUBSET Targets] /\ NoState.fp = 0
    <3>1. 0 \in 0..MaxConf
      BY KitAssumption
    <3>2. QED
      BY <3>1 DEF NoState
  <2>4. SentBy(r, at) /\ (p = "backup" => PromisedBy(r, at))
    BY <1>0, <2>2 DEF SentBy, PromisedBy
  <2>5. QED
    BY <1>0, <1>1, <1>5, <2>1, <2>2, <2>3, <2>4
<1>3. CASE Write(p)
  <2>1. /\ rec' = [fp |-> q.fp, names |-> q.placed] /\ run' = [run EXCEPT ![p] = Returned(p, q, Code(q))]
    BY <1>3 DEF Write, ToRecord
  <2>2. Code(q) \in Codes
    BY DEF Code, Codes
  <2>3. p = "backup" => Code(q) = "failed" \/ at[Primary] >= q.asked
    BY <1>0, SentPrimary DEF Code
  <2>4. /\ Returned(p, q, Code(q)) \in Run
        /\ Returned(p, q, Code(q)).pc = "report" /\ SentBy(Returned(p, q, Code(q)), at)
        /\ p = "backup" => PromisedBy(Returned(p, q, Code(q)), at)
    BY <1>0, <2>2, <2>3, Returns
  <2>5. rec' \in [fp : 0..MaxConf, names : SUBSET Targets] /\ rec'.fp = q.fp /\ rec'.names = q.placed
    BY <1>0, <2>1
  <2>6. QED
    BY <1>0, <1>1, <1>5, <2>1, <2>4, <2>5
<1>6. QED
  BY <1>2, <1>3, <1>5

\* Every step keeps the invariant, and takes no storage to an older kit.
LEMMA KitStep ==
    ASSUME KitInv, [Next]_vars
    PROVE  KitInv' /\ \A t \in Targets : at'[t] >= at[t]
<1>1. CASE Reconfigure \/ \E t \in Targets : PassFails(t) \/ Outage(t) \/ Return(t) \/ Close(t) \/ Open(t)
  <2>0. Rest /\ conf \in Nat
    BY DEF KitInv, TypeOK, Rest
  <2>1. UNCHANGED <<storages, rec, run, vouched, incident>>
    BY <1>1 DEF Reconfigure, PassFails, Outage, Return, Close, Open, told, storages
  <2>2. conf' \in 1..MaxConf /\ conf' >= conf
    BY <1>1, <2>0, KitAssumption DEF Reconfigure, PassFails, Outage, Return, Close, Open, Rest
  <2>3. down' \subseteq Targets /\ shut' \subseteq Windowed /\ failing' \subseteq Secondaries
    BY <1>1, <2>0 DEF Reconfigure, PassFails, Outage, Return, Close, Open, Rest
  <2>4. faults' \in 0..MaxFaults /\ outages' \in 0..MaxOutages
    BY <1>1, <2>0, KitAssumption
    DEF Reconfigure, PassFails, Outage, Return, Close, Open, Sound, Out, Rest
  <2>7. crossed' \in BOOLEAN
    BY <1>1, <2>0 DEF Reconfigure, PassFails, Outage, Return, Close, Open, Rest
  <2>5. Rest'
    BY <2>0, <2>1, <2>2, <2>3, <2>4, <2>7 DEF Rest, Targets, Secondaries
  <2>6. QED
    BY <2>1, <2>2, <2>5, WorldMoves
<1>2. CASE BackupStep \/ Manual \/ \E t \in Targets : CaughtUp(t)
  BY <1>2, Begins
<1>3. ASSUME NEW p \in Runners,
             Work(p) \/ BuildFails(p) \/ SealFails(p) \/ WriteFails(p) \/ Kill(p)
             \/ \E t \in Targets : UploadUnverified(p, t)
      PROVE  KitInv' /\ \A t \in Targets : at'[t] >= at[t]
  BY <1>3, Plans, Uploads, Writes, Ends DEF Work
<1>4. CASE Deadline
  BY <1>4, Ends DEF Runners
<1>5. CASE UNCHANGED vars
  <2>1. Rest' /\ conf' >= conf
    BY <1>5, KitAssumption DEF KitInv, TypeOK, Rest, vars, Targets, Secondaries
  <2>2. QED
    BY <1>5, <2>1, WorldMoves DEF vars, storages
<1>6. QED
  BY <1>1, <1>2, <1>3, <1>4, <1>5 DEF Next

\* Nothing was made or sent at first.
LEMMA KitInit == Init => KitInv
<1> SUFFICES ASSUME Init PROVE KitInv
  OBVIOUS
<1>1. TypeOK
  <2>1. 0 \in 0..MaxConf /\ 1 \in 1..MaxConf /\ 0 \in 0..MaxFaults /\ 0 \in 0..MaxOutages
    BY KitAssumption
  <2>2. NoState \in [fp : 0..MaxConf, names : SUBSET Targets]
    BY <2>1 DEF NoState
  <2>3. run \in [Runners -> Run]
    BY IdleRun DEF Init
  <2>4. QED
    BY <2>1, <2>2, <2>3 DEF Init, TypeOK
<1>2. \A p \in Runners : run[p] = Idle /\ Idle.pc = "idle"
  BY DEF Init, Idle
<1>3. conf = 1 /\ rec.fp = 0 /\ rec.names = {} /\ \A t \in Targets : at[t] = 0
  BY DEF Init, NoState
<1>4. /\ Idle.skip = {} /\ Idle.asked = 0 /\ ~ Idle.marker
  BY DEF Idle
<1>5. SentBy(Idle, at) /\ PromisedBy(Idle, at)
  BY <1>2, <1>3, <1>4 DEF SentBy, PromisedBy, Runners
<1>6. OneInside /\ Known /\ Sent /\ Promise
  BY <1>2, <1>3, <1>5 DEF OneInside, Known, Sent, Promise, Inside, Runners
<1>7. RecordHeld /\ VouchKept
  BY <1>3, PrimaryTarget DEF Init, RecordHeld, VouchKept
<1>8. QED
  BY <1>1, <1>6, <1>7 DEF KitInv

\* The types of the kit's state.
THEOREM KitTyping == Spec => []TypeOK
<1>1. KitInv /\ [Next]_vars => KitInv'
  BY KitStep
<1>2. KitInv => TypeOK
  BY DEF KitInv
<1>3. QED
  BY <1>1, <1>2, KitInit, PTL DEF Spec

\* A kit made is sealed with the password of what it holds, until a change crosses it.
LEMMA SealStep ==
    ASSUME TypeOK, SealInv, [Next]_vars
    PROVE  SealInv'
<1>0. /\ DOMAIN run = Runners /\ DOMAIN at = Targets /\ DOMAIN sealed = Targets
      /\ run \in [Runners -> Run]
  BY DEF TypeOK
<1>1. ASSUME NEW p \in Runners, NEW r, run' = [run EXCEPT ![p] = r], conf' = conf, crossed' = crossed,
             UNCHANGED storages \/ \E t \in Targets : Uploading(p, t) /\ Publish(p, t),
             crossed \/ SealedBy(r, conf)
      PROVE  SealInv'
  <2> SUFFICES ASSUME ~ crossed PROVE SealInv'
    BY <1>1 DEF SealInv
  <2>1. ASSUME NEW q \in Runners PROVE SealedBy(run'[q], conf')
    BY <1>0, <1>1, <2>1 DEF SealInv, SealedBy
  <2>2. ASSUME NEW t \in Targets PROVE Opens(t)'
    <3>1. Opens(t)
      BY <2>2 DEF SealInv
    <3>2. CASE UNCHANGED storages
      BY <3>1, <3>2 DEF Opens, storages
    <3>3. ASSUME NEW u \in Targets, Uploading(p, u), Publish(p, u) PROVE Opens(t)'
      <4>1. Key[run[p].asked] = Key[run[p].fp]
        BY <3>3 DEF SealInv, SealedBy, Uploading
      <4>2. QED
        BY <1>0, <3>1, <3>3, <4>1 DEF Publish, Opens
    <3>4. QED
      BY <1>1, <3>2, <3>3
  <2>3. QED
    BY <2>1, <2>2 DEF SealInv, SealedBy
<1>a. \A p \in Runners : run[p] \in Run /\ (crossed \/ SealedBy(run[p], conf))
  BY <1>0 DEF SealInv
<1>b. SealedBy(Idle, conf)
  BY DEF Idle, SealedBy
<1>c. ASSUME NEW p \in Runners, NEW r, NEW code PROVE SealedBy(Returned(p, r, code), conf)
  BY <1>c DEF Returned, Idle, SealedBy
<1>d. ASSUME NEW p \in Runners, NEW force, run[p].pc = "build", crossed \/ SealedBy(run[p], conf)
      PROVE  crossed \/ SealedBy(Planned(p, force), conf)
  BY <1>a, <1>d DEF Planned, SealedBy, Run
<1>2. CASE Reconfigure
  <2>1. crossed \/ crossed' \/ Key[conf'] = Key[conf] \/ \A p \in Runners : run[p].pc \notin {"lock", "build"}
    BY <1>2 DEF Reconfigure
  <2>2. UNCHANGED <<storages, run>> /\ (crossed => crossed')
    BY <1>2 DEF Reconfigure
  <2>3. QED
    BY <2>1, <2>2 DEF SealInv, SealedBy, Opens, storages
<1>3. CASE UNCHANGED vars \/ \E t \in Targets : PassFails(t) \/ Outage(t) \/ Return(t) \/ Close(t) \/ Open(t)
  <2>1. UNCHANGED <<storages, run, conf, crossed>>
    BY <1>3 DEF vars, storages, PassFails, Outage, Return, Close, Open
  <2>2. QED
    BY <2>1 DEF SealInv, SealedBy, Opens, storages
<1>4. CASE BackupStep \/ Manual \/ \E t \in Targets : CaughtUp(t)
  <2>1. ASSUME NEW p \in Runners, NEW skip, Begin(p, skip), UNCHANGED <<conf, crossed, storages>>
        PROVE  SealInv'
    <3>1. SealedBy([Idle EXCEPT !.pc = "lock", !.asked = conf, !.skip = skip], conf)
      BY DEF Idle, SealedBy
    <3>2. QED
      BY <1>1, <2>1, <3>1 DEF Begin
  <2>2. UNCHANGED <<conf, crossed, storages>>
    BY <1>4 DEF BackupStep, Manual, CaughtUp, world
  <2>3. CASE BackupStep
    BY <2>1, <2>2, <2>3 DEF BackupStep, Runners
  <2>4. CASE Manual
    BY <2>1, <2>2, <2>4 DEF Manual, Runners
  <2>5. CASE UNCHANGED run
    BY <2>2, <2>5 DEF SealInv, SealedBy, Opens, storages
  <2>6. CASE \E t \in Targets : CaughtUp(t)
    BY <2>1, <2>2, <2>5, <2>6 DEF CaughtUp, Runners
  <2>7. QED
    BY <1>4, <2>3, <2>4, <2>6
<1>5. ASSUME NEW p \in Runners,
             \/ Take(p) \/ Build(p) \/ Truncate(p) \/ Write(p) \/ Report(p) \/ (p = "daemon" /\ Busy)
             \/ BuildFails(p) \/ SealFails(p) \/ WriteFails(p) \/ Ended(p)
             \/ \E t \in Targets : Hold(p, t) \/ UploadOK(p, t) \/ UploadFails(p, t) \/ UploadUnverified(p, t)
      PROVE  SealInv'
  <2>1. conf' = conf /\ crossed' = crossed
    BY <1>5 DEF Take, Build, Truncate, Write, Report, Busy, BuildFails, SealFails, WriteFails, Ended,
                Hold, UploadOK, UploadFails, UploadUnverified, world
  <2>2. UNCHANGED storages \/ \E t \in Targets : Uploading(p, t) /\ Publish(p, t)
    BY <1>5 DEF Take, Build, Truncate, Write, Report, Busy, BuildFails, SealFails, WriteFails, Ended,
                Hold, UploadOK, UploadFails, UploadUnverified
  <2>3. ASSUME NEW r, run' = [run EXCEPT ![p] = r], crossed \/ SealedBy(r, conf)
        PROVE  SealInv'
    BY <1>1, <2>1, <2>2, <2>3
  <2>4. ASSUME NEW r, run' = [run EXCEPT ![p] = r],
               r.asked = run[p].asked, r.fp = run[p].fp,
               \/ r.pc = run[p].pc
               \/ r.pc = "build" /\ run[p].pc = "lock"
               \/ r.pc = "write" /\ run[p].pc = "upload"
        PROVE  SealInv'
    BY <1>a, <2>3, <2>4 DEF SealedBy
  <2>5. CASE Report(p) \/ (p = "daemon" /\ Busy) \/ Ended(p)
    BY <1>b, <2>3, <2>5 DEF Report, Busy, Ended
  <2>6. CASE BuildFails(p) \/ WriteFails(p) \/ Write(p)
    BY <1>c, <2>3, <2>6 DEF BuildFails, WriteFails, Write
  <2>7. CASE Build(p)
    <3> PICK force \in {FALSE, p = "manual"} :
            /\ run[p].pc = "build"
            /\ run' = [run EXCEPT ![p] = IF Planned(p, force).todo = {}
                                        THEN Returned(p, Planned(p, force), "ok") ELSE Planned(p, force)]
      BY <2>7 DEF Build
    <3>1. CASE Planned(p, force).todo = {}
      BY <1>c, <2>3, <3>1
    <3>2. CASE Planned(p, force).todo # {}
      BY <1>a, <1>d, <2>3, <3>2
    <3>3. QED
      BY <3>1, <3>2
  <2>8. CASE SealFails(p)
    <3> PICK force \in {FALSE, p = "manual"} :
            run' = [run EXCEPT ![p] = Returned(p, Planned(p, force), "failed")]
      BY <2>8 DEF SealFails
    <3>1. QED
      BY <1>c, <2>3
  <2>9. CASE Take(p)
    <3> DEFINE r == [run[p] EXCEPT !.pc = "build"]
    <3>1. run' = [run EXCEPT ![p] = r] /\ run[p].pc = "lock"
      BY <1>0, <2>9 DEF Take
    <3>2. r.pc = "build" /\ r.asked = run[p].asked /\ r.fp = run[p].fp
      BY <1>a DEF Run
    <3>3. QED
      BY <2>4, <3>1, <3>2
  <2>10. CASE Truncate(p)
    <3> DEFINE r == [run[p] EXCEPT !.pc = "write"]
    <3>1. run' = [run EXCEPT ![p] = r] /\ run[p].pc = "upload"
      BY <1>0, <2>10 DEF Truncate
    <3>2. r.pc = "write" /\ r.asked = run[p].asked /\ r.fp = run[p].fp
      BY <1>a DEF Run
    <3>3. QED
      BY <2>4, <3>1, <3>2
  <2>11. ASSUME NEW t \in Targets,
                Hold(p, t) \/ UploadOK(p, t) \/ UploadFails(p, t) \/ UploadUnverified(p, t)
         PROVE  SealInv'
    <3> DEFINE q == run[p]
    <3>1. CASE Hold(p, t)
      <4> DEFINE r == [q EXCEPT !.todo = @ \ {t}, !.held = @ \cup {t}]
      <4>1. run' = [run EXCEPT ![p] = r]
        BY <1>0, <3>1 DEF Hold
      <4>2. r.pc = q.pc /\ r.asked = q.asked /\ r.fp = q.fp
        BY <1>a DEF Run
      <4>3. QED
        BY <2>4, <4>1, <4>2
    <3>2. CASE UploadOK(p, t)
      <4> DEFINE r == [q EXCEPT !.todo = @ \ {t}, !.placed = @ \cup {t},
                                !.marker = @ \/ (p = "backup" /\ t = Primary)]
      <4>1. run' = [run EXCEPT ![p] = r]
        BY <1>0, <3>2 DEF UploadOK
      <4>2. r.pc = q.pc /\ r.asked = q.asked /\ r.fp = q.fp
        BY <1>a DEF Run
      <4>3. QED
        BY <2>4, <4>1, <4>2
    <3>3. CASE UploadFails(p, t)
      <4> DEFINE r == [q EXCEPT !.todo = @ \ {t}, !.failed = @ \cup {t}]
      <4>1. run' = [run EXCEPT ![p] = r]
        BY <1>0, <3>3 DEF UploadFails
      <4>2. r.pc = q.pc /\ r.asked = q.asked /\ r.fp = q.fp
        BY <1>a DEF Run
      <4>3. QED
        BY <2>4, <4>1, <4>2
    <3>4. CASE UploadUnverified(p, t)
      <4> DEFINE r == [q EXCEPT !.todo = @ \ {t}, !.unsure = @ \cup {t}]
      <4>1. run' = [run EXCEPT ![p] = r]
        BY <1>0, <3>4 DEF UploadUnverified
      <4>2. r.pc = q.pc /\ r.asked = q.asked /\ r.fp = q.fp
        BY <1>a DEF Run
      <4>3. QED
        BY <2>4, <4>1, <4>2
    <3>5. QED
      BY <2>11, <3>1, <3>2, <3>3, <3>4
  <2>12. QED
    BY <1>5, <2>5, <2>6, <2>7, <2>8, <2>9, <2>10, <2>11
<1>6. QED
  BY <1>2, <1>3, <1>4, <1>5 DEF Next, Work, Deadline, Kill, Runners

\* Nothing is sealed at first.
LEMMA SealInit == Init => SealInv
BY DEF Init, SealInv, SealedBy, Opens, Idle

\* Both invariants hold in every reachable state.
LEMMA KitInvariants == Spec => [](KitInv /\ SealInv)
<1>1. KitInv /\ SealInv /\ [Next]_vars => KitInv' /\ SealInv'
  BY KitStep, SealStep DEF KitInv
<1>2. QED
  BY <1>1, KitInit, SealInit, PTL DEF Spec

\* A storage the state file names under the present configuration holds that kit, whatever
\* placements run, are killed or leave the file short, and one that the present password
\* opens if no placement was crossed by its change.
THEOREM KitCurrentTrue == Spec => []CurrentTrue
<1>1. KitInv /\ SealInv => CurrentTrue
  BY DEF KitInv, TypeOK, RecordHeld, SealInv, CurrentTrue, OpensUncrossed
<1>2. QED
  BY <1>1, KitInvariants, PTL

\* What a backup counts as done, the primary has: a kit no older than the backup's step,
\* that opens if no placement was crossed.
THEOREM KitPrimaryVouched == Spec => []PrimaryVouched
<1>1. KitInv /\ SealInv => PrimaryVouched
  BY PrimaryTarget DEF KitInv, VouchKept, SealInv, PrimaryVouched, OpensUncrossed
<1>2. QED
  BY <1>1, KitInvariants, PTL

\* A storage's kit is only ever replaced by a newer one, or the same, that opens if no
\* placement was crossed.
THEOREM KitKitsGrow == Spec => KitsGrow
<1>1. KitInv /\ SealInv /\ [Next]_vars =>
          [\A t \in Targets : at'[t] >= at[t] /\ OpensUncrossed(t)']_storages
  <2> SUFFICES ASSUME KitInv, SealInv, [Next]_vars
               PROVE  \A t \in Targets : at'[t] >= at[t] /\ OpensUncrossed(t)'
    OBVIOUS
  <2>1. SealInv'
    BY SealStep DEF KitInv
  <2>2. QED
    BY <2>1, KitStep DEF SealInv, OpensUncrossed, Targets
<1>2. QED
  BY <1>1, KitInvariants, PTL DEF Spec, KitsGrow
=============================================================================
