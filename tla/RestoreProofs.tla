--------------------------- MODULE RestoreProofs ---------------------------
(***************************************************************************)
(* The commands of Restore implement ServiceGate's exclusion, a recovery   *)
(* that reports success has the newest it listed of every service, and a   *)
(* recovered file is replaced from the same kit only, for any number of    *)
(* commands, backups, services and storages.                               *)
(*                                                                         *)
(* The drills, the other commands of the restore package, come last, as    *)
(* the instance Drill of Drills over DrillsState: every copy they leave is *)
(* accounted for, and neither a rotation nor a turn moves on over what is  *)
(* still owed.                                                             *)
(***************************************************************************)
EXTENDS Restore, DrillsState, SequenceTheorems, FiniteSetTheorems, TLAPS

\* A command's record has its fields, whatever they hold.
Fields == DOMAIN Quiet

CmdOK ==
    /\ DOMAIN cmd = Commands
    /\ \A c \in Commands :
        /\ DOMAIN cmd[c] = Fields
        /\ cmd[c].held \in BOOLEAN
        /\ cmd[c].todo \in Seq(0..NServices)

TypeOK ==
    /\ CmdOK
    /\ child \in [Commands -> 0..Nowhere] /\ hook \in [Commands -> 0..Nowhere]
    /\ inherited \in [Commands -> BOOLEAN]
    /\ guard \in [Commands -> {"none", "starting", "running", "ending"}]
    /\ backup \in [Backups -> {"idle", "locked", "probing", "saving"}]

\* What a command's place says of what it has started.
Started ==
    \A c \in Commands :
        /\ Live(c) /\ cmd[c].pc # "restore" => child[c] = Nowhere
        /\ Live(c) /\ cmd[c].pc # "hook" => guard[c] = "none"
        /\ hook[c] # Nowhere => guard[c] \in {"running", "ending"}
        /\ guard[c] = "ending" => ~ Live(c)
        /\ guard[c] = "starting" => cmd[c].todo # <<>>
        /\ Live(c) /\ cmd[c].pc \in {"guard", "look", "connect", "restore", "hook"} => cmd[c].todo # <<>>

\* Whatever works on a service directory has the restore lock's file.
Locked ==
    \A c \in Commands :
        /\ cmd[c].pc = "look" => cmd[c].held
        /\ cmd[c].pc \in {"connect", "restore", "hook"} /\ Head(cmd[c].todo) \in Services => cmd[c].held
        /\ child[c] \in Services => inherited[c]
        /\ hook[c] \in Services => inherited[c]
        /\ guard[c] = "starting" /\ Head(cmd[c].todo) \in Services => inherited[c]

\* The lock has one holder.
OneHolder ==
    /\ \A c, d \in Commands : HoldsLock(c) /\ HoldsLock(d) => c = d
    /\ \A b \in Backups, c \in Commands : backup[b] = "probing" => ~ HoldsLock(c)

\* There is one backup, and while it saves, a restore has the lock at most to see it.
OneBackup ==
    /\ \A a, b \in Backups : backup[a] # "idle" /\ backup[b] # "idle" => a = b
    /\ \A b \in Backups, c \in Commands :
          backup[b] = "saving" /\ HoldsLock(c) => cmd[c].pc = "look"

GateInv == TypeOK /\ Started /\ Locked /\ OneHolder /\ OneBackup

-----------------------------------------------------------------------------
(* What an update does to a command's record *)

Others(c) == \A d \in Commands : d # c => cmd'[d] = cmd[d]

\* A record with the fields of cmd's, well-typed.
RecOK(r) == DOMAIN r = Fields /\ r.held \in BOOLEAN /\ r.todo \in Seq(0..NServices)

\* The fields that r has not keep their values.
LEMMA Updated ==
    ASSUME CmdOK, NEW c \in Commands, NEW r, With(c, r)
    PROVE  /\ DOMAIN cmd' = Commands /\ Others(c)
           /\ cmd'[c] = Over(r, cmd[c])
BY DEF CmdOK, With, Others

\* A step that leaves the other records alone keeps the types if its own is well-typed.
LEMMA CmdKept ==
    ASSUME CmdOK, NEW c \in Commands, DOMAIN cmd' = Commands, Others(c), RecOK(cmd'[c])
    PROVE  CmdOK'
BY DEF CmdOK, Others, RecOK, Fields, Quiet

\* What ends a command's record, and what ends one of its directories.
LEMMA DoneFacts ==
    ASSUME CmdOK, NEW c \in Commands, NEW code, With(c, Done(c, code))
    PROVE  CmdOK' /\ Others(c) /\ cmd'[c].pc = "done" /\ ~ cmd'[c].held
<1>1. DOMAIN cmd' = Commands /\ Others(c) /\ cmd'[c] = Over(Done(c, code), cmd[c])
  BY Updated
<1>2. /\ DOMAIN cmd'[c] = Fields
      /\ cmd'[c].pc = "done" /\ ~ cmd'[c].held /\ cmd'[c].held \in BOOLEAN
      /\ cmd'[c].todo = <<>>
  BY <1>1, ZenonT(40) DEF CmdOK, Fields, Done, Over, Quiet
<1>3. RecOK(cmd'[c])
  BY <1>2, EmptySeq DEF RecOK
<1>4. QED
  BY <1>1, <1>2, <1>3, CmdKept

\* A command done with a service goes on to the next, or is done and lets the lock go.
LEMMA ServedFacts ==
    ASSUME CmdOK, NEW c \in Commands, NEW code, cmd[c].todo # <<>>, With(c, Served(c, code))
    PROVE  /\ CmdOK' /\ Others(c)
           /\ \/ cmd'[c].pc = "done" /\ ~ cmd'[c].held
              \/ cmd'[c].pc = "next" /\ cmd'[c].held = cmd[c].held
<1>1. CASE cmd[c].kind = "one"
  BY <1>1, DoneFacts DEF Served
<1>2. CASE cmd[c].kind # "one"
  <2>1. DOMAIN cmd' = Commands /\ Others(c) /\ cmd'[c] = Over(Served(c, code), cmd[c])
    BY Updated
  <2>2. /\ DOMAIN cmd'[c] = Fields
        /\ cmd'[c].pc = "next" /\ cmd'[c].held = cmd[c].held /\ cmd'[c].held \in BOOLEAN
        /\ cmd'[c].todo = Tail(cmd[c].todo)
    BY <1>2, <2>1 DEF CmdOK, Fields, Served, Over, Quiet
  <2>3. Tail(cmd[c].todo) \in Seq(0..NServices)
    BY HeadTailProperties DEF CmdOK
  <2>a. RecOK(cmd'[c])
    BY <2>2, <2>3 DEF RecOK
  <2>4. QED
    BY <2>1, <2>2, <2>a, CmdKept
<1>3. QED
  BY <1>1, <1>2

\* The same with the lock let go for each service.
LEMMA ServedLetGo ==
    ASSUME CmdOK, NEW c \in Commands, NEW code, cmd[c].todo # <<>>,
           With(c, Over([held |-> FALSE], Served(c, code)))
    PROVE  CmdOK' /\ Others(c) /\ cmd'[c].pc \in {"done", "next"} /\ ~ cmd'[c].held
<1>1. DOMAIN cmd' = Commands /\ Others(c) /\ cmd'[c] = Over(Over([held |-> FALSE], Served(c, code)), cmd[c])
  BY Updated
<1>2. /\ DOMAIN cmd'[c] = Fields
      /\ cmd'[c].pc \in {"done", "next"} /\ ~ cmd'[c].held /\ cmd'[c].held \in BOOLEAN
      /\ cmd'[c].todo \in {<<>>, Tail(cmd[c].todo)}
  BY <1>1, ZenonT(40) DEF CmdOK, Fields, Served, Done, Over, Quiet
<1>3. RecOK(cmd'[c])
  BY <1>2, EmptySeq, HeadTailProperties, ZenonT(40) DEF RecOK, CmdOK
<1>4. QED
  BY <1>1, <1>2, <1>3, CmdKept

\* The same with what was got noted down.
LEMMA ServedGot ==
    ASSUME CmdOK, NEW c \in Commands, NEW code, NEW g, cmd[c].todo # <<>>,
           With(c, Over(Served(c, code), [got |-> g]))
    PROVE  /\ CmdOK' /\ Others(c)
           /\ \/ cmd'[c].pc = "done" /\ ~ cmd'[c].held
              \/ cmd'[c].pc = "next" /\ cmd'[c].held = cmd[c].held
<1>1. DOMAIN cmd' = Commands /\ Others(c) /\ cmd'[c] = Over(Over(Served(c, code), [got |-> g]), cmd[c])
  BY Updated
<1>2. CASE cmd[c].kind = "one"
  <2>1. /\ DOMAIN cmd'[c] = Fields
        /\ cmd'[c].pc = "done" /\ ~ cmd'[c].held /\ cmd'[c].held \in BOOLEAN
        /\ cmd'[c].todo = <<>>
    BY <1>1, <1>2, ZenonT(40) DEF CmdOK, Fields, Served, Done, Over, Quiet
  <2>2. RecOK(cmd'[c])
    BY <2>1, EmptySeq DEF RecOK
  <2>3. QED
    BY <1>1, <2>1, <2>2, CmdKept
<1>3. CASE cmd[c].kind # "one"
  <2>1. /\ DOMAIN cmd'[c] = Fields
        /\ cmd'[c].pc = "next" /\ cmd'[c].held = cmd[c].held /\ cmd'[c].held \in BOOLEAN
        /\ cmd'[c].todo = Tail(cmd[c].todo)
    BY <1>1, <1>3 DEF CmdOK, Fields, Served, Over, Quiet
  <2>2. Tail(cmd[c].todo) \in Seq(0..NServices)
    BY HeadTailProperties DEF CmdOK
  <2>3. RecOK(cmd'[c])
    BY <2>1, <2>2 DEF RecOK
  <2>4. QED
    BY <1>1, <2>1, <2>3, CmdKept
<1>4. QED
  BY <1>2, <1>3

\* An update of fields other than held and todo.
LEMMA Moved ==
    ASSUME CmdOK, NEW c \in Commands, NEW r, With(c, r),
           "pc" \in DOMAIN r, DOMAIN r \subseteq Fields \ {"held", "todo"}
    PROVE  /\ CmdOK' /\ Others(c)
           /\ cmd'[c].pc = r.pc /\ cmd'[c].held = cmd[c].held /\ cmd'[c].todo = cmd[c].todo
<1>1. DOMAIN cmd' = Commands /\ Others(c) /\ cmd'[c] = Over(r, cmd[c])
  BY Updated
<1>2. /\ DOMAIN cmd'[c] = Fields /\ cmd'[c].pc = r.pc /\ cmd'[c].held = cmd[c].held
      /\ cmd'[c].held \in BOOLEAN /\ cmd'[c].todo = cmd[c].todo
  BY <1>1 DEF CmdOK, Fields, Over, Quiet
<1>3. RecOK(cmd'[c])
  BY <1>2 DEF CmdOK, RecOK
<1>4. QED
  BY <1>1, <1>2, <1>3, CmdKept

\* An update of other fields leaves place, lock and list alone.
LEMMA MovedList ==
    ASSUME CmdOK, NEW c \in Commands, NEW r, With(c, r), DOMAIN r \subseteq Fields \ {"held", "todo", "pc"}
    PROVE  /\ CmdOK' /\ Others(c)
           /\ cmd'[c].pc = cmd[c].pc /\ cmd'[c].held = cmd[c].held /\ cmd'[c].todo = cmd[c].todo
<1>1. DOMAIN cmd' = Commands /\ Others(c) /\ cmd'[c] = Over(r, cmd[c])
  BY Updated
<1>2. /\ DOMAIN cmd'[c] = Fields /\ cmd'[c].pc = cmd[c].pc /\ cmd'[c].held = cmd[c].held
      /\ cmd'[c].held \in BOOLEAN /\ cmd'[c].todo = cmd[c].todo
  BY <1>1 DEF CmdOK, Fields, Over, Quiet
<1>3. RecOK(cmd'[c])
  BY <1>2 DEF CmdOK, RecOK
<1>4. QED
  BY <1>1, <1>2, <1>3, CmdKept

-----------------------------------------------------------------------------
(* The gate *)

\* Being nowhere is none of the services.
LEMMA NowhereFact == Nowhere \notin Services /\ Nowhere \in 0..Nowhere /\ 0..NServices \subseteq 0..Nowhere
BY RestoreAssumption DEF Nowhere, Services

\* Who is at work has the lock, and is past its look for a backup.
LEMMA AtWorkHolds ==
    ASSUME GateInv, NEW c \in Commands, c \in AtWork
    PROVE  HoldsLock(c) /\ cmd[c].pc # "look"
<1>1. CASE child[c] \in Services
  BY <1>1, NowhereFact DEF GateInv, Started, Locked, HoldsLock, Live, Ended
<1>2. CASE hook[c] \in Services
  BY <1>2, NowhereFact DEF GateInv, Started, Locked, HoldsLock, Live, Ended
<1>3. CASE Live(c) /\ cmd[c].held /\ cmd[c].pc # "look"
  BY <1>3 DEF HoldsLock
<1>4. QED
  BY <1>1, <1>2, <1>3, RestoreAssumption DEF AtWork

\* At most one command is at work.
LEMMA Exclusive == GateInv => \A x, y \in AtWork : x = y
<1> SUFFICES ASSUME GateInv PROVE \A x, y \in AtWork : x = y
  OBVIOUS
<1>1. \A b \in Backups, c \in Commands : ~ (backup[b] = "saving" /\ c \in AtWork)
  BY AtWorkHolds DEF GateInv, OneBackup
<1>2. \A c, d \in Commands : c \in AtWork /\ d \in AtWork => c = d
  BY AtWorkHolds DEF GateInv, OneHolder
<1>3. \A a, b \in Backups : backup[a] = "saving" /\ backup[b] = "saving" => a = b
  BY DEF GateInv, OneBackup
<1>4. QED
  BY <1>1, <1>2, <1>3 DEF AtWork

\* A step of c in which it takes nothing and starts nothing, from anywhere but its look.
LEMMA QuietStep ==
    ASSUME GateInv, NEW c \in Commands, CmdOK', Others(c),
           UNCHANGED <<child, inherited, guard, hook, backup>>,
           cmd'[c].held => cmd[c].held /\ Live(c) /\ cmd[c].pc # "look",
           cmd'[c].pc \notin {"look", "restore", "hook"},
           cmd'[c].pc \notin Ended => child[c] = Nowhere /\ guard[c] = "none",
           cmd'[c].pc \in {"guard", "connect"} => cmd'[c].todo # <<>>,
           cmd'[c].pc = "connect" /\ Head(cmd'[c].todo) \in Services => cmd'[c].held,
           guard[c] = "starting" => cmd'[c].todo = cmd[c].todo
    PROVE  GateInv' /\ \A x \in AtWork' : x \in AtWork
<1>1. TypeOK'
  BY DEF GateInv, TypeOK
<1>2. Started'
  BY DEF GateInv, Started, Live, Others
<1>3. Locked'
  BY DEF GateInv, Locked, Live, Others, Ended
<1>4. \A d \in Commands : HoldsLock(d)' => HoldsLock(d)
  BY DEF HoldsLock, Live, Others
<1>5. \A x \in AtWork' : x \in AtWork
  BY DEF AtWork, Live, Others
<1>6. OneHolder'
  BY <1>4 DEF GateInv, OneHolder
<1>a. HoldsLock(c)' => cmd[c].pc # "look"
  BY DEF GateInv, Started, HoldsLock, Live, Ended
<1>7. OneBackup'
  BY <1>4, <1>a DEF GateInv, OneBackup, Others
<1>8. QED
  BY <1>1, <1>2, <1>3, <1>5, <1>6, <1>7 DEF GateInv

\* A function on 1..n is a sequence.
LEMMA FunctionSeq ==
    ASSUME NEW T, NEW n \in Nat, NEW q \in [1..n -> T]
    PROVE  q \in Seq(T)
OBVIOUS

\* Steps that start or end a command, or move it through a recovery's first steps.
LEMMA EarlySteps ==
    ASSUME GateInv, NEW c \in Commands,
           \/ Start(c) \/ RecoverBegin(c) \/ RecoverOut(c) \/ RecoverMark(c) \/ RecoverCopy(c)
           \/ RecoverKeys(c) \/ RecoverList(c) \/ RecoverPlan(c) \/ Finish(c) \/ Kill(c)
    PROVE  GateInv' /\ \A x \in AtWork' : x \in AtWork
<1>0. CmdOK
  BY DEF GateInv, TypeOK
<1>1. CASE Start(c)
  <2>1. \E r \in AutoRequests \cup InteractiveRequests \cup {AllRequest} : cmd' = [cmd EXCEPT ![c] = r]
    BY <1>1 DEF Start
  <2>2. PICK r \in AutoRequests \cup InteractiveRequests \cup {AllRequest} : cmd' = [cmd EXCEPT ![c] = r]
    BY <2>1
  <2>3. PICK kind, todo, left, want : todo \in Seq(0..NServices) /\ r = Asked(kind, todo, left, want)
    <3>1. \A d \in 0..NServices : <<d>> \in Seq(0..NServices)
      OBVIOUS
    <3>2. {Elsewhere} \cup Services \subseteq 0..NServices
      BY RestoreAssumption DEF Elsewhere, Services
    <3>3. EveryService \in Seq(0..NServices)
      BY RestoreAssumption DEF EveryService, Services
    <3>4. CASE r \in AutoRequests
      <4>1. PICK d, l, w : d \in {Elsewhere} \cup Services /\ r = Asked("one", <<d>>, l, w)
        BY <3>4 DEF AutoRequests
      <4>2. <<d>> \in Seq(0..NServices)
        BY <3>1, <3>2, <4>1
      <4>3. QED
        BY <4>1, <4>2
    <3>5. CASE r \in InteractiveRequests
      <4>1. PICK d \in Services, t \in Targets : r \in {Asked("one", <<d>>, <<t>>, w) : w \in Stored[t][d]}
        BY <3>5 DEF InteractiveRequests
      <4>2. <<d>> \in Seq(0..NServices)
        BY <3>1, <3>2
      <4>3. QED
        BY <4>1, <4>2
    <3>6. CASE r = AllRequest
      BY <3>3, <3>6 DEF AllRequest
    <3>7. QED
      BY <3>4, <3>5, <3>6
  <2>4. /\ DOMAIN cmd'[c] = Fields
        /\ cmd'[c].pc = "next" /\ ~ cmd'[c].held /\ cmd'[c].held \in BOOLEAN /\ cmd'[c].todo = todo
    BY <1>0, <2>2, <2>3 DEF CmdOK, Fields, Asked, Over, Quiet
  <2>5. DOMAIN cmd' = Commands /\ Others(c)
    BY <1>0, <2>2 DEF CmdOK, Others
  <2>6. RecOK(cmd'[c])
    BY <2>3, <2>4 DEF RecOK
  <2>7. CmdOK'
    BY <1>0, <2>5, <2>6, CmdKept
  <2>8. QED
    BY <1>1, <2>4, <2>5, <2>7, QuietStep DEF Start, Fresh
<1>2. CASE RecoverBegin(c)
  <2>1. DOMAIN cmd' = Commands /\ Others(c)
    BY <1>0, <1>2 DEF RecoverBegin, CmdOK, Others
  <2>a. PICK k \in Kits : cmd' = [cmd EXCEPT ![c] = Over([pc |-> "out", kind |-> "recover", kit |-> k], Quiet)]
    BY <1>2 DEF RecoverBegin
  <2>2. /\ DOMAIN cmd'[c] = Fields
        /\ cmd'[c].pc = "out" /\ ~ cmd'[c].held /\ cmd'[c].held \in BOOLEAN /\ cmd'[c].todo = <<>>
    BY <1>0, <2>a DEF CmdOK, Fields, Over, Quiet
  <2>3. RecOK(cmd'[c])
    BY <2>2, EmptySeq DEF RecOK
  <2>4. CmdOK'
    BY <1>0, <2>1, <2>3, CmdKept
  <2>5. QED
    BY <1>2, <2>1, <2>2, <2>4, QuietStep DEF RecoverBegin, Fresh
<1>a. /\ Live(c) /\ cmd[c].pc \notin {"look", "restore", "hook"} =>
           child[c] = Nowhere /\ guard[c] = "none"
      /\ cmd[c].pc \in {"done", "dead"} => ~ Live(c)
  BY DEF GateInv, Started, Live, Ended
<1>b. ASSUME CmdOK', Others(c), UNCHANGED <<child, inherited, guard, hook, backup>>,
             Live(c), cmd[c].pc \notin {"look", "restore", "hook"},
             cmd'[c].held => cmd[c].held,
             cmd'[c].pc \notin {"look", "restore", "hook", "guard", "connect"}
      PROVE  GateInv' /\ \A x \in AtWork' : x \in AtWork
  BY <1>a, <1>b, QuietStep
<1>3. CASE RecoverOut(c)
  <2>1. CASE With(c, [pc |-> "unmark"])
    BY <1>0, <1>3, <1>b, <2>1, Moved DEF RecoverOut, Live, Ended, Fields, Quiet
  <2>2. CASE With(c, Done(c, "notfound"))
    BY <1>0, <1>3, <1>b, <2>2, DoneFacts DEF RecoverOut, Live, Ended
  <2>3. QED
    BY <1>3, <2>1, <2>2 DEF RecoverOut
<1>4. CASE RecoverMark(c)
  <2>1. MarkSteps(cmd[c].kit)[cmd[c].pc][2] \in {"create", "write", "copy"}
    BY <1>4 DEF RecoverMark, MarkSteps
  <2>2. PICK p \in {"create", "write", "copy"} : With(c, [pc |-> p, left |-> [f \in Files |-> f]])
    BY <1>4, <2>1 DEF RecoverMark
  <2>3. QED
    BY <1>0, <1>4, <1>b, <2>2, Moved DEF RecoverMark, MarkSteps, Live, Ended, Fields, Quiet
<1>5. CASE RecoverCopy(c)
  BY <1>0, <1>5, <1>b, Moved DEF RecoverCopy, Live, Ended, Fields, Quiet
<1>6. CASE RecoverKeys(c)
  <2>1. CASE With(c, [pc |-> "list", left |-> AllTargets])
    BY <1>0, <1>6, <1>b, <2>1, Moved DEF RecoverKeys, Live, Ended, Fields, Quiet
  <2>2. CASE With(c, Done(c, "notfound"))
    BY <1>0, <1>6, <1>b, <2>2, DoneFacts DEF RecoverKeys, Live, Ended
  <2>3. QED
    BY <1>6, <2>1, <2>2 DEF RecoverKeys
<1>7. CASE RecoverList(c)
  BY <1>0, <1>7, <1>b, MovedList DEF RecoverList, Live, Ended, Fields, Quiet
<1>9. CASE Finish(c)
  BY <1>0, <1>9, <1>b, DoneFacts DEF Finish, Live, Ended
<1>8. CASE RecoverPlan(c)
  <2>1. CASE \E code : With(c, Done(c, code))
    BY <1>0, <1>8, <1>b, <2>1, DoneFacts DEF RecoverPlan, Live, Ended
  <2>2. CASE \E p \in Plans(c) : With(c, p)
    <3>1. PICK p \in Plans(c) : With(c, p)
      BY <2>2
    <3>2. PICK S, q, f : S \subseteq Services /\ q \in InTurn(S) /\ p = [pc |-> "next", todo |-> q, failed |-> f]
      BY DEF Plans, placeServices, placeRecorded
    <3>3. q \in Seq(0..NServices)
      <4>1. PICK n \in 0..NServices : q \in [1..n -> S]
        BY <3>2 DEF InTurn
      <4>2. S \subseteq 0..NServices
        BY <3>2, RestoreAssumption DEF Services
      <4>3. n \in Nat
        BY <4>1, RestoreAssumption
      <4>4. q \in [1..n -> 0..NServices]
        BY <4>1, <4>2
      <4>5. QED
        BY <4>3, <4>4, FunctionSeq
    <3>4. DOMAIN cmd' = Commands /\ Others(c) /\ cmd'[c] = Over(p, cmd[c])
      BY <1>0, <3>1, Updated
    <3>5. /\ DOMAIN cmd'[c] = Fields /\ cmd'[c].held = cmd[c].held
          /\ cmd'[c].pc = "next" /\ cmd'[c].held \in BOOLEAN /\ cmd'[c].todo = q
      BY <1>0, <3>2, <3>4 DEF CmdOK, Fields, Over, Quiet
    <3>6. RecOK(cmd'[c])
      BY <3>3, <3>5 DEF RecOK
    <3>7. CmdOK'
      BY <1>0, <3>4, <3>6, CmdKept
    <3>8. QED
      BY <1>8, <1>b, <3>4, <3>5, <3>7 DEF RecoverPlan, Live, Ended
  <2>3. QED
    BY <1>8, <2>1, <2>2 DEF RecoverPlan
<1>10. CASE Kill(c)
  <2>1. DOMAIN cmd' = Commands /\ Others(c) /\ cmd'[c] = Over(Gone(c), cmd[c])
    BY <1>0, <1>10, Updated DEF Kill
  <2>2. /\ DOMAIN cmd'[c] = Fields
        /\ cmd'[c].pc = "dead" /\ ~ cmd'[c].held /\ cmd'[c].held \in BOOLEAN /\ cmd'[c].todo = cmd[c].todo
    BY <1>0, <2>1 DEF CmdOK, Fields, Gone, Over, Quiet
  <2>3. RecOK(cmd'[c])
    BY <1>0, <2>2 DEF CmdOK, RecOK
  <2>4. CmdOK'
    BY <1>0, <2>1, <2>3, CmdKept
  <2>5. QED
    BY <1>10, <2>1, <2>2, <2>4, QuietStep DEF Kill, Ended
<1>11. QED
  BY <1>1, <1>2, <1>3, <1>4, <1>5, <1>6, <1>7, <1>8, <1>9, <1>10

\* Steps through the directories in which nothing is started.
LEMMA DirectorySteps ==
    ASSUME GateInv, NEW c \in Commands,
           \/ NextService(c) \/ Passed(c) \/ Exhausted(c)
           \/ Guard(c) /\ (cmd[c].held \/ Head(cmd[c].todo) = Elsewhere \/ ~ LockFree)
           \/ Look(c) /\ backupRunning
    PROVE  GateInv' /\ \A x \in AtWork' : x \in AtWork
<1>0. CmdOK
  BY DEF GateInv, TypeOK
<1>a. /\ Live(c) /\ cmd[c].pc \notin {"restore", "hook"} => child[c] = Nowhere /\ guard[c] = "none"
      /\ Live(c) /\ cmd[c].pc \in {"guard", "look", "connect"} => cmd[c].todo # <<>>
      /\ cmd[c].pc = "connect" /\ Head(cmd[c].todo) \in Services => cmd[c].held
  BY DEF GateInv, Started, Locked, Live, Ended
<1>1. CASE NextService(c)
  BY <1>0, <1>1, <1>a, Moved, QuietStep DEF NextService, Live, Ended, Fields, Quiet
<1>2. CASE Passed(c)
  BY <1>0, <1>2, <1>a, MovedList, QuietStep DEF Passed, Live, Ended, Fields, Quiet
<1>3. CASE Exhausted(c)
  BY <1>0, <1>3, <1>a, ServedFacts, QuietStep DEF Exhausted, Live, Ended
<1>4. CASE Guard(c) /\ (cmd[c].held \/ Head(cmd[c].todo) = Elsewhere \/ ~ LockFree)
  <2>1. CASE With(c, [pc |-> "connect"])
    <3>1. Head(cmd[c].todo) \in Services => cmd[c].held
      <4>1. Elsewhere \notin Services
        BY RestoreAssumption DEF Elsewhere, Services
      <4>2. CASE cmd[c].held
        BY <4>2
      <4>3. CASE Head(cmd[c].todo) = Elsewhere
        BY <4>1, <4>3
      <4>4. CASE ~ cmd[c].held /\ Head(cmd[c].todo) # Elsewhere /\ ~ LockFree
        <5>1. With(c, Served(c, "busy"))
          BY <1>4, <4>4 DEF Guard
        <5>2. QED
          BY <1>0, <1>4, <1>a, <2>1, <5>1, Moved, ServedFacts DEF Guard, Live, Ended, Fields, Quiet
      <4>5. QED
        BY <1>4, <4>2, <4>3, <4>4
    <3>2. QED
      BY <1>0, <1>4, <1>a, <2>1, <3>1, Moved, QuietStep DEF Guard, Live, Ended, Fields, Quiet
  <2>2. CASE With(c, Served(c, "busy"))
    BY <1>0, <1>4, <1>a, <2>2, ServedFacts, QuietStep DEF Guard, Live, Ended
  <2>3. QED
    BY <1>4, <2>1, <2>2 DEF Guard
<1>5. CASE Look(c) /\ backupRunning
  BY <1>0, <1>5, <1>a, ServedLetGo, QuietStep DEF Look, Live, Ended
<1>6. QED
  BY <1>1, <1>2, <1>3, <1>4, <1>5

\* What a step of c does not touch.
LEMMA OthersApart ==
    ASSUME GateInv, NEW c \in Commands, Others(c), UNCHANGED backup,
           \A d \in Commands : d # c => /\ child'[d] = child[d] /\ inherited'[d] = inherited[d]
                                        /\ guard'[d] = guard[d] /\ hook'[d] = hook[d]
    PROVE  \A d \in Commands : d # c => (HoldsLock(d)' <=> HoldsLock(d)) /\ (d \in AtWork' <=> d \in AtWork)
BY DEF Others, HoldsLock, Live, AtWork

\* A restore takes the lock when nothing else has it.
LEMMA TakeLock ==
    ASSUME GateInv, NEW c \in Commands, Guard(c), ~ cmd[c].held, Head(cmd[c].todo) # Elsewhere, LockFree
    PROVE  GateInv' /\ \A x \in AtWork' : x \in AtWork
<1>0. CmdOK
  BY DEF GateInv, TypeOK
<1>1. With(c, [pc |-> "look", held |-> TRUE])
  BY DEF Guard
<1>2. DOMAIN cmd' = Commands /\ Others(c) /\ cmd'[c] = Over([pc |-> "look", held |-> TRUE], cmd[c])
  BY <1>0, <1>1, Updated
<1>3. /\ DOMAIN cmd'[c] = Fields
      /\ cmd'[c].pc = "look" /\ cmd'[c].held /\ cmd'[c].held \in BOOLEAN /\ cmd'[c].todo = cmd[c].todo
  BY <1>0, <1>2 DEF CmdOK, Fields, Over, Quiet
<1>4. CmdOK'
  BY <1>0, <1>2, <1>3, CmdKept DEF RecOK, CmdOK
<1>5. TypeOK'
  BY <1>4 DEF GateInv, TypeOK, Guard
<1>6. cmd[c].pc = "guard" /\ Live(c) /\ child[c] = Nowhere /\ guard[c] = "none" /\ cmd[c].todo # <<>>
  BY DEF GateInv, Started, Guard, Live, Ended
<1>7. Started'
  BY <1>2, <1>3, <1>6 DEF GateInv, Started, Guard, Live, Others
<1>8. Locked'
  BY <1>2, <1>3, <1>6 DEF GateInv, Locked, Guard, Live, Others
<1>9. \A d \in Commands : d # c => ~ HoldsLock(d)' /\ (d \in AtWork' <=> d \in AtWork)
  BY <1>2, OthersApart DEF Guard, LockFree
<1>10. OneHolder'
  BY <1>9 DEF OneHolder, LockFree, Guard
<1>11. c \in AtWork' => c \in AtWork
  BY <1>3 DEF AtWork, Live, Guard
<1>12. OneBackup'
  BY <1>2, <1>3, <1>9 DEF GateInv, OneBackup, Guard
<1>13. \A x \in AtWork' : x \in AtWork
  BY <1>9, <1>11 DEF AtWork, Guard
<1>14. QED
  BY <1>5, <1>7, <1>8, <1>10, <1>12, <1>13 DEF GateInv

\* A restore goes to work when it has seen no backup: nobody else can be at work, for
\* nobody else has the lock.
LEMMA EnterWork ==
    ASSUME GateInv, NEW c \in Commands, Look(c), ~ backupRunning
    PROVE  GateInv' /\ AtWork = {}
<1>0. CmdOK
  BY DEF GateInv, TypeOK
<1>1. /\ cmd[c].pc = "look" /\ Live(c) /\ cmd[c].held /\ HoldsLock(c)
      /\ child[c] = Nowhere /\ guard[c] = "none" /\ hook[c] = Nowhere /\ cmd[c].todo # <<>>
  BY DEF GateInv, TypeOK, Started, Locked, Look, Live, Ended, HoldsLock
<1>2. /\ CmdOK' /\ Others(c)
      /\ cmd'[c].pc = "connect" /\ cmd'[c].held = cmd[c].held /\ cmd'[c].todo = cmd[c].todo
  BY <1>0, Moved DEF Look, Fields, Quiet
<1>3. AtWork = {}
  <2>1. \A d \in Commands : d \notin AtWork
    BY <1>1, AtWorkHolds DEF GateInv, OneHolder
  <2>2. \A b \in Backups : backup[b] # "saving"
    BY DEF backupRunning
  <2>3. QED
    BY <2>1, <2>2 DEF AtWork
<1>4. TypeOK'
  BY <1>2 DEF GateInv, TypeOK, Look
<1>5. Started'
  BY <1>1, <1>2 DEF GateInv, Started, Look, Live, Others
<1>6. Locked'
  BY <1>1, <1>2 DEF GateInv, Locked, Look, Live, Others
<1>7. \A d \in Commands : HoldsLock(d)' => HoldsLock(d)
  BY <1>1, <1>2 DEF HoldsLock, Live, Others, Look
<1>8. OneHolder'
  BY <1>7 DEF GateInv, OneHolder, Look
<1>9. OneBackup'
  BY DEF GateInv, OneBackup, Look, backupRunning
<1>10. QED
  BY <1>3, <1>4, <1>5, <1>6, <1>8, <1>9 DEF GateInv

\* What a restore starts has the lock's file, if the restore has.
LEMMA StartRestore ==
    ASSUME GateInv, NEW c \in Commands, Restore(c)
    PROVE  GateInv' /\ \A x \in AtWork' : x \in AtWork
<1>0. CmdOK
  BY DEF GateInv, TypeOK
<1>1. /\ cmd[c].pc = "connect" /\ Live(c) /\ cmd[c].todo # <<>>
      /\ Head(cmd[c].todo) \in Services => cmd[c].held
      /\ child[c] = Nowhere /\ guard[c] = "none" /\ hook[c] = Nowhere
  BY DEF GateInv, TypeOK, Started, Locked, Restore, Live, Ended
<1>2. PICK r : With(c, [pc |-> "restore", want |-> r])
  BY DEF Restore
<1>3. /\ CmdOK' /\ Others(c)
      /\ cmd'[c].pc = "restore" /\ cmd'[c].held = cmd[c].held /\ cmd'[c].todo = cmd[c].todo
  BY <1>0, <1>2, Moved DEF Fields, Quiet
<1>4. Head(cmd[c].todo) \in 0..Nowhere
  BY <1>0, <1>1, HeadTailProperties, RestoreAssumption DEF CmdOK, Nowhere
<1>5. /\ child' = [child EXCEPT ![c] = Head(cmd[c].todo)]
      /\ inherited' = [inherited EXCEPT ![c] = cmd[c].held]
      /\ UNCHANGED <<guard, hook, backup>>
  BY DEF Restore, Inherited
<1>6. TypeOK'
  BY <1>0, <1>3, <1>4, <1>5 DEF GateInv, TypeOK, CmdOK
<1>7. Started'
  BY <1>1, <1>3, <1>5 DEF GateInv, TypeOK, Started, Live, Others
<1>a. /\ child'[c] = Head(cmd[c].todo) /\ (inherited'[c] <=> cmd[c].held)
      /\ \A d \in Commands : d # c => child'[d] = child[d] /\ inherited'[d] = inherited[d]
  BY <1>5 DEF GateInv, TypeOK
<1>8. Locked'
  <2>1. Nowhere \notin Services
    BY RestoreAssumption DEF Nowhere, Services
  <2>2. QED
    BY <1>1, <1>3, <1>5, <1>a, <2>1 DEF GateInv, Locked, Others
<1>9. /\ \A d \in Commands : d # c => (HoldsLock(d)' <=> HoldsLock(d)) /\ (d \in AtWork' <=> d \in AtWork)
      /\ HoldsLock(c)' => HoldsLock(c)
  BY <1>1, <1>3, <1>5, OthersApart DEF GateInv, TypeOK, HoldsLock, Live
<1>10. c \in AtWork' => c \in AtWork
  BY <1>1, <1>3, <1>5, RestoreAssumption DEF GateInv, TypeOK, AtWork, Services, Nowhere
<1>11. OneHolder'
  BY <1>5, <1>9 DEF GateInv, OneHolder
<1>12. OneBackup'
  BY <1>1, <1>3, <1>5, <1>9 DEF GateInv, OneBackup, Others
<1>13. QED
  BY <1>5, <1>6, <1>7, <1>8, <1>9, <1>10, <1>11, <1>12 DEF GateInv, AtWork

\* duplicacy ends, and a hook's guard may follow it.
LEMMA EndRestore ==
    ASSUME GateInv, NEW c \in Commands, RestoreEnd(c)
    PROVE  GateInv' /\ \A x \in AtWork' : x \in AtWork
<1>0. CmdOK
  BY DEF GateInv, TypeOK
<1>1. /\ Live(c) => /\ cmd[c].pc = "restore" /\ cmd[c].todo # <<>> /\ guard[c] = "none" /\ hook[c] = Nowhere
                    /\ Head(cmd[c].todo) \in Services => cmd[c].held
      /\ child' = [child EXCEPT ![c] = Nowhere] /\ UNCHANGED <<hook, backup>>
  BY DEF GateInv, TypeOK, Started, Locked, RestoreEnd, Live, Ended
<1>2. CASE /\ CmdOK' /\ Others(c) /\ UNCHANGED <<inherited, guard>> /\ Live(c)
           /\ \/ cmd'[c].pc = "done" /\ ~ cmd'[c].held
              \/ cmd'[c].pc = "next" /\ cmd'[c].held = cmd[c].held
  <2>1. TypeOK'
    BY <1>1, <1>2 DEF GateInv, TypeOK, Nowhere
  <2>2. Started'
    BY <1>1, <1>2 DEF GateInv, TypeOK, Started, Live, Others
  <2>3. Locked'
    BY <1>1, <1>2, RestoreAssumption DEF GateInv, TypeOK, Locked, Live, Others, Services, Nowhere
  <2>4. /\ \A d \in Commands : d # c => (HoldsLock(d)' <=> HoldsLock(d)) /\ (d \in AtWork' <=> d \in AtWork)
        /\ HoldsLock(c)' => HoldsLock(c)
    BY <1>1, <1>2, OthersApart DEF GateInv, TypeOK, HoldsLock, Live
  <2>5. c \in AtWork' => c \in AtWork
    BY <1>1, <1>2, RestoreAssumption DEF GateInv, TypeOK, AtWork, Services, Nowhere, Live
  <2>6. OneHolder' /\ OneBackup'
    BY <1>1, <1>2, <2>4 DEF GateInv, OneHolder, OneBackup, Others
  <2>7. QED
    BY <1>1, <2>1, <2>2, <2>3, <2>4, <2>5, <2>6 DEF GateInv, AtWork
<1>3. CASE /\ CmdOK' /\ Others(c) /\ Live(c)
           /\ cmd'[c].pc = "hook" /\ cmd'[c].held = cmd[c].held /\ cmd'[c].todo = cmd[c].todo
           /\ guard' = [guard EXCEPT ![c] = "starting"]
           /\ inherited' = [inherited EXCEPT ![c] = cmd[c].held]
  <2>1. TypeOK'
    BY <1>0, <1>1, <1>3 DEF GateInv, TypeOK, CmdOK, Nowhere
  <2>2. Started'
    BY <1>1, <1>3 DEF GateInv, TypeOK, Started, Live, Others
  <2>3. Locked'
    BY <1>1, <1>3, RestoreAssumption DEF GateInv, TypeOK, Locked, Live, Others, Services, Nowhere
  <2>4. /\ \A d \in Commands : d # c => (HoldsLock(d)' <=> HoldsLock(d)) /\ (d \in AtWork' <=> d \in AtWork)
        /\ HoldsLock(c)' => HoldsLock(c)
    BY <1>1, <1>3, OthersApart DEF GateInv, TypeOK, HoldsLock, Live
  <2>5. c \in AtWork' => c \in AtWork
    BY <1>1, <1>3, RestoreAssumption DEF GateInv, TypeOK, AtWork, Services, Nowhere, Live
  <2>6. OneHolder' /\ OneBackup'
    BY <1>1, <1>3, <2>4 DEF GateInv, OneHolder, OneBackup, Others
  <2>7. QED
    BY <1>1, <2>1, <2>2, <2>3, <2>4, <2>5, <2>6 DEF GateInv, AtWork
<1>4. CASE ~ Live(c) /\ UNCHANGED <<cmd, inherited, guard>>
  <2>a. CmdOK'
    BY <1>0, <1>4 DEF CmdOK, Fields, Quiet
  <2>1. TypeOK'
    BY <1>1, <1>4, <2>a, RestoreAssumption DEF GateInv, TypeOK, Nowhere
  <2>2. Started'
    BY <1>1, <1>4 DEF GateInv, TypeOK, Started, Live
  <2>3. Locked'
    BY <1>1, <1>4, RestoreAssumption DEF GateInv, TypeOK, Locked, Live, Services, Nowhere
  <2>4. /\ \A d \in Commands : HoldsLock(d)' => HoldsLock(d)
        /\ \A x \in AtWork' : x \in AtWork
    BY <1>1, <1>4, RestoreAssumption DEF GateInv, TypeOK, HoldsLock, AtWork, Live, Services, Nowhere
  <2>5. OneHolder' /\ OneBackup'
    BY <1>1, <1>4, <2>4 DEF GateInv, OneHolder, OneBackup
  <2>6. QED
    BY <2>1, <2>2, <2>3, <2>4, <2>5 DEF GateInv
<1>5. QED
  <2> DEFINE kept == [got |-> IF cmd[c].kind = "recover"
                              THEN [cmd[c].got EXCEPT ![Head(cmd[c].todo)] = cmd[c].want] ELSE cmd[c].got]
  <2>1. CASE Live(c) /\ With(c, Served(c, "notfound")) /\ UNCHANGED <<inherited, guard>>
    BY <1>0, <1>1, <1>2, <2>1, ServedFacts
  <2>2. CASE Live(c) /\ With(c, Over(Served(c, "ok"), kept)) /\ UNCHANGED <<inherited, guard>>
    BY <1>0, <1>1, <1>2, <2>2, ServedGot
  <2>3. CASE /\ Live(c) /\ With(c, Over([pc |-> "hook"], kept))
             /\ guard' = [guard EXCEPT ![c] = "starting"]
             /\ inherited' = [inherited EXCEPT ![c] = Inherited(c)]
    <3>1. DOMAIN Over([pc |-> "hook"], kept) = {"pc", "got"} /\ Over([pc |-> "hook"], kept).pc = "hook"
      BY DEF Over
    <3>2. QED
      BY <1>0, <1>3, <2>3, <3>1, Moved DEF Fields, Quiet, Inherited
  <2>4. QED
    BY <1>4, <2>1, <2>2, <2>3 DEF RestoreEnd

\* The hook and its guard: what is left of a killed restore has the lock to its end.
LEMMA HookSteps ==
    ASSUME GateInv, NEW c \in Commands,
           HookStart(c) \/ HookEnd(c) \/ GuardKill(c) \/ HookGone(c) \/ GuardExit(c)
    PROVE  GateInv' /\ (AtWork = {} \/ \A x \in AtWork' : x \in AtWork)
<1>0. CmdOK /\ (UNCHANGED cmd => CmdOK')
  BY DEF GateInv, TypeOK, CmdOK, Fields, Quiet
<1>1. CASE /\ HookStart(c) /\ guard' = [guard EXCEPT ![c] = "running"]
           /\ hook' = [hook EXCEPT ![c] = Head(cmd[c].todo)] /\ UNCHANGED cmd
  <2>1. /\ guard[c] = "starting" /\ cmd[c].todo # <<>> /\ UNCHANGED <<cmd, child, inherited, backup>>
        /\ Head(cmd[c].todo) \in Services => inherited[c]
        /\ Head(cmd[c].todo) \in 0..Nowhere
    BY <1>0, <1>1, NowhereFact, HeadTailProperties DEF HookStart, GateInv, Started, Locked, CmdOK
  <2>2. TypeOK'
    BY <1>0, <1>1, <2>1 DEF GateInv, TypeOK
  <2>3. Started' /\ Locked'
    BY <1>1, <2>1 DEF GateInv, TypeOK, Started, Locked, Live
  <2>4. \A d \in Commands : /\ HoldsLock(d)' <=> HoldsLock(d)
                            /\ d # c => (d \in AtWork' <=> d \in AtWork)
    BY <1>1, <2>1 DEF GateInv, TypeOK, HoldsLock, Live, AtWork
  <2>5. OneHolder' /\ OneBackup'
    BY <2>1, <2>4 DEF GateInv, OneHolder, OneBackup
  <2>6. AtWork = {} \/ \A x \in AtWork' : x \in AtWork
    <3>1. CASE c \in AtWork' /\ c \notin AtWork
      <4>1. HoldsLock(c) /\ cmd[c].pc # "look"
        <5>1. Head(cmd[c].todo) \in Services
          BY <1>1, <2>1, <3>1, RestoreAssumption DEF AtWork, GateInv, TypeOK, Live
        <5>2. QED
          BY <2>1, <5>1 DEF GateInv, Started, HoldsLock, Live, Ended
      <4>2. \A b \in Backups : backup[b] # "saving"
        BY <4>1 DEF GateInv, OneBackup
      <4>3. \A d \in Commands : d \notin AtWork
        BY <3>1, <4>1, AtWorkHolds DEF GateInv, OneHolder
      <4>4. QED
        BY <4>2, <4>3 DEF AtWork
    <3>2. CASE ~ (c \in AtWork' /\ c \notin AtWork)
      BY <2>1, <2>4, <3>2 DEF AtWork
    <3>3. QED
      BY <3>1, <3>2
  <2>7. QED
    BY <2>2, <2>3, <2>5, <2>6 DEF GateInv
<1>2. CASE /\ guard' = [guard EXCEPT ![c] = "none"] /\ hook'[c] = Nowhere
           /\ \A d \in Commands : d # c => hook'[d] = hook[d]
           /\ hook' \in [Commands -> 0..Nowhere]
           /\ CmdOK' /\ Others(c) /\ UNCHANGED <<child, inherited, backup>>
           /\ \/ UNCHANGED cmd /\ ~ Live(c)
              \/ Live(c) /\ cmd[c].pc = "hook" /\ cmd'[c].pc = "done" /\ ~ cmd'[c].held
              \/ Live(c) /\ cmd[c].pc = "hook" /\ cmd'[c].pc = "next" /\ cmd'[c].held = cmd[c].held
  <2>1. TypeOK'
    BY <1>2 DEF GateInv, TypeOK
  <2>2. Started'
    BY <1>2 DEF GateInv, TypeOK, Started, Live, Others, Ended
  <2>3. Locked'
    BY <1>2, NowhereFact DEF GateInv, TypeOK, Locked, Live, Others
  <2>4. /\ \A d \in Commands : d # c => (HoldsLock(d)' <=> HoldsLock(d)) /\ (d \in AtWork' <=> d \in AtWork)
        /\ HoldsLock(c)' => HoldsLock(c)
    BY <1>2, OthersApart DEF GateInv, TypeOK, HoldsLock, Live, Ended
  <2>5. c \in AtWork' => c \in AtWork
    BY <1>2, NowhereFact, RestoreAssumption DEF GateInv, TypeOK, AtWork, Live, Ended
  <2>6. OneHolder' /\ OneBackup'
    BY <1>2, <2>4 DEF GateInv, OneHolder, OneBackup, Others, Live
  <2>7. QED
    BY <1>2, <2>1, <2>2, <2>3, <2>4, <2>5, <2>6 DEF GateInv, AtWork
<1>3. CASE HookStart(c)
  <2>0. guard[c] = "starting" => /\ cmd[c].todo # <<>> /\ hook[c] = Nowhere
                                 /\ Live(c) => cmd[c].pc = "hook"
    BY DEF GateInv, TypeOK, Started
  <2>1. CASE UNCHANGED <<cmd, hook>> /\ ~ Live(c) /\ guard' = [guard EXCEPT ![c] = "none"]
    BY <1>0, <1>2, <1>3, <2>0, <2>1 DEF HookStart, GateInv, TypeOK, Others
  <2>2. CASE Live(c) /\ guard' = [guard EXCEPT ![c] = "none"] /\ With(c, Served(c, "notfound")) /\ UNCHANGED hook
    BY <1>0, <1>2, <1>3, <2>0, <2>2, ServedFacts DEF HookStart, GateInv, TypeOK
  <2>3. QED
    BY <1>1, <1>3, <2>1, <2>2 DEF HookStart
<1>4. CASE HookEnd(c)
  <2>1. PICK code : With(c, Served(c, code))
    BY <1>4 DEF HookEnd
  <2>2. Live(c) /\ cmd[c].pc = "hook" /\ cmd[c].todo # <<>>
    BY <1>4 DEF HookEnd, GateInv, Started
  <2>3. QED
    BY <1>0, <1>2, <1>4, <2>1, <2>2, NowhereFact, ServedFacts DEF HookEnd, GateInv, TypeOK
<1>5. CASE GuardExit(c)
  <2>1. ~ Live(c)
    BY <1>5 DEF GuardExit, GateInv, Started
  <2>2. QED
    BY <1>0, <1>2, <1>5, <2>1 DEF GuardExit, GateInv, TypeOK, Others
<1>6. CASE GuardKill(c) \/ HookGone(c)
  <2>1. UNCHANGED <<cmd, child, inherited, backup>>
    BY <1>6 DEF GuardKill, HookGone
  <2>2. TypeOK'
    BY <1>0, <1>6, NowhereFact DEF GuardKill, HookGone, GateInv, TypeOK
  <2>3. Started' /\ Locked'
    BY <1>6, NowhereFact DEF GuardKill, HookGone, GateInv, TypeOK, Started, Locked, Live
  <2>4. \A d \in Commands : HoldsLock(d)' => HoldsLock(d)
    BY <1>6 DEF GuardKill, HookGone, GateInv, TypeOK, HoldsLock, Live
  <2>5. \A x \in AtWork' : x \in AtWork
    BY <1>6, NowhereFact DEF GuardKill, HookGone, GateInv, TypeOK, AtWork, Live
  <2>6. OneHolder' /\ OneBackup'
    BY <2>1, <2>4 DEF GateInv, OneHolder, OneBackup
  <2>7. QED
    BY <2>2, <2>3, <2>5, <2>6 DEF GateInv
<1>7. QED
  BY <1>3, <1>4, <1>5, <1>6

\* A backup takes its lock, sees that nothing of a restore has the restore lock, and saves.
LEMMA BackupSteps ==
    ASSUME GateInv, NEW b \in Backups, BackupStep(b)
    PROVE  GateInv' /\ (AtWork = {} \/ \A x \in AtWork' : x \in AtWork)
<1>0. UNCHANGED <<cmd, child, inherited, guard, hook>>
  BY DEF BackupStep, BackupLock, BackupProbe, BackupProceed, BackupEnd
<1>1. TypeOK'
  BY <1>0 DEF BackupStep, BackupLock, BackupProbe, BackupProceed, BackupEnd,
              GateInv, TypeOK, CmdOK, Fields, Quiet
<1>2. Started' /\ Locked'
  BY <1>0 DEF GateInv, Started, Locked, Live
<1>3. \A c \in Commands : HoldsLock(c)' <=> HoldsLock(c)
  BY <1>0 DEF HoldsLock, Live
<1>4. OneHolder'
  BY <1>3 DEF BackupStep, BackupLock, BackupProbe, BackupProceed, BackupEnd, LockFree,
              GateInv, TypeOK, OneHolder
<1>5. OneBackup'
  BY <1>0, <1>3 DEF BackupStep, BackupLock, BackupProbe, BackupProceed, BackupEnd, backupRunning,
              GateInv, TypeOK, OneHolder, OneBackup
<1>6. CASE BackupProceed(b)
  <2>1. \A c \in Commands : c \notin AtWork
    BY <1>6, AtWorkHolds DEF BackupProceed, GateInv, OneHolder
  <2>2. \A a \in Backups : backup[a] # "saving"
    BY <1>6 DEF BackupProceed, GateInv, OneBackup
  <2>3. AtWork = {}
    BY <2>1, <2>2 DEF AtWork
  <2>4. QED
    BY <1>1, <1>2, <1>4, <1>5, <2>3 DEF GateInv
<1>7. CASE ~ BackupProceed(b)
  <2>1. \A x \in AtWork' : x \in AtWork
    BY <1>0, <1>7 DEF BackupStep, BackupLock, BackupProbe, BackupEnd, AtWork, Live, GateInv, TypeOK
  <2>2. QED
    BY <1>1, <1>2, <1>4, <1>5, <2>1 DEF GateInv
<1>8. QED
  BY <1>6, <1>7

\* A step keeps the gate's invariant, and what it lets in to work finds nobody there.
LEMMA GateStep ==
    ASSUME GateInv, [Next]_vars
    PROVE  GateInv' /\ (AtWork = {} \/ \A x \in AtWork' : x \in AtWork)
<1>1. ASSUME NEW c \in Commands, Step(c)
      PROVE  GateInv' /\ (AtWork = {} \/ \A x \in AtWork' : x \in AtWork)
  <2>1. CASE Guard(c)
    BY <1>1, <2>1, DirectorySteps, TakeLock
  <2>2. CASE Look(c)
    BY <1>1, <2>2, DirectorySteps, EnterWork
  <2>3. CASE \/ Start(c) \/ RecoverBegin(c) \/ RecoverOut(c) \/ RecoverMark(c) \/ RecoverCopy(c)
             \/ RecoverKeys(c) \/ RecoverList(c) \/ RecoverPlan(c) \/ Finish(c) \/ Kill(c)
    BY <2>3, EarlySteps
  <2>4. CASE NextService(c) \/ Passed(c) \/ Exhausted(c)
    BY <2>4, DirectorySteps
  <2>5. CASE Restore(c)
    BY <2>5, StartRestore
  <2>6. CASE RestoreEnd(c)
    BY <2>6, EndRestore
  <2>7. CASE HookStart(c) \/ HookEnd(c) \/ GuardKill(c) \/ HookGone(c) \/ GuardExit(c)
    BY <2>7, HookSteps
  <2>8. QED
    BY <1>1, <2>1, <2>2, <2>3, <2>4, <2>5, <2>6, <2>7 DEF Step
<1>2. CASE UNCHANGED vars
  BY <1>2 DEF vars, GateInv, TypeOK, CmdOK, Fields, Quiet, Started, Locked, OneHolder, OneBackup,
              HoldsLock, Live, AtWork
<1>3. QED
  BY <1>1, <1>2, BackupSteps DEF Next

\* Nothing is held at first.
LEMMA GateInit == Init => GateInv /\ AtWork = {}
<1> SUFFICES ASSUME Init PROVE GateInv /\ AtWork = {}
  OBVIOUS
<1>1. \A c \in Commands : /\ cmd[c].pc = "idle" /\ ~ Live(c) /\ DOMAIN cmd[c] = Fields
                          /\ cmd[c].held \in BOOLEAN /\ cmd[c].todo = <<>>
  BY DEF Init, Quiet, Fields, Live, Ended
<1>2. CmdOK
  BY <1>1, EmptySeq DEF CmdOK, Init
<1>3. TypeOK
  BY <1>2, NowhereFact DEF TypeOK, Init
<1>4. \A c \in Commands : ~ HoldsLock(c) /\ c \notin AtWork
  BY <1>1, NowhereFact, RestoreAssumption DEF Init, HoldsLock, AtWork
<1>5. Started /\ Locked
  BY <1>1, NowhereFact DEF Started, Locked, Init
<1>6. QED
  BY <1>3, <1>4, <1>5 DEF GateInv, OneHolder, OneBackup, Init, AtWork

\* The commands implement ServiceGate: however they and their deaths interleave, one at a
\* time works on the service directories, and it starts when nothing does.
THEOREM RestoreExcludes == Spec => Excludes
<1>1. Init => Gate!Init
  BY GateInit DEF Gate!Init
<1>a. GateInv' => (\A x, y \in AtWork : x = y)'
  BY Exclusive, PTL
<1>2. GateInv /\ GateInv' /\ [Next]_vars => [Gate!Next]_AtWork
  <2> SUFFICES ASSUME GateInv, GateInv', [Next]_vars, AtWork' # AtWork
               PROVE  \E a \in Commands \cup Backups : Gate!Enter(a) \/ Gate!Leave(a)
    BY DEF Gate!Next
  <2>1. AtWork = {} \/ \A x \in AtWork' : x \in AtWork
    BY GateStep
  <2>2. AtWork \subseteq Commands \cup Backups /\ AtWork' \subseteq Commands \cup Backups
    BY DEF AtWork
  <2>3. \A x, y \in AtWork : x = y
    BY Exclusive
  <2>4. CASE AtWork = {}
    <3>1. PICK a \in AtWork' : TRUE
      BY <2>4
    <3>2. AtWork' = {a}
      BY <1>a, <3>1
    <3>3. QED
      BY <2>2, <2>4, <3>1, <3>2 DEF Gate!Enter
  <2>5. CASE AtWork # {}
    <3>1. PICK a \in AtWork : AtWork = {a}
      BY <2>3, <2>5
    <3>2. AtWork' = {}
      BY <2>1, <2>5, <3>1
    <3>3. QED
      BY <2>2, <3>1, <3>2 DEF Gate!Leave
  <2>6. QED
    BY <2>4, <2>5
<1>3. GateInv /\ [Next]_vars => GateInv'
  BY GateStep
<1>4. QED
  BY <1>1, <1>2, <1>3, GateInit, PTL DEF Spec, Excludes, Gate!Spec

-----------------------------------------------------------------------------
(* The guided recovery *)

Early == {"out", "unmark", "create", "write", "copy", "fill", "list"}
Loop == {"next", "guard", "look", "connect", "restore", "hook"}

None == [s \in Services |-> 0]

\* What is left to restore, and what has been.
Planned(r) ==
    /\ r.todo \in Seq(Services)
    /\ \A i \in 1..Len(r.todo) : r.listed[r.todo[i]] # 0
    /\ \A s \in Services : r.listed[s] = 0 => r.got[s] = 0
    /\ ~ r.failed => \A s \in Services :
          /\ r.got[s] = r.listed[s] \/ \E i \in 1..Len(r.todo) : r.todo[i] = s
          /\ r.kit \notin OldKits => r.listed[s] # 0

\* A recovery's record, wherever it is.
Recovery(r) ==
    /\ r.kit \in Kits
    /\ r.listed \in [Services -> Nat] /\ r.got \in [Services -> Nat]
    /\ r.pc \in Early \cup Loop \cup {"done"}
    /\ r.pc \in Early => r.got = None /\ ~ r.failed
    /\ r.pc = "list" => r.left \in Seq(Targets)
    /\ r.pc \in Loop => Planned(r)
    /\ r.pc \in {"guard", "look", "connect", "restore"} => r.want = r.listed[Head(r.todo)]
    /\ r.pc = "hook" => r.got[Head(r.todo)] = r.listed[Head(r.todo)]
    /\ r.pc # "done" => r.code = "none"
    /\ r.code = "ok" => \A s \in Services : /\ r.got[s] = r.listed[s]
                                            /\ r.kit \notin OldKits => r.got[s] # 0

Good(r) ==
    /\ r.pc \in Early => r.kind = "recover"
    /\ r.kind = "recover" => Recovery(r)

RecoverInv == \A c \in Commands : Good(cmd[c])

\* A storage's newest revision of a service is a number.
LEMMA NewestNat ==
    ASSUME NEW t \in Targets, NEW s \in Services
    PROVE  Newest(t, s) \in Nat
<1> DEFINE S == Stored[t][s] \cup {0}
<1>1. Stored[t][s] \in SUBSET (Nat \ {0})
  BY RestoreAssumption DEF Targets
<1>2. \E r \in S : \A q \in S : r >= q
  <2>1. CASE Stored[t][s] = {}
    BY <2>1
  <2>2. CASE Stored[t][s] # {}
    <3>1. PICK r \in Stored[t][s] : \A q \in Stored[t][s] : q <= r
      BY <2>2, RestoreAssumption
    <3>2. r \in S /\ \A q \in S : r >= q
      BY <1>1, <3>1
    <3>3. QED
      BY <3>2
  <2>3. QED
    BY <2>1, <2>2
<1>3. Max(S) \in S
  BY <1>2 DEF Max
<1>4. QED
  BY <1>1, <1>3 DEF Newest

\* A step of one command, whose record stays good, keeps every record good.
LEMMA GoodKept ==
    ASSUME RecoverInv, NEW c \in Commands, Others(c), Good(cmd'[c])
    PROVE  RecoverInv'
<1> SUFFICES ASSUME NEW d \in Commands PROVE Good(cmd'[d])
  BY DEF RecoverInv, Good, Recovery, Planned, Early, Loop, None, Services, Targets
<1>1. CASE d = c
  BY <1>1
<1>2. CASE d # c
  BY <1>2 DEF Others, RecoverInv
<1>3. QED
  BY <1>1, <1>2

\* Before it lists, a recovery has not chosen anything.
LEMMA GoodEarly ==
    ASSUME GateInv, RecoverInv, NEW c \in Commands,
           \/ RecoverOut(c) \/ RecoverMark(c) \/ RecoverCopy(c) \/ RecoverKeys(c)
    PROVE  RecoverInv'
<1>0. CmdOK /\ Good(cmd[c])
  BY DEF GateInv, TypeOK, RecoverInv
<1>1. cmd[c].kind = "recover" /\ cmd[c].pc \in Early /\ Recovery(cmd[c])
  BY <1>0 DEF Good, Early, RecoverOut, RecoverMark, RecoverCopy, RecoverKeys, MarkSteps
<1>2. ASSUME NEW r, With(c, r), DOMAIN r \subseteq {"pc", "left"}, "pc" \in DOMAIN r =>
                r.pc \in Early /\ (r.pc = "list" => "left" \in DOMAIN r /\ r.left \in Seq(Targets)),
             "pc" \notin DOMAIN r => cmd[c].pc # "list"
      PROVE  RecoverInv'
  <2>1. DOMAIN cmd' = Commands /\ Others(c) /\ cmd'[c] = Over(r, cmd[c])
    BY <1>0, <1>2, Updated
  <2>2. /\ cmd'[c].kind = cmd[c].kind /\ cmd'[c].kit = cmd[c].kit /\ cmd'[c].listed = cmd[c].listed
        /\ cmd'[c].got = cmd[c].got /\ cmd'[c].failed = cmd[c].failed /\ cmd'[c].code = cmd[c].code
        /\ cmd'[c].pc \in Early /\ (cmd'[c].pc = "list" => cmd'[c].left \in Seq(Targets))
    BY <1>0, <1>1, <1>2, <2>1 DEF CmdOK, Fields, Over, Quiet
  <2>3. Good(cmd'[c])
    BY <1>1, <2>2 DEF Good, Recovery, Early, Loop
  <2>4. QED
    BY <2>1, <2>3, GoodKept
<1>3. ASSUME With(c, Done(c, "notfound"))
      PROVE  RecoverInv'
  <2>1. DOMAIN cmd' = Commands /\ Others(c) /\ cmd'[c] = Over(Done(c, "notfound"), cmd[c])
    BY <1>0, <1>3, Updated
  <2>2. /\ cmd'[c].kit = cmd[c].kit /\ cmd'[c].listed = cmd[c].listed /\ cmd'[c].got = cmd[c].got
        /\ cmd'[c].pc = "done" /\ cmd'[c].code = "notfound"
    BY <1>0, <1>1, <2>1 DEF CmdOK, Fields, Over, Quiet, Done
  <2>3. Good(cmd'[c])
    BY <1>1, <2>2 DEF Good, Recovery, Early, Loop
  <2>4. QED
    BY <2>1, <2>3, GoodKept
<1>4. CASE RecoverOut(c)
  BY <1>2, <1>3, <1>4 DEF RecoverOut, Early
<1>5. CASE RecoverMark(c)
  BY <1>2, <1>5 DEF RecoverMark, MarkSteps, Early
<1>6. CASE RecoverCopy(c)
  BY <1>2, <1>6 DEF RecoverCopy, Early
<1>7. CASE RecoverKeys(c)
  <2>1. AllTargets \in Seq(Targets)
    BY RestoreAssumption DEF AllTargets, Targets
  <2>2. QED
    BY <1>2, <1>3, <1>7, <2>1 DEF RecoverKeys, Early
<1>8. QED
  BY <1>4, <1>5, <1>6, <1>7

\* A listing leaves of each service a number, the newest seen so far.
LEMMA GoodList ==
    ASSUME GateInv, RecoverInv, NEW c \in Commands, RecoverList(c)
    PROVE  RecoverInv'
<1>0. CmdOK /\ cmd[c].pc = "list" /\ Recovery(cmd[c]) /\ cmd[c].kind = "recover"
  BY DEF GateInv, TypeOK, RecoverInv, Good, Early, RecoverList
<1> DEFINE t == Head(cmd[c].left)
           newer == {s \in Services : Newest(t, s) > cmd[c].listed[s]}
<1>1. t \in Targets /\ Tail(cmd[c].left) \in Seq(Targets)
  BY <1>0, HeadTailProperties DEF Recovery, RecoverList
<1>2. CASE With(c, [left |-> Tail(cmd[c].left)])
  <2>1. DOMAIN cmd' = Commands /\ Others(c) /\ cmd'[c] = Over([left |-> Tail(cmd[c].left)], cmd[c])
    BY <1>0, <1>2, Updated
  <2>2. /\ cmd'[c].kind = cmd[c].kind /\ cmd'[c].kit = cmd[c].kit /\ cmd'[c].pc = cmd[c].pc
        /\ cmd'[c].got = cmd[c].got /\ cmd'[c].failed = cmd[c].failed /\ cmd'[c].code = cmd[c].code
        /\ cmd'[c].left = Tail(cmd[c].left) /\ cmd'[c].listed = cmd[c].listed
    BY <1>0, <2>1 DEF CmdOK, Fields, Over, Quiet
  <2>3. Good(cmd'[c])
    BY <1>0, <1>1, <2>2 DEF Good, Recovery, Early, Loop
  <2>4. QED
    BY <2>1, <2>3, GoodKept
<1>3. ASSUME NEW l \in [Services -> Nat], NEW f,
             With(c, [left |-> Tail(cmd[c].left), listed |-> l, from |-> f])
      PROVE  RecoverInv'
  <2>1. /\ DOMAIN cmd' = Commands /\ Others(c)
        /\ cmd'[c] = Over([left |-> Tail(cmd[c].left), listed |-> l, from |-> f], cmd[c])
    BY <1>0, <1>3, Updated
  <2>2. /\ cmd'[c].kind = cmd[c].kind /\ cmd'[c].kit = cmd[c].kit /\ cmd'[c].pc = cmd[c].pc
        /\ cmd'[c].got = cmd[c].got /\ cmd'[c].failed = cmd[c].failed /\ cmd'[c].code = cmd[c].code
        /\ cmd'[c].left = Tail(cmd[c].left) /\ cmd'[c].listed = l
    BY <1>0, <2>1 DEF CmdOK, Fields, Over, Quiet
  <2>3. Good(cmd'[c])
    BY <1>0, <1>1, <2>2 DEF Good, Recovery, Early, Loop
  <2>4. QED
    BY <2>1, <2>3, GoodKept
<1>4. [s \in Services |-> IF s \in newer THEN Newest(t, s) ELSE cmd[c].listed[s]] \in [Services -> Nat]
  BY <1>0, <1>1, NewestNat DEF Recovery
<1>5. QED
  BY <1>2, <1>3, <1>4 DEF RecoverList

\* The plan takes every service that was listed, in full.
LEMMA GoodPlan ==
    ASSUME GateInv, RecoverInv, NEW c \in Commands, RecoverPlan(c)
    PROVE  RecoverInv'
<1>0. CmdOK /\ cmd[c].pc = "list" /\ Recovery(cmd[c]) /\ cmd[c].kind = "recover"
  BY DEF GateInv, TypeOK, RecoverInv, Good, Early, RecoverPlan
<1>1. ASSUME NEW code \in {"declined", "notfound"}, With(c, Done(c, code))
      PROVE  RecoverInv'
  <2>1. DOMAIN cmd' = Commands /\ Others(c) /\ cmd'[c] = Over(Done(c, code), cmd[c])
    BY <1>0, <1>1, Updated
  <2>2. /\ cmd'[c].kit = cmd[c].kit /\ cmd'[c].listed = cmd[c].listed /\ cmd'[c].got = cmd[c].got
        /\ cmd'[c].pc = "done" /\ cmd'[c].code = code
    BY <1>0, <2>1 DEF CmdOK, Fields, Over, Quiet, Done
  <2>3. Good(cmd'[c])
    BY <1>0, <2>2 DEF Good, Recovery, Early, Loop
  <2>4. QED
    BY <2>1, <2>3, GoodKept
<1>2. ASSUME NEW p \in Plans(c), With(c, p)
      PROVE  RecoverInv'
  <2> DEFINE found == {s \in Services : cmd[c].listed[s] > 0}
  <2>1. PICK S, M, q :
            /\ S \subseteq found /\ M \subseteq Services \ found
            /\ q \in InTurn(S) /\ p = [pc |-> "next", todo |-> q, failed |-> S # found \/ M # {}]
            /\ cmd[c].kit \notin OldKits => S = found /\ M = Services \ found
    BY <1>2, SMTT(30) DEF Plans, placeServices, placeRecorded
  <2>2. q \in Seq(Services) /\ q \in Seq(S)
    <3>1. PICK n \in 0..NServices : q \in [1..n -> S]
      BY <2>1 DEF InTurn
    <3>2. n \in Nat /\ q \in [1..n -> Services]
      BY <2>1, <3>1, RestoreAssumption
    <3>3. QED
      BY <3>1, <3>2, FunctionSeq
  <2>3. /\ \A i \in 1..Len(q) : cmd[c].listed[q[i]] # 0
        /\ \A s \in S : \E i \in 1..Len(q) : q[i] = s
    <3>1. DOMAIN q = 1..Len(q) /\ \A i \in 1..Len(q) : q[i] \in S
      BY <2>2
    <3>2. \A s \in S : cmd[c].listed[s] # 0
      BY <1>0, <2>1 DEF Recovery
    <3>3. QED
      BY <2>1, <3>1, <3>2 DEF InTurn
  <2>4. DOMAIN cmd' = Commands /\ Others(c) /\ cmd'[c] = Over(p, cmd[c])
    BY <1>0, <1>2, Updated
  <2>5. /\ cmd'[c].kind = cmd[c].kind /\ cmd'[c].kit = cmd[c].kit /\ cmd'[c].listed = cmd[c].listed
        /\ cmd'[c].got = cmd[c].got /\ cmd'[c].code = cmd[c].code
        /\ cmd'[c].pc = "next" /\ cmd'[c].todo = q /\ (~ cmd'[c].failed => S = found /\ M = {})
    BY <1>0, <2>1, <2>4 DEF CmdOK, Fields, Over, Quiet
  <2>6. Planned(cmd'[c])
    <3>1. \A s \in Services : cmd[c].listed[s] \in Nat /\ cmd[c].got[s] = 0
      BY <1>0 DEF Recovery, Early, None
    <3>2. \A s \in Services : s \notin found => cmd[c].listed[s] = 0
      BY <3>1
    <3>3. ASSUME ~ cmd'[c].failed, NEW s \in Services
          PROVE  /\ cmd[c].got[s] = cmd[c].listed[s] \/ \E i \in 1..Len(q) : q[i] = s
                 /\ cmd[c].kit \notin OldKits => cmd[c].listed[s] # 0
      BY <2>1, <2>3, <2>5, <3>1, <3>2, <3>3
    <3>4. QED
      BY <2>2, <2>3, <2>5, <3>1, <3>3 DEF Planned
  <2>7. Good(cmd'[c])
    BY <1>0, <2>5, <2>6 DEF Good, Recovery, Early, Loop
  <2>8. QED
    BY <2>4, <2>7, GoodKept
<1>3. QED
  BY <1>1, <1>2 DEF RecoverPlan

\* A command that is no recovery owes nothing.
LEMMA GoodOther ==
    ASSUME RecoverInv, NEW c \in Commands, Others(c), cmd'[c].kind # "recover", cmd'[c].pc \notin Early
    PROVE  RecoverInv'
<1>1. Good(cmd'[c])
  BY DEF Good
<1>2. QED
  BY <1>1, GoodKept

\* An update of c's record, field by field.
LEMMA ByField ==
    ASSUME CmdOK, NEW c \in Commands, NEW r, With(c, r)
    PROVE  /\ Others(c)
           /\ \A f \in {"pc", "kind", "todo", "left", "want", "held", "failed", "kit", "listed",
                       "got", "code"} :
                 cmd'[c][f] = IF f \in DOMAIN r THEN r[f] ELSE cmd[c][f]
<1>1. DOMAIN cmd' = Commands /\ Others(c) /\ cmd'[c] = Over(r, cmd[c])
  BY Updated
<1>2. {"pc", "kind", "todo", "left", "want", "held", "failed", "kit", "listed", "got", "code"}
          \subseteq DOMAIN cmd[c]
  BY DEF CmdOK, Fields, Quiet
<1>3. QED
  BY <1>1, <1>2 DEF Over

\* A directory is done with: it has what the recovery listed, or the recovery has failed.
LEMMA GoodServed ==
    ASSUME GateInv, RecoverInv, NEW c \in Commands, NEW code, NEW g,
           cmd[c].pc \in Loop, cmd[c].todo # <<>>,
           \/ With(c, Served(c, code)) /\ g = cmd[c].got
           \/ With(c, Over([held |-> FALSE], Served(c, code))) /\ g = cmd[c].got
           \/ With(c, Over(Served(c, code), [got |-> g])),
           cmd[c].kind = "recover" =>
              /\ g \in [Services -> Nat]
              /\ \A s \in Services : s # Head(cmd[c].todo) => g[s] = cmd[c].got[s]
              /\ g[Head(cmd[c].todo)] \in {cmd[c].got[Head(cmd[c].todo)], cmd[c].listed[Head(cmd[c].todo)]}
              /\ code = "ok" => g[Head(cmd[c].todo)] = cmd[c].listed[Head(cmd[c].todo)]
    PROVE  RecoverInv'
<1>0. CmdOK /\ Good(cmd[c])
  BY DEF GateInv, TypeOK, RecoverInv
<1>1. PICK x : /\ With(c, x)
               /\ \/ x = Served(c, code) /\ g = cmd[c].got
                  \/ x = Over([held |-> FALSE], Served(c, code)) /\ g = cmd[c].got
                  \/ x = Over(Served(c, code), [got |-> g])
  OBVIOUS
<1>2. DOMAIN cmd' = Commands /\ Others(c) /\ cmd'[c] = Over(x, cmd[c])
  BY <1>0, <1>1, Updated
<1>3. CASE cmd[c].kind = "one"
  <2>1. cmd'[c].kind = "none" /\ cmd'[c].pc = "done"
    BY <1>0, <1>1, <1>2, <1>3 DEF CmdOK, Fields, Over, Quiet, Served, Done
  <2>2. QED
    BY <1>2, <2>1, GoodOther DEF Early
<1>4. CASE cmd[c].kind \notin {"one", "recover"}
  <2>a. "kind" \notin DOMAIN x /\ "pc" \in DOMAIN x /\ x.pc = "next"
    <3> DEFINE y == Served(c, code)
    <3>1. "kind" \notin DOMAIN y /\ "pc" \in DOMAIN y /\ y.pc = "next"
      BY <1>4 DEF Served
    <3> HIDE DEF y
    <3>2. CASE x = Over([held |-> FALSE], y)
      BY <3>1, <3>2 DEF Over
    <3>3. CASE x = Over(y, [got |-> g])
      BY <3>1, <3>3 DEF Over
    <3>4. QED
      BY <1>1, <3>1, <3>2, <3>3 DEF y
  <2>1. cmd'[c].kind = cmd[c].kind /\ cmd'[c].pc = "next"
    BY <1>0, <1>1, <2>a, ByField
  <2>2. QED
    BY <1>2, <1>4, <2>1, GoodOther DEF Early
<1>5. CASE cmd[c].kind = "recover"
  <2>a. /\ {"pc", "todo", "failed"} \subseteq DOMAIN x
        /\ DOMAIN x \subseteq {"pc", "todo", "left", "failed", "held", "got"}
        /\ x.pc = "next" /\ x.todo = Tail(cmd[c].todo)
        /\ x.failed = (cmd[c].failed \/ code # "ok")
        /\ IF "got" \in DOMAIN x THEN x.got = g ELSE g = cmd[c].got
    <3> DEFINE y == Served(c, code)
    <3>1. /\ DOMAIN y = {"pc", "todo", "left", "failed"}
          /\ y.pc = "next" /\ y.todo = Tail(cmd[c].todo)
          /\ y.failed = (cmd[c].failed \/ code # "ok")
      BY <1>5 DEF Served
    <3> HIDE DEF y
    <3>2. CASE x = y /\ g = cmd[c].got
      BY <3>1, <3>2
    <3>3. CASE x = Over([held |-> FALSE], y) /\ g = cmd[c].got
      BY <3>1, <3>3 DEF Over
    <3>4. CASE x = Over(y, [got |-> g])
      BY <3>1, <3>4 DEF Over
    <3>5. QED
      BY <1>1, <3>2, <3>3, <3>4 DEF y
  <2>1. /\ cmd'[c].kind = "recover" /\ cmd'[c].kit = cmd[c].kit /\ cmd'[c].listed = cmd[c].listed
        /\ cmd'[c].code = cmd[c].code /\ cmd'[c].pc = "next" /\ cmd'[c].todo = Tail(cmd[c].todo)
    <3>1. \A f \in {"kind", "kit", "listed", "code"} : cmd'[c][f] = cmd[c][f]
      BY <1>0, <1>1, <2>a, ByField
    <3>2. cmd'[c].pc = x.pc /\ cmd'[c].todo = x.todo
      BY <1>0, <1>1, <2>a, ByField
    <3>3. QED
      BY <1>5, <2>a, <3>1, <3>2
  <2>2. cmd'[c].got = g
    BY <1>0, <1>1, <1>5, <2>a, ByField
  <2>3. cmd'[c].failed = (cmd[c].failed \/ code # "ok")
    BY <1>0, <1>1, <1>5, <2>a, ByField
  <2>4. Recovery(cmd[c]) /\ Planned(cmd[c]) /\ cmd[c].code = "none"
    BY <1>0, <1>5 DEF Good, Recovery, Loop
  <2> DEFINE q == cmd[c].todo
             s0 == Head(q)
  <2>5. q \in Seq(Services) /\ q # <<>>
    BY <2>4 DEF Planned
  <2>6. /\ Tail(q) \in Seq(Services) /\ s0 = q[1] /\ s0 \in Services
        /\ Len(Tail(q)) = Len(q) - 1 /\ Len(q) \in Nat /\ Len(q) >= 1
        /\ \A i \in 1..Len(Tail(q)) : Tail(q)[i] = q[i + 1]
    BY <2>5, HeadTailProperties
  <2>7. cmd[c].listed[s0] # 0
    BY <2>4, <2>6 DEF Planned
  <2>8. \A i \in 1..Len(Tail(q)) : cmd[c].listed[Tail(q)[i]] # 0
    <3>1. \A i \in 1..Len(Tail(q)) : i + 1 \in 1..Len(q)
      BY <2>6
    <3>2. QED
      BY <2>4, <2>6, <3>1 DEF Planned
  <2>9. ASSUME NEW s \in Services, cmd[c].listed[s] = 0
        PROVE  g[s] = 0
    <3>1. s # s0
      BY <2>7, <2>9
    <3>2. QED
      BY <1>5, <2>4, <2>9, <3>1 DEF Planned
  <2>10. ASSUME ~ cmd'[c].failed, NEW s \in Services
         PROVE  /\ g[s] = cmd[c].listed[s] \/ \E i \in 1..Len(Tail(q)) : Tail(q)[i] = s
                /\ cmd[c].kit \notin OldKits => cmd[c].listed[s] # 0
    <3>1. ~ cmd[c].failed /\ code = "ok"
      BY <2>3, <2>10
    <3>2. /\ cmd[c].got[s] = cmd[c].listed[s] \/ \E i \in 1..Len(q) : q[i] = s
          /\ cmd[c].kit \notin OldKits => cmd[c].listed[s] # 0
      BY <2>4, <3>1 DEF Planned
    <3>3. CASE s = s0
      BY <1>5, <3>1, <3>2, <3>3
    <3>4. CASE s # s0 /\ cmd[c].got[s] = cmd[c].listed[s]
      BY <1>5, <3>2, <3>4
    <3>5. CASE s # s0 /\ \E i \in 1..Len(q) : q[i] = s
      <4>1. PICK i \in 1..Len(q) : q[i] = s
        BY <3>5
      <4>2. i - 1 \in 1..Len(Tail(q)) /\ Tail(q)[i - 1] = q[(i - 1) + 1]
        <5>1. i # 1
          BY <2>6, <3>5, <4>1
        <5>2. i - 1 \in 1..Len(Tail(q))
          BY <2>6, <5>1
        <5>3. QED
          BY <2>6, <5>2
      <4>3. (i - 1) + 1 = i
        OBVIOUS
      <4>4. QED
        BY <3>2, <4>1, <4>2, <4>3
    <3>6. QED
      BY <3>2, <3>3, <3>4, <3>5
  <2>11. Planned(cmd'[c])
    BY <2>1, <2>2, <2>6, <2>8, <2>9, <2>10 DEF Planned
  <2>12. Good(cmd'[c])
    BY <1>5, <2>1, <2>2, <2>4, <2>11 DEF Good, Recovery, Early, Loop
  <2>13. QED
    BY <1>2, <2>12, GoodKept
<1>6. QED
  BY <1>3, <1>4, <1>5

\* A recovery's record that keeps its plan and what it has restored, from one place of the
\* loop over the directories to another.
LEMMA GoodLoop ==
    ASSUME GateInv, RecoverInv, NEW c \in Commands, NEW r, With(c, r),
           cmd[c].pc \in Loop, DOMAIN r \subseteq {"pc", "held", "left", "want", "answered"},
           "pc" \in DOMAIN r => r.pc \in Loop \ {"hook"},
           "pc" \notin DOMAIN r => cmd[c].pc # "hook",
           "want" \in DOMAIN r =>
              (cmd[c].kind = "recover" => r.want = cmd[c].listed[Head(cmd[c].todo)]),
           "want" \notin DOMAIN r =>
              cmd[c].pc \in {"guard", "look", "connect", "restore"}
    PROVE  RecoverInv'
<1>0. CmdOK /\ Good(cmd[c])
  BY DEF GateInv, TypeOK, RecoverInv
<1>1. DOMAIN cmd' = Commands /\ Others(c) /\ cmd'[c] = Over(r, cmd[c])
  BY <1>0, Updated
<1>2. /\ cmd'[c].kind = cmd[c].kind /\ cmd'[c].kit = cmd[c].kit /\ cmd'[c].listed = cmd[c].listed
      /\ cmd'[c].got = cmd[c].got /\ cmd'[c].failed = cmd[c].failed /\ cmd'[c].code = cmd[c].code
      /\ cmd'[c].todo = cmd[c].todo
  BY <1>0, <1>1 DEF CmdOK, Fields, Over, Quiet
<1>3. cmd'[c].pc \in Loop \ {"hook"}
  BY <1>0, <1>1 DEF CmdOK, Fields, Over, Quiet
<1>4. CASE cmd[c].kind # "recover"
  BY <1>1, <1>2, <1>3, <1>4, GoodOther DEF Early, Loop
<1>5. CASE cmd[c].kind = "recover"
  <2>1. cmd'[c].want = cmd[c].listed[Head(cmd[c].todo)]
    <3>1. CASE "want" \in DOMAIN r
      BY <1>0, <1>1, <1>5, <3>1 DEF CmdOK, Fields, Over, Quiet
    <3>2. CASE "want" \notin DOMAIN r
      <4>1. cmd'[c].want = cmd[c].want
        BY <1>0, <1>1, <3>2 DEF CmdOK, Fields, Over, Quiet
      <4>2. QED
        BY <1>0, <1>5, <3>2, <4>1 DEF Good, Recovery
    <3>3. QED
      BY <3>1, <3>2
  <2>2. Recovery(cmd[c]) /\ Planned(cmd[c])
    BY <1>0, <1>5 DEF Good, Recovery
  <2>3. Planned(cmd'[c])
    BY <1>2, <2>2 DEF Planned
  <2>4. Good(cmd'[c])
    BY <1>2, <1>3, <1>5, <2>1, <2>2, <2>3 DEF Good, Recovery, Early, Loop
  <2>5. QED
    BY <1>1, <2>4, GoodKept
<1>6. QED
  BY <1>4, <1>5

\* Where a command is in its loop, and that it has a directory to be at.
LEMMA LoopFacts ==
    ASSUME GateInv, NEW c \in Commands
    PROVE  /\ CmdOK
           /\ cmd[c].pc \in Loop => Live(c)
           /\ cmd[c].pc \in Loop \ {"next"} => cmd[c].todo # <<>>
           /\ Live(c) /\ child[c] # Nowhere => cmd[c].pc = "restore"
           /\ Live(c) /\ guard[c] # "none" => cmd[c].pc = "hook"
BY DEF GateInv, TypeOK, Started, Live, Ended, Loop

\* What a recovery still has to restore was listed by some storage.
LEMMA HeadListed ==
    ASSUME NEW r, Planned(r), r.todo # <<>>
    PROVE  Head(r.todo) \in Services /\ r.listed[Head(r.todo)] # 0
<1>1. r.todo \in Seq(Services) /\ Head(r.todo) = r.todo[1] /\ 1 \in 1..Len(r.todo)
  BY HeadTailProperties DEF Planned
<1>2. QED
  BY <1>1, HeadTailProperties DEF Planned

\* No command line starts a recovery's loop but the recovery's.
LEMMA RequestKinds ==
    ASSUME NEW r \in AutoRequests \cup InteractiveRequests \cup {AllRequest}
    PROVE  r.kind \in {"one", "all"} /\ r.pc = "next"
<1>1. PICK kind, todo, left, want :
          kind \in {"one", "all"} /\ r = Asked(kind, todo, left, want)
  <2>1. CASE r \in InteractiveRequests
    <3> DEFINE At(s, t) == {Asked("one", <<s>>, <<t>>, w) : w \in Stored[t][s]}
    <3>a. InteractiveRequests = UNION {At(s, t) : s \in Services, t \in Targets}
      BY DEF InteractiveRequests
    <3> HIDE DEF At
    <3>b. PICK d \in Services, t \in Targets : r \in At(d, t)
      BY <2>1, <3>a
    <3>1. r \in {Asked("one", <<d>>, <<t>>, w) : w \in Stored[t][d]}
      BY <3>b DEF At
    <3>2. QED
      BY <3>1
  <2>2. CASE r \in AutoRequests
    <3>1. \E d \in {Elsewhere} \cup Services : \E l, w : r = Asked("one", <<d>>, l, w)
      BY <2>2 DEF AutoRequests
    <3>2. QED
      BY <3>1
  <2>3. CASE r = AllRequest
    BY <2>3 DEF AllRequest
  <2>4. QED
    BY <2>1, <2>2, <2>3
<1>2. QED
  BY <1>1 DEF Asked, Over, Quiet

\* The steps that start a command, kill it, or end a recovery's loop.
LEMMA GoodEnds ==
    ASSUME GateInv, RecoverInv, NEW c \in Commands,
           Start(c) \/ RecoverBegin(c) \/ Finish(c) \/ Kill(c)
    PROVE  RecoverInv'
<1>0. CmdOK /\ Good(cmd[c])
  BY LoopFacts DEF RecoverInv
<1>1. CASE Start(c)
  <2>1. PICK r \in AutoRequests \cup InteractiveRequests \cup {AllRequest} : cmd' = [cmd EXCEPT ![c] = r]
    BY <1>1 DEF Start
  <2>3. r.kind \in {"one", "all"} /\ r.pc = "next"
    BY RequestKinds
  <2>4. cmd'[c].kind # "recover" /\ cmd'[c].pc = "next" /\ Others(c)
    BY <1>0, <2>1, <2>3 DEF CmdOK, Others
  <2>5. QED
    BY <2>4, GoodOther DEF Early
<1>2. CASE RecoverBegin(c)
  <2>1. PICK k \in Kits : cmd' = [cmd EXCEPT ![c] = Over([pc |-> "out", kind |-> "recover", kit |-> k], Quiet)]
    BY <1>2 DEF RecoverBegin
  <2>2. /\ cmd'[c].pc = "out" /\ cmd'[c].kind = "recover" /\ cmd'[c].kit = k /\ cmd'[c].listed = None
        /\ cmd'[c].got = None /\ ~ cmd'[c].failed /\ cmd'[c].code = "none" /\ Others(c)
    BY <1>0, <2>1 DEF CmdOK, Others, Over, Quiet, None
  <2>3. Good(cmd'[c])
    BY <2>2 DEF Good, Recovery, Early, Loop, None
  <2>4. QED
    BY <2>2, <2>3, GoodKept
<1>3. CASE Finish(c)
  <2> DEFINE code == IF cmd[c].failed THEN "notfound" ELSE "ok"
  <2>1. With(c, Done(c, code))
    BY <1>3 DEF Finish
  <2>2. DOMAIN cmd' = Commands /\ Others(c) /\ cmd'[c] = Over(Done(c, code), cmd[c])
    BY <1>0, <2>1, Updated
  <2>3. CASE cmd[c].kind # "recover"
    <3>1. cmd'[c].kind = "none" /\ cmd'[c].pc = "done"
      BY <2>2, <2>3 DEF Done, Over, Quiet
    <3>2. QED
      BY <2>2, <3>1, GoodOther DEF Early
  <2>4. CASE cmd[c].kind = "recover"
    <3>1. /\ cmd'[c].kind = "recover" /\ cmd'[c].kit = cmd[c].kit /\ cmd'[c].listed = cmd[c].listed
          /\ cmd'[c].got = cmd[c].got /\ cmd'[c].pc = "done" /\ cmd'[c].code = code
      BY <2>2, <2>4 DEF Done, Over, Quiet
    <3>2. Recovery(cmd[c]) /\ Planned(cmd[c]) /\ cmd[c].todo = <<>>
      BY <1>0, <1>3, <2>4 DEF Good, Recovery, Finish, Loop
    <3>3. ASSUME code = "ok", NEW s \in Services
          PROVE  /\ cmd[c].got[s] = cmd[c].listed[s]
                 /\ cmd[c].kit \notin OldKits => cmd[c].got[s] # 0
      <4>1. ~ cmd[c].failed /\ Len(cmd[c].todo) = 0
        BY <3>2, <3>3
      <4>2. ~ \E i \in 1..Len(cmd[c].todo) : cmd[c].todo[i] = s
        BY <4>1
      <4>3. QED
        BY <3>2, <4>1, <4>2 DEF Planned
    <3>4. Good(cmd'[c])
      BY <3>1, <3>2, <3>3 DEF Good, Recovery, Early, Loop
    <3>5. QED
      BY <2>2, <3>4, GoodKept
  <2>5. QED
    BY <2>3, <2>4
<1>4. CASE Kill(c)
  <2>1. DOMAIN cmd' = Commands /\ Others(c) /\ cmd'[c] = Over(Gone(c), cmd[c])
    BY <1>0, <1>4, Updated DEF Kill
  <2>2. cmd'[c].kind = "none" /\ cmd'[c].pc = "dead"
    BY <2>1 DEF Gone, Over, Quiet
  <2>3. QED
    BY <2>1, <2>2, GoodOther DEF Early
<1>5. QED
  BY <1>1, <1>2, <1>3, <1>4

\* The steps up to a restore, each for one directory.
LEMMA GoodTry ==
    ASSUME GateInv, RecoverInv, NEW c \in Commands,
           \/ NextService(c) \/ Guard(c) \/ Look(c) \/ Passed(c) \/ Exhausted(c) \/ Restore(c)
    PROVE  RecoverInv'
<1>0. CmdOK /\ Good(cmd[c])
  BY LoopFacts DEF RecoverInv
<1>a. cmd[c].pc \in Loop /\ cmd[c].todo # <<>>
  BY LoopFacts DEF Loop, NextService, Guard, Look, Passed, Exhausted, Restore
<1>b. cmd[c].kind = "recover" =>
         /\ Recovery(cmd[c]) /\ Planned(cmd[c])
         /\ cmd[c].got \in [Services -> Nat]
         /\ Head(cmd[c].todo) \in Services /\ cmd[c].listed[Head(cmd[c].todo)] # 0
  BY <1>0, <1>a, HeadListed DEF Good, Recovery
<1>c. ASSUME NEW code, code # "ok",
             With(c, Served(c, code)) \/ With(c, Over([held |-> FALSE], Served(c, code)))
      PROVE  RecoverInv'
  BY <1>a, <1>b, <1>c, GoodServed
<1>1. CASE NextService(c)
  <2> DEFINE s == Head(cmd[c].todo)
  <2>1. PICK l : With(c, [pc |-> "guard", answered |-> FALSE, want |-> Wanted(c, s), left |-> l])
    BY <1>1 DEF NextService
  <2>2. cmd[c].kind = "recover" => Wanted(c, s) = cmd[c].listed[s]
    BY DEF Wanted
  <2> HIDE DEF s
  <2>3. QED
    BY <1>a, <2>1, <2>2, GoodLoop DEF Loop, s
<1>2. CASE Guard(c)
  <2>1. CASE With(c, [pc |-> "connect"])
    BY <1>2, <1>a, <2>1, GoodLoop DEF Guard, Loop
  <2>2. CASE With(c, [pc |-> "look", held |-> TRUE])
    BY <1>2, <1>a, <2>2, GoodLoop DEF Guard, Loop
  <2>3. QED
    BY <1>2, <1>c, <2>1, <2>2 DEF Guard
<1>3. CASE Look(c)
  <2>1. CASE With(c, [pc |-> "connect"])
    BY <1>3, <1>a, <2>1, GoodLoop DEF Look, Loop
  <2>2. QED
    BY <1>3, <1>c, <2>1 DEF Look
<1>4. CASE Passed(c)
  <2>1. CASE With(c, [left |-> Tail(cmd[c].left)])
    BY <1>4, <1>a, <2>1, GoodLoop DEF Passed, Loop
  <2>2. CASE With(c, [left |-> Tail(cmd[c].left), answered |-> TRUE])
    BY <1>4, <1>a, <2>2, GoodLoop DEF Passed, Loop
  <2>3. QED
    BY <1>4, <2>1, <2>2 DEF Passed
<1>5. CASE Exhausted(c)
  BY <1>5, <1>c DEF Exhausted
<1>6. CASE Restore(c)
  <2> DEFINE r == pick(Head(cmd[c].left), Source(Head(cmd[c].todo)), cmd[c].want)
  <2>1. With(c, [pc |-> "restore", want |-> r]) /\ r # 0
    BY <1>6 DEF Restore
  <2>2. cmd[c].kind = "recover" => r = cmd[c].listed[Head(cmd[c].todo)]
    <3>1. cmd[c].want # 0 => r = cmd[c].want
      BY <2>1 DEF pick
    <3>2. QED
      BY <1>6, <1>b, <3>1 DEF Restore, Recovery
  <2> HIDE DEF r
  <2>3. QED
    BY <1>a, <2>1, <2>2, GoodLoop DEF Loop
<1>7. QED
  BY <1>1, <1>2, <1>3, <1>4, <1>5, <1>6

\* The end of a restore's duplicacy, and of its hook.
LEMMA GoodResults ==
    ASSUME GateInv, RecoverInv, NEW c \in Commands,
           \/ RestoreEnd(c) \/ HookStart(c) \/ HookEnd(c) \/ GuardKill(c) \/ HookGone(c) \/ GuardExit(c)
    PROVE  RecoverInv'
<1>0. CmdOK /\ Good(cmd[c])
  BY LoopFacts DEF RecoverInv
<1>b. cmd[c].kind = "recover" /\ cmd[c].pc \in {"restore", "hook"} =>
         /\ Recovery(cmd[c]) /\ Planned(cmd[c])
         /\ cmd[c].got \in [Services -> Nat] /\ cmd[c].listed \in [Services -> Nat]
         /\ Head(cmd[c].todo) \in Services
         /\ cmd[c].pc = "restore" => cmd[c].want = cmd[c].listed[Head(cmd[c].todo)]
         /\ cmd[c].pc = "hook" => cmd[c].got[Head(cmd[c].todo)] = cmd[c].listed[Head(cmd[c].todo)]
  BY <1>0, LoopFacts, HeadListed DEF Good, Recovery, Loop
<1>c. ASSUME Live(c), child[c] # Nowhere \/ guard[c] # "none",
             NEW code, With(c, Served(c, code)), code = "ok" => cmd[c].pc = "hook"
      PROVE  RecoverInv'
  <2>1. cmd[c].pc \in {"restore", "hook"} /\ cmd[c].pc \in Loop /\ cmd[c].todo # <<>>
    BY <1>c, LoopFacts DEF Loop
  <2>2. QED
    BY <1>b, <1>c, <2>1, GoodServed
<1>d. ASSUME cmd' = cmd
      PROVE  RecoverInv'
  BY <1>d, GoodKept DEF RecoverInv, Others
<1>1. CASE RestoreEnd(c)
  <2> DEFINE d == Head(cmd[c].todo)
             g == IF cmd[c].kind = "recover" THEN [cmd[c].got EXCEPT ![d] = cmd[c].want] ELSE cmd[c].got
  <2>1. child[c] # Nowhere /\ (Live(c) => cmd[c].pc = "restore" /\ cmd[c].pc \in Loop /\ cmd[c].todo # <<>>)
    BY <1>1, LoopFacts DEF RestoreEnd, Loop
  <2>2. CASE Live(c) /\ With(c, Served(c, "notfound"))
    BY <1>c, <2>1, <2>2
  <2>a. cmd[c].kind = "recover" /\ Live(c) =>
          /\ g \in [Services -> Nat]
          /\ \A s \in Services : s # d => g[s] = cmd[c].got[s]
          /\ g[d] = cmd[c].listed[d]
    BY <1>b, <2>1
  <2>3. CASE Live(c) /\ With(c, Over(Served(c, "ok"), [got |-> g]))
    <3> HIDE DEF g
    <3>1. QED
      BY <2>1, <2>3, <2>a, GoodServed
  <2>4. CASE Live(c) /\ With(c, Over([pc |-> "hook"], [got |-> g]))
    <3> HIDE DEF g
    <3>1. DOMAIN cmd' = Commands /\ Others(c) /\ cmd'[c] = Over(Over([pc |-> "hook"], [got |-> g]), cmd[c])
      BY <1>0, <2>4, Updated
    <3>2. /\ cmd'[c].kind = cmd[c].kind /\ cmd'[c].kit = cmd[c].kit /\ cmd'[c].listed = cmd[c].listed
          /\ cmd'[c].failed = cmd[c].failed /\ cmd'[c].code = cmd[c].code /\ cmd'[c].todo = cmd[c].todo
          /\ cmd'[c].pc = "hook" /\ cmd'[c].got = g
      BY <1>0, <3>1 DEF CmdOK, Fields, Over, Quiet
    <3>3. CASE cmd[c].kind # "recover"
      BY <3>1, <3>2, <3>3, GoodOther DEF Early
    <3>4. CASE cmd[c].kind = "recover"
      <4>1. Recovery(cmd[c]) /\ Planned(cmd[c])
        BY <1>b, <2>1, <2>4, <3>4
      <4>2. \A s \in Services : g[s] = cmd[c].got[s] \/ g[s] = cmd[c].listed[s]
        BY <2>4, <2>a, <3>4
      <4>3. Planned(cmd'[c])
        BY <3>2, <4>1, <4>2 DEF Planned
      <4>4. Good(cmd'[c])
        BY <2>1, <2>4, <2>a, <3>2, <3>4, <4>1, <4>3 DEF Good, Recovery, Early, Loop
      <4>5. QED
        BY <3>1, <4>4, GoodKept
    <3>5. QED
      BY <3>3, <3>4
  <2>5. QED
    BY <1>1, <1>d, <2>2, <2>3, <2>4 DEF RestoreEnd
<1>2. CASE HookStart(c)
  BY <1>2, <1>c, <1>d DEF HookStart
<1>3. CASE HookEnd(c)
  <2>1. cmd[c].pc = "hook"
    BY <1>3, LoopFacts DEF HookEnd
  <2>2. QED
    BY <1>3, <1>c, <2>1 DEF HookEnd
<1>4. CASE GuardKill(c) \/ HookGone(c) \/ GuardExit(c)
  BY <1>4, <1>d DEF GuardKill, HookGone, GuardExit
<1>5. QED
  BY <1>1, <1>2, <1>3, <1>4

\* Every step keeps what the recoveries owe.
LEMMA RecoverStep == GateInv /\ RecoverInv /\ [Next]_vars => RecoverInv'
<1> SUFFICES ASSUME GateInv, RecoverInv, [Next]_vars PROVE RecoverInv'
  OBVIOUS
<1>1. ASSUME NEW c \in Commands, Step(c) PROVE RecoverInv'
  BY <1>1, GoodEarly, GoodList, GoodPlan, GoodEnds, GoodTry, GoodResults DEF Step
<1>2. ASSUME cmd' = cmd PROVE RecoverInv'
  BY <1>2, ZenonT(40) DEF RecoverInv, Good, Recovery, Planned, Early, Loop, None, Services, Targets
<1>3. ASSUME NEW b \in Backups, BackupStep(b) PROVE RecoverInv'
  BY <1>2, <1>3 DEF BackupStep, BackupLock, BackupProbe, BackupProceed, BackupEnd
<1>4. QED
  BY <1>1, <1>2, <1>3 DEF Next, vars

\* No recovery is under way at first.
LEMMA RecoverInit == Init => RecoverInv
BY DEF Init, RecoverInv, Good, Quiet, Early

\* A recovery that ends well has restored, of every service it knows of, the newest revision
\* a storage it could read listed, whatever the storages, the kits and their number.
THEOREM RestoreRecoverNewest == Spec => []RecoverNewest
<1>1. RecoverInv => RecoverNewest
  BY DEF RecoverInv, Good, Recovery, RecoverNewest
<1>2. GateInv /\ [Next]_vars => GateInv'
  BY GateStep
<1>3. QED
  BY <1>1, <1>2, GateInit, RecoverInit, RecoverStep, PTL DEF Spec

-----------------------------------------------------------------------------
(* The directory a recovery writes *)

\* Writing the recovery's directory.
Writing == {"unmark", "create", "write", "copy", "fill"}

\* One recovery writes, one that marked or found marked what it writes; and what the
\* directory is marked with is all it holds.
OutInv ==
    /\ DOMAIN out = {"mark", "files"} /\ DOMAIN out.files = Files
    /\ \A c, d \in Commands : Recovering(c) /\ Recovering(d) => c = d
    /\ \A c \in Commands : cmd[c].pc \in Writing =>
          \A f \in Files : out.files[f] \in {"absent", "part", cmd[c].kit}
    /\ \A c \in Commands : cmd[c].pc \in {"copy", "fill"} => out.mark = cmd[c].kit
    /\ out.mark \notin {"absent", "part"} =>
          \A f \in Files : out.files[f] \in {"absent", "part", out.mark}

\* Who writes is a recovery.
LEMMA WritingRecovers ==
    ASSUME RecoverInv, NEW c \in Commands, cmd[c].pc \in Writing
    PROVE  Recovering(c) /\ cmd[c].kit \in Kits
BY DEF RecoverInv, Good, Recovery, Recovering, Live, Ended, Writing, Early

\* A step of c that neither begins a recovery nor writes the directory.
LEMMA OutUnwritten ==
    ASSUME OutInv, NEW c \in Commands, Others(c), out' = out,
           Recovering(c)' => Recovering(c), cmd'[c].pc \notin Writing
    PROVE  OutInv'
<1>1. \A d \in Commands : Recovering(d)' => Recovering(d)
  BY DEF Others, Recovering, Live
<1>2. \A d \in Commands : cmd'[d].pc \in Writing => cmd'[d] = cmd[d]
  BY DEF Others
<1>3. /\ \A d \in Commands : cmd'[d].pc \in Writing =>
            \A f \in Files : out'.files[f] \in {"absent", "part", cmd'[d].kit}
      /\ \A d \in Commands : cmd'[d].pc \in {"copy", "fill"} => out'.mark = cmd'[d].kit
  BY <1>2 DEF OutInv, Writing
<1>4. QED
  BY <1>1, <1>3 DEF OutInv, Writing, Files

\* The same of an update of c's record.
LEMMA OutQuiet ==
    ASSUME OutInv, CmdOK, NEW c \in Commands, NEW r, With(c, r), out' = out, Live(c),
           "kind" \in DOMAIN r => r.kind # "recover" \/ cmd[c].kind = "recover",
           "pc" \in DOMAIN r => r.pc \notin Writing,
           "pc" \notin DOMAIN r => cmd[c].pc \notin Writing
    PROVE  OutInv'
<1>1. \A f \in {"pc", "kind"} : cmd'[c][f] = IF f \in DOMAIN r THEN r[f] ELSE cmd[c][f]
  BY ByField
<1>2. Others(c) /\ cmd'[c].pc \notin Writing /\ (Recovering(c)' => Recovering(c))
  BY <1>1, ByField DEF Recovering
<1>3. QED
  BY <1>2, OutUnwritten

\* What a served directory, and a finished command, leave of a command's record.
LEMMA ServedShape ==
    ASSUME NEW c, NEW code
    PROVE  /\ \A x \in {Done(c, code), Served(c, code)} :
                /\ "pc" \in DOMAIN x /\ x.pc \in {"next", "done"}
                /\ "kind" \in DOMAIN x => x.kind # "recover" \/ cmd[c].kind = "recover"
           /\ "kind" \in DOMAIN Done(c, code)
<1>1. /\ DOMAIN Done(c, code) = DOMAIN Quiet /\ Done(c, code).pc = "done"
      /\ Done(c, code).kind # "recover" \/ cmd[c].kind = "recover"
  <2>1. CASE cmd[c].kind = "recover"
    BY <2>1 DEF Done, Over, Quiet
  <2>2. CASE cmd[c].kind # "recover"
    BY <2>2 DEF Done, Over, Quiet
  <2>3. QED
    BY <2>1, <2>2
<1>2. "pc" \in DOMAIN Quiet /\ "kind" \in DOMAIN Quiet
  BY DEF Quiet
<1>3. CASE cmd[c].kind = "one"
  BY <1>1, <1>2, <1>3 DEF Served
<1>4. CASE cmd[c].kind # "one"
  <2>1. /\ "pc" \in DOMAIN Served(c, code) /\ Served(c, code).pc = "next"
        /\ "kind" \notin DOMAIN Served(c, code)
    BY <1>4 DEF Served
  <2>2. QED
    BY <1>1, <1>2, <2>1
<1>5. QED
  BY <1>3, <1>4

\* The same of the records made of one of them.
LEMMA OutServed ==
    ASSUME OutInv, CmdOK, NEW c \in Commands, NEW code, NEW g, out' = out, Live(c),
           \/ With(c, Done(c, code)) \/ With(c, Served(c, code))
           \/ With(c, Over([held |-> FALSE], Served(c, code)))
           \/ With(c, Over(Served(c, code), [got |-> g]))
    PROVE  OutInv'
<1> DEFINE y == Served(c, code)
<1>1. /\ "pc" \in DOMAIN y /\ y.pc \in {"next", "done"}
      /\ "kind" \in DOMAIN y => y.kind # "recover" \/ cmd[c].kind = "recover"
  BY ServedShape
<1>2. CASE With(c, Done(c, code))
  BY <1>2, ServedShape, OutQuiet DEF Writing
<1>3. CASE With(c, y)
  BY <1>1, <1>3, OutQuiet DEF Writing
<1> HIDE DEF y
<1>4. CASE With(c, Over([held |-> FALSE], y))
  <2>1. /\ "pc" \in DOMAIN Over([held |-> FALSE], y) /\ Over([held |-> FALSE], y).pc = y.pc
        /\ "kind" \in DOMAIN Over([held |-> FALSE], y) =>
              "kind" \in DOMAIN y /\ Over([held |-> FALSE], y).kind = y.kind
    BY <1>1 DEF Over
  <2>2. QED
    BY <1>1, <1>4, <2>1, OutQuiet DEF Writing
<1>5. CASE With(c, Over(y, [got |-> g]))
  <2>1. /\ "pc" \in DOMAIN Over(y, [got |-> g]) /\ Over(y, [got |-> g]).pc = y.pc
        /\ "kind" \in DOMAIN Over(y, [got |-> g]) =>
              "kind" \in DOMAIN y /\ Over(y, [got |-> g]).kind = y.kind
    BY <1>1 DEF Over
  <2>2. QED
    BY <1>1, <1>5, <2>1, OutQuiet DEF Writing
<1>6. QED
  BY <1>2, <1>3, <1>4, <1>5 DEF y

\* A recovery begins where none runs.
LEMMA OutBegin ==
    ASSUME OutInv, CmdOK, NEW c \in Commands, RecoverBegin(c)
    PROVE  OutInv'
<1>1. PICK k \in Kits : cmd' = [cmd EXCEPT ![c] = Over([pc |-> "out", kind |-> "recover", kit |-> k], Quiet)]
  BY DEF RecoverBegin
<1>2. Others(c) /\ cmd'[c].pc = "out"
  BY <1>1 DEF CmdOK, Others, Over, Quiet
<1>3. \A d \in Commands : Recovering(d)' => d = c
  BY <1>2 DEF RecoverBegin, Others, Recovering, Live
<1>4. /\ \A d \in Commands : cmd'[d].pc \in Writing =>
            \A f \in Files : out'.files[f] \in {"absent", "part", cmd'[d].kit}
      /\ \A d \in Commands : cmd'[d].pc \in {"copy", "fill"} => out'.mark = cmd'[d].kit
  BY <1>2 DEF RecoverBegin, OutInv, Writing, Others
<1>5. QED
  BY <1>3, <1>4 DEF RecoverBegin, OutInv, Files

\* A step of the one recovery that writes: what it leaves there is its kit's.
LEMMA OutWrites ==
    ASSUME OutInv, RecoverInv, CmdOK, NEW c \in Commands,
           RecoverOut(c) \/ RecoverMark(c) \/ RecoverCopy(c)
    PROVE  OutInv'
<1>a. cmd[c].pc \in Early /\ Recovering(c) /\ cmd[c].kit \in Kits
  BY DEF RecoverInv, Good, Recovery, Recovering, Live, Ended, Early,
         RecoverOut, RecoverMark, RecoverCopy, MarkSteps
<1>b. \A d \in Commands : Recovering(d) => d = c
  BY <1>a DEF OutInv
<1>c. \A d \in Commands \ {c} : cmd[d].pc \notin Writing
  BY <1>b, WritingRecovers
<1>d. cmd[c].kit \notin {"absent", "part"}
  BY <1>a, RestoreAssumption
\* What c may leave.
<1>e. ASSUME NEW r, With(c, r), DOMAIN r \subseteq {"pc", "left"}, "pc" \in DOMAIN r,
             DOMAIN out' = {"mark", "files"}, DOMAIN out'.files = Files,
             \A f \in Files : out'.files[f] \in {"absent", "part", cmd[c].kit},
             out'.mark \in {"absent", "part", cmd[c].kit},
             r.pc \in {"copy", "fill"} => out'.mark = cmd[c].kit
      PROVE  OutInv'
  <2>1. Others(c) /\ cmd'[c].kit = cmd[c].kit /\ cmd'[c].pc = r.pc
    BY <1>e, ByField
  <2>2. \A d \in Commands \ {c} : ~ Recovering(d)' /\ cmd'[d].pc \notin Writing
    BY <1>b, <1>c, <2>1 DEF Others, Recovering, Live
  <2>3. /\ \A d \in Commands : cmd'[d].pc \in Writing =>
              \A f \in Files : out'.files[f] \in {"absent", "part", cmd'[d].kit}
        /\ \A d \in Commands : cmd'[d].pc \in {"copy", "fill"} => out'.mark = cmd'[d].kit
    BY <1>e, <2>1, <2>2 DEF Writing
  <2>4. QED
    BY <1>e, <2>2, <2>3 DEF OutInv, Writing, Files
<1>1. CASE RecoverOut(c)
  <2>1. CASE With(c, Done(c, "notfound"))
    BY <1>1, <1>a, <2>1, OutServed DEF RecoverOut, Recovering
  <2>2. CASE OutAccepts(cmd[c].kit) /\ With(c, [pc |-> "unmark"])
    <3>1. \A f \in Files : out.files[f] \in {"absent", "part", cmd[c].kit}
      BY <1>d, <2>2 DEF OutAccepts, OutEmpty, OutInv
    <3>2. out.mark \in {"absent", "part", cmd[c].kit}
      BY <2>2 DEF OutAccepts, OutEmpty
    <3>3. out' = out
      BY <1>1 DEF RecoverOut
    <3>4. QED
      BY <1>e, <2>2, <3>1, <3>2, <3>3 DEF OutInv
  <2>3. QED
    BY <1>1, <2>1, <2>2 DEF RecoverOut
<1>f. cmd[c].pc \in Writing => \A f \in Files : out.files[f] \in {"absent", "part", cmd[c].kit}
  BY DEF OutInv
<1>2. CASE RecoverMark(c)
  <2> DEFINE step == MarkSteps(cmd[c].kit)[cmd[c].pc]
  <2>1. out' = [out EXCEPT !.mark = step[1]] /\ With(c, [pc |-> step[2], left |-> [f \in Files |-> f]])
    BY <1>2 DEF RecoverMark
  <2>2. /\ step[1] \in {"absent", "part", cmd[c].kit}
        /\ step[2] \in {"copy", "fill"} => step[1] = cmd[c].kit
        /\ cmd[c].pc \in Writing
    BY <1>2 DEF RecoverMark, MarkSteps, Writing
  <2> HIDE DEF step
  <2>3. out'.mark = step[1] /\ out'.files = out.files /\ DOMAIN out' = {"mark", "files"}
    BY <2>1 DEF OutInv
  <2>4. QED
    BY <1>e, <1>f, <2>1, <2>2, <2>3 DEF OutInv
<1>3. CASE RecoverCopy(c)
  <2>1. PICK f, k, r : /\ k \in {"part", cmd[c].kit} /\ out' = [out EXCEPT !.files[f] = k]
                       /\ With(c, r) /\ DOMAIN r \subseteq {"pc", "left"} /\ "pc" \in DOMAIN r
    <3> DEFINE f0 == Head(cmd[c].left)
               r1 == [pc |-> "fill"]
               r2 == [pc |-> "copy", left |-> Tail(cmd[c].left)]
    <3>1. \/ out' = [out EXCEPT !.files[f0] = "part"] /\ With(c, r1)
          \/ out' = [out EXCEPT !.files[f0] = cmd[c].kit] /\ With(c, r2)
      BY <1>3 DEF RecoverCopy
    <3>2. DOMAIN r1 = {"pc"} /\ DOMAIN r2 = {"pc", "left"}
      OBVIOUS
    <3> HIDE DEF f0, r1, r2
    <3>3. QED
      BY <3>1, <3>2
  <2>2. /\ out'.mark = out.mark /\ DOMAIN out' = {"mark", "files"} /\ DOMAIN out'.files = Files
        /\ \A g \in Files : out'.files[g] \in {k, out.files[g]}
    BY <2>1 DEF OutInv
  <2>3. cmd[c].pc \in Writing /\ out.mark = cmd[c].kit
    BY <1>3 DEF RecoverCopy, OutInv, Writing
  <2>4. \A g \in Files : out'.files[g] \in {"absent", "part", cmd[c].kit}
    BY <1>f, <2>1, <2>2, <2>3
  <2>5. QED
    BY <1>e, <2>1, <2>2, <2>3, <2>4
<1>4. QED
  BY <1>1, <1>2, <1>3

\* Every step keeps what the recovery's directory holds.
LEMMA OutStep == GateInv /\ RecoverInv /\ OutInv /\ [Next]_vars => OutInv'
<1> SUFFICES ASSUME GateInv, RecoverInv, OutInv, [Next]_vars PROVE OutInv'
  OBVIOUS
<1>0. CmdOK
  BY DEF GateInv, TypeOK
<1>1. ASSUME cmd' = cmd, out' = out PROVE OutInv'
  BY <1>1 DEF OutInv, Recovering, Live, Writing, Files
<1>2. ASSUME NEW c \in Commands, Step(c) PROVE OutInv'
  <2>0. /\ cmd[c].pc \in Loop => Live(c)
        /\ Loop \cap Writing = {} /\ "list" \notin Writing
    BY LoopFacts DEF Loop, Writing
  <2>a. ASSUME NEW r, With(c, r), out' = out, Live(c), DOMAIN r \subseteq Fields \ {"kind"},
               "pc" \in DOMAIN r => r.pc \notin Writing, cmd[c].pc \notin Writing
        PROVE  OutInv'
    BY <1>0, <2>a, OutQuiet
  <2>1. CASE RecoverBegin(c)
    BY <1>0, <2>1, OutBegin
  <2>2. CASE RecoverOut(c) \/ RecoverMark(c) \/ RecoverCopy(c)
    BY <1>0, <2>2, OutWrites
  <2>3. CASE Start(c)
    <3>1. PICK r \in AutoRequests \cup InteractiveRequests \cup {AllRequest} : cmd' = [cmd EXCEPT ![c] = r]
      BY <2>3 DEF Start
    <3>2. r.kind \in {"one", "all"} /\ r.pc = "next"
      BY RequestKinds
    <3>3. /\ Others(c) /\ cmd'[c].kind \in {"one", "all"} /\ cmd'[c].pc = "next"
          /\ out' = out
      BY <1>0, <2>3, <3>1, <3>2 DEF Start, CmdOK, Others
    <3>4. QED
      BY <2>0, <3>3, OutUnwritten DEF Recovering, Loop
  <2>4. CASE Finish(c) \/ Exhausted(c)
    BY <1>0, <2>0, <2>4, OutServed DEF Finish, Exhausted, Loop
  <2>5. CASE RecoverKeys(c)
    <3>1. Live(c) /\ out' = out
      BY <2>5 DEF RecoverKeys, Live, Ended
    <3>2. CASE With(c, [pc |-> "list", left |-> AllTargets])
      BY <1>0, <2>0, <3>1, <3>2, OutQuiet
    <3>3. QED
      BY <1>0, <2>5, <3>1, <3>2, OutServed DEF RecoverKeys
  <2>6. CASE RecoverList(c)
    BY <1>0, <2>0, <2>6, OutQuiet DEF RecoverList, Live, Ended
  <2>7. CASE RecoverPlan(c)
    <3>1. Live(c) /\ out' = out /\ cmd[c].pc \notin Writing
      BY <2>0, <2>7 DEF RecoverPlan, Live, Ended
    <3>2. ASSUME NEW p \in Plans(c), With(c, p)
          PROVE  OutInv'
      <4>1. p.pc = "next" /\ DOMAIN p = {"pc", "todo", "failed"}
        <5>1. PICK S, b :
                /\ S \subseteq Services
                /\ p \in {[pc |-> "next", todo |-> q, failed |-> b] : q \in InTurn(S)}
          BY <3>2 DEF Plans, placeServices, placeRecorded
        <5>2. QED
          BY <5>1
      <4>2. QED
        BY <1>0, <2>0, <3>1, <3>2, <4>1, OutQuiet DEF Loop
    <3>3. QED
      BY <1>0, <2>7, <3>1, <3>2, OutServed DEF RecoverPlan
  <2>8. CASE NextService(c) \/ Passed(c) \/ Restore(c)
    BY <1>0, <2>0, <2>8, OutQuiet DEF NextService, Passed, Restore, Loop
  <2>9. CASE Guard(c) \/ Look(c)
    BY <1>0, <2>0, <2>9, OutQuiet, OutServed DEF Guard, Look, Loop
  <2>10. CASE RestoreEnd(c)
    <3>1. out' = out
      BY <2>10 DEF RestoreEnd
    <3>2. ASSUME NEW g, Live(c), With(c, Over([pc |-> "hook"], [got |-> g]))
          PROVE  OutInv'
      <4> DEFINE r == Over([pc |-> "hook"], [got |-> g])
      <4>1. r.pc = "hook" /\ DOMAIN r = {"pc", "got"}
        BY DEF Over
      <4> HIDE DEF r
      <4>2. QED
        BY <1>0, <2>0, <3>1, <3>2, <4>1, OutQuiet DEF Loop, r
    <3>3. QED
      BY <1>0, <1>1, <2>10, <3>1, <3>2, OutServed DEF RestoreEnd
  <2>11. CASE HookStart(c) \/ HookEnd(c)
    BY <1>0, <1>1, <2>11, OutServed DEF HookStart, HookEnd
  <2>12. CASE Kill(c)
    <3>1. Others(c) /\ cmd'[c] = Over(Gone(c), cmd[c])
      BY <1>0, <2>12, Updated DEF Kill
    <3>2. cmd'[c].pc = "dead"
      BY <3>1 DEF Gone, Over, Quiet
    <3>3. QED
      BY <2>12, <3>1, <3>2, OutUnwritten DEF Kill, Recovering, Live, Ended, Writing
  <2>13. CASE GuardKill(c) \/ HookGone(c) \/ GuardExit(c)
    BY <1>1, <2>13 DEF GuardKill, HookGone, GuardExit
  <2>14. QED
    BY <1>2, <2>1, <2>2, <2>3, <2>4, <2>5, <2>6, <2>7, <2>8, <2>9, <2>10, <2>11, <2>12, <2>13 DEF Step
<1>3. ASSUME NEW b \in Backups, BackupStep(b) PROVE OutInv'
  BY <1>1, <1>3 DEF BackupStep, BackupLock, BackupProbe, BackupProceed, BackupEnd
<1>4. QED
  BY <1>1, <1>2, <1>3 DEF Next, vars

\* No output directory is in use at first.
LEMMA OutInit == Init => OutInv
BY DEF Init, Quiet, OutInv, Recovering, Live, Ended, Writing, Files

\* A recovered file is only replaced by a recovery of the kit it came from: what is there is
\* the mark's or the running recovery's, and only that recovery writes.
THEOREM RestoreOutKept == Spec => OutKept
<1>1. GateInv /\ RecoverInv /\ OutInv /\ [Next]_vars =>
         [\A f \in Files : out.files[f] \in Kits /\ out'.files[f] # out.files[f] =>
             \E c \in Commands : Recovering(c) /\ cmd[c].kit = out.files[f]]_vars
  <2> SUFFICES ASSUME GateInv, RecoverInv, OutInv, Next, NEW f \in Files,
                      out.files[f] \in Kits, out'.files[f] # out.files[f]
               PROVE  \E c \in Commands : Recovering(c) /\ cmd[c].kit = out.files[f]
    OBVIOUS
  <2>1. PICK c \in Commands : RecoverCopy(c)
    <3>1. ASSUME NEW b \in Backups, BackupStep(b) PROVE FALSE
      BY <3>1 DEF BackupStep, BackupLock, BackupProbe, BackupProceed, BackupEnd
    <3>2. PICK c \in Commands : Step(c)
      BY <3>1 DEF Next
    <3>3. ~ RecoverMark(c)
      BY DEF RecoverMark, OutInv
    <3>4. QED
      BY <3>2, <3>3 DEF Step, Start, RecoverBegin, RecoverOut, RecoverKeys, RecoverList, RecoverPlan,
           NextService, Finish, Guard, Look, Passed, Exhausted, Restore, RestoreEnd, HookStart,
           HookEnd, GuardKill, HookGone, GuardExit, Kill
  <2>2. cmd[c].pc \in Writing
    BY <2>1 DEF RecoverCopy, Writing
  <2>3. Recovering(c) /\ out.files[f] \in {"absent", "part", cmd[c].kit}
    BY <2>2, WritingRecovers DEF OutInv
  <2>4. QED
    BY <2>3, RestoreAssumption
<1>2. GateInv /\ [Next]_vars => GateInv'
  BY GateStep
<1>3. QED
  BY <1>1, <1>2, GateInit, RecoverInit, RecoverStep, OutInit, OutStep, PTL DEF Spec, OutKept

-----------------------------------------------------------------------------
(***************************************************************************)
(* The drills.  Two lines of argument.  A directory is made only while no  *)
(* more exist than the faults used can have left, so one is to be had      *)
(* (FewDirs), and it is on record, or was left by a kill (CopiesKnown with *)
(* Cleared).  And what a selection owes is pending until it is finished,   *)
(* at the storage whose turn it is (OwedPending, AtTurn), so that nothing  *)
(* is owed where nothing is pending; for the converse, that what shows as  *)
(* due is pending, no service is pending twice, and those picked and not   *)
(* yet restored are pending (DueInv).                                      *)
(***************************************************************************)
Drill == INSTANCE Drills

\* The steps between the choice of the services and what follows the last of them.
Picked == {"next", "make", "made", "try", "save", "report"}

\* A drill that has come so far has a storage and a service at hand.
AtHand ==
    /\ pc # "idle" => run.drill \in Drill!Drills
    /\ pc \in {"pick"} \cup Picked => run.targets # <<>>
    /\ pc \in Picked \ {"next"} => run.picked # <<>>
    /\ pc \in {"made", "try"} => run.dir \in disk

\* No more directories than the faults can have left behind, and the one in use.
FewDirs ==
    /\ IsFiniteSet(disk)
    /\ Cardinality(disk) <= faults + (IF pc \in {"made", "try"} THEN 1 ELSE 0)

DrillTypes == Drill!TypeOK /\ AtHand /\ FewDirs

\* What the interrupted drill left is gone from its record before this drill's takes its place.
Cleared == pc = "begin" => record.dirs \cap disk \subseteq stray

\* What is selected for a turn is of the drill's own services, and pending.
OwedPending ==
    \A x \in owed : x[3] \in Drill!Covered(x[1], 0) /\ x[3] \in Drill!Elements(pending[x[1]][x[2]])

\* The named drill works on the storage whose turn it is, and on no other.
AtTurn ==
    run.drill = "named" =>
        /\ pc = "pick" => run.targets = <<Drill!TurnStorage>>
        /\ pc \in Picked => run.targets = <<turn>>

\* No service twice.
Distinct(s) == \A i, j \in DOMAIN s : s[i] = s[j] => i = j

\* Of the services picked, those still to be restored are pending, the one at hand until
\* its result is saved.
PickedPending ==
    pc \in Picked =>
        /\ Distinct(run.picked)
        /\ \A i \in DOMAIN run.picked :
              (pc = "report" /\ i = 1) \/ run.picked[i] \in Drill!Elements(pending[run.drill][Drill!Target])

PendingOnce == \A d \in Drill!Drills, t \in Drill!Storages : Distinct(pending[d][t])

DueInv == PickedPending /\ PendingOnce /\ Drill!DueKept

-------------------------------------------------------------------------------
\* What a filtered list is: a list of the kept elements, all of them, and still of each once
\* if the list was.
LEMMA FilteredFacts ==
    ASSUME NEW T, NEW s \in Seq(T), NEW S, NEW q \in Drill!Filtered(s, S)
    PROVE  /\ q \in Seq(T) /\ Len(q) <= Len(s)
           /\ Drill!Elements(q) = Drill!Elements(s) \cap S
           /\ Distinct(s) => Distinct(q)
<1>1. PICK n \in 0 .. Len(s) : q \in [1 .. n -> Drill!Elements(s) \cap S]
  BY DEF Drill!Filtered
<1>2. n \in Nat /\ Len(s) \in Nat /\ DOMAIN s = 1 .. Len(s)
  BY <1>1
<1>3. Drill!Elements(s) \subseteq T
  BY <1>2 DEF Drill!Elements
<1>4. q \in [1 .. n -> T]
  BY <1>1, <1>3
<1>5. q \in Seq(T) /\ Len(q) = n /\ DOMAIN q = 1 .. n
  BY <1>2, <1>4
<1>6. Drill!Elements(q) \subseteq Drill!Elements(s) \cap S
  BY <1>1, <1>5 DEF Drill!Elements
<1>7. \A e \in Drill!Elements(s) \cap S : \E k \in DOMAIN q : q[k] = e
  BY DEF Drill!Filtered
<1>8. Drill!Elements(s) \cap S \subseteq Drill!Elements(q)
  BY <1>7 DEF Drill!Elements
<1>9. ASSUME Distinct(s), NEW k \in DOMAIN q, NEW l \in DOMAIN q, q[k] = q[l], k < l PROVE FALSE
  <2>1. PICK a \in DOMAIN s, b \in DOMAIN s : a < b /\ s[a] = q[k] /\ s[b] = q[l]
    BY <1>9 DEF Drill!Filtered
  <2>2. QED
    BY <1>2, <1>9, <2>1 DEF Distinct
<1>10. Distinct(s) => Distinct(q)
  <2> SUFFICES ASSUME Distinct(s), NEW k \in DOMAIN q, NEW l \in DOMAIN q, q[k] = q[l] PROVE k = l
    BY DEF Distinct
  <2>1. ~ (k < l) /\ ~ (l < k)
    BY <1>9
  <2>2. QED
    BY <1>2, <1>5, <2>1
<1>11. QED
  BY <1>1, <1>5, <1>6, <1>8, <1>10

\* Two lists one after the other.
LEMMA JoinFacts ==
    ASSUME NEW T, NEW s \in Seq(T), NEW q \in Seq(T)
    PROVE  /\ s \o q \in Seq(T)
           /\ Drill!Elements(s \o q) = Drill!Elements(s) \cup Drill!Elements(q)
           /\ Distinct(s) /\ Distinct(q) /\ Drill!Elements(s) \cap Drill!Elements(q) = {} => Distinct(s \o q)
<1>1. /\ s \o q \in Seq(T) /\ Len(s \o q) = Len(s) + Len(q)
      /\ DOMAIN s = 1 .. Len(s) /\ DOMAIN q = 1 .. Len(q)
      /\ DOMAIN (s \o q) = 1 .. Len(s) + Len(q) /\ Len(s) \in Nat /\ Len(q) \in Nat
  OBVIOUS
<1>2. \A k \in DOMAIN (s \o q) : (s \o q)[k] = IF k <= Len(s) THEN s[k] ELSE q[k - Len(s)]
  BY <1>1
<1>3. \A k \in DOMAIN s : k \in DOMAIN (s \o q) /\ (s \o q)[k] = s[k]
  BY <1>1, <1>2
<1>4. \A k \in DOMAIN q : k + Len(s) \in DOMAIN (s \o q) /\ (s \o q)[k + Len(s)] = q[k]
  BY <1>1, <1>2
<1>5. \A k \in DOMAIN (s \o q) :
         \/ k \in DOMAIN s /\ (s \o q)[k] = s[k]
         \/ k > Len(s) /\ k - Len(s) \in DOMAIN q /\ (s \o q)[k] = q[k - Len(s)]
  BY <1>1, <1>2
<1> HIDE <1>1
<1>6. Drill!Elements(s \o q) \subseteq Drill!Elements(s) \cup Drill!Elements(q)
  BY <1>5 DEF Drill!Elements
<1>7. Drill!Elements(s) \subseteq Drill!Elements(s \o q)
  BY <1>3 DEF Drill!Elements
<1>8. Drill!Elements(q) \subseteq Drill!Elements(s \o q)
  BY <1>4 DEF Drill!Elements
<1>9. ASSUME Distinct(s), Distinct(q), Drill!Elements(s) \cap Drill!Elements(q) = {} PROVE Distinct(s \o q)
  <2> SUFFICES ASSUME NEW k \in DOMAIN (s \o q), NEW l \in DOMAIN (s \o q), (s \o q)[k] = (s \o q)[l]
               PROVE  k = l
    BY DEF Distinct
  <2>1. \A a \in DOMAIN s, b \in DOMAIN q : s[a] # q[b]
    BY <1>9 DEF Drill!Elements
  <2>2. CASE k \in DOMAIN s /\ (s \o q)[k] = s[k] /\ l \in DOMAIN s /\ (s \o q)[l] = s[l]
    BY <1>9, <2>2 DEF Distinct
  <2>3. CASE /\ k > Len(s) /\ k - Len(s) \in DOMAIN q /\ (s \o q)[k] = q[k - Len(s)]
             /\ l > Len(s) /\ l - Len(s) \in DOMAIN q /\ (s \o q)[l] = q[l - Len(s)]
    <3>1. k - Len(s) = l - Len(s)
      BY <1>9, <2>3 DEF Distinct
    <3>2. QED
      BY <1>1, <3>1
  <2>4. QED
    BY <1>5, <2>1, <2>2, <2>3
<1>10. QED
  BY <1>1, <1>6, <1>7, <1>8, <1>9

\* The remainder, where at most once round is gone over the end.
LEMMA ModFacts ==
    ASSUME NEW a \in Nat, NEW b \in Nat \ {0}
    PROVE  a % b \in 0 .. b - 1 /\ (a < b + b => a % b = IF a < b THEN a ELSE a - b)
<1>1. a % b \in 0 .. b - 1
  BY SMT
<1>2. a < b => a % b = a
  BY SMT
<1>3. b <= a /\ a < b + b => a % b = a - b
  BY SMT
<1>4. QED
  BY <1>1, <1>2, <1>3

\* Services taken from a list going round are of the list, and each once if not more are
\* taken than there are.
LEMMA RotatedFacts ==
    ASSUME NEW T, NEW list \in Seq(T), list # <<>>, NEW r \in 0 .. Len(list) - 1, NEW n \in Nat
    PROVE  /\ Drill!Rotated(list, r, n) \in Seq(T)
           /\ Drill!Elements(Drill!Rotated(list, r, n)) \subseteq Drill!Elements(list)
           /\ Distinct(list) /\ n <= Len(list) => Distinct(Drill!Rotated(list, r, n))
<1> DEFINE L == Len(list)
           place(k) == ((r + k - 1) % L) + 1
           taken == Drill!Rotated(list, r, n)
<1>1. L \in Nat \ {0} /\ DOMAIN list = 1 .. L /\ r \in Nat /\ r < L
  OBVIOUS
<1>2. \A k \in 1 .. n : place(k) \in 1 .. L
  <2> TAKE k \in 1 .. n
  <2>1. r + k - 1 \in Nat
    BY <1>1
  <2>2. (r + k - 1) % L \in 0 .. L - 1
    BY <1>1, <2>1, ModFacts
  <2>3. QED
    BY <1>1, <2>2
<1>3. ASSUME n <= L, NEW k \in 1 .. n, NEW l \in 1 .. n, place(k) = place(l) PROVE k = l
  <2> DEFINE a == r + k - 1
             b == r + l - 1
  <2>1. a \in Nat /\ b \in Nat /\ a < L + L /\ b < L + L /\ a - b < L /\ b - a < L
    BY <1>1, <1>3
  <2>2. a % L = b % L
    <3>1. a % L \in 0 .. L - 1 /\ b % L \in 0 .. L - 1
      BY <1>1, <2>1, ModFacts
    <3>2. QED
      BY <1>1, <1>3, <3>1
  <2> HIDE DEF L, a, b
  <2>3. a % L = (IF a < L THEN a ELSE a - L)
    BY <1>1, <2>1, ModFacts
  <2>4. b % L = (IF b < L THEN b ELSE b - L)
    BY <1>1, <2>1, ModFacts
  <2>5. a = b
    BY <1>1, <2>1, <2>2, <2>3, <2>4
  <2>6. QED
    BY <1>1, <2>5 DEF a, b
<1>4. taken = [k \in 1 .. n |-> list[place(k)]]
  BY DEF Drill!Rotated
<1> HIDE DEF L, place, taken
<1>5. taken \in [1 .. n -> T]
  BY <1>1, <1>2, <1>4
<1>6. taken \in Seq(T) /\ DOMAIN taken = 1 .. n
  BY <1>4, <1>5
<1>7. Drill!Elements(taken) \subseteq Drill!Elements(list)
  BY <1>1, <1>2, <1>4 DEF Drill!Elements
<1>8. Distinct(list) /\ n <= L => Distinct(taken)
  BY <1>1, <1>2, <1>3, <1>4, <1>6 DEF Distinct
<1>9. QED
  BY <1>6, <1>7, <1>8 DEF taken, L

\* One place of the pending lists is replaced.
LEMMA PendingSet ==
    ASSUME pending \in [Drill!Drills -> [Drill!Storages -> Seq(Drill!Services)]],
           NEW d \in Drill!Drills, NEW t \in Drill!Storages, NEW p \in Seq(Drill!Services),
           pending' = [pending EXCEPT ![d][t] = p]
    PROVE  /\ pending' \in [Drill!Drills -> [Drill!Storages -> Seq(Drill!Services)]] /\ pending'[d][t] = p
           /\ \A e \in Drill!Drills, u \in Drill!Storages : e # d \/ u # t => pending'[e][u] = pending[e][u]
  OBVIOUS

\* The selection keeps what is pending of the covered services, takes only what is pending,
\* and moves the rotation only with none of them pending.
LEMMA PickFacts ==
    ASSUME Drill!TypeOK, AtHand, Drill!Pick
    PROVE  /\ run.drill \in Drill!Drills /\ Drill!Target \in Drill!Storages
           /\ pending' \in [Drill!Drills -> [Drill!Storages -> Seq(Drill!Services)]]
           /\ \A e \in Drill!Drills, u \in Drill!Storages :
                 e # run.drill \/ u # Drill!Target => pending'[e][u] = pending[e][u]
           /\ \A s \in Drill!Covered(run.drill, 0) : s \in Drill!Elements(pending[run.drill][Drill!Target])
                 => s \in Drill!Elements(pending'[run.drill][Drill!Target])
           /\ PendingOnce => Distinct(pending'[run.drill][Drill!Target]) /\ Distinct(run'.picked)
           /\ rotation' \in [Drill!Storages -> 0 .. NServices - 1]
           /\ \A u \in Drill!Storages : u # Drill!Target => rotation'[u] = rotation[u]
           /\ rotation' # rotation => /\ run.drill = "rotate"
                                      /\ Drill!Elements(pending["rotate"][Drill!Target]) \cap Drill!Covered("rotate", 0) = {}
           /\ run'.picked \in Seq(Drill!Services) /\ run' = [run EXCEPT !.picked = run'.picked]
           /\ Drill!Elements(run'.picked) \subseteq Drill!Elements(pending'[run.drill][Drill!Target])
           /\ run.one = 0 => Drill!Elements(run'.picked) \subseteq Drill!Covered(run.drill, 0)
           /\ owed' = IF run.one = 0
                      THEN owed \cup {<<run.drill, Drill!Target, s>> : s \in Drill!Elements(run'.picked)} ELSE owed
<1> DEFINE d == run.drill
           t == Drill!Target
           every == d = "named" \/ run.one # 0
           again(due) == ~ every /\ due # <<>>
           all(list) == every \/ Count = 0 \/ Count >= Len(list)
           taken(list, due) == IF again(due) THEN due
                             ELSE IF all(list) THEN list
                             ELSE Drill!Rotated(list, rotation[t] % Len(list), Count)
<1>1. d \in Drill!Drills /\ t \in Drill!Storages
  BY DEF AtHand, Drill!TypeOK, Drill!Pick, Drill!Target
<1>2. PICK list \in Drill!Sorted(Drill!Covered(d, run.one)), due \in Drill!Due(d, t, every) :
        /\ \E p \in IF again(due) THEN {due} ELSE Drill!AddPending(due, taken(list, due)) :
              pending' = [pending EXCEPT ![d][t] = p]
        /\ rotation' = IF again(due) \/ all(list) THEN rotation
                       ELSE [rotation EXCEPT ![t] = Drill!Turns(@ % Len(list), Count, Len(list))]
        /\ owed' = IF run.one = 0 THEN owed \cup {<<d, t, s>> : s \in Drill!Elements(taken(list, due))}
                   ELSE owed
        /\ run' = [run EXCEPT !.picked = taken(list, due)]
  BY DEF Drill!Pick
<1>3. /\ list \in Seq(Drill!Services) /\ Len(list) <= NServices /\ Distinct(list)
      /\ Drill!Elements(list) = Drill!Services \cap Drill!Covered(d, run.one)
  <2> DEFINE names == [i \in Drill!Services |-> i]
  <2>1. names \in Seq(Drill!Services) /\ Len(names) = NServices
    BY DrillsAssumption DEF Drill!Services
  <2>2. Drill!Elements(names) = Drill!Services /\ Distinct(names)
    BY DEF Drill!Elements, Distinct
  <2>3. list \in Drill!Filtered(names, Drill!Covered(d, run.one))
    BY <1>2 DEF Drill!Sorted
  <2> HIDE DEF names
  <2>4. QED
    BY <2>1, <2>2, <2>3, FilteredFacts
<1>4. pending[d][t] \in Seq(Drill!Services)
  BY <1>1 DEF Drill!TypeOK
<1>5. /\ due \in Seq(Drill!Services) /\ (PendingOnce => Distinct(due))
      /\ every => due = pending[d][t]
      /\ ~ every => Drill!Elements(due) = Drill!Elements(pending[d][t]) \cap Drill!Covered(d, 0)
  <2>1. CASE every
    BY <1>1, <1>2, <1>4, <2>1 DEF Drill!Due, PendingOnce
  <2>2. CASE ~ every
    <3>1. due \in Drill!Filtered(pending[d][t], Drill!Covered(d, 0))
      BY <1>2, <2>2 DEF Drill!Due
    <3>2. QED
      BY <1>1, <1>4, <2>2, <3>1, FilteredFacts DEF PendingOnce
  <2>3. QED
    BY <2>1, <2>2
<1>6. Drill!Elements(due) \subseteq Drill!Services
  BY <1>5 DEF Drill!Elements
<1>7. ASSUME ~ again(due), ~ all(list)
      PROVE  /\ list # <<>> /\ Len(list) \in 1 .. NServices /\ Count < Len(list) /\ Count \in Nat
             /\ rotation[t] % Len(list) \in 0 .. Len(list) - 1
             /\ Drill!Turns(rotation[t] % Len(list), Count, Len(list)) \in 0 .. NServices - 1
  <2>1. d = "rotate" /\ run.one = 0
    BY <1>1, <1>7 DEF Drill!Drills
  <2>2. Drill!Elements(list) # {}
    BY <1>3, <2>1, DrillsAssumption DEF Drill!Covered, Drill!Services
  <2>3. list # <<>> /\ Len(list) \in Nat \ {0}
    BY <1>3, <2>2 DEF Drill!Elements
  <2>4. Count \in Nat /\ Count < Len(list) /\ NServices \in Nat
    BY <1>7, <2>3, DrillsAssumption
  <2>5. rotation[t] \in Nat
    BY <1>1, <2>4 DEF Drill!TypeOK
  <2>6. rotation[t] % Len(list) \in 0 .. Len(list) - 1
    BY <2>3, <2>5, ModFacts
  <2>7. (rotation[t] % Len(list)) + Count \in Nat
    BY <2>4, <2>6
  <2>8. Drill!Turns(rotation[t] % Len(list), Count, Len(list)) \in 0 .. Len(list) - 1
    BY <2>3, <2>7, ModFacts DEF Drill!Turns
  <2>9. QED
    BY <1>3, <2>3, <2>4, <2>6, <2>8
<1> DEFINE o == taken(list, due)
<1>8. /\ o \in Seq(Drill!Services) /\ (again(due) => o = due)
      /\ ~ again(due) => Drill!Elements(o) \subseteq Drill!Elements(list)
      /\ PendingOnce => Distinct(o)
  <2>1. CASE again(due) \/ all(list)
    BY <1>3, <1>5, <2>1
  <2>2. CASE ~ again(due) /\ ~ all(list)
    <3>1. o = Drill!Rotated(list, rotation[t] % Len(list), Count)
      BY <2>2
    <3> DEFINE r == rotation[t] % Len(list)
    <3>2. list # <<>> /\ r \in 0 .. Len(list) - 1 /\ Count \in Nat /\ Count <= Len(list)
      BY <1>7, <2>2
    <3> HIDE DEF r
    <3>3. /\ Drill!Rotated(list, r, Count) \in Seq(Drill!Services) /\ Distinct(Drill!Rotated(list, r, Count))
          /\ Drill!Elements(Drill!Rotated(list, r, Count)) \subseteq Drill!Elements(list)
      BY <1>3, <3>2, RotatedFacts
    <3>4. o = Drill!Rotated(list, r, Count)
      BY <3>1 DEF r
    <3> HIDE DEF o
    <3>5. QED
      BY <2>2, <3>3, <3>4
  <2>3. QED
    BY <2>1, <2>2
<1>9. PICK p \in IF again(due) THEN {due} ELSE Drill!AddPending(due, o) : pending' = [pending EXCEPT ![d][t] = p]
  BY <1>2
<1>10. /\ p \in Seq(Drill!Services) /\ Drill!Elements(due) \subseteq Drill!Elements(p) /\ Drill!Elements(o) \subseteq Drill!Elements(p)
       /\ PendingOnce => Distinct(p)
  <2>1. CASE again(due)
    BY <1>5, <1>8, <1>9, <2>1
  <2>2. CASE ~ again(due)
    <3>1. PICK q \in Drill!Filtered(o, Drill!Services \ Drill!Elements(due)) : p = due \o q
      BY <1>9, <2>2 DEF Drill!AddPending
    <3>2. /\ q \in Seq(Drill!Services) /\ (PendingOnce => Distinct(q))
          /\ Drill!Elements(q) = Drill!Elements(o) \cap (Drill!Services \ Drill!Elements(due))
      BY <1>8, <3>1, FilteredFacts
    <3>3. Drill!Elements(o) \subseteq Drill!Services
      BY <1>8 DEF Drill!Elements
    <3>4. p \in Seq(Drill!Services) /\ Drill!Elements(p) = Drill!Elements(due) \cup Drill!Elements(q)
      BY <1>5, <3>1, <3>2, JoinFacts
    <3>5. PendingOnce => Distinct(p)
      BY <1>5, <3>1, <3>2, JoinFacts
    <3>6. QED
      BY <3>2, <3>3, <3>4, <3>5
  <2>3. QED
    BY <2>1, <2>2
<1>11. /\ pending' \in [Drill!Drills -> [Drill!Storages -> Seq(Drill!Services)]] /\ pending'[d][t] = p
       /\ \A e \in Drill!Drills, u \in Drill!Storages : e # d \/ u # t => pending'[e][u] = pending[e][u]
  BY <1>1, <1>9, <1>10, PendingSet DEF Drill!TypeOK
<1>12. run' = [run EXCEPT !.picked = o] /\ run'.picked = o
  BY <1>2 DEF Drill!TypeOK
<1>13. \A s \in Drill!Covered(d, 0) : s \in Drill!Elements(pending[d][t]) => s \in Drill!Elements(due)
  BY <1>5
<1>14. run.one = 0 => Drill!Elements(o) \subseteq Drill!Covered(d, 0)
  <2>1. again(due) => Drill!Elements(o) \subseteq Drill!Covered(d, 0)
    BY <1>5, <1>8
  <2>2. QED
    BY <1>3, <1>8, <2>1
<1>15. /\ rotation' \in [Drill!Storages -> 0 .. NServices - 1]
       /\ \A u \in Drill!Storages : u # t => rotation'[u] = rotation[u]
       /\ rotation' # rotation => d = "rotate" /\ Drill!Elements(pending["rotate"][t]) \cap Drill!Covered("rotate", 0) = {}
  <2>1. CASE again(due) \/ all(list)
    BY <1>2, <2>1 DEF Drill!TypeOK
  <2>2. CASE ~ again(due) /\ ~ all(list)
    <3>1. rotation' = [rotation EXCEPT ![t] = Drill!Turns(rotation[t] % Len(list), Count, Len(list))]
      BY <1>2, <2>2
    <3>2. /\ rotation' \in [Drill!Storages -> 0 .. NServices - 1]
          /\ \A u \in Drill!Storages : u # t => rotation'[u] = rotation[u]
      BY <1>1, <1>7, <2>2, <3>1 DEF Drill!TypeOK
    <3>3. d = "rotate" /\ due = <<>> /\ ~ every
      BY <1>1, <2>2 DEF Drill!Drills
    <3>4. Drill!Elements(due) = {}
      BY <3>3 DEF Drill!Elements
    <3>5. QED
      BY <1>5, <3>2, <3>3, <3>4
  <2>3. QED
    BY <2>1, <2>2
<1>16. owed' = IF run.one = 0 THEN owed \cup {<<d, t, s>> : s \in Drill!Elements(o)} ELSE owed
  BY <1>2
<1> HIDE DEF o, again, all, taken, every
<1>17. QED
  BY <1>1, <1>8, <1>10, <1>11, <1>12, <1>13, <1>14, <1>15, <1>16

\* A result saved takes at most its own service from what is pending.
LEMMA SaveFacts ==
    ASSUME Drill!TypeOK, AtHand, Drill!Save
    PROVE  /\ run.drill \in Drill!Drills /\ Drill!Target \in Drill!Storages /\ Drill!Service \in Drill!Services
           /\ pending' \in [Drill!Drills -> [Drill!Storages -> Seq(Drill!Services)]]
           /\ \A e \in Drill!Drills, u \in Drill!Storages :
                 e # run.drill \/ u # Drill!Target => pending'[e][u] = pending[e][u]
           /\ \A s \in Drill!Services \ {Drill!Service} : s \in Drill!Elements(pending[run.drill][Drill!Target])
                 => s \in Drill!Elements(pending'[run.drill][Drill!Target])
           /\ ~ Drill!Finished(run.res, Drill!Key \in open) => pending' = pending
           /\ PendingOnce => Distinct(pending'[run.drill][Drill!Target])
<1>1. run.drill \in Drill!Drills /\ Drill!Target \in Drill!Storages /\ Drill!Service \in Drill!Services
  BY DEF AtHand, Drill!TypeOK, Drill!Save, Drill!Target, Drill!Service, Picked
<1>2. CASE ~ Drill!Finished(run.res, Drill!Key \in open)
  BY <1>1, <1>2 DEF Drill!Save, Drill!TypeOK, PendingOnce
<1>3. CASE Drill!Finished(run.res, Drill!Key \in open)
  <2>1. PICK p \in Drill!Filtered(pending[run.drill][Drill!Target], Drill!Services \ {Drill!Service}) :
          pending' = [pending EXCEPT ![run.drill][Drill!Target] = p]
    BY <1>3 DEF Drill!Save
  <2>2. pending[run.drill][Drill!Target] \in Seq(Drill!Services)
    BY <1>1 DEF Drill!TypeOK
  <2>3. /\ p \in Seq(Drill!Services)
        /\ Drill!Elements(p) = Drill!Elements(pending[run.drill][Drill!Target]) \cap (Drill!Services \ {Drill!Service})
        /\ PendingOnce => Distinct(p)
    BY <1>1, <2>1, <2>2, FilteredFacts DEF PendingOnce
  <2>4. QED
    BY <1>1, <1>3, <2>1, <2>3, PendingSet DEF Drill!TypeOK
<1>4. QED
  BY <1>2, <1>3

\* The types, a group of variables at a time.
RunOf == [drill : Drill!Drills \cup {"none"}, one : {0} \cup Drill!Services, targets : Seq(Drill!Storages),
          picked : Seq(Drill!Services), dir : Drill!Dirs \cup {Drill!NoDir}, res : Drill!Outcomes \cup {"none"},
          failed : BOOLEAN, stopped : BOOLEAN]
Places == {"idle", "clean", "begin", "select", "pick", "next", "make", "made", "try", "save",
           "report", "wrap", "end"}
FileTypes ==
    /\ pending \in [Drill!Drills -> [Drill!Storages -> Seq(Drill!Services)]]
    /\ rotation \in [Drill!Storages -> 0 .. NServices - 1]
    /\ next \in 0 .. NStorages - 1 /\ turn \in Drill!Storages \cup {Drill!NoStorage}
    /\ result \in [Drill!Keys -> Drill!Outcomes \cup {"none"}]
DirTypes ==
    record \in [drill : Drill!Drills \cup {"none"}, dirs : SUBSET Drill!Dirs] /\ disk \subseteq Drill!Dirs /\ stray \subseteq Drill!Dirs
OpenTypes == open \subseteq Drill!Keys /\ owed \subseteq Drill!Keys
CtlTypes == stopReq \in BOOLEAN /\ flag \in BOOLEAN /\ faults \in 0 .. MaxFaults

\* The type invariant in parts, each for what one file, or the drill itself, holds.
LEMMA TypeParts ==
    /\ Drill!TypeOK <=> FileTypes /\ DirTypes /\ OpenTypes /\ CtlTypes /\ pc \in Places /\ run \in RunOf
    /\ Drill!TypeOK' <=> FileTypes' /\ DirTypes' /\ OpenTypes' /\ CtlTypes' /\ pc' \in Places /\ run' \in RunOf
<1>1. Drill!TypeOK <=> FileTypes /\ DirTypes /\ OpenTypes /\ CtlTypes /\ pc \in Places /\ run \in RunOf
  BY DEF Drill!TypeOK, FileTypes, DirTypes, OpenTypes, CtlTypes, Places, RunOf
<1>2. Drill!TypeOK' <=> FileTypes' /\ DirTypes' /\ OpenTypes' /\ CtlTypes' /\ pc' \in Places /\ run' \in RunOf
  BY DEF Drill!TypeOK, FileTypes, DirTypes, OpenTypes, CtlTypes, Places, RunOf
<1>3. QED
  BY <1>1, <1>2

\* A step that leaves the files, the directories or the incidents alone.
LEMMA TypesKept ==
    /\ FileTypes /\ UNCHANGED Drill!fileVars => FileTypes'
    /\ DirTypes /\ UNCHANGED Drill!dirVars => DirTypes'
    /\ OpenTypes /\ UNCHANGED <<open, owed>> => OpenTypes'
    /\ CtlTypes /\ UNCHANGED Drill!ctlVars => CtlTypes'
  BY DEF FileTypes, Drill!fileVars, DirTypes, Drill!dirVars, OpenTypes, CtlTypes, Drill!ctlVars

\* A fault more than before, at most.
LEMMA FaultFacts ==
    ASSUME CtlTypes, Drill!Fault \/ UNCHANGED faults
    PROVE  /\ faults' \in 0 .. MaxFaults /\ faults' >= faults /\ faults \in Nat /\ faults' \in Nat
           /\ Drill!Fault => faults' = faults + 1
<1>1. MaxFaults \in Nat /\ faults \in 0 .. MaxFaults
  BY DrillsAssumption DEF CtlTypes
<1>2. CASE Drill!Fault
  BY <1>1, <1>2 DEF Drill!Fault
<1>3. CASE UNCHANGED faults
  BY <1>1, <1>3 DEF Drill!Fault
<1>4. QED
  BY <1>2, <1>3

\* A step that leaves the directories, and no drill but by a fault.
LEMMA FewKept ==
    ASSUME CtlTypes, FewDirs, UNCHANGED disk, faults' \in Nat, faults' >= faults,
           pc \in {"made", "try"} => pc' \in {"made", "try"} \/ faults' = faults + 1
    PROVE  FewDirs'
<1>1. Cardinality(disk) \in Nat /\ faults \in Nat
  BY FS_CardinalityType, DrillsAssumption DEF FewDirs, CtlTypes
<1>2. QED
  BY <1>1 DEF FewDirs

\* A directory is left to be made.
LEMMA DirLeft ==
    ASSUME Drill!TypeOK, FewDirs, pc = "make"
    PROVE  (CHOOSE x \in Drill!Dirs \ disk : TRUE) \in Drill!Dirs \ disk
<1>1. MaxFaults \in Nat /\ faults \in Nat /\ faults <= MaxFaults
  BY DrillsAssumption DEF Drill!TypeOK
<1>2. Cardinality(Drill!Dirs) = MaxFaults + 1
  <2> DEFINE b == MaxFaults + 1
  <2>1. b \in Int /\ 1 \in Int /\ ~ (1 > b)
    BY <1>1
  <2> HIDE DEF b
  <2>2. Cardinality(1 .. b) = IF 1 > b THEN 0 ELSE b - 1 + 1
    BY <2>1, FS_Interval
  <2>3. Cardinality(1 .. b) = b
    BY <2>1, <2>2
  <2>4. QED
    BY <2>3 DEF Drill!Dirs, b
<1>3. IsFiniteSet(disk) /\ Cardinality(disk) \in Nat /\ Cardinality(disk) <= faults
  BY <1>1, FS_CardinalityType DEF FewDirs
<1>4. ASSUME Drill!Dirs \subseteq disk PROVE FALSE
  <2>1. Cardinality(Drill!Dirs) <= Cardinality(disk)
    BY <1>3, <1>4, FS_Subset
  <2>2. QED
    BY <1>1, <1>2, <1>3, <2>1
<1>5. QED
  BY <1>4

\* Every step of a drill keeps the types, with what the drill has at hand and how many
\* directories there can be: a new one is always to be had.
LEMMA DrillTypesStep ==
    ASSUME Drill!TypeOK, AtHand, FewDirs, [Drill!Next]_(Drill!vars)
    PROVE  Drill!TypeOK' /\ AtHand' /\ FewDirs'
<1>0. FileTypes /\ DirTypes /\ OpenTypes /\ CtlTypes /\ pc \in Places /\ run \in RunOf
  BY TypeParts
<1>a. Drill!NoRun \in RunOf
  BY DEF Drill!NoRun, RunOf
<1>b. \A r \in RunOf : /\ r.targets \in Seq(Drill!Storages) /\ r.picked \in Seq(Drill!Services)
                       /\ r.drill \in Drill!Drills \cup {"none"} /\ r.dir \in Drill!Dirs \cup {Drill!NoDir}
  BY DEF RunOf
<1>1. ASSUME NEW d \in Drill!Drills, NEW one \in {0} \cup Drill!Services, Drill!Start(d, one)
      PROVE  Drill!TypeOK' /\ AtHand' /\ FewDirs'
  <2>1. run' \in RunOf /\ run'.drill = d
    BY <1>a, <1>1 DEF Drill!Start, RunOf
  <2>2. pc' \in {"clean", "begin"} /\ (Drill!Fault \/ UNCHANGED faults) /\ pc = "idle"
        /\ stopReq' = FALSE /\ UNCHANGED <<Drill!fileVars, open, Drill!dirVars, flag, owed>>
    BY <1>1 DEF Drill!Start, Drill!First
  <2>3. CtlTypes'
    BY <1>0, <2>2, FaultFacts DEF CtlTypes
  <2>4. FewDirs'
    BY <1>0, <2>2, FewKept, FaultFacts DEF Drill!dirVars
  <2>5. AtHand'
    BY <2>1, <2>2 DEF AtHand, Picked
  <2>6. QED
    BY <1>0, <2>1, <2>2, <2>3, <2>4, <2>5, TypeParts, TypesKept DEF Places
<1>2. CASE Drill!Clean
  <2>1. PICK kept \in Drill!Kept : /\ disk' = disk \ (record.dirs \ kept) /\ stray' = stray \cup (kept \cap disk)
                                   /\ IF kept = {} THEN UNCHANGED faults ELSE Drill!Fault
    BY <1>2 DEF Drill!Clean
  <2>2. faults' \in 0 .. MaxFaults /\ faults' >= faults /\ faults \in Nat /\ faults' \in Nat
    BY <1>0, <2>1, FaultFacts
  <2>3. disk' \subseteq disk /\ DirTypes'
    BY <1>0, <1>2, <2>1 DEF DirTypes, Drill!Clean
  <2>4. IsFiniteSet(disk') /\ Cardinality(disk') <= Cardinality(disk) /\ Cardinality(disk) \in Nat
        /\ Cardinality(disk') \in Nat /\ Cardinality(disk) <= faults
    BY <1>2, <2>2, <2>3, FS_Subset, FS_CardinalityType DEF FewDirs, Drill!Clean
  <2>5. pc' = "begin" /\ pc = "clean" /\ UNCHANGED <<Drill!fileVars, open, owed, run, stopReq, flag>>
    BY <1>2 DEF Drill!Clean
  <2>6. FewDirs'
    BY <2>2, <2>4, <2>5 DEF FewDirs
  <2>7. CtlTypes'
    BY <1>0, <2>2, <2>5 DEF CtlTypes
  <2>8. AtHand'
    BY <2>5 DEF AtHand, Picked
  <2>9. QED
    BY <1>0, <2>3, <2>5, <2>6, <2>7, <2>8, TypeParts, TypesKept DEF Places
<1>3. CASE Drill!Begin
  <2>1. pc = "begin" /\ pc' = "select" /\ UNCHANGED <<Drill!fileVars, open, disk, stray, run, Drill!ctlVars, owed>>
        /\ record' = [drill |-> run.drill, dirs |-> {}]
    BY <1>3 DEF Drill!Begin
  <2>2. DirTypes'
    BY <1>0, <1>b, <2>1 DEF DirTypes
  <2>3. FewDirs'
    BY <1>0, <2>1, FewKept, FaultFacts DEF Drill!ctlVars
  <2>4. AtHand'
    BY <2>1 DEF AtHand, Picked
  <2>5. QED
    BY <1>0, <2>1, <2>2, <2>3, <2>4, TypeParts, TypesKept DEF Places
<1>4. CASE Drill!Select
  <2>1. /\ pc = "select" /\ UNCHANGED <<Drill!fileVars, open, Drill!dirVars, stopReq, flag, owed>>
        /\ Drill!Fault \/ UNCHANGED faults
    BY <1>4 DEF Drill!Select
  <2>2. \/ pc' = "end" /\ run' = run
        \/ pc' = "pick" /\ run' \in RunOf /\ run'.drill = run.drill /\ run'.targets # <<>>
    <3> DEFINE to == IF run.drill = "named" THEN <<Drill!TurnStorage>> ELSE [t \in Drill!Storages |-> t]
    <3>1. to \in Seq(Drill!Storages) /\ to # <<>>
      <4>1. Drill!TurnStorage \in Drill!Storages
        BY <1>0, DrillsAssumption DEF Drill!TurnStorage, FileTypes, Drill!Storages
      <4>2. [t \in Drill!Storages |-> t] \in Seq(Drill!Storages) /\ Len([t \in Drill!Storages |-> t]) = NStorages
        BY DrillsAssumption DEF Drill!Storages
      <4>3. NStorages # 0 /\ Len(<<>>) = 0
        BY DrillsAssumption
      <4>4. QED
        BY <4>1, <4>2, <4>3
    <3>2. \/ pc' = "end" /\ run' = run
          \/ pc' = "pick" /\ run' = [run EXCEPT !.targets = to]
      BY <1>4 DEF Drill!Select
    <3> HIDE DEF to
    <3>3. QED
      BY <1>0, <3>1, <3>2 DEF RunOf
  <2>3. CtlTypes' /\ FewDirs'
    BY <1>0, <2>1, FewKept, FaultFacts DEF CtlTypes, Drill!dirVars
  <2>4. AtHand'
    BY <2>1, <2>2 DEF AtHand, Picked
  <2>5. QED
    BY <1>0, <2>1, <2>2, <2>3, <2>4, TypeParts, TypesKept DEF Places
<1>5. CASE Drill!Pick
  <2>0. /\ pc = "pick" /\ pc' = "next" /\ UNCHANGED <<result, open, Drill!dirVars, Drill!ctlVars>>
        /\ IF run.drill = "named" THEN turn' = Drill!Target /\ next' = Drill!Target - 1 ELSE UNCHANGED <<turn, next>>
    BY <1>5 DEF Drill!Pick
  <2>1. run' \in RunOf /\ run'.drill = run.drill /\ run'.targets = run.targets
    <3>1. run'.picked \in Seq(Drill!Services) /\ run' = [run EXCEPT !.picked = run'.picked]
      BY <1>5, PickFacts
    <3>2. QED
      BY <1>0, <3>1 DEF RunOf
  <2>2. owed' \subseteq Drill!Keys
    <3>1. /\ run.drill \in Drill!Drills /\ Drill!Target \in Drill!Storages /\ run'.picked \in Seq(Drill!Services)
          /\ owed' = IF run.one = 0
                     THEN owed \cup {<<run.drill, Drill!Target, s>> : s \in Drill!Elements(run'.picked)} ELSE owed
      BY <1>5, PickFacts
    <3>2. Drill!Elements(run'.picked) \subseteq Drill!Services
      BY <3>1 DEF Drill!Elements
    <3>3. QED
      BY <1>0, <3>1, <3>2 DEF Drill!Keys, OpenTypes
  <2>3. FileTypes'
    <3>1. Drill!Target \in Drill!Storages
      BY <1>5, PickFacts
    <3>2. turn' \in Drill!Storages \cup {Drill!NoStorage} /\ next' \in 0 .. NStorages - 1
      BY <1>0, <2>0, <3>1, DrillsAssumption DEF Drill!Storages, FileTypes
    <3>3. /\ pending' \in [Drill!Drills -> [Drill!Storages -> Seq(Drill!Services)]]
          /\ rotation' \in [Drill!Storages -> 0 .. NServices - 1]
      BY <1>5, PickFacts
    <3>4. QED
      BY <1>0, <2>0, <3>2, <3>3 DEF FileTypes
  <2>4. FewDirs'
    BY <1>0, <2>0, FewKept, FaultFacts DEF Drill!ctlVars, Drill!dirVars
  <2>5. AtHand'
    BY <2>0, <2>1 DEF AtHand, Picked
  <2>6. OpenTypes'
    BY <1>0, <2>0, <2>2 DEF OpenTypes
  <2>7. QED
    BY <1>0, <2>0, <2>1, <2>3, <2>4, <2>5, <2>6, TypeParts, TypesKept DEF Places
<1>6. CASE Drill!StopFound
  <2>1. /\ pc = "next" /\ pc' = "wrap" /\ run' = [run EXCEPT !.stopped = TRUE]
        /\ UNCHANGED <<Drill!fileVars, open, Drill!dirVars, stopReq, flag, owed>> /\ (Drill!Fault \/ UNCHANGED faults)
    BY <1>6 DEF Drill!StopFound
  <2>2. run' \in RunOf /\ run'.drill = run.drill
    BY <1>0, <2>1 DEF RunOf
  <2>3. CtlTypes' /\ FewDirs'
    BY <1>0, <2>1, FewKept, FaultFacts DEF CtlTypes, Drill!dirVars
  <2>4. AtHand'
    BY <2>1, <2>2 DEF AtHand, Picked
  <2>5. QED
    BY <1>0, <2>1, <2>2, <2>3, <2>4, TypeParts, TypesKept DEF Places
<1>7. CASE Drill!TargetDone
  <2>1. /\ pc = "next" /\ pc' = (IF Len(run.targets) = 1 THEN "wrap" ELSE "pick")
        /\ run' = [run EXCEPT !.targets = Tail(@)]
        /\ UNCHANGED <<Drill!fileVars, open, Drill!dirVars, Drill!ctlVars, owed>>
    BY <1>7 DEF Drill!TargetDone
  <2>2. run.targets \in Seq(Drill!Storages) /\ run.targets # <<>>
    BY <1>0, <1>b, <2>1 DEF AtHand, Picked
  <2>3. Tail(run.targets) \in Seq(Drill!Storages) /\ (Len(run.targets) # 1 => Tail(run.targets) # <<>>)
    <3>1. Tail(run.targets) \in Seq(Drill!Storages) /\ Len(Tail(run.targets)) = Len(run.targets) - 1
      BY <2>2
    <3>2. Len(run.targets) # 1 => Len(Tail(run.targets)) # 0
      BY <2>2, <3>1
    <3>3. Len(<<>>) = 0
      OBVIOUS
    <3>4. Len(run.targets) # 1 => Tail(run.targets) # <<>>
      BY <3>2, <3>3, Zenon
    <3>5. QED
      BY <3>1, <3>4
  <2>4. run' \in RunOf /\ run'.drill = run.drill /\ run'.targets = Tail(run.targets)
    BY <1>0, <2>1, <2>3 DEF RunOf
  <2>5. FewDirs'
    BY <1>0, <2>1, FewKept, FaultFacts DEF Drill!ctlVars, Drill!dirVars
  <2>6. AtHand'
    BY <2>1, <2>3, <2>4 DEF AtHand, Picked
  <2>7. QED
    BY <1>0, <2>1, <2>4, <2>5, <2>6, TypeParts, TypesKept DEF Places
<1>8. CASE Drill!MarkDue
  <2>1. /\ pc = "next" /\ pc' = "make" /\ run.picked # <<>> /\ result' = [result EXCEPT ![Drill!Key] = "interrupted"]
        /\ UNCHANGED <<pending, rotation, next, turn, open, Drill!dirVars, run, Drill!ctlVars, owed>>
    BY <1>8 DEF Drill!MarkDue
  <2>2. FileTypes'
    BY <1>0, <2>1 DEF FileTypes, Drill!Outcomes
  <2>3. FewDirs'
    BY <1>0, <2>1, FewKept, FaultFacts DEF Drill!ctlVars, Drill!dirVars
  <2>4. AtHand'
    BY <2>1 DEF AtHand, Picked
  <2>5. QED
    BY <1>0, <2>1, <2>2, <2>3, <2>4, TypeParts, TypesKept DEF Places
<1>9. CASE Drill!Make
  <2> DEFINE new == CHOOSE x \in Drill!Dirs \ disk : TRUE
  <2>1. new \in Drill!Dirs \ disk
    BY <1>9, DirLeft DEF Drill!Make
  <2>2. /\ disk' = disk \cup {new} /\ run' = [run EXCEPT !.dir = new] /\ pc = "make" /\ pc' = "made"
        /\ UNCHANGED <<Drill!fileVars, open, record, stray, Drill!ctlVars, owed>>
    BY <1>9 DEF Drill!Make
  <2> HIDE DEF new
  <2>3. run' \in RunOf /\ run'.dir = new /\ run'.drill = run.drill /\ run'.targets = run.targets
        /\ run'.picked = run.picked
    BY <1>0, <2>1, <2>2 DEF RunOf
  <2>4. IsFiniteSet(disk') /\ Cardinality(disk') = Cardinality(disk) + 1
    BY <2>1, <2>2, FS_AddElement DEF FewDirs
  <2>5. Cardinality(disk) \in Nat /\ Cardinality(disk) <= faults /\ faults \in Nat
    BY <1>0, <2>2, FS_CardinalityType, FaultFacts DEF FewDirs, Drill!ctlVars
  <2>6. FewDirs'
    BY <2>2, <2>4, <2>5 DEF FewDirs, Drill!ctlVars
  <2>7. AtHand'
    BY <2>2, <2>3 DEF AtHand, Picked
  <2>8. DirTypes'
    BY <1>0, <2>1, <2>2 DEF DirTypes
  <2>9. QED
    BY <1>0, <2>2, <2>3, <2>6, <2>7, <2>8, TypeParts, TypesKept DEF Places
<1>10. CASE Drill!Note
  <2>1. /\ pc = "made" /\ pc' = "try" /\ record' = [record EXCEPT !.dirs = @ \cup {run.dir}]
        /\ UNCHANGED <<Drill!fileVars, open, disk, stray, run, Drill!ctlVars, owed>>
    BY <1>10 DEF Drill!Note
  <2>2. run.dir \in Drill!Dirs
    BY <1>0, <2>1 DEF AtHand, DirTypes
  <2>3. DirTypes'
    BY <1>0, <2>1, <2>2 DEF DirTypes
  <2>4. FewDirs'
    BY <1>0, <2>1, FewKept, FaultFacts DEF Drill!ctlVars
  <2>5. AtHand'
    BY <2>1 DEF AtHand, Picked
  <2>6. QED
    BY <1>0, <2>1, <2>3, <2>4, <2>5, TypeParts, TypesKept DEF Places
<1>11. ASSUME NEW r \in Drill!Outcomes, Drill!Try(r) PROVE Drill!TypeOK' /\ AtHand' /\ FewDirs'
  <2>1. PICK gone \in BOOLEAN :
          /\ faults + Drill!Cost(r, gone) <= MaxFaults /\ faults' = faults + Drill!Cost(r, gone)
          /\ disk' = IF gone THEN disk \ {run.dir} ELSE disk
          /\ record' = IF gone THEN [record EXCEPT !.dirs = @ \ {run.dir}] ELSE record
    BY <1>11 DEF Drill!Try
  <2>2. /\ pc = "try" /\ pc' = "save" /\ run' = [run EXCEPT !.res = r, !.dir = Drill!NoDir]
        /\ UNCHANGED <<Drill!fileVars, open, stray, stopReq, flag, owed>>
    BY <1>11 DEF Drill!Try
  <2>3. Drill!Cost(r, gone) \in Nat /\ (~ gone => Drill!Cost(r, gone) >= 1)
    BY DEF Drill!Cost
  <2>4. faults \in Nat /\ MaxFaults \in Nat
    BY <1>0, DrillsAssumption, FaultFacts DEF CtlTypes
  <2>5. faults' \in 0 .. MaxFaults /\ faults' >= faults /\ (~ gone => faults' >= faults + 1)
    BY <2>1, <2>3, <2>4
  <2>6. run' \in RunOf /\ run'.drill = run.drill /\ run'.targets = run.targets
        /\ run'.picked = run.picked
    BY <1>0, <2>2 DEF RunOf
  <2>7. IsFiniteSet(disk) /\ Cardinality(disk) <= faults + 1 /\ Cardinality(disk) \in Nat
        /\ run.dir \in disk
    BY <2>2, FS_CardinalityType DEF FewDirs, AtHand
  <2>8. IsFiniteSet(disk') /\ Cardinality(disk') <= faults'
    <3>1. CASE gone
      <4>1. IsFiniteSet(disk \ {run.dir}) /\ Cardinality(disk \ {run.dir}) = Cardinality(disk) - 1
        BY <2>7, FS_RemoveElement
      <4>2. disk' = disk \ {run.dir}
        BY <2>1, <3>1
      <4>3. Cardinality(disk) - 1 <= faults'
        BY <2>4, <2>5, <2>7
      <4>4. QED
        BY <4>1, <4>2, <4>3
    <3>2. CASE ~ gone
      BY <2>1, <2>4, <2>5, <2>7, <3>2
    <3>3. QED
      BY <3>1, <3>2
  <2>9. DirTypes'
    BY <1>0, <2>1, <2>2 DEF DirTypes
  <2>10. FewDirs'
    BY <2>2, <2>4, <2>5, <2>8, FS_CardinalityType DEF FewDirs
  <2>11. CtlTypes'
    BY <1>0, <2>2, <2>5 DEF CtlTypes
  <2>12. AtHand'
    BY <2>2, <2>6 DEF AtHand, Picked
  <2>13. QED
    BY <1>0, <2>2, <2>6, <2>9, <2>10, <2>11, <2>12, TypeParts, TypesKept DEF Places
<1>12. CASE Drill!Save
  <2>1. /\ pc = "save" /\ pc' = "report" /\ result' = [result EXCEPT ![Drill!Key] = run.res]
        /\ UNCHANGED <<rotation, next, turn, open, Drill!dirVars, run, Drill!ctlVars>> /\ owed' \subseteq owed
    BY <1>12 DEF Drill!Save
  <2>2. run.res \in Drill!Outcomes \cup {"none"} /\ pending' \in [Drill!Drills -> [Drill!Storages -> Seq(Drill!Services)]]
    BY <1>0, <1>12, SaveFacts DEF RunOf
  <2>3. FileTypes'
    BY <1>0, <2>1, <2>2 DEF FileTypes
  <2>4. FewDirs'
    BY <1>0, <2>1, FewKept, FaultFacts DEF Drill!ctlVars, Drill!dirVars
  <2>5. AtHand'
    BY <2>1 DEF AtHand, Picked
  <2>6. OpenTypes'
    BY <1>0, <2>1 DEF OpenTypes
  <2>7. QED
    BY <1>0, <2>1, <2>3, <2>4, <2>5, <2>6, TypeParts, TypesKept DEF Places
<1>13. CASE Drill!Report
  <2> DEFINE stop == run.res = "interrupted" \/ stopReq
  <2>1. /\ pc = "report" /\ UNCHANGED <<Drill!fileVars, Drill!dirVars, Drill!ctlVars, owed>> /\ pc' \in {"wrap", "next"}
        /\ run' = [run EXCEPT !.picked = Tail(@), !.res = "none", !.stopped = stop,
                              !.failed = @ \/ run.res = "failed"]
        /\ open' \subseteq open \cup {Drill!Key}
    BY <1>13 DEF Drill!Report
  <2>2. /\ run.drill \in Drill!Drills /\ run.targets # <<>> /\ run.picked # <<>>
        /\ run.targets \in Seq(Drill!Storages) /\ run.picked \in Seq(Drill!Services)
    BY <1>0, <1>b, <2>1 DEF AtHand, Picked
  <2>3. Drill!Key \in Drill!Keys /\ Tail(run.picked) \in Seq(Drill!Services)
    BY <2>2 DEF Drill!Key, Drill!Keys, Drill!Target, Drill!Service
  <2>4. stop \in BOOLEAN
    BY <1>0 DEF CtlTypes
  <2> HIDE DEF stop
  <2>5. run' \in RunOf /\ run'.drill = run.drill /\ run'.targets = run.targets
    <3>1. (run.failed \/ run.res = "failed") \in BOOLEAN
      BY <1>0 DEF RunOf
    <3>2. QED
      BY <1>0, <2>1, <2>3, <2>4, <3>1 DEF RunOf
  <2>6. OpenTypes'
    BY <1>0, <2>1, <2>3 DEF OpenTypes
  <2>7. FewDirs'
    BY <1>0, <2>1, FewKept, FaultFacts DEF Drill!ctlVars, Drill!dirVars
  <2>8. AtHand'
    BY <2>1, <2>2, <2>5 DEF AtHand, Picked
  <2>9. QED
    BY <1>0, <2>1, <2>5, <2>6, <2>7, <2>8, TypeParts, TypesKept DEF Places
<1>14. CASE Drill!Wrap
  <2>1. /\ pc = "wrap" /\ pc' = "end"
        /\ UNCHANGED <<pending, rotation, result, open, Drill!dirVars, run, Drill!ctlVars, owed>>
        /\ \/ next' = (next + 1) % NStorages /\ turn' = Drill!NoStorage
           \/ UNCHANGED <<next, turn>>
    BY <1>14 DEF Drill!Wrap
  <2>2. (next + 1) % NStorages \in 0 .. NStorages - 1
    <3>1. next + 1 \in Nat /\ NStorages \in Nat \ {0}
      BY <1>0, DrillsAssumption DEF FileTypes
    <3>2. QED
      BY <3>1, ModFacts
  <2>3. FileTypes'
    BY <1>0, <2>1, <2>2 DEF FileTypes
  <2>4. FewDirs'
    BY <1>0, <2>1, FewKept, FaultFacts DEF Drill!ctlVars, Drill!dirVars
  <2>5. AtHand'
    BY <2>1 DEF AtHand, Picked
  <2>6. QED
    BY <1>0, <2>1, <2>3, <2>4, <2>5, TypeParts, TypesKept DEF Places
<1>15. CASE Drill!End
  <2>1. /\ pc = "end" /\ pc' = "idle" /\ run' = Drill!NoRun /\ stopReq' = FALSE
        /\ UNCHANGED <<Drill!fileVars, open, disk, flag, faults, owed>>
        /\ \/ UNCHANGED <<record, stray>>
           \/ record' = Drill!NoRecord /\ stray' = stray \cup (record.dirs \cap disk)
    BY <1>15 DEF Drill!End
  <2>2. DirTypes'
    BY <1>0, <2>1 DEF DirTypes, Drill!NoRecord
  <2>3. FewDirs'
    BY <1>0, <2>1, FewKept, FaultFacts
  <2>4. CtlTypes' /\ AtHand'
    BY <1>0, <2>1 DEF CtlTypes, AtHand, Picked
  <2>5. QED
    BY <1>0, <1>a, <2>1, <2>2, <2>3, <2>4, TypeParts, TypesKept DEF Places
<1>16. CASE Drill!Stop
  <2>1. /\ Drill!Fault /\ stopReq' = TRUE /\ flag' \in {flag, TRUE}
        /\ UNCHANGED <<Drill!fileVars, open, Drill!dirVars, pc, run, owed>>
    BY <1>16 DEF Drill!Stop
  <2>2. CtlTypes' /\ FewDirs'
    BY <1>0, <2>1, FewKept, FaultFacts DEF CtlTypes, Drill!dirVars
  <2>3. AtHand'
    BY <2>1 DEF AtHand, Drill!dirVars
  <2>4. QED
    BY <1>0, <2>1, <2>2, <2>3, TypeParts, TypesKept
<1>17. CASE Drill!Kill
  <2>1. /\ Drill!Fault /\ pc' = "idle" /\ run' = Drill!NoRun /\ flag' \in {flag, FALSE}
        /\ stray' = (IF pc = "made" THEN stray \cup {run.dir} ELSE stray)
        /\ UNCHANGED <<Drill!fileVars, open, record, disk, stopReq, owed>>
    BY <1>17 DEF Drill!Kill
  <2>2. CtlTypes' /\ FewDirs'
    BY <1>0, <2>1, FewKept, FaultFacts DEF CtlTypes
  <2>3. DirTypes' /\ AtHand'
    BY <1>0, <2>1 DEF AtHand, Picked, DirTypes
  <2>4. QED
    BY <1>0, <1>a, <2>1, <2>2, <2>3, TypeParts, TypesKept DEF Places
<1>18. CASE Drill!ContainerStart
  <2>1. flag' = FALSE /\ UNCHANGED <<Drill!fileVars, open, Drill!dirVars, pc, run, stopReq, faults, owed>>
    BY <1>18 DEF Drill!ContainerStart
  <2>2. CtlTypes' /\ FewDirs'
    BY <1>0, <2>1, FewKept, FaultFacts DEF CtlTypes, Drill!dirVars
  <2>3. AtHand'
    BY <2>1 DEF AtHand, Drill!dirVars
  <2>4. QED
    BY <1>0, <2>1, <2>2, <2>3, TypeParts, TypesKept
<1>19. CASE UNCHANGED Drill!vars
  BY <1>19 DEF Drill!vars, Drill!fileVars, Drill!dirVars, Drill!ctlVars, FewDirs, AtHand, Drill!TypeOK
<1>20. QED
  BY <1>1, <1>2, <1>3, <1>4, <1>5, <1>6, <1>7, <1>8, <1>9, <1>10, <1>11, <1>12, <1>13, <1>14,
     <1>15, <1>16, <1>17, <1>18, <1>19 DEF Drill!Next, Drill!DrillStep

\* The copies: of what exists on disk, nothing is forgotten.
LEMMA CopiesStep ==
    ASSUME Drill!TypeOK, Cleared, Drill!CopiesKnown, [Drill!Next]_(Drill!vars)
    PROVE  Cleared' /\ Drill!CopiesKnown'
<1> USE DEF Cleared, Drill!CopiesKnown
<1>0. /\ record \in [drill : Drill!Drills \cup {"none"}, dirs : SUBSET Drill!Dirs] /\ run \in RunOf
  BY DEF Drill!TypeOK, RunOf
<1>1. ASSUME NEW d \in Drill!Drills, NEW one \in {0} \cup Drill!Services, Drill!Start(d, one)
      PROVE  Cleared' /\ Drill!CopiesKnown'
  BY <1>1 DEF Drill!Start, Drill!First, Drill!NoRecord, Drill!dirVars
<1>2. CASE Drill!Clean
  BY <1>2 DEF Drill!Clean
<1>3. CASE Drill!Begin
  BY <1>3 DEF Drill!Begin
<1>4. CASE Drill!Make
  <2>1. run'.dir = CHOOSE x \in Drill!Dirs \ disk : TRUE
    BY <1>0, <1>4 DEF Drill!Make, RunOf
  <2>2. QED
    BY <1>4, <2>1 DEF Drill!Make
<1>5. CASE Drill!Note
  <2>1. record'.dirs = record.dirs \cup {run.dir}
    BY <1>0, <1>5 DEF Drill!Note
  <2>2. QED
    BY <1>5, <2>1 DEF Drill!Note
<1>6. ASSUME NEW r \in Drill!Outcomes, Drill!Try(r) PROVE Cleared' /\ Drill!CopiesKnown'
  <2>1. PICK gone \in BOOLEAN :
          /\ disk' = IF gone THEN disk \ {run.dir} ELSE disk
          /\ record' = IF gone THEN [record EXCEPT !.dirs = @ \ {run.dir}] ELSE record
    BY <1>6 DEF Drill!Try
  <2>2. gone => record'.dirs = record.dirs \ {run.dir}
    BY <1>0, <2>1
  <2>3. QED
    BY <1>6, <2>1, <2>2 DEF Drill!Try
<1>7. CASE Drill!End
  BY <1>7 DEF Drill!End, Drill!NoRecord
<1>8. CASE Drill!Kill
  BY <1>8 DEF Drill!Kill
<1>9. CASE UNCHANGED Drill!dirVars /\ pc # "made" /\ pc' \notin {"begin", "made"}
  BY <1>9 DEF Drill!dirVars
<1>10. CASE Drill!Select \/ Drill!Pick \/ Drill!StopFound \/ Drill!TargetDone
  BY <1>9, <1>10 DEF Drill!Select, Drill!Pick, Drill!StopFound, Drill!TargetDone
<1>11. CASE Drill!MarkDue \/ Drill!Save \/ Drill!Report \/ Drill!Wrap
  BY <1>9, <1>11 DEF Drill!MarkDue, Drill!Save, Drill!Report, Drill!Wrap
<1>12. CASE Drill!Stop \/ Drill!ContainerStart
  BY <1>12 DEF Drill!Stop, Drill!ContainerStart, Drill!dirVars
<1>13. CASE UNCHANGED Drill!vars
  BY <1>13 DEF Drill!vars, Drill!dirVars
<1>14. QED
  BY <1>1, <1>2, <1>3, <1>4, <1>5, <1>6, <1>7, <1>8, <1>10, <1>11, <1>12, <1>13
     DEF Drill!Next, Drill!DrillStep

\* A step that leaves what is selected, pending and open to the others alone.
LEMMA TurnKept ==
    ASSUME OwedPending, AtTurn, UNCHANGED <<pending, turn, next, owed>>,
           \/ run'.drill = "none"
           \/ pc' \notin {"pick"} \cup Picked
           \/ run'.drill = run.drill /\ run'.targets = run.targets /\ pc' = pc
           \/ run'.drill = run.drill /\ run'.targets = run.targets /\ pc \in Picked /\ pc' \in Picked
    PROVE  OwedPending' /\ AtTurn'
<1>1. OwedPending'
  BY DEF OwedPending, Drill!Covered
<1>2. AtTurn'
  BY DEF AtTurn, Drill!TurnStorage, Picked
<1>3. QED
  BY <1>1, <1>2

\* What is owed stays pending, and the named drill at its storage, through every step.
LEMMA TurnStep ==
    ASSUME Drill!TypeOK, AtHand, OwedPending, AtTurn, [Drill!Next]_(Drill!vars)
    PROVE  OwedPending' /\ AtTurn'
<1>0. /\ run \in RunOf /\ owed \subseteq Drill!Keys /\ Drill!NoRun.drill = "none"
      /\ pending \in [Drill!Drills -> [Drill!Storages -> Seq(Drill!Services)]]
  BY DEF Drill!TypeOK, RunOf, Drill!NoRun
<1>1. ASSUME NEW d \in Drill!Drills, NEW one \in {0} \cup Drill!Services, Drill!Start(d, one)
      PROVE  OwedPending' /\ AtTurn'
  BY <1>1, TurnKept DEF Drill!Start, Drill!First, Drill!fileVars, Picked
<1>2. CASE Drill!Clean \/ Drill!Begin
  BY <1>2, TurnKept DEF Drill!Clean, Drill!Begin, Drill!fileVars, Picked
<1>3. CASE Drill!Select
  <2>1. OwedPending'
    BY <1>3 DEF Drill!Select, OwedPending, Drill!Covered, Drill!fileVars
  <2>2. AtTurn'
    <3>1. pc' = "end" \/ (pc' = "pick" /\ (run'.drill = "named" => run'.targets = <<Drill!TurnStorage>>))
      BY <1>0, <1>3 DEF Drill!Select, RunOf
    <3>2. UNCHANGED <<turn, next>>
      BY <1>3 DEF Drill!Select, Drill!fileVars
    <3>3. QED
      BY <3>1, <3>2 DEF AtTurn, Drill!TurnStorage, Picked
  <2>3. QED
    BY <2>1, <2>2
<1>4. CASE Drill!Pick
  <2> DEFINE d == run.drill
             t == Drill!Target
  <2>1. /\ d \in Drill!Drills /\ t \in Drill!Storages
        /\ \A e \in Drill!Drills, u \in Drill!Storages : e # d \/ u # t => pending'[e][u] = pending[e][u]
        /\ \A s \in Drill!Covered(d, 0) : s \in Drill!Elements(pending[d][t]) => s \in Drill!Elements(pending'[d][t])
        /\ Drill!Elements(run'.picked) \subseteq Drill!Elements(pending'[d][t])
        /\ run.one = 0 => Drill!Elements(run'.picked) \subseteq Drill!Covered(d, 0)
        /\ owed' = IF run.one = 0 THEN owed \cup {<<d, t, s>> : s \in Drill!Elements(run'.picked)} ELSE owed
        /\ run' = [run EXCEPT !.picked = run'.picked]
    BY <1>4, PickFacts
  <2>2. OwedPending'
    <3> SUFFICES ASSUME NEW x \in owed'
                 PROVE  x[3] \in Drill!Covered(x[1], 0) /\ x[3] \in Drill!Elements(pending'[x[1]][x[2]])
      BY DEF OwedPending, Drill!Covered
    <3>1. CASE x \in owed
      <4>1. x[1] \in Drill!Drills /\ x[2] \in Drill!Storages
        BY <1>0, <3>1 DEF Drill!Keys
      <4>2. x[3] \in Drill!Covered(x[1], 0) /\ x[3] \in Drill!Elements(pending[x[1]][x[2]])
        BY <3>1 DEF OwedPending
      <4>3. CASE x[1] = d /\ x[2] = t
        BY <2>1, <4>2, <4>3
      <4>4. CASE x[1] # d \/ x[2] # t
        BY <2>1, <4>1, <4>2, <4>4
      <4>5. QED
        BY <4>3, <4>4
    <3>2. CASE x \notin owed
      <4>1. run.one = 0 /\ \E s \in Drill!Elements(run'.picked) : x = <<d, t, s>>
        BY <2>1, <3>2
      <4>2. QED
        BY <2>1, <4>1
    <3>3. QED
      BY <3>1, <3>2
  <2>3. AtTurn'
    <3>1. run'.drill = run.drill /\ run'.targets = run.targets
      BY <1>0, <2>1 DEF RunOf
    <3>2. pc = "pick" /\ pc' = "next" /\ (run.drill = "named" => turn' = Drill!Target)
      BY <1>4 DEF Drill!Pick
    <3>3. run.drill = "named" => run.targets = <<Drill!Target>>
      BY <3>2 DEF AtTurn, Drill!Target
    <3>4. QED
      BY <3>1, <3>2, <3>3 DEF AtTurn
  <2>4. QED
    BY <2>2, <2>3
<1>5. CASE Drill!StopFound
  BY <1>5, TurnKept DEF Drill!StopFound, Drill!fileVars, Picked
<1>6. CASE Drill!TargetDone
  <2>1. /\ pc = "next" /\ run' = [run EXCEPT !.targets = Tail(@)]
        /\ pc' = IF Len(run.targets) = 1 THEN "wrap" ELSE "pick"
        /\ UNCHANGED <<pending, turn, next, owed>>
    BY <1>6 DEF Drill!TargetDone, Drill!fileVars
  <2>2. run'.drill = run.drill
    BY <1>0, <2>1 DEF RunOf
  <2>3. run.drill = "named" => Len(run.targets) = 1
    <3>1. Len(<<turn>>) = 1
      OBVIOUS
    <3>2. run.drill = "named" => run.targets = <<turn>>
      BY <2>1 DEF AtTurn, Picked
    <3>3. QED
      BY <3>1, <3>2, Zenon
  <2>4. AtTurn'
    BY <2>1, <2>2, <2>3 DEF AtTurn, Picked
  <2>5. OwedPending'
    BY <2>1 DEF OwedPending, Drill!Covered
  <2>6. QED
    BY <2>4, <2>5
<1>7. CASE Drill!MarkDue \/ Drill!Note
  BY <1>7, TurnKept DEF Drill!MarkDue, Drill!Note, Drill!fileVars, Picked
<1>8. CASE Drill!Make
  <2>1. run'.drill = run.drill /\ run'.targets = run.targets
    BY <1>0, <1>8 DEF Drill!Make, RunOf
  <2>2. QED
    BY <1>8, <2>1, TurnKept DEF Drill!Make, Drill!fileVars, Picked
<1>9. ASSUME NEW r \in Drill!Outcomes, Drill!Try(r) PROVE OwedPending' /\ AtTurn'
  <2>1. run'.drill = run.drill /\ run'.targets = run.targets
    BY <1>0, <1>9 DEF Drill!Try, RunOf
  <2>2. QED
    BY <1>9, <2>1, TurnKept DEF Drill!Try, Drill!fileVars, Picked
<1>10. CASE Drill!Save
  <2>1. /\ run.drill \in Drill!Drills /\ Drill!Target \in Drill!Storages /\ Drill!Service \in Drill!Services
        /\ \A e \in Drill!Drills, u \in Drill!Storages :
              e # run.drill \/ u # Drill!Target => pending'[e][u] = pending[e][u]
        /\ \A s \in Drill!Services \ {Drill!Service} : s \in Drill!Elements(pending[run.drill][Drill!Target])
              => s \in Drill!Elements(pending'[run.drill][Drill!Target])
        /\ ~ Drill!Finished(run.res, Drill!Key \in open) => pending' = pending
    BY <1>10, SaveFacts
  <2>2. /\ owed' = IF run.res = "ok" \/ (run.res = "skipped" /\ Drill!Key \notin open) THEN owed \ {Drill!Key} ELSE owed
        /\ UNCHANGED <<turn, next, run>> /\ pc = "save" /\ pc' = "report"
    BY <1>10 DEF Drill!Save
  <2>3. OwedPending'
    <3> SUFFICES ASSUME NEW x \in owed'
                 PROVE  x[3] \in Drill!Covered(x[1], 0) /\ x[3] \in Drill!Elements(pending'[x[1]][x[2]])
      BY DEF OwedPending, Drill!Covered
    <3>1. x \in owed /\ x \in Drill!Keys
      BY <1>0, <2>2
    <3>2. x[3] \in Drill!Covered(x[1], 0) /\ x[3] \in Drill!Elements(pending[x[1]][x[2]])
      BY <3>1 DEF OwedPending
    <3>3. CASE Drill!Finished(run.res, Drill!Key \in open)
      <4>1. x # Drill!Key
        BY <2>2, <3>3 DEF Drill!Finished
      <4>2. x[1] \in Drill!Drills /\ x[2] \in Drill!Storages /\ x[3] \in Drill!Services /\ x = <<x[1], x[2], x[3]>>
        BY <3>1 DEF Drill!Keys
      <4>3. CASE x[1] = run.drill /\ x[2] = Drill!Target
        <5>1. x[3] # Drill!Service
          BY <4>1, <4>2, <4>3 DEF Drill!Key
        <5>2. QED
          BY <2>1, <3>2, <4>2, <4>3, <5>1
      <4>4. CASE x[1] # run.drill \/ x[2] # Drill!Target
        BY <2>1, <3>2, <4>2, <4>4
      <4>5. QED
        BY <4>3, <4>4
    <3>4. CASE ~ Drill!Finished(run.res, Drill!Key \in open)
      BY <2>1, <3>2, <3>4
    <3>5. QED
      BY <3>3, <3>4
  <2>4. AtTurn'
    BY <2>2 DEF AtTurn, Picked
  <2>5. QED
    BY <2>3, <2>4
<1>11. CASE Drill!Report
  <2>1. run'.drill = run.drill /\ run'.targets = run.targets
    BY <1>0, <1>11 DEF Drill!Report, RunOf
  <2>2. QED
    BY <1>11, <2>1, TurnKept DEF Drill!Report, Drill!fileVars, Picked
<1>12. CASE Drill!Wrap
  <2>1. UNCHANGED <<pending, owed>> /\ pc' = "end"
    BY <1>12 DEF Drill!Wrap
  <2>2. QED
    BY <2>1 DEF OwedPending, Drill!Covered, AtTurn, Picked
<1>13. CASE Drill!End \/ Drill!Kill
  BY <1>0, <1>13, TurnKept DEF Drill!End, Drill!Kill, Drill!fileVars
<1>14. CASE Drill!Stop \/ Drill!ContainerStart
  BY <1>14, TurnKept DEF Drill!Stop, Drill!ContainerStart, Drill!fileVars
<1>15. CASE UNCHANGED Drill!vars
  BY <1>15, TurnKept DEF Drill!vars, Drill!fileVars
<1>16. QED
  BY <1>1, <1>2, <1>3, <1>4, <1>5, <1>6, <1>7, <1>8, <1>9, <1>10, <1>11, <1>12, <1>13, <1>14, <1>15
     DEF Drill!Next, Drill!DrillStep

\* A step of a drill that leaves its services, what is pending and the results alone.
LEMMA DueStays ==
    ASSUME DueInv, UNCHANGED <<pending, result>>,
           \/ pc' \notin Picked
           \/ /\ run'.drill = run.drill /\ run'.targets = run.targets /\ run'.picked = run.picked
              /\ pc' = pc \/ (pc \in Picked \ {"report"} /\ pc' \in Picked)
    PROVE  DueInv'
<1> USE DEF DueInv
<1>1. PendingOnce' /\ Drill!DueKept'
  BY DEF PendingOnce, Drill!DueKept, Drill!Covered
<1>2. PickedPending'
  BY DEF PickedPending, Drill!Target, Picked
<1>3. QED
  BY <1>1, <1>2

\* A service whose result says it is due stays pending until its turn is finished.
LEMMA DueStep ==
    ASSUME Drill!TypeOK, AtHand, DueInv, [Drill!Next]_(Drill!vars)
    PROVE  DueInv'
<1>0. /\ run \in RunOf /\ pending \in [Drill!Drills -> [Drill!Storages -> Seq(Drill!Services)]]
      /\ result \in [Drill!Keys -> Drill!Outcomes \cup {"none"}]
  BY DEF Drill!TypeOK, RunOf
<1>1. ASSUME NEW d \in Drill!Drills, NEW one \in {0} \cup Drill!Services, Drill!Start(d, one) PROVE DueInv'
  BY <1>1, DueStays DEF Drill!Start, Drill!First, Drill!fileVars, Picked
<1>2. CASE Drill!Clean \/ Drill!Begin \/ Drill!Select
  BY <1>2, DueStays DEF Drill!Clean, Drill!Begin, Drill!Select, Drill!fileVars, Picked
<1>3. CASE Drill!Pick
  <2> DEFINE d == run.drill
             t == Drill!Target
  <2>1. /\ d \in Drill!Drills /\ t \in Drill!Storages
        /\ \A e \in Drill!Drills, u \in Drill!Storages : e # d \/ u # t => pending'[e][u] = pending[e][u]
        /\ \A s \in Drill!Covered(d, 0) : s \in Drill!Elements(pending[d][t]) => s \in Drill!Elements(pending'[d][t])
        /\ Distinct(pending'[d][t]) /\ Distinct(run'.picked)
        /\ Drill!Elements(run'.picked) \subseteq Drill!Elements(pending'[d][t])
        /\ run' = [run EXCEPT !.picked = run'.picked]
    BY <1>3, PickFacts DEF DueInv
  <2>2. pc' = "next" /\ result' = result
    BY <1>3 DEF Drill!Pick
  <2>3. run'.drill = d /\ run'.targets = run.targets
    BY <1>0, <2>1 DEF RunOf
  <2>4. PickedPending'
    <3>1. \A i \in DOMAIN run'.picked : run'.picked[i] \in Drill!Elements(run'.picked)
      BY DEF Drill!Elements
    <3>2. Drill!Target' = t
      BY <2>3 DEF Drill!Target
    <3>3. QED
      BY <2>1, <2>2, <2>3, <3>1, <3>2 DEF PickedPending
  <2>5. PendingOnce'
    <3> SUFFICES ASSUME NEW e \in Drill!Drills, NEW u \in Drill!Storages PROVE Distinct(pending'[e][u])
      BY DEF PendingOnce
    <3>1. QED
      BY <2>1 DEF DueInv, PendingOnce
  <2>6. Drill!DueKept'
    <3> SUFFICES ASSUME NEW x \in Drill!Keys, result[x] \in {"failed", "interrupted"}, x[3] \in Drill!Covered(x[1], 0)
                 PROVE  x[3] \in Drill!Elements(pending'[x[1]][x[2]])
      BY <2>2 DEF Drill!DueKept, Drill!Covered
    <3>1. x[3] \in Drill!Elements(pending[x[1]][x[2]])
      BY DEF DueInv, Drill!DueKept
    <3>2. x[1] \in Drill!Drills /\ x[2] \in Drill!Storages
      BY DEF Drill!Keys
    <3>3. CASE x[1] = d /\ x[2] = t
      BY <2>1, <3>1, <3>3
    <3>4. CASE x[1] # d \/ x[2] # t
      BY <2>1, <3>1, <3>2, <3>4
    <3>5. QED
      BY <3>3, <3>4
  <2>7. QED
    BY <2>4, <2>5, <2>6 DEF DueInv
<1>4. CASE Drill!StopFound \/ Drill!TargetDone
  BY <1>4, DueStays DEF Drill!StopFound, Drill!TargetDone, Drill!fileVars, Picked
<1>5. CASE Drill!MarkDue
  <2>1. /\ pc = "next" /\ pc' = "make" /\ run.picked # <<>> /\ UNCHANGED <<pending, run>>
        /\ result' = [result EXCEPT ![Drill!Key] = "interrupted"]
    BY <1>5 DEF Drill!MarkDue
  <2>2. run.picked \in Seq(Drill!Services)
    BY <1>0 DEF RunOf
  <2>3. 1 \in DOMAIN run.picked /\ Drill!Service = run.picked[1]
    BY <2>1, <2>2 DEF Drill!Service
  <2>4. Drill!Service \in Drill!Elements(pending[run.drill][Drill!Target])
    BY <2>1, <2>3 DEF DueInv, PickedPending, Picked
  <2>5. PickedPending' /\ PendingOnce'
    BY <2>1 DEF DueInv, PickedPending, PendingOnce, Picked, Drill!Target
  <2>6. Drill!DueKept'
    <3> SUFFICES ASSUME NEW x \in Drill!Keys, result'[x] \in {"failed", "interrupted"}, x[3] \in Drill!Covered(x[1], 0)
                 PROVE  x[3] \in Drill!Elements(pending[x[1]][x[2]])
      BY <2>1 DEF Drill!DueKept, Drill!Covered
    <3>1. CASE x = Drill!Key
      BY <2>4, <3>1 DEF Drill!Key
    <3>2. CASE x # Drill!Key
      BY <1>0, <2>1, <3>2 DEF DueInv, Drill!DueKept
    <3>3. QED
      BY <3>1, <3>2
  <2>7. QED
    BY <2>5, <2>6 DEF DueInv
<1>6. CASE Drill!Make
  <2>1. run'.drill = run.drill /\ run'.targets = run.targets /\ run'.picked = run.picked
    BY <1>0, <1>6 DEF Drill!Make, RunOf
  <2>2. QED
    BY <1>6, <2>1, DueStays DEF Drill!Make, Drill!fileVars, Picked
<1>7. CASE Drill!Note
  BY <1>7, DueStays DEF Drill!Note, Drill!fileVars, Picked
<1>8. ASSUME NEW r \in Drill!Outcomes, Drill!Try(r) PROVE DueInv'
  <2>1. run'.drill = run.drill /\ run'.targets = run.targets /\ run'.picked = run.picked
    BY <1>0, <1>8 DEF Drill!Try, RunOf
  <2>2. QED
    BY <1>8, <2>1, DueStays DEF Drill!Try, Drill!fileVars, Picked
<1>9. CASE Drill!Save
  <2>1. /\ run.drill \in Drill!Drills /\ Drill!Target \in Drill!Storages /\ Drill!Service \in Drill!Services
        /\ \A e \in Drill!Drills, u \in Drill!Storages :
              e # run.drill \/ u # Drill!Target => pending'[e][u] = pending[e][u]
        /\ \A s \in Drill!Services \ {Drill!Service} : s \in Drill!Elements(pending[run.drill][Drill!Target])
              => s \in Drill!Elements(pending'[run.drill][Drill!Target])
        /\ ~ Drill!Finished(run.res, Drill!Key \in open) => pending' = pending
        /\ Distinct(pending'[run.drill][Drill!Target])
    BY <1>9, SaveFacts DEF DueInv
  <2>2. /\ result' = [result EXCEPT ![Drill!Key] = run.res] /\ run' = run /\ pc = "save" /\ pc' = "report"
    BY <1>9 DEF Drill!Save
  <2>3. run.picked \in Seq(Drill!Services) /\ run.picked # <<>>
    BY <1>0, <2>2 DEF RunOf, AtHand, Picked
  <2>4. 1 \in DOMAIN run.picked /\ Drill!Service = run.picked[1]
    BY <2>3 DEF Drill!Service
  <2>5. /\ Distinct(run.picked)
        /\ \A i \in DOMAIN run.picked : run.picked[i] \in Drill!Elements(pending[run.drill][Drill!Target])
    BY <2>2 DEF DueInv, PickedPending, Picked
  <2>6. \A i \in DOMAIN run.picked : i # 1 => run.picked[i] \in Drill!Services \ {Drill!Service}
    BY <2>3, <2>4, <2>5 DEF Distinct
  <2>7. PickedPending'
    BY <2>1, <2>2, <2>5, <2>6 DEF PickedPending, Drill!Target
  <2>8. PendingOnce'
    BY <2>1 DEF DueInv, PendingOnce
  <2>9. Drill!DueKept'
    <3> SUFFICES ASSUME NEW x \in Drill!Keys, result'[x] \in {"failed", "interrupted"}, x[3] \in Drill!Covered(x[1], 0)
                 PROVE  x[3] \in Drill!Elements(pending'[x[1]][x[2]])
      BY DEF Drill!DueKept, Drill!Covered
    <3>1. x[1] \in Drill!Drills /\ x[2] \in Drill!Storages /\ x[3] \in Drill!Services /\ x = <<x[1], x[2], x[3]>>
      BY DEF Drill!Keys
    <3>2. CASE x = Drill!Key
      <4>1. run.res \in {"failed", "interrupted"}
        BY <1>0, <2>2, <3>2
      <4>2. pending' = pending
        BY <2>1, <4>1 DEF Drill!Finished
      <4>3. QED
        BY <2>4, <2>5, <3>2, <4>2 DEF Drill!Key
    <3>3. CASE x # Drill!Key
      <4>1. x[3] \in Drill!Elements(pending[x[1]][x[2]])
        BY <1>0, <2>2, <3>3 DEF DueInv, Drill!DueKept
      <4>2. CASE x[1] = run.drill /\ x[2] = Drill!Target
        <5>1. x[3] # Drill!Service
          BY <3>1, <3>3, <4>2 DEF Drill!Key
        <5>2. QED
          BY <2>1, <3>1, <4>1, <4>2, <5>1
      <4>3. CASE x[1] # run.drill \/ x[2] # Drill!Target
        BY <2>1, <3>1, <4>1, <4>3
      <4>4. QED
        BY <4>2, <4>3
    <3>4. QED
      BY <3>2, <3>3
  <2>10. QED
    BY <2>7, <2>8, <2>9 DEF DueInv
<1>10. CASE Drill!Report
  <2>1. /\ pc = "report" /\ pc' \in {"wrap", "next"} /\ UNCHANGED <<pending, result>>
        /\ run'.drill = run.drill /\ run'.targets = run.targets /\ run'.picked = Tail(run.picked)
    BY <1>0, <1>10 DEF Drill!Report, RunOf, Drill!fileVars
  <2>2. run.picked \in Seq(Drill!Services) /\ run.picked # <<>>
    BY <1>0, <2>1 DEF RunOf, AtHand, Picked
  <2>3. /\ \A i \in DOMAIN Tail(run.picked) :
              i + 1 \in DOMAIN run.picked /\ i + 1 # 1 /\ Tail(run.picked)[i] = run.picked[i + 1]
        /\ DOMAIN Tail(run.picked) \subseteq Nat
    BY <2>2
  <2>4. /\ Distinct(run.picked)
        /\ \A i \in DOMAIN run.picked : i # 1 => run.picked[i] \in Drill!Elements(pending[run.drill][Drill!Target])
    BY <2>1 DEF DueInv, PickedPending, Picked
  <2>5. Distinct(Tail(run.picked))
    <3> SUFFICES ASSUME NEW i \in DOMAIN Tail(run.picked), NEW j \in DOMAIN Tail(run.picked),
                        Tail(run.picked)[i] = Tail(run.picked)[j]
                 PROVE  i = j
      BY DEF Distinct
    <3>1. i + 1 = j + 1
      BY <2>3, <2>4 DEF Distinct
    <3>2. QED
      BY <2>3, <3>1
  <2>6. PickedPending'
    BY <2>1, <2>3, <2>4, <2>5 DEF PickedPending, Drill!Target
  <2>7. PendingOnce' /\ Drill!DueKept'
    BY <2>1 DEF DueInv, PendingOnce, Drill!DueKept, Drill!Covered
  <2>8. QED
    BY <2>6, <2>7 DEF DueInv
<1>11. CASE Drill!Wrap \/ Drill!End \/ Drill!Kill
  BY <1>11, DueStays DEF Drill!Wrap, Drill!End, Drill!Kill, Drill!fileVars, Picked
<1>12. CASE Drill!Stop \/ Drill!ContainerStart
  BY <1>12, DueStays DEF Drill!Stop, Drill!ContainerStart, Drill!fileVars
<1>13. CASE UNCHANGED Drill!vars
  BY <1>13, DueStays DEF Drill!vars, Drill!fileVars
<1>14. QED
  BY <1>1, <1>2, <1>3, <1>4, <1>5, <1>6, <1>7, <1>8, <1>9, <1>10, <1>11, <1>12, <1>13
     DEF Drill!Next, Drill!DrillStep

-------------------------------------------------------------------------------
\* The types, with what they rest on, hold in every reachable state.
LEMMA Drilled == Drill!Spec => [](Drill!TypeOK /\ AtHand /\ FewDirs)
<1>1. Drill!Init => Drill!TypeOK /\ AtHand /\ FewDirs
  <2> SUFFICES ASSUME Drill!Init PROVE Drill!TypeOK /\ AtHand /\ FewDirs
    OBVIOUS
  <2>1. Drill!NoRun \in RunOf
    BY DEF Drill!NoRun, RunOf
  <2>2. FileTypes
    <3>1. <<>> \in Seq(Drill!Services) /\ 0 \in 0 .. NServices - 1 /\ 0 \in 0 .. NStorages - 1
      BY DrillsAssumption
    <3>2. QED
      BY <3>1 DEF Drill!Init, FileTypes
  <2>3. DirTypes /\ OpenTypes /\ pc \in Places /\ run \in RunOf
    BY <2>1 DEF Drill!Init, DirTypes, OpenTypes, Places, Drill!NoRecord
  <2>4. CtlTypes
    <3>1. MaxFaults \in Nat
      BY DrillsAssumption
    <3>2. stopReq = FALSE /\ flag = FALSE /\ faults = 0
      BY DEF Drill!Init
    <3>3. faults \in 0 .. MaxFaults
      BY <3>1, <3>2
    <3>4. stopReq \in BOOLEAN /\ flag \in BOOLEAN
      BY <3>2, Zenon
    <3>5. QED
      BY <3>3, <3>4 DEF CtlTypes
  <2>5. AtHand
    BY DEF Drill!Init, AtHand, Picked
  <2>6. FewDirs
    BY FS_EmptySet DEF Drill!Init, FewDirs
  <2>7. QED
    BY <2>2, <2>3, <2>4, <2>5, <2>6, TypeParts
<1>2. Drill!TypeOK /\ AtHand /\ FewDirs /\ [Drill!Next]_(Drill!vars) => (Drill!TypeOK /\ AtHand /\ FewDirs)'
  BY DrillTypesStep
<1>3. QED
  BY <1>1, <1>2, PTL DEF Drill!Spec

\* The state file, the record, the copies and the drill's variables keep their types.
THEOREM DrillsTyping == Drill!Spec => []Drill!TypeOK
  BY Drilled, PTL

\* A copy on disk is on the run's record, or was left by a kill or a failed deletion.
THEOREM DrillsCopiesKnown == Drill!Spec => []CopiesKnown
<1>1. Drill!Init => Cleared /\ Drill!CopiesKnown
  BY DEF Drill!Init, Cleared, Drill!CopiesKnown
<1>2. Drill!TypeOK /\ Cleared /\ Drill!CopiesKnown /\ [Drill!Next]_(Drill!vars) => (Cleared /\ Drill!CopiesKnown)'
  BY CopiesStep
<1>3. Drill!CopiesKnown => CopiesKnown
  BY DEF Drill!CopiesKnown, CopiesKnown
<1>4. QED
  BY <1>1, <1>2, <1>3, DrillsTyping, PTL DEF Drill!Spec

\* So do what is owed and the storage at hand.
LEMMA Turned == Drill!Spec => [](OwedPending /\ AtTurn)
<1>1. Drill!Init => OwedPending /\ AtTurn
  BY DEF Drill!Init, OwedPending, AtTurn, Drill!NoRun
<1>2. Drill!TypeOK /\ AtHand /\ FewDirs /\ OwedPending /\ AtTurn /\ [Drill!Next]_(Drill!vars) => (OwedPending /\ AtTurn)'
  BY TurnStep
<1>3. QED
  BY <1>1, <1>2, Drilled, PTL DEF Drill!Spec

\* The rotation and the named drill's turn move on only when nothing selected on the storage is
\* still owed: pick and the wrap look at what is pending, and what is owed is pending.
THEOREM DrillsSelectionFinished == Drill!Spec => SelectionFinished
<1>1. Drill!TypeOK /\ AtHand /\ OwedPending /\ AtTurn /\ [Drill!Next]_(Drill!vars) =>
      [\A t \in Storages :
         /\ rotation'[t] # rotation[t] => \A s \in Services \ Excluded : <<"rotate", t, s>> \notin owed
         /\ turn = t /\ turn' # t => \A s \in OwnServices : <<"named", t, s>> \notin owed]_<<rotation, turn>>
  <2> SUFFICES ASSUME Drill!TypeOK, AtHand, OwedPending, AtTurn, [Drill!Next]_(Drill!vars), NEW t \in Drill!Storages
               PROVE  /\ rotation'[t] # rotation[t]
                            => \A s \in Drill!Services \ Excluded : <<"rotate", t, s>> \notin owed
                      /\ turn = t /\ turn' # t => \A s \in OwnServices : <<"named", t, s>> \notin owed
    BY DEF Drill!Storages, Storages, Drill!Services, Services
  <2>1. CASE Drill!Pick
    <3>1. rotation'[t] # rotation[t]
            => t = Drill!Target /\ Drill!Elements(pending["rotate"][t]) \cap Drill!Covered("rotate", 0) = {}
      BY <2>1, PickFacts
    <3>2. \A s : <<"rotate", t, s>> \in owed
                   => s \in Drill!Covered("rotate", 0) /\ s \in Drill!Elements(pending["rotate"][t])
      BY DEF OwedPending
    <3>3. run.drill = "named" /\ turn = t => Drill!Target = t
      <4>1. ASSUME run.drill = "named", turn = t PROVE Drill!Target = t
        <5>1. run.targets = <<Drill!TurnStorage>>
          BY <2>1, <4>1 DEF Drill!Pick, AtTurn
        <5>2. t # Drill!NoStorage
          BY DrillsAssumption DEF Drill!Storages, Drill!NoStorage
        <5>3. QED
          BY <4>1, <5>1, <5>2 DEF Drill!TurnStorage, Drill!Target
      <4>2. QED
        BY <4>1
    <3>4. ~ (turn = t /\ turn' # t)
      BY <2>1, <3>3 DEF Drill!Pick
    <3>5. QED
      BY <3>1, <3>2, <3>4
  <2>2. CASE Drill!Wrap
    <3>1. rotation' = rotation
      BY <2>2 DEF Drill!Wrap
    <3>2. ASSUME turn = t, turn' # t, NEW s \in OwnServices PROVE <<"named", t, s>> \notin owed
      <4>1. pending["named"][t] = <<>>
        BY <2>2, <3>2 DEF Drill!Wrap, Drill!TurnOver
      <4>2. Drill!Elements(pending["named"][t]) = {}
        BY <4>1 DEF Drill!Elements
      <4>3. QED
        BY <4>2 DEF OwedPending
    <3>3. QED
      BY <3>1, <3>2
  <2>3. CASE UNCHANGED <<rotation, turn>>
    BY <2>3
  <2>4. ASSUME NEW d \in Drill!Drills, NEW one \in {0} \cup Drill!Services, Drill!Start(d, one)
        PROVE  UNCHANGED <<rotation, turn>>
    BY <2>4 DEF Drill!Start, Drill!fileVars
  <2>5. ASSUME NEW r \in Drill!Outcomes, Drill!Try(r) PROVE UNCHANGED <<rotation, turn>>
    BY <2>5 DEF Drill!Try, Drill!fileVars
  <2>6. CASE Drill!Clean \/ Drill!Begin \/ Drill!Select \/ Drill!StopFound \/ Drill!TargetDone \/ Drill!MarkDue \/ Drill!Make \/ Drill!Note
    BY <2>3, <2>6 DEF Drill!Clean, Drill!Begin, Drill!Select, Drill!StopFound, Drill!TargetDone,
                      Drill!MarkDue, Drill!Make, Drill!Note, Drill!fileVars
  <2>7. CASE Drill!Save \/ Drill!Report \/ Drill!End \/ Drill!Stop \/ Drill!Kill \/ Drill!ContainerStart \/ UNCHANGED Drill!vars
    BY <2>3, <2>7 DEF Drill!Save, Drill!Report, Drill!End, Drill!Stop, Drill!Kill,
                      Drill!ContainerStart, Drill!vars, Drill!fileVars
  <2>8. QED
    BY <2>1, <2>2, <2>3, <2>4, <2>5, <2>6, <2>7 DEF Drill!Next, Drill!DrillStep
<1>2. QED
  BY <1>1, Drilled, Turned, PTL DEF Drill!Spec, SelectionFinished

\* What is shown as failed, or as interrupted and still due, is pending, so that the next run
\* of its drill takes it again.
THEOREM DrillsDueKept == Drill!Spec => []DueKept
<1>1. Drill!Init => DueInv
  <2> SUFFICES ASSUME Drill!Init PROVE DueInv
    OBVIOUS
  <2>1. PickedPending
    BY DEF Drill!Init, PickedPending, Picked
  <2>2. PendingOnce
    BY DEF Drill!Init, PendingOnce, Distinct
  <2>3. Drill!DueKept
    BY DEF Drill!Init, Drill!DueKept
  <2>4. QED
    BY <2>1, <2>2, <2>3 DEF DueInv
<1>2. Drill!TypeOK /\ AtHand /\ FewDirs /\ DueInv /\ [Drill!Next]_(Drill!vars) => DueInv'
  BY DueStep
<1>3. DueInv => DueKept
  BY DEF DueInv, Drill!DueKept, DueKept, Drill!Keys, Keys, Drill!Drills, Drills, Drill!Storages,
         Storages, Drill!Services, Services, Drill!Covered, Covered, Drill!Elements, Elements
<1>4. QED
  BY <1>1, <1>2, <1>3, Drilled, PTL DEF Drill!Spec

=============================================================================
