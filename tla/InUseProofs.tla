------------------------------ MODULE InUseProofs ------------------------------
(***************************************************************************)
(* Proofs about InUse, for any storages, snapshot IDs, readers and bound.  *)
(***************************************************************************)
EXTENDS InUse, WellFoundedInduction, TLAPS

-------------------------------------------------------------------------------
(* Facts about registrations *)

\* A registration built by Worker.revisions covers each of its keys and every
\* revision past the newest listed of its ID.
LEMMA CopyCovers ==
    ASSUME NEW keys \in SUBSET Rev, NEW revs \in SUBSET Rev, keys \subseteq revs,
           NEW f \in [IDs -> 0..MaxRev], IsListedNewest(f, revs),
           NEW x \in Rev, x \in keys \/ x[2] > f[x[1]]
    PROVE  HeldBy(CopyEntries(keys, f), x)
<1> DEFINE ents == CopyEntries(keys, f)
<1>1. x[1] \in IDs /\ x[2] \in 1..MaxRev /\ x[1] # AnyID /\ MaxRev \in Nat
  BY ConstantsAssumption DEF Rev
<1>2. CASE x \in keys
  <2>1. Exact(x) \in ents /\ Exact(x).id = x[1] /\ Covers(Exact(x), x[2])
    BY <1>2 DEF CopyEntries, Exact, Covers
  <2> QED
    BY <2>1 DEF HeldBy
<1>3. CASE x[2] > f[x[1]] /\ f[x[1]] # 0
  <2> DEFINE e == [id |-> x[1], rev |-> f[x[1]] + 1, newer |-> TRUE]
  <2>1. e \in ents
    BY <1>1, <1>3 DEF CopyEntries
  <2>2. e.id = x[1] /\ Covers(e, x[2])
    BY <1>1, <1>3 DEF Covers
  <2> HIDE DEF e
  <2> QED
    BY <2>1, <2>2 DEF HeldBy
<1>4. CASE x \notin keys /\ f[x[1]] = 0
  <2>1. ByID(revs, x[1]) = {}
    <3>1. \A y \in ByID(revs, x[1]) : y[2] >= 1
      BY <1>1 DEF ByID, Rev
    <3>2. <<x[1], 0>> \notin revs
      BY <1>1 DEF Rev
    <3> QED
      BY <1>1, <1>4, <3>2 DEF IsListedNewest
  <2>2. \A e \in ents : e.id # x[1]
    BY <1>1, <1>4, <2>1 DEF CopyEntries, Exact, ByID
  <2> DEFINE a == [id |-> AnyID, rev |-> 1, newer |-> TRUE]
  <2>3. a \in ents /\ a.id = AnyID /\ Covers(a, x[2])
    BY <1>1 DEF CopyEntries, Covers
  <2> HIDE DEF a, ents
  <2> QED
    BY <2>2, <2>3 DEF HeldBy, ents
<1> QED
  BY <1>2, <1>3, <1>4

\* Narrowing only gives revisions up: what the narrowed registration covers,
\* the full one covered.
LEMMA NarrowShrinks ==
    ASSUME NEW keys \in SUBSET Rev, NEW revs \in SUBSET Rev, keys \subseteq revs,
           NEW f \in [IDs -> 0..MaxRev], IsListedNewest(f, revs),
           NEW x \in Rev, HeldBy(CopyEntries(keys, f), x)
    PROVE  HeldBy(CopyEntries(revs, f), x)
<1>1. x[1] \in IDs /\ x[2] \in 1..MaxRev /\ x[1] # AnyID /\ MaxRev \in Nat
  BY ConstantsAssumption DEF Rev
<1>2. CASE x \in revs
  BY <1>2, CopyCovers
<1>3. CASE x \notin revs
  <2>1. CASE x[2] > f[x[1]]
    BY <2>1, CopyCovers
  <2>2. CASE ~ (x[2] > f[x[1]])
    <3>1. f[x[1]] # 0
      BY <1>1, <2>2
    <3>2. [id |-> x[1], rev |-> f[x[1]] + 1, newer |-> TRUE] \in CopyEntries(keys, f)
      BY <1>1, <3>1 DEF CopyEntries
    <3>3. \E e \in CopyEntries(keys, f) : e.id = x[1] /\ Covers(e, x[2])
      BY <3>2 DEF HeldBy
    <3>4. \A e \in CopyEntries(keys, f) : e.id = x[1] =>
              \/ \E y \in keys : e = Exact(y)
              \/ e = [id |-> x[1], rev |-> f[x[1]] + 1, newer |-> TRUE]
      BY <1>1 DEF CopyEntries
    <3>5. ~ Covers([id |-> x[1], rev |-> f[x[1]] + 1, newer |-> TRUE], x[2])
      BY <1>1, <2>2 DEF Covers
    <3>6. PICK y \in keys : Exact(y).id = x[1] /\ Covers(Exact(y), x[2])
      BY <3>3, <3>4, <3>5
    <3>7. y = x
      BY <3>6 DEF Exact, Covers, Rev
    <3> QED
      BY <3>7, <1>3
  <2> QED
    BY <2>1, <2>2
<1> QED
  BY <1>2, <1>3

\* A registration that names revisions one by one covers each of them.
LEMMA ExactCovers ==
    ASSUME NEW ents, NEW x \in Rev, Exact(x) \in ents
    PROVE  HeldBy(ents, x)
<1>1. Exact(x).id = x[1] /\ Covers(Exact(x), x[2])
  BY DEF Exact, Covers
<1> QED
  BY <1>1 DEF HeldBy

\* A deep check's registration covers every revision.
LEMMA EverythingCovers ==
    ASSUME NEW x \in Rev
    PROVE  HeldBy(EverythingHeld, x)
<1>1. x[1] \in IDs /\ x[2] \in Nat /\ x[1] # AnyID
  BY ConstantsAssumption DEF Rev
<1> QED
  BY <1>1 DEF HeldBy, EverythingHeld, Covers

\* An empty registration, as of a reader that released it, covers nothing.
LEMMA NothingCovered ==
    ASSUME NEW x
    PROVE  ~ HeldBy({}, x)
BY DEF HeldBy

-------------------------------------------------------------------------------
(* Type correctness *)

\* What the readers register is well-typed.
LEMMA EntryTypes ==
    /\ \A keys \in SUBSET Rev, f \in [IDs -> 0..MaxRev] : CopyEntries(keys, f) \in SUBSET Entry
    /\ \A x \in Rev : Exact(x) \in Entry
    /\ EverythingHeld \in SUBSET Entry
<1>1. MaxRev \in Nat \ {0}
  BY ConstantsAssumption
<1>2. \A x \in Rev : Exact(x) \in Entry
  BY <1>1 DEF Exact, Rev, Entry
<1>3. \A f \in [IDs -> 0..MaxRev], i \in IDs :
         [id |-> i, rev |-> f[i] + 1, newer |-> TRUE] \in Entry
  BY <1>1 DEF Entry
<1>4. [id |-> AnyID, rev |-> 1, newer |-> TRUE] \in Entry
  BY <1>1 DEF Entry
<1>5. EverythingHeld \in SUBSET Entry
  BY <1>1 DEF Entry, EverythingHeld
<1>6. \A keys \in SUBSET Rev, f \in [IDs -> 0..MaxRev] : CopyEntries(keys, f) \in SUBSET Entry
  BY <1>2, <1>3, <1>4 DEF CopyEntries
<1> QED
  BY <1>2, <1>5, <1>6

\* Every step keeps the types, one case per part of Next.
LEMMA TypeStep == TypeOK /\ [Next]_vars => TypeOK'
<1> SUFFICES ASSUME TypeOK, [Next]_vars
             PROVE  TypeOK'
  OBVIOUS
<1> USE DEF gateVars, readerVars, prunerVars, forgetVars
<1>0. /\ Targets \subseteq Storages /\ Targets \subseteq Readers /\ Others \subseteq Readers
      /\ Primary \in Storages /\ Storages \subseteq Deleters /\ Forget \in Deleters
      /\ Restores \subseteq Others /\ Drills \subseteq Others
      /\ Doctors \subseteq Others /\ DeepChecks \subseteq Others
      /\ MaxRev \in Nat
  BY ConstantsAssumption DEF Storages, Readers, Deleters, Others
<1>1. ASSUME NEW i \in IDs, Backup(i) PROVE TypeOK'
  <2>1. Configured \subseteq IDs
    BY ConstantsAssumption
  <2> QED
    BY <1>0, <1>1, <2>1 DEF Backup, TypeOK, Rev
<1>2. ASSUME NEW t \in Targets, CopyNext!(t) PROVE TypeOK'
  <2>1. CASE ListLocal(t)
    BY <1>0, <2>1 DEF ListLocal, TypeOK
  <2>2. CASE HoldAll(t)
    BY <1>0, <2>2, EntryTypes DEF HoldAll, TypeOK
  <2>3. CASE Narrow(t)
    <3>1. listed[t] \ has[t] \in SUBSET Rev /\ newest[t] \in [IDs -> 0..MaxRev]
      BY <1>0 DEF TypeOK
    <3>2. CopyEntries(listed[t] \ has[t], newest[t]) \in SUBSET Entry
      BY <3>1, EntryTypes
    <3> QED
      BY <1>0, <2>3, <3>1, <3>2 DEF Narrow, TypeOK
  <2>4. CASE StartCopy(t)
    BY <1>0, <2>4 DEF StartCopy, TypeOK
  <2>5. CASE CopyDone(t)
    BY <1>0, <2>5 DEF CopyDone, TypeOK
  <2>6. CASE PassEnd(t)
    BY <1>0, <2>6 DEF PassEnd, TypeOK
  <2>7. ASSUME NEW x \in Rev, CopyOne(t, x) PROVE TypeOK'
    BY <1>0, <2>7 DEF CopyOne, TypeOK
  <2> QED
    BY <1>2, <2>1, <2>2, <2>3, <2>4, <2>5, <2>6, <2>7
<1>3. ASSUME NEW r \in Others, ReaderNext!(r) PROVE TypeOK'
  <2>1. CASE ReaderHold(r)
    <3>1. {Exact(x) : x \in need[r]} \in SUBSET Entry
      BY <1>0, EntryTypes DEF TypeOK
    <3> QED
      BY <1>0, <2>1, <3>1 DEF ReaderHold, TypeOK
  <2>2. CASE StartRead(r)
    <3>1. ReadSet(r) \in SUBSET Rev
      BY <1>0 DEF ReadSet, TypeOK
    <3> QED
      BY <1>0, <2>2, <3>1 DEF StartRead, TypeOK
  <2>3. CASE ReadEnd(r)
    BY <1>0, <2>3 DEF ReadEnd, TypeOK
  <2>4. CASE KilledReading(r)
    BY <1>0, <2>4 DEF KilledReading, TypeOK
  <2>5. ASSUME NEW s \in Storages, NEW x \in Rev, RestoreHold(r, s, x) PROVE TypeOK'
    BY <1>0, <2>5, EntryTypes DEF RestoreHold, TypeOK
  <2>6. ASSUME NEW s \in Storages, NEW x \in Rev, DrillList(r, s, x) PROVE TypeOK'
    BY <1>0, <2>6 DEF DrillList, TypeOK
  <2>7. ASSUME NEW s \in Storages, DoctorList(r, s) PROVE TypeOK'
    BY <1>0, <2>7 DEF DoctorList, TypeOK
  <2>8. ASSUME NEW s \in Storages, DeepHold(r, s) PROVE TypeOK'
    BY <1>0, <2>8, EntryTypes DEF DeepHold, TypeOK
  <2> QED
    BY <1>3, <2>1, <2>2, <2>3, <2>4, <2>5, <2>6, <2>7, <2>8
<1>4. CASE PruneNext
  <2>0. \A s \in Storages : ReadRegistry(s) \in SUBSET SUBSET Entry
    BY DEF ReadRegistry, TypeOK
  <2>1. CASE PruneEnter
    BY <1>0, <2>1 DEF PruneEnter, TypeOK
  <2>2. CASE PruneRead
    BY <1>0, <2>0, <2>2 DEF PruneRead, TypeOK
  <2>3. CASE PrunePlan
    BY <1>0, <2>3 DEF PrunePlan, TypeOK
  <2>6. ASSUME NEW d \in Storages, PruneLeave(d) PROVE TypeOK'
    BY <1>0, <2>6 DEF PruneLeave, TypeOK
  <2>7. ASSUME NEW d \in Storages, NEW x \in Rev, Delete(d, x) PROVE TypeOK'
    BY <1>0, <2>7 DEF Delete, TypeOK
  <2>8. ASSUME NEW t \in Targets, MirrorEnter(t) PROVE TypeOK'
    BY <1>0, <2>8 DEF MirrorEnter, TypeOK
  <2>9. ASSUME NEW t \in Targets, MirrorListLocal(t) PROVE TypeOK'
    BY <1>0, <2>9 DEF MirrorListLocal, TypeOK
  <2>10. ASSUME NEW t \in Targets, NEW allow \in BOOLEAN, MirrorPlanStep(t, allow) PROVE TypeOK'
    <3>1. \A p : PlanMirror(mlocal[t], has[t], Configured, p) \in SUBSET Rev
      BY <1>0 DEF PlanMirror, TypeOK
    <3> QED
      BY <1>0, <2>10, <3>1 DEF MirrorPlanStep, TypeOK
  <2> QED
    BY <1>4, <2>1, <2>2, <2>3, <2>6, <2>7, <2>8, <2>9, <2>10 DEF PruneNext
<1>5. CASE ForgetStep
  <2>0. \A s \in Storages : ReadRegistry(s) \in SUBSET SUBSET Entry
    BY DEF ReadRegistry, TypeOK
  <2>1. CASE ForgetStop
    BY <1>0, <2>1 DEF ForgetStop, TypeOK
  <2>2. ASSUME NEW i \in IDs, ForgetPlan(i) PROVE TypeOK'
    BY <1>0, <2>2 DEF ForgetPlan, TypeOK
  <2>3. ASSUME NEW s \in Storages, ForgetEnter(s) PROVE TypeOK'
    BY <1>0, <2>3 DEF ForgetEnter, TypeOK
  <2>4. ASSUME NEW s \in Storages, ForgetRead(s) PROVE TypeOK'
    BY <1>0, <2>0, <2>4 DEF ForgetRead, TypeOK
  <2>5. ASSUME NEW s \in Storages, ForgetList(s) PROVE TypeOK'
    BY <1>0, <2>5 DEF ForgetList, TypeOK
  <2>6. ASSUME NEW s \in Storages, ForgetNext(s) PROVE TypeOK'
    BY <1>0, <2>6 DEF ForgetNext, TypeOK
  <2>7. ASSUME NEW s \in Storages, NEW x \in Rev, ForgetDelete(s, x) PROVE TypeOK'
    BY <1>0, <2>7 DEF ForgetDelete, TypeOK
  <2> QED
    BY <1>5, <2>1, <2>2, <2>3, <2>4, <2>5, <2>6, <2>7 DEF ForgetStep
<1>6. CASE Restart
  BY <1>0, <1>6 DEF Restart, TypeOK
<1>7. CASE UNCHANGED vars
  BY <1>7 DEF vars, TypeOK
<1> QED
  BY <1>1, <1>2, <1>3, <1>4, <1>5, <1>6, <1>7 DEF Next, CopyNext, ReaderNext

\* Nothing runs at first, and only retired IDs have revisions.
LEMMA TypeInit == Init => TypeOK
<1>1. /\ Primary \in Storages /\ Targets \subseteq Storages /\ Retired \subseteq IDs
      /\ MaxRev \in Nat
  BY ConstantsAssumption DEF Storages, Retired
<1> QED
  BY <1>1 DEF Init, TypeOK, Rev

\* Every reachable state of InUse is well typed.
THEOREM Typing == Spec => []TypeOK
BY TypeInit, TypeStep, PTL DEF Spec

-------------------------------------------------------------------------------
(* The inductive invariant, part by part *)

\* How the constant sets sit in one another.
LEMMA Sets ==
    /\ Targets \subseteq Storages /\ Targets \subseteq Readers /\ Others \subseteq Readers
    /\ Primary \in Storages /\ Primary \notin Targets
    /\ Storages = {Primary} \cup Targets /\ Readers = Targets \cup Others
    /\ Others \cap Targets = {}
    /\ Storages \subseteq Deleters /\ Forget \in Deleters /\ Forget \notin Storages
    /\ Nobody \notin Deleters
    /\ Restores \subseteq Others /\ Drills \subseteq Others
    /\ Doctors \subseteq Others /\ DeepChecks \subseteq Others
    /\ DeepChecks \cap (Restores \cup Drills \cup Doctors) = {}
    /\ MaxRev \in Nat /\ Retired \cap Configured = {} /\ Configured \subseteq IDs
BY ConstantsAssumption DEF Storages, Readers, Deleters, Others, Retired

\* Every step keeps the gates exclusive.
LEMMA GateStep == IndInv /\ [Next]_vars => GateInv'
<1> SUFFICES ASSUME IndInv, [Next]_vars
             PROVE  GateInv'
  OBVIOUS
<1> USE Sets DEF gateVars, readerVars, prunerVars, forgetVars, IndInv, TypeOK, GateInv
<1>1. ASSUME NEW i \in IDs, Backup(i) PROVE GateInv'
  BY <1>1 DEF Backup
<1>2. ASSUME NEW t \in Targets, ListLocal(t) PROVE GateInv'
  BY <1>2 DEF ListLocal, GateOpenShared, GateOpenExcl
<1>3. ASSUME NEW t \in Targets, HoldAll(t) PROVE GateInv'
  BY <1>3 DEF HoldAll, ReaderInv
<1>4. ASSUME NEW t \in Targets, Narrow(t) PROVE GateInv'
  BY <1>4 DEF Narrow
<1>5. ASSUME NEW t \in Targets, StartCopy(t) PROVE GateInv'
  BY <1>5 DEF StartCopy
<1>6. ASSUME NEW t \in Targets, CopyDone(t) PROVE GateInv'
  BY <1>6 DEF CopyDone
<1>7. ASSUME NEW t \in Targets, PassEnd(t) PROVE GateInv'
  BY <1>7 DEF PassEnd, ReaderInv
<1>8. ASSUME NEW t \in Targets, NEW x \in Rev, CopyOne(t, x) PROVE GateInv'
  BY <1>8 DEF CopyOne
<1>9. ASSUME NEW r \in Others, ReaderHold(r) PROVE GateInv'
  BY <1>9 DEF ReaderHold, ReaderInv
<1>10. ASSUME NEW r \in Others, StartRead(r) PROVE GateInv'
  BY <1>10 DEF StartRead
<1>11. ASSUME NEW r \in Others, ReadEnd(r) PROVE GateInv'
  BY <1>11 DEF ReadEnd, ReaderInv
<1>12. ASSUME NEW r \in Others, KilledReading(r) PROVE GateInv'
  BY <1>12 DEF KilledReading
<1>13. ASSUME NEW r \in Others, NEW s \in Storages, NEW x \in Rev, RestoreHold(r, s, x) PROVE GateInv'
  BY <1>13 DEF RestoreHold, GateOpenShared, GateOpenExcl
<1>14. ASSUME NEW r \in Others, NEW s \in Storages, NEW x \in Rev, DrillList(r, s, x) PROVE GateInv'
  BY <1>14 DEF DrillList, GateOpenShared, GateOpenExcl
<1>15. ASSUME NEW r \in Others, NEW s \in Storages, DoctorList(r, s) PROVE GateInv'
  BY <1>15 DEF DoctorList, GateOpenShared, GateOpenExcl
<1>16. ASSUME NEW r \in Others, NEW s \in Storages, DeepHold(r, s) PROVE GateInv'
  BY <1>16 DEF DeepHold, GateOpenShared, GateOpenExcl
<1>17. CASE PruneEnter
  BY <1>17 DEF PruneEnter, GateOpenShared, GateOpenExcl
<1>18. CASE PruneRead
  BY <1>18 DEF PruneRead
<1>19. CASE PrunePlan
  BY <1>19 DEF PrunePlan
<1>22. ASSUME NEW d \in Storages, PruneLeave(d) PROVE GateInv'
  BY <1>22 DEF PruneLeave
<1>23. ASSUME NEW d \in Storages, NEW x \in Rev, Delete(d, x) PROVE GateInv'
  BY <1>23 DEF Delete
<1>24. ASSUME NEW t \in Targets, MirrorEnter(t) PROVE GateInv'
  BY <1>24 DEF MirrorEnter, GateOpenShared, GateOpenExcl
<1>25. ASSUME NEW t \in Targets, MirrorListLocal(t) PROVE GateInv'
  BY <1>25 DEF MirrorListLocal
<1>26. ASSUME NEW t \in Targets, NEW allow \in BOOLEAN, MirrorPlanStep(t, allow) PROVE GateInv'
  BY <1>26 DEF MirrorPlanStep
<1>27. CASE ForgetStop
  BY <1>27 DEF ForgetStop, ReaderInv, ForgetInv
<1>28. ASSUME NEW i \in IDs, ForgetPlan(i) PROVE GateInv'
  BY <1>28 DEF ForgetPlan
<1>29. ASSUME NEW s \in Storages, ForgetEnter(s) PROVE GateInv'
  BY <1>29 DEF ForgetEnter, GateOpenShared, GateOpenExcl
<1>30. ASSUME NEW s \in Storages, ForgetRead(s) PROVE GateInv'
  BY <1>30 DEF ForgetRead
<1>31. ASSUME NEW s \in Storages, ForgetList(s) PROVE GateInv'
  BY <1>31 DEF ForgetList
<1>32. ASSUME NEW s \in Storages, ForgetNext(s) PROVE GateInv'
  BY <1>32 DEF ForgetNext, ReaderInv, ForgetInv
<1>33. ASSUME NEW s \in Storages, NEW x \in Rev, ForgetDelete(s, x) PROVE GateInv'
  BY <1>33 DEF ForgetDelete
<1>34. CASE Restart
  BY <1>34 DEF Restart
<1>35. CASE UNCHANGED vars
  BY <1>35 DEF vars
<1> QED
  BY <1>1, <1>2, <1>3, <1>4, <1>5, <1>6, <1>7, <1>8, <1>9, <1>10, <1>11, <1>12, <1>13,
     <1>14, <1>15, <1>16, <1>17, <1>18, <1>19, <1>22, <1>23, <1>24, <1>25,
     <1>26, <1>27, <1>28, <1>29, <1>30, <1>31, <1>32, <1>33, <1>34, <1>35 DEF Next,
     CopyNext, ReaderNext, PruneNext, ForgetStep

\* Every step keeps the readers' gates and registrations in order.
LEMMA ReaderStep == IndInv /\ [Next]_vars => ReaderInv'
<1> SUFFICES ASSUME IndInv, [Next]_vars
             PROVE  ReaderInv'
  OBVIOUS
<1> USE Sets DEF gateVars, readerVars, prunerVars, forgetVars, IndInv, TypeOK, ReaderInv
<1>1. ASSUME NEW i \in IDs, Backup(i) PROVE ReaderInv'
  BY <1>1 DEF Backup
<1>2. ASSUME NEW t \in Targets, ListLocal(t) PROVE ReaderInv'
  BY <1>2 DEF ListLocal
<1>3. ASSUME NEW t \in Targets, HoldAll(t) PROVE ReaderInv'
  BY <1>3 DEF HoldAll
<1>4. ASSUME NEW t \in Targets, Narrow(t) PROVE ReaderInv'
  BY <1>4 DEF Narrow
<1>5. ASSUME NEW t \in Targets, StartCopy(t) PROVE ReaderInv'
  BY <1>5 DEF StartCopy
<1>6. ASSUME NEW t \in Targets, CopyDone(t) PROVE ReaderInv'
  BY <1>6 DEF CopyDone
<1>7. ASSUME NEW t \in Targets, PassEnd(t) PROVE ReaderInv'
  BY <1>7 DEF PassEnd
<1>8. ASSUME NEW t \in Targets, NEW x \in Rev, CopyOne(t, x) PROVE ReaderInv'
  BY <1>8 DEF CopyOne
<1>9. ASSUME NEW r \in Others, ReaderHold(r) PROVE ReaderInv'
  BY <1>9 DEF ReaderHold
<1>10. ASSUME NEW r \in Others, StartRead(r) PROVE ReaderInv'
  BY <1>10 DEF StartRead
<1>11. ASSUME NEW r \in Others, ReadEnd(r) PROVE ReaderInv'
  BY <1>11 DEF ReadEnd
<1>12. ASSUME NEW r \in Others, KilledReading(r) PROVE ReaderInv'
  BY <1>12 DEF KilledReading
<1>13. ASSUME NEW r \in Others, NEW s \in Storages, NEW x \in Rev, RestoreHold(r, s, x) PROVE ReaderInv'
  BY <1>13 DEF RestoreHold
<1>14. ASSUME NEW r \in Others, NEW s \in Storages, NEW x \in Rev, DrillList(r, s, x) PROVE ReaderInv'
  BY <1>14 DEF DrillList
<1>15. ASSUME NEW r \in Others, NEW s \in Storages, DoctorList(r, s) PROVE ReaderInv'
  BY <1>15 DEF DoctorList
<1>16. ASSUME NEW r \in Others, NEW s \in Storages, DeepHold(r, s) PROVE ReaderInv'
  BY <1>16 DEF DeepHold
<1>17. CASE PruneEnter
  BY <1>17 DEF PruneEnter
<1>18. CASE PruneRead
  BY <1>18 DEF PruneRead
<1>19. CASE PrunePlan
  BY <1>19 DEF PrunePlan
<1>22. ASSUME NEW d \in Storages, PruneLeave(d) PROVE ReaderInv'
  BY <1>22 DEF PruneLeave, GateInv
<1>23. ASSUME NEW d \in Storages, NEW x \in Rev, Delete(d, x) PROVE ReaderInv'
  BY <1>23 DEF Delete
<1>24. ASSUME NEW t \in Targets, MirrorEnter(t) PROVE ReaderInv'
  BY <1>24 DEF MirrorEnter, GateInv
<1>25. ASSUME NEW t \in Targets, MirrorListLocal(t) PROVE ReaderInv'
  BY <1>25 DEF MirrorListLocal, GateInv
<1>26. ASSUME NEW t \in Targets, NEW allow \in BOOLEAN, MirrorPlanStep(t, allow) PROVE ReaderInv'
  BY <1>26 DEF MirrorPlanStep, GateInv
<1>27. CASE ForgetStop
  BY <1>27 DEF ForgetStop, GateInv
<1>28. ASSUME NEW i \in IDs, ForgetPlan(i) PROVE ReaderInv'
  BY <1>28 DEF ForgetPlan
<1>29. ASSUME NEW s \in Storages, ForgetEnter(s) PROVE ReaderInv'
  BY <1>29 DEF ForgetEnter
<1>30. ASSUME NEW s \in Storages, ForgetRead(s) PROVE ReaderInv'
  BY <1>30 DEF ForgetRead
<1>31. ASSUME NEW s \in Storages, ForgetList(s) PROVE ReaderInv'
  BY <1>31 DEF ForgetList
<1>32. ASSUME NEW s \in Storages, ForgetNext(s) PROVE ReaderInv'
  BY <1>32 DEF ForgetNext
<1>33. ASSUME NEW s \in Storages, NEW x \in Rev, ForgetDelete(s, x) PROVE ReaderInv'
  BY <1>33 DEF ForgetDelete
<1>34. CASE Restart
  BY <1>34 DEF Restart
<1>35. CASE UNCHANGED vars
  BY <1>35 DEF vars
<1> QED
  BY <1>1, <1>2, <1>3, <1>4, <1>5, <1>6, <1>7, <1>8, <1>9, <1>10, <1>11, <1>12, <1>13,
     <1>14, <1>15, <1>16, <1>17, <1>18, <1>19, <1>22, <1>23, <1>24, <1>25,
     <1>26, <1>27, <1>28, <1>29, <1>30, <1>31, <1>32, <1>33, <1>34, <1>35 DEF Next,
     CopyNext, ReaderNext, PruneNext, ForgetStep

\* Every step keeps what is needed registered.
LEMMA CoverStep == IndInv /\ [Next]_vars => CoverInv'
<1> SUFFICES ASSUME IndInv, [Next]_vars
             PROVE  CoverInv'
  OBVIOUS
<1> USE Sets DEF gateVars, readerVars, prunerVars, forgetVars, IndInv, TypeOK, CoverInv
<1>1. ASSUME NEW i \in IDs, Backup(i) PROVE CoverInv'
  BY <1>1 DEF Backup
<1>2. ASSUME NEW t \in Targets, ListLocal(t) PROVE CoverInv'
  BY <1>2 DEF ListLocal
<1>3. ASSUME NEW t \in Targets, HoldAll(t) PROVE CoverInv'
  <2>1. \A x \in listed[t] : HeldBy(CopyEntries(listed[t], newest[t]), x)
    BY <1>3, CopyCovers DEF HoldAll, CopyInv, CopyOK
  <2> QED
    BY <1>3, <2>1 DEF HoldAll, CopyInv, CopyOK
<1>4. ASSUME NEW t \in Targets, Narrow(t) PROVE CoverInv'
  <2> DEFINE missing == listed[t] \ has[t]
  <2>0. /\ missing \in SUBSET Rev /\ missing \subseteq listed[t] /\ listed[t] \in SUBSET Rev
        /\ newest[t] \in [IDs -> 0..MaxRev] /\ IsListedNewest(newest[t], listed[t])
    BY <1>4 DEF Narrow, CopyInv, CopyOK
  <2>1. \A x \in missing : HeldBy(CopyEntries(missing, newest[t]), x)
    <3> HIDE DEF missing
    <3> QED
      BY <2>0, CopyCovers
  <2> QED
    BY <1>4, <2>1 DEF Narrow
<1>5. ASSUME NEW t \in Targets, StartCopy(t) PROVE CoverInv'
  <2>1. PICK keys \in SUBSET listed[t] :
            /\ reg[t] = CopyEntries(keys, newest[t])
            /\ \A x \in has[Primary] \ has[t] : x \in listed[t] => x \in keys
    BY <1>5 DEF StartCopy, CopyInv, CopyOK
  <2>2. IsListedNewest(newest[t], listed[t])
    BY <1>5 DEF StartCopy, CopyInv, CopyOK
  <2>3. \A x \in has[Primary] : x \in listed[t] \/ x[2] > newest[t][x[1]]
    BY <1>5 DEF StartCopy, CopyInv, CopyOK
  <2>4. \A x \in has[Primary] \ has[t] : HeldBy(reg[t], x)
    BY <2>1, <2>2, <2>3, CopyCovers
  <2> QED
    BY <1>5, <2>4 DEF StartCopy
<1>6. ASSUME NEW t \in Targets, CopyDone(t) PROVE CoverInv'
  BY <1>6 DEF CopyDone
<1>7. ASSUME NEW t \in Targets, PassEnd(t) PROVE CoverInv'
  BY <1>7 DEF PassEnd
<1>8. ASSUME NEW t \in Targets, NEW x \in Rev, CopyOne(t, x) PROVE CoverInv'
  BY <1>8 DEF CopyOne
<1>9. ASSUME NEW r \in Others, ReaderHold(r) PROVE CoverInv'
  <2>1. \A x \in need[r] : HeldBy({Exact(y) : y \in need[r]}, x)
    BY ExactCovers
  <2> QED
    BY <1>9, <2>1 DEF ReaderHold
<1>10. ASSUME NEW r \in Others, StartRead(r) PROVE CoverInv'
  <2>1. \A x \in ReadSet(r) : HeldBy(reg[r], x)
    <3>1. CASE r \in Restores
      BY <3>1, ExactCovers DEF ReadSet
    <3>2. CASE r \in DeepChecks
      BY <1>10, <3>2, EverythingCovers DEF ReadSet, StartRead, ReaderInv
    <3>3. CASE r \notin Restores \cup DeepChecks
      BY <1>10, <3>3 DEF ReadSet, StartRead
    <3> QED
      BY <3>1, <3>2, <3>3
  <2> QED
    BY <1>10, <2>1 DEF StartRead
<1>11. ASSUME NEW r \in Others, ReadEnd(r) PROVE CoverInv'
  BY <1>11 DEF ReadEnd
<1>12. ASSUME NEW r \in Others, KilledReading(r) PROVE CoverInv'
  BY <1>12 DEF KilledReading
<1>13. ASSUME NEW r \in Others, NEW s \in Storages, NEW x \in Rev, RestoreHold(r, s, x) PROVE CoverInv'
  BY <1>13 DEF RestoreHold, ReaderInv
<1>14. ASSUME NEW r \in Others, NEW s \in Storages, NEW x \in Rev, DrillList(r, s, x) PROVE CoverInv'
  BY <1>14 DEF DrillList
<1>15. ASSUME NEW r \in Others, NEW s \in Storages, DoctorList(r, s) PROVE CoverInv'
  BY <1>15 DEF DoctorList
<1>16. ASSUME NEW r \in Others, NEW s \in Storages, DeepHold(r, s) PROVE CoverInv'
  BY <1>16 DEF DeepHold, ReaderInv
<1>17. CASE PruneEnter
  BY <1>17 DEF PruneEnter
<1>18. CASE PruneRead
  BY <1>18 DEF PruneRead
<1>19. CASE PrunePlan
  BY <1>19 DEF PrunePlan
<1>22. ASSUME NEW d \in Storages, PruneLeave(d) PROVE CoverInv'
  BY <1>22 DEF PruneLeave
<1>23. ASSUME NEW d \in Storages, NEW x \in Rev, Delete(d, x) PROVE CoverInv'
  BY <1>23 DEF Delete
<1>24. ASSUME NEW t \in Targets, MirrorEnter(t) PROVE CoverInv'
  BY <1>24 DEF MirrorEnter
<1>25. ASSUME NEW t \in Targets, MirrorListLocal(t) PROVE CoverInv'
  BY <1>25 DEF MirrorListLocal
<1>26. ASSUME NEW t \in Targets, NEW allow \in BOOLEAN, MirrorPlanStep(t, allow) PROVE CoverInv'
  BY <1>26 DEF MirrorPlanStep
<1>27. CASE ForgetStop
  BY <1>27 DEF ForgetStop
<1>28. ASSUME NEW i \in IDs, ForgetPlan(i) PROVE CoverInv'
  BY <1>28 DEF ForgetPlan
<1>29. ASSUME NEW s \in Storages, ForgetEnter(s) PROVE CoverInv'
  BY <1>29 DEF ForgetEnter
<1>30. ASSUME NEW s \in Storages, ForgetRead(s) PROVE CoverInv'
  BY <1>30 DEF ForgetRead
<1>31. ASSUME NEW s \in Storages, ForgetList(s) PROVE CoverInv'
  BY <1>31 DEF ForgetList
<1>32. ASSUME NEW s \in Storages, ForgetNext(s) PROVE CoverInv'
  BY <1>32 DEF ForgetNext
<1>33. ASSUME NEW s \in Storages, NEW x \in Rev, ForgetDelete(s, x) PROVE CoverInv'
  BY <1>33 DEF ForgetDelete
<1>34. CASE Restart
  BY <1>34 DEF Restart
<1>35. CASE UNCHANGED vars
  BY <1>35 DEF vars
<1> QED
  BY <1>1, <1>2, <1>3, <1>4, <1>5, <1>6, <1>7, <1>8, <1>9, <1>10, <1>11, <1>12, <1>13,
     <1>14, <1>15, <1>16, <1>17, <1>18, <1>19, <1>22, <1>23, <1>24, <1>25,
     <1>26, <1>27, <1>28, <1>29, <1>30, <1>31, <1>32, <1>33, <1>34, <1>35 DEF Next,
     CopyNext, ReaderNext, PruneNext, ForgetStep

\* listedNewest's entry for an ID is one of the listed revisions.
LEMMA NewestListed ==
    ASSUME NEW revs \in SUBSET Rev, NEW f \in [IDs -> 0..MaxRev], IsListedNewest(f, revs)
    PROVE  \A j \in Configured : f[j] # 0 => \E x \in ByID(revs, j) : x[2] >= f[j]
<1> SUFFICES ASSUME NEW j \in Configured, f[j] # 0
             PROVE  \E x \in ByID(revs, j) : x[2] >= f[j]
  OBVIOUS
<1>1. j \in IDs /\ f[j] \in Nat
  BY Sets
<1>2. <<j, f[j]>> \in revs
  BY <1>1 DEF IsListedNewest
<1>3. <<j, f[j]>> \in ByID(revs, j)
  BY <1>2 DEF ByID
<1> QED
  BY <1>1, <1>3

\* A new revision of local is past everything a copy worker listed of its ID.
LEMMA CopyGrows ==
    ASSUME NEW local \in SUBSET Rev, NEW target, NEW pc, NEW ents, NEW needed,
           NEW revs \in SUBSET Rev, NEW f \in [IDs -> 0..MaxRev],
           CopyOK(local, target, pc, ents, needed, revs, f),
           NEW i \in Configured, NEW n \in 1..MaxRev,
           \A x \in ByID(local, i) : x[2] < n
    PROVE  CopyOK(local \cup {<<i, n>>}, target, pc, ents, needed, revs, f)
<1> SUFFICES ASSUME pc \in {"listed", "all", "narrowed"}
             PROVE  CopyOK(local \cup {<<i, n>>}, target, pc, ents, needed, revs, f)
  BY DEF CopyOK
<1>0. i \in IDs /\ MaxRev \in Nat /\ f[i] \in Nat
  BY Sets
<1>1. n > f[i]
  <2>1. CASE f[i] = 0
    BY <2>1
  <2>2. CASE f[i] # 0
    <3>1. PICK x \in ByID(local, i) : x[2] >= f[i]
      BY <2>2 DEF CopyOK
    <3>2. x[2] \in Nat /\ x[2] < n
      BY <1>0 DEF ByID, Rev
    <3> QED
      BY <1>0, <3>1, <3>2
  <2> QED
    BY <2>1, <2>2
<1>2. <<i, n>> \notin revs
  <2>1. SUFFICES ASSUME <<i, n>> \in revs PROVE FALSE
    OBVIOUS
  <2>2. <<i, n>> \in ByID(revs, i)
    BY <2>1 DEF ByID
  <2>3. IsListedNewest(f, revs)
    BY DEF CopyOK
  <2>4. \A x \in ByID(revs, i) : x[2] <= f[i]
    BY <1>0, <2>2, <2>3 DEF IsListedNewest
  <2>5. <<i, n>>[2] <= f[i]
    BY <2>2, <2>4
  <2> QED
    BY <1>0, <1>1, <2>5
<1>3. \A j \in Configured : f[j] # 0 => \E x \in ByID(local \cup {<<i, n>>}, j) : x[2] >= f[j]
  BY DEF CopyOK, ByID
<1>4. \A x \in local \cup {<<i, n>>} : x \in revs \/ x[2] > f[x[1]]
  BY <1>1 DEF CopyOK
<1>5. \A x \in (local \cup {<<i, n>>}) \ target : x \in revs => x \in local \ target
  BY <1>2
<1> QED
  BY <1>3, <1>4, <1>5 DEF CopyOK

\* A prune leaves each ID of local something newer than what it deletes.
LEMMA CopyPruned ==
    ASSUME NEW local \in SUBSET Rev, NEW target, NEW pc, NEW ents, NEW needed,
           NEW revs, NEW f \in [IDs -> 0..MaxRev],
           CopyOK(local, target, pc, ents, needed, revs, f),
           NEW x \in Rev, NEW y \in local, y # x, y[1] = x[1], y[2] > x[2]
    PROVE  CopyOK(local \ {x}, target, pc, ents, needed, revs, f)
<1>1. ASSUME NEW i \in Configured, f[i] # 0, pc \in {"listed", "all", "narrowed"}
      PROVE  \E z \in ByID(local \ {x}, i) : z[2] >= f[i]
  <2>0. i \in IDs /\ f[i] \in Nat
    BY Sets
  <2>1. PICK z \in ByID(local, i) : z[2] >= f[i]
    BY <1>1 DEF CopyOK
  <2>2. CASE z = x
    <3>1. y \in ByID(local \ {x}, i)
      BY <2>1, <2>2 DEF ByID
    <3>2. y[2] \in Nat /\ x[2] \in Nat
      BY Sets DEF Rev
    <3> QED
      BY <2>0, <2>1, <2>2, <3>1, <3>2
  <2>3. CASE z # x
    BY <2>1, <2>3 DEF ByID
  <2> QED
    BY <2>2, <2>3
<1> QED
  BY <1>1 DEF CopyOK

\* A forget takes from local only revisions no backup follows.
LEMMA CopyForgot ==
    ASSUME NEW local, NEW target, NEW pc, NEW ents, NEW needed, NEW revs, NEW f,
           CopyOK(local, target, pc, ents, needed, revs, f),
           NEW x, x[1] \notin Configured
    PROVE  CopyOK(local \ {x}, target, pc, ents, needed, revs, f)
<1>1. \A i \in Configured : ByID(local \ {x}, i) = ByID(local, i)
  BY DEF ByID
<1>2. /\ \A z \in local \ {x} : z \in local
      /\ \A z \in (local \ {x}) \ target : z \in local \ target
  OBVIOUS
<1> QED
  BY <1>1, <1>2 DEF CopyOK

\* Every step keeps a copy worker's registration ahead of local's growth.
LEMMA CopyStep == IndInv /\ [Next]_vars => CopyInv'
<1> SUFFICES ASSUME IndInv, [Next]_vars
             PROVE  CopyInv'
  OBVIOUS
<1> USE Sets DEF gateVars, readerVars, prunerVars, forgetVars, IndInv, TypeOK
<1>1. ASSUME NEW i \in IDs, Backup(i) PROVE CopyInv'
  <2>1. PICK n \in 1..MaxRev :
            /\ \A x \in ByID(has[Primary], i) : x[2] < n
            /\ has' = [has EXCEPT ![Primary] = @ \cup {<<i, n>>}]
    BY <1>1 DEF Backup
  <2>2. i \in Configured /\ UNCHANGED <<rpc, reg, need, listed, newest>>
    BY <1>1 DEF Backup
  <2>3. has'[Primary] = has[Primary] \cup {<<i, n>>} /\ \A t \in Targets : has'[t] = has[t]
    BY <2>1
  <2>4. ASSUME NEW t \in Targets
        PROVE  CopyOK(has'[Primary], has[t], rpc[t], reg[t], need[t], listed[t], newest[t])
    <3>1. CopyOK(has[Primary], has[t], rpc[t], reg[t], need[t], listed[t], newest[t])
      BY DEF CopyInv
    <3>2. newest[t] \in [IDs -> 0..MaxRev] /\ listed[t] \in SUBSET Rev /\ has[Primary] \in SUBSET Rev
      OBVIOUS
    <3>3. \A x \in ByID(has[Primary], i) : x[2] < n
      BY <2>1
    <3>4. CopyOK(has[Primary] \cup {<<i, n>>}, has[t], rpc[t], reg[t], need[t], listed[t], newest[t])
      BY <2>2, <3>1, <3>2, <3>3, CopyGrows
    <3> QED
      BY <2>3, <3>4
  <2> QED
    BY <2>2, <2>3, <2>4 DEF CopyInv
<1>2. ASSUME NEW t \in Targets, ListLocal(t) PROVE CopyInv'
  <2>1. PICK f \in [IDs -> 0..MaxRev] :
            IsListedNewest(f, has[Primary]) /\ newest' = [newest EXCEPT ![t] = f]
    BY <1>2 DEF ListLocal
  <2>2. \A j \in Configured : f[j] # 0 => \E x \in ByID(has[Primary], j) : x[2] >= f[j]
    BY <2>1, NewestListed
  <2>3. CopyOK(has[Primary], has[t], "listed", reg[t], has[Primary], has[Primary], f)
    BY <2>1, <2>2 DEF CopyOK
  <2> QED
    BY <1>2, <2>1, <2>3 DEF ListLocal, CopyInv
<1>3. ASSUME NEW t \in Targets, HoldAll(t) PROVE CopyInv'
  <2>1. CopyOK(has[Primary], has[t], "all", CopyEntries(listed[t], newest[t]),
               need[t], listed[t], newest[t])
    BY <1>3 DEF HoldAll, CopyInv, CopyOK
  <2> QED
    BY <1>3, <2>1 DEF HoldAll, CopyInv
<1>4. ASSUME NEW t \in Targets, Narrow(t) PROVE CopyInv'
  <2> DEFINE missing == listed[t] \ has[t]
  <2>1. CopyOK(has[Primary], has[t], "all", reg[t], need[t], listed[t], newest[t])
    BY <1>4 DEF Narrow, CopyInv
  <2>2. /\ missing \in SUBSET listed[t]
        /\ \A x \in has[Primary] \ has[t] : x \in listed[t] => x \in missing
    OBVIOUS
  <2>3. \A pc \in {"upkeep", "narrowed"} :
            CopyOK(has[Primary], has[t], pc, CopyEntries(missing, newest[t]),
                   missing, listed[t], newest[t])
    <3> HIDE DEF missing
    <3> QED
      BY <2>1, <2>2 DEF CopyOK
  <2> QED
    BY <1>4, <2>3 DEF Narrow, CopyInv
<1>5. ASSUME NEW t \in Targets, StartCopy(t) PROVE CopyInv'
  <2>1. rpc'[t] \notin {"listed", "all", "narrowed"}
    BY <1>5 DEF StartCopy
  <2>2. CopyOK(has[Primary], has[t], rpc[t], reg[t], need[t], listed[t], newest[t])'
    BY <2>1 DEF CopyOK
  <2> QED
    BY <1>5, <2>2 DEF StartCopy, CopyInv
<1>6. ASSUME NEW t \in Targets, CopyDone(t) PROVE CopyInv'
  <2>1. rpc'[t] \notin {"listed", "all", "narrowed"}
    BY <1>6 DEF CopyDone
  <2>2. CopyOK(has[Primary], has[t], rpc[t], reg[t], need[t], listed[t], newest[t])'
    BY <2>1 DEF CopyOK
  <2> QED
    BY <1>6, <2>2 DEF CopyDone, CopyInv
<1>7. ASSUME NEW t \in Targets, PassEnd(t) PROVE CopyInv'
  <2>1. rpc'[t] \notin {"listed", "all", "narrowed"}
    BY <1>7 DEF PassEnd
  <2>2. CopyOK(has[Primary], has[t], rpc[t], reg[t], need[t], listed[t], newest[t])'
    BY <2>1 DEF CopyOK
  <2> QED
    BY <1>7, <2>2 DEF PassEnd, CopyInv
<1>8. ASSUME NEW t \in Targets, NEW x \in Rev, CopyOne(t, x) PROVE CopyInv'
  <2>1. rpc'[t] \notin {"listed", "all", "narrowed"}
    BY <1>8 DEF CopyOne
  <2>2. CopyOK(has[Primary], has[t], rpc[t], reg[t], need[t], listed[t], newest[t])'
    BY <2>1 DEF CopyOK
  <2> QED
    BY <1>8, <2>2 DEF CopyOne, CopyInv
<1>9. ASSUME NEW r \in Others, ReaderHold(r) PROVE CopyInv'
  BY <1>9 DEF ReaderHold, CopyInv
<1>10. ASSUME NEW r \in Others, StartRead(r) PROVE CopyInv'
  BY <1>10 DEF StartRead, CopyInv
<1>11. ASSUME NEW r \in Others, ReadEnd(r) PROVE CopyInv'
  BY <1>11 DEF ReadEnd, CopyInv
<1>12. ASSUME NEW r \in Others, KilledReading(r) PROVE CopyInv'
  BY <1>12 DEF KilledReading, CopyInv
<1>13. ASSUME NEW r \in Others, NEW s \in Storages, NEW x \in Rev, RestoreHold(r, s, x) PROVE CopyInv'
  BY <1>13 DEF RestoreHold, CopyInv
<1>14. ASSUME NEW r \in Others, NEW s \in Storages, NEW x \in Rev, DrillList(r, s, x) PROVE CopyInv'
  BY <1>14 DEF DrillList, CopyInv
<1>15. ASSUME NEW r \in Others, NEW s \in Storages, DoctorList(r, s) PROVE CopyInv'
  BY <1>15 DEF DoctorList, CopyInv
<1>16. ASSUME NEW r \in Others, NEW s \in Storages, DeepHold(r, s) PROVE CopyInv'
  BY <1>16 DEF DeepHold, CopyInv
<1>17. CASE PruneEnter
  BY <1>17 DEF PruneEnter, CopyInv
<1>18. CASE PruneRead
  BY <1>18 DEF PruneRead, CopyInv
<1>19. CASE PrunePlan
  BY <1>19 DEF PrunePlan, CopyInv
<1>22. ASSUME NEW d \in Storages, PruneLeave(d) PROVE CopyInv'
  BY <1>22 DEF PruneLeave, CopyInv
<1>23. ASSUME NEW d \in Storages, NEW x \in Rev, Delete(d, x) PROVE CopyInv'
  <2>1. CASE d = Primary
    <3>1. PICK y \in has[Primary] \ now[Primary] : y[1] = x[1] /\ y[2] > x[2]
      BY <1>23, <2>1 DEF Delete, PlanInv, GateInv
    <3>2. /\ has'[Primary] = has[Primary] \ {x} /\ y # x
          /\ \A t \in Targets : has'[t] = has[t]
          /\ UNCHANGED <<rpc, reg, need, listed, newest>>
      BY <1>23, <2>1, <3>1 DEF Delete
    <3>3. ASSUME NEW t \in Targets
          PROVE  CopyOK(has'[Primary], has[t], rpc[t], reg[t], need[t], listed[t], newest[t])
      <4>1. CopyOK(has[Primary], has[t], rpc[t], reg[t], need[t], listed[t], newest[t])
        BY DEF CopyInv
      <4>2. newest[t] \in [IDs -> 0..MaxRev] /\ has[Primary] \in SUBSET Rev
        OBVIOUS
      <4> QED
        BY <3>1, <3>2, <4>1, <4>2, CopyPruned
    <3> QED
      BY <3>2, <3>3 DEF CopyInv
  <2>2. CASE d # Primary
    <3>1. d \in Targets /\ rpc[d] = "upkeep"
      BY <1>23, <2>2 DEF Delete, ReaderInv
    <3>2. /\ has'[Primary] = has[Primary]
          /\ \A t \in Targets \ {d} : has'[t] = has[t]
          /\ UNCHANGED <<rpc, reg, need, listed, newest>>
      BY <1>23, <2>2 DEF Delete
    <3>3. CopyOK(has[Primary], has'[d], rpc[d], reg[d], need[d], listed[d], newest[d])
      BY <3>1 DEF CopyOK
    <3> QED
      BY <3>1, <3>2, <3>3 DEF CopyInv
  <2> QED
    BY <2>1, <2>2
<1>24. ASSUME NEW t \in Targets, MirrorEnter(t) PROVE CopyInv'
  BY <1>24 DEF MirrorEnter, CopyInv
<1>25. ASSUME NEW t \in Targets, MirrorListLocal(t) PROVE CopyInv'
  BY <1>25 DEF MirrorListLocal, CopyInv
<1>26. ASSUME NEW t \in Targets, NEW allow \in BOOLEAN, MirrorPlanStep(t, allow) PROVE CopyInv'
  BY <1>26 DEF MirrorPlanStep, CopyInv
<1>27. CASE ForgetStop
  BY <1>27 DEF ForgetStop, CopyInv
<1>28. ASSUME NEW i \in IDs, ForgetPlan(i) PROVE CopyInv'
  BY <1>28 DEF ForgetPlan, CopyInv
<1>29. ASSUME NEW s \in Storages, ForgetEnter(s) PROVE CopyInv'
  BY <1>29 DEF ForgetEnter, CopyInv
<1>30. ASSUME NEW s \in Storages, ForgetRead(s) PROVE CopyInv'
  BY <1>30 DEF ForgetRead, CopyInv
<1>31. ASSUME NEW s \in Storages, ForgetList(s) PROVE CopyInv'
  BY <1>31 DEF ForgetList, CopyInv
<1>32. ASSUME NEW s \in Storages, ForgetNext(s) PROVE CopyInv'
  BY <1>32 DEF ForgetNext, CopyInv
<1>33. ASSUME NEW s \in Storages, NEW x \in Rev, ForgetDelete(s, x) PROVE CopyInv'
  <2>0. x[1] \in fid /\ x[1] \notin Configured
    BY <1>33 DEF ForgetDelete, ForgetInv
  <2>1. UNCHANGED <<rpc, reg, need, listed, newest>>
    BY <1>33 DEF ForgetDelete
  <2>2. CASE s = Primary
    <3>1. has'[Primary] = has[Primary] \ {x} /\ \A t \in Targets : has'[t] = has[t]
      BY <1>33, <2>2 DEF ForgetDelete
    <3>2. ASSUME NEW t \in Targets
          PROVE  CopyOK(has'[Primary], has[t], rpc[t], reg[t], need[t], listed[t], newest[t])
      <4>1. CopyOK(has[Primary], has[t], rpc[t], reg[t], need[t], listed[t], newest[t])
        BY DEF CopyInv
      <4> QED
        BY <2>0, <3>1, <4>1, CopyForgot
    <3> QED
      BY <2>1, <3>1, <3>2 DEF CopyInv
  <2>3. CASE s # Primary
    <3>1. x \notin has[Primary]
      BY <1>33, <2>0, <2>3 DEF ForgetDelete, ForgetInv
    <3>2. /\ s \in Targets /\ has'[Primary] = has[Primary] /\ has'[s] = has[s] \ {x}
          /\ \A t \in Targets \ {s} : has'[t] = has[t]
      BY <1>33, <2>3 DEF ForgetDelete
    <3>3. CopyOK(has[Primary], has[s], rpc[s], reg[s], need[s], listed[s], newest[s])
      BY <3>2 DEF CopyInv
    <3>4. CopyOK(has[Primary], has'[s], rpc[s], reg[s], need[s], listed[s], newest[s])
      <4>1. has[Primary] \ has'[s] = has[Primary] \ has[s]
        BY <3>1, <3>2
      <4> QED
        BY <3>3, <4>1 DEF CopyOK
    <3> QED
      BY <2>1, <3>2, <3>4 DEF CopyInv
  <2> QED
    BY <2>2, <2>3
<1>34. CASE Restart
  BY <1>34 DEF Restart, CopyInv, CopyOK
<1>35. CASE UNCHANGED vars
  BY <1>35 DEF vars, CopyInv
<1> QED
  BY <1>1, <1>2, <1>3, <1>4, <1>5, <1>6, <1>7, <1>8, <1>9, <1>10, <1>11, <1>12, <1>13,
     <1>14, <1>15, <1>16, <1>17, <1>18, <1>19, <1>22, <1>23, <1>24, <1>25,
     <1>26, <1>27, <1>28, <1>29, <1>30, <1>31, <1>32, <1>33, <1>34, <1>35 DEF Next,
     CopyNext, ReaderNext, PruneNext, ForgetStep

\* While a gate is held exclusively, the registrations on its storage only shrink.
Shrinks ==
    \A s \in Storages : excl[s] # Nobody =>
        \A r \in Readers : \A x \in Rev :
            on'[r] = s /\ HeldBy(reg'[r], x) => on[r] = s /\ HeldBy(reg[r], x)

\* No step registers anything on a storage a deleter works on.
LEMMA HeldShrinks == IndInv /\ [Next]_vars => Shrinks
<1> SUFFICES ASSUME IndInv, [Next]_vars
             PROVE  Shrinks
  OBVIOUS
<1> USE Sets DEF gateVars, readerVars, prunerVars, forgetVars, IndInv, TypeOK
<1>1. ASSUME NEW i \in IDs, Backup(i) PROVE Shrinks
  BY <1>1 DEF Backup, Shrinks
<1>2. ASSUME NEW t \in Targets, ListLocal(t) PROVE Shrinks
  BY <1>2 DEF ListLocal, Shrinks
<1>3. ASSUME NEW t \in Targets, HoldAll(t) PROVE Shrinks
  <2>1. excl[Primary] = Nobody /\ on[t] = Primary
    BY <1>3 DEF HoldAll, ReaderInv, GateInv
  <2> QED
    BY <1>3, <2>1 DEF HoldAll, Shrinks
<1>4. ASSUME NEW t \in Targets, Narrow(t) PROVE Shrinks
  <2> DEFINE missing == listed[t] \ has[t]
  <2>0. /\ missing \in SUBSET Rev /\ missing \subseteq listed[t] /\ listed[t] \in SUBSET Rev
        /\ newest[t] \in [IDs -> 0..MaxRev] /\ IsListedNewest(newest[t], listed[t])
        /\ reg[t] = CopyEntries(listed[t], newest[t])
        /\ reg' = [reg EXCEPT ![t] = CopyEntries(missing, newest[t])] /\ on' = on
    BY <1>4 DEF Narrow, CopyInv, CopyOK
  <2>1. \A x \in Rev : HeldBy(CopyEntries(missing, newest[t]), x) => HeldBy(reg[t], x)
    <3> HIDE DEF missing
    <3> QED
      BY <2>0, NarrowShrinks
  <2> HIDE DEF missing
  <2> QED
    BY <2>0, <2>1 DEF Shrinks
<1>5. ASSUME NEW t \in Targets, StartCopy(t) PROVE Shrinks
  BY <1>5 DEF StartCopy, Shrinks
<1>6. ASSUME NEW t \in Targets, CopyDone(t) PROVE Shrinks
  BY <1>6 DEF CopyDone, Shrinks
<1>7. ASSUME NEW t \in Targets, PassEnd(t) PROVE Shrinks
  BY <1>7, NothingCovered DEF PassEnd, Shrinks
<1>8. ASSUME NEW t \in Targets, NEW x \in Rev, CopyOne(t, x) PROVE Shrinks
  BY <1>8 DEF CopyOne, Shrinks
<1>9. ASSUME NEW r \in Others, ReaderHold(r) PROVE Shrinks
  <2>1. excl[on[r]] = Nobody
    BY <1>9 DEF ReaderHold, ReaderInv, GateInv
  <2> QED
    BY <1>9, <2>1 DEF ReaderHold, Shrinks
<1>10. ASSUME NEW r \in Others, StartRead(r) PROVE Shrinks
  BY <1>10 DEF StartRead, Shrinks
<1>11. ASSUME NEW r \in Others, ReadEnd(r) PROVE Shrinks
  BY <1>11, NothingCovered DEF ReadEnd, Shrinks
<1>12. ASSUME NEW r \in Others, KilledReading(r) PROVE Shrinks
  BY <1>12 DEF KilledReading, Shrinks
<1>13. ASSUME NEW r \in Others, NEW s \in Storages, NEW x \in Rev, RestoreHold(r, s, x) PROVE Shrinks
  BY <1>13 DEF RestoreHold, GateOpenShared, Shrinks
<1>14. ASSUME NEW r \in Others, NEW s \in Storages, NEW x \in Rev, DrillList(r, s, x) PROVE Shrinks
  BY <1>14 DEF DrillList, GateOpenShared, Shrinks
<1>15. ASSUME NEW r \in Others, NEW s \in Storages, DoctorList(r, s) PROVE Shrinks
  BY <1>15 DEF DoctorList, GateOpenShared, Shrinks
<1>16. ASSUME NEW r \in Others, NEW s \in Storages, DeepHold(r, s) PROVE Shrinks
  BY <1>16 DEF DeepHold, GateOpenShared, Shrinks
<1>17. CASE PruneEnter
  BY <1>17 DEF PruneEnter, Shrinks
<1>18. CASE PruneRead
  BY <1>18 DEF PruneRead, Shrinks
<1>19. CASE PrunePlan
  BY <1>19 DEF PrunePlan, Shrinks
<1>22. ASSUME NEW d \in Storages, PruneLeave(d) PROVE Shrinks
  BY <1>22 DEF PruneLeave, Shrinks
<1>23. ASSUME NEW d \in Storages, NEW x \in Rev, Delete(d, x) PROVE Shrinks
  BY <1>23 DEF Delete, Shrinks
<1>24. ASSUME NEW t \in Targets, MirrorEnter(t) PROVE Shrinks
  BY <1>24 DEF MirrorEnter, Shrinks
<1>25. ASSUME NEW t \in Targets, MirrorListLocal(t) PROVE Shrinks
  BY <1>25 DEF MirrorListLocal, Shrinks
<1>26. ASSUME NEW t \in Targets, NEW allow \in BOOLEAN, MirrorPlanStep(t, allow) PROVE Shrinks
  BY <1>26 DEF MirrorPlanStep, Shrinks
<1>27. CASE ForgetStop
  BY <1>27 DEF ForgetStop, Shrinks
<1>28. ASSUME NEW i \in IDs, ForgetPlan(i) PROVE Shrinks
  BY <1>28 DEF ForgetPlan, Shrinks
<1>29. ASSUME NEW s \in Storages, ForgetEnter(s) PROVE Shrinks
  BY <1>29 DEF ForgetEnter, Shrinks
<1>30. ASSUME NEW s \in Storages, ForgetRead(s) PROVE Shrinks
  BY <1>30 DEF ForgetRead, Shrinks
<1>31. ASSUME NEW s \in Storages, ForgetList(s) PROVE Shrinks
  BY <1>31 DEF ForgetList, Shrinks
<1>32. ASSUME NEW s \in Storages, ForgetNext(s) PROVE Shrinks
  BY <1>32 DEF ForgetNext, Shrinks
<1>33. ASSUME NEW s \in Storages, NEW x \in Rev, ForgetDelete(s, x) PROVE Shrinks
  BY <1>33 DEF ForgetDelete, Shrinks
<1>34. CASE Restart
  BY <1>34, NothingCovered DEF Restart, Shrinks
<1>35. CASE UNCHANGED vars
  BY <1>35 DEF vars, Shrinks
<1> QED
  BY <1>1, <1>2, <1>3, <1>4, <1>5, <1>6, <1>7, <1>8, <1>9, <1>10, <1>11, <1>12, <1>13,
     <1>14, <1>15, <1>16, <1>17, <1>18, <1>19, <1>22, <1>23, <1>24, <1>25,
     <1>26, <1>27, <1>28, <1>29, <1>30, <1>31, <1>32, <1>33, <1>34, <1>35 DEF Next,
     CopyNext, ReaderNext, PruneNext, ForgetStep

\* inuse.Read returns every live registration of the storage.
LEMMA ReadsAll ==
    ASSUME NEW r \in Readers, NEW x, HeldBy(reg[r], x)
    PROVE  Has(ReadRegistry(on[r]), x)
<1>1. reg[r] # {}
  BY NothingCovered
<1>2. reg[r] \in ReadRegistry(on[r])
  BY <1>1 DEF ReadRegistry
<1> QED
  BY <1>2 DEF Has

\* A plan stays good while its deleter rests: nobody registers behind its gate.
LEMMA PlanRests ==
    ASSUME IndInv, [Next]_vars,
           UNCHANGED <<dpc, busy, now>>, has[Primary] \subseteq has'[Primary]
    PROVE  PlanInv'
<1>1. Shrinks
  BY HeldShrinks
<1>2. \A d \in Storages : dpc[d] \in {"read", "deleting"} => excl[d] # Nobody
  BY Sets, ConstantsAssumption DEF IndInv, GateInv, Storages
<1>3. ASSUME NEW d \in Storages, dpc'[d] = "read", NEW r \in Readers, on'[r] = d,
             NEW x \in Rev, HeldBy(reg'[r], x)
      PROVE  Has(busy'[d], x)
  BY <1>1, <1>2, <1>3 DEF Shrinks, IndInv, PlanInv
<1>4. ASSUME NEW d \in Storages, dpc'[d] = "deleting", NEW r \in Readers, on'[r] = d,
             NEW x \in now'[d]
      PROVE  ~ HeldBy(reg'[r], x)
  <2>1. x \in Rev
    BY <1>4, Sets DEF IndInv, TypeOK
  <2> QED
    BY <1>1, <1>2, <1>4, <2>1 DEF Shrinks, IndInv, PlanInv
<1>5. ASSUME dpc'[Primary] = "deleting", NEW x \in now'[Primary]
      PROVE  \E y \in has'[Primary] \ now'[Primary] : y[1] = x[1] /\ y[2] > x[2]
  BY <1>5 DEF IndInv, PlanInv
<1>6. \A d \in Storages : dpc'[d] # "deleting" => now'[d] = {}
  BY DEF IndInv, PlanInv
<1> QED
  BY <1>3, <1>4, <1>5, <1>6 DEF PlanInv

\* Every step keeps the plans of the local prune and the mirror passes good.
LEMMA PlanStep == IndInv /\ [Next]_vars => PlanInv'
<1> SUFFICES ASSUME IndInv, [Next]_vars
             PROVE  PlanInv'
  OBVIOUS
<1> USE Sets DEF gateVars, readerVars, prunerVars, forgetVars, IndInv, TypeOK
<1>1. ASSUME NEW i \in IDs, Backup(i) PROVE PlanInv'
  BY <1>1, PlanRests DEF Backup
<1>2. ASSUME NEW t \in Targets, ListLocal(t) PROVE PlanInv'
  BY <1>2, PlanRests DEF ListLocal
<1>3. ASSUME NEW t \in Targets, HoldAll(t) PROVE PlanInv'
  BY <1>3, PlanRests DEF HoldAll
<1>4. ASSUME NEW t \in Targets, Narrow(t) PROVE PlanInv'
  BY <1>4, PlanRests DEF Narrow
<1>5. ASSUME NEW t \in Targets, StartCopy(t) PROVE PlanInv'
  BY <1>5, PlanRests DEF StartCopy
<1>6. ASSUME NEW t \in Targets, CopyDone(t) PROVE PlanInv'
  BY <1>6, PlanRests DEF CopyDone
<1>7. ASSUME NEW t \in Targets, PassEnd(t) PROVE PlanInv'
  BY <1>7, PlanRests DEF PassEnd
<1>8. ASSUME NEW t \in Targets, NEW x \in Rev, CopyOne(t, x) PROVE PlanInv'
  BY <1>8, PlanRests DEF CopyOne
<1>9. ASSUME NEW r \in Others, ReaderHold(r) PROVE PlanInv'
  BY <1>9, PlanRests DEF ReaderHold
<1>10. ASSUME NEW r \in Others, StartRead(r) PROVE PlanInv'
  BY <1>10, PlanRests DEF StartRead
<1>11. ASSUME NEW r \in Others, ReadEnd(r) PROVE PlanInv'
  BY <1>11, PlanRests DEF ReadEnd
<1>12. ASSUME NEW r \in Others, KilledReading(r) PROVE PlanInv'
  BY <1>12, PlanRests DEF KilledReading
<1>13. ASSUME NEW r \in Others, NEW s \in Storages, NEW x \in Rev, RestoreHold(r, s, x) PROVE PlanInv'
  BY <1>13, PlanRests DEF RestoreHold
<1>14. ASSUME NEW r \in Others, NEW s \in Storages, NEW x \in Rev, DrillList(r, s, x) PROVE PlanInv'
  BY <1>14, PlanRests DEF DrillList
<1>15. ASSUME NEW r \in Others, NEW s \in Storages, DoctorList(r, s) PROVE PlanInv'
  BY <1>15, PlanRests DEF DoctorList
<1>16. ASSUME NEW r \in Others, NEW s \in Storages, DeepHold(r, s) PROVE PlanInv'
  BY <1>16, PlanRests DEF DeepHold
<1>17. CASE PruneEnter
  BY <1>17 DEF PruneEnter, PlanInv, GateInv
<1>18. CASE PruneRead
  <2>1. \A r \in Readers : on[r] = Primary => \A x \in Rev : HeldBy(reg[r], x) => Has(ReadRegistry(Primary), x)
    BY ReadsAll
  <2> QED
    BY <1>18, <2>1 DEF PruneRead, PlanInv
<1>19. CASE PrunePlan
  <2>1. PICK f \in [IDs -> 0..MaxRev] :
          /\ IsListedNewest(f, has[Primary])
          /\ \E planned \in SUBSET {x \in has[Primary] : x[2] < f[x[1]]} :
                now' = [now EXCEPT ![Primary] = {x \in planned : ~ Has(busy[Primary], x)}]
    BY <1>19 DEF PrunePlan
  <2>2. PICK planned \in SUBSET {x \in has[Primary] : x[2] < f[x[1]]} :
            now' = [now EXCEPT ![Primary] = {x \in planned : ~ Has(busy[Primary], x)}]
    BY <2>1
  <2>3. /\ now'[Primary] = {x \in planned : ~ Has(busy[Primary], x)}
        /\ \A d \in Storages \ {Primary} : now'[d] = now[d] /\ busy'[d] = busy[d] /\ dpc'[d] = dpc[d]
        /\ dpc[Primary] = "read" /\ dpc'[Primary] = "deleting" /\ UNCHANGED <<has, on, reg>>
    BY <1>19, <2>2 DEF PrunePlan
  <2>4. \A r \in Readers : on[r] = Primary => \A x \in now'[Primary] : ~ HeldBy(reg[r], x)
    BY <2>2, <2>3 DEF PlanInv
  <2>5. ASSUME NEW x \in now'[Primary]
        PROVE  \E y \in has[Primary] \ now'[Primary] : y[1] = x[1] /\ y[2] > x[2]
    <3>1. x \in has[Primary] /\ x \in Rev /\ x[1] \in IDs /\ x[2] \in Nat /\ x[2] < f[x[1]]
      BY <2>2, <2>3 DEF Rev
    <3>2. <<x[1], f[x[1]]>> \in has[Primary]
      <4>1. x \in ByID(has[Primary], x[1])
        BY <3>1 DEF ByID
      <4> QED
        BY <2>1, <3>1, <4>1 DEF IsListedNewest
    <3>3. <<x[1], f[x[1]]>> \notin now'[Primary]
      <4>1. ~ (<<x[1], f[x[1]]>>[2] < f[<<x[1], f[x[1]]>>[1]])
        BY <3>1
      <4> QED
        BY <2>2, <2>3, <4>1
    <3> QED
      BY <3>1, <3>2, <3>3
  <2> QED
    BY <2>3, <2>4, <2>5 DEF PlanInv
<1>22. ASSUME NEW d \in Storages, PruneLeave(d) PROVE PlanInv'
  BY <1>22 DEF PruneLeave, PlanInv
<1>23. ASSUME NEW d \in Storages, NEW x \in Rev, Delete(d, x) PROVE PlanInv'
  <2>1. /\ has' = [has EXCEPT ![d] = @ \ {x}] /\ now' = [now EXCEPT ![d] = @ \ {x}]
        /\ x \in now[d] /\ UNCHANGED <<dpc, busy, on, reg>>
    BY <1>23 DEF Delete
  <2>2. \A e \in Storages : now'[e] \subseteq now[e]
    BY <2>1
  <2>3. ASSUME dpc[Primary] = "deleting", NEW z \in now'[Primary]
        PROVE  \E y \in has'[Primary] \ now'[Primary] : y[1] = z[1] /\ y[2] > z[2]
    <3>1. PICK y \in has[Primary] \ now[Primary] : y[1] = z[1] /\ y[2] > z[2]
      BY <2>2, <2>3 DEF PlanInv
    <3> QED
      BY <2>1, <2>2, <3>1
  <2> QED
    BY <2>1, <2>2, <2>3 DEF PlanInv
<1>24. ASSUME NEW t \in Targets, MirrorEnter(t) PROVE PlanInv'
  BY <1>24 DEF MirrorEnter, PlanInv, GateInv
<1>25. ASSUME NEW t \in Targets, MirrorListLocal(t) PROVE PlanInv'
  <2>1. /\ dpc' = [dpc EXCEPT ![t] = "listed"] /\ dpc[t] = "gated" /\ t # Primary
        /\ UNCHANGED <<has, on, reg, busy, now>>
    BY <1>25 DEF MirrorListLocal
  <2>2. \A d \in Storages : dpc'[d] \in {"read", "deleting"} => dpc'[d] = dpc[d]
    BY <2>1
  <2>3. \A d \in Storages : dpc'[d] # "deleting" => dpc[d] # "deleting"
    BY <2>1
  <2> QED
    BY <2>1, <2>2, <2>3 DEF PlanInv
<1>26. ASSUME NEW t \in Targets, NEW allow \in BOOLEAN, MirrorPlanStep(t, allow) PROVE PlanInv'
  <2> DEFINE plan == PlanMirror(mlocal[t], has[t], Configured, allow)
  <2>1. /\ now' = [now EXCEPT ![t] = {x \in plan : ~ Has(ReadRegistry(t), x)}]
        /\ dpc' = [dpc EXCEPT ![t] = "deleting"] /\ UNCHANGED <<has, on, reg, busy>>
    BY <1>26 DEF MirrorPlanStep
  <2>2. \A r \in Readers : on[r] = t => \A x \in plan : HeldBy(reg[r], x) => Has(ReadRegistry(t), x)
    <3>1. plan \subseteq Rev
      BY DEF PlanMirror
    <3> HIDE DEF plan
    <3> QED
      BY <3>1, ReadsAll
  <2> HIDE DEF plan
  <2>3. t # Primary /\ t \in Storages
    OBVIOUS
  <2> QED
    BY <2>1, <2>2, <2>3 DEF PlanInv
<1>27. CASE ForgetStop
  BY <1>27 DEF ForgetStop, PlanInv
<1>28. ASSUME NEW i \in IDs, ForgetPlan(i) PROVE PlanInv'
  BY <1>28 DEF ForgetPlan, PlanInv
<1>29. ASSUME NEW s \in Storages, ForgetEnter(s) PROVE PlanInv'
  BY <1>29 DEF ForgetEnter, PlanInv
<1>30. ASSUME NEW s \in Storages, ForgetRead(s) PROVE PlanInv'
  BY <1>30 DEF ForgetRead, PlanInv
<1>31. ASSUME NEW s \in Storages, ForgetList(s) PROVE PlanInv'
  BY <1>31 DEF ForgetList, PlanInv
<1>32. ASSUME NEW s \in Storages, ForgetNext(s) PROVE PlanInv'
  BY <1>32 DEF ForgetNext, PlanInv
<1>33. ASSUME NEW s \in Storages, NEW x \in Rev, ForgetDelete(s, x) PROVE PlanInv'
  <2>1. /\ has' = [has EXCEPT ![s] = @ \ {x}] /\ now' = [now EXCEPT ![Forget] = @ \ {x}]
        /\ UNCHANGED <<dpc, busy, on, reg>> /\ excl[s] = Forget
    BY <1>33 DEF ForgetDelete
  <2>2. \A e \in Storages : now'[e] = now[e]
    BY <2>1
  <2>3. dpc[Primary] = "deleting" => s # Primary
    BY <2>1 DEF GateInv
  <2> QED
    BY <2>1, <2>2, <2>3 DEF PlanInv
<1>34. CASE Restart
  BY <1>34 DEF Restart, PlanInv
<1>35. CASE UNCHANGED vars
  BY <1>35, PlanRests DEF vars
<1> QED
  BY <1>1, <1>2, <1>3, <1>4, <1>5, <1>6, <1>7, <1>8, <1>9, <1>10, <1>11, <1>12, <1>13,
     <1>14, <1>15, <1>16, <1>17, <1>18, <1>19, <1>22, <1>23, <1>24, <1>25,
     <1>26, <1>27, <1>28, <1>29, <1>30, <1>31, <1>32, <1>33, <1>34, <1>35 DEF Next,
     CopyNext, ReaderNext, PruneNext, ForgetStep

\* A forget's plan stays good while forget rests, as a prune's does; only a
\* backup adds to local, and never a retired ID; a copy adds to a target whose
\* gate forget may hold, but only what local has, so not the ID forget is at.
LEMMA ForgetRests ==
    ASSUME IndInv, [Next]_vars,
           dpc'[Forget] = dpc[Forget], busy'[Forget] = busy[Forget],
           now'[Forget] = now[Forget], UNCHANGED <<fid, fleft>>,
           \A s \in Storages : excl'[s] = Forget <=> excl[s] = Forget,
           \A s \in Storages : \A x \in has'[s] \ has[s] :
               x[1] \in Configured \/ (s # Primary /\ x \in has[Primary])
    PROVE  ForgetInv'
<1> USE Sets DEF IndInv, TypeOK
<1>1. Shrinks
  BY HeldShrinks
<1>2. \A s \in Storages : excl[s] = Forget => excl[s] # Nobody
  OBVIOUS
<1>3. \A i \in fid : i \notin Configured
  OBVIOUS
<1>4. \A x \in has'[Primary] : x[1] \in fid => x \in has[Primary]
  BY <1>3
<1>5. ASSUME NEW s \in Storages, excl[s] = Forget, dpc[Forget] # "idle",
             NEW x \in has'[s], x[1] \in fid
      PROVE  x \in has[s]
  <2>1. s \in fleft /\ (Primary \in fleft => s = Primary)
    BY <1>5 DEF ForgetInv
  <2>2. CASE s = Primary
    BY <1>4, <1>5, <2>2
  <2>3. CASE s # Primary
    <3>1. \A z \in has[Primary] : z[1] \notin fid
      BY <2>1, <2>3 DEF ForgetInv
    <3> QED
      BY <1>3, <1>5, <3>1
  <2> QED
    BY <2>2, <2>3
<1>6. ASSUME NEW s \in Storages, excl[s] = Forget, dpc[Forget] = "deleting",
             NEW r \in Readers, on'[r] = s, NEW x \in now[Forget]
      PROVE  ~ HeldBy(reg'[r], x)
  BY <1>1, <1>2, <1>6 DEF Shrinks, ForgetInv
<1>7. ASSUME NEW s \in Storages, excl[s] = Forget, dpc[Forget] = "read",
             NEW r \in Readers, on'[r] = s, NEW x \in Rev, HeldBy(reg'[r], x)
      PROVE  Has(busy[Forget], x)
  BY <1>1, <1>2, <1>7 DEF Shrinks, ForgetInv
<1> QED
  BY <1>4, <1>5, <1>6, <1>7 DEF ForgetInv

\* Every step keeps forget's plan good.
LEMMA ForgetKept == IndInv /\ [Next]_vars => ForgetInv'
<1> SUFFICES ASSUME IndInv, [Next]_vars
             PROVE  ForgetInv'
  OBVIOUS
<1> USE Sets DEF gateVars, readerVars, prunerVars, forgetVars, IndInv, TypeOK
<1>1. ASSUME NEW i \in IDs, Backup(i) PROVE ForgetInv'
  <2>1. PICK n \in 1..MaxRev : has' = [has EXCEPT ![Primary] = @ \cup {<<i, n>>}]
    BY <1>1 DEF Backup
  <2>2. \A s \in Storages : \A x \in has'[s] \ has[s] : x[1] \in Configured
    BY <1>1, <2>1 DEF Backup
  <2> QED
    BY <1>1, <2>2, ForgetRests DEF Backup
<1>2. ASSUME NEW t \in Targets, ListLocal(t) PROVE ForgetInv'
  BY <1>2, ForgetRests DEF ListLocal
<1>3. ASSUME NEW t \in Targets, HoldAll(t) PROVE ForgetInv'
  BY <1>3, ForgetRests DEF HoldAll
<1>4. ASSUME NEW t \in Targets, Narrow(t) PROVE ForgetInv'
  BY <1>4, ForgetRests DEF Narrow
<1>5. ASSUME NEW t \in Targets, StartCopy(t) PROVE ForgetInv'
  BY <1>5, ForgetRests DEF StartCopy
<1>6. ASSUME NEW t \in Targets, CopyDone(t) PROVE ForgetInv'
  BY <1>6, ForgetRests DEF CopyDone
<1>7. ASSUME NEW t \in Targets, PassEnd(t) PROVE ForgetInv'
  BY <1>7, ForgetRests DEF PassEnd
<1>8. ASSUME NEW t \in Targets, NEW x \in Rev, CopyOne(t, x) PROVE ForgetInv'
  <2>1. x \in has[Primary]
    BY <1>8 DEF CopyOne, ReaderInv, InUseKept
  <2> QED
    BY <1>8, <2>1, ForgetRests DEF CopyOne
<1>9. ASSUME NEW r \in Others, ReaderHold(r) PROVE ForgetInv'
  BY <1>9, ForgetRests DEF ReaderHold
<1>10. ASSUME NEW r \in Others, StartRead(r) PROVE ForgetInv'
  BY <1>10, ForgetRests DEF StartRead
<1>11. ASSUME NEW r \in Others, ReadEnd(r) PROVE ForgetInv'
  BY <1>11, ForgetRests DEF ReadEnd
<1>12. ASSUME NEW r \in Others, KilledReading(r) PROVE ForgetInv'
  BY <1>12, ForgetRests DEF KilledReading
<1>13. ASSUME NEW r \in Others, NEW s \in Storages, NEW x \in Rev, RestoreHold(r, s, x) PROVE ForgetInv'
  BY <1>13, ForgetRests DEF RestoreHold
<1>14. ASSUME NEW r \in Others, NEW s \in Storages, NEW x \in Rev, DrillList(r, s, x) PROVE ForgetInv'
  BY <1>14, ForgetRests DEF DrillList
<1>15. ASSUME NEW r \in Others, NEW s \in Storages, DoctorList(r, s) PROVE ForgetInv'
  BY <1>15, ForgetRests DEF DoctorList
<1>16. ASSUME NEW r \in Others, NEW s \in Storages, DeepHold(r, s) PROVE ForgetInv'
  BY <1>16, ForgetRests DEF DeepHold
<1>17. CASE PruneEnter
  BY <1>17, ForgetRests DEF PruneEnter, GateOpenExcl
<1>18. CASE PruneRead
  BY <1>18, ForgetRests DEF PruneRead
<1>19. CASE PrunePlan
  BY <1>19, ForgetRests DEF PrunePlan
<1>22. ASSUME NEW d \in Storages, PruneLeave(d) PROVE ForgetInv'
  BY <1>22, ForgetRests DEF PruneLeave, GateInv
<1>23. ASSUME NEW d \in Storages, NEW x \in Rev, Delete(d, x) PROVE ForgetInv'
  BY <1>23, ForgetRests DEF Delete
<1>24. ASSUME NEW t \in Targets, MirrorEnter(t) PROVE ForgetInv'
  BY <1>24, ForgetRests DEF MirrorEnter, GateOpenExcl
<1>25. ASSUME NEW t \in Targets, MirrorListLocal(t) PROVE ForgetInv'
  BY <1>25, ForgetRests DEF MirrorListLocal
<1>26. ASSUME NEW t \in Targets, NEW allow \in BOOLEAN, MirrorPlanStep(t, allow) PROVE ForgetInv'
  BY <1>26, ForgetRests DEF MirrorPlanStep
<1>27. CASE ForgetStop
  BY <1>27 DEF ForgetStop, ForgetInv
<1>28. ASSUME NEW i \in IDs, ForgetPlan(i) PROVE ForgetInv'
  <2>1. \A s \in Storages : excl[s] # Forget
    BY <1>28 DEF ForgetPlan, GateInv
  <2>2. Primary \notin fleft' => \A x \in has[Primary] : x[1] # i
    BY <1>28 DEF ForgetPlan, ByID
  <2> QED
    BY <1>28, <2>1, <2>2 DEF ForgetPlan, ForgetInv
<1>29. ASSUME NEW s \in Storages, ForgetEnter(s) PROVE ForgetInv'
  <2>1. \A u \in Storages : excl'[u] = Forget <=> u = s
    BY <1>29 DEF ForgetEnter, GateInv
  <2> QED
    BY <1>29, <2>1 DEF ForgetEnter, ForgetInv
<1>30. ASSUME NEW s \in Storages, ForgetRead(s) PROVE ForgetInv'
  <2>1. \A u \in Storages : excl[u] = Forget => u = s
    BY <1>30 DEF ForgetRead, GateInv
  <2>2. \A r \in Readers : on[r] = s =>
            \A x \in Rev : HeldBy(reg[r], x) => Has(ReadRegistry(s), x)
    BY ReadsAll
  <2> QED
    BY <1>30, <2>1, <2>2 DEF ForgetRead, ForgetInv
<1>31. ASSUME NEW s \in Storages, ForgetList(s) PROVE ForgetInv'
  <2>1. \A u \in Storages : excl[u] = Forget => u = s
    BY <1>31 DEF ForgetList, GateInv
  <2> DEFINE revs == {x \in has[s] : x[1] \in fid}
  <2>2. /\ now'[Forget] = revs /\ \A x \in revs : ~ Has(busy[Forget], x)
        /\ dpc[Forget] = "read" /\ dpc'[Forget] = "deleting" /\ excl[s] = Forget
        /\ UNCHANGED <<has, excl, on, reg, fid, fleft>>
    BY <1>31 DEF ForgetList
  <2>3. revs \subseteq Rev /\ \A x \in revs : x[1] \in fid
    OBVIOUS
  <2>4. \A r \in Readers : on[r] = s => \A x \in revs : ~ HeldBy(reg[r], x)
    <3> HIDE DEF revs
    <3> QED
      BY <2>2, <2>3 DEF ForgetInv
  <2> QED
    BY <2>1, <2>2, <2>3, <2>4 DEF ForgetInv
<1>32. ASSUME NEW s \in Storages, ForgetNext(s) PROVE ForgetInv'
  <2>1. \A u \in Storages : excl'[u] # Forget
    BY <1>32 DEF ForgetNext, GateInv
  <2>2. \A x \in has[s] : x[1] \notin fid
    BY <1>32 DEF ForgetNext, ForgetInv
  <2>3. fleft' # {} => fid' = fid
    BY <1>32 DEF ForgetNext
  <2>4. fleft' # {} /\ Primary \notin fleft' => \A x \in has'[Primary] : x[1] \notin fid'
    BY <1>32, <2>2, <2>3 DEF ForgetNext, ForgetInv
  <2> QED
    BY <1>32, <2>1, <2>4 DEF ForgetNext, ForgetInv
<1>33. ASSUME NEW s \in Storages, NEW x \in Rev, ForgetDelete(s, x) PROVE ForgetInv'
  <2>1. \A u \in Storages : excl[u] = Forget => u = s
    BY <1>33 DEF ForgetDelete, GateInv
  <2>2. \A u \in Storages : has'[u] \subseteq has[u]
    BY <1>33 DEF ForgetDelete
  <2> QED
    BY <1>33, <2>1, <2>2 DEF ForgetDelete, ForgetInv
<1>34. CASE Restart
  BY <1>34 DEF Restart, ForgetInv
<1>35. CASE UNCHANGED vars
  BY <1>35, ForgetRests DEF vars
<1> QED
  BY <1>1, <1>2, <1>3, <1>4, <1>5, <1>6, <1>7, <1>8, <1>9, <1>10, <1>11, <1>12, <1>13,
     <1>14, <1>15, <1>16, <1>17, <1>18, <1>19, <1>22, <1>23, <1>24, <1>25,
     <1>26, <1>27, <1>28, <1>29, <1>30, <1>31, <1>32, <1>33, <1>34, <1>35 DEF Next,
     CopyNext, ReaderNext, PruneNext, ForgetStep

\* No step takes from a storage what a reader of it needs.
LEMMA KeptStep == IndInv /\ [Next]_vars => InUseKept'
<1> SUFFICES ASSUME IndInv, [Next]_vars
             PROVE  InUseKept'
  OBVIOUS
<1> USE Sets DEF gateVars, readerVars, prunerVars, forgetVars, IndInv, TypeOK
<1>1. ASSUME NEW i \in IDs, Backup(i) PROVE InUseKept'
  <2>1. /\ \A s \in Storages : has[s] \subseteq has'[s]
        /\ UNCHANGED <<need, on>>
    BY <1>1 DEF Backup
  <2> QED
    BY <2>1 DEF InUseKept
<1>2. ASSUME NEW t \in Targets, ListLocal(t) PROVE InUseKept'
  BY <1>2 DEF ListLocal, InUseKept, ReaderInv
<1>3. ASSUME NEW t \in Targets, HoldAll(t) PROVE InUseKept'
  BY <1>3 DEF HoldAll, InUseKept, ReaderInv
<1>4. ASSUME NEW t \in Targets, Narrow(t) PROVE InUseKept'
  <2>1. need[t] = listed[t] /\ on[t] = Primary
    BY <1>4 DEF Narrow, CopyInv, CopyOK, ReaderInv
  <2>2. /\ need'[t] = listed[t] \ has[t] /\ UNCHANGED <<has, on>>
        /\ \A r \in Readers \ {t} : need'[r] = need[r]
    BY <1>4 DEF Narrow
  <2> QED
    BY <2>1, <2>2 DEF InUseKept
<1>5. ASSUME NEW t \in Targets, StartCopy(t) PROVE InUseKept'
  BY <1>5 DEF StartCopy, InUseKept, ReaderInv
<1>6. ASSUME NEW t \in Targets, CopyDone(t) PROVE InUseKept'
  BY <1>6 DEF CopyDone, InUseKept, ReaderInv
<1>7. ASSUME NEW t \in Targets, PassEnd(t) PROVE InUseKept'
  BY <1>7 DEF PassEnd, InUseKept, ReaderInv
<1>8. ASSUME NEW t \in Targets, NEW x \in Rev, CopyOne(t, x) PROVE InUseKept'
  <2>1. /\ \A s \in Storages : has[s] \subseteq has'[s]
        /\ \A r \in Readers : need'[r] \subseteq need[r]
        /\ UNCHANGED on
    BY <1>8 DEF CopyOne
  <2> QED
    BY <2>1 DEF InUseKept
<1>9. ASSUME NEW r \in Others, ReaderHold(r) PROVE InUseKept'
  BY <1>9 DEF ReaderHold, InUseKept, ReaderInv
<1>10. ASSUME NEW r \in Others, StartRead(r) PROVE InUseKept'
  BY <1>10 DEF StartRead, InUseKept, ReaderInv, ReadSet
<1>11. ASSUME NEW r \in Others, ReadEnd(r) PROVE InUseKept'
  BY <1>11 DEF ReadEnd, InUseKept, ReaderInv
<1>12. ASSUME NEW r \in Others, KilledReading(r) PROVE InUseKept'
  BY <1>12 DEF KilledReading, InUseKept, ReaderInv
<1>13. ASSUME NEW r \in Others, NEW s \in Storages, NEW x \in Rev, RestoreHold(r, s, x) PROVE InUseKept'
  BY <1>13 DEF RestoreHold, InUseKept, ReaderInv
<1>14. ASSUME NEW r \in Others, NEW s \in Storages, NEW x \in Rev, DrillList(r, s, x) PROVE InUseKept'
  BY <1>14 DEF DrillList, InUseKept, ReaderInv
<1>15. ASSUME NEW r \in Others, NEW s \in Storages, DoctorList(r, s) PROVE InUseKept'
  BY <1>15 DEF DoctorList, InUseKept, ReaderInv
<1>16. ASSUME NEW r \in Others, NEW s \in Storages, DeepHold(r, s) PROVE InUseKept'
  BY <1>16 DEF DeepHold, InUseKept, ReaderInv
<1>17. CASE PruneEnter
  BY <1>17 DEF PruneEnter, InUseKept
<1>18. CASE PruneRead
  BY <1>18 DEF PruneRead, InUseKept
<1>19. CASE PrunePlan
  BY <1>19 DEF PrunePlan, InUseKept
<1>22. ASSUME NEW d \in Storages, PruneLeave(d) PROVE InUseKept'
  BY <1>22 DEF PruneLeave, InUseKept
<1>23. ASSUME NEW d \in Storages, NEW x \in Rev, Delete(d, x) PROVE InUseKept'
  <2>1. SUFFICES ASSUME NEW r \in Readers, on[r] = d, x \in need[r]
                 PROVE  FALSE
    BY <1>23 DEF Delete, InUseKept
  <2>2. dpc[d] = "deleting" /\ excl[d] # Nobody
    BY <1>23 DEF Delete, GateInv
  <2>3. rpc[r] \notin {"idle", "listed"}
    BY <2>1, <2>2 DEF GateInv, ReaderInv
  <2> QED
    BY <1>23, <2>1, <2>2, <2>3 DEF Delete, CoverInv, PlanInv
<1>24. ASSUME NEW t \in Targets, MirrorEnter(t) PROVE InUseKept'
  BY <1>24 DEF MirrorEnter, InUseKept, ReaderInv
<1>25. ASSUME NEW t \in Targets, MirrorListLocal(t) PROVE InUseKept'
  BY <1>25 DEF MirrorListLocal, InUseKept
<1>26. ASSUME NEW t \in Targets, NEW allow \in BOOLEAN, MirrorPlanStep(t, allow) PROVE InUseKept'
  BY <1>26 DEF MirrorPlanStep, InUseKept
<1>27. CASE ForgetStop
  BY <1>27 DEF ForgetStop, InUseKept
<1>28. ASSUME NEW i \in IDs, ForgetPlan(i) PROVE InUseKept'
  BY <1>28 DEF ForgetPlan, InUseKept
<1>29. ASSUME NEW s \in Storages, ForgetEnter(s) PROVE InUseKept'
  BY <1>29 DEF ForgetEnter, InUseKept
<1>30. ASSUME NEW s \in Storages, ForgetRead(s) PROVE InUseKept'
  BY <1>30 DEF ForgetRead, InUseKept
<1>31. ASSUME NEW s \in Storages, ForgetList(s) PROVE InUseKept'
  BY <1>31 DEF ForgetList, InUseKept
<1>32. ASSUME NEW s \in Storages, ForgetNext(s) PROVE InUseKept'
  BY <1>32 DEF ForgetNext, InUseKept
<1>33. ASSUME NEW s \in Storages, NEW x \in Rev, ForgetDelete(s, x) PROVE InUseKept'
  <2>1. SUFFICES ASSUME NEW r \in Readers, on[r] = s, x \in need[r]
                 PROVE  FALSE
    BY <1>33 DEF ForgetDelete, InUseKept
  <2>2. rpc[r] \notin {"idle", "listed"}
    BY <1>33, <2>1 DEF ForgetDelete, GateInv, ReaderInv
  <2> QED
    BY <1>33, <2>1, <2>2 DEF ForgetDelete, CoverInv, ForgetInv
<1>34. CASE Restart
  BY <1>34 DEF Restart, InUseKept, ReaderInv
<1>35. CASE UNCHANGED vars
  BY <1>35 DEF vars, InUseKept
<1> QED
  BY <1>1, <1>2, <1>3, <1>4, <1>5, <1>6, <1>7, <1>8, <1>9, <1>10, <1>11, <1>12, <1>13,
     <1>14, <1>15, <1>16, <1>17, <1>18, <1>19, <1>22, <1>23, <1>24, <1>25,
     <1>26, <1>27, <1>28, <1>29, <1>30, <1>31, <1>32, <1>33, <1>34, <1>35 DEF Next,
     CopyNext, ReaderNext, PruneNext, ForgetStep

\* The invariant holds of a deployment before its processes start.
LEMMA IndInit == Init => IndInv
<1> SUFFICES ASSUME Init PROVE IndInv
  OBVIOUS
<1> USE Sets
<1>1. TypeOK
  BY TypeInit
<1>2. GateInv /\ ReaderInv /\ CoverInv /\ PlanInv /\ InUseKept
  BY DEF Init, GateInv, ReaderInv, CoverInv, PlanInv, InUseKept
<1>3. CopyInv
  BY DEF Init, CopyInv, CopyOK
<1>4. ForgetInv
  BY DEF Init, ForgetInv
<1> QED
  BY <1>1, <1>2, <1>3, <1>4 DEF IndInv

\* Every reachable state satisfies the invariant: the gates exclude, what a reader
\* needs is registered once it has left the gate, and no deleter's plan touches it.
THEOREM InUseInvariant == Spec => []IndInv
<1>1. Init => IndInv
  BY IndInit
<1>2. IndInv /\ [Next]_vars => IndInv'
  <2> SUFFICES ASSUME IndInv, [Next]_vars PROVE IndInv'
    OBVIOUS
  <2>1. TypeOK'
    BY TypeStep DEF IndInv
  <2>2. GateInv' /\ ReaderInv' /\ CoverInv'
    BY GateStep, ReaderStep, CoverStep
  <2>3. CopyInv' /\ PlanInv' /\ ForgetInv' /\ InUseKept'
    BY CopyStep, PlanStep, ForgetKept, KeptStep
  <2> QED
    BY <2>1, <2>2, <2>3 DEF IndInv
<1> QED
  BY <1>1, <1>2, PTL DEF Spec

\* InUseKept for every deployment: for any storages, IDs, readers and revisions,
\* no prune, mirror pass or forget deletes a revision that a reader has listed
\* or is reading, as long as no prune outlives the process that started it.
THEOREM InUseSafe ==
    Spec => []InUseKept
<1>1. IndInv => InUseKept
  BY DEF IndInv
<1> QED
  BY <1>1, InUseInvariant, PTL

-------------------------------------------------------------------------------
(* What deletions leave: targets follow local, and every ID keeps its newest *)

\* A set of naturals has a least element: well-foundedness stands in for induction.
LEMMA Least ==
    ASSUME NEW T \in SUBSET Nat, T # {}
    PROVE  \E x \in T : \A y \in T : x <= y
<1> DEFINE R == {ss \in Nat \X Nat : ss[1] < ss[2]}
<1>1. IsWellFoundedOn(R, Nat)
  BY NatLessThanWellFounded DEF OpToRel
<1>2. PICK x \in T : \A y \in T : ~ (<<y, x>> \in R)
  <2> HIDE DEF R
  <2> QED
    BY <1>1, WFMin
<1>3. \A y \in T : x <= y
  <2> SUFFICES ASSUME NEW y \in T PROVE x <= y
    OBVIOUS
  <2>1. x \in Nat /\ y \in Nat /\ <<y, x>> \in Nat \X Nat
    OBVIOUS
  <2>2. ~ (y < x)
    BY <1>2, <2>1
  <2> QED
    BY <2>1, <2>2
<1> QED
  BY <1>3

\* Every ID a listing has revisions of has a newest one.
LEMMA HasNewest ==
    ASSUME NEW revs \in SUBSET Rev, NEW x \in revs
    PROVE  \E z \in revs : z[1] = x[1] /\ z[2] >= x[2] /\ IsNewest(revs, z)
<1> DEFINE T == {MaxRev - y[2] : y \in ByID(revs, x[1])}
<1>1. MaxRev \in Nat
  BY Sets
<1>2. \A y \in ByID(revs, x[1]) : y \in revs /\ y[1] = x[1] /\ y[2] \in 1..MaxRev
  BY DEF ByID, Rev
<1>3. T \in SUBSET Nat
  BY <1>1, <1>2
<1>4. x \in ByID(revs, x[1])
  BY DEF ByID
<1>5. PICK n \in T : \A m \in T : n <= m
  <2>1. T # {}
    BY <1>4
  <2> HIDE DEF T
  <2> QED
    BY <1>3, <2>1, Least
<1>6. PICK z \in ByID(revs, x[1]) : n = MaxRev - z[2]
  BY <1>5
<1>7. \A y \in ByID(revs, x[1]) : y[2] <= z[2]
  <2> SUFFICES ASSUME NEW y \in ByID(revs, x[1]) PROVE y[2] <= z[2]
    OBVIOUS
  <2>1. n <= MaxRev - y[2]
    BY <1>5
  <2>2. y[2] \in Int /\ z[2] \in Int
    BY <1>2
  <2> QED
    BY <1>1, <1>6, <2>1, <2>2
<1>8. z \in revs /\ z[1] = x[1] /\ IsNewest(revs, z)
  BY <1>2, <1>6, <1>7 DEF IsNewest
<1> QED
  BY <1>1, <1>2, <1>4, <1>6, <1>7, <1>8

\* No target is ahead of local in an ID that is still backed up.
Follows ==
    \A t \in Targets : \A x \in has[t] :
        x[1] \in Configured => \E y \in has[Primary] : y[1] = x[1] /\ y[2] >= x[2]

\* A mirror pass has listed whatever local and the target both have, plans only what
\* local lacks, and leaves each ID of the target a newer revision than it deletes.
MirrorInv ==
    /\ Follows
    /\ \A t \in Targets : dpc[t] = "listed" => has[t] \cap has[Primary] \subseteq mlocal[t]
    /\ \A t \in Targets : dpc[t] = "deleting" =>
          /\ now[t] \subseteq has[t] /\ now[t] \cap has[Primary] = {}
          /\ \A x \in now[t] : x[1] \in Configured /\ \E y \in has[t] \ now[t] : y[1] = x[1] /\ y[2] > x[2]

\* Local has nothing of an ID that is forgotten, or that forget has left local behind for.
GoneInv == \A x \in has[Primary] : x[1] \notin done /\ (x[1] \in fid => Primary \in fleft)

\* The mirror passes' plans stay good while nothing is added or deleted, and no pass
\* lists or plans.
LEMMA MirrorRests ==
    ASSUME MirrorInv, has' = has,
           \A t \in Targets : \/ dpc'[t] = dpc[t] /\ now'[t] = now[t] /\ mlocal'[t] = mlocal[t]
                              \/ dpc'[t] \notin {"listed", "deleting"}
    PROVE  MirrorInv'
<1>1. Follows'
  BY DEF MirrorInv, Follows
<1>2. \A t \in Targets : dpc'[t] = "listed" => has'[t] \cap has'[Primary] \subseteq mlocal'[t]
  BY DEF MirrorInv
<1>3. \A t \in Targets : dpc'[t] = "deleting" =>
          /\ now'[t] \subseteq has'[t] /\ now'[t] \cap has'[Primary] = {}
          /\ \A x \in now'[t] : x[1] \in Configured /\ \E y \in has'[t] \ now'[t] : y[1] = x[1] /\ y[2] > x[2]
  <2> SUFFICES ASSUME NEW t \in Targets, dpc'[t] = "deleting"
               PROVE  /\ now'[t] \subseteq has'[t] /\ now'[t] \cap has'[Primary] = {}
                      /\ \A x \in now'[t] : /\ x[1] \in Configured 
                                            /\ \E y \in has'[t] \ now'[t] : y[1] = x[1] /\ y[2] > x[2]
    OBVIOUS
  <2>1. dpc[t] = "deleting" /\ now'[t] = now[t]
    OBVIOUS
  <2> QED
    BY <2>1 DEF MirrorInv
<1> QED
  BY <1>1, <1>2, <1>3 DEF MirrorInv

\* Every step keeps targets behind local and the mirror passes' plans good.
LEMMA MirrorStep == IndInv /\ MirrorInv /\ [Next]_vars => MirrorInv'
<1> SUFFICES ASSUME IndInv, MirrorInv, [Next]_vars
             PROVE  MirrorInv'
  OBVIOUS
<1> USE Sets DEF gateVars, readerVars, prunerVars, forgetVars
<1>0. TypeOK
  BY DEF IndInv
<1>1. ASSUME NEW i \in IDs, Backup(i) PROVE MirrorInv'
  <2>0. i \in Configured
    BY <1>1 DEF Backup
  <2>1. PICK n \in 1..MaxRev :
            /\ \A x \in ByID(has[Primary], i) : x[2] < n
            /\ has' = [has EXCEPT ![Primary] = @ \cup {<<i, n>>}]
    BY <1>1 DEF Backup
  <2>2. /\ has'[Primary] = has[Primary] \cup {<<i, n>>} /\ UNCHANGED <<dpc, now, mlocal>>
        /\ \A t \in Targets : has'[t] = has[t]
    BY <1>0, <1>1, <2>1 DEF TypeOK, Backup
  <2>3. \A t \in Targets : <<i, n>> \notin has[t]
    <3> SUFFICES ASSUME NEW t \in Targets, <<i, n>> \in has[t] PROVE FALSE
      OBVIOUS
    <3>1. PICK y \in has[Primary] : y[1] = i /\ y[2] >= n
      BY <2>0 DEF MirrorInv, Follows
    <3>2. y[2] \in Nat /\ n \in Nat /\ y[2] < n
      BY <1>0, <2>1, <3>1 DEF TypeOK, Rev, ByID
    <3> QED
      BY <3>1, <3>2
  <2>4. Follows'
    BY <2>2 DEF MirrorInv, Follows
  <2>5. \A t \in Targets : has'[t] \cap has'[Primary] = has[t] \cap has[Primary]
    BY <2>2, <2>3
  <2>6. \A t \in Targets : dpc[t] = "deleting" => now[t] \cap has'[Primary] = {}
    BY <2>2, <2>3 DEF MirrorInv
  <2> QED
    BY <2>2, <2>4, <2>5, <2>6 DEF MirrorInv
<1>2. ASSUME NEW t \in Targets, ListLocal(t) PROVE MirrorInv'
  BY <1>2, MirrorRests DEF ListLocal
<1>3. ASSUME NEW t \in Targets, HoldAll(t) PROVE MirrorInv'
  BY <1>3, MirrorRests DEF HoldAll
<1>4. ASSUME NEW t \in Targets, Narrow(t) PROVE MirrorInv'
  BY <1>4, MirrorRests DEF Narrow
<1>5. ASSUME NEW t \in Targets, StartCopy(t) PROVE MirrorInv'
  BY <1>5, MirrorRests DEF StartCopy
<1>6. ASSUME NEW t \in Targets, CopyDone(t) PROVE MirrorInv'
  BY <1>6, MirrorRests DEF CopyDone
<1>7. ASSUME NEW t \in Targets, PassEnd(t) PROVE MirrorInv'
  BY <1>7, MirrorRests DEF PassEnd
<1>8. ASSUME NEW t \in Targets, NEW x \in Rev, CopyOne(t, x) PROVE MirrorInv'
  <2>1. /\ x \in has[Primary] /\ dpc[t] = "idle"
    BY <1>8 DEF CopyOne, IndInv, InUseKept, ReaderInv
  <2>2. /\ has'[t] = has[t] \cup {x} /\ UNCHANGED <<dpc, now, mlocal>>
        /\ \A s \in Storages \ {t} : has'[s] = has[s]
    BY <1>0, <1>8 DEF CopyOne, TypeOK
  <2>3. x[2] \in Nat
    BY DEF Rev
  <2>4. Follows'
    <3> SUFFICES ASSUME NEW u \in Targets, NEW z \in has'[u], z[1] \in Configured
                 PROVE  \E y \in has'[Primary] : y[1] = z[1] /\ y[2] >= z[2]
      BY DEF Follows
    <3>1. has'[Primary] = has[Primary]
      BY <2>2
    <3>2. CASE z \in has[u]
      BY <3>1, <3>2 DEF MirrorInv, Follows
    <3>3. CASE z \notin has[u]
      <4>1. z = x
        BY <2>2, <3>3
      <4> QED
        BY <2>1, <2>3, <3>1, <4>1
    <3> QED
      BY <3>2, <3>3
  <2> QED
    BY <2>1, <2>2, <2>4 DEF MirrorInv
<1>9. ASSUME NEW r \in Others, ReaderHold(r) PROVE MirrorInv'
  BY <1>9, MirrorRests DEF ReaderHold
<1>10. ASSUME NEW r \in Others, StartRead(r) PROVE MirrorInv'
  BY <1>10, MirrorRests DEF StartRead
<1>11. ASSUME NEW r \in Others, ReadEnd(r) PROVE MirrorInv'
  BY <1>11, MirrorRests DEF ReadEnd
<1>12. ASSUME NEW r \in Others, KilledReading(r) PROVE MirrorInv'
  BY <1>12, MirrorRests DEF KilledReading
<1>13. ASSUME NEW r \in Others, NEW s \in Storages, NEW x \in Rev, RestoreHold(r, s, x) PROVE MirrorInv'
  BY <1>13, MirrorRests DEF RestoreHold
<1>14. ASSUME NEW r \in Others, NEW s \in Storages, NEW x \in Rev, DrillList(r, s, x) PROVE MirrorInv'
  BY <1>14, MirrorRests DEF DrillList
<1>15. ASSUME NEW r \in Others, NEW s \in Storages, DoctorList(r, s) PROVE MirrorInv'
  BY <1>15, MirrorRests DEF DoctorList
<1>16. ASSUME NEW r \in Others, NEW s \in Storages, DeepHold(r, s) PROVE MirrorInv'
  BY <1>16, MirrorRests DEF DeepHold
<1>17. CASE PruneEnter
  BY <1>0, <1>17, MirrorRests DEF PruneEnter, TypeOK
<1>18. CASE PruneRead
  BY <1>0, <1>18, MirrorRests DEF PruneRead, TypeOK
<1>19. CASE PrunePlan
  <2>1. \A t \in Targets : now'[t] = now[t]
    BY <1>0, <1>19 DEF PrunePlan, TypeOK
  <2> QED
    BY <1>0, <1>19, <2>1, MirrorRests DEF PrunePlan, TypeOK
<1>22. ASSUME NEW d \in Storages, PruneLeave(d) PROVE MirrorInv'
  <2>1. \A t \in Targets : \/ dpc'[t] = dpc[t] /\ now'[t] = now[t] /\ mlocal'[t] = mlocal[t]
                           \/ dpc'[t] = "idle"
    BY <1>0, <1>22 DEF PruneLeave, TypeOK
  <2> QED
    BY <1>22, <2>1, MirrorRests DEF PruneLeave
<1>23. ASSUME NEW d \in Storages, NEW x \in Rev, Delete(d, x) PROVE MirrorInv'
  <2>1. /\ has'[d] = has[d] \ {x} /\ now'[d] = now[d] \ {x} /\ x \in now[d] /\ UNCHANGED <<dpc, mlocal>>
        /\ \A s \in Storages \ {d} : has'[s] = has[s] /\ now'[s] = now[s]
        /\ \A s \in Storages : has'[s] \subseteq has[s]
        /\ dpc[d] = "deleting"
    BY <1>0, <1>23 DEF Delete, TypeOK, IndInv, GateInv
  <2>2. Follows'
    <3> SUFFICES ASSUME NEW u \in Targets, NEW z \in has'[u], z[1] \in Configured
                 PROVE  \E y \in has'[Primary] : y[1] = z[1] /\ y[2] >= z[2]
      BY DEF Follows
    <3>1. PICK y \in has[Primary] : y[1] = z[1] /\ y[2] >= z[2]
      BY <2>1 DEF MirrorInv, Follows
    <3>2. CASE y \in has'[Primary]
      BY <3>1, <3>2
    <3>3. CASE y \notin has'[Primary]
      <4>1. d = Primary /\ y = x
        BY <2>1, <3>3
      <4>2. PICK w \in has[Primary] \ now[Primary] : w[1] = x[1] /\ w[2] > x[2]
        BY <2>1, <4>1 DEF IndInv, PlanInv
      <4>3. w \in has'[Primary]
        BY <2>1, <4>1
      <4>4. w[2] \in Nat /\ x[2] \in Nat /\ z[2] \in Nat
        BY <1>0, <2>1 DEF TypeOK, Rev
      <4> QED
        BY <3>1, <4>1, <4>2, <4>3, <4>4
    <3> QED
      BY <3>2, <3>3
  <2>3. \A t \in Targets : dpc'[t] = "listed" => has'[t] \cap has'[Primary] \subseteq mlocal'[t]
    BY <2>1 DEF MirrorInv
  <2>4. ASSUME NEW t \in Targets, dpc'[t] = "deleting"
        PROVE  /\ now'[t] \subseteq has'[t] /\ now'[t] \cap has'[Primary] = {}
               /\ \A z \in now'[t] : z[1] \in Configured /\ \E y \in has'[t] \ now'[t] : y[1] = z[1] /\ y[2] > z[2]
    <3>1. /\ now[t] \subseteq has[t] /\ now[t] \cap has[Primary] = {}
          /\ \A z \in now[t] : z[1] \in Configured /\ \E y \in has[t] \ now[t] : y[1] = z[1] /\ y[2] > z[2]
      BY <2>1, <2>4 DEF MirrorInv
    <3>2. now'[t] \subseteq now[t] /\ has[t] \ now[t] \subseteq has'[t] \ now'[t] /\ now'[t] \subseteq has'[t]
      BY <2>1, <3>1
    <3>3. has'[Primary] \subseteq has[Primary]
      BY <2>1
    <3> QED
      BY <3>1, <3>2, <3>3
  <2> QED
    BY <2>2, <2>3, <2>4 DEF MirrorInv
<1>24. ASSUME NEW t \in Targets, MirrorEnter(t) PROVE MirrorInv'
  BY <1>0, <1>24, MirrorRests DEF MirrorEnter, TypeOK
<1>25. ASSUME NEW t \in Targets, MirrorListLocal(t) PROVE MirrorInv'
  <2>1. /\ UNCHANGED <<has, now>> /\ mlocal'[t] = has[Primary] /\ dpc'[t] = "listed"
        /\ \A u \in Targets \ {t} : dpc'[u] = dpc[u] /\ mlocal'[u] = mlocal[u]
    BY <1>0, <1>25 DEF MirrorListLocal, TypeOK
  <2> QED
    BY <2>1 DEF MirrorInv, Follows
<1>26. ASSUME NEW t \in Targets, NEW allow \in BOOLEAN, MirrorPlanStep(t, allow) PROVE MirrorInv'
  <2> DEFINE plan == PlanMirror(mlocal[t], has[t], Configured, allow)
  <2>1. /\ now'[t] \subseteq plan /\ dpc'[t] = "deleting" /\ has' = has /\ dpc[t] = "listed"
        /\ \A u \in Targets \ {t} : dpc'[u] = dpc[u] /\ mlocal'[u] = mlocal[u] /\ now'[u] = now[u]
    BY <1>0, <1>26 DEF MirrorPlanStep, TypeOK
  <2>2. \A x \in plan : /\ x \in has[t] /\ x \notin mlocal[t] /\ x[1] \in Configured
                        /\ ~ IsNewest(has[t], x)
    BY DEF PlanMirror, MirrorDelete, MirrorDel, ByID
  <2> HIDE DEF plan
  <2>3. ASSUME NEW x \in now'[t]
        PROVE  \E y \in has[t] \ now'[t] : y[1] = x[1] /\ y[2] > x[2]
    <3>1. has[t] \in SUBSET Rev /\ x \in has[t] /\ ~ IsNewest(has[t], x)
      BY <1>0, <2>1, <2>2 DEF TypeOK
    <3>2. PICK y \in ByID(has[t], x[1]) : ~ (y[2] <= x[2])
      BY <3>1 DEF IsNewest
    <3>3. y \in has[t] /\ y[1] = x[1]
      BY <3>2 DEF ByID
    <3>4. PICK z \in has[t] : z[1] = y[1] /\ z[2] >= y[2] /\ IsNewest(has[t], z)
      BY <3>1, <3>3, HasNewest
    <3>5. x[2] \in Nat /\ y[2] \in Nat /\ z[2] \in Nat
      BY <3>1, <3>3, <3>4 DEF Rev
    <3>6. z \notin now'[t]
      BY <2>1, <2>2, <3>4
    <3> QED
      BY <3>2, <3>3, <3>4, <3>5, <3>6
  <2>4. now'[t] \cap has[Primary] = {}
    BY <2>1, <2>2 DEF MirrorInv
  <2>5. Follows'
    BY <2>1 DEF MirrorInv, Follows
  <2>6. \A u \in Targets : dpc'[u] = "listed" => has'[u] \cap has'[Primary] \subseteq mlocal'[u]
    BY <2>1 DEF MirrorInv
  <2>7. ASSUME NEW u \in Targets, dpc'[u] = "deleting"
        PROVE  /\ now'[u] \subseteq has'[u] /\ now'[u] \cap has'[Primary] = {}
               /\ \A z \in now'[u] : z[1] \in Configured /\ \E y \in has'[u] \ now'[u] : y[1] = z[1] /\ y[2] > z[2]
    <3>1. CASE u = t
      BY <2>1, <2>2, <2>3, <2>4, <3>1
    <3>2. CASE u # t
      BY <2>1, <2>7, <3>2 DEF MirrorInv
    <3> QED
      BY <3>1, <3>2
  <2> QED
    BY <2>5, <2>6, <2>7 DEF MirrorInv
<1>27. CASE ForgetStop
  BY <1>0, <1>27, MirrorRests DEF ForgetStop, TypeOK
<1>28. ASSUME NEW i \in IDs, ForgetPlan(i) PROVE MirrorInv'
  BY <1>28, MirrorRests DEF ForgetPlan
<1>29. ASSUME NEW s \in Storages, ForgetEnter(s) PROVE MirrorInv'
  BY <1>0, <1>29, MirrorRests DEF ForgetEnter, TypeOK
<1>30. ASSUME NEW s \in Storages, ForgetRead(s) PROVE MirrorInv'
  BY <1>0, <1>30, MirrorRests DEF ForgetRead, TypeOK
<1>31. ASSUME NEW s \in Storages, ForgetList(s) PROVE MirrorInv'
  BY <1>0, <1>31, MirrorRests DEF ForgetList, TypeOK
<1>32. ASSUME NEW s \in Storages, ForgetNext(s) PROVE MirrorInv'
  BY <1>0, <1>32, MirrorRests DEF ForgetNext, TypeOK
<1>33. ASSUME NEW s \in Storages, NEW x \in Rev, ForgetDelete(s, x) PROVE MirrorInv'
  <2>1. /\ has'[s] = has[s] \ {x} /\ UNCHANGED <<dpc, mlocal>>
        /\ \A u \in Storages \ {s} : has'[u] = has[u]
        /\ \A u \in Storages : has'[u] \subseteq has[u] /\ now'[u] = now[u]
        /\ s \in Targets => dpc[s] = "idle"
        /\ x[1] \notin Configured
    BY <1>0, <1>33 DEF ForgetDelete, TypeOK, IndInv, GateInv, ForgetInv
  <2>2. Follows'
    <3> SUFFICES ASSUME NEW u \in Targets, NEW z \in has'[u], z[1] \in Configured
                 PROVE  \E y \in has'[Primary] : y[1] = z[1] /\ y[2] >= z[2]
      BY DEF Follows
    <3>1. PICK y \in has[Primary] : y[1] = z[1] /\ y[2] >= z[2]
      BY <2>1 DEF MirrorInv, Follows
    <3>2. y \in has'[Primary]
      BY <2>1, <3>1
    <3> QED
      BY <3>1, <3>2
  <2>3. \A t \in Targets : dpc'[t] = "listed" => has'[t] \cap has'[Primary] \subseteq mlocal'[t]
    BY <2>1 DEF MirrorInv
  <2>4. ASSUME NEW t \in Targets, dpc'[t] = "deleting"
        PROVE  /\ now'[t] \subseteq has'[t] /\ now'[t] \cap has'[Primary] = {}
               /\ \A z \in now'[t] : z[1] \in Configured /\ \E y \in has'[t] \ now'[t] : y[1] = z[1] /\ y[2] > z[2]
    <3>1. has'[t] = has[t] /\ now'[t] = now[t] /\ dpc[t] = "deleting" /\ has'[Primary] \subseteq has[Primary]
      BY <2>1, <2>4
    <3> QED
      BY <3>1 DEF MirrorInv
  <2> QED
    BY <2>2, <2>3, <2>4 DEF MirrorInv
<1>34. CASE Restart
  BY <1>0, <1>34, MirrorRests DEF Restart, TypeOK
<1>35. CASE UNCHANGED vars
  BY <1>35, MirrorRests DEF vars
<1> QED
  BY <1>1, <1>2, <1>3, <1>4, <1>5, <1>6, <1>7, <1>8, <1>9, <1>10, <1>11, <1>12, <1>13,
     <1>14, <1>15, <1>16, <1>17, <1>18, <1>19, <1>22, <1>23, <1>24, <1>25,
     <1>26, <1>27, <1>28, <1>29, <1>30, <1>31, <1>32, <1>33, <1>34, <1>35 DEF Next,
     CopyNext, ReaderNext, PruneNext, ForgetStep

\* The steps that change what the storages hold.
LEMMA HasSteps ==
    ASSUME [Next]_vars
    PROVE  \/ UNCHANGED has
           \/ \E i \in IDs : Backup(i)
           \/ \E t \in Targets, x \in Rev : CopyOne(t, x)
           \/ \E d \in Storages, x \in Rev : Delete(d, x) \/ ForgetDelete(d, x)
<1>1. CASE UNCHANGED vars
  BY <1>1 DEF vars
<1>2. CASE CopyNext
  BY <1>2 DEF CopyNext, ListLocal, HoldAll, Narrow, StartCopy, CopyDone, PassEnd
<1>3. CASE ReaderNext
  BY <1>3 DEF ReaderNext, ReaderHold, StartRead, ReadEnd, KilledReading, RestoreHold, DrillList,
     DoctorList, DeepHold
<1>4. CASE PruneNext
  BY <1>4 DEF PruneNext, PruneEnter, PruneRead, PrunePlan, PruneLeave, MirrorEnter, MirrorListLocal,
     MirrorPlanStep
<1>5. CASE ForgetStep
  BY <1>5 DEF ForgetStep, ForgetStop, ForgetPlan, ForgetEnter, ForgetRead, ForgetList, ForgetNext
<1>6. CASE Restart
  BY <1>6 DEF Restart
<1> QED
  BY <1>1, <1>2, <1>3, <1>4, <1>5, <1>6 DEF Next

\* No step brings back to local an ID that is forgotten, or that forget is done with there.
LEMMA GoneStep == IndInv /\ GoneInv /\ [Next]_vars => GoneInv'
<1> SUFFICES ASSUME IndInv, GoneInv, [Next]_vars
             PROVE  GoneInv'
  OBVIOUS
<1> USE Sets DEF gateVars, readerVars, prunerVars, forgetVars
<1>0. TypeOK
  BY DEF IndInv
<1>1. CASE UNCHANGED forgetVars
  <2>1. \A x \in has'[Primary] \ has[Primary] : x[1] \in Configured
    <3>1. ASSUME NEW i \in IDs, Backup(i) PROVE \A x \in has'[Primary] \ has[Primary] : x[1] \in Configured
      BY <1>0, <3>1 DEF Backup, TypeOK
    <3>2. ASSUME NEW d \in Storages, NEW x \in Rev, Delete(d, x) \/ ForgetDelete(d, x)
          PROVE  has'[Primary] \subseteq has[Primary]
      BY <1>0, <3>2 DEF Delete, ForgetDelete, TypeOK
    <3>3. ASSUME NEW t \in Targets, NEW x \in Rev, CopyOne(t, x) PROVE has'[Primary] = has[Primary]
      BY <1>0, <3>3 DEF CopyOne, TypeOK
    <3>4. CASE UNCHANGED has
      BY <3>4
    <3>5. \/ UNCHANGED has
          \/ \E i \in IDs : Backup(i)
          \/ \E d \in Storages, x \in Rev : Delete(d, x) \/ ForgetDelete(d, x)
          \/ \E t \in Targets, x \in Rev : CopyOne(t, x)
      BY HasSteps
    <3> QED
      BY <3>1, <3>2, <3>3, <3>4, <3>5
  <2>2. \A x \in has'[Primary] : x \in has[Primary] \/ x[1] \in Configured
    BY <2>1
  <2>3. fid \subseteq Retired /\ done \subseteq Retired
    BY <1>0 DEF TypeOK
  <2> QED
    BY <1>1, <2>2, <2>3 DEF GoneInv
<1>2. ASSUME NEW i \in IDs, ForgetPlan(i) PROVE GoneInv'
  BY <1>2 DEF ForgetPlan, GoneInv, ByID
<1>3. ASSUME NEW s \in Storages, ForgetNext(s) PROVE GoneInv'
  <2>1. /\ fleft' = fleft \ {s} /\ has' = has /\ fid' \subseteq fid
        /\ done' = done \/ (fleft = {s} /\ done' = done \cup fid)
    <3>1. CASE fleft = {s}
      BY <1>3, <3>1 DEF ForgetNext
    <3>2. CASE fleft # {s}
      BY <1>3, <3>2 DEF ForgetNext
    <3> QED
      BY <3>1, <3>2
  <2>2. s = Primary => \A x \in has[Primary] : x[1] \notin fid
    BY <1>3 DEF ForgetNext, IndInv, ForgetInv
  <2>3. s # Primary /\ s \in fleft => Primary \notin fleft
    BY <1>3 DEF ForgetNext, IndInv, ForgetInv
  <2>4. s \in fleft
    BY <1>3 DEF ForgetNext, IndInv, ForgetInv
  <2>5. \A x \in has[Primary] : x[1] \notin fid
    BY <2>2, <2>3, <2>4 DEF GoneInv
  <2> QED
    BY <2>1, <2>5 DEF GoneInv
<1>4. CASE ForgetStop
  BY <1>4 DEF ForgetStop, GoneInv
<1>5. CASE Restart
  BY <1>5 DEF Restart, GoneInv
<1>6. \/ UNCHANGED forgetVars
      \/ \E i \in IDs : ForgetPlan(i)
      \/ \E s \in Storages : ForgetNext(s)
      \/ ForgetStop \/ Restart
  <2>1. CASE UNCHANGED vars
    BY <2>1 DEF vars
  <2>2. CASE \E i \in IDs : Backup(i)
    BY <2>2 DEF Backup
  <2>3. CASE CopyNext
    BY <2>3 DEF CopyNext, ListLocal, HoldAll, Narrow, StartCopy, CopyDone, PassEnd, CopyOne
  <2>4. CASE ReaderNext
    BY <2>4 DEF ReaderNext, ReaderHold, StartRead, ReadEnd, KilledReading, RestoreHold, DrillList,
       DoctorList, DeepHold
  <2>5. CASE PruneNext
    BY <2>5 DEF PruneNext, PruneEnter, PruneRead, PrunePlan, PruneLeave, MirrorEnter, MirrorListLocal,
       MirrorPlanStep, Delete
  <2>6. CASE ForgetStep
    BY <2>6 DEF ForgetStep, ForgetEnter, ForgetRead, ForgetList, ForgetDelete
  <2> QED
    BY <2>1, <2>2, <2>3, <2>4, <2>5, <2>6 DEF Next
<1> QED
  BY <1>1, <1>2, <1>3, <1>4, <1>5, <1>6

\* Deletions take nothing that local still holds from a target, and no ID's newest.
LEMMA DeleteStep ==
    ASSUME IndInv, MirrorInv, [Next]_vars
    PROVE  /\ \A t \in Targets : (has[t] \ has'[t]) \cap has[Primary] = {}
           /\ \A s \in Storages : \A x \in has[s] :
                 x[1] \in Configured /\ IsNewest(has[s], x) => x \in has'[s]
<1> USE Sets
<1>0. TypeOK
  BY DEF IndInv
<1>1. CASE UNCHANGED has
  BY <1>1
<1>2. ASSUME \A s \in Storages : has[s] \subseteq has'[s]
      PROVE  /\ \A t \in Targets : (has[t] \ has'[t]) \cap has[Primary] = {}
             /\ \A s \in Storages : \A x \in has[s] :
                   x[1] \in Configured /\ IsNewest(has[s], x) => x \in has'[s]
  BY <1>2
<1>3. ASSUME NEW i \in IDs, Backup(i) PROVE \A s \in Storages : has[s] \subseteq has'[s]
  BY <1>0, <1>3 DEF Backup, TypeOK
<1>4. ASSUME NEW t \in Targets, NEW x \in Rev, CopyOne(t, x) PROVE \A s \in Storages : has[s] \subseteq has'[s]
  BY <1>0, <1>4 DEF CopyOne, TypeOK
<1>5. ASSUME NEW d \in Storages, NEW x \in Rev, Delete(d, x)
      PROVE  /\ \A t \in Targets : (has[t] \ has'[t]) \cap has[Primary] = {}
             /\ \A s \in Storages : \A z \in has[s] :
                   z[1] \in Configured /\ IsNewest(has[s], z) => z \in has'[s]
  <2>1. /\ has'[d] = has[d] \ {x} /\ x \in now[d] /\ dpc[d] = "deleting"
        /\ \A s \in Storages \ {d} : has'[s] = has[s]
    BY <1>0, <1>5 DEF Delete, TypeOK, IndInv, GateInv
  <2>2. d \in Targets => x \notin has[Primary]
    BY <2>1 DEF MirrorInv
  <2>3. PICK y \in has[d] : y[1] = x[1] /\ y[2] > x[2]
    <3>1. CASE d = Primary
      BY <2>1, <3>1 DEF IndInv, PlanInv
    <3>2. CASE d \in Targets
      BY <2>1, <3>2 DEF MirrorInv
    <3> QED
      BY <3>1, <3>2
  <2>4. ~ IsNewest(has[d], x)
    <3>1. x[2] \in Nat /\ y[2] \in Nat /\ y \in ByID(has[d], x[1])
      BY <1>0, <2>1, <2>3 DEF TypeOK, Rev, ByID
    <3> QED
      BY <2>3, <3>1 DEF IsNewest
  <2> QED
    BY <2>1, <2>2, <2>4
<1>6. ASSUME NEW s \in Storages, NEW x \in Rev, ForgetDelete(s, x)
      PROVE  /\ \A t \in Targets : (has[t] \ has'[t]) \cap has[Primary] = {}
             /\ \A u \in Storages : \A z \in has[u] :
                   z[1] \in Configured /\ IsNewest(has[u], z) => z \in has'[u]
  <2>1. /\ has'[s] = has[s] \ {x} /\ excl[s] = Forget /\ x[1] \in fid /\ s \in fleft
        /\ \A u \in Storages \ {s} : has'[u] = has[u]
        /\ x[1] \notin Configured
    BY <1>0, <1>6 DEF ForgetDelete, TypeOK, IndInv, ForgetInv
  <2>2. s \in Targets => x \notin has[Primary]
    BY <2>1 DEF IndInv, ForgetInv
  <2> QED
    BY <2>1, <2>2
<1> QED
  BY <1>1, <1>2, <1>3, <1>4, <1>5, <1>6, HasSteps

\* A copy sends nothing of an ID that is forgotten, or that local is already rid of.
LEMMA CopyStepGone ==
    ASSUME IndInv, GoneInv, [Next]_vars
    PROVE  \A t \in Targets : \A x \in has'[t] \ has[t] :
               x[1] \notin done /\ (x[1] \in fid => Primary \in fleft)
<1> USE Sets
<1>0. TypeOK
  BY DEF IndInv
<1> SUFFICES ASSUME NEW t \in Targets, NEW x \in has'[t] \ has[t]
             PROVE  x[1] \notin done /\ (x[1] \in fid => Primary \in fleft)
  OBVIOUS
<1>1. \A i \in IDs : ~ Backup(i)
  BY <1>0 DEF Backup, TypeOK
<1>2. \A d \in Storages, z \in Rev : ~ Delete(d, z) /\ ~ ForgetDelete(d, z)
  BY <1>0 DEF Delete, ForgetDelete, TypeOK
<1>3. PICK u \in Targets, z \in Rev : CopyOne(u, z)
  BY <1>1, <1>2, HasSteps
<1>4. z \in has[Primary] /\ has' = [has EXCEPT ![u] = @ \cup {z}]
  BY <1>3 DEF CopyOne, IndInv, InUseKept, ReaderInv
<1>5. x = z
  BY <1>0, <1>4 DEF TypeOK
<1> QED
  BY <1>4, <1>5 DEF GoneInv

\* Every reachable state satisfies both additions to the invariant.
THEOREM InUseDeletions == Spec => [](MirrorInv /\ GoneInv)
<1>1. Init => MirrorInv /\ GoneInv
  <2> SUFFICES ASSUME Init PROVE MirrorInv /\ GoneInv
    OBVIOUS
  <2>1. \A s \in Storages : \A x \in has[s] : x[1] \notin Configured
    BY Sets DEF Init
  <2>2. \A d \in Deleters : dpc[d] = "idle"
    BY DEF Init
  <2>3. MirrorInv
    BY <2>1, <2>2, Sets DEF MirrorInv, Follows
  <2>4. GoneInv
    BY DEF Init, GoneInv
  <2> QED
    BY <2>3, <2>4
<1>2. IndInv /\ (MirrorInv /\ GoneInv) /\ [Next]_vars => (MirrorInv /\ GoneInv)'
  BY MirrorStep, GoneStep
<1> QED
  BY <1>1, <1>2, InUseInvariant, PTL DEF Spec

\* TargetDeletesOnlyPruned for every deployment (upkeep.go, PlanMirror): no step takes
\* from a target what local holds at that very step, whatever backups, copies, prunes
\* and forgets came between the pass's two listings and the deletion.
THEOREM InUseTargetDeletesOnlyPruned == Spec => TargetDeletesOnlyPruned
<1>1. IndInv /\ MirrorInv /\ [Next]_vars => [\A t \in Targets : (has[t] \ has'[t]) \cap has[Primary] = {}]_vars
  BY DeleteStep
<1> QED
  BY <1>1, InUseInvariant, InUseDeletions, PTL DEF Spec, TargetDeletesOnlyPruned

\* NewestKept for every deployment (the rails of PlanMirror and the local prune's
\* retention): no step takes the newest revision of an ID that is still backed up.
THEOREM InUseNewestKept == Spec => NewestKept
<1>1. IndInv /\ MirrorInv /\ [Next]_vars =>
        [\A s \in Storages : \A x \in has[s] :
            x[1] \in Configured /\ IsNewest(has[s], x) => x \in has'[s]]_vars
  BY DeleteStep
<1> QED
  BY <1>1, InUseInvariant, InUseDeletions, PTL DEF Spec, NewestKept

\* NoRecopy for every deployment (forget.go, the primary first): no copy puts back an ID
\* that is forgotten, or that forget has left the primary behind for.
THEOREM InUseNoRecopy == Spec => NoRecopy
<1>1. IndInv /\ GoneInv /\ [Next]_vars =>
        [\A t \in Targets : \A x \in has'[t] \ has[t] :
            x[1] \notin done /\ (x[1] \in fid => Primary \in fleft)]_vars
  BY CopyStepGone
<1> QED
  BY <1>1, InUseInvariant, InUseDeletions, PTL DEF Spec, NoRecopy
=============================================================================
