---------------------------- MODULE BackupProofs ----------------------------
(***************************************************************************)
(* What a pre-backup hook stopped stays on record, with its state, until   *)
(* its post-backup hook has run or was given up, for any services, groups  *)
(* and parallelism.                                                        *)
(*                                                                         *)
(* The record alone is not inductive: a step that takes a service off the  *)
(* record must know that it owes no post hook any more (Tracks), that      *)
(* nothing is in progress outside the services' phase (Phases), and that   *)
(* no other service of its group is between its hooks (Alone).  A run that *)
(* a shutdown cut short stays on record for the next start, which needs    *)
(* what a run that says it is completed has done (OnRecord).               *)
(***************************************************************************)
EXTENDS Backup, TLAPS

\* What a service's place in the run says of its hooks.
Tracks ==
    \A s \in Services :
        /\ owed[s] = "yes" => s \in HasPost
        /\ svc[s] \in {"hook", "undone", "posted", "recorded", "ended"} => owed[s] # "yes"
        /\ svc[s] \in {"hooking", "ready", "init", "backup", "post"} /\ owed[s] = "yes" => preRan[s]
        /\ svc[s] \in {"hook", "undone"} => stage[s] = "hooked"

\* What the run's phase says of its services.
Phases ==
    \A s \in Services :
        /\ run = "begun" => svc[s] \in {"waiting", "undone", "unconfigured"}
        /\ run = "probe" => svc[s] \in {"waiting", "unconfigured"} /\ stage[s] # "hooked"
        /\ run = "services" => svc[s] # "undone"
        /\ run = "services" /\ svc[s] \in {"waiting", "entered", "recorded", "ended", "unconfigured"}
              => stage[s] # "hooked"
        /\ run = "services" /\ svc[s] = "hook" => left[GroupOf(s)] = {}
        /\ run \in {"handoff", "finish"} => ~ Active(s) /\ stage[s] # "hooked"

\* One service of a group at a time, in a run and on the record.
Alone ==
    \A s, t \in Services : GroupOf(s) = GroupOf(t) /\ s # t =>
        /\ ~ (stage[s] = "hooked" /\ stage[t] = "hooked")
        /\ run = "services" => ~ (Active(s) /\ Active(t))

IndInv == Tracks /\ Phases /\ Alone /\ OwedRecorded /\ StateKept

-------------------------------------------------------------------------------
\* The groups partition the services (groupServices).
LEMMA GroupFacts ==
    ASSUME NEW s \in Services
    PROVE  /\ GroupOf(s) \in Groups /\ s \in GroupOf(s)
           /\ \A t \in Services : t \in GroupOf(s) <=> GroupOf(t) = GroupOf(s)
<1>1. \A t \in Services : GroupOf(t) \in Groups /\ t \in GroupOf(t)
  BY BackupAssumption DEF GroupOf
<1>2. QED
  BY <1>1, BackupAssumption

\* Every variable keeps its type.
THEOREM BackupTyping == Spec => []TypeOK
<1> DEFINE Places ==
        {"waiting", "undone", "entered", "hook", "hooking", "ready", "init", "backup", "post",
         "posting", "posted", "recorded", "ended", "unconfigured"}
<1>1. Init => TypeOK
  <2> SUFFICES ASSUME Init PROVE TypeOK
    OBVIOUS
  <2>1. /\ svc \in [Services -> {"waiting"}] /\ result \in [Services -> {"none"}]
        /\ preRan \in [Services -> BOOLEAN] /\ cut \in [Services -> BOOLEAN]
        /\ stage \in [Services -> {"none"}] /\ owed \in [Services -> {"no"}]
        /\ left \in [Groups -> SUBSET Services]
    BY DEF Init
  <2>2. QED
    BY <2>1 DEF Init, TypeOK
<1>2. TypeOK /\ [Next]_vars => TypeOK'
  <2> SUFFICES ASSUME TypeOK, [Next]_vars PROVE TypeOK'
    OBVIOUS
  <2>1. CASE RecordRun
    BY <2>1 DEF TypeOK, inRun, RecordRun
  <2>2. CASE BadConfig
    BY <2>2 DEF TypeOK, inRun, BadConfig
  <2>3. CASE StopEarly
    BY <2>3 DEF TypeOK, inRun, StopEarly
  <2>4. CASE HandOff
    BY <2>4 DEF TypeOK, inRun, HandOff
  <2>5. CASE Finish
    BY <2>5 DEF TypeOK, inRun, Finish
  <2>6. CASE Start
    BY <2>6 DEF TypeOK, inRun, Start
  <2>7. CASE Signal
    BY <2>7 DEF TypeOK, inRun, Signal
  <2>8. CASE Kill
    BY <2>8 DEF TypeOK, inRun, Kill
  <2>9. CASE ContainerStart
    BY <2>9 DEF TypeOK, inRun, ContainerStart
  <2>10. CASE \E up \in BOOLEAN : Probe(up)
    <3> PICK up \in BOOLEAN : Probe(up)
      BY <2>10
    <3>1. svc' \in [Services -> Places]
      BY DEF TypeOK, Probe
    <3>2. QED
      BY <3>1 DEF TypeOK, Probe
  <2>11. CASE \E up \in BOOLEAN : WrapUp(up)
    BY <2>11 DEF TypeOK, Stopped, WrapUp
  <2>12. CASE \E sd \in BOOLEAN : Stop(sd)
    BY <2>12 DEF TypeOK, Stop
  <2>13. CASE \E s \in Services : ServiceStep(s)
    <3> PICK s \in Services : ServiceStep(s)
      BY <2>13
    <3>0. GroupOf(s) \in Groups
      BY GroupFacts
    <3>1. CASE \E ran \in BOOLEAN : FinishHook(s, ran)
      <4> PICK ran \in BOOLEAN : FinishHook(s, ran)
        BY <3>1
      <4>1. owed' \in [Services -> {"no", "yes", "given up"}]
        BY DEF TypeOK, FinishHook, Undone
      <4>2. svc' \in [Services -> Places]
        BY DEF TypeOK, FinishHook
      <4>3. QED
        BY <4>1, <4>2 DEF TypeOK, inRun, FinishHook
    <3>2. CASE FinishRecord(s)
      BY <3>0, <3>2 DEF TypeOK, inRun, FinishRecord
    <3>3. CASE Begin(s)
      BY <3>3 DEF TypeOK, inRun, Begin
    <3>4. CASE Refuse(s)
      BY <3>4 DEF TypeOK, inRun, Refuse
    <3>5. CASE SkipLost(s)
      BY <3>0, <3>5 DEF TypeOK, inRun, SkipLost
    <3>6. CASE Hook(s)
      BY <3>0, <3>6 DEF TypeOK, inRun, Stopped, Hook
    <3>7. CASE PreHook(s)
      <4>1. svc' \in [Services -> Places]
        <5>1. svc \in [Services -> Places]
          BY DEF TypeOK
        <5>2. svc' = [svc EXCEPT ![s] = "post"] \/ svc' = [svc EXCEPT ![s] = "hooking"]
          BY <3>7 DEF PreHook
        <5>3. QED
          BY <5>1, <5>2
      <4>2. result' \in [Services -> {"none", "success", "skipped", "failed", "stopped"}]
        BY <3>7 DEF TypeOK, PreHook
      <4>3. cut' \in [Services -> BOOLEAN] /\ preRan' \in [Services -> BOOLEAN]
        BY <3>7 DEF TypeOK, PreHook
      <4>4. owed' \in [Services -> {"no", "yes", "given up"}]
        BY <3>7 DEF TypeOK, PreHook
      <4>5. left[GroupOf(s)] \cup {s} \in SUBSET Services
        BY <3>0 DEF TypeOK
      <4>6. left' \in [Groups -> SUBSET Services]
        <5>1. left' = left \/ left' = [left EXCEPT ![GroupOf(s)] = @ \cup {s}]
          BY <3>7 DEF PreHook
        <5>2. left \in [Groups -> SUBSET Services]
          BY DEF TypeOK
        <5>3. QED
          BY <4>5, <5>1, <5>2
      <4>7. UNCHANGED <<run, stage, inRun>>
        BY <3>7 DEF PreHook
      <4>8. QED
        <5>1. /\ run' = run /\ stage' = stage /\ stop' = stop /\ shutdown' = shutdown
              /\ lost' = lost /\ halting' = halting /\ outcome' = outcome
          BY <4>7 DEF inRun
        <5>2. QED
          BY <4>1, <4>2, <4>3, <4>4, <4>6, <5>1 DEF TypeOK
    <3>8. CASE BackupStart(s)
      BY <3>8 DEF TypeOK, inRun, Stopped, BackupStart
    <3>9. CASE InitFail(s)
      BY <3>9 DEF TypeOK, inRun, InitFail
    <3>10. CASE InitDone(s)
      BY <3>10 DEF TypeOK, inRun, InitDone
    <3>11. CASE PostHook(s)
      BY <3>11 DEF TypeOK, inRun, PostHook
    <3>12. CASE \E ran \in BOOLEAN : PostEnd(s, ran)
      <4> PICK ran \in BOOLEAN : PostEnd(s, ran)
        BY <3>12
      <4>1. owed' \in [Services -> {"no", "yes", "given up"}]
        BY DEF TypeOK, PostEnd, Undone
      <4>2. svc' \in [Services -> Places]
        BY DEF TypeOK, PostEnd
      <4>3. QED
        BY <4>1, <4>2 DEF TypeOK, inRun, PostEnd
    <3>13. CASE SetStage(s)
      BY <3>13 DEF TypeOK, inRun, SetStage
    <3>14. CASE \E r \in {"none", "skipped", "failed"} : PreEnd(s, r)
      <4> PICK r \in {"none", "skipped", "failed"} : PreEnd(s, r)
        BY <3>14
      <4>1. result' \in [Services -> {"none", "success", "skipped", "failed", "stopped"}]
        BY DEF TypeOK, PreEnd
      <4>2. svc' \in [Services -> Places]
        BY DEF TypeOK, PreEnd
      <4>3. QED
        BY <4>1, <4>2 DEF TypeOK, inRun, PreEnd
    <3>15. CASE \E r \in {"success", "failed", "stopped"} : BackupEnd(s, r)
      <4> PICK r \in {"success", "failed", "stopped"} : BackupEnd(s, r)
        BY <3>15
      <4>1. result' \in [Services -> {"none", "success", "skipped", "failed", "stopped"}]
        BY DEF TypeOK, BackupEnd
      <4>2. svc' \in [Services -> Places]
        BY DEF TypeOK, BackupEnd
      <4>3. QED
        BY <4>1, <4>2 DEF TypeOK, inRun, BackupEnd
    <3>16. CASE \E up \in BOOLEAN : ServiceEnd(s, up)
      BY <3>0, <3>16 DEF TypeOK, ServiceEnd
    <3>17. CASE FinishUnconfigured(s)
      BY <3>17 DEF TypeOK, inRun, FinishUnconfigured, Undone
    <3>18. QED
      BY <3>17, <3>1, <3>2, <3>3, <3>4, <3>5, <3>6, <3>7, <3>8, <3>9, <3>10, <3>11, <3>12, <3>13, <3>14, <3>15, <3>16
      DEF ServiceStep
  <2>14. CASE UNCHANGED vars
    BY <2>14 DEF TypeOK, vars
  <2>15. QED
    BY <2>1, <2>2, <2>3, <2>4, <2>5, <2>6, <2>7, <2>8, <2>9, <2>10, <2>11, <2>12, <2>13, <2>14
    DEF Next, RunStep
<1>3. QED
  BY <1>1, <1>2, PTL DEF Spec

-------------------------------------------------------------------------------
\* A step of the run as a whole keeps the invariant.
LEMMA RunStepInv ==
    ASSUME TypeOK, IndInv,
           \/ RecordRun \/ BadConfig \/ StopEarly \/ HandOff \/ Finish
           \/ Start \/ Signal \/ Kill \/ ContainerStart \/ UNCHANGED vars
           \/ \E up \in BOOLEAN : Probe(up) \/ WrapUp(up)
           \/ \E sd \in BOOLEAN : Stop(sd)
    PROVE  IndInv'
<1>d. /\ DOMAIN svc = Services /\ DOMAIN owed = Services /\ DOMAIN preRan = Services
      /\ DOMAIN stage = Services /\ DOMAIN left = Groups
  BY DEF TypeOK
<1>1. CASE RecordRun
  BY <1>d, <1>1 DEF IndInv, Tracks, Phases, Alone, OwedRecorded, StateKept, Active, inRun, RecordRun
<1>2. CASE BadConfig
  BY <1>d, <1>2 DEF IndInv, Tracks, Phases, Alone, OwedRecorded, StateKept, Active, inRun, BadConfig
<1>3. CASE StopEarly
  BY <1>d, <1>3 DEF IndInv, Tracks, Phases, Alone, OwedRecorded, StateKept, Active, inRun, StopEarly
<1>4. CASE HandOff
  BY <1>d, <1>4 DEF IndInv, Tracks, Phases, Alone, OwedRecorded, StateKept, Active, inRun, HandOff
<1>5. CASE Finish
  BY <1>d, <1>5 DEF IndInv, Tracks, Phases, Alone, OwedRecorded, StateKept, Active, inRun, Finish
<1>6. CASE Start
  BY <1>d, <1>6 DEF IndInv, Tracks, Phases, Alone, OwedRecorded, StateKept, Active, inRun, Start
<1>7. CASE Signal
  BY <1>d, <1>7 DEF IndInv, Tracks, Phases, Alone, OwedRecorded, StateKept, Active, inRun, Signal
<1>8. CASE Kill
  BY <1>d, <1>8 DEF IndInv, Tracks, Phases, Alone, OwedRecorded, StateKept, Active, inRun, Kill
<1>9. CASE ContainerStart
  BY <1>d, <1>9 DEF IndInv, Tracks, Phases, Alone, OwedRecorded, StateKept, Active, inRun, ContainerStart
<1>10. CASE UNCHANGED vars
  BY <1>d, <1>10 DEF IndInv, Tracks, Phases, Alone, OwedRecorded, StateKept, Active, vars
<1>11. CASE \E up \in BOOLEAN : Probe(up)
  BY <1>d, <1>11 DEF IndInv, Tracks, Phases, Alone, OwedRecorded, StateKept, Active, Probe
<1>12. CASE \E up \in BOOLEAN : WrapUp(up)
  BY <1>d, <1>12 DEF IndInv, Tracks, Phases, Alone, OwedRecorded, StateKept, Active, WrapUp
<1>13. CASE \E sd \in BOOLEAN : Stop(sd)
  BY <1>d, <1>13 DEF IndInv, Tracks, Phases, Alone, OwedRecorded, StateKept, Active, Stop
<1>14. QED
  BY <1>1, <1>2, <1>3, <1>4, <1>5, <1>6, <1>7, <1>8, <1>9, <1>10, <1>11, <1>12, <1>13

\* What a step of the service s leaves alone: every other service, and the state directory
\* of every other group.
Only(s) ==
    /\ run' = run /\ run \in {"begun", "services"}
    /\ \A t \in Services \ {s} :
          svc'[t] = svc[t] /\ owed'[t] = owed[t] /\ preRan'[t] = preRan[t] /\ stage'[t] = stage[t]
    /\ \A g \in Groups \ {GroupOf(s)} : left'[g] = left[g]

\* The functions' domains, all that most steps need of their types.
Domains ==
    /\ DOMAIN svc = Services /\ DOMAIN owed = Services /\ DOMAIN preRan = Services
    /\ DOMAIN stage = Services /\ DOMAIN left = Groups

\* Where a service's step leaves it: what the invariant asks of that service, and of what
\* it shares with the others of its group.
Lands(s) ==
    /\ owed'[s] = "yes" => s \in HasPost /\ stage'[s] = "hooked" /\ left'[GroupOf(s)] = {s}
    /\ svc'[s] \in {"hook", "undone", "posted", "recorded", "ended"} => owed'[s] # "yes"
    /\ svc'[s] \in {"hooking", "ready", "init", "backup", "post"} /\ owed'[s] = "yes" => preRan'[s]
    /\ svc'[s] \in {"hook", "undone"} => stage'[s] = "hooked"
    /\ run = "begun" => svc'[s] \in {"waiting", "undone", "unconfigured"}
    /\ run = "services" =>
          /\ svc'[s] # "undone"
          /\ svc'[s] \in {"waiting", "entered", "recorded", "ended", "unconfigured"}
                => stage'[s] # "hooked"
          /\ svc'[s] = "hook" => left'[GroupOf(s)] = {}
          /\ svc'[s] \notin {"waiting", "ended", "unconfigured"}
                => Active(s) \/ \A t \in GroupOf(s) : ~ Active(t)
    /\ \/ left'[GroupOf(s)] = left[GroupOf(s)] /\ (stage'[s] = "hooked" => stage[s] = "hooked")
       \/ \A t \in GroupOf(s) \ {s} : stage[t] # "hooked"

\* A service that lands so, all else left alone, keeps the invariant.
LEMMA LandsInv ==
    ASSUME IndInv, NEW s \in Services, Only(s), Lands(s)
    PROVE  IndInv'
<1>0. /\ GroupOf(s) \in Groups
      /\ \A t \in Services : GroupOf(t) \in Groups
      /\ \A t \in Services : t \in GroupOf(s) <=> GroupOf(t) = GroupOf(s)
  BY GroupFacts
<1>1. Tracks'
  BY DEF IndInv, Tracks, Only, Lands
<1>2. ASSUME NEW t \in Services \ {s}, GroupOf(t) = GroupOf(s), stage[t] = "hooked"
      PROVE  left'[GroupOf(s)] = left[GroupOf(s)] /\ (stage'[s] = "hooked" => stage[s] = "hooked")
  BY <1>0, <1>2 DEF Lands
<1>3. \A t \in Services \ {s} : stage[t] = "hooked" => left'[GroupOf(t)] = left[GroupOf(t)]
  BY <1>0, <1>2 DEF Only
<1>4. Phases'
  <2> SUFFICES ASSUME NEW t \in Services
               PROVE  /\ run' = "begun" => svc'[t] \in {"waiting", "undone", "unconfigured"}
                      /\ run' = "services" => svc'[t] # "undone"
                      /\ run' = "services" /\ svc'[t] \in {"waiting", "entered", "recorded", "ended",
                                                          "unconfigured"} => stage'[t] # "hooked"
                      /\ run' = "services" /\ svc'[t] = "hook" => left'[GroupOf(t)] = {}
    BY DEF Phases, Only
  <2>1. CASE t = s
    BY <2>1 DEF Lands, Only
  <2>2. CASE t # s
    <3>1. svc[t] = "hook" => stage[t] = "hooked"
      BY DEF IndInv, Tracks
    <3>2. QED
      BY <2>2, <3>1, <1>3 DEF IndInv, Phases, Only
  <2>3. QED
    BY <2>1, <2>2
<1>5. Alone'
  <2> SUFFICES ASSUME NEW t \in Services, NEW u \in Services, GroupOf(t) = GroupOf(u), t # u
               PROVE  /\ ~ (stage'[t] = "hooked" /\ stage'[u] = "hooked")
                      /\ run' = "services" => ~ (Active(t)' /\ Active(u)')
    BY DEF Alone
  <2>1. ASSUME NEW x \in Services \ {s}, GroupOf(x) = GroupOf(s)
        PROVE  /\ ~ (stage'[s] = "hooked" /\ stage'[x] = "hooked")
               /\ run' = "services" => ~ (Active(s)' /\ Active(x)')
    <3>1. stage'[x] = stage[x] /\ (Active(x)' <=> Active(x)) /\ x \in GroupOf(s)
      BY <1>0, <2>1 DEF Only, Active
    <3>2. ~ (stage'[s] = "hooked" /\ stage'[x] = "hooked")
      BY <1>2, <2>1, <3>1 DEF IndInv, Alone
    <3>3. run' = "services" /\ Active(s)' => Active(s) \/ ~ Active(x)
      BY <3>1 DEF Lands, Only, Active
    <3>4. QED
      BY <2>1, <3>1, <3>2, <3>3 DEF IndInv, Alone, Only
  <2>2. CASE t # s /\ u # s
    BY <2>2 DEF IndInv, Alone, Only, Active
  <2>3. QED
    BY <2>1, <2>2
<1>6. OwedRecorded'
  BY DEF IndInv, OwedRecorded, Only, Lands
<1>7. StateKept'
  <2> SUFFICES ASSUME NEW t \in Services, owed'[t] = "yes" PROVE left'[GroupOf(t)] = {t}
    BY DEF StateKept, GroupOf
  <2>1. CASE t = s
    BY <2>1 DEF Lands
  <2>2. CASE t # s
    <3>1. owed[t] = "yes" /\ stage[t] = "hooked"
      BY <2>2 DEF IndInv, OwedRecorded, Only
    <3>2. QED
      BY <2>2, <3>1, <1>3 DEF IndInv, StateKept
  <2>3. QED
    BY <2>1, <2>2
<1>8. QED
  BY <1>1, <1>4, <1>5, <1>6, <1>7 DEF IndInv

\* A service on the record, or at work, is the only one of its group on the record.
LEMMA Sole ==
    ASSUME IndInv, NEW s \in Services, stage[s] = "hooked" \/ (run = "services" /\ Active(s))
    PROVE  \A t \in GroupOf(s) \ {s} : stage[t] # "hooked"
<1> SUFFICES ASSUME NEW t \in GroupOf(s) \ {s} PROVE stage[t] # "hooked"
  OBVIOUS
<1>1. t \in Services /\ GroupOf(t) = GroupOf(s) /\ t # s
  BY GroupFacts, BackupAssumption
<1>2. ~ (stage[s] = "hooked" /\ stage[t] = "hooked")
  BY <1>1 DEF IndInv, Alone
<1>3. CASE run = "services" /\ Active(s)
  <2>1. ~ Active(t)
    BY <1>1, <1>3 DEF IndInv, Alone
  <2>2. QED
    BY <1>1, <1>3, <2>1 DEF IndInv, Phases, Active
<1>4. QED
  BY <1>2, <1>3

\* A service's step is its own.
LEMMA ServiceAlone ==
    ASSUME TypeOK, IndInv, NEW s \in Services, ServiceStep(s)
    PROVE  Only(s)
<1>d. Domains
  BY DEF TypeOK, Domains
<1>0. GroupOf(s) \in Groups
  BY GroupFacts
<1>1. run \in {"off", "begun", "probe", "services", "handoff", "finish"} /\ run # "off"
  BY DEF TypeOK, ServiceStep
<1>2. run' = run
  BY DEF ServiceStep, FinishHook, FinishRecord, FinishUnconfigured, Begin, Refuse, SkipLost, Hook, PreHook,
         BackupStart, InitFail, InitDone, PostHook, PostEnd, SetStage, PreEnd, BackupEnd, ServiceEnd
<1>3. run = "begun" \/ run = "services" \/ Active(s)
  BY DEF ServiceStep, FinishHook, FinishRecord, FinishUnconfigured, Begin, Refuse, SkipLost, Hook, PreHook,
         BackupStart, InitFail, InitDone, PostHook, PostEnd, SetStage, PreEnd, BackupEnd, ServiceEnd, Active
<1>4. Active(s) => run \in {"begun", "services"}
  BY <1>1 DEF IndInv, Phases, Active
<1>5. \A t \in Services \ {s} : svc'[t] = svc[t]
  BY <1>d DEF Domains, ServiceStep, FinishHook, FinishRecord, FinishUnconfigured, Begin, Refuse, SkipLost, Hook,
     PreHook, BackupStart, InitFail, InitDone, PostHook, PostEnd, SetStage, PreEnd, BackupEnd, ServiceEnd
<1>6. \A t \in Services \ {s} : owed'[t] = owed[t]
  BY <1>d DEF Domains, ServiceStep, FinishHook, FinishRecord, FinishUnconfigured, Undone, Begin, Refuse, SkipLost,
     Hook, PreHook, BackupStart, InitFail, InitDone, PostHook, PostEnd, SetStage, PreEnd, BackupEnd, ServiceEnd
<1>7. \A t \in Services \ {s} : preRan'[t] = preRan[t]
  BY <1>d DEF Domains, ServiceStep, FinishHook, FinishRecord, FinishUnconfigured, Begin, Refuse, SkipLost, Hook,
     PreHook, BackupStart, InitFail, InitDone, PostHook, PostEnd, SetStage, PreEnd, BackupEnd, ServiceEnd
<1>8. \A t \in Services \ {s} : stage'[t] = stage[t]
  BY <1>d DEF Domains, ServiceStep, FinishHook, FinishRecord, FinishUnconfigured, Begin, Refuse, SkipLost, Hook,
     PreHook, BackupStart, InitFail, InitDone, PostHook, PostEnd, SetStage, PreEnd, BackupEnd, ServiceEnd
<1>9. \A g \in Groups \ {GroupOf(s)} : left'[g] = left[g]
  BY <1>d, <1>0 DEF Domains, ServiceStep, FinishHook, FinishRecord, FinishUnconfigured, Begin, Refuse, SkipLost,
     Hook, PreHook, BackupStart, InitFail, InitDone, PostHook, PostEnd, SetStage, PreEnd, BackupEnd, ServiceEnd
<1>10. QED
  BY <1>1, <1>2, <1>3, <1>4, <1>5, <1>6, <1>7, <1>8, <1>9 DEF Only

\* A service's step keeps the invariant: each of them lands where it may.
LEMMA ServiceStepInv ==
    ASSUME TypeOK, IndInv, NEW s \in Services, ServiceStep(s)
    PROVE  IndInv'
<1>d. Domains
  BY DEF TypeOK, Domains
<1>0. GroupOf(s) \in Groups
  BY GroupFacts
<1>a. Only(s) /\ run \in {"begun", "services"}
  BY ServiceAlone DEF Only
<1>b. stage[s] = "hooked" \/ (run = "services" /\ Active(s)) =>
         \A t \in GroupOf(s) \ {s} : stage[t] # "hooked"
  BY Sole
<1>c. /\ owed[s] = "yes" => s \in HasPost /\ stage[s] = "hooked" /\ left[GroupOf(s)] = {s}
      /\ svc[s] \in {"hook", "undone", "posted", "recorded", "ended"} => owed[s] # "yes"
      /\ svc[s] \in {"hooking", "ready", "init", "backup", "post"} /\ owed[s] = "yes" => preRan[s]
      /\ svc[s] \in {"hook", "undone"} => stage[s] = "hooked"
      /\ run = "begun" => svc[s] \in {"waiting", "undone", "unconfigured"}
      /\ run = "services" =>
            /\ svc[s] # "undone"
            /\ svc[s] \in {"waiting", "entered", "recorded", "ended", "unconfigured"} => stage[s] # "hooked"
            /\ svc[s] = "hook" => left[GroupOf(s)] = {}
  BY DEF IndInv, Tracks, Phases, OwedRecorded, StateKept
<1>1. ASSUME NEW ran \in BOOLEAN, FinishHook(s, ran) PROVE Lands(s)
  BY <1>0, <1>a, <1>b, <1>c, <1>d, <1>1
  DEF Lands, Domains, Active, inRun, FinishHook, Undone
<1>2. ASSUME FinishRecord(s) PROVE Lands(s)
  BY <1>0, <1>a, <1>b, <1>c, <1>d, <1>2
  DEF Lands, Domains, Active, inRun, FinishRecord
<1>3. ASSUME FinishUnconfigured(s) PROVE Lands(s)
  BY <1>0, <1>a, <1>b, <1>c, <1>d, <1>3
  DEF Lands, Domains, Active, inRun, FinishUnconfigured, Undone
<1>4. ASSUME Begin(s) PROVE Lands(s)
  BY <1>0, <1>a, <1>b, <1>c, <1>d, <1>4
  DEF Lands, Domains, Active, inRun, Begin
<1>5. ASSUME Refuse(s) PROVE Lands(s)
  BY <1>0, <1>a, <1>b, <1>c, <1>d, <1>5
  DEF Lands, Domains, Active, inRun, Refuse
<1>6. ASSUME SkipLost(s) PROVE Lands(s)
  BY <1>0, <1>a, <1>b, <1>c, <1>d, <1>6
  DEF Lands, Domains, Active, inRun, SkipLost
<1>7. ASSUME Hook(s) PROVE Lands(s)
  BY <1>0, <1>a, <1>b, <1>c, <1>d, <1>7
  DEF Lands, Domains, Active, inRun, Hook
<1>8. ASSUME PreHook(s) PROVE Lands(s)
  BY <1>0, <1>a, <1>b, <1>c, <1>d, <1>8
  DEF Lands, Domains, Active, inRun, PreHook
<1>9. ASSUME BackupStart(s) PROVE Lands(s)
  BY <1>0, <1>a, <1>b, <1>c, <1>d, <1>9
  DEF Lands, Domains, Active, inRun, BackupStart
<1>10. ASSUME InitFail(s) PROVE Lands(s)
  BY <1>0, <1>a, <1>b, <1>c, <1>d, <1>10
  DEF Lands, Domains, Active, inRun, InitFail
<1>11. ASSUME InitDone(s) PROVE Lands(s)
  BY <1>0, <1>a, <1>b, <1>c, <1>d, <1>11
  DEF Lands, Domains, Active, inRun, InitDone
<1>12. ASSUME PostHook(s) PROVE Lands(s)
  BY <1>0, <1>a, <1>b, <1>c, <1>d, <1>12
  DEF Lands, Domains, Active, inRun, PostHook
<1>13. ASSUME NEW ran \in BOOLEAN, PostEnd(s, ran) PROVE Lands(s)
  BY <1>0, <1>a, <1>b, <1>c, <1>d, <1>13
  DEF Lands, Domains, Active, inRun, PostEnd, Undone
<1>14. ASSUME SetStage(s) PROVE Lands(s)
  BY <1>0, <1>a, <1>b, <1>c, <1>d, <1>14
  DEF Lands, Domains, Active, inRun, SetStage
<1>15. ASSUME NEW r \in {"none", "skipped", "failed"}, PreEnd(s, r) PROVE Lands(s)
  BY <1>0, <1>a, <1>b, <1>c, <1>d, <1>15
  DEF Lands, Domains, Active, inRun, PreEnd
<1>16. ASSUME NEW r \in {"success", "failed", "stopped"}, BackupEnd(s, r) PROVE Lands(s)
  BY <1>0, <1>a, <1>b, <1>c, <1>d, <1>16
  DEF Lands, Domains, Active, inRun, BackupEnd
<1>17. ASSUME NEW up \in BOOLEAN, ServiceEnd(s, up) PROVE Lands(s)
  BY <1>0, <1>a, <1>b, <1>c, <1>d, <1>17
  DEF Lands, Domains, Active, inRun, ServiceEnd
<1>18. Lands(s)
  BY <1>1, <1>2, <1>3, <1>4, <1>5, <1>6, <1>7, <1>8, <1>9, <1>10, <1>11, <1>12,
     <1>13, <1>14, <1>15, <1>16, <1>17 DEF ServiceStep
<1>19. QED
  BY <1>18, <1>a, LandsInv

\* IndInv is an invariant.
LEMMA BackupInductive == Spec => []IndInv
<1>1. Init => IndInv
  BY DEF Init, IndInv, Tracks, Phases, Alone, OwedRecorded, StateKept
<1>2. TypeOK /\ IndInv /\ [Next]_vars => IndInv'
  BY RunStepInv, ServiceStepInv DEF Next, RunStep
<1>3. QED
  BY <1>1, <1>2, BackupTyping, PTL DEF Spec

-------------------------------------------------------------------------------
\* Wherever the pipeline's process dies, the record it leaves names every service
\* whose pre-backup hook ran and whose post-backup hook was neither run nor given up
\* (ADR 46).
THEOREM BackupOwedRecorded == Spec => []OwedRecorded
<1>1. IndInv => OwedRecorded
  BY DEF IndInv
<1>2. QED
  BY <1>1, BackupInductive, PTL

\* Services that share a hook state directory never disturb what the post hook of
\* another needs of it.
THEOREM BackupStateKept == Spec => []StateKept
<1>1. IndInv => StateKept
  BY DEF IndInv
<1>2. QED
  BY <1>1, BackupInductive, PTL

\* No run starts a pre-backup hook on what an earlier one left stopped, unless a run has
\* given its post hook up in between.
THEOREM BackupPreHookOnce == Spec => PreHookOnce
<1>1. IndInv => (\A s \in Services : svc[s] = "hook" /\ svc'[s] = "hooking" => owed[s] # "yes")
  BY DEF IndInv, Tracks
<1>2. QED
  BY <1>1, BackupInductive, PTL DEF PreHookOnce

-------------------------------------------------------------------------------
(* Runs that a shutdown cuts short *)

\* From its start to its finish a run has every one of its services on record, and it says
\* that it is completed only when the primary is lost or every one had its turn.
OnRecord ==
    /\ run \in {"begun", "probe", "services", "handoff"} => outcome = "running"
    /\ run \in {"probe", "services", "handoff"} \/ (run = "finish" /\ outcome # "running") =>
          \A s \in Services : svc[s] # "unconfigured" => stage[s] # "none"
    /\ run = "handoff" => \A s \in Services : svc[s] # "waiting"
    /\ run = "finish" /\ outcome = "completed" /\ ~ lost => \A s \in Services : svc[s] # "waiting"

\* Services are at work in no later phase, and none of their steps takes one off the record.
LEMMA OnRecordService ==
    ASSUME TypeOK, Phases, OnRecord, NEW s \in Services, ServiceStep(s)
    PROVE  OnRecord'
<1>1. run' = run /\ outcome' = outcome
  BY DEF ServiceStep, FinishHook, FinishRecord, FinishUnconfigured, Undone, Begin, Refuse, SkipLost, Hook, PreHook, BackupStart,
         InitFail, InitDone, PostHook, PostEnd, SetStage, PreEnd, BackupEnd, ServiceEnd, inRun
<1>d. DOMAIN stage = Services /\ DOMAIN svc = Services
  BY DEF TypeOK
<1>a. \A t \in Services : stage[t] # "none" => stage'[t] # "none"
  BY <1>d DEF ServiceStep, FinishHook, FinishRecord, FinishUnconfigured, Undone, Begin, Refuse, SkipLost, Hook, PreHook, BackupStart,
         InitFail, InitDone, PostHook, PostEnd, SetStage, PreEnd, BackupEnd, ServiceEnd, inRun
<1>2. \A t \in Services : svc'[t] # "unconfigured" => svc[t] # "unconfigured"
  BY <1>d DEF ServiceStep, FinishHook, FinishRecord, FinishUnconfigured, Undone, Begin, Refuse, SkipLost, Hook, PreHook, BackupStart,
         InitFail, InitDone, PostHook, PostEnd, SetStage, PreEnd, BackupEnd, ServiceEnd
<1>3. run \notin {"handoff", "finish"}
  BY DEF ServiceStep, FinishHook, FinishRecord, FinishUnconfigured, Undone, Begin, Refuse, SkipLost, Hook, PreHook, BackupStart,
         InitFail, InitDone, PostHook, PostEnd, SetStage, PreEnd, BackupEnd, ServiceEnd, Phases, Active
<1>4. QED
  BY <1>1, <1>a, <1>2, <1>3 DEF OnRecord

\* Only the finish takes services off the record, and the probe and the wrap-up alone decide
\* how a run ended.
LEMMA OnRecordStep ==
    ASSUME TypeOK, Phases, OnRecord, [Next]_vars
    PROVE  OnRecord'
<1> USE DEF OnRecord, TypeOK, inRun
<1>1. CASE RecordRun
  BY <1>1 DEF RecordRun
<1>2. CASE BadConfig
  BY <1>2 DEF BadConfig
<1>3. CASE StopEarly
  BY <1>3 DEF StopEarly
<1>4. ASSUME NEW up \in BOOLEAN, Probe(up) PROVE OnRecord'
  BY <1>4 DEF Probe
<1>5. ASSUME NEW up \in BOOLEAN, WrapUp(up) PROVE OnRecord'
  <2>1. /\ outcome = "running" /\ \A s \in Services : svc[s] # "unconfigured" => stage'[s] # "none"
        /\ svc' = svc /\ run' \in {"handoff", "finish"}
        /\ run' = "handoff" <=> outcome' = "running"
    BY <1>5 DEF WrapUp
  <2>2. CASE outcome' = "running"
    BY <1>5, <2>1, <2>2 DEF WrapUp
  <2>3. CASE outcome' # "running"
    BY <1>5, <2>1, <2>3 DEF WrapUp
  <2>4. QED
    BY <2>2, <2>3
<1>6. CASE HandOff
  BY <1>6 DEF HandOff
<1>7. CASE Finish
  BY <1>7 DEF Finish
<1>8. CASE Start
  BY <1>8 DEF Start
<1>9. CASE Signal \/ Kill \/ ContainerStart \/ \E sd \in BOOLEAN : Stop(sd)
  BY <1>9 DEF Signal, Kill, ContainerStart, Stop
<1>10. CASE \E s \in Services : ServiceStep(s)
  BY <1>10, OnRecordService
<1>11. CASE UNCHANGED vars
  BY <1>11 DEF vars
<1>12. QED
  BY <1>1, <1>2, <1>3, <1>4, <1>5, <1>6, <1>7, <1>8, <1>9, <1>10, <1>11 DEF Next, RunStep

\* finish: a run that a container's shutdown cut short, with the primary up, leaves its
\* record for the next start, whichever of its services had their turn by then.
THEOREM BackupShutdownResumes == Spec => ShutdownResumes
<1>1. Init => OnRecord
  BY DEF Init, OnRecord
<1>2. TypeOK /\ IndInv /\ OnRecord /\ [Next]_vars => OnRecord'
  BY OnRecordStep DEF IndInv
<1>3. TypeOK /\ OnRecord /\ [Next]_vars => (CutByShutdown /\ ~ lost /\ run' = "off" => Recorded')
  <2> SUFFICES ASSUME TypeOK, OnRecord, [Next]_vars, CutByShutdown, ~ lost, run' = "off"
               PROVE  Recorded'
    OBVIOUS
  <2>1. PICK s \in Services : svc[s] = "waiting"
    BY DEF CutByShutdown
  <2>2. run = "finish" /\ shutdown /\ outcome = "stopped" /\ stage[s] # "none"
    BY <2>1 DEF CutByShutdown, OnRecord, TypeOK
  <2>3. stage' = stage
    BY <2>2 DEF Next, RunStep, RecordRun, BadConfig, StopEarly, Probe, WrapUp, HandOff, Finish, Start,
                Signal, Kill, ContainerStart, Stop, ServiceStep, FinishHook, FinishRecord, FinishUnconfigured, Undone, Begin,
                Refuse, SkipLost, Hook, PreHook, BackupStart, InitFail, InitDone, PostHook, PostEnd,
                SetStage, PreEnd, BackupEnd, ServiceEnd, inRun, vars
  <2>4. QED
    BY <2>2, <2>3 DEF Recorded
<1>4. QED
  BY <1>1, <1>2, <1>3, BackupTyping, BackupInductive, PTL DEF Spec, ShutdownResumes

===============================================================================
