------------------------- MODULE MaintenanceProofs -------------------------
(***************************************************************************)
(* The repository that outlives maintenance's runs is never trusted for    *)
(* another storage than it was made for, and loses no fossil collection,   *)
(* for any storages and collections, however often the configuration       *)
(* changes and wherever runs are killed.                                   *)
(*                                                                         *)
(* Both rest on the identities file: it says of every cache which storage  *)
(* it is of (Identified), from before the cache is made until after it has *)
(* gone, and a run that has written it works for just those URLs (InRun).  *)
(***************************************************************************)
EXTENDS Maintenance, TLAPS

\* The identities file is right about every cache, and a collection in a cache is of the
\* storage the cache is of.
Identified ==
    \A n \in Names :
        /\ cacheURL[n] \in {None, known[n]}
        /\ cacheURL[n] = None => fossils[n] = {}
        /\ \A c \in fossils[n] : OfName[c] = n /\ OfURL[c] = known[n]

\* Past the identities the file holds what the run has read of the configuration.
InRun == pc \in {"register", "adopt", "probe", "check", "prune", "next"} => known = urls

\* What is being taken over is in the cache before it leaves the service repository.
TakenFirst == pc # "idle" => taking = None \/ (pc = "adopt" /\ taking \in fossils[i])

\* The run's place among the storages.
InRange ==
    /\ pc = "main" => i = Primary
    /\ pc \in {"clear", "register", "adopt", "probe", "check", "prune", "next"} => i <= upTo

IndInv == TypeOK /\ InRange /\ Identified /\ InRun /\ TakenFirst

-------------------------------------------------------------------------------
\* A step keeps the types, and the run's place among the storages they depend on.
LEMMA TypingStep ==
    ASSUME TypeOK, InRange, [Next]_vars
    PROVE  TypeOK' /\ InRange'
<1> USE MaintenanceAssumption DEF TypeOK, InRange, Names, Primary, To, Cached,
        repoVars, runVars, ctlVars, envVars
<1>1. CASE Start
  <2>1. /\ pruned' \in BOOLEAN /\ woken' \in BOOLEAN
        /\ stopReq' \in BOOLEAN /\ flag' \in BOOLEAN /\ record' \in BOOLEAN
    BY <1>1 DEF Start
  <2>2. QED
    BY <1>1, <2>1 DEF Start
<1>2. CASE Main
  BY <1>2 DEF Main
<1>3. CASE Unprepared
  BY <1>3 DEF Unprepared
<1>4. CASE WriteIdentities
  BY <1>4 DEF WriteIdentities
<1>5. CASE Register
  BY <1>5 DEF Register
<1>6. CASE Unlink
  BY <1>6 DEF Unlink
<1>7. CASE Adopted
  BY <1>7 DEF Adopted
<1>8. CASE Check
  BY <1>8 DEF Check
<1>9. CASE Prune
  <2>1. /\ pruned' \in BOOLEAN /\ woken' \in BOOLEAN
        /\ stopReq' \in BOOLEAN /\ flag' \in BOOLEAN /\ record' \in BOOLEAN
    BY <1>9 DEF Prune
  <2>2. QED
    BY <1>9, <2>1 DEF Prune
<1>10. CASE NextStorage
  BY <1>10 DEF NextStorage
<1>11. CASE Probe
  BY <1>11 DEF Probe
<1>12. CASE Done
  BY <1>12 DEF Done
<1>13. CASE Finish
  BY <1>13 DEF Finish
<1>14. CASE Stop
  BY <1>14 DEF Stop
<1>15. CASE Kill
  <2>1. /\ pruned' \in BOOLEAN /\ woken' \in BOOLEAN
        /\ stopReq' \in BOOLEAN /\ flag' \in BOOLEAN /\ record' \in BOOLEAN
    BY <1>15 DEF Kill
  <2>2. QED
    BY <1>15, <2>1 DEF Kill
<1>16. CASE Reconfigure
  <2>1. /\ pruned' \in BOOLEAN /\ woken' \in BOOLEAN
        /\ stopReq' \in BOOLEAN /\ flag' \in BOOLEAN /\ record' \in BOOLEAN
    BY <1>16 DEF Reconfigure
  <2>2. QED
    BY <1>16, <2>1 DEF Reconfigure
<1>17. CASE \E n \in Names : ClearCache(n)
  BY <1>17 DEF ClearCache
<1>18. CASE \E c \in Collections : Take(c)
  BY <1>18 DEF Take
<1>19. CASE UNCHANGED vars
  BY <1>19 DEF vars
<1>20. QED
  BY <1>1, <1>2, <1>3, <1>4, <1>5, <1>6, <1>7, <1>8, <1>9, <1>10, <1>11, <1>12, <1>13, <1>14, <1>15, <1>16, <1>17, <1>18, <1>19 DEF Next

\* A step keeps the identities file right about the caches: a cache is only ever made by a run
\* that has written its URL, and what is stale goes before the file says otherwise.
LEMMA IdentifiedStep ==
    ASSUME TypeOK, Identified, InRun, [Next]_vars
    PROVE  Identified' /\ InRun'
<1> USE MaintenanceAssumption DEF TypeOK, Identified, InRun, To, Cached, Cleared, Stale,
        repoVars, runVars, ctlVars, envVars
<1>1. CASE Start
  BY <1>1 DEF Start
<1>2. CASE Main
  BY <1>2 DEF Main
<1>3. CASE Unprepared
  BY <1>3 DEF Unprepared
<1>4. CASE WriteIdentities
  BY <1>4 DEF WriteIdentities
<1>5. CASE Register
  BY <1>5 DEF Register
<1>6. CASE Unlink
  BY <1>6 DEF Unlink
<1>7. CASE Adopted
  BY <1>7 DEF Adopted
<1>8. CASE Check
  BY <1>8 DEF Check
<1>9. CASE Prune
  BY <1>9 DEF Prune
<1>10. CASE NextStorage
  BY <1>10 DEF NextStorage
<1>11. CASE Probe
  BY <1>11 DEF Probe
<1>12. CASE Done
  BY <1>12 DEF Done
<1>13. CASE Finish
  BY <1>13 DEF Finish
<1>14. CASE Stop
  BY <1>14 DEF Stop
<1>15. CASE Kill
  BY <1>15 DEF Kill
<1>16. CASE Reconfigure
  BY <1>16 DEF Reconfigure
<1>17. CASE \E n \in Names : ClearCache(n)
  BY <1>17 DEF ClearCache, Stale
<1>18. CASE \E c \in Collections : Take(c)
  BY <1>18 DEF Take, Ours
<1>19. CASE UNCHANGED vars
  BY <1>19 DEF vars
<1>20. QED
  BY <1>1, <1>2, <1>3, <1>4, <1>5, <1>6, <1>7, <1>8, <1>9, <1>10, <1>11, <1>12, <1>13, <1>14, <1>15, <1>16, <1>17, <1>18, <1>19 DEF Next

\* A step keeps what is being taken over in the cache.
LEMMA TakenFirstStep ==
    ASSUME TypeOK, TakenFirst, [Next]_vars
    PROVE  TakenFirst'
<1> USE MaintenanceAssumption DEF TypeOK, TakenFirst, To, Cached, repoVars, runVars, ctlVars, envVars
<1>1. CASE Start
  BY <1>1 DEF Start
<1>2. CASE Main
  BY <1>2 DEF Main
<1>3. CASE Unprepared
  BY <1>3 DEF Unprepared
<1>4. CASE WriteIdentities
  BY <1>4 DEF WriteIdentities
<1>5. CASE Register
  BY <1>5 DEF Register
<1>6. CASE Unlink
  BY <1>6 DEF Unlink
<1>7. CASE Adopted
  BY <1>7 DEF Adopted
<1>8. CASE Check
  BY <1>8 DEF Check
<1>9. CASE Prune
  BY <1>9 DEF Prune
<1>10. CASE NextStorage
  BY <1>10 DEF NextStorage
<1>11. CASE Probe
  BY <1>11 DEF Probe
<1>12. CASE Done
  BY <1>12 DEF Done
<1>13. CASE Finish
  BY <1>13 DEF Finish
<1>14. CASE Stop
  BY <1>14 DEF Stop
<1>15. CASE Kill
  BY <1>15 DEF Kill
<1>16. CASE Reconfigure
  BY <1>16 DEF Reconfigure
<1>17. CASE \E n \in Names : ClearCache(n)
  BY <1>17 DEF ClearCache, Stale
<1>18. CASE \E c \in Collections : Take(c)
  BY <1>18 DEF Take, Ours
<1>19. CASE UNCHANGED vars
  BY <1>19 DEF vars
<1>20. QED
  BY <1>1, <1>2, <1>3, <1>4, <1>5, <1>6, <1>7, <1>8, <1>9, <1>10, <1>11, <1>12, <1>13, <1>14, <1>15, <1>16, <1>17, <1>18, <1>19 DEF Next

\* A step takes a collection out of service repositories and caches only when a prune has
\* finished it, or its storage is elsewhere in the configuration this run has read.
LEMMA FossilsStep ==
    ASSUME IndInv, [Next]_vars, NEW c \in Collections,
           c \in legacy \cup UNION {fossils[n] : n \in Names},
           c \notin legacy' \cup UNION {fossils'[n] : n \in Names}
    PROVE  c \in finished' \/ urls[OfName[c]] # OfURL[c]
<1> USE MaintenanceAssumption DEF IndInv, TypeOK, Identified, InRun, TakenFirst, To, Cached, repoVars, runVars, ctlVars, envVars
<1>1. CASE Start
  BY <1>1 DEF Start
<1>2. CASE Main
  BY <1>2 DEF Main
<1>3. CASE Unprepared
  BY <1>3 DEF Unprepared
<1>4. CASE WriteIdentities
  BY <1>4 DEF WriteIdentities
<1>5. CASE Register
  BY <1>5 DEF Register
<1>6. CASE Unlink
  BY <1>6 DEF Unlink
<1>7. CASE Adopted
  BY <1>7 DEF Adopted
<1>8. CASE Check
  BY <1>8 DEF Check
<1>9. CASE Prune
  BY <1>9 DEF Prune
<1>10. CASE NextStorage
  BY <1>10 DEF NextStorage
<1>11. CASE Probe
  BY <1>11 DEF Probe
<1>12. CASE Done
  BY <1>12 DEF Done
<1>13. CASE Finish
  BY <1>13 DEF Finish
<1>14. CASE Stop
  BY <1>14 DEF Stop
<1>15. CASE Kill
  BY <1>15 DEF Kill
<1>16. CASE Reconfigure
  BY <1>16 DEF Reconfigure
<1>17. CASE \E n \in Names : ClearCache(n)
  BY <1>17 DEF ClearCache, Stale
<1>18. CASE \E d \in Collections : Take(d)
  BY <1>18 DEF Take, Ours
<1>19. CASE UNCHANGED vars
  BY <1>19 DEF vars
<1>20. QED
  BY <1>1, <1>2, <1>3, <1>4, <1>5, <1>6, <1>7, <1>8, <1>9, <1>10, <1>11, <1>12, <1>13, <1>14, <1>15, <1>16, <1>17, <1>18, <1>19 DEF Next

-------------------------------------------------------------------------------
\* IndInv is an invariant.
LEMMA MaintenanceInductive == Spec => []IndInv
<1>1. Init => IndInv
  <2> SUFFICES ASSUME Init PROVE IndInv
    OBVIOUS
  <2>1. /\ pruned \in BOOLEAN /\ woken \in BOOLEAN
        /\ stopReq \in BOOLEAN /\ flag \in BOOLEAN /\ record \in BOOLEAN
    BY DEF Init
  <2>2. TypeOK
    BY <2>1, MaintenanceAssumption DEF Init, TypeOK, Names, Primary
  <2>3. InRange /\ Identified /\ InRun /\ TakenFirst
    BY DEF Init, InRange, Identified, InRun, TakenFirst
  <2>4. QED
    BY <2>2, <2>3 DEF IndInv
<1>2. IndInv /\ [Next]_vars => IndInv'
  BY TypingStep, IdentifiedStep, TakenFirstStep DEF IndInv
<1>3. QED
  BY <1>1, <1>2, PTL DEF Spec

\* Every variable keeps its type.
THEOREM MaintenanceTyping == Spec => []TypeOK
<1>1. IndInv => TypeOK
  BY DEF IndInv
<1>2. QED
  BY <1>1, MaintenanceInductive, PTL

\* duplicacy never works with another storage's cache, whatever changes of configuration
\* and kills came between the runs (prepare, readIdentities).
THEOREM MaintenanceCacheTrue == Spec => []CacheTrue
<1>1. IndInv => CacheTrue
  BY DEF IndInv, TypeOK, Identified, InRun, CacheTrue
<1>2. QED
  BY <1>1, MaintenanceInductive, PTL

\* Taking fossil collections over, clearing caches and kills in between lose none whose
\* storage is where it was (adoptFrom, prepare).
THEOREM MaintenanceFossilsKept == Spec => FossilsKept
<1>1. IndInv /\ [Next]_vars =>
        [\A c \in Collections :
           LET held == legacy \cup UNION {fossils[n] : n \in Names}
           IN  c \in held /\ c \notin held' => c \in finished' \/ urls[OfName[c]] # OfURL[c]]_vars
  BY FossilsStep
<1>2. QED
  BY <1>1, MaintenanceInductive, PTL DEF Spec, FossilsKept

===============================================================================
