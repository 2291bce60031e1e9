----------------------------- MODULE Maintenance ------------------------------
(***************************************************************************)
(* Maintenance (internal/maintenance): a run checks and prunes the primary *)
(* storage and, where no copy worker keeps them, the secondaries, from a   *)
(* repository of its own.  That repository outlives the run: duplicacy's   *)
(* cache there is kept by storage name and trusted, and holds the fossil   *)
(* collections that a later prune is to finish, those of older versions'   *)
(* service repositories included (repo.go).                                *)
(*                                                                         *)
(* Storages are places whose URL the configuration may change between      *)
(* runs.  What check and prune do to a storage is their outcome (see InUse *)
(* for the prune); check-ins, statistics and messages are left out, and so *)
(* are the state file's times, each written as its step succeeds.          *)
(***************************************************************************)
EXTENDS Naturals, FiniteSets

CONSTANTS
    N,           \* the storages, 1 .. N, the primary first
    URLs,        \* where a storage may be
    Collections, \* the fossil collections in the service repositories
    OfName,      \* [Collections -> 1 .. N]: the storage name a collection is kept under
    OfURL,       \* [Collections -> URLs]: where its repository's preferences have that name
    Foreign,     \* the collections reached through a link, or through what others own
    None,        \* no URL
    MaxConfs, MaxKills \* bounds on changed configurations and killed runs

Names == 1 .. N
Primary == 1

ASSUME MaintenanceAssumption ==
    /\ N \in Nat \ {0} /\ {MaxConfs, MaxKills} \subseteq Nat /\ None \notin URLs
    /\ Foreign \subseteq Collections
    /\ OfName \in [Collections -> Names] /\ OfURL \in [Collections -> URLs]

VARIABLES
    conf,     \* each storage's configured URL
    urls,     \* as this run has read it
    known,    \* the identities file: the URL each storage's cache was made for
    cacheURL, \* the storage each cache really is of, None without a cache
    fossils,  \* the collections in each cache
    legacy,   \* the collections still in the service repositories
    pc, i,    \* where the run is, and at which storage
    upTo,     \* the last storage this run maintains
    taking,   \* the collection written and not yet removed from where it was, or None
    pruned,   \* the run saw that its prune deleted revisions of the primary
    woken,    \* the copy workers were told
    stopReq, flag, record, \* as in Drills
    confs, kills, \* how much of the bounds is used
    finished  \* history: the collections a prune has finished

repoVars == <<known, cacheURL, fossils, legacy>>
runVars == <<urls, upTo, taking, pruned, woken>>
ctlVars == <<stopReq, flag, record>>
envVars == <<conf, confs, kills>>
vars == <<repoVars, runVars, ctlVars, envVars, pc, i, finished>>

TypeOK ==
    /\ conf \in [Names -> URLs] /\ urls \in [Names -> URLs]
    /\ known \in [Names -> URLs \cup {None}] /\ cacheURL \in [Names -> URLs \cup {None}]
    /\ fossils \in [Names -> SUBSET Collections] /\ legacy \subseteq Collections
    /\ pc \in {"idle", "main", "clear", "register", "adopt", "probe", "check", "prune", "next",
               "done", "stopped", "failed", "completed"}
    /\ i \in Names /\ upTo \in Names /\ taking \in Collections \cup {None}
    /\ pruned \in BOOLEAN /\ woken \in BOOLEAN
    /\ stopReq \in BOOLEAN /\ flag \in BOOLEAN /\ record \in BOOLEAN
    /\ confs \in 0 .. MaxConfs /\ kills \in 0 .. MaxKills /\ finished \subseteq Collections

Init ==
    /\ conf \in [Names -> URLs] /\ urls = conf
    /\ known = [n \in Names |-> None] /\ cacheURL = [n \in Names |-> None]
    /\ fossils = [n \in Names |-> {}] /\ legacy = Collections
    /\ pc = "idle" /\ i = Primary /\ upTo = N
    /\ taking = None /\ pruned = FALSE /\ woken = FALSE
    /\ stopReq = FALSE /\ flag = FALSE /\ record = FALSE
    /\ confs = 0 /\ kills = 0 /\ finished = {}

-------------------------------------------------------------------------------
(* The run's start *)

\* The lock is taken, the run recorded, and the configuration read.
Start ==
    /\ pc = "idle"
    /\ urls' = conf /\ record' = TRUE /\ stopReq' = FALSE
    /\ i' = Primary /\ taking' = None /\ pruned' = FALSE /\ woken' = FALSE
    /\ pc' = "main"
    /\ UNCHANGED <<upTo, repoVars, flag, envVars, finished>>

\* Go on to a step, or end where a stop is found.
To(step) == pc' = IF stopReq THEN "stopped" ELSE step

\* main: the workers are asked whether they keep the secondaries, and the primary is
\* probed; one that cannot be reached fails the run.
Main ==
    /\ pc = "main"
    /\ upTo' \in {Primary, N}
    /\ To("clear") \/ pc' = "failed"
    /\ UNCHANGED <<repoVars, urls, taking, pruned, woken, i, ctlVars, envVars, finished>>

-------------------------------------------------------------------------------
(* The repository: prepare, addSecondary, register, adopt *)

\* Mutant of Stale: identities that cannot be read are taken for none.
StaleUnread(n) == cacheURL[n] # None

\* A cache whose storage is now elsewhere.
Stale(n) == cacheURL[n] # None /\ known[n] # urls[n]

\* prepare: the stale caches go, one after the other, with the collections in them.
ClearCache(n) ==
    /\ pc = "clear" /\ Stale(n)
    /\ cacheURL' = [cacheURL EXCEPT ![n] = None]
    /\ fossils' = [fossils EXCEPT ![n] = {}]
    /\ UNCHANGED <<known, legacy, runVars, ctlVars, envVars, pc, i, finished>>

\* Mutant of Cleared: the identities are written first.
ClearedNot == TRUE

\* No stale cache is left.
Cleared == \A n \in Names : ~ Stale(n)

\* readIdentities fails the run where the file cannot be read, and so does a directory.
Unprepared ==
    /\ pc = "clear"
    /\ pc' = "failed"
    /\ UNCHANGED <<repoVars, runVars, ctlVars, envVars, i, finished>>

\* The identities are written before any cache is, and after the stale ones have gone.
WriteIdentities ==
    /\ pc = "clear" /\ Cleared
    /\ known' = urls
    /\ pc' = "register"
    /\ UNCHANGED <<cacheURL, fossils, legacy, runVars, ctlVars, envVars, i, finished>>

\* register, under the storage's creation lock.  The primary must succeed; a secondary
\* that fails is left out.
Register ==
    /\ pc = "register"
    /\ \/ To("adopt") /\ UNCHANGED i
       \/ i = Primary /\ pc' = "failed" /\ UNCHANGED i
       \/ i # Primary /\ IF i = upTo THEN pc' = "done" /\ UNCHANGED i ELSE pc' = "probe" /\ i' = i + 1
    /\ UNCHANGED <<repoVars, runVars, ctlVars, envVars, finished>>

\* openOwned, readOwned: a service directory belongs to others; only what is Archiver's own
\* from .duplicacy down is taken from it.
Owned(c) == c \notin Foreign

\* sameStorage: the service repository has this name at the URL this run uses.
Ours(c) == OfName[c] = i /\ OfURL[c] = urls[i] /\ Owned(c)

\* duplicacy, and the first collection taken, make the cache of the storage at hand.
Cached == [cacheURL EXCEPT ![i] = IF @ = None THEN urls[i] ELSE @]

\* adoptFrom: a collection is written into the repository's cache, whole ...
Take(c) ==
    /\ pc = "adopt" /\ taking = None /\ c \in legacy /\ Ours(c)
    /\ fossils' = [fossils EXCEPT ![i] = @ \cup {c}]
    /\ cacheURL' = Cached
    /\ taking' = c
    /\ UNCHANGED <<known, legacy, urls, upTo, pruned, woken, ctlVars, envVars, pc, i, finished>>

\* ... and then removed from where it was.
Unlink ==
    /\ pc = "adopt" /\ taking # None
    /\ legacy' = legacy \ {taking}
    /\ taking' = None
    /\ UNCHANGED <<known, cacheURL, fossils, urls, upTo, pruned, woken, ctlVars, envVars, pc, i, finished>>

\* A stop is looked for before the storage's own check and prune.
Adopted ==
    /\ pc = "adopt" /\ taking = None /\ \A c \in legacy : ~ Ours(c)
    /\ To("check")
    /\ UNCHANGED <<repoVars, runVars, ctlVars, envVars, i, finished>>

-------------------------------------------------------------------------------
(* A storage's check and prune *)

\* storage: a check that passes or fails, and the probe before the prune.
Check ==
    /\ pc = "check"
    /\ cacheURL' = Cached
    /\ To("prune") \/ (~ stopReq /\ pc' = "next")
    /\ UNCHANGED <<known, fossils, legacy, runVars, ctlVars, envVars, i, finished>>

\* The prune finishes some of the collections, or fails, or is ended by a stop; what it
\* deleted shows only in two good listings.
Prune ==
    /\ pc = "prune"
    /\ cacheURL' = Cached
    /\ \E done \in SUBSET fossils[i] :
         /\ fossils' = [fossils EXCEPT ![i] = @ \ done]
         /\ finished' = finished \cup done
    /\ pruned' \in IF i = Primary /\ ~ stopReq THEN {pruned, TRUE} ELSE {pruned}
    /\ To("next")
    /\ UNCHANGED <<known, legacy, urls, upTo, taking, woken, ctlVars, envVars, i>>

\* On to the next storage, if this run maintains it and it can be reached.
NextStorage ==
    /\ pc = "next"
    /\ IF i = upTo THEN pc' = "done" /\ UNCHANGED i ELSE pc' = "probe" /\ i' = i + 1
    /\ UNCHANGED <<repoVars, runVars, ctlVars, envVars, finished>>

Probe ==
    /\ pc = "probe"
    /\ To("register") \/ (~ stopReq /\ pc' = "next")
    /\ UNCHANGED <<repoVars, runVars, ctlVars, envVars, i, finished>>

-------------------------------------------------------------------------------
(* The end *)

\* The last look for a stop; the workers hear of a prune.
Done ==
    /\ pc = "done"
    /\ To("completed")
    /\ woken' \in IF ~ stopReq /\ pruned THEN BOOLEAN ELSE {FALSE}
    /\ UNCHANGED <<repoVars, urls, upTo, taking, pruned, ctlVars, envVars, i, finished>>

\* finish: a stop for a shutdown keeps the record.
Finish ==
    /\ pc \in {"stopped", "failed", "completed"}
    /\ record' = (pc = "stopped" /\ flag)
    /\ pc' = "idle" /\ stopReq' = FALSE
    /\ UNCHANGED <<repoVars, runVars, flag, envVars, i, finished>>

\* archiver stop, by a person or by the container's shutdown.
Stop ==
    /\ pc # "idle" /\ ~ stopReq
    /\ stopReq' = TRUE /\ flag' \in {flag, TRUE}
    /\ UNCHANGED <<repoVars, runVars, record, envVars, pc, i, finished>>

\* The run is killed: what it has written stays.
Kill ==
    /\ pc # "idle" /\ kills < MaxKills
    /\ kills' = kills + 1
    /\ pc' = "idle" /\ flag' = FALSE
    /\ UNCHANGED <<repoVars, runVars, stopReq, record, conf, confs, i, finished>>

\* A container started with storages elsewhere.
Reconfigure ==
    /\ pc = "idle" /\ confs < MaxConfs
    /\ confs' = confs + 1
    /\ conf' \in [Names -> URLs] /\ flag' = FALSE
    /\ UNCHANGED <<repoVars, runVars, stopReq, record, kills, pc, i, finished>>

-------------------------------------------------------------------------------
Next ==
    \/ Start \/ Main \/ (\E n \in Names : ClearCache(n)) \/ Unprepared \/ WriteIdentities
    \/ Register \/ (\E c \in Collections : Take(c)) \/ Unlink \/ Adopted
    \/ Check \/ Prune \/ NextStorage \/ Probe \/ Done \/ Finish
    \/ Stop \/ Kill \/ Reconfigure

Spec == Init /\ [][Next]_vars

-------------------------------------------------------------------------------
(* Properties *)

\* duplicacy never works with another storage's cache under this storage's name, whatever
\* changes of configuration and kills came between the runs (prepare, readIdentities).
CacheTrue ==
    pc \in {"check", "prune"} \/ (pc = "adopt" /\ fossils[i] # {}) => cacheURL[i] \in {None, urls[i]}

\* A collection is in a service repository or in the cache until a prune has finished it or
\* a run finds its storage elsewhere: taking it over, and a kill meanwhile, never loses it
\* (adoptFrom, prepare).
FossilsKept ==
    [][\A c \in Collections :
         LET held == legacy \cup UNION {fossils[n] : n \in Names}
         IN  c \in held /\ c \notin held' => c \in finished' \/ urls[OfName[c]] # OfURL[c]]_vars

===============================================================================
