\* Runs, stops, shutdowns, outages and kills: three services in two groups, web with a
\* post hook only.
SPECIFICATION FairSpec
CONSTANTS
    db = db
    web = web
    alias = alias
    Services <- MCServices
    Groups <- MCGroups
    HasPre = {db, alias}
    HasPost = {db, web, alias}
    Parallelism = 2
INVARIANT OwedRecorded
INVARIANT StateKept
PROPERTY PreHookOnce
PROPERTY ShutdownResumes
PROPERTY HooksUndone
