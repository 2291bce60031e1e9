\* A post hook that the next run cannot run.
SPECIFICATION Spec
CONSTANTS
    db = db
    web = web
    alias = alias
    Services <- MCServices
    Groups <- MCGroups
    HasPre = {db}
    HasPost = {db}
    Parallelism = 2
PROPERTY PostHookNext
