\* A stop during duplicacy init.
SPECIFICATION Spec
CONSTANTS
    db = db
    web = web
    alias = alias
    Services <- MCServices
    Groups <- MCGroups
    HasPre = {db}
    HasPost = {db}
    Parallelism = 2
INVARIANT CutShortFirst
