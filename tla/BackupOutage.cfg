\* A shutdown while the primary is down.
SPECIFICATION Spec
CONSTANTS
    db = db
    web = web
    alias = alias
    Services <- MCServices
    Groups <- MCGroups
    HasPre = {db}
    HasPost = {db}
    Parallelism = 2
PROPERTY ShutdownKeepsRecord
