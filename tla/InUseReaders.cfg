\* A restore and a drill (their processes may be killed), the copy worker, the mirror pass
\* and the local prune.
SPECIFICATION Spec
CONSTANTS
    Primary = local
    Targets = {offsite}
    IDs = {svc1}
    Configured = {svc1}
    AnyID = star
    Restores = {restore}
    Drills = {drill}
    Doctors = {}
    DeepChecks = {}
    Forget = forgetter
    Nobody = nobody
    MaxRev = 3
INVARIANT InUseKept
PROPERTY TargetDeletesOnlyPruned
PROPERTY NewestKept
