\* A local prune that outlives the maintenance process.
SPECIFICATION OrphanSpec
CONSTANTS
    Primary = local
    Targets = {offsite}
    IDs = {svc1, svc2}
    Configured = {svc1}
    AnyID = star
    Restores = {}
    Drills = {drill}
    Doctors = {}
    DeepChecks = {}
    Forget = forgetter
    Nobody = nobody
    MaxRev = 2
INVARIANT InUseKept
