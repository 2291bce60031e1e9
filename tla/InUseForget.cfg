\* A forget whose plan is out of date when it acts.
SPECIFICATION Spec
CONSTANTS
    Primary = local
    Targets = {offsite}
    IDs = {svc1, svc2}
    Configured = {svc1}
    AnyID = star
    Restores = {}
    Drills = {}
    Doctors = {}
    DeepChecks = {}
    Forget = forgetter
    Nobody = nobody
    MaxRev = 2
INVARIANT ForgottenGone
