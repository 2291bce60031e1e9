\* The doctor key probe and a deep check against forget and both prunes, with --allow-large.
SPECIFICATION Spec
CONSTANTS
    Primary = local
    Targets = {offsite}
    IDs = {svc2}
    Configured = {}
    AnyID = star
    Restores = {}
    Drills = {}
    Doctors = {doctor}
    DeepChecks = {deep}
    Forget = forgetter
    Nobody = nobody
    MaxRev = 2
INVARIANT InUseKept
PROPERTY NoRecopy
