\* Each kind of run: one and, should it be killed or end, the next, and two commands at
\* a time, any number in all.
SPECIFICATION FairSpec
CONSTANTS
    Kinds = {"backup", "drill", "check"}
    MaxRuns = 2
    Cmds = {c1, c2}
INVARIANT PausedFrozen
INVARIANT FrozenPaused
INVARIANT CleanupRuns
INVARIANT OneCheck
PROPERTY StopEnds
CHECK_DEADLOCK FALSE
