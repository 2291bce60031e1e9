\* One run and two commands: a pause recorded as a stop comes.
SPECIFICATION FairSpec
CONSTANTS
    Kinds = {"backup"}
    MaxRuns = 1
    Cmds = {c1, c2}
PROPERTY StopAlwaysEnds
CHECK_DEADLOCK FALSE
