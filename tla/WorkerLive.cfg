\* A copy window closing and opening on a worker that is paused, stopped, woken and
\* failing; left alone it catches up.
SPECIFICATION FairSpec
CONSTANTS
    HasWindow = TRUE
    MaxBackups = 1
    MaxStops = 1
    MaxPauses = 1
    MaxCloses = 1
    MaxFails = 1
    MaxRestarts = 0
PROPERTY CatchesUp
CHECK_DEADLOCK FALSE
