\* A stop that a closed window overwrites.
SPECIFICATION Spec
CONSTANTS
    HasWindow = TRUE
    MaxBackups = 1
    MaxStops = 1
    MaxPauses = 0
    MaxCloses = 1
    MaxFails = 0
    MaxRestarts = 0
INVARIANT StopHolds
CHECK_DEADLOCK FALSE
