\* Stops, pauses, wakes and failures, and a restart, without a copy window.
SPECIFICATION Spec
CONSTANTS
    HasWindow = FALSE
    MaxBackups = 2
    MaxStops = 1
    MaxPauses = 1
    MaxCloses = 0
    MaxFails = 1
    MaxRestarts = 1
INVARIANT StopHolds
INVARIANT PauseHolds
INVARIANT CheckGivesWay
INVARIANT IdleCaughtUp
CHECK_DEADLOCK FALSE
