\* A destination told of an incident and never of its end.
SPECIFICATION Spec
CONSTANTS
    Callers = {worker, drill}
    Dests = {ntfy}
    Steady = {ntfy}
    MaxFlips = 2
    MaxFaults = 1
INVARIANT RecoveryReaches
