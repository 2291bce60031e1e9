\* A primary and a secondary with a window, two configurations, no faults or outages.
SPECIFICATION Spec
CONSTANTS
    NTargets = 2
    Windowed <- MCWindowed
    HasWorkers = TRUE
    Key <- MCKey
    Lacking <- MCLacking
    MaxConf = 2
    MaxFaults = 0
    MaxOutages = 0
INVARIANT CurrentOpens
