\* A primary and a secondary with a window, two configurations, one fault and one outage.
SPECIFICATION Spec
CONSTANTS
    NTargets = 2
    Windowed <- MCWindowed
    HasWorkers = TRUE
    Key <- MCKey
    Lacking <- MCLacking
    MaxConf = 2
    MaxFaults = 1
    MaxOutages = 1
INVARIANT CurrentTrue
INVARIANT PrimaryVouched
PROPERTY KitArrives
