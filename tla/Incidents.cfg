\* Two callers and two destinations, one of which comes, goes and is muted.
SPECIFICATION FairSpec
CONSTANTS
    Callers = {worker, drill}
    Dests = {ntfy, apprise}
    Steady = {ntfy}
    MaxFlips = 3
    MaxFaults = 2
INVARIANT HeardOwed
PROPERTY InOrder
PROPERTY OverOnlyToTold
PROPERTY AlertArrives
PROPERTY Settles
