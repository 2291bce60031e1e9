\* The configured drill, one service at a time, and a named one, on two storages.
SPECIFICATION FairSpec
CONSTANTS
    NServices = 3
    Excluded = {2}
    OwnServices = {1}
    NStorages = 2
    Count = 1
    MaxFaults = 2
INVARIANT CopiesKnown
PROPERTY SelectionFinished
PROPERTY Covers
