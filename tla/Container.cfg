\* Three containers one after the other, with a schedule for backups or none, and a person
\* who runs maintenance and stops runs.
SPECIFICATION FairSpec
CONSTANTS
    MaxEnds = 2
    Schedules = {{}, {"backup"}}
    ByHand = {"maintenance"}
INVARIANT StopSticks
PROPERTY EndsClean
PROPERTY GracefulStop
PROPERTY Resumes
