SPECIFICATION FairSpec
CONSTANTS
    MaxRuns = 2
    MaxChanges = 1
    Descendants = {c1}
INVARIANTS
    TypeOK
    OwnedProcessesEnd
    PassIsEarned
PROPERTIES
    EveryGateEnds
CHECK_DEADLOCK FALSE
