SPECIFICATION FairSpec
CONSTANTS
    STRIKES_MAX = 2
    MaxDispatches = 3
    MaxActs = 2
    MaxFaults = 1
INVARIANTS TypeOK NoLostUpdate
PROPERTIES BreakStands EventuallyEvaluated
\* The dispatches and the operator's acts run out.
CHECK_DEADLOCK FALSE
