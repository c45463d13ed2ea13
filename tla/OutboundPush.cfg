SPECIFICATION FairSpec
CONSTANTS
    Entries = {e1, e2}
    FaultKinds = {"limited", "refused", "lost"}
    MaxRev = 2
    MaxFaults = 3
    MaxEvents = 1
    MaxAttempts = 2
INVARIANTS TypeOK OneRetro NoPushForgotten BreakerCostsNoAttempt
CHECK_DEADLOCK FALSE
PROPERTY EventuallyMirrored
