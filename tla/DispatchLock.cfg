SPECIFICATION FairSpec
CONSTANTS
    local1 = local1
    local2 = local2
    laptop = laptop
    Workers = {local1, local2}
    Hosts = {laptop}
    HostOf <- MCHostOf2
    Dispatches = {d1, d2, d3}
    NoDispatch = NoDispatch
    NoComment = NoComment
    MaxCrashes = 1
    MaxReleases = 1
INVARIANTS TypeOK ExclusiveUnlessExcused RunningIsOnRecord
PROPERTY EventuallyWorkedOn
CHECK_DEADLOCK FALSE
