SPECIFICATION FairSpec
CONSTANT
    MaxStallResumes = 3
INVARIANTS
    TypeOK
    OneProcess
    StopReachesLiveJob
PROPERTY
    LockEventuallyReleased
\* a dispatch ends: nothing is left to do
CHECK_DEADLOCK FALSE
