SPECIFICATION JobFairSpec
CONSTANTS
    Runtimes = {"docker", "host"}
    MaxRecovers = 1
    DatabaseMayFail = TRUE
    PairingMayFail = TRUE
INVARIANTS
    JobTypeOK
    OneTeardown
    RowMatchesJob
PROPERTY
    EventuallyComplete
\* a job ends: nothing is left to do
CHECK_DEADLOCK FALSE
