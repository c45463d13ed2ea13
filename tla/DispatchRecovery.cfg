SPECIFICATION FairSpec
CONSTANTS
    MaxDispatches = 3
    MaxFaults = 2
INVARIANTS TypeOK OneAgentOnceUp QueuedReportWins
PROPERTY EventuallySettled
CHECK_DEADLOCK FALSE
