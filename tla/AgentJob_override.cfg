SPECIFICATION JobSpec
CONSTANTS
    Runtimes = {"docker"}
    MaxRecovers = 0
    DatabaseMayFail = FALSE
    PairingMayFail = FALSE
PROPERTY
    TerminalIsFinal
CHECK_DEADLOCK FALSE
