SPECIFICATION Spec
CONSTANTS
    NAgents = 2
    NCards = 1
    Ids = {i1, i2, i3}
    ConflictOn <- MCConflictOn
    Tracked = {1}
    Blockable = {1}
    Fragile = {1}
    SeparatePrep = TRUE
    FirstIssues <- MCFromTracker
SYMMETRY MCSymmetry
INVARIANTS
    OneAgentPerCard
