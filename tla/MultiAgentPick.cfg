SPECIFICATION Spec
CONSTANTS
    NAgents = 2
    NCards = 2
    Ids = {i1, i2}
    ConflictOn <- MCConflictOn
    Tracked = {1}
    Blockable = {1}
    Fragile = {}
    SeparatePrep = FALSE
    FirstIssues <- MCFirstIssues
SYMMETRY MCSymmetry
INVARIANTS
    OneDispatchPerAgent
    TickConverges
PROPERTIES
    OwnerKept
    ImplementsAssignment
