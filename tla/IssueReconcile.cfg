SPECIFICATION FairSpec
CONSTANTS
    p = p
    c = c
    d = d
    Cards = {p, c, d}
    Epics = {p}
    Kids <- MCKids
    Dependents <- MCDependents
    FirstDocs <- MCFirstDocs
    Destinations = {"ToDo", "Done"}
    Handlers = {h1}
    MAX_RECURSION_DEPTH = 5
    MaxEdits = 2
INVARIANTS TypeOK SkipSound WaitsFollowCards
PROPERTIES EventuallyAtRest EventuallyRolledUp EventuallyFiled
CHECK_DEADLOCK FALSE
