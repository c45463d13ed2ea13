SPECIFICATION Spec
CONSTANTS
    p = p
    c = c
    d = d
    Cards = {p, c, d}
    Epics = {p}
    Kids <- MCKids
    Dependents <- MCDependents
    FirstDocs <- MCFirstDocs
    Destinations = {"InProgress"}
    Handlers = {h1}
    MAX_RECURSION_DEPTH = 5
    MaxEdits = 1
PROPERTY HoldKept
CHECK_DEADLOCK FALSE
