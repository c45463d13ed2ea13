SPECIFICATION FairSpec
CONSTANTS
    Repos = {r1, r2}
    MaxAsked = 3
    MaxImmediates = 2
INVARIANTS SingleFlight NoPokeLost
PROPERTIES ImplementsDemand EveryPokeServed
\* the bound MaxAsked ends every behaviour
CHECK_DEADLOCK FALSE
