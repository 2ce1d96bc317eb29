\* The single-threaded World where a step of World::Register may throw and
\* the client catches it and constructs again: whether every entity whose
\* constructor returned is still registered and indexed.
CONSTANTS
    Components <- MCComponents
    Shapes <- MCShapes
    HasDefault <- MCHasDefault
    Queries <- MCQueries
    Handles = {h1, h2}
    MaxId = 3
    ZeroValue = zero
    DefaultValue = dflt
    SetValues = {v1}
    MoveHandles = FALSE
    Throws = TRUE
SPECIFICATION Spec
INVARIANT RegisteredLive
