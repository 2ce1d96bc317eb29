\* The single-threaded World where a step of World::Register may throw and
\* the client catches the exception: a later view over the table of the
\* failed construction, as P4/P5 of the spec promise it.
CONSTANTS
    Components <- MCComponents
    Shapes <- MCShapes
    HasDefault <- MCHasDefault
    Queries <- MCQueries
    Handles = {h1, h2}
    MaxId = 3
    ZeroValue = zero
    DefaultValue = dflt
    SetValues = {v1}
    MoveHandles = FALSE
    Throws = TRUE
SPECIFICATION Spec
INVARIANT ViewSound
