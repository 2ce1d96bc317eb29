\* Single-threaded World: entities created, destroyed, read and written,
\* views iterated, no Entity move construction.
CONSTANTS
    Components <- MCComponents
    Shapes <- MCShapes
    HasDefault <- MCHasDefault
    Queries <- MCQueries
    Handles = {h1, h2, h3}
    MaxId = 3
    ZeroValue = zero
    DefaultValue = dflt
    SetValues = {v1}
    MoveHandles = FALSE
    Throws = FALSE

SPECIFICATION Spec

INVARIANT TypeOK
INVARIANT RowConsistency
INVARIANT RegisteredLive
INVARIANT ViewSound
PROPERTY GetSeesLastWrite
PROPERTY ViewTerminates
