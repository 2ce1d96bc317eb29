\* Entity moves as in MCECSWorldMove.cfg, checking that archetype columns
\* stay in lockstep.
CONSTANTS
    Components <- MCComponents
    Shapes <- MCShapes
    HasDefault <- MCHasDefault
    Queries <- MCQueries
    Handles = {h1, h2}
    MaxId = 2
    ZeroValue = zero
    DefaultValue = dflt
    SetValues = {v1}
    MoveHandles = TRUE
    Throws = FALSE
SPECIFICATION Spec
INVARIANT RowConsistency
