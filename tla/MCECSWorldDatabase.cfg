\* Single-threaded World without moves, checked against the abstract
\* EntityDatabase through the refinement mapping of ECSWorld.
CONSTANTS
    Components <- MCComponents
    Shapes <- MCShapes
    HasDefault <- MCHasDefault
    Queries <- MCRefinementQueries
    Handles = {h1, h2, h3}
    MaxId = 3
    ZeroValue = zero
    DefaultValue = dflt
    SetValues = {v1}
    MoveHandles = FALSE
    Throws = FALSE

SPECIFICATION Spec

PROPERTY ImplementsDatabase
