\* The single-threaded World, checking the entity registry against the
\* archetype store as section 8 (P3) of the spec states it.
CONSTANTS
    Components <- MCComponents
    Shapes <- MCShapes
    HasDefault <- MCHasDefault
    Queries <- MCQueries
    Handles = {h1, h2, h3}
    MaxId = 3
    ZeroValue = zero
    DefaultValue = dflt
    SetValues = {v1}
    MoveHandles = FALSE
    Throws = FALSE
SPECIFICATION Spec
INVARIANT EntityRegistryConsistent
