\* The single-threaded World with both kinds of damage the code allows: a
\* step of World::Register may throw (the client catches it and constructs
\* again), and Entity objects are move-constructed, the moved-from object
\* keeping m_id. Whether entities held by one object stay intact.
CONSTANTS
    Components <- MCComponents
    Shapes <- MCShapes
    HasDefault <- MCHasDefault
    Queries <- MCRefinementQueries
    Handles = {h1, h2}
    MaxId = 3
    ZeroValue = zero
    DefaultValue = dflt
    SetValues = {v1}
    MoveHandles = TRUE
    Throws = TRUE
SPECIFICATION Spec
INVARIANT DamageConfined
