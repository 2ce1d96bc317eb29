\* Two components_view loops racing the construction and destruction of
\* three entities, every caller holding the external mutex the spec
\* requires: each loop sees exactly the live entities, and everyone ends.
CONSTANTS
    t1 = t1
    t2 = t2
    t3 = t3
    v1 = v1
    v2 = v2
    Components <- MCComponents
    Shapes <- MCShapes
    HasDefault <- MCHasDefault
    Threads <- MCThreads
    ThreadShape <- MCThreadShape
    Viewers <- MCViewers
    ViewQuery <- MCViewQuery
    ZeroValue = zero
    DefaultValue = dflt
    NoThread = NoThread
    UseMutex = TRUE

SPECIFICATION Spec

INVARIANT ViewSeesSnapshot
PROPERTY AllDone
