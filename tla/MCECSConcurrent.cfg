\* Concurrent Entity construction and destruction by three threads with the
\* external mutex the spec requires.
CONSTANTS
    t1 = t1
    t2 = t2
    t3 = t3
    v1 = v1
    v2 = v2
    Components <- MCComponents
    Shapes <- MCShapes
    HasDefault <- MCHasDefault
    Threads <- MCThreads
    ThreadShape <- MCThreadShape
    Viewers <- MCNoViewers
    ViewQuery <- MCNoViewQuery
    ZeroValue = zero
    DefaultValue = dflt
    NoThread = NoThread
    UseMutex = TRUE

SPECIFICATION Spec

INVARIANT TypeOK
INVARIANT IdsUnique
INVARIANT ColumnsAgreeOnOrder
INVARIANT ConstructedRegistered
