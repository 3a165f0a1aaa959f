CONSTANTS
    root = root
    child = child
    Surfaces <- MCSurfaces
    Parent <- MCParent
    WlBuffers = {b1}
    NoBuffer = NoBuffer
    Frames = {f1}
    MaxPoint = 2
    MaxQueue = 1
SPECIFICATION FairSpec
INVARIANT TypeOK NothingReleasedInUse NothingReadUnready
PROPERTY EveryReleaseComes QueuesMove KeepsItsPromise
CHECK_DEADLOCK FALSE
