\* One pane, two chunks, one frame of input, channels and a socket of one.
SPECIFICATION FairSpec
CONSTANTS
    Conn = {c1}
    MaxOut = 2
    MaxKeys = 1
    ChanCap = 1
    CtlCap = 1
    WireCap = 1
PROPERTIES
    PaneCatchesUp
    PaneLearnsOfExit
    ClosedPaneDetaches
CHECK_DEADLOCK FALSE
INVARIANTS
    ShownInOrder
    NoGapUnlessDropped
    NoLostWakeup
    ClosedIsDetached
