\* One session, one registration, and a disk on which any call may fail.
SPECIFICATION FairSpec
CONSTANTS
    NoPid = NoPid
    w1 = w1
    Session = {s1}
    Ext = {e1}
    Pane = {w1}
    PaneOf <- OnePane
    Pid = {p1, p2}
    CtlCap = 1
    DiskFails = TRUE
INVARIANTS
    FilesMatchSessions
PROPERTIES
    HungUpSessionIsDelistedUnlessJammed
    RemovedSessionTaskEnds
