\* One session, and a handler that sends to it through a channel of one.
SPECIFICATION FairSpec
CONSTANTS
    NoPid = NoPid
    w1 = w1
    Session = {s1}
    Ext = {}
    Pane = {w1}
    PaneOf <- OnePane
    Pid = {p1, p2}
    CtlCap = 1
    DiskFails = TRUE
PROPERTIES
    HungUpSessionIsDelisted
