\* Two sessions that share two process ids with the rest of the machine.
SPECIFICATION Spec
CONSTANTS
    NoPid = NoPid
    w1 = w1
    Session = {s1, s2}
    Ext = {}
    Pane = {w1}
    PaneOf <- OnePane
    Pid = {p1, p2}
    CtlCap = 1
    DiskFails = TRUE
SYMMETRY Symmetry
INVARIANTS
    TypeOK
    NoGhostSession
    PidPinned
PROPERTIES
    DelistedShellsSignalled
    ImplementsDirectory
