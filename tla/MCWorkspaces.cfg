SPECIFICATION Spec
CONSTANTS
    Session = {s1}
    None = None
    Start <- MCStart
    MaxPanes = 3
    MaxPending = 1
INVARIANTS
    TypeOK
    OnePlace
    InfosAligned
    RoutesHold
PROPERTIES
    OnlyAMissedMergeUnhouses
    ConfirmedCloseHitsItsPane
    PanesStay
