\* Two hook processes, a pane that prompts; no rules at first, or a deny rule.
SPECIFICATION Spec
CONSTANTS
    c1 = c1
    c2 = c2
    p1 = p1
    w1 = w1
    w2 = w2
    read = read
    write = write
    Client = {c1, c2}
    Pane = {p1}
    Workspace = {w1, w2}
    Workspaces <- TwoWorkspaces
    HomeOf <- AllInSecond
    Kind = {read, write}
    KindOf <- Asks
    Covers <- ExactRules
    RuleFiles <- NoneOrDenyWrite
    MaxRequests = 1
    MaxEvents = 1
INVARIANTS
    DeferredArePending
    AnswersMatchDecisions
PROPERTIES
    DecisionsAreFinal
