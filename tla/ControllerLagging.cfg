\* Two overlays, an edge that selects two pods; caches one event behind; one fault.
SPECIFICATION Spec
CONSTANTS
    o1 = o1
    o2 = o2
    e1 = e1
    p1 = p1
    p2 = p2
    Overlays = {o1, o2}
    NoOverlay = NoOverlay
    Nodes = {1, 2}
    Pods = {p1, p2}
    NoPod = NoPod
    Edges = {e1}
    Selects <- MCSelects
    InvalidSelectors = {}
    InitNodes <- MCTwoNodes
    MaxCommunity = 2
    MaxLag = 1
    MaxDeplLag = 1
    MaxEnv = 3
    MaxFaults = 1
INVARIANTS
    RestStatusIsCurrent
    RestGatewaysMatch
PROPERTIES
    EventuallyAtRest
CHECK_DEADLOCK FALSE
