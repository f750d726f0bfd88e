\* One overlay, one node; caches one event behind; the old operator may be terminated.
SPECIFICATION RolloutSpec
CONSTANTS
    Overlays = {o1}
    NoOverlay = NoOverlay
    Nodes = {1}
    Pods = {}
    NoPod = NoPod
    Edges = {}
    Selects <- MCNoEdges
    InvalidSelectors = {}
    InitNodes <- MCOneNode
    MaxCommunity = 1
    MaxLag = 1
    MaxDeplLag = 0
    MaxEnv = 2
    MaxFaults = 1
INVARIANTS
    RolloutStatusIsCurrent
    RolloutGatewaysMatch
PROPERTIES
    EventuallyBothAtRest
CHECK_DEADLOCK FALSE
