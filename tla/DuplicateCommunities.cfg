\* Expected to fail: allocation from a stale list.
SPECIFICATION Spec
CONSTANTS
    o1 = o1
    o2 = o2
    e1 = e1
    p1 = p1
    p2 = p2
    Overlays = {o1, o2}
    NoOverlay = NoOverlay
    Nodes = {1}
    Pods = {}
    NoPod = NoPod
    Edges = {}
    Selects <- MCNoEdges
    InvalidSelectors = {}
    InitNodes <- MCOneNode
    MaxCommunity = 2
    MaxLag = 1
    MaxDeplLag = 0
    MaxEnv = 2
    MaxFaults = 2
INVARIANTS
    UniqueCommunities
CHECK_DEADLOCK FALSE
