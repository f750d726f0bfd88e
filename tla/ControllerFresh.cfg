\* Two overlays, an edge and a pod; caches up to date at every step; one fault.
SPECIFICATION Spec
CONSTANTS
    o1 = o1
    o2 = o2
    e1 = e1
    p1 = p1
    p2 = p2
    Overlays = {o1, o2}
    NoOverlay = NoOverlay
    Nodes = {1, 2}
    Pods = {p1}
    NoPod = NoPod
    Edges = {e1}
    Selects <- MCSelects
    InvalidSelectors = {}
    InitNodes <- MCTwoNodes
    MaxCommunity = 2
    MaxLag = 0
    MaxDeplLag = 0
    MaxEnv = 4
    MaxFaults = 1
SYMMETRY Symmetry
INVARIANTS
    UniqueCommunities
    RestDeploymentsMatch
PROPERTIES
    
    TeardownBeforeRemoval
CHECK_DEADLOCK FALSE
