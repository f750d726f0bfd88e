\* Two overlays created, deleted and re-created, for one community; an edge whose
\* selector does not parse; overlay cache two events behind.
SPECIFICATION Spec
CONSTANTS
    o1 = o1
    o2 = o2
    e1 = e1
    p1 = p1
    p2 = p2
    Overlays = {o1, o2}
    NoOverlay = NoOverlay
    Nodes = {1}
    Pods = {}
    NoPod = NoPod
    Edges = {e1}
    Selects <- MCSelects
    InvalidSelectors = {e1}
    InitNodes <- MCOneNode
    MaxCommunity = 1
    MaxLag = 2
    MaxDeplLag = 0
    MaxEnv = 4
    MaxFaults = 1
SYMMETRY Symmetry
INVARIANTS
    TypeOK
    StatusNeedsFinalizer
    FinalizerInv
CHECK_DEADLOCK FALSE
