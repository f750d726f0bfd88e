\* Two cluster changes, two BGP events, one fault, one restart of the agent.
SPECIFICATION Spec
CONSTANTS
    Overlays = {o1, o2}
    Vips = {v1}
    Pods = {p1}
    NoPod = NoPod
    Prefixes = {x1}
    Routes <- MCRoutes
    MaxCommunity = 2
    MaxChanges = 2
    MaxEvents = 2
    MaxFaults = 1
    MaxRestarts = 1
INVARIANTS
    TypeOK
    SettledHostMatches
PROPERTIES
    HostConverges
    LiveStateKeptUntilRestart
SYMMETRY OverlaySymmetry
CHECK_DEADLOCK FALSE
