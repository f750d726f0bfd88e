\* Expected to fail: a pod comes back with another IP.
SPECIFICATION Spec
CONSTANTS
    Overlays = {o1, o2}
    Vips = {v1}
    Pods = {p1, p2}
    NoPod = NoPod
    Prefixes = {x1}
    Routes <- MCRoutes
    MaxCommunity = 2
    MaxChanges = 2
    MaxEvents = 0
    MaxFaults = 0
    MaxRestarts = 0
INVARIANTS
    BridgesAreCurrent
CHECK_DEADLOCK FALSE
