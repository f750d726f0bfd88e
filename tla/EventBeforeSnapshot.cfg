\* Expected to fail: a restarted agent hears BGP before the mediator.
SPECIFICATION Spec
CONSTANTS
    Overlays = {o1, o2}
    Vips = {v1}
    Pods = {p1}
    NoPod = NoPod
    Prefixes = {x1}
    Routes <- MCRoutes
    MaxCommunity = 2
    MaxChanges = 1
    MaxEvents = 1
    MaxFaults = 0
    MaxRestarts = 1
PROPERTIES
    LiveStateKept
CHECK_DEADLOCK FALSE
