\* A primary gateway; two overlays, one with a peer; one fault in either loop, one restart.
SPECIFICATION AgentSpec
CONSTANTS
    o1 = o1
    o2 = o2
    a1 = a1
    Overlays = {o1, o2}
    PeersOf <- MCPeers
    NodeIPs = {}
    IsSecondary = FALSE
    MaxCommunity = 2
    MaxChanges = 2
    MaxEvents = 1
    MaxFaults = 1
    MaxRestarts = 1
INVARIANTS
    AgentTypeOK
    SettledTableMatches
    OwnPoliciesResolve
PROPERTIES
    EventuallyQuiet
CHECK_DEADLOCK FALSE
