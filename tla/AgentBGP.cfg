\* A secondary gateway or an internal node; a peer, an internal node's address
\* and a virtual IP that both overlays may have; one fault.
SPECIFICATION AgentSpec
CONSTANTS
    a1 = a1
    Overlays = {o1, o2}
    PeersOf <- MCPeers
    NodeIPs = {n1}
    IsSecondary = TRUE
    GatewayIPs = {g1}
    Vips = {v1}
    MaxCommunity = 2
    MaxChanges = 2
    MaxFaults = 1
INVARIANTS
    AgentTypeOK
    AgentServerMatches
PROPERTIES
    ServerConverges
SYMMETRY OverlaySymmetry
CHECK_DEADLOCK FALSE
