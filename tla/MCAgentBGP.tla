------------------------------ MODULE MCAgentBGP ------------------------------
(* AgentBGP with overlays that may all list the same peer.                   *)
EXTENDS AgentBGP, TLC

CONSTANT a1

MCPeers == [o \in Overlays |-> {a1}]

\* Overlays differ in nothing but their name; what orders them is `order'.
OverlaySymmetry == Permutations(Overlays)
=============================================================================
