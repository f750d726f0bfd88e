---------------------------- MODULE MCGatewayAgent ----------------------------
(* GatewayAgent with two overlays; o1 may have a peer, and o2 may get the    *)
(* community that o1 had.                                                    *)
EXTENDS GatewayAgent, TLC

CONSTANTS o1, o2, a1

MCPeers == (o1 :> {a1}) @@ (o2 :> {})
=============================================================================
