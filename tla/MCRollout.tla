------------------------------ MODULE MCRollout ------------------------------
(* Instances of Rollout for TLC: no edges, so that Pods do not matter.       *)
EXTENDS Rollout

MCNoEdges == [e \in {} |-> {}]
MCOneNode == <<"primary">>
=============================================================================
