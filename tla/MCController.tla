---------------------------- MODULE MCController ----------------------------
(* Instances of NetworkOverlayController for TLC.                          *)
EXTENDS NetworkOverlayController, TLC

CONSTANTS o1, o2, e1, p1, p2

\* The edge e1 selects every pod there is.
MCSelects == (e1 :> Pods)
MCNoEdges == [e \in {} |-> {}]
MCTwoNodes == <<"primary", "unlabeled">>
MCOneNode == <<"primary">>
Symmetry == Permutations(Overlays)
=============================================================================
