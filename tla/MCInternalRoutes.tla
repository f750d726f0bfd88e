--------------------------- MODULE MCInternalRoutes ---------------------------
(* InternalRoutes with two overlays, one virtual IP and two communities.    *)
EXTENDS InternalRoutes, TLC

\* A route of each community and one of both.
MCRoutes == {<<>>, <<1>>, <<2, 1>>}

\* Overlays differ in nothing but their name, and no definition orders them.
OverlaySymmetry == Permutations(Overlays)
=============================================================================
