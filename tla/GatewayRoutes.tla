---------------------------- MODULE GatewayRoutes ----------------------------
(***************************************************************************)
(* The routes half of a gateway's agent: the GatewayReconciler             *)
(* (reconcilers/routes/gateway.go) that RoutesUpdater drives, with the     *)
(* host's global routing table.  A pass is one call of SyncRoutes, so a    *)
(* case of the updater's select is one action.                             *)
(*                                                                         *)
(* All the reconciler looks at in an overlay is its community: a snapshot  *)
(* maps overlays to communities, 0 if there is none.  netlink is a stub,   *)
(* modelled from its interface: SyncRoutes sets the table or fails.        *)
(***************************************************************************)
EXTENDS Integers, RoutesUpdater

CONSTANT MaxFaults   \* bound: failing calls of SyncRoutes

VARIABLES
    errs,     \* the last Reconcile failed
    table,    \* host: the prefixes of table 0
    faults

activeCommunities(overlays) == {overlays[o] : o \in DOMAIN overlays} \ {0}

routeMatchesCommunities(communities, active) ==
    \E i \in DOMAIN communities : communities[i] \in active

buildDesiredRoutes(routes, active) ==
    {p \in DOMAIN routes : routeMatchesCommunities(routes[p], active)}

\* Reconcile with the learned routes and the overlays that the receive leaves.
Reconcile(routes, overlays) ==
    \/ /\ table' = buildDesiredRoutes(routes, activeCommunities(overlays))
       /\ errs' = FALSE /\ UNCHANGED faults
    \/ /\ faults < MaxFaults /\ faults' = faults + 1
       /\ errs' = TRUE /\ UNCHANGED table

\* Mutant of TakeSnapshot: a snapshot is kept for the next event to use.
TakeSnapshotOnly == ReceiveSnapshot /\ UNCHANGED <<errs, table, faults>>

TakeSnapshot == ReceiveSnapshot /\ Reconcile(learned, Head(snapshots))

\* Mutant of TakeEvent: a route that is not active yet is not remembered.
TakeEventOfActive ==
    LET ev == Head(bgpEvents)
        known == IF routeMatchesCommunities(ev[2], activeCommunities(latest))
                 THEN ApplyEvent(ev) ELSE ApplyEvent(<<ev[1], <<>>>>)
    IN  /\ bgpEvents # <<>> /\ bgpEvents' = Tail(bgpEvents)
        /\ learned' = known /\ UNCHANGED <<snapshots, latest>>
        /\ Reconcile(known, latest)

TakeEvent == ReceiveEvent /\ Reconcile(ApplyEvent(Head(bgpEvents)), latest)
=============================================================================
