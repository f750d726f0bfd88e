---------------------------- MODULE RoutesUpdater ----------------------------
(***************************************************************************)
(* RoutesUpdater.Run (bgp/routes_updater.go), which selects on overlay     *)
(* snapshots and BGP route events and calls the routes reconciler of the   *)
(* agent's mode after either.  This is the receiving half of the two       *)
(* cases; InternalRoutes and GatewayRoutes add the Reconcile that follows. *)
(*                                                                         *)
(* A route event is a prefix and the list of the route's communities.      *)
(* The empty list withdraws the prefix: a route without a community is     *)
(* installed nowhere, in either mode.                                      *)
(***************************************************************************)
EXTENDS Sequences

VARIABLES
    snapshots,  \* the updater's snapshot channel (capacity 1)
    bgpEvents,  \* the BGP server's event channel
    latest,     \* Run's local `latest'; nil is the empty snapshot
    learned     \* the reconciler's `learned': prefix -> communities

\* The first case of the select.
ReceiveSnapshot ==
    /\ snapshots # <<>>
    /\ latest' = Head(snapshots) /\ snapshots' = Tail(snapshots)
    /\ UNCHANGED <<bgpEvents, learned>>

\* Mutant of ApplyEvent: withdrawals are ignored.
ApplyEventIgnoresWithdrawn(ev) ==
    IF ev[2] = <<>> THEN learned ELSE [learned EXCEPT ![ev[1]] = ev[2]]

ApplyEvent(ev) == [learned EXCEPT ![ev[1]] = ev[2]]

\* The second case: latest stays what the last snapshot made it.
ReceiveEvent ==
    /\ bgpEvents # <<>>
    /\ learned' = ApplyEvent(Head(bgpEvents)) /\ bgpEvents' = Tail(bgpEvents)
    /\ UNCHANGED <<snapshots, latest>>
=============================================================================
