----------------------------- MODULE InternalBGP -----------------------------
(***************************************************************************)
(* The BGP half of an internal node's agent: the snapshot loop of          *)
(* controllers/internalnode/manager.go and the InternalReconciler it calls *)
(* (reconcilers/bgp/internalnode.go), with the neighbors, policies and     *)
(* advertised prefixes of the BGP server.                                  *)
(*                                                                         *)
(* Mediator and BGP server are external, as in GatewayBGP.                 *)
(*                                                                         *)
(* Simplifications: the edges of an overlay are the Ready ones of this     *)
(* node, named by their virtual IP; an overlay without a community has no  *)
(* edges yet but may have gateways; neighbors differ in their address only *)
(* (ASN and iBGP flag are constants of the node).                          *)
(***************************************************************************)
EXTENDS Integers, Sequences, KeyedSync

CONSTANTS
    Overlays,       \* names of NetworkOverlays
    GatewayIPs,     \* NodeIPs in status.gateways
    Vips,           \* virtual IPs of edges on this node
    MaxCommunity,   \* largest community number
    MaxChanges,     \* bound: changes of the cluster
    MaxFaults       \* bound: steps of Reconcile in which calls fail

ASSUME ConstantsAssumption ==
    /\ IsFiniteSet(Overlays)
    /\ MaxCommunity \in Nat /\ MaxChanges \in Nat /\ MaxFaults \in Nat

VARIABLES
    cluster,     \* the overlays as the API server has them
    owed,        \* the mediator has a tick to deliver
    snapshots,   \* the loop's snapshot channel (capacity 1)
    snap,        \* Reconcile's `overlays'
    pc,          \* the step of the running Reconcile, or "idle" in select
    errs,        \* some call of the running or last Reconcile failed
    neighbors,   \* BGP server: address -> the policies it names, none here
    policies,    \* BGP server: policy name -> community
    advertised,  \* BGP server: prefix -> community
    changes, faults

serverVars == <<neighbors, policies, advertised>>
vars == <<cluster, owed, snapshots, snap, pc, errs, serverVars, changes, faults>>

OverlayView ==
    {[community |-> c, gateways |-> g, edges |-> e] :
        c \in 0..MaxCommunity, g \in SUBSET GatewayIPs, e \in SUBSET Vips}

Unreconciled == [community |-> 0, gateways |-> {}, edges |-> {}]

\* No two overlays have one community, and the operator writes the gateways
\* before the community and the edges after it.
Cluster ==
    {s \in [Overlays -> OverlayView] :
        /\ \A o \in Overlays : s[o].community = 0 => s[o].edges = {}
        /\ \A o, x \in Overlays : o # x /\ s[o].community # 0 => s[o].community # s[x].community}

\* A snapshot lists the overlays in the order of the mediator's cache.
Orders ==
    {q \in [1..Cardinality(Overlays) -> Overlays] :
        \A i, j \in DOMAIN q : i # j => q[i] # q[j]}

Snapshot == [view : Cluster, order : Orders]

PolicyNames == {"import", "export"} \X Overlays

Steps ==
    {"idle", "removeNeighbors", "removePolicies", "withdraw",
     "addPolicies", "addNeighbors", "advertise"}

TypeOK ==
    /\ cluster \in Cluster /\ owed \in BOOLEAN /\ errs \in BOOLEAN
    /\ snapshots \in Seq(Snapshot) /\ Len(snapshots) <= 1
    /\ snap \in Snapshot /\ pc \in Steps
    /\ DOMAIN neighbors \subseteq GatewayIPs
    /\ DOMAIN policies \subseteq PolicyNames
    /\ \A n \in DOMAIN policies : policies[n] \in 1..MaxCommunity
    /\ DOMAIN advertised \subseteq Vips
    /\ \A v \in DOMAIN advertised : advertised[v] \in 1..MaxCommunity
    /\ changes \in 0..MaxChanges /\ faults \in 0..MaxFaults

Init ==
    /\ cluster = [o \in Overlays |-> Unreconciled] /\ owed = TRUE
    /\ snapshots = <<>>
    /\ snap \in {[view |-> cluster, order |-> q] : q \in Orders}
    /\ pc = "idle" /\ errs = FALSE
    /\ neighbors = [a \in {} |-> {}] /\ policies = [n \in {} |-> 0]
    /\ advertised = [v \in {} |-> 0]
    /\ changes = 0 /\ faults = 0

-----------------------------------------------------------------------------
(* What Reconcile derives from a snapshot.                                 *)

active(v) == {o \in Overlays : v[o].community # 0}

\* Mutant of buildDesiredNeighbors: overlays without community are skipped, as
\* the policies' and the gateway's builders do.
buildDesiredNeighborsOfActive(s) == [a \in UNION {s.view[o].gateways : o \in active(s.view)} |-> {}]

\* One neighbor per gateway of any overlay, with or without a community.
buildDesiredNeighbors(s) == [a \in UNION {s.view[o].gateways : o \in Overlays} |-> {}]

buildDesiredPolicies(s) ==
    [n \in {"import", "export"} \X active(s.view) |-> s.view[n[2]].community]

\* The overlays with an edge at v; the last one in the list overwrites the rest.
claims(s, v) == {i \in DOMAIN s.order : v \in s.view[s.order[i]].edges}

owner(s, v) == s.order[CHOOSE i \in claims(s, v) : \A j \in claims(s, v) : i >= j]

buildDesiredAdvertisements(s) ==
    [v \in UNION {s.view[o].edges : o \in active(s.view)} |-> s.view[owner(s, v)].community]

-----------------------------------------------------------------------------
(* The manager's loop and Reconcile, one action per loop over calls.  F    *)
(* are the keys whose calls fail.                                          *)

TakeSnapshot ==
    /\ pc = "idle" /\ snapshots # <<>>
    /\ snap' = Head(snapshots) /\ snapshots' = Tail(snapshots)
    /\ pc' = "removeNeighbors" /\ errs' = FALSE
    /\ UNCHANGED <<cluster, owed, serverVars, changes, faults>>

Fails(F) ==
    \/ F = {} /\ UNCHANGED <<errs, faults>>
    \/ F # {} /\ faults < MaxFaults /\ faults' = faults + 1 /\ errs' = TRUE

LoopUnchanged == UNCHANGED <<cluster, owed, snapshots, snap, changes>>

RemoveNeighbors ==
    /\ pc = "removeNeighbors" /\ pc' = "removePolicies"
    /\ \E F \in SUBSET orphans(neighbors, buildDesiredNeighbors(snap)) :
          Fails(F) /\ neighbors' = pruned(neighbors, buildDesiredNeighbors(snap), F)
    /\ UNCHANGED <<policies, advertised>> /\ LoopUnchanged

RemovePolicies ==
    /\ pc = "removePolicies" /\ pc' = "withdraw"
    /\ \E F \in SUBSET orphans(policies, buildDesiredPolicies(snap)) :
          Fails(F) /\ policies' = pruned(policies, buildDesiredPolicies(snap), F)
    /\ UNCHANGED <<neighbors, advertised>> /\ LoopUnchanged

Withdraw ==
    /\ pc = "withdraw" /\ pc' = "addPolicies"
    /\ \E F \in SUBSET orphans(advertised, buildDesiredAdvertisements(snap)) :
          Fails(F) /\ advertised' = pruned(advertised, buildDesiredAdvertisements(snap), F)
    /\ UNCHANGED <<neighbors, policies>> /\ LoopUnchanged

AddPolicies ==
    /\ pc = "addPolicies" /\ pc' = "addNeighbors"
    /\ \E F \in SUBSET missing(policies, buildDesiredPolicies(snap)) :
          Fails(F) /\ policies' = filled(policies, buildDesiredPolicies(snap), F)
    /\ UNCHANGED <<neighbors, advertised>> /\ LoopUnchanged

AddNeighbors ==
    /\ pc = "addNeighbors" /\ pc' = "advertise"
    /\ \E F \in SUBSET missing(neighbors, buildDesiredNeighbors(snap)) :
          Fails(F) /\ neighbors' = filled(neighbors, buildDesiredNeighbors(snap), F)
    /\ UNCHANGED <<policies, advertised>> /\ LoopUnchanged

\* Mutant of Advertise: a failing call is logged and not returned.
AdvertiseDropsError ==
    /\ pc = "advertise" /\ pc' = "idle"
    /\ \E F \in SUBSET missing(advertised, buildDesiredAdvertisements(snap)) :
          advertised' = filled(advertised, buildDesiredAdvertisements(snap), F)
    /\ UNCHANGED <<neighbors, policies, errs, faults>> /\ LoopUnchanged

Advertise ==
    /\ pc = "advertise" /\ pc' = "idle"
    /\ \E F \in SUBSET missing(advertised, buildDesiredAdvertisements(snap)) :
          Fails(F) /\ advertised' = filled(advertised, buildDesiredAdvertisements(snap), F)
    /\ UNCHANGED <<neighbors, policies>> /\ LoopUnchanged

\* One of the three lists fails, before anything is changed.
ListFails ==
    /\ pc = "removeNeighbors" /\ faults < MaxFaults
    /\ faults' = faults + 1
    /\ pc' = "idle" /\ errs' = TRUE
    /\ UNCHANGED serverVars /\ LoopUnchanged

Reconcile ==
    \/ RemoveNeighbors \/ RemovePolicies \/ Withdraw
    \/ AddPolicies \/ AddNeighbors \/ Advertise \/ ListFails

-----------------------------------------------------------------------------
(* External: the cluster and the mediator.                                 *)

ClusterChange ==
    /\ changes < MaxChanges /\ changes' = changes + 1
    /\ cluster' \in Cluster \ {cluster}
    /\ owed' = TRUE
    /\ UNCHANGED <<snapshots, snap, pc, errs, serverVars, faults>>

Tick ==
    /\ owed /\ snapshots = <<>>
    /\ \E q \in Orders : snapshots' = <<[view |-> cluster, order |-> q]>>
    /\ owed' = FALSE
    /\ UNCHANGED <<cluster, snap, pc, errs, serverVars, changes, faults>>

Next == TakeSnapshot \/ Reconcile \/ ClusterChange \/ Tick

Spec == Init /\ [][Next]_vars

-----------------------------------------------------------------------------
(* Properties.                                                             *)

Settled == pc = "idle" /\ snapshots = <<>> /\ ~owed /\ ~errs

\* After a Reconcile without errors there is one neighbor per gateway of the
\* cluster, two policies per overlay with a community, and exactly the virtual
\* IPs of its edges on this node are advertised.
SettledServerMatches ==
    Settled =>
        /\ DOMAIN neighbors = UNION {cluster[o].gateways : o \in Overlays}
        /\ DOMAIN policies = {"import", "export"} \X active(cluster)
        /\ DOMAIN advertised = UNION {cluster[o].edges : o \in active(cluster)}

-----------------------------------------------------------------------------
(* The keyed collections of the BGP server as one, for the refinement.     *)

serverWanted ==
    both(both(buildDesiredNeighbors(snap), buildDesiredPolicies(snap)),
         buildDesiredAdvertisements(snap))

serverActual == both(both(neighbors, policies), advertised)
=============================================================================
