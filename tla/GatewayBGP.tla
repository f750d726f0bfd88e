------------------------------ MODULE GatewayBGP ------------------------------
(***************************************************************************)
(* The BGP half of a gateway's agent: the snapshot loop of                 *)
(* controllers/gateway/manager.go and the GatewayReconciler it calls       *)
(* (reconcilers/bgp/gateway.go), with the neighbors and policies of the    *)
(* BGP server.  A neighbor names the policies it applies; the two are      *)
(* converged one after the other, by key.                                  *)
(*                                                                         *)
(* The mediator and the BGP server are interfaces with stub                *)
(* implementations: external, modelled from their contract and their use.  *)
(* The server runs in the agent's process, so a restart is Init again.     *)
(*                                                                         *)
(* Simplifications: peers whose endpoint does not parse are left out, as   *)
(* are ASNs and display names; an absent overlay and one without community *)
(* are the same, both are skipped.                                         *)
(***************************************************************************)
EXTENDS Integers, Sequences, KeyedSync

CONSTANTS
    Overlays,       \* names of NetworkOverlays
    PeersOf,        \* PeersOf[o]: the peer addresses o's spec may list
    NodeIPs,        \* internal nodes' addresses
    IsSecondary,    \* GatewayReconciler.isSecondary
    MaxCommunity,   \* largest community number
    MaxChanges,     \* bound: changes of the cluster
    MaxFaults       \* bound: steps of Reconcile in which calls fail

ASSUME ConstantsAssumption ==
    /\ IsFiniteSet(Overlays) /\ DOMAIN PeersOf = Overlays /\ IsSecondary \in BOOLEAN
    /\ \A o \in Overlays : PeersOf[o] \cap NodeIPs = {}
    /\ MaxCommunity \in Nat /\ MaxChanges \in Nat /\ MaxFaults \in Nat

VARIABLES
    cluster,    \* the overlays as the API server has them
    owed,       \* the mediator has a tick to deliver
    snapshots,  \* the loop's snapshot channel (capacity 1)
    snap,       \* Reconcile's `overlays'
    pc,         \* the step of the running Reconcile, or "idle" in select
    errs,       \* some call of the running or last Reconcile failed
    neighbors,  \* BGP server: address -> policies
    policies,   \* BGP server: policy name -> community
    changes, faults

vars == <<cluster, owed, snapshots, snap, pc, errs, neighbors, policies, changes, faults>>

OverlayView ==
    {[community |-> c, peers |-> p, edges |-> e] :
        c \in 0..MaxCommunity, p \in SUBSET UNION {PeersOf[o] : o \in Overlays},
        e \in SUBSET NodeIPs}

Unreconciled == [community |-> 0, peers |-> {}, edges |-> {}]

\* No two overlays have one community, and only an overlay with a community
\* matters.
Cluster ==
    {s \in [Overlays -> OverlayView] :
        /\ \A o \in Overlays : s[o].community = 0 => s[o].peers = {} /\ s[o].edges = {}
        /\ \A o \in Overlays : s[o].peers \subseteq PeersOf[o]
        /\ \A o, x \in Overlays : o # x /\ s[o].community # 0 => s[o].community # s[x].community}

\* A snapshot lists the overlays in the order of the mediator's cache.
Orders ==
    {q \in [1..Cardinality(Overlays) -> Overlays] :
        \A i, j \in DOMAIN q : i # j => q[i] # q[j]}

Snapshot == [view : Cluster, order : Orders]

Kinds == {"import", "export"} \cup (IF IsSecondary THEN {"prepend"} ELSE {})

PolicyNames == Kinds \X Overlays

Addresses == NodeIPs \cup UNION {PeersOf[o] : o \in Overlays}

TypeOK ==
    /\ cluster \in Cluster /\ owed \in BOOLEAN /\ errs \in BOOLEAN
    /\ snapshots \in Seq(Snapshot) /\ Len(snapshots) <= 1
    /\ snap \in Snapshot
    /\ pc \in {"idle", "removeNeighbors", "removePolicies", "addPolicies", "addNeighbors"}
    /\ DOMAIN neighbors \subseteq Addresses
    /\ \A a \in DOMAIN neighbors : neighbors[a] \subseteq PolicyNames
    /\ DOMAIN policies \subseteq PolicyNames
    /\ \A n \in DOMAIN policies : policies[n] \in 1..MaxCommunity
    /\ changes \in 0..MaxChanges /\ faults \in 0..MaxFaults

Init ==
    /\ cluster = [o \in Overlays |-> Unreconciled] /\ owed = TRUE
    /\ snapshots = <<>>
    /\ snap \in {[view |-> cluster, order |-> q] : q \in Orders}
    /\ pc = "idle" /\ errs = FALSE
    /\ neighbors = [a \in {} |-> {}] /\ policies = [n \in {} |-> 0]
    /\ changes = 0 /\ faults = 0

-----------------------------------------------------------------------------
(* What Reconcile derives from a snapshot.                                 *)

active(v) == {o \in Overlays : v[o].community # 0}

\* Overlays that list the peer address a; the first one in the list wins.
claims(s, a) == {i \in DOMAIN s.order : a \in s.view[s.order[i]].peers}

owner(s, a) == s.order[CHOOSE i \in claims(s, a) : \A j \in claims(s, a) : i <= j]

\* An address has the policies of the overlay that adds it, or none if it is an
\* internal node's.
buildDesiredNeighbors(s) ==
    [a \in UNION {s.view[o].peers \cup s.view[o].edges : o \in active(s.view)} |->
        IF claims(s, a) = {} THEN {} ELSE Kinds \X {owner(s, a)}]

\* Mutants of buildDesiredPolicies: overlays without community are not skipped,
\* and the export policy is forgotten.
buildDesiredPoliciesOfAll(s) == [n \in Kinds \X Overlays |-> s.view[n[2]].community]

buildDesiredPoliciesNoExport(s) ==
    [n \in (Kinds \ {"export"}) \X active(s.view) |-> s.view[n[2]].community]

buildDesiredPolicies(s) == [n \in Kinds \X active(s.view) |-> s.view[n[2]].community]

-----------------------------------------------------------------------------
(* The manager's loop and Reconcile, one action per loop over calls.       *)

\* Mutant of TakeSnapshot: a failed Reconcile ends the loop.
TakeSnapshotUnlessFailed ==
    /\ pc = "idle" /\ snapshots # <<>> /\ ~errs
    /\ snap' = Head(snapshots) /\ snapshots' = Tail(snapshots)
    /\ pc' = "removeNeighbors" /\ UNCHANGED errs
    /\ UNCHANGED <<cluster, owed, neighbors, policies, changes, faults>>

TakeSnapshot ==
    /\ pc = "idle" /\ snapshots # <<>>
    /\ snap' = Head(snapshots) /\ snapshots' = Tail(snapshots)
    /\ pc' = "removeNeighbors" /\ errs' = FALSE
    /\ UNCHANGED <<cluster, owed, neighbors, policies, changes, faults>>

Fails(F) ==
    \/ F = {} /\ UNCHANGED <<errs, faults>>
    \/ F # {} /\ faults < MaxFaults /\ faults' = faults + 1 /\ errs' = TRUE

LoopUnchanged == UNCHANGED <<cluster, owed, snapshots, snap, changes>>

RemoveNeighbors ==
    /\ pc = "removeNeighbors" /\ pc' = "removePolicies"
    /\ \E F \in SUBSET orphans(neighbors, buildDesiredNeighbors(snap)) :
          /\ Fails(F)
          /\ neighbors' = pruned(neighbors, buildDesiredNeighbors(snap), F)
    /\ UNCHANGED policies /\ LoopUnchanged

RemovePolicies ==
    /\ pc = "removePolicies" /\ pc' = "addPolicies"
    /\ \E F \in SUBSET orphans(policies, buildDesiredPolicies(snap)) :
          /\ Fails(F)
          /\ policies' = pruned(policies, buildDesiredPolicies(snap), F)
    /\ UNCHANGED neighbors /\ LoopUnchanged

AddPolicies ==
    /\ pc = "addPolicies" /\ pc' = "addNeighbors"
    /\ \E F \in SUBSET missing(policies, buildDesiredPolicies(snap)) :
          /\ Fails(F)
          /\ policies' = filled(policies, buildDesiredPolicies(snap), F)
    /\ UNCHANGED neighbors /\ LoopUnchanged

AddNeighbors ==
    /\ pc = "addNeighbors" /\ pc' = "idle"
    /\ \E F \in SUBSET missing(neighbors, buildDesiredNeighbors(snap)) :
          /\ Fails(F)
          /\ neighbors' = filled(neighbors, buildDesiredNeighbors(snap), F)
    /\ UNCHANGED policies /\ LoopUnchanged

\* ListNeighbors or ListPolicies fails, before anything is changed.
ListFails ==
    /\ pc = "removeNeighbors" /\ faults < MaxFaults
    /\ faults' = faults + 1
    /\ pc' = "idle" /\ errs' = TRUE
    /\ UNCHANGED <<neighbors, policies>> /\ LoopUnchanged

Reconcile ==
    RemoveNeighbors \/ RemovePolicies \/ AddPolicies \/ AddNeighbors \/ ListFails

-----------------------------------------------------------------------------
(* External: the cluster and the mediator.                                 *)

ClusterChange ==
    /\ changes < MaxChanges /\ changes' = changes + 1
    /\ cluster' \in Cluster \ {cluster}
    /\ owed' = TRUE
    /\ UNCHANGED <<snapshots, snap, pc, errs, neighbors, policies, faults>>

Tick ==
    /\ owed /\ snapshots = <<>>
    /\ \E q \in Orders : snapshots' = <<[view |-> cluster, order |-> q]>>
    /\ owed' = FALSE
    /\ UNCHANGED <<cluster, snap, pc, errs, neighbors, policies, changes, faults>>

Next == TakeSnapshot \/ Reconcile \/ ClusterChange \/ Tick

Spec == Init /\ [][Next]_vars

-----------------------------------------------------------------------------
(* Properties.                                                             *)

Settled == pc = "idle" /\ snapshots = <<>> /\ ~owed /\ ~errs

\* After a Reconcile without errors the neighbors are the peers and internal
\* nodes of the cluster, and the policies those of its overlays, whatever the
\* order of the snapshots and whatever failed before.
SettledServerMatches ==
    Settled =>
        /\ DOMAIN neighbors =
              UNION {cluster[o].peers \cup cluster[o].edges : o \in active(cluster)}
        /\ DOMAIN policies = Kinds \X active(cluster)

\* Policies are added before neighbors and removed after them, so that policy
\* references resolve: until a call fails, a neighbor that only one overlay may
\* list never names a policy the server does not have.
OwnPoliciesResolve ==
    faults = 0 => \A a \in DOMAIN neighbors :
        Cardinality({o \in Overlays : a \in PeersOf[o]}) <= 1
            => neighbors[a] \subseteq DOMAIN policies

-----------------------------------------------------------------------------
(* The keyed collections of the BGP server as one, for the refinement.     *)

serverWanted ==
    both(buildDesiredNeighbors(snap), buildDesiredPolicies(snap))

serverActual == both(neighbors, policies)
=============================================================================
