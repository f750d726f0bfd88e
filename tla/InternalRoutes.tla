---------------------------- MODULE InternalRoutes ----------------------------
(***************************************************************************)
(* The routes half of an internal node's agent: the InternalReconciler     *)
(* (reconcilers/routes/internalnode.go) that RoutesUpdater drives, with    *)
(* the host state that its Reconcile converges.                            *)
(*                                                                         *)
(* The mediator, the BGP server, netlink and the firewall are interfaces   *)
(* whose implementations are stubs; they are modelled from their contract  *)
(* and from how this code uses them, and marked external.  The host keeps  *)
(* its state when the agent restarts; everything in the agent is lost.     *)
(*                                                                         *)
(* Simplifications: an overlay that is absent and one that has neither     *)
(* community nor edges are the same; the edges are the Ready ones of this  *)
(* node, with a pod IP; the operator writes well-formed communities, one   *)
(* per overlay, and table 10000+N is named N; an overlay's VirtualCIDR is  *)
(* named by the overlay; a route is the list of its communities and a      *)
(* route without community is no route.                                    *)
(***************************************************************************)
EXTENDS Integers, KeyedSync, RoutesUpdater

CONSTANTS
    Overlays,       \* names of NetworkOverlays
    Vips,           \* virtual IPs an overlay's edges may have on this node
    Pods, NoPod,    \* local pod IPs
    Prefixes,       \* prefixes learned from BGP
    Routes,         \* routes: sequences of communities
    MaxCommunity,   \* largest community number
    MaxChanges,     \* bound: changes of the cluster
    MaxEvents,      \* bound: BGP route events
    MaxFaults,      \* bound: steps of Reconcile in which calls fail
    MaxRestarts     \* bound: restarts of the agent

ASSUME ConstantsAssumption ==
    /\ Routes \subseteq Seq(1..MaxCommunity) /\ <<>> \in Routes /\ NoPod \notin Pods
    /\ MaxCommunity \in Nat /\ MaxChanges \in Nat /\ MaxEvents \in Nat
    /\ MaxFaults \in Nat /\ MaxRestarts \in Nat

VARIABLES
    cluster,    \* the overlays as the API server has them
    owed,       \* the mediator has a tick to deliver
    pc,         \* the step of the running Reconcile, or "idle" in select
    errs,       \* some call of the running or last Reconcile failed
    vrfs,       \* host: VRF devices and their table
    rules,      \* host: ip rules
    addrs,      \* host: addresses on the VRF's dummy
    tables,     \* host: routes per table
    bridges,    \* host: firewall bridges and the pod IP they lead to
    rib,        \* the routes the BGP server last announced
    delivered,  \* the last snapshot any agent on this node received
    changes, events, faults, restarts

agentVars == <<snapshots, bgpEvents, latest, learned, pc, errs>>
hostVars == <<vrfs, rules, addrs, tables, bridges>>
worldVars == <<cluster, owed, rib, delivered>>
boundVars == <<changes, events, faults, restarts>>
vars == <<agentVars, hostVars, worldVars, boundVars>>

Tables == 1..MaxCommunity

OverlayView == [community : 0..MaxCommunity, edges : [Vips -> Pods \cup {NoPod}]]

Keys == Overlays \X Vips

\* Snapshots the operator can produce: no two overlays with one community, and
\* edges only after the community.
Snapshot ==
    {s \in [Overlays -> OverlayView] :
        /\ \A o \in Overlays : s[o].community = 0 => s[o].edges = [v \in Vips |-> NoPod]
        /\ \A o, x \in Overlays : o # x /\ s[o].community # 0 => s[o].community # s[x].community}

NoOverlays == [o \in Overlays |-> [community |-> 0, edges |-> [v \in Vips |-> NoPod]]]

Nothing == [k \in {} |-> 0]

TypeOK ==
    /\ cluster \in Snapshot /\ latest \in Snapshot /\ delivered \in Snapshot
    /\ owed \in BOOLEAN /\ errs \in BOOLEAN
    /\ snapshots \in Seq(Snapshot) /\ Len(snapshots) <= 1
    /\ bgpEvents \in Seq(Prefixes \X Routes)
    /\ learned \in [Prefixes -> Routes] /\ rib \in [Prefixes -> Routes]
    /\ pc \in {"idle", "vrfs", "rules", "addrs", "routes", "bridges"}
    /\ DOMAIN vrfs \subseteq Overlays /\ \A o \in DOMAIN vrfs : vrfs[o] \in Tables
    /\ rules \subseteq [to : Overlays, table : Tables]
    /\ addrs \in [Overlays -> SUBSET Vips]
    /\ \A o \in Overlays \ DOMAIN vrfs : addrs[o] = {}
    /\ tables \in [Tables -> SUBSET Prefixes]
    /\ DOMAIN bridges \subseteq Keys /\ \A k \in DOMAIN bridges : bridges[k] \in Pods
    /\ changes \in 0..MaxChanges /\ events \in 0..MaxEvents
    /\ faults \in 0..MaxFaults /\ restarts \in 0..MaxRestarts

Init ==
    /\ cluster = NoOverlays /\ owed = TRUE /\ delivered = NoOverlays
    /\ rib = [p \in Prefixes |-> <<>>]
    /\ snapshots = <<>> /\ bgpEvents = <<>>
    /\ latest = NoOverlays /\ learned = [p \in Prefixes |-> <<>>]
    /\ pc = "idle" /\ errs = FALSE
    /\ vrfs = Nothing /\ rules = {} /\ addrs = [o \in Overlays |-> {}]
    /\ tables = [t \in Tables |-> {}] /\ bridges = Nothing
    /\ changes = 0 /\ events = 0 /\ faults = 0 /\ restarts = 0

-----------------------------------------------------------------------------
(* What Reconcile derives from a snapshot.                                 *)

active(s) == {o \in Overlays : s[o].community # 0}

communities(s) == {s[o].community : o \in active(s)}

desiredVRFs(s) == [o \in active(s) |-> s[o].community]

desiredRules(s) == {[to |-> o, table |-> s[o].community] : o \in active(s)}

desiredIPs(s, o) == {v \in Vips : s[o].edges[v] # NoPod}

desiredBridges(s) ==
    [k \in {x \in Keys : s[x[1]].edges[x[2]] # NoPod} |-> s[k[1]].edges[k[2]]]

\* A route goes to the table of the first of its communities that is active.
routesByTable(routes, s, t) ==
    {p \in Prefixes :
        \E i \in 1..Len(routes[p]) :
            /\ routes[p][i] = t
            /\ \A j \in 1..(i - 1) : routes[p][j] \notin communities(s)}

\* ListRules shows the rules whose table is one of a managed VRF.
listedRules == {r \in rules : \E o \in DOMAIN vrfs : vrfs[o] = r.table}

-----------------------------------------------------------------------------
(* RoutesUpdater.Run.                                                      *)

TakeSnapshot ==
    /\ pc = "idle" /\ ReceiveSnapshot /\ delivered' = latest'
    /\ pc' = "vrfs" /\ errs' = FALSE
    /\ UNCHANGED <<cluster, owed, rib, hostVars, boundVars>>

\* Mutant of TakeEvent: the snapshot is not kept for the event.
TakeEventForgetsSnapshot ==
    /\ pc = "idle" /\ bgpEvents # <<>>
    /\ learned' = ApplyEvent(Head(bgpEvents)) /\ bgpEvents' = Tail(bgpEvents)
    /\ latest' = NoOverlays
    /\ pc' = "vrfs" /\ errs' = FALSE
    /\ UNCHANGED <<snapshots, worldVars, hostVars, boundVars>>

\* Reconcile follows against whatever `latest' is.
TakeEvent ==
    /\ pc = "idle" /\ ReceiveEvent
    /\ pc' = "vrfs" /\ errs' = FALSE
    /\ UNCHANGED <<worldVars, hostVars, boundVars>>

-----------------------------------------------------------------------------
(* InternalReconciler.Reconcile, one action per kind of host state.  F are *)
(* the keys whose calls fail.                                              *)

Fails(F) ==
    \/ F = {} /\ UNCHANGED <<errs, faults>>
    \/ F # {} /\ faults < MaxFaults /\ faults' = faults + 1 /\ errs' = TRUE

StepUnchanged ==
    UNCHANGED <<snapshots, bgpEvents, latest, learned, worldVars, changes, events, restarts>>

\* Removing a VRF removes its dummy, and the addresses with it.
reconcileVRFs ==
    /\ pc = "vrfs" /\ pc' = "rules"
    /\ \E F \in SUBSET calls(vrfs, desiredVRFs(latest)) :
          Fails(F) /\ vrfs' = sync(vrfs, desiredVRFs(latest), F)
    /\ addrs' = [o \in Overlays |-> IF o \in DOMAIN vrfs' THEN addrs[o] ELSE {}]
    /\ UNCHANGED <<rules, tables, bridges>> /\ StepUnchanged

\* Rules are compared by their table alone.
reconcileRules ==
    /\ pc = "rules" /\ pc' = "addrs"
    /\ \E F \in SUBSET Tables :
          LET stale == {r \in listedRules : r.table \notin communities(latest)}
              absent == {r \in desiredRules(latest) :
                             r.table \notin {x.table : x \in listedRules}}
          IN  /\ F \subseteq {r.table : r \in stale \cup absent}
              /\ Fails(F)
              /\ rules' = {r \in rules : r \notin stale \/ r.table \in F}
                          \cup {r \in absent : r.table \notin F}
    /\ UNCHANGED <<vrfs, addrs, tables, bridges>> /\ StepUnchanged

\* Mutant of reconcileAddrs: a failing ListAddrs does not skip the overlay.
reconcileAddrsOfMissingVRF ==
    /\ pc = "addrs" /\ pc' = "routes"
    /\ addrs' = [o \in Overlays |-> IF o \in active(latest) THEN desiredIPs(latest, o) ELSE addrs[o]]
    /\ UNCHANGED <<vrfs, rules, tables, bridges, errs, faults>> /\ StepUnchanged

\* ListAddrs fails for a VRF that could not be created, and the overlay is
\* skipped; its EnsureVRF has already put an error into errs.  A ListAddrs that
\* fails otherwise is the failure of all the calls it would have led to.
reconcileAddrs ==
    /\ pc = "addrs" /\ pc' = "routes"
    /\ \E F \in SUBSET Keys :
          LET want(o) == desiredIPs(latest, o)
              fails(o) == {v \in Vips : <<o, v>> \in F}
          IN  /\ \A k \in F : /\ k[1] \in active(latest) \cap DOMAIN vrfs
                              /\ (k[2] \in want(k[1])) # (k[2] \in addrs[k[1]])
              /\ Fails(F)
              /\ addrs' = [o \in Overlays |->
                              IF o \in active(latest) \cap DOMAIN vrfs
                              THEN (addrs[o] \cap (want(o) \cup fails(o)))
                                   \cup (want(o) \ fails(o))
                              ELSE addrs[o]]
    /\ UNCHANGED <<vrfs, rules, tables, bridges>> /\ StepUnchanged

reconcileRoutes ==
    /\ pc = "routes" /\ pc' = "bridges"
    /\ \E F \in SUBSET communities(latest) :
          /\ Fails(F)
          /\ tables' = [t \in Tables |->
                           IF t \in communities(latest) \ F
                           THEN routesByTable(learned, latest, t) ELSE tables[t]]
    /\ UNCHANGED <<vrfs, rules, addrs, bridges>> /\ StepUnchanged

\* Mutant of reconcileBridges: the errors of its calls are not returned.
reconcileBridgesDropsErrors ==
    /\ pc = "bridges" /\ pc' = "idle"
    /\ \E F \in SUBSET calls(bridges, desiredBridges(latest)) :
          bridges' = sync(bridges, desiredBridges(latest), F)
    /\ UNCHANGED <<vrfs, rules, addrs, tables, errs, faults>> /\ StepUnchanged

reconcileBridges ==
    /\ pc = "bridges" /\ pc' = "idle"
    /\ \E F \in SUBSET calls(bridges, desiredBridges(latest)) :
          Fails(F) /\ bridges' = sync(bridges, desiredBridges(latest), F)
    /\ UNCHANGED <<vrfs, rules, addrs, tables>> /\ StepUnchanged

\* A failing ListVRFs, ListRules or ListBridges ends the Reconcile; Run logs it.
ListFails ==
    /\ pc \in {"vrfs", "rules", "bridges"} /\ faults < MaxFaults
    /\ faults' = faults + 1
    /\ pc' = "idle" /\ errs' = TRUE
    /\ UNCHANGED hostVars /\ StepUnchanged

Reconcile ==
    \/ reconcileVRFs \/ reconcileRules \/ reconcileAddrs
    \/ reconcileRoutes \/ reconcileBridges \/ ListFails

Updater == TakeSnapshot \/ TakeEvent \/ Reconcile

-----------------------------------------------------------------------------
(* External: the cluster, the mediator, the BGP server and the agent pod.  *)

ClusterChange ==
    /\ changes < MaxChanges /\ changes' = changes + 1
    /\ cluster' \in Snapshot \ {cluster}
    /\ owed' = TRUE
    /\ UNCHANGED <<agentVars, hostVars, rib, delivered, events, faults, restarts>>

\* A debounced tick sends the overlays as they are then.
Tick ==
    /\ owed /\ snapshots = <<>>
    /\ snapshots' = <<cluster>> /\ owed' = FALSE
    /\ UNCHANGED <<bgpEvents, latest, learned, pc, errs, hostVars, cluster, rib, delivered, boundVars>>

RouteEvent(p, r) ==
    /\ events < MaxEvents /\ events' = events + 1
    /\ r # rib[p]
    /\ rib' = [rib EXCEPT ![p] = r]
    /\ bgpEvents' = Append(bgpEvents, <<p, r>>)
    /\ UNCHANGED <<snapshots, latest, learned, pc, errs, hostVars, cluster, owed, delivered,
                   changes, faults, restarts>>

\* The new agent starts with nothing, and with a new BGP server.
Restart ==
    /\ restarts < MaxRestarts /\ restarts' = restarts + 1
    /\ snapshots' = <<>> /\ bgpEvents' = <<>>
    /\ latest' = NoOverlays /\ learned' = [p \in Prefixes |-> <<>>]
    /\ pc' = "idle" /\ errs' = FALSE
    /\ owed' = TRUE /\ rib' = [p \in Prefixes |-> <<>>]
    /\ UNCHANGED <<hostVars, cluster, delivered, changes, events, faults>>

Next ==
    \/ Updater \/ Tick
    \/ ClusterChange \/ Restart
    \/ \E p \in Prefixes, r \in Routes : RouteEvent(p, r)

Spec == Init /\ [][Next]_vars

-----------------------------------------------------------------------------
(* Properties.                                                             *)

\* Nothing is in flight and the last Reconcile returned no error.
Settled == pc = "idle" /\ snapshots = <<>> /\ bgpEvents = <<>> /\ ~owed /\ ~errs

\* Reconcile converges by name: however snapshots were debounced, whatever
\* failed before and wherever an earlier agent stopped, after a Reconcile
\* without errors there is one VRF per overlay with a community, no rule that
\* can be listed leads to another table than theirs, the addresses and bridges
\* are those of the local Ready edges, and the overlays' tables hold the routes
\* the BGP server announced, each in one table.
SettledHostMatches ==
    Settled =>
        /\ DOMAIN vrfs = active(cluster)
        /\ \A o \in active(cluster) : addrs[o] = desiredIPs(cluster, o)
        /\ DOMAIN bridges = DOMAIN desiredBridges(cluster)
        /\ \A o \in active(cluster) : \E r \in rules : r.table = cluster[o].community
        /\ \A r \in listedRules : r.table \in communities(cluster)
        /\ \A t \in communities(cluster) : tables[t] = routesByTable(rib, cluster, t)

-----------------------------------------------------------------------------
(* The refinement: VRFs, addresses and bridges as one keyed collection.    *)

hostState(v, a, b) ==
    [k \in ({"vrf"} \X DOMAIN v) \cup ({"addr"} \X a) \cup ({"bridge"} \X DOMAIN b) |->
        IF k[1] = "vrf" THEN v[k[2]] ELSE IF k[1] = "bridge" THEN b[k[2]] ELSE 0]

Host == INSTANCE Converge WITH
    want <- hostState(desiredVRFs(latest),
                      {k \in Keys : k[1] \in active(latest) /\ k[2] \in desiredIPs(latest, k[1])},
                      desiredBridges(latest)),
    have <- hostState(vrfs, {k \in Keys : k[2] \in addrs[k[1]]}, bridges),
    busy <- pc # "idle", failed <- errs

\* The reconciler implements Converge across restarts: no step of a pass removes
\* a VRF, address or bridge that its snapshot wants, not even as a side effect
\* of removing another, and a pass that reports no error has converged them all.
HostConverges == Host!Spec

\* Full idempotent reconcile: a VRF that both the cluster and the last snapshot
\* received have is not removed, with all its addresses, in between.
LiveStateKept ==
    [][\A o \in active(delivered) \cap active(cluster) :
          o \in DOMAIN vrfs => o \in DOMAIN vrfs']_vars

\* The same while the first agent runs: it knows the snapshot it received last.
LiveStateKeptUntilRestart ==
    [][restarts = 0 =>
          \A o \in active(delivered) \cap active(cluster) :
              o \in DOMAIN vrfs => o \in DOMAIN vrfs']_vars

\* Each bridge leads to the pod the edge has now.
BridgesAreCurrent == Settled => bridges = desiredBridges(cluster)
=============================================================================
