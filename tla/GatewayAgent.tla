----------------------------- MODULE GatewayAgent -----------------------------
(***************************************************************************)
(* A gateway's agent: controllers/gateway/manager.go runs the BGP loop     *)
(* (GatewayBGP) and the routes updater (GatewayRoutes) as goroutines on    *)
(* two subscriptions of the mediator.  Nothing orders them: one may be     *)
(* snapshots ahead of the other.  They meet in the BGP server, where the   *)
(* neighbors and policies the first configures decide which routes, under  *)
(* which communities, the second hears of.                                 *)
(*                                                                         *)
(* The BGP server is external (gobgp.go is a stub).  It is taken to learn  *)
(* the route of a configured neighbor that announces one, to tag it with   *)
(* the community of the import policy the neighbor names, and to report    *)
(* each change of a route once, in order, some time later.  A peer         *)
(* announces one prefix, which is named by the peer's address.  Server and *)
(* loops are one process; the host's table survives it.                    *)
(***************************************************************************)
EXTENDS GatewayBGP

CONSTANTS
    MaxEvents,    \* bound: peers that start or stop to announce
    MaxRestarts   \* bound: restarts of the agent

ASSUME BoundsAssumption == MaxEvents \in Nat /\ MaxRestarts \in Nat

VARIABLES
    routesOwed,       \* the mediator has a tick to deliver to the updater
    routesSnapshots,  \* the updater's snapshot channel
    bgpEvents, latest, learned, routesErrs,   \* GatewayRoutes
    table,            \* host: table 0
    announced,        \* peers that announce their prefix
    rib,              \* the communities the server last reported by peer
    events, restarts

Routes == INSTANCE GatewayRoutes WITH snapshots <- routesSnapshots, errs <- routesErrs

bgpVars == <<neighbors, policies, snapshots, snap, pc, errs, owed>>
updaterVars == <<routesOwed, routesSnapshots, bgpEvents, latest, learned, routesErrs, table>>
serverVars == <<announced, rib>>
agentVars == <<vars, updaterVars, serverVars, events, restarts>>

Peers == UNION {PeersOf[o] : o \in Overlays}

\* The communities of a route: none, or that of one import policy.
RouteCommunities == {<<>>} \cup {<<c>> : c \in 1..MaxCommunity}

NoRoutes == [a \in Peers |-> <<>>]

communities(v) == [o \in Overlays |-> v[o].community]

AgentInit ==
    /\ Init
    /\ routesOwed = TRUE /\ routesSnapshots = <<>> /\ bgpEvents = <<>>
    /\ latest = [o \in Overlays |-> 0] /\ learned = NoRoutes /\ routesErrs = FALSE
    /\ table = {}
    /\ announced = {} /\ rib = NoRoutes
    /\ events = 0 /\ restarts = 0

-----------------------------------------------------------------------------
(* The two goroutines.                                                     *)

BGPLoop ==
    /\ TakeSnapshot \/ Reconcile
    /\ UNCHANGED <<updaterVars, serverVars, events, restarts>>

UpdaterUnchanged == UNCHANGED <<cluster, bgpVars, changes, routesOwed, serverVars, events, restarts>>

UpdaterSnapshot == Routes!TakeSnapshot /\ UpdaterUnchanged

UpdaterEvent == Routes!TakeEvent /\ UpdaterUnchanged

-----------------------------------------------------------------------------
(* External: the cluster, the mediator, the peers, the server and the pod. *)

AgentClusterChange ==
    /\ ClusterChange /\ routesOwed' = TRUE
    /\ UNCHANGED <<routesSnapshots, bgpEvents, latest, learned, routesErrs, table,
                   serverVars, events, restarts>>

BGPTick == Tick /\ UNCHANGED <<updaterVars, serverVars, events, restarts>>

UpdaterTick ==
    /\ routesOwed /\ routesSnapshots = <<>>
    /\ routesSnapshots' = <<communities(cluster)>> /\ routesOwed' = FALSE
    /\ UNCHANGED <<vars, bgpEvents, latest, learned, routesErrs, table, serverVars, events, restarts>>

Announce(a) ==
    /\ events < MaxEvents /\ events' = events + 1
    /\ announced' = IF a \in announced THEN announced \ {a} ELSE announced \cup {a}
    /\ UNCHANGED <<vars, updaterVars, rib, restarts>>

\* The communities a's route has in the server now; none without a neighbor or
\* without its import policy.
route(a) ==
    LET imports == {n \in DOMAIN policies : n[1] = "import" /\ n \in neighbors[a]}
    IN  IF a \notin announced \cap DOMAIN neighbors \/ imports = {} THEN <<>>
        ELSE <<policies[CHOOSE n \in imports : TRUE]>>

Report(a) ==
    /\ rib[a] # route(a)
    /\ rib' = [rib EXCEPT ![a] = route(a)]
    /\ bgpEvents' = Append(bgpEvents, <<a, route(a)>>)
    /\ UNCHANGED <<vars, routesOwed, routesSnapshots, latest, learned, routesErrs, table,
                   announced, events, restarts>>

\* The new process has a new BGP server, without neighbors; the host's table
\* stays as it was.
Restart ==
    /\ restarts < MaxRestarts /\ restarts' = restarts + 1
    /\ neighbors' = [a \in {} |-> {}] /\ policies' = [n \in {} |-> 0]
    /\ snapshots' = <<>> /\ pc' = "idle" /\ errs' = FALSE /\ owed' = TRUE
    /\ routesOwed' = TRUE /\ routesSnapshots' = <<>> /\ bgpEvents' = <<>>
    /\ latest' = [o \in Overlays |-> 0] /\ learned' = NoRoutes /\ routesErrs' = FALSE
    /\ rib' = NoRoutes
    /\ UNCHANGED <<cluster, snap, changes, faults, table, announced, events>>

AgentNext ==
    \/ BGPLoop \/ UpdaterSnapshot \/ UpdaterEvent
    \/ AgentClusterChange \/ BGPTick \/ UpdaterTick \/ Restart
    \/ \E a \in Peers : Announce(a) \/ Report(a)

\* The goroutines and the mediator keep running, the updater's select starves
\* no channel, and the server reports what changed.
AgentFairness ==
    /\ WF_agentVars(BGPLoop) /\ WF_agentVars(BGPTick) /\ WF_agentVars(UpdaterTick)
    /\ WF_agentVars(UpdaterSnapshot) /\ WF_agentVars(UpdaterEvent)
    /\ \A a \in Peers : WF_agentVars(Report(a))

AgentSpec == AgentInit /\ [][AgentNext]_agentVars /\ AgentFairness

-----------------------------------------------------------------------------
(* Properties.                                                             *)

Quiet ==
    /\ pc = "idle" /\ snapshots = <<>> /\ ~owed
    /\ routesSnapshots = <<>> /\ ~routesOwed /\ bgpEvents = <<>>
    /\ \A a \in Peers : rib[a] = route(a)

\* All state of both loops is well typed.
AgentTypeOK ==
    /\ TypeOK
    /\ routesOwed \in BOOLEAN /\ routesErrs \in BOOLEAN
    /\ routesSnapshots \in Seq([Overlays -> 0..MaxCommunity]) /\ Len(routesSnapshots) <= 1
    /\ bgpEvents \in Seq(Peers \X RouteCommunities)
    /\ latest \in [Overlays -> 0..MaxCommunity]
    /\ learned \in [Peers -> RouteCommunities] /\ rib \in [Peers -> RouteCommunities]
    /\ table \subseteq Peers /\ announced \subseteq Peers
    /\ events \in 0..MaxEvents /\ restarts \in 0..MaxRestarts

\* Whichever loop was ahead, whatever failed before and wherever an earlier
\* agent stopped: once both loops are at rest without errors, the table has the
\* route of every peer that announces one, that only its overlay may list and
\* whose overlay's import policy sets its present community, and no route of a
\* peer that no overlay has.
SettledTableMatches ==
    Quiet /\ ~errs /\ ~routesErrs =>
        /\ \A o \in active(cluster) : \A a \in cluster[o].peers \cap announced :
              /\ Cardinality({x \in Overlays : a \in PeersOf[x]}) <= 1
              /\ policies[<<"import", o>>] = cluster[o].community
              => a \in table
        /\ table \subseteq announced \cap UNION {cluster[o].peers : o \in Overlays}

\* Errors stop neither loop: once the cluster and the peers are left alone both
\* channels are drained and both loops come to rest.
EventuallyQuiet == <>[]Quiet
=============================================================================
