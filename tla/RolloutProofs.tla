---------------------------- MODULE RolloutProofs ----------------------------
(***************************************************************************)
(* Proofs about Rollout: two operators at once, for any overlays, Nodes    *)
(* and edges, any lag of either's caches, and an end of the old operator   *)
(* at any moment.                                                          *)
(***************************************************************************)
EXTENDS Rollout, NetworkOverlayControllerProofs

-----------------------------------------------------------------------------
(* The new operator, where the old one has no part.                        *)

\* A finished overlay is one.
LEMMA ReconciledType == reconciled \in NetworkOverlay
<1>1. buildGateways \in SUBSET Gateway
  BY BuildGatewaysType
<1>2. 1 \in 0..MaxCommunity /\ 1 \in Nat
  BY OneCommunityAssumption, BoundsAssumption
<1>3. Absent(1) \in NetworkOverlay
  BY <1>2, AbsentType
<1>. QED
  BY <1>1, <1>2, <1>3, Zenon DEF reconciled, NetworkOverlay

\* The new operator starts with everything queued that there is.
LEMMA RolloutInitNew ==
    ASSUME RolloutInit
    PROVE  /\ TypeOK /\ LifeInv /\ StatusInv /\ RestInv
           /\ \A o \in Overlays : API[o].exists => API[o] = reconciled
<1>1. queue \subseteq Overlays
  BY DEF RolloutInit
<1>2. nodes \in [Nodes -> NodeStates] /\ pods \in [Pods -> Pod]
  BY InitNodesAssumption DEF RolloutInit, Pod
<1>3. /\ stream = <<API>> /\ Cache = API
      /\ API = [o \in Overlays |-> IF o \in queue THEN reconciled ELSE Absent(0)]
  BY DEF RolloutInit, API, Cache
<1>4. reconciled \in NetworkOverlay /\ Absent(0) \in NetworkOverlay
  BY ReconciledType, AbsentType
<1>5. API \in [Overlays -> NetworkOverlay]
  BY <1>3, <1>4
<1>6. gwDepls \in [Roles -> GatewayDeployment]
  <2>1. \A r \in Roles : gatewayDeployment(r, Cache) \in GatewayDeployment
    BY <1>2, GatewayDeploymentType
  <2>2. [exists |-> FALSE, node |-> NoNode, mounts |-> {}] \in GatewayDeployment
    BY DEF GatewayDeployment
  <2>. QED
    BY <2>1, <2>2 DEF RolloutInit
<1>7. TypeOK
  <2>1. stream \in Seq([Overlays -> NetworkOverlay]) /\ stream # <<>>
    BY <1>3, <1>5
  <2>2. depls \in Seq(SUBSET Nodes) /\ depls # <<>>
    BY DEF RolloutInit
  <2>3. /\ pc \in Steps /\ pc = "idle" /\ cur \in Overlays \cup {NoOverlay}
        /\ mem \in NetworkOverlay /\ list \in [Overlays -> NetworkOverlay]
    BY AbsentType, NothingListedType DEF RolloutInit, Steps
  <2>4. env \in 0..MaxEnv /\ faults \in 0..MaxFaults
    BY BoundsAssumption DEF RolloutInit
  <2>. QED
    BY <1>1, <1>2, <1>6, <2>1, <2>2, <2>3, <2>4 DEF TypeOK
<1>8. /\ reconciled.exists /\ reconciled.finalizer /\ ~reconciled.deleting
      /\ ~Absent(0).exists /\ ~Absent(0).finalizer /\ ~Absent(0).deleting
  BY DEF reconciled, Absent
<1>9. LifeInv /\ \A o \in Overlays : API[o].exists => o \in queue /\ API[o] = reconciled
  BY <1>3, <1>8 DEF LifeInv
<1>. QED
  BY <1>7, <1>9, Zenon DEF StatusInv, RestInv, UpToDateOrOwed, retried

\* What users write is an event for the new operator.
LEMMA EditNew ==
    ASSUME TypeOK, LifeInv, StatusInv, Edit
    PROVE  /\ TypeOK' /\ LifeInv' /\ StatusInv' /\ (RestInv => RestInv')
           /\ OldFollows /\ UNCHANGED <<nodes, pods, gwDepls, alive, seen>>
           /\ UNCHANGED <<oldQueue, oldPc, oldCur, oldMem, oldList, oldSeen>>
<1>1. PICK o \in Overlays : Delete(o) \/ \E spec \in SUBSET Edges : Apply(o, spec)
  BY DEF Edit
<1>2. [Next]_vars
  BY <1>1 DEF Next, Environment
<1>3. TypeOK' /\ LifeInv'
  BY <1>2, NextType, LifeNext
<1>4. StatusInv' /\ (RestInv => RestInv')
  BY <1>1, <1>3, UserRest, Zenon DEF StatusInv, RestInv
<1>5. UNCHANGED <<nodes, pods, gwDepls>>
  BY <1>1, Zenon DEF Delete, Apply, clusterVars
<1>. QED
  BY <1>3, <1>4, <1>5 DEF Edit, OldFollows, oldLocal

\* A Node event queues every overlay with the new operator.
LEMMA RelabelNew ==
    ASSUME TypeOK, LifeInv, Relabel
    PROVE  /\ TypeOK' /\ LifeInv' /\ StatusInv' /\ RestInv'
           /\ UNCHANGED <<stream, gwDepls>>
<1>1. PICK n \in Nodes, v \in {"primary", "unlabeled"} : NodeEvent(n, v)
  BY DEF Relabel
<1>2. [Next]_vars
  <2>1. v \in NodeStates
    BY DEF NodeStates, Roles
  <2>. QED
    BY <1>1, <2>1 DEF Next, Environment
<1>3. TypeOK' /\ LifeInv'
  BY <1>2, NextType, LifeNext
<1>4. enqueueAll /\ UNCHANGED <<stream, gwDepls>>
  BY <1>1 DEF NodeEvent, objVars
<1>. QED
  BY <1>3, <1>4, ClusterRest, Zenon DEF StatusInv, RestInv

\* When the old operator ends, the new one goes on as before.
LEMMA TerminateNew ==
    ASSUME TypeOK, LifeInv, StatusInv, Terminate
    PROVE  TypeOK' /\ LifeInv' /\ StatusInv'
<1>1. /\ UNCHANGED <<gwDepls, nodes, pods, env, stream, depls>>
      /\ UNCHANGED <<queue, pc, cur, mem, list>>
      /\ faults < MaxFaults /\ faults' = faults + 1
  BY DEF Terminate, newLocal
<1>2. TypeOK'
  <2>1. faults' \in 0..MaxFaults
    BY <1>1, BoundsAssumption DEF TypeOK
  <2>. QED
    BY <1>1, <2>1 DEF TypeOK
<1>3. API' = API /\ \A o : retried(o)' <=> retried(o)
  BY <1>1 DEF API, retried, pending, Window, Cache
<1>4. LifeInv'
  BY <1>3 DEF LifeInv
<1>5. UNCHANGED workerVars
  BY <1>1 DEF workerVars
<1>. QED
  BY <1>1, <1>2, <1>3, <1>4, <1>5, OutsideKeepsRest, Zenon DEF StatusInv

-----------------------------------------------------------------------------
(* The old operator is another of the same kind.                           *)

\* What is proved of one operator, for the old one.
OldP == INSTANCE NetworkOverlayControllerProofs WITH
    stream <- oldStream, depls <- oldDepls, queue <- oldQueue, pc <- oldPc,
    cur <- oldCur, mem <- oldMem, list <- oldList, seen <- oldSeen

\* Both operators have the same types of objects.
LEMMA SameTypes ==
    /\ OldP!NetworkOverlay = NetworkOverlay /\ OldP!Roles = Roles /\ OldP!Steps = Steps
    /\ OldP!GatewayDeployment = GatewayDeployment /\ OldP!NodeStates = NodeStates
    /\ OldP!Pod = Pod
<1>1. OldP!Gateway = Gateway /\ OldP!EdgeStatus = EdgeStatus
  BY Zenon DEF OldP!Gateway, OldP!EdgeStatus, OldP!NoNode, Gateway, EdgeStatus, NoNode
<1>2. OldP!Roles = Roles /\ OldP!Steps = Steps
  BY Zenon DEF OldP!Roles, OldP!Steps, Roles, Steps
<1>3. OldP!NetworkOverlay = NetworkOverlay
  BY <1>1, Zenon DEF OldP!NetworkOverlay, NetworkOverlay
<1>4. OldP!NodeStates = NodeStates
  BY <1>2, Zenon DEF OldP!NodeStates, NodeStates
<1>5. OldP!GatewayDeployment = GatewayDeployment /\ OldP!Pod = Pod
  BY Zenon DEF OldP!GatewayDeployment, OldP!Pod, OldP!NoNode, GatewayDeployment, Pod, NoNode
<1>. QED
  BY <1>2, <1>3, <1>4, <1>5

\* The assumptions about the constants are the same.
LEMMA OldAssumptions ==
    /\ MaxCommunity \in Nat /\ MaxLag \in Nat /\ MaxDeplLag \in Nat
       /\ MaxEnv \in Nat /\ MaxFaults \in Nat
    /\ InitNodes \in [Nodes -> OldP!NodeStates]
    /\ Selects \in [Edges -> SUBSET Pods] /\ InvalidSelectors \subseteq Edges
    /\ NoOverlay \notin Overlays /\ NoPod \notin Pods
    /\ Nodes \subseteq Nat \ {OldP!NoNode} /\ OldP!IsFiniteSet(Nodes)
<1>1. OldP!IsFiniteSet(Nodes)
  BY NodesAssumption DEF IsFiniteSet, OldP!IsFiniteSet
<1>2. OldP!NoNode = NoNode
  BY DEF OldP!NoNode, NoNode
<1>. QED
  BY <1>1, <1>2, SameTypes, NodesAssumption, NamesAssumption, SelectsAssumption,
     InitNodesAssumption, BoundsAssumption

\* They follow each other in the same way.
LEMMA SameFollow == \A s, t : OldP!Follow(s, t) = Follow(s, t)
  BY DEF OldP!Follow, Follow

\* The old operator takes a key like any replica.
LEMMA OldTakes == ASSUME NEW o \in Overlays, Old!Take(o) PROVE OldP!Take(o)
  BY Zenon DEF Old!Take, Old!Begin, Old!CachesAreRecent, Old!Cache, Old!workerVars, Old!objVars,
     Old!WorkerUnchanged, OldP!Take, OldP!Begin, OldP!CachesAreRecent, OldP!Cache,
     OldP!workerVars, OldP!objVars, OldP!WorkerUnchanged

\* It is informed like any replica.
LEMMA OldIsInformed == ASSUME Old!Inform PROVE OldP!Inform
  BY Zenon DEF Old!Inform, Old!Deliver, Old!DeliverDepls, Old!objVars, Old!workerVars,
     Old!WorkerUnchanged, OldP!Inform, OldP!Deliver, OldP!DeliverDepls, OldP!objVars,
     OldP!workerVars, OldP!WorkerUnchanged

\* Its Reconcile is that of any replica.
LEMMA OldWorks == ASSUME Old!Work PROVE OldP!Work
  BY Zenon DEF Old!Work, Old!Write, Old!Conflict, Old!NothingToWrite, Old!wanted,
     Old!Worker, Old!AddFinalizer, Old!PatchGateways, Old!AllocateCommunity,
     Old!EnsureKeys, Old!EnsureGatewayDeployments, Old!EnsureInternalDeployments,
     Old!EnsureInternal, Old!ResolveEdges, Old!TeardownInternal, Old!RemoveFinalizer,
     Old!Patch, Old!SkipTo, Old!Requeue, Old!Stop, Old!streamWith, Old!deplsWith,
     Old!Absent, Old!NothingListed, Old!API, Old!Cache, Old!CachedDepls, Old!InternalDepls,
     Old!CachesAreRecent, Old!WorkerUnchanged, Old!objVars, Old!deplOrphans,
     Old!deplConflicts, Old!targetNodes, Old!readyNodes, Old!gatewaySet, Old!buildGateways,
     Old!changed, Old!freeCommunities, Old!smallest, Old!resolveFails, Old!resolvesTo,
     Old!resolveEdges, Old!edgeStatus, Old!running, Old!gatewayDeployment, Old!roleNodes,
     Old!Roles, Old!NoNode, OldP!Work, OldP!Write, OldP!Conflict, OldP!NothingToWrite,
     OldP!wanted, OldP!Worker, OldP!AddFinalizer, OldP!PatchGateways,
     OldP!AllocateCommunity, OldP!EnsureKeys, OldP!EnsureGatewayDeployments,
     OldP!EnsureInternalDeployments, OldP!EnsureInternal, OldP!ResolveEdges,
     OldP!TeardownInternal, OldP!RemoveFinalizer, OldP!Patch, OldP!SkipTo, OldP!Requeue,
     OldP!Stop, OldP!streamWith, OldP!deplsWith, OldP!Absent, OldP!NothingListed, OldP!API,
     OldP!Cache, OldP!CachedDepls, OldP!InternalDepls, OldP!CachesAreRecent,
     OldP!WorkerUnchanged, OldP!objVars, OldP!deplOrphans, OldP!deplConflicts,
     OldP!targetNodes, OldP!readyNodes, OldP!gatewaySet, OldP!buildGateways, OldP!changed,
     OldP!freeCommunities, OldP!smallest, OldP!resolveFails, OldP!resolvesTo,
     OldP!resolveEdges, OldP!edgeStatus, OldP!running, OldP!gatewayDeployment,
     OldP!roleNodes, OldP!Roles, OldP!NoNode

\* The old operator is at rest, and its statuses are current, in the same words.
LEMMA OldRests ==
    /\ Old!AtRest <=> OldP!AtRest
    /\ OldP!RestStatusIsCurrent => Old!RestStatusIsCurrent
<1>1. Old!AtRest <=> OldP!AtRest
  BY DEF Old!AtRest, OldP!AtRest
<1>2. ASSUME OldP!RestStatusIsCurrent PROVE Old!RestStatusIsCurrent
  BY <1>2, Zenon DEF Old!RestStatusIsCurrent, Old!AtRest, Old!API, Old!buildGateways,
     Old!gatewaySet, Old!Roles, Old!resolveEdges, Old!edgeStatus, Old!resolvesTo,
     Old!running, Old!NoNode, OldP!RestStatusIsCurrent, OldP!AtRest, OldP!API,
     OldP!buildGateways, OldP!gatewaySet, OldP!Roles, OldP!resolveEdges, OldP!edgeStatus,
     OldP!resolvesTo, OldP!running, OldP!NoNode
<1>. QED
  BY <1>1, <1>2

-----------------------------------------------------------------------------
(* The inductive invariant.                                                *)

\* Each operator misses no change of an overlay, since every write of the other
\* is an event for it; and the one that last wrote the gateway Deployments misses
\* nothing that concerns these.
RolloutInv ==
    /\ TypeOK /\ LifeInv /\ StatusInv
    /\ alive => /\ OldP!TypeOK /\ OldP!API = API /\ OldP!StatusInv
                /\ \/ seen = gwDepls /\ RestInv
                   \/ oldSeen = gwDepls /\ OldP!RestInv

\* Both operators see the same API server.
LEMMA SameLife ==
    ASSUME OldP!API = API
    PROVE  OldP!LifeInv <=> LifeInv
  BY DEF OldP!LifeInv, LifeInv

\* The old operator follows a write of somebody else.
LEMMA OldFollowsAll ==
    ASSUME TypeOK', OldP!TypeOK, alive, OldFollows,
           UNCHANGED <<oldQueue, oldPc, oldCur, oldMem, oldList, nodes, pods>>
    PROVE  /\ OldP!TypeOK' /\ (OldP!API = API)'
           /\ OldP!StatusInv => OldP!StatusInv'
           /\ OldP!RestInv /\ UNCHANGED gwDepls => OldP!RestInv'
<1>1. /\ stream' \in Seq([Overlays -> NetworkOverlay]) /\ stream' # <<>>
      /\ depls' \in Seq(SUBSET Nodes) /\ depls' # <<>>
      /\ gwDepls' \in [Roles -> GatewayDeployment] /\ nodes' \in [Nodes -> NodeStates]
      /\ pods' \in [Pods -> Pod] /\ env' \in 0..MaxEnv /\ faults' \in 0..MaxFaults
  BY DEF TypeOK
<1>2. OldP!FollowsStep(stream', depls')
  BY SameFollow DEF OldFollows, OldP!FollowsStep
<1>3. OldP!TypeOK' /\ OldP!API' = stream'[Len(stream')]
  BY <1>1, <1>2, SameTypes, OldAssumptions, OldP!FollowType, Zenon
<1>4. OldP!API' = API'
  BY <1>3 DEF API
<1>5. ASSUME OldP!StatusInv PROVE OldP!StatusInv'
  BY <1>1, <1>2, <1>5, SameTypes, OldAssumptions, OldP!FollowRest, Zenon DEF OldP!StatusInv
<1>6. ASSUME OldP!RestInv, UNCHANGED gwDepls PROVE OldP!RestInv'
  BY <1>1, <1>2, <1>6, SameTypes, OldAssumptions, OldP!FollowRest, Zenon DEF OldP!RestInv
<1>. QED
  BY <1>3, <1>4, <1>5, <1>6

\* The new operator follows a write of the old one.
LEMMA NewFollowsAll ==
    ASSUME OldP!TypeOK', TypeOK, NewFollows, UNCHANGED <<nodes, pods>>
    PROVE  /\ TypeOK' /\ (OldP!API = API)'
           /\ StatusInv => StatusInv'
           /\ RestInv /\ UNCHANGED gwDepls => RestInv'
<1>1. /\ oldStream' \in Seq([Overlays -> NetworkOverlay]) /\ oldStream' # <<>>
      /\ oldDepls' \in Seq(SUBSET Nodes) /\ oldDepls' # <<>>
      /\ gwDepls' \in [Roles -> GatewayDeployment] /\ nodes' \in [Nodes -> NodeStates]
      /\ pods' \in [Pods -> Pod] /\ env' \in 0..MaxEnv /\ faults' \in 0..MaxFaults
  BY SameTypes DEF OldP!TypeOK
<1>2. FollowsStep(oldStream', oldDepls')
  BY DEF NewFollows, newLocal, FollowsStep
<1>3. TypeOK' /\ API' = oldStream'[Len(oldStream')]
  BY <1>1, <1>2, FollowType, Zenon
<1>4. OldP!API' = API'
  BY <1>3 DEF OldP!API
<1>5. ASSUME StatusInv PROVE StatusInv'
  BY <1>1, <1>2, <1>5, FollowRest, Zenon DEF StatusInv
<1>6. ASSUME RestInv, UNCHANGED gwDepls PROVE RestInv'
  BY <1>1, <1>2, <1>6, FollowRest, Zenon DEF RestInv
<1>. QED
  BY <1>3, <1>4, <1>5, <1>6

\* A step of the new operator: if it writes the gateway Deployments, it becomes
\* the one to see to them.
LEMMA NewStep ==
    ASSUME RolloutInv, ReplicaStep, OldFollows, UNCHANGED oldLocal
    PROVE  RolloutInv'
<1>1. TypeOK /\ LifeInv /\ StatusInv
  BY DEF RolloutInv
<1>2. TypeOK' /\ LifeInv'
  BY <1>1, ReplicaType, ReplicaLife
<1>3. StatusInv'
  BY <1>1, ReplicaRest, Zenon DEF StatusInv
<1>4. UNCHANGED <<nodes, pods, alive>>
      /\ UNCHANGED <<oldQueue, oldPc, oldCur, oldMem, oldList, oldSeen>>
  BY ReplicaCluster DEF WorkerUnchanged, OldFollows, oldLocal
<1>5. ASSUME alive
      PROVE  /\ OldP!TypeOK' /\ (OldP!API = API)' /\ OldP!StatusInv'
             /\ \/ seen' = gwDepls' /\ RestInv'
                \/ oldSeen' = gwDepls' /\ OldP!RestInv'
  <2>1. /\ OldP!TypeOK /\ OldP!StatusInv
        /\ \/ seen = gwDepls /\ RestInv
           \/ oldSeen = gwDepls /\ OldP!RestInv
    BY <1>5 DEF RolloutInv
  <2>2. /\ OldP!TypeOK' /\ (OldP!API = API)' /\ OldP!StatusInv'
        /\ OldP!RestInv /\ UNCHANGED gwDepls => OldP!RestInv'
    BY <1>2, <1>4, <1>5, <2>1, OldFollowsAll
  <2>3. CASE gwDepls' # gwDepls
    BY <1>1, <2>2, <2>3, ReplicaWrites
  <2>4. CASE seen = gwDepls /\ RestInv
    <3>1. RestInv' /\ seen' = gwDepls'
      BY <1>1, <2>4, ReplicaRest, Zenon DEF RestInv
    <3>. QED
      BY <2>2, <3>1
  <2>5. CASE gwDepls' = gwDepls /\ oldSeen = gwDepls /\ OldP!RestInv
    BY <1>4, <2>2, <2>5
  <2>. QED
    BY <2>1, <2>3, <2>4, <2>5
<1>. QED
  BY <1>2, <1>3, <1>4, <1>5 DEF RolloutInv

\* A step of the old operator, likewise.
LEMMA OldStep ==
    ASSUME RolloutInv, alive, OldP!ReplicaStep, NewFollows
    PROVE  RolloutInv'
<1>1. /\ TypeOK /\ StatusInv /\ OldP!TypeOK /\ OldP!StatusInv /\ OldP!LifeInv
      /\ \/ seen = gwDepls /\ RestInv
         \/ oldSeen = gwDepls /\ OldP!RestInv
  BY SameLife DEF RolloutInv
<1>2. OldP!TypeOK'
  BY <1>1, OldAssumptions, OldP!ReplicaType
<1>3. OldP!LifeInv'
  BY <1>1, OldAssumptions, OldP!ReplicaLife
<1>4. OldP!StatusInv'
  BY <1>1, OldAssumptions, OldP!ReplicaRest, Zenon DEF OldP!StatusInv
<1>5. OldP!WorkerUnchanged
  BY OldAssumptions, OldP!ReplicaCluster
<1>6. UNCHANGED <<nodes, pods, alive, seen>>
  BY <1>5 DEF OldP!WorkerUnchanged, NewFollows, newLocal
<1>7. /\ TypeOK' /\ (OldP!API = API)' /\ StatusInv'
      /\ RestInv /\ UNCHANGED gwDepls => RestInv'
  BY <1>1, <1>2, <1>6, NewFollowsAll
<1>8. LifeInv'
  BY <1>3, <1>7 DEF OldP!LifeInv, LifeInv
<1>9. \/ seen' = gwDepls' /\ RestInv'
      \/ oldSeen' = gwDepls' /\ OldP!RestInv'
  <2>1. CASE gwDepls' # gwDepls
    BY <1>1, <2>1, OldAssumptions, OldP!ReplicaWrites
  <2>2. CASE oldSeen = gwDepls /\ OldP!RestInv
    <3>1. OldP!RestInv' /\ oldSeen' = gwDepls'
      BY <1>1, <2>2, OldAssumptions, OldP!ReplicaRest, Zenon DEF OldP!RestInv
    <3>. QED
      BY <3>1
  <2>3. CASE gwDepls' = gwDepls /\ seen = gwDepls /\ RestInv
    BY <1>6, <1>7, <2>3
  <2>. QED
    BY <1>1, <2>1, <2>2, <2>3
<1>. QED
  BY <1>2, <1>4, <1>7, <1>8, <1>9 DEF RolloutInv

\* What users write is an event for both operators.
LEMMA EditStep == ASSUME RolloutInv, Edit PROVE RolloutInv'
<1>1. /\ TypeOK /\ LifeInv /\ StatusInv
      /\ alive => /\ OldP!TypeOK /\ OldP!StatusInv
                  /\ \/ seen = gwDepls /\ RestInv
                     \/ oldSeen = gwDepls /\ OldP!RestInv
  BY DEF RolloutInv
<1>2. /\ TypeOK' /\ LifeInv' /\ StatusInv' /\ (RestInv => RestInv')
      /\ OldFollows /\ UNCHANGED <<nodes, pods, gwDepls, alive, seen>>
      /\ UNCHANGED <<oldQueue, oldPc, oldCur, oldMem, oldList, oldSeen>>
  BY <1>1, EditNew
<1>3. ASSUME alive
      PROVE  /\ OldP!TypeOK' /\ (OldP!API = API)' /\ OldP!StatusInv'
             /\ OldP!RestInv => OldP!RestInv'
  BY <1>1, <1>2, <1>3, OldFollowsAll
<1>. QED
  BY <1>1, <1>2, <1>3 DEF RolloutInv

\* A Node event queues every overlay with both operators.
LEMMA RelabelStep == ASSUME RolloutInv, Relabel PROVE RolloutInv'
<1>1. /\ TypeOK /\ LifeInv
      /\ alive => /\ OldP!TypeOK /\ OldP!API = API
                  /\ seen = gwDepls \/ oldSeen = gwDepls
  BY DEF RolloutInv
<1>2. TypeOK' /\ LifeInv' /\ StatusInv' /\ RestInv' /\ UNCHANGED <<stream, gwDepls>>
  BY <1>1, RelabelNew
<1>3. /\ oldQueue' = oldQueue \cup {o \in Overlays : alive /\ Old!Cache[o].exists}
      /\ UNCHANGED <<oldStream, oldDepls, oldPc, oldCur, oldMem, oldList, oldSeen, seen, alive>>
  BY DEF Relabel
<1>4. ASSUME alive
      PROVE  OldP!TypeOK' /\ (OldP!API = API)' /\ OldP!StatusInv' /\ OldP!RestInv'
  <2>1. OldP!TypeOK'
    BY <1>1, <1>2, <1>3, <1>4, SameTypes DEF TypeOK, OldP!TypeOK
  <2>2. OldP!enqueueAll
    BY <1>3, <1>4 DEF OldP!enqueueAll, OldP!Cache, Old!Cache
  <2>3. OldP!StatusInv' /\ OldP!RestInv'
    BY <1>1, <1>3, <1>4, <2>2, OldAssumptions, OldP!ClusterRest, Zenon
       DEF OldP!StatusInv, OldP!RestInv
  <2>4. (OldP!API = API)'
    BY <1>1, <1>2, <1>3, <1>4 DEF OldP!API, API
  <2>. QED
    BY <2>1, <2>3, <2>4
<1>. QED
  BY <1>1, <1>2, <1>3, <1>4 DEF RolloutInv

\* Nothing happens.
LEMMA RolloutStutter == ASSUME RolloutInv, UNCHANGED rolloutVars PROVE RolloutInv'
<1>1. /\ UNCHANGED vars
      /\ UNCHANGED <<seen, oldStream, oldDepls, oldQueue, oldPc, oldCur, oldMem, oldList, oldSeen, alive>>
  BY DEF rolloutVars, oldLocal
<1>2. UNCHANGED <<stream, depls, gwDepls, nodes, pods, queue, pc, cur, mem, list, env, faults>>
  BY <1>1 DEF vars
<1>3. TypeOK' /\ LifeInv' /\ StatusInv' /\ (RestInv => RestInv')
  BY <1>1, NextType, LifeNext, NextRest, Zenon DEF RolloutInv, StatusInv, RestInv
<1>4. UNCHANGED OldP!vars
  BY <1>1, <1>2 DEF OldP!vars
<1>5. ASSUME alive
      PROVE  OldP!TypeOK' /\ (OldP!API = API)' /\ OldP!StatusInv' /\ (OldP!RestInv => OldP!RestInv')
  <2>1. OldP!TypeOK /\ OldP!LifeInv /\ OldP!StatusInv /\ OldP!API = API
    BY <1>5, SameLife DEF RolloutInv
  <2>2. OldP!TypeOK'
    BY <1>4, <2>1, OldAssumptions, OldP!NextType
  <2>3. OldP!StatusInv' /\ (OldP!RestInv => OldP!RestInv')
    BY <1>4, <2>1, OldAssumptions, OldP!NextRest, Zenon DEF OldP!StatusInv, OldP!RestInv
  <2>4. (OldP!API = API)'
    BY <1>1, <1>2, <2>1 DEF OldP!API, API
  <2>. QED
    BY <2>2, <2>3, <2>4
<1>. QED
  BY <1>1, <1>2, <1>3, <1>5 DEF RolloutInv

\* A rollout starts with an old operator that has nothing to do.
LEMMA RolloutInitInv == RolloutInit => RolloutInv
<1>. SUFFICES ASSUME RolloutInit PROVE RolloutInv
  OBVIOUS
<1>1. /\ TypeOK /\ LifeInv /\ StatusInv /\ RestInv
      /\ \A o \in Overlays : API[o].exists => API[o] = reconciled
  BY RolloutInitNew
<1>2. /\ oldStream = stream /\ oldDepls = depls /\ oldQueue = {} /\ oldSeen = seen
      /\ oldPc = "idle" /\ oldPc = pc /\ oldCur = cur /\ oldMem = mem /\ oldList = list
      /\ seen = gwDepls
  BY DEF RolloutInit
<1>3. OldP!TypeOK /\ OldP!API = API
  BY <1>1, <1>2, SameTypes DEF TypeOK, OldP!TypeOK, OldP!API, API
<1>4. ASSUME NEW o \in Overlays, API[o].exists PROVE OldP!StatusIsCurrent(o)
  <2>1. /\ ~reconciled.deleting /\ reconciled.finalizer
        /\ reconciled.community # 0 /\ reconciled.key
        /\ reconciled.gateways = buildGateways
        /\ reconciled.edges = {} /\ reconciled.spec = {}
    BY DEF reconciled, Absent
  <2>2. OldP!buildGateways = buildGateways
    BY SameTypes DEF OldP!buildGateways, OldP!gatewaySet, buildGateways, gatewaySet
  <2>3. OldP!resolveEdges({}) = {}
    BY DEF OldP!resolveEdges
  <2>. QED
    BY <1>1, <1>3, <1>4, <2>1, <2>2, <2>3 DEF OldP!StatusIsCurrent
<1>5. OldP!StatusInv
  BY <1>2, <1>3, <1>4 DEF OldP!StatusInv, OldP!UpToDateOrOwed, OldP!busy, OldP!Serves
<1>. QED
  BY <1>1, <1>2, <1>3, <1>5 DEF RolloutInv

\* Every step of a rollout keeps the invariant.
LEMMA RolloutNextInv == RolloutInv /\ [RolloutNext]_rolloutVars => RolloutInv'
<1>. SUFFICES ASSUME RolloutInv, [RolloutNext]_rolloutVars PROVE RolloutInv'
  OBVIOUS
<1>1. ASSUME NEW o \in Overlays, NewTake(o) PROVE RolloutInv'
  BY <1>1, NewStep DEF NewTake, ReplicaStep
<1>2. CASE NewWork \/ NewInform
  BY <1>2, NewStep DEF NewWork, NewInform, ReplicaStep
<1>3. ASSUME NEW o \in Overlays, OldTake(o) PROVE RolloutInv'
  BY <1>3, OldTakes, OldStep DEF OldTake, OldP!ReplicaStep
<1>4. CASE OldWork \/ OldInform
  BY <1>4, OldWorks, OldIsInformed, OldStep DEF OldWork, OldInform, OldP!ReplicaStep
<1>5. CASE Terminate
  <2>1. TypeOK' /\ LifeInv' /\ StatusInv' /\ ~alive'
    BY <1>5, TerminateNew, Zenon DEF RolloutInv, Terminate
  <2>. QED
    BY <2>1 DEF RolloutInv
<1>. QED
  BY <1>1, <1>2, <1>3, <1>4, <1>5, EditStep, RelabelStep, RolloutStutter DEF RolloutNext

\* The invariant holds throughout a rollout.
LEMMA RolloutInvHolds == RolloutSpec => []RolloutInv
  BY RolloutInitInv, RolloutNextInv, PTL DEF RolloutSpec

\* RolloutStatusIsCurrent for every lag of the caches and wherever the old
\* operator ends: with two operators that write over each other, none of them
\* ever stops at a stale status.
THEOREM RolloutStatusIsCurrentHolds == RolloutSpec => []RolloutStatusIsCurrent
<1>1. ASSUME RolloutInv PROVE RolloutStatusIsCurrent
  <2>1. RestStatusIsCurrent
    BY <1>1, StatusAtRest, Zenon DEF RolloutInv, StatusInv
  <2>2. alive => OldP!RestStatusIsCurrent
    BY <1>1, OldAssumptions, OldP!StatusAtRest, Zenon DEF RolloutInv, OldP!StatusInv
  <2>. QED
    BY <2>1, <2>2, OldRests DEF RolloutStatusIsCurrent
<1>. QED
  BY <1>1, RolloutInvHolds, PTL

\* RolloutGatewaysMatch, likewise: the operator that wrote the gateway
\* Deployments last leaves none of them wrong, and when the other has come to
\* rest, too, it sees the same overlays.
THEOREM RolloutGatewaysMatchHolds == RolloutSpec => []RolloutGatewaysMatch
<1>1. ASSUME RolloutInv, alive, Old!AtRest PROVE RestGatewaysMatch
  <2>1. CASE RestInv
    BY <1>1, <2>1, GatewaysAtRest DEF RolloutInv
  <2>2. CASE OldP!RestInv
    <3>1. OldP!RestGatewaysMatch /\ OldP!AtRest /\ OldP!API = API
      BY <1>1, <2>2, OldAssumptions, OldRests, OldP!GatewaysAtRest DEF RolloutInv
    <3>2. \A r : OldP!gatewayDeployment(r, API).node = gatewayDeployment(r, API).node
      BY Zenon DEF OldP!gatewayDeployment, OldP!roleNodes, OldP!smallest, OldP!NoNode,
         gatewayDeployment, roleNodes, smallest, NoNode
    <3>. QED
      BY <3>1, <3>2, SameTypes DEF OldP!RestGatewaysMatch, RestGatewaysMatch
  <2>. QED
    BY <1>1, <2>1, <2>2 DEF RolloutInv
<1>2. RolloutInv => RolloutGatewaysMatch
  BY <1>1 DEF RolloutGatewaysMatch
<1>. QED
  BY <1>2, RolloutInvHolds, PTL

=============================================================================
