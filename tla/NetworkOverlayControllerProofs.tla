------------------- MODULE NetworkOverlayControllerProofs -------------------
(***************************************************************************)
(* Proofs about NetworkOverlayController, for any sets of overlays, nodes, *)
(* pods and edges and any lag of the caches; and, at the end, about one    *)
(* that is not alone (OperatorReplica).                                    *)
(***************************************************************************)
EXTENDS OperatorReplica, WellFoundedInduction, TLAPS

\* `smallest', which picks a community number and a gateway node, is defined
\* on every non-empty set of naturals.
LEMMA SmallestIsMember ==
    ASSUME NEW S \in SUBSET Nat, S # {}
    PROVE  smallest(S) \in S /\ \A y \in S : smallest(S) <= y
<1>1. \E x \in S : \A y \in S : ~(<<y, x>> \in OpToRel(<, Nat))
  BY NatLessThanWellFounded, WFMin, Zenon
<1>2. PICK x \in S : \A y \in S : ~(<<y, x>> \in OpToRel(<, Nat))
  BY <1>1, Zenon
<1>3. \A y \in S : x <= y
  <2>. SUFFICES ASSUME NEW y \in S PROVE x <= y
    OBVIOUS
  <2>1. ~(y < x)
    BY <1>2, Zenon DEF OpToRel
  <2>. QED
    BY <2>1
<1>. QED
  BY <1>3, Zenon DEF smallest

\* A write adds at the end of a history and leaves its beginning alone.
LEMMA AppendFacts ==
    ASSUME NEW S, NEW s \in Seq(S), s # <<>>, NEW x \in S
    PROVE  /\ Append(s, x) \in Seq(S) /\ Append(s, x) # <<>>
           /\ Len(s) \in Nat /\ Len(s) >= 1 /\ Len(Append(s, x)) = Len(s) + 1
           /\ \A i \in 1..Len(s) : Append(s, x)[i] = s[i]
           /\ Append(s, x)[1] = s[1]
           /\ Append(s, x)[Len(Append(s, x))] = x
  OBVIOUS

\* The informer drops the first element of a history.
LEMMA TailFacts ==
    ASSUME NEW S, NEW s \in Seq(S), Len(s) > 1
    PROVE  /\ Tail(s) \in Seq(S) /\ Tail(s) # <<>>
           /\ Len(s) \in Nat /\ Len(Tail(s)) = Len(s) - 1
           /\ \A i \in 1..Len(Tail(s)) : i + 1 \in 1..Len(s) /\ Tail(s)[i] = s[i + 1]
           /\ Tail(s)[Len(Tail(s))] = s[Len(s)]
  OBVIOUS

\* Cache and API server are contents of the history.
LEMMA EndsAreMembers ==
    ASSUME NEW S, NEW s \in Seq(S), s # <<>>
    PROVE  /\ Len(s) \in Nat /\ Len(s) >= 1
           /\ 1 \in 1..Len(s) /\ Len(s) \in 1..Len(s)
           /\ s[1] \in S /\ s[Len(s)] \in S
  OBVIOUS

-----------------------------------------------------------------------------
(* Types of what the helpers of the reconciler return.                     *)

USE DEF NoNode

\* What the API server keeps of a removed object is a well-typed overlay.
LEMMA AbsentType == \A u \in Nat : Absent(u) \in NetworkOverlay
  BY BoundsAssumption DEF Absent, NetworkOverlay

\* The empty list that Reconcile starts from is well typed.
LEMMA NothingListedType == NothingListed \in [Overlays -> NetworkOverlay]
  BY AbsentType DEF NothingListed

\* Reads of the client's cache and of the API server give well-typed objects.
LEMMA ViewTypes ==
    ASSUME TypeOK
    PROVE  /\ Cache \in [Overlays -> NetworkOverlay] /\ API \in [Overlays -> NetworkOverlay]
           /\ CachedDepls \subseteq Nodes /\ InternalDepls \subseteq Nodes
  BY EndsAreMembers DEF TypeOK, Cache, API, CachedDepls, InternalDepls

\* A write of a well-typed overlay keeps the event stream well typed.
LEMMA StreamWithType ==
    ASSUME TypeOK, NEW o \in Overlays, NEW v \in NetworkOverlay
    PROVE  /\ streamWith(o, v) \in Seq([Overlays -> NetworkOverlay])
           /\ streamWith(o, v) # <<>>
<1>1. [API EXCEPT ![o] = v] \in [Overlays -> NetworkOverlay]
  BY ViewTypes
<1>2. stream \in Seq([Overlays -> NetworkOverlay]) /\ stream # <<>>
  BY DEF TypeOK
<1>3. /\ Append(stream, [API EXCEPT ![o] = v]) \in Seq([Overlays -> NetworkOverlay])
      /\ Append(stream, [API EXCEPT ![o] = v]) # <<>>
  BY <1>1, <1>2, AppendFacts
<1>. QED
  BY <1>2, <1>3, Zenon DEF streamWith

\* A write of internal Deployments keeps their event stream well typed.
LEMMA DeplsWithType ==
    ASSUME TypeOK, NEW D \in SUBSET Nodes
    PROVE  deplsWith(D) \in Seq(SUBSET Nodes) /\ deplsWith(D) # <<>>
<1>1. depls \in Seq(SUBSET Nodes) /\ depls # <<>>
  BY DEF TypeOK
<1>2. Append(depls, D) \in Seq(SUBSET Nodes) /\ Append(depls, D) # <<>>
  BY <1>1, AppendFacts
<1>. QED
  BY <1>1, <1>2 DEF deplsWith

\* buildGateways returns a well-typed status.gateways.
LEMMA BuildGatewaysType == buildGateways \in SUBSET Gateway
<1>1. ASSUME NEW n \in Nodes
      PROVE  [node |-> n, isSecondary |-> nodes[n] = "secondary"] \in Gateway
  <2>1. (nodes[n] = "secondary") \in BOOLEAN
    OBVIOUS
  <2>. QED
    BY <2>1, Zenon DEF Gateway
<1>2. gatewaySet \subseteq Nodes
  BY DEF gatewaySet
<1>. QED
  BY <1>1, <1>2, Zenon DEF buildGateways

\* allocateCommunity returns a number of the pool when one is free.
LEMMA FreeCommunityType ==
    ASSUME NEW o \in Overlays, freeCommunities(o) # {}
    PROVE  smallest(freeCommunities(o)) \in 1..MaxCommunity
<1>1. freeCommunities(o) \in SUBSET Nat /\ freeCommunities(o) \subseteq 1..MaxCommunity
  BY BoundsAssumption DEF freeCommunities
<1>. QED
  BY <1>1, SmallestIsMember

\* One entry of status.edges, as resolveEdges fills it in, is well typed.
LEMMA EdgeStatusType ==
    ASSUME TypeOK, NEW e \in Edges
    PROVE  edgeStatus(e) \in EdgeStatus
<1>1. CASE \E p \in Pods : resolvesTo(e, p)
  <2>. DEFINE q == CHOOSE p \in Pods : resolvesTo(e, p)
  <2>1. q \in Pods
    BY <1>1
  <2>2. pods[q].node \in Nodes \cup {NoNode}
    BY <2>1 DEF TypeOK, Pod
  <2>3. edgeStatus(e) = [edge |-> e, ready |-> TRUE, pod |-> q, node |-> pods[q].node]
    BY <1>1 DEF edgeStatus
  <2>. QED
    BY <2>1, <2>2, <2>3 DEF EdgeStatus
<1>2. CASE ~\E p \in Pods : resolvesTo(e, p)
  BY <1>2 DEF edgeStatus, EdgeStatus
<1>. QED
  BY <1>1, <1>2

\* resolveEdges returns a well-typed status.edges.
LEMMA ResolveEdgesType ==
    ASSUME TypeOK, NEW spec \in SUBSET Edges
    PROVE  resolveEdges(spec) \in SUBSET EdgeStatus
  BY EdgeStatusType DEF resolveEdges

\* The target set of EnsureInternalDeployments is a set of nodes.
LEMMA TargetNodesType ==
    ASSUME NEW ovs \in [Overlays -> NetworkOverlay], NEW names \in SUBSET Overlays
    PROVE  targetNodes(ovs, names) \in SUBSET Nodes
<1>1. \A o \in names : ovs[o].edges \subseteq EdgeStatus
  BY DEF NetworkOverlay
<1>2. UNION {ovs[o].edges : o \in names} \subseteq EdgeStatus
  BY <1>1
<1>3. \A t \in EdgeStatus : t.node # NoNode => t.node \in Nodes
  BY DEF EdgeStatus
<1>. QED
  BY <1>2, <1>3 DEF targetNodes, readyNodes

\* EnsureGatewayDeployments writes well-typed Deployments.
LEMMA GatewayDeploymentType ==
    ASSUME NEW r \in Roles, NEW ovs
    PROVE  gatewayDeployment(r, ovs) \in GatewayDeployment
<1>1. roleNodes(r) \in SUBSET Nat /\ roleNodes(r) \subseteq Nodes
  BY NodesAssumption, Zenon DEF roleNodes
<1>2. roleNodes(r) # {} => smallest(roleNodes(r)) \in Nodes
  BY <1>1, SmallestIsMember
<1>. QED
  BY <1>2 DEF gatewayDeployment, GatewayDeployment

-----------------------------------------------------------------------------
(* Type correctness.                                                       *)

\* The part of TypeOK that a call to the API server for an overlay can change.
CoreType ==
    /\ stream \in Seq([Overlays -> NetworkOverlay]) /\ stream # <<>>
    /\ queue \subseteq Overlays
    /\ pc \in Steps
    /\ cur \in Overlays \cup {NoOverlay} /\ (pc # "idle" => cur \in Overlays)
    /\ mem \in NetworkOverlay
    /\ list \in [Overlays -> NetworkOverlay]

\* A step of Reconcile that keeps worker and overlays well typed and leaves the
\* Deployments and the cluster alone keeps all state well typed.
LEMMA CoreTypeFrame ==
    ASSUME TypeOK, CoreType', UNCHANGED <<depls, gwDepls>>, WorkerUnchanged
    PROVE  TypeOK'
  BY DEF TypeOK, CoreType, WorkerUnchanged

\* Returning from Reconcile keeps the worker's state well typed.
LEMMA StopType ==
    ASSUME TypeOK, Stop
    PROVE  /\ pc' \in Steps /\ mem' \in NetworkOverlay /\ list' \in [Overlays -> NetworkOverlay]
           /\ cur' \in Overlays \cup {NoOverlay} /\ pc' = "idle"
  BY AbsentType, NothingListedType DEF Stop, Steps

\* Returning an error from Reconcile keeps worker and queue well typed.
LEMMA RequeueType ==
    ASSUME TypeOK, pc # "idle", Requeue, UNCHANGED stream
    PROVE  CoreType'
<1>1. cur \in Overlays
  BY DEF TypeOK
<1>2. queue' \subseteq Overlays
  BY <1>1 DEF Requeue, TypeOK
<1>3. /\ pc' \in Steps /\ mem' \in NetworkOverlay /\ list' \in [Overlays -> NetworkOverlay]
      /\ cur' \in Overlays \cup {NoOverlay} /\ pc' = "idle"
  BY StopType DEF Requeue
<1>. QED
  BY <1>2, <1>3 DEF TypeOK, CoreType

\* Going on without a write keeps the worker's state well typed.
LEMMA SkipToType ==
    ASSUME TypeOK, pc # "idle", NEW next \in Steps, SkipTo(next)
    PROVE  CoreType'
  BY DEF TypeOK, CoreType, SkipTo

\* A merge patch with a well-typed result keeps worker and stream well typed.
LEMMA PatchType ==
    ASSUME TypeOK, pc # "idle", NEW v \in NetworkOverlay, NEW next \in Steps, Patch(v, next)
    PROVE  CoreType'
<1>1. CASE API[cur].exists
  <2>1. cur \in Overlays
    BY DEF TypeOK
  <2>2. stream' = streamWith(cur, v) /\ pc' = next /\ mem' = v /\ UNCHANGED <<cur, list, queue>>
    BY <1>1 DEF Patch
  <2>. QED
    BY <2>1, <2>2, StreamWithType DEF TypeOK, CoreType
<1>2. CASE ~API[cur].exists
  BY <1>2, RequeueType DEF Patch
<1>. QED
  BY <1>1, <1>2

\* Taking a key and Get keep all state well typed.
LEMMA BeginType == ASSUME TypeOK, NEW o \in Overlays, Begin(o) PROVE TypeOK'
<1>1. Cache[o] \in NetworkOverlay
  BY ViewTypes
<1>2. CoreType'
  BY <1>1 DEF Begin, TypeOK, CoreType, workerVars, objVars, Steps
<1>. QED
  BY <1>2, CoreTypeFrame DEF Begin, objVars

\* The object of the running Reconcile, cached or not, is well typed.
LEMMA CurType == ASSUME TypeOK, pc # "idle" PROVE cur \in Overlays /\ API[cur] \in NetworkOverlay
  BY ViewTypes DEF TypeOK

\* The finalizer patch keeps all state well typed.
LEMMA AddFinalizerType == ASSUME TypeOK, AddFinalizer PROVE TypeOK'
<1>1. [API[cur] EXCEPT !.finalizer = TRUE] \in NetworkOverlay
  BY CurType, Zenon DEF AddFinalizer, NetworkOverlay
<1>2. CoreType'
  BY <1>1, PatchType DEF AddFinalizer, Steps
<1>. QED
  BY <1>2, CoreTypeFrame DEF AddFinalizer

\* The status.gateways patch keeps all state well typed.
LEMMA PatchGatewaysType == ASSUME TypeOK, PatchGateways PROVE TypeOK'
<1>1. API[cur] \in NetworkOverlay /\ [API[cur] EXCEPT !.gateways = buildGateways] \in NetworkOverlay
  BY CurType, BuildGatewaysType DEF PatchGateways, NetworkOverlay
<1>2. CASE changed(mem.gateways, buildGateways)
  BY <1>1, <1>2, PatchType, CoreTypeFrame DEF PatchGateways, Steps
<1>3. CASE ~changed(mem.gateways, buildGateways)
  BY <1>3, SkipToType, CoreTypeFrame DEF PatchGateways, Steps
<1>. QED
  BY <1>2, <1>3

\* The status.community patch keeps all state well typed.
LEMMA AllocateCommunityType == ASSUME TypeOK, AllocateCommunity PROVE TypeOK'
<1>1. pc # "idle" /\ UNCHANGED <<depls, gwDepls>> /\ WorkerUnchanged
  BY DEF AllocateCommunity
<1>2. CASE mem.community # 0
  BY <1>1, <1>2, SkipToType, CoreTypeFrame DEF AllocateCommunity, Steps
<1>3. CASE mem.community = 0 /\ freeCommunities(cur) # {}
  <2>1. smallest(freeCommunities(cur)) \in 0..MaxCommunity
    BY <1>1, <1>3, CurType, FreeCommunityType, BoundsAssumption
  <2>2. [API[cur] EXCEPT !.community = smallest(freeCommunities(cur))] \in NetworkOverlay
    BY <1>1, <2>1, CurType DEF NetworkOverlay
  <2>. QED
    BY <1>1, <1>3, <2>2, PatchType, CoreTypeFrame DEF AllocateCommunity, Steps
<1>4. CASE mem.community = 0 /\ freeCommunities(cur) = {}
  BY <1>1, <1>4, RequeueType, CoreTypeFrame DEF AllocateCommunity
<1>. QED
  BY <1>2, <1>3, <1>4

\* The status.publicKey patch keeps all state well typed.
LEMMA EnsureKeysType == ASSUME TypeOK, EnsureKeys PROVE TypeOK'
<1>1. [API[cur] EXCEPT !.key = TRUE] \in NetworkOverlay
  BY CurType, Zenon DEF EnsureKeys, NetworkOverlay
<1>2. CASE mem.key
  BY <1>2, SkipToType, CoreTypeFrame DEF EnsureKeys, Steps
<1>3. CASE ~mem.key
  BY <1>1, <1>3, PatchType, CoreTypeFrame DEF EnsureKeys, Steps
<1>. QED
  BY <1>2, <1>3

\* EnsureGatewayDeployments keeps all state well typed.
LEMMA EnsureGatewayType ==
    ASSUME TypeOK, EnsureGatewayDeployments PROVE TypeOK'
<1>1. \A r \in Roles : gatewayDeployment(r, Cache) \in GatewayDeployment
  BY GatewayDeploymentType, ViewTypes
<1>2. gwDepls' \in [Roles -> GatewayDeployment]
  BY <1>1 DEF EnsureGatewayDeployments
<1>. QED
  BY <1>2, ViewTypes DEF EnsureGatewayDeployments, TypeOK, WorkerUnchanged, Steps

\* EnsureInternalDeployments for a set of nodes keeps all state well typed.
LEMMA EnsureInternalType ==
    ASSUME TypeOK, pc # "idle", NEW T \in SUBSET Nodes, NEW next \in Steps, EnsureInternal(T, next)
    PROVE  TypeOK'
<1>1. \A E \in SUBSET T : (InternalDepls \ deplOrphans(T)) \cup E \in SUBSET Nodes
  BY ViewTypes
<1>2. UNCHANGED <<stream, gwDepls>> /\ WorkerUnchanged
  BY DEF EnsureInternal
<1>3. CASE deplConflicts(T) = {}
  <2>1. /\ depls' = deplsWith((InternalDepls \ deplOrphans(T)) \cup T)
        /\ pc' = next /\ list' = NothingListed /\ UNCHANGED <<cur, mem, queue>>
    BY <1>3 DEF EnsureInternal
  <2>2. depls' \in Seq(SUBSET Nodes) /\ depls' # <<>>
    BY <1>1, <2>1, DeplsWithType
  <2>. QED
    BY <1>2, <2>1, <2>2, NothingListedType DEF TypeOK, WorkerUnchanged
<1>4. CASE deplConflicts(T) # {}
  <2>1. PICK E \in SUBSET T : depls' = deplsWith((InternalDepls \ deplOrphans(T)) \cup E)
    BY <1>4 DEF EnsureInternal
  <2>2. depls' \in Seq(SUBSET Nodes) /\ depls' # <<>>
    BY <1>1, <2>1, DeplsWithType
  <2>3. CoreType'
    BY <1>2, <1>4, RequeueType DEF EnsureInternal
  <2>. QED
    BY <1>2, <2>2, <2>3 DEF TypeOK, CoreType, WorkerUnchanged
<1>. QED
  BY <1>3, <1>4

\* Both callers of EnsureInternalDeployments keep all state well typed.
LEMMA InternalDeploymentsType ==
    ASSUME TypeOK, EnsureInternalDeployments \/ TeardownInternal PROVE TypeOK'
<1>1. /\ targetNodes(list, Overlays) \in SUBSET Nodes
      /\ targetNodes(Cache, Overlays \ {cur}) \in SUBSET Nodes
  BY TargetNodesType, ViewTypes, Zenon DEF TypeOK
<1>2. CASE EnsureInternalDeployments
  BY <1>1, <1>2, EnsureInternalType DEF EnsureInternalDeployments, Steps
<1>3. CASE TeardownInternal
  BY <1>1, <1>3, EnsureInternalType DEF TeardownInternal, Steps
<1>. QED
  BY <1>2, <1>3

\* A last write followed by the return of Reconcile keeps the types.
LEMMA StopAfterWriteType ==
    ASSUME TypeOK, Stop, UNCHANGED queue,
           stream' \in Seq([Overlays -> NetworkOverlay]), stream' # <<>>
    PROVE  CoreType'
  BY StopType DEF TypeOK, CoreType

\* The status.edges patch keeps all state well typed.
LEMMA ResolveEdgesStepType == ASSUME TypeOK, ResolveEdges PROVE TypeOK'
<1>1. pc # "idle" /\ UNCHANGED <<depls, gwDepls>> /\ WorkerUnchanged
  BY DEF ResolveEdges
<1>2. mem.spec \in SUBSET Edges
  BY DEF TypeOK, NetworkOverlay
<1>3. [API[cur] EXCEPT !.edges = resolveEdges(mem.spec)] \in NetworkOverlay
  BY <1>1, <1>2, CurType, ResolveEdgesType DEF NetworkOverlay
<1>4. /\ streamWith(cur, [API[cur] EXCEPT !.edges = resolveEdges(mem.spec)])
            \in Seq([Overlays -> NetworkOverlay]) \ {<<>>}
      /\ stream \in Seq([Overlays -> NetworkOverlay]) \ {<<>>}
  BY <1>1, <1>3, CurType, StreamWithType DEF TypeOK
<1>5. (Requeue /\ UNCHANGED stream) \/ (Stop /\ UNCHANGED queue /\ stream' # <<>>
          /\ stream' \in Seq([Overlays -> NetworkOverlay]))
  BY <1>4 DEF ResolveEdges
<1>6. CoreType'
  BY <1>1, <1>5, RequeueType, StopAfterWriteType
<1>. QED
  BY <1>1, <1>6, CoreTypeFrame

\* The removal of the finalizer keeps all state well typed.
LEMMA RemoveFinalizerType == ASSUME TypeOK, RemoveFinalizer PROVE TypeOK'
<1>1. pc # "idle" /\ UNCHANGED <<depls, gwDepls>> /\ WorkerUnchanged
  BY DEF RemoveFinalizer
<1>2. CASE API[cur].exists
  <2>. DEFINE v == IF API[cur].deleting THEN Absent(API[cur].uid)
                   ELSE [API[cur] EXCEPT !.finalizer = FALSE]
  <2>1. API[cur].uid \in Nat /\ [API[cur] EXCEPT !.finalizer = FALSE] \in NetworkOverlay
    BY <1>1, CurType, Zenon DEF NetworkOverlay
  <2>2. v \in NetworkOverlay
    BY <2>1, AbsentType
  <2>3. stream' = streamWith(cur, v) /\ Stop /\ UNCHANGED queue
    BY <1>2 DEF RemoveFinalizer
  <2>. HIDE DEF v
  <2>. QED
    BY <1>1, <2>2, <2>3, CurType, StreamWithType, StopAfterWriteType, CoreTypeFrame
<1>3. CASE ~API[cur].exists
  BY <1>1, <1>3, RequeueType, CoreTypeFrame DEF RemoveFinalizer
<1>. QED
  BY <1>2, <1>3

\* The informers' progress keeps all state well typed.
LEMMA DeliverType == ASSUME TypeOK, Deliver \/ DeliverDepls PROVE TypeOK'
<1>1. CASE Deliver
  <2>1. stream' \in Seq([Overlays -> NetworkOverlay]) /\ stream' # <<>>
    BY <1>1, TailFacts DEF Deliver, TypeOK
  <2>. QED
    BY <1>1, <2>1 DEF Deliver, TypeOK, workerVars
<1>2. CASE DeliverDepls
  <2>1. depls' \in Seq(SUBSET Nodes) /\ depls' # <<>>
    BY <1>2, TailFacts DEF DeliverDepls, TypeOK
  <2>. QED
    BY <1>2, <2>1 DEF DeliverDepls, TypeOK, workerVars
<1>. QED
  BY <1>1, <1>2

\* Failed calls and restarts keep all state well typed.
LEMMA FaultType ==
    ASSUME TypeOK, CallFails \/ GatewayFailsHalfway \/ InternalFailsHalfway \/ Restart
    PROVE  TypeOK'
<1>1. faults' \in 0..MaxFaults
  BY BoundsAssumption
     DEF CallFails, GatewayFailsHalfway, InternalFailsHalfway, Restart, TypeOK
<1>2. CASE CallFails
  <2>1. CoreType'
    BY <1>2, RequeueType DEF CallFails, objVars
  <2>. QED
    BY <1>1, <1>2, <2>1 DEF CallFails, TypeOK, CoreType, objVars, clusterVars
<1>5. CASE GatewayFailsHalfway
  <2>1. gatewayDeployment("primary", Cache) \in GatewayDeployment
    BY GatewayDeploymentType, ViewTypes DEF Roles
  <2>2. gwDepls' \in [Roles -> GatewayDeployment]
    BY <1>5, <2>1, Zenon DEF GatewayFailsHalfway, TypeOK
  <2>3. CoreType'
    BY <1>5, RequeueType DEF GatewayFailsHalfway
  <2>. QED
    BY <1>1, <1>5, <2>2, <2>3 DEF GatewayFailsHalfway, TypeOK, CoreType, clusterVars
<1>3. CASE InternalFailsHalfway
  <2>. DEFINE T == IF pc = "internal" THEN targetNodes(list, Overlays)
                   ELSE targetNodes(Cache, Overlays \ {cur})
  <2>1. T \in SUBSET Nodes
    BY TargetNodesType, ViewTypes, Zenon DEF TypeOK
  <2>2. \/ \E D \in SUBSET deplOrphans(T) : depls' = deplsWith(InternalDepls \ D)
        \/ \E E \in SUBSET (T \ deplConflicts(T)) :
              E # T /\ depls' = deplsWith((InternalDepls \ deplOrphans(T)) \cup E)
    BY <1>3, Zenon DEF InternalFailsHalfway
  <2>. HIDE DEF T
  <2>3. \E D \in SUBSET Nodes : depls' = deplsWith(D)
    BY <2>1, <2>2, ViewTypes, Zenon
  <2>4. depls' \in Seq(SUBSET Nodes) /\ depls' # <<>>
    BY <2>3, DeplsWithType
  <2>5. CoreType'
    BY <1>3, RequeueType DEF InternalFailsHalfway
  <2>. QED
    BY <1>1, <1>3, <2>4, <2>5 DEF InternalFailsHalfway, TypeOK, CoreType, clusterVars
<1>4. CASE Restart
  <2>1. /\ stream' \in Seq([Overlays -> NetworkOverlay]) /\ stream' # <<>>
        /\ depls' \in Seq(SUBSET Nodes) /\ depls' # <<>>
    BY <1>4, ViewTypes DEF Restart
  <2>2. queue' \subseteq Overlays /\ Stop /\ UNCHANGED <<gwDepls, nodes, pods, env>>
    BY <1>4 DEF Restart, clusterVars
  <2>. QED
    BY <1>1, <2>1, <2>2, StopType DEF TypeOK
<1>. QED
  BY <1>2, <1>3, <1>4, <1>5

\* Requests of users and changes of the cluster keep all state well typed.
LEMMA EnvironmentType == ASSUME TypeOK, Environment PROVE TypeOK'
<1>. USE DEF workerVars, clusterVars, objVars
<1>1. Happens => env' \in 0..MaxEnv
  BY BoundsAssumption DEF Happens, TypeOK
<1>2. ASSUME NEW o \in Overlays, Delete(o) PROVE TypeOK'
  <2>1. API[o] \in NetworkOverlay
    BY ViewTypes
  <2>2. [API[o] EXCEPT !.deleting = TRUE] \in NetworkOverlay /\ API[o].uid \in Nat
    BY <2>1, Zenon DEF NetworkOverlay
  <2>3. stream' \in Seq([Overlays -> NetworkOverlay]) /\ stream' # <<>>
    BY <1>2, <2>2, AbsentType, StreamWithType DEF Delete
  <2>. QED
    BY <1>1, <1>2, <2>3 DEF Delete, Happens, TypeOK
<1>3. ASSUME NEW o \in Overlays, NEW spec \in SUBSET Edges, Apply(o, spec) PROVE TypeOK'
  <2>1. API[o] \in NetworkOverlay
    BY ViewTypes
  <2>2. [API[o] EXCEPT !.spec = spec] \in NetworkOverlay /\ API[o].uid + 1 \in Nat
    BY <2>1 DEF NetworkOverlay
  <2>3. [Absent(API[o].uid + 1) EXCEPT !.exists = TRUE, !.spec = spec] \in NetworkOverlay
    BY <2>2, AbsentType, Zenon DEF NetworkOverlay
  <2>4. stream' \in Seq([Overlays -> NetworkOverlay]) /\ stream' # <<>>
    BY <1>3, <2>2, <2>3, StreamWithType DEF Apply
  <2>. QED
    BY <1>1, <1>3, <2>4 DEF Apply, Happens, TypeOK
<1>4. ASSUME NEW p \in Pods, NEW v \in Pod, PodEvent(p, v) PROVE TypeOK'
  BY <1>1, <1>4 DEF PodEvent, Happens, enqueueAll, TypeOK
<1>5. ASSUME NEW n \in Nodes, NEW v \in NodeStates, NodeEvent(n, v) PROVE TypeOK'
  BY <1>1, <1>5 DEF NodeEvent, Happens, enqueueAll, TypeOK
<1>. QED
  BY <1>2, <1>3, <1>4, <1>5 DEF Environment

\* The operator starts well typed.
LEMMA InitType == Init => TypeOK
<1>. SUFFICES ASSUME Init PROVE TypeOK
  OBVIOUS
<1>1. stream \in Seq([Overlays -> NetworkOverlay]) /\ stream # <<>>
  BY NothingListedType DEF Init
<1>2. depls \in Seq(SUBSET Nodes) /\ depls # <<>>
  BY DEF Init
<1>3. gwDepls \in [Roles -> GatewayDeployment] /\ pods \in [Pods -> Pod]
  BY DEF Init, GatewayDeployment, Pod
<1>. QED
  BY <1>1, <1>2, <1>3, AbsentType, NothingListedType, InitNodesAssumption, BoundsAssumption
     DEF Init, TypeOK, Steps

\* Every step keeps all state well typed.
LEMMA NextType == TypeOK /\ [Next]_vars => TypeOK'
<1>. SUFFICES ASSUME TypeOK, [Next]_vars PROVE TypeOK'
  OBVIOUS
<1>1. ASSUME NEW o \in Overlays, Begin(o) PROVE TypeOK'
  BY <1>1, BeginType
<1>2. CASE Worker
  BY <1>2, AddFinalizerType, PatchGatewaysType, AllocateCommunityType, EnsureKeysType,
     EnsureGatewayType, InternalDeploymentsType, ResolveEdgesStepType, RemoveFinalizerType
     DEF Worker
<1>3. CASE UNCHANGED vars
  BY <1>3 DEF vars, TypeOK
<1>. QED
  BY <1>1, <1>2, <1>3, DeliverType, FaultType, EnvironmentType DEF Next

\* Type correctness: every call of Reconcile, every watch event, failure,
\* restart and user request keeps all state of the operator well typed; in
\* particular allocateCommunity never leaves the range of the pool.
THEOREM TypeCorrect == Spec => []TypeOK
  BY InitType, NextType, PTL DEF Spec

-----------------------------------------------------------------------------
(* Status implies finalizer.                                               *)

ObjectInv(o) ==
    /\ \A i \in Window : WellFormed(stream[i][o])
    /\ WindowInOrder(o) /\ BoundIsHeld(o) /\ DeletionIsSeen(o)

\* How the rank of an object depends on its uid, deletion mark and finalizer.
LEMMA RankFacts ==
    ASSUME NEW v \in NetworkOverlay
    PROVE  /\ v.uid \in Nat /\ rank(v) \in Nat
           /\ 4 * v.uid + 1 <= rank(v) /\ rank(v) <= 4 * v.uid + 4
           /\ ~v.exists => rank(v) = 4 * v.uid + 4
           /\ v.exists /\ v.deleting => rank(v) = 4 * v.uid + 3
           /\ isBound(v) => rank(v) = 4 * v.uid + 2
           /\ v.exists /\ ~v.deleting /\ ~v.finalizer => rank(v) = 4 * v.uid + 1
  BY DEF NetworkOverlay, rank, isBound

\* What a write does to the window, to the cache and to the API server.
LEMMA WriteFacts ==
    ASSUME TypeOK, NEW c \in Overlays, NEW v \in NetworkOverlay, stream' = streamWith(c, v)
    PROVE  /\ API' = [API EXCEPT ![c] = v] /\ Cache' = Cache
           /\ Window \subseteq Nat /\ 1 \in Window /\ Len(stream) \in Window
           /\ \A i \in Window' : \/ i \in Window /\ stream'[i] = stream[i]
                                 \/ i = Len(stream) + 1 /\ stream'[i] = API'
           /\ \A i \in Window : stream[i] \in [Overlays -> NetworkOverlay]
<1>1. stream \in Seq([Overlays -> NetworkOverlay]) /\ stream # <<>>
  BY DEF TypeOK
<1>2. API \in [Overlays -> NetworkOverlay]
  BY ViewTypes
<1>3. /\ Window \subseteq Nat /\ 1 \in Window /\ Len(stream) \in Window
      /\ \A i \in Window : stream[i] \in [Overlays -> NetworkOverlay]
  BY <1>1 DEF Window
<1>4. CASE v = API[c]
  <2>1. stream' = stream
    BY <1>4 DEF streamWith
  <2>2. [API EXCEPT ![c] = v] = API
    BY <1>2, <1>4
  <2>. QED
    BY <1>3, <2>1, <2>2 DEF API, Cache, Window
<1>5. CASE v # API[c]
  <2>. DEFINE x == [API EXCEPT ![c] = v]
  <2>1. x \in [Overlays -> NetworkOverlay]
    BY <1>2
  <2>2. stream' = Append(stream, x)
    BY <1>5 DEF streamWith
  <2>. HIDE DEF x
  <2>3. /\ Len(stream) \in Nat /\ Len(stream') = Len(stream) + 1
        /\ \A i \in 1..Len(stream) : stream'[i] = stream[i]
        /\ stream'[1] = stream[1] /\ stream'[Len(stream')] = x
    BY <1>1, <2>1, <2>2, AppendFacts
  <2>4. API' = x /\ Cache' = Cache
    BY <2>3 DEF API, Cache
  <2>5. \A i \in Window' : \/ i \in Window /\ stream'[i] = stream[i]
                           \/ i = Len(stream) + 1 /\ stream'[i] = API'
    BY <2>3, <2>4 DEF Window
  <2>. QED
    BY <1>3, <2>4, <2>5, Zenon DEF x
<1>. QED
  BY <1>4, <1>5

\* A write that moves an object on in its life keeps the invariant, if the
\* finalizer stays while the window shows it and no finalizer meets a deletion.
LEMMA WriteKeepsObjectInv ==
    ASSUME TypeOK, FinalizerInv,
           NEW c \in Overlays, NEW v \in NetworkOverlay, stream' = streamWith(c, v),
           WellFormed(v), rank(API[c]) <= rank(v),
           \A i \in Window : isBound(stream[i][c]) => v.finalizer,
           \A i \in Window : stream[i][c].deleting =>
               /\ (v.deleting /\ v.uid = stream[i][c].uid) \/ ~v.finalizer
               /\ \/ v.deleting /\ v.uid = stream[i][c].uid
                  \/ rank(Cache[c]) >= 4 * stream[i][c].uid + 3,
           NEW o \in Overlays
    PROVE  ObjectInv(o)'
<1>1. /\ API' = [API EXCEPT ![c] = v] /\ Cache' = Cache
      /\ Window \subseteq Nat /\ 1 \in Window /\ Len(stream) \in Window
      /\ \A i \in Window' : \/ i \in Window /\ stream'[i] = stream[i]
                            \/ i = Len(stream) + 1 /\ stream'[i] = API'
      /\ \A i \in Window : stream[i] \in [Overlays -> NetworkOverlay]
  BY WriteFacts
<1>2. API \in [Overlays -> NetworkOverlay] /\ API' \in [Overlays -> NetworkOverlay]
  BY <1>1, ViewTypes
<1>3. /\ \A i \in Window : WellFormed(stream[i][o])
      /\ WindowInOrder(o) /\ BoundIsHeld(o) /\ DeletionIsSeen(o)
  BY DEF FinalizerInv
<1>4. API = stream[Len(stream)]
  BY DEF API
<1>5. (API'[o] = v /\ o = c) \/ (API'[o] = API[o] /\ o # c)
  BY <1>1, <1>2
<1>6. WellFormed(API'[o])
  BY <1>1, <1>3, <1>4, <1>5
<1>7. rank(API[o]) <= rank(API'[o])
  BY <1>2, <1>5, RankFacts
<1>8. \A i \in Window' : WellFormed(stream'[i][o])
  BY <1>1, <1>3, <1>6, Zenon
<1>9. WindowInOrder(o)'
  <2>1. \A i \in Window : rank(stream[i][o]) <= rank(API[o])
    BY <1>1, <1>3, <1>4 DEF WindowInOrder, Window
  <2>2. \A i \in Window : rank(stream[i][o]) <= rank(API'[o])
    BY <1>1, <1>2, <1>7, <2>1, RankFacts
  <2>3. rank(API'[o]) <= rank(API'[o])
    BY <1>2, RankFacts
  <2>4. Len(stream) \in Nat /\ \A i \in Window : i < Len(stream) + 1
    BY <1>1 DEF Window
  <2>5. ASSUME NEW i \in Window', NEW j \in Window', i <= j
        PROVE  rank(stream'[i][o]) <= rank(stream'[j][o])
    <3>1. CASE i \in Window /\ stream'[i] = stream[i]
      <4>1. CASE j \in Window /\ stream'[j] = stream[j]
        BY <1>3, <2>5, <3>1, <4>1 DEF WindowInOrder
      <4>2. CASE stream'[j] = API'
        BY <2>2, <3>1, <4>2
      <4>. QED
        BY <1>1, <4>1, <4>2
    <3>2. CASE i = Len(stream) + 1 /\ stream'[i] = API'
      <4>1. j \notin Window
        BY <1>1, <2>4, <2>5, <3>2
      <4>. QED
        BY <1>1, <2>3, <3>2, <4>1, Zenon
    <3>. QED
      BY <1>1, <3>1, <3>2
  <2>. QED
    BY <2>5 DEF WindowInOrder
<1>10. BoundIsHeld(o)'
  <2>1. \A i \in Window : isBound(stream[i][o]) => API'[o].finalizer
    BY <1>3, <1>5 DEF BoundIsHeld
  <2>2. isBound(API'[o]) => API'[o].finalizer
    BY DEF isBound
  <2>. QED
    BY <1>1, <2>1, <2>2, Zenon DEF BoundIsHeld
<1>11. DeletionIsSeen(o)'
  <2>1. \A i \in Window : stream[i][o].deleting =>
            /\ (API'[o].deleting /\ API'[o].uid = stream[i][o].uid) \/ ~API'[o].finalizer
            /\ \/ API'[o].deleting /\ API'[o].uid = stream[i][o].uid
               \/ rank(Cache'[o]) >= 4 * stream[i][o].uid + 3
    BY <1>1, <1>3, <1>5 DEF DeletionIsSeen, stillDeleting
  <2>. QED
    BY <1>1, <2>1, Zenon DEF DeletionIsSeen, stillDeleting
<1>. QED
  BY <1>8, <1>9, <1>10, <1>11 DEF ObjectInv

\* The API server's object satisfies what holds of the whole window.
LEMMA APIFacts ==
    ASSUME TypeOK, FinalizerInv, NEW c \in Overlays
    PROVE  /\ API[c] \in NetworkOverlay /\ Cache[c] \in NetworkOverlay
           /\ WellFormed(API[c]) /\ WellFormed(Cache[c])
           /\ 1 \in Window /\ Len(stream) \in Window
           /\ API = stream[Len(stream)] /\ Cache = stream[1]
           /\ \A i \in Window : /\ stream[i][c] \in NetworkOverlay
                                /\ rank(Cache[c]) <= rank(stream[i][c])
                                /\ rank(stream[i][c]) <= rank(API[c])
<1>1. stream \in Seq([Overlays -> NetworkOverlay]) /\ stream # <<>>
  BY DEF TypeOK
<1>2. /\ Len(stream) \in Nat /\ 1 \in Window /\ Len(stream) \in Window
      /\ \A i \in Window : /\ 1 <= i /\ i <= Len(stream)
                           /\ stream[i] \in [Overlays -> NetworkOverlay]
  BY <1>1 DEF Window
<1>3. \A i, j \in Window : i <= j => rank(stream[i][c]) <= rank(stream[j][c])
  BY DEF FinalizerInv, WindowInOrder
<1>4. API = stream[Len(stream)] /\ Cache = stream[1]
  BY DEF API, Cache
<1>5. \A i \in Window : /\ stream[i][c] \in NetworkOverlay /\ WellFormed(stream[i][c])
                        /\ rank(Cache[c]) <= rank(stream[i][c])
                        /\ rank(stream[i][c]) <= rank(API[c])
  BY <1>2, <1>3, <1>4 DEF FinalizerInv
<1>. QED
  BY <1>2, <1>4, <1>5

\* A patch of spec or status fields.
LEMMA SameLifeWrite ==
    ASSUME TypeOK, FinalizerInv,
           NEW c \in Overlays, NEW v \in NetworkOverlay, stream' = streamWith(c, v),
           WellFormed(v), v.uid = API[c].uid, v.exists = API[c].exists,
           v.deleting = API[c].deleting, v.finalizer = API[c].finalizer,
           NEW o \in Overlays
    PROVE  ObjectInv(o)'
<1>1. rank(API[c]) <= rank(v)
  <2>1. rank(API[c]) = rank(v)
    BY DEF rank
  <2>. QED
    BY <2>1, RankFacts
<1>2. BoundIsHeld(c) /\ DeletionIsSeen(c)
  BY DEF FinalizerInv
<1>3. \A i \in Window : isBound(stream[i][c]) => v.finalizer
  BY <1>2 DEF BoundIsHeld
<1>4. \A i \in Window : stream[i][c].deleting =>
          /\ (v.deleting /\ v.uid = stream[i][c].uid) \/ ~v.finalizer
          /\ \/ v.deleting /\ v.uid = stream[i][c].uid
             \/ rank(Cache[c]) >= 4 * stream[i][c].uid + 3
  BY <1>2 DEF DeletionIsSeen, stillDeleting
<1>. QED
  BY <1>1, <1>3, <1>4, WriteKeepsObjectInv

\* A user's write does not invalidate what a running Reconcile relies on.
LEMMA UserWriteKeepsWorkerKnows ==
    ASSUME TypeOK, FinalizerInv,
           NEW c \in Overlays, NEW v \in NetworkOverlay, stream' = streamWith(c, v),
           UNCHANGED <<pc, cur, mem>>,
           WellFormed(v),
           API[c].finalizer => /\ v.finalizer /\ v.uid = API[c].uid
                               /\ API[c].deleting => v.deleting,
           v.finalizer => API[c].finalizer
    PROVE  WorkerKnows'
<1>1. /\ API' = [API EXCEPT ![c] = v] /\ Cache' = Cache
      /\ \A i \in Window' : \/ i \in Window /\ stream'[i] = stream[i]
                            \/ i = Len(stream) + 1 /\ stream'[i] = API'
  BY WriteFacts
<1>2. WorkerKnows
  BY DEF FinalizerInv
<1>3. CASE pc = "idle"
  BY <1>3 DEF WorkerKnows
<1>4. CASE pc # "idle"
  <2>1. cur \in Overlays /\ API \in [Overlays -> NetworkOverlay]
    BY <1>4, CurType, ViewTypes
  <2>2. API[cur] \in NetworkOverlay /\ WellFormed(API[cur])
    BY <2>1, APIFacts
  <2>3. (cur = c /\ API'[cur] = v) \/ (cur # c /\ API'[cur] = API[cur])
    BY <1>1, <2>1
  <2>4. /\ API'[cur].finalizer = API[cur].finalizer
        /\ API[cur].finalizer => API'[cur].uid = API[cur].uid
        /\ API[cur].finalizer /\ API[cur].deleting => API'[cur].deleting
        /\ API'[cur].deleting => API'[cur].finalizer
    BY <2>2, <2>3 DEF WellFormed, NetworkOverlay
  <2>5. CASE pc = "finalizer"
    <3>. SUFFICES ASSUME ~API'[cur].finalizer, NEW i \in Window' PROVE ~stream'[i][cur].deleting
      BY <2>5 DEF WorkerKnows
    <3>1. \A k \in Window : ~stream[k][cur].deleting
      BY <1>2, <2>4, <2>5, Zenon DEF WorkerKnows
    <3>. QED
      BY <1>1, <2>4, <3>1, Zenon
  <2>6. CASE pc \in {"gateways", "community", "keys", "gwDepls", "internal", "edges"}
    BY <1>2, <2>4, <2>6 DEF WorkerKnows
  <2>7. CASE pc \in {"delInternal", "delFinalizer"}
    BY <1>1, <1>2, <2>4, <2>7 DEF WorkerKnows, stillDeleting
  <2>. QED
    BY <1>4, <2>5, <2>6, <2>7 DEF TypeOK, Steps
<1>. QED
  BY <1>3, <1>4

\* FinalizerInv from its conjuncts for each overlay name.
LEMMA FinalizerInvIntro ==
    ASSUME \A o \in Overlays : ObjectInv(o)', WorkerKnows'
    PROVE  FinalizerInv'
  BY DEF FinalizerInv, ObjectInv

\* kubectl create and edit preserve FinalizerInv.
LEMMA ApplyFinalizerInv ==
    ASSUME TypeOK, FinalizerInv, NEW c \in Overlays, NEW spec \in SUBSET Edges, Apply(c, spec)
    PROVE  FinalizerInv'
<1>. DEFINE v == IF API[c].exists THEN [API[c] EXCEPT !.spec = spec]
                 ELSE [Absent(API[c].uid + 1) EXCEPT !.exists = TRUE, !.spec = spec]
<1>1. stream' = streamWith(c, v) /\ UNCHANGED <<pc, cur, mem>>
  BY DEF Apply, Happens, workerVars
<1>2. API[c] \in NetworkOverlay /\ WellFormed(API[c])
  BY APIFacts
<1>3. CASE API[c].exists
  <2>1. v \in NetworkOverlay /\ WellFormed(v)
    BY <1>2, <1>3 DEF NetworkOverlay, WellFormed
  <2>2. /\ v.uid = API[c].uid /\ v.exists = API[c].exists
        /\ v.deleting = API[c].deleting /\ v.finalizer = API[c].finalizer
    BY <1>2, <1>3, Zenon DEF NetworkOverlay
  <2>. HIDE DEF v
  <2>. QED
    BY <1>1, <2>1, <2>2, SameLifeWrite, UserWriteKeepsWorkerKnows, FinalizerInvIntro
<1>4. CASE ~API[c].exists
  <2>1. /\ v \in NetworkOverlay /\ WellFormed(v) /\ v.uid = API[c].uid + 1
        /\ v.exists /\ ~v.deleting /\ ~v.finalizer
    <3>1. API[c].uid + 1 \in Nat
      BY <1>2 DEF NetworkOverlay
    <3>2. v = [uid |-> API[c].uid + 1, exists |-> TRUE, deleting |-> FALSE,
               finalizer |-> FALSE, spec |-> spec, community |-> 0, key |-> FALSE,
               gateways |-> {}, edges |-> {}]
      BY <1>4, Zenon DEF Absent
    <3>. HIDE DEF v
    <3>3. v \in NetworkOverlay
      BY <3>1, <3>2, BoundsAssumption DEF NetworkOverlay
    <3>. QED
      BY <3>2, <3>3 DEF WellFormed
  <2>2. ~API[c].finalizer /\ API[c].uid \in Nat
    BY <1>2, <1>4 DEF WellFormed, NetworkOverlay
  <2>. HIDE DEF v
  <2>3. rank(API[c]) <= rank(v)
    BY <1>2, <1>4, <2>1, <2>2, RankFacts
  <2>4. BoundIsHeld(c) /\ DeletionIsSeen(c)
    BY DEF FinalizerInv
  <2>5. \A i \in Window : isBound(stream[i][c]) => v.finalizer
    BY <2>2, <2>4 DEF BoundIsHeld
  <2>6. ~API[c].deleting
    BY <1>2, <2>2 DEF WellFormed
  <2>7. \A i \in Window : stream[i][c].deleting =>
            /\ (v.deleting /\ v.uid = stream[i][c].uid) \/ ~v.finalizer
            /\ \/ v.deleting /\ v.uid = stream[i][c].uid
               \/ rank(Cache[c]) >= 4 * stream[i][c].uid + 3
    BY <2>1, <2>4, <2>6 DEF DeletionIsSeen, stillDeleting
  <2>8. \A o \in Overlays : ObjectInv(o)'
    BY <1>1, <2>1, <2>3, <2>5, <2>7, WriteKeepsObjectInv, Zenon
  <2>9. WorkerKnows'
    BY <1>1, <2>1, <2>2, UserWriteKeepsWorkerKnows
  <2>. QED
    BY <2>8, <2>9, FinalizerInvIntro
<1>. QED
  BY <1>3, <1>4

\* kubectl delete preserves FinalizerInv.
LEMMA DeleteFinalizerInv ==
    ASSUME TypeOK, FinalizerInv, NEW c \in Overlays, Delete(c)
    PROVE  FinalizerInv'
<1>. DEFINE v == IF API[c].finalizer THEN [API[c] EXCEPT !.deleting = TRUE]
                 ELSE Absent(API[c].uid)
<1>1. /\ stream' = streamWith(c, v) /\ UNCHANGED <<pc, cur, mem>>
      /\ API[c].exists /\ ~API[c].deleting
  BY DEF Delete, Happens, workerVars
<1>2. API[c] \in NetworkOverlay /\ WellFormed(API[c]) /\ API[c].uid \in Nat
  BY APIFacts DEF NetworkOverlay
<1>3. BoundIsHeld(c) /\ DeletionIsSeen(c)
  BY DEF FinalizerInv
<1>4. CASE API[c].finalizer
  <2>1. /\ v \in NetworkOverlay /\ v.uid = API[c].uid
        /\ v.exists /\ v.deleting /\ v.finalizer
    BY <1>1, <1>2, <1>4, Zenon DEF NetworkOverlay
  <2>2. WellFormed(v)
    BY <2>1 DEF WellFormed
  <2>. HIDE DEF v
  <2>3. rank(API[c]) <= rank(v)
    BY <1>1, <1>2, <1>4, <2>1, RankFacts DEF isBound
  <2>4. \A i \in Window : ~stream[i][c].deleting
    BY <1>1, <1>3, <1>4 DEF DeletionIsSeen, stillDeleting
  <2>5. \A o \in Overlays : ObjectInv(o)'
    BY <1>1, <2>1, <2>2, <2>3, <2>4, WriteKeepsObjectInv
  <2>6. WorkerKnows'
    BY <1>1, <1>4, <2>1, <2>2, UserWriteKeepsWorkerKnows
  <2>. QED
    BY <2>5, <2>6, FinalizerInvIntro
<1>5. CASE ~API[c].finalizer
  <2>1. /\ v \in NetworkOverlay /\ v.uid = API[c].uid
        /\ ~v.exists /\ ~v.deleting /\ ~v.finalizer
    BY <1>2, <1>5, AbsentType DEF Absent
  <2>2. WellFormed(v)
    BY <1>5 DEF WellFormed, Absent
  <2>. HIDE DEF v
  <2>3. rank(API[c]) <= rank(v)
    BY <1>1, <1>2, <1>5, <2>1, RankFacts
  <2>4. \A i \in Window : ~isBound(stream[i][c])
    BY <1>3, <1>5 DEF BoundIsHeld
  <2>5. \A i \in Window : stream[i][c].deleting =>
            /\ (v.deleting /\ v.uid = stream[i][c].uid) \/ ~v.finalizer
            /\ \/ v.deleting /\ v.uid = stream[i][c].uid
               \/ rank(Cache[c]) >= 4 * stream[i][c].uid + 3
    BY <1>1, <1>3, <2>1 DEF DeletionIsSeen, stillDeleting
  <2>6. \A o \in Overlays : ObjectInv(o)'
    BY <1>1, <2>1, <2>2, <2>3, <2>4, <2>5, WriteKeepsObjectInv, Zenon
  <2>7. WorkerKnows'
    BY <1>1, <1>5, <2>1, <2>2, UserWriteKeepsWorkerKnows, Zenon
  <2>. QED
    BY <2>6, <2>7, FinalizerInvIntro
<1>. QED
  BY <1>4, <1>5

\* Steps that leave the overlays alone and either leave the worker's progress
\* alone or end its Reconcile.
LEMMA NoWriteFinalizerInv ==
    ASSUME FinalizerInv, UNCHANGED stream, pc' = "idle" \/ UNCHANGED <<pc, cur, mem>>
    PROVE  FinalizerInv'
<1>1. \A o \in Overlays : ObjectInv(o)'
  BY Zenon DEF FinalizerInv, ObjectInv, Window, WindowInOrder, BoundIsHeld, DeletionIsSeen,
         stillDeleting, API, Cache
<1>2. WorkerKnows'
  <2>1. WorkerKnows
    BY DEF FinalizerInv
  <2>2. CASE pc' = "idle"
    BY <2>2 DEF WorkerKnows
  <2>3. CASE UNCHANGED <<pc, cur, mem>>
    BY <2>1, <2>3 DEF WorkerKnows, Window, stillDeleting, API, Cache
  <2>. QED
    BY <2>2, <2>3
<1>. QED
  BY <1>1, <1>2, FinalizerInvIntro

\* The informer's progress by one event preserves FinalizerInv.
LEMMA DeliverFinalizerInv == ASSUME TypeOK, FinalizerInv, Deliver PROVE FinalizerInv'
<1>1. stream' = Tail(stream) /\ Len(stream) > 1 /\ UNCHANGED <<pc, cur, mem>>
  BY DEF Deliver, workerVars
<1>2. stream \in Seq([Overlays -> NetworkOverlay])
  BY DEF TypeOK
<1>3. /\ Len(stream) \in Nat /\ Len(stream') = Len(stream) - 1
      /\ \A i \in Window' : i \in Nat /\ i + 1 \in Window /\ stream'[i] = stream[i + 1]
      /\ API' = API /\ 2 \in Window /\ Cache' = stream[2]
  BY <1>1, <1>2, TailFacts DEF Window, API, Cache
<1>4. ASSUME NEW o \in Overlays PROVE rank(Cache'[o]) >= rank(Cache[o])
  BY <1>3, APIFacts, RankFacts, Zenon
<1>5. ASSUME NEW o \in Overlays PROVE ObjectInv(o)'
  <2>1. /\ \A i \in Window : WellFormed(stream[i][o])
        /\ WindowInOrder(o) /\ BoundIsHeld(o) /\ DeletionIsSeen(o)
    BY DEF FinalizerInv
  <2>2. \A i \in Window : stream[i][o] \in NetworkOverlay
    BY APIFacts
  <2>3. \A i \in Window' : WellFormed(stream'[i][o])
    BY <1>3, <2>1
  <2>4. WindowInOrder(o)'
    <3>. SUFFICES ASSUME NEW i \in Window', NEW j \in Window', i <= j
                  PROVE  rank(stream'[i][o]) <= rank(stream'[j][o])
      BY DEF WindowInOrder
    <3>1. i + 1 \in Window /\ j + 1 \in Window /\ i + 1 <= j + 1
      BY <1>3
    <3>. QED
      BY <1>3, <2>1, <3>1 DEF WindowInOrder
  <2>5. BoundIsHeld(o)'
    BY <1>3, <2>1 DEF BoundIsHeld
  <2>6. DeletionIsSeen(o)'
    <3>. SUFFICES ASSUME NEW i \in Window', stream'[i][o].deleting
                  PROVE  /\ (API[o].deleting /\ API[o].uid = stream'[i][o].uid) \/ ~API[o].finalizer
                         /\ \/ API[o].deleting /\ API[o].uid = stream'[i][o].uid
                            \/ rank(Cache'[o]) >= 4 * stream'[i][o].uid + 3
      BY <1>3 DEF DeletionIsSeen, stillDeleting
    <3>1. i + 1 \in Window /\ stream'[i][o] = stream[i + 1][o]
      BY <1>3
    <3>2. /\ (API[o].deleting /\ API[o].uid = stream'[i][o].uid) \/ ~API[o].finalizer
          /\ \/ API[o].deleting /\ API[o].uid = stream'[i][o].uid
             \/ rank(Cache[o]) >= 4 * stream'[i][o].uid + 3
      BY <2>1, <3>1 DEF DeletionIsSeen, stillDeleting
    <3>3. rank(Cache[o]) \in Nat /\ rank(Cache'[o]) \in Nat /\ stream'[i][o].uid \in Nat
      BY <1>3, <2>2, <3>1, APIFacts, RankFacts, Zenon
    <3>. QED
      BY <1>4, <3>2, <3>3
  <2>. QED
    BY <2>3, <2>4, <2>5, <2>6 DEF ObjectInv
<1>6. WorkerKnows'
  <2>1. WorkerKnows
    BY DEF FinalizerInv
  <2>2. CASE pc = "idle"
    BY <1>1, <2>2, Zenon DEF WorkerKnows
  <2>3. CASE pc # "idle"
    <3>1. cur \in Overlays /\ mem.uid \in Nat
      BY <2>3 DEF TypeOK, NetworkOverlay
    <3>2. rank(Cache'[cur]) >= rank(Cache[cur]) /\ rank(Cache[cur]) \in Nat /\ rank(Cache'[cur]) \in Nat
      BY <1>3, <1>4, <3>1, APIFacts, RankFacts
    <3>3. rank(Cache[cur]) >= 4 * mem.uid + 3 => rank(Cache'[cur]) >= 4 * mem.uid + 3
      BY <3>1, <3>2
    <3>. QED
      BY <1>1, <1>3, <2>1, <3>3, Zenon DEF WorkerKnows, stillDeleting
  <2>. QED
    BY <2>2, <2>3
<1>. QED
  BY <1>5, <1>6, FinalizerInvIntro

Working == {"gateways", "community", "keys", "gwDepls", "internal", "edges"}

\* A Reconcile past AddFinalizer patches the status and goes on, or returns.
LEMMA StatusWriteFinalizerInv ==
    ASSUME TypeOK, FinalizerInv, pc \in Working,
           NEW v \in NetworkOverlay, stream' = streamWith(cur, v),
           v.uid = API[cur].uid, v.exists = API[cur].exists,
           v.deleting = API[cur].deleting, v.finalizer = API[cur].finalizer,
           pc' = "idle" \/ (pc' \in Working /\ cur' = cur)
    PROVE  FinalizerInv'
<1>1. cur \in Overlays /\ API \in [Overlays -> NetworkOverlay]
  BY CurType, ViewTypes DEF Working
<1>2. API[cur].finalizer /\ WellFormed(API[cur])
  BY <1>1, APIFacts DEF FinalizerInv, WorkerKnows, Working
<1>3. WellFormed(v)
  BY <1>2 DEF WellFormed
<1>4. \A o \in Overlays : ObjectInv(o)'
  BY <1>1, <1>3, SameLifeWrite
<1>5. API'[cur] = v
  BY <1>1, WriteFacts
<1>6. WorkerKnows'
  BY <1>2, <1>5, Zenon DEF WorkerKnows, Working
<1>. QED
  BY <1>4, <1>6, FinalizerInvIntro

\* A Reconcile past AddFinalizer goes on without a write.
LEMMA WorkingFinalizerInv ==
    ASSUME TypeOK, FinalizerInv, pc \in Working, UNCHANGED stream,
           pc' = "idle" \/ (pc' \in Working /\ cur' = cur)
    PROVE  FinalizerInv'
<1>1. \A o \in Overlays : ObjectInv(o)'
  BY DEF FinalizerInv, ObjectInv, Window, WindowInOrder, BoundIsHeld, DeletionIsSeen,
         stillDeleting, API, Cache
<1>2. API' = API
  BY DEF API
<1>3. WorkerKnows'
  BY <1>2 DEF FinalizerInv, WorkerKnows, Working
<1>. QED
  BY <1>1, <1>3, FinalizerInvIntro

\* A status patch after AddFinalizer preserves FinalizerInv.
LEMMA PatchFinalizerInv ==
    ASSUME TypeOK, FinalizerInv, pc \in Working, NEW next \in Working,
           NEW v \in NetworkOverlay, Patch(v, next),
           v.uid = API[cur].uid, v.exists = API[cur].exists,
           v.deleting = API[cur].deleting, v.finalizer = API[cur].finalizer
    PROVE  FinalizerInv'
<1>1. CASE stream' = streamWith(cur, v) /\ pc' = next /\ cur' = cur
  BY <1>1, StatusWriteFinalizerInv
<1>2. CASE pc' = "idle" /\ UNCHANGED stream
  BY <1>2, WorkingFinalizerInv
<1>. QED
  BY <1>1, <1>2 DEF Patch, Requeue, Stop

\* PatchGateways, AllocateCommunity and EnsureKeys.
LEMMA StatusStepsFinalizerInv ==
    ASSUME TypeOK, FinalizerInv, PatchGateways \/ AllocateCommunity \/ EnsureKeys
    PROVE  FinalizerInv'
<1>1. CASE PatchGateways
  <2>. DEFINE v == IF mem.gateways = buildGateways THEN API[cur]
                   ELSE [API[cur] EXCEPT !.gateways = buildGateways]
  <2>1. pc \in Working /\ "community" \in Working
    BY <1>1 DEF PatchGateways, Working
  <2>2. API[cur] \in NetworkOverlay
    BY <2>1, CurType DEF Working
  <2>3. /\ v \in NetworkOverlay /\ v.uid = API[cur].uid /\ v.exists = API[cur].exists
        /\ v.deleting = API[cur].deleting /\ v.finalizer = API[cur].finalizer
    BY <2>2, BuildGatewaysType DEF NetworkOverlay
  <2>4. Patch(v, "community") \/ SkipTo("community")
    BY <1>1 DEF PatchGateways
  <2>. HIDE DEF v
  <2>5. CASE Patch(v, "community")
    BY <2>1, <2>3, <2>5, PatchFinalizerInv
  <2>6. CASE SkipTo("community")
    BY <2>1, <2>6, WorkingFinalizerInv DEF SkipTo
  <2>. QED
    BY <2>4, <2>5, <2>6
<1>2. CASE AllocateCommunity
  <2>1. pc \in Working /\ "keys" \in Working
    BY <1>2 DEF AllocateCommunity, Working
  <2>2. API[cur] \in NetworkOverlay /\ cur \in Overlays
    BY <2>1, CurType DEF Working
  <2>3. CASE freeCommunities(cur) # {}
            /\ Patch([API[cur] EXCEPT !.community = smallest(freeCommunities(cur))], "keys")
    <3>. DEFINE v == [API[cur] EXCEPT !.community = smallest(freeCommunities(cur))]
    <3>1. smallest(freeCommunities(cur)) \in 0..MaxCommunity
      BY <2>2, <2>3, FreeCommunityType
    <3>2. /\ v \in NetworkOverlay /\ v.uid = API[cur].uid /\ v.exists = API[cur].exists
          /\ v.deleting = API[cur].deleting /\ v.finalizer = API[cur].finalizer
      BY <2>2, <3>1 DEF NetworkOverlay
    <3>3. Patch(v, "keys")
      BY <2>3
    <3>. HIDE DEF v
    <3>. QED
      BY <2>1, <3>2, <3>3, PatchFinalizerInv
  <2>4. CASE SkipTo("keys")
    BY <2>1, <2>4, WorkingFinalizerInv DEF SkipTo
  <2>5. CASE Requeue /\ UNCHANGED stream
    BY <2>1, <2>5, WorkingFinalizerInv DEF Requeue, Stop
  <2>. QED
    BY <1>2, <2>3, <2>4, <2>5 DEF AllocateCommunity
<1>3. CASE EnsureKeys
  <2>. DEFINE v == [API[cur] EXCEPT !.key = TRUE]
  <2>1. pc \in Working /\ "gwDepls" \in Working
    BY <1>3 DEF EnsureKeys, Working
  <2>2. API[cur] \in NetworkOverlay
    BY <2>1, CurType DEF Working
  <2>3. /\ v \in NetworkOverlay /\ v.uid = API[cur].uid /\ v.exists = API[cur].exists
        /\ v.deleting = API[cur].deleting /\ v.finalizer = API[cur].finalizer
    BY <2>2, Zenon DEF NetworkOverlay
  <2>4. Patch(v, "gwDepls") \/ SkipTo("gwDepls")
    BY <1>3 DEF EnsureKeys
  <2>. HIDE DEF v
  <2>5. CASE Patch(v, "gwDepls")
    BY <2>1, <2>3, <2>5, PatchFinalizerInv
  <2>6. CASE SkipTo("gwDepls")
    BY <2>1, <2>6, WorkingFinalizerInv DEF SkipTo
  <2>. QED
    BY <2>4, <2>5, <2>6
<1>. QED
  BY <1>1, <1>2, <1>3

\* The two gateway Deployments, the internal ones, and the resolved edges.
LEMMA DeploymentStepsFinalizerInv ==
    ASSUME TypeOK, FinalizerInv,
           EnsureGatewayDeployments \/ EnsureInternalDeployments
    PROVE  FinalizerInv'
<1>1. CASE EnsureGatewayDeployments
  BY <1>1, WorkingFinalizerInv DEF EnsureGatewayDeployments, Working
<1>2. CASE EnsureInternalDeployments
  <2>1. pc = "internal" /\ UNCHANGED stream /\ (pc' = "idle" \/ (pc' = "edges" /\ cur' = cur))
    BY <1>2 DEF EnsureInternalDeployments, EnsureInternal, Requeue, Stop
  <2>. QED
    BY <2>1, WorkingFinalizerInv DEF Working
<1>. QED
  BY <1>1, <1>2

\* The status.edges patch preserves FinalizerInv.
LEMMA ResolveEdgesFinalizerInv ==
    ASSUME TypeOK, FinalizerInv, ResolveEdges PROVE FinalizerInv'
<1>. DEFINE v == [API[cur] EXCEPT !.edges = resolveEdges(mem.spec)]
<1>1. pc \in Working /\ pc' = "idle"
  BY DEF ResolveEdges, Working, Requeue, Stop
<1>2. API[cur] \in NetworkOverlay /\ mem.spec \subseteq Edges
  BY <1>1, CurType DEF Working, TypeOK, NetworkOverlay
<1>3. resolveEdges(mem.spec) \subseteq EdgeStatus
  BY <1>2, ResolveEdgesType
<1>4. /\ v \in NetworkOverlay /\ v.uid = API[cur].uid /\ v.exists = API[cur].exists
      /\ v.deleting = API[cur].deleting /\ v.finalizer = API[cur].finalizer
  BY <1>2, <1>3 DEF NetworkOverlay
<1>5. stream' = streamWith(cur, v) \/ UNCHANGED stream
  BY DEF ResolveEdges
<1>. HIDE DEF v
<1>6. CASE stream' = streamWith(cur, v)
  BY <1>1, <1>4, <1>6, StatusWriteFinalizerInv
<1>7. CASE UNCHANGED stream
  BY <1>1, <1>7, WorkingFinalizerInv
<1>. QED
  BY <1>5, <1>6, <1>7

\* The finalizer patch preserves FinalizerInv.
LEMMA AddFinalizerFinalizerInv ==
    ASSUME TypeOK, FinalizerInv, AddFinalizer PROVE FinalizerInv'
<1>. DEFINE v == [API[cur] EXCEPT !.finalizer = TRUE]
<1>1. pc = "finalizer" /\ Patch(v, "gateways")
  BY DEF AddFinalizer
<1>2. cur \in Overlays /\ API[cur] \in NetworkOverlay /\ WellFormed(API[cur])
  BY <1>1, CurType, APIFacts
<1>3. BoundIsHeld(cur) /\ DeletionIsSeen(cur) /\ WorkerKnows
  BY <1>2 DEF FinalizerInv
<1>4. CASE pc' = "idle" /\ UNCHANGED stream
  BY <1>4, NoWriteFinalizerInv
<1>5. CASE API[cur].exists /\ stream' = streamWith(cur, v) /\ pc' = "gateways" /\ cur' = cur
  <2>1. /\ v \in NetworkOverlay /\ v.uid = API[cur].uid /\ v.exists /\ v.finalizer
        /\ v.deleting = API[cur].deleting
    BY <1>2, <1>5, Zenon DEF NetworkOverlay
  <2>. HIDE DEF v
  <2>2. WellFormed(v)
    BY <2>1 DEF WellFormed
  <2>3. ASSUME NEW o \in Overlays PROVE ObjectInv(o)'
    <3>1. CASE API[cur].finalizer
      BY <1>2, <1>5, <2>1, <2>2, <3>1, SameLifeWrite DEF NetworkOverlay
    <3>2. CASE ~API[cur].finalizer
      <4>1. \A i \in Window : ~stream[i][cur].deleting
        BY <1>1, <1>3, <3>2 DEF WorkerKnows
      <4>2. ~API[cur].deleting /\ ~v.deleting
        BY <1>2, <2>1, <3>2 DEF WellFormed
      <4>3. rank(API[cur]) <= rank(v)
        BY <1>2, <1>5, <2>1, <3>2, <4>2, RankFacts DEF isBound
      <4>. QED
        BY <1>2, <1>5, <2>1, <2>2, <4>1, <4>3, WriteKeepsObjectInv
    <3>. QED
      BY <3>1, <3>2
  <2>4. API'[cur] = v
    BY <1>2, <1>5, <2>1, WriteFacts, ViewTypes
  <2>5. WorkerKnows'
    BY <1>5, <2>1, <2>4 DEF WorkerKnows
  <2>. QED
    BY <2>3, <2>5, FinalizerInvIntro
<1>. QED
  BY <1>1, <1>4, <1>5 DEF Patch, Requeue, Stop

\* handleDeletion's first half.
LEMMA TeardownFinalizerInv ==
    ASSUME TypeOK, FinalizerInv, TeardownInternal PROVE FinalizerInv'
<1>1. /\ pc = "delInternal" /\ UNCHANGED stream
      /\ pc' = "idle" \/ (pc' = "delFinalizer" /\ UNCHANGED <<cur, mem>>)
  BY DEF TeardownInternal, EnsureInternal, Requeue, Stop
<1>2. CASE pc' = "idle"
  BY <1>1, <1>2, NoWriteFinalizerInv
<1>3. CASE pc' = "delFinalizer" /\ UNCHANGED <<cur, mem>>
  <2>1. \A o \in Overlays : ObjectInv(o)'
    BY <1>1 DEF FinalizerInv, ObjectInv, Window, WindowInOrder, BoundIsHeld, DeletionIsSeen,
                stillDeleting, API, Cache
  <2>2. API' = API /\ Cache' = Cache
    BY <1>1 DEF API, Cache
  <2>3. WorkerKnows'
    BY <1>1, <1>3, <2>2 DEF FinalizerInv, WorkerKnows, stillDeleting
  <2>. QED
    BY <2>1, <2>3, FinalizerInvIntro
<1>. QED
  BY <1>1, <1>2, <1>3

\* The removal of the finalizer preserves FinalizerInv.
LEMMA RemoveFinalizerFinalizerInv ==
    ASSUME TypeOK, FinalizerInv, RemoveFinalizer PROVE FinalizerInv'
<1>. DEFINE v == IF API[cur].deleting THEN Absent(API[cur].uid)
                 ELSE [API[cur] EXCEPT !.finalizer = FALSE]
<1>1. pc = "delFinalizer" /\ pc' = "idle"
  BY DEF RemoveFinalizer, Requeue, Stop
<1>2. /\ cur \in Overlays /\ API[cur] \in NetworkOverlay /\ WellFormed(API[cur])
      /\ API[cur].uid \in Nat
  BY <1>1, CurType, APIFacts DEF NetworkOverlay
<1>3. DeletionIsSeen(cur) /\ WorkerKnows
  BY <1>2 DEF FinalizerInv
<1>4. CASE UNCHANGED stream
  BY <1>1, <1>4, NoWriteFinalizerInv
<1>5. CASE stream' = streamWith(cur, v)
  <2>1. CASE ~API[cur].finalizer
    <3>1. v = API[cur]
      BY <1>2, <2>1, Zenon DEF NetworkOverlay, WellFormed
    <3>. QED
      BY <1>4, <1>5, <3>1 DEF streamWith
  <2>2. CASE API[cur].finalizer
    <3>1. /\ API[cur].deleting /\ API[cur].exists /\ API[cur].uid = mem.uid
          /\ rank(Cache[cur]) >= 4 * mem.uid + 3
      BY <1>1, <1>2, <1>3, <2>2 DEF WorkerKnows, stillDeleting, WellFormed
    <3>2. /\ v \in NetworkOverlay /\ v.uid = API[cur].uid
          /\ ~v.exists /\ ~v.deleting /\ ~v.finalizer /\ WellFormed(v)
      BY <1>2, <3>1, AbsentType DEF Absent, WellFormed
    <3>. HIDE DEF v
    <3>3. rank(API[cur]) = 4 * mem.uid + 3 /\ rank(v) = 4 * mem.uid + 4 /\ mem.uid \in Nat
      BY <1>2, <3>1, <3>2, RankFacts
    <3>4. ASSUME NEW i \in Window
          PROVE  ~isBound(stream[i][cur]) /\ stream[i][cur].uid = mem.uid
      <4>1. /\ stream[i][cur] \in NetworkOverlay
            /\ rank(Cache[cur]) <= rank(stream[i][cur])
            /\ rank(stream[i][cur]) <= 4 * mem.uid + 3
            /\ Cache[cur] \in NetworkOverlay
        BY <1>2, <3>3, APIFacts
      <4>2. rank(stream[i][cur]) = 4 * mem.uid + 3 /\ stream[i][cur].uid \in Nat
        <5>1. /\ rank(stream[i][cur]) \in Nat /\ stream[i][cur].uid \in Nat
              /\ rank(Cache[cur]) \in Nat
          BY <4>1, RankFacts
        <5>2. rank(Cache[cur]) >= 4 * mem.uid + 3
          BY <3>1
        <5>3. mem.uid \in Nat
          BY <3>3
        <5>. QED
          BY <4>1, <5>1, <5>2, <5>3
      <4>3. /\ 4 * stream[i][cur].uid + 1 <= 4 * mem.uid + 3
            /\ 4 * mem.uid + 3 <= 4 * stream[i][cur].uid + 4
        BY <4>1, <4>2, RankFacts
      <4>4. stream[i][cur].uid = mem.uid
        BY <3>3, <4>2, <4>3
      <4>5. ~isBound(stream[i][cur])
        BY <3>3, <4>1, <4>2, <4>4, RankFacts
      <4>. QED
        BY <4>4, <4>5
    <3>5. rank(API[cur]) <= rank(v)
      BY <3>3
    <3>6. \A o \in Overlays : ObjectInv(o)'
      BY <1>2, <1>5, <3>1, <3>2, <3>4, <3>5, WriteKeepsObjectInv
    <3>7. WorkerKnows'
      BY <1>1 DEF WorkerKnows
    <3>. QED
      BY <3>6, <3>7, FinalizerInvIntro
  <2>. QED
    BY <2>1, <2>2
<1>. QED
  BY <1>4, <1>5 DEF RemoveFinalizer

\* What Reconcile may conclude from the cached object it starts with.
LEMMA BeginFinalizerInv ==
    ASSUME TypeOK, FinalizerInv, NEW o \in Overlays, Begin(o) PROVE FinalizerInv'
<1>1. UNCHANGED stream
  BY DEF Begin, objVars
<1>2. CASE UNCHANGED <<pc, cur, mem>>
  BY <1>1, <1>2, NoWriteFinalizerInv
<1>3. CASE /\ Cache[o].exists /\ (Cache[o].deleting => Cache[o].finalizer)
           /\ pc' = IF Cache[o].deleting THEN "delInternal"
                    ELSE IF Cache[o].finalizer THEN "gateways" ELSE "finalizer"
           /\ cur' = o /\ mem' = Cache[o]
  <2>1. /\ API[o] \in NetworkOverlay /\ Cache[o] \in NetworkOverlay
        /\ WellFormed(API[o]) /\ 1 \in Window /\ Cache = stream[1]
    BY APIFacts
  <2>2. BoundIsHeld(o) /\ DeletionIsSeen(o)
    BY DEF FinalizerInv
  <2>3. API' = API /\ Cache' = Cache /\ Window' = Window
    BY <1>1 DEF API, Cache, Window
  <2>4. \A x \in Overlays : ObjectInv(x)'
    BY <1>1 DEF FinalizerInv, ObjectInv, Window, WindowInOrder, BoundIsHeld, DeletionIsSeen,
                stillDeleting, API, Cache
  <2>5. CASE Cache[o].deleting
    <3>1. stillDeleting(o, Cache[o].uid) \/ ~API[o].finalizer
      BY <2>1, <2>2, <2>5 DEF DeletionIsSeen
    <3>2. rank(Cache[o]) >= 4 * Cache[o].uid + 3
      BY <1>3, <2>1, <2>5, RankFacts
    <3>3. WorkerKnows'
      BY <1>3, <2>3, <2>5, <3>1, <3>2 DEF WorkerKnows, stillDeleting
    <3>. QED
      BY <2>4, <3>3, FinalizerInvIntro
  <2>6. CASE ~Cache[o].deleting /\ Cache[o].finalizer
    <3>1. API[o].finalizer
      BY <1>3, <2>1, <2>2, <2>6 DEF BoundIsHeld, isBound
    <3>2. WorkerKnows'
      BY <1>3, <2>3, <2>6, <3>1 DEF WorkerKnows
    <3>. QED
      BY <2>4, <3>2, FinalizerInvIntro
  <2>7. CASE ~Cache[o].deleting /\ ~Cache[o].finalizer
    <3>1. ASSUME ~API[o].finalizer, NEW i \in Window, stream[i][o].deleting PROVE FALSE
      <4>1. ~stillDeleting(o, stream[i][o].uid)
        BY <2>1, <3>1 DEF stillDeleting, WellFormed
      <4>2. rank(Cache[o]) >= 4 * stream[i][o].uid + 3
        BY <2>2, <3>1, <4>1 DEF DeletionIsSeen
      <4>3. /\ stream[i][o] \in NetworkOverlay /\ WellFormed(stream[i][o])
            /\ rank(Cache[o]) <= rank(stream[i][o])
        BY <3>1, APIFacts DEF FinalizerInv
      <4>4. stream[i][o].exists
        BY <3>1, <4>3 DEF WellFormed
      <4>5. rank(stream[i][o]) = 4 * stream[i][o].uid + 3 /\ stream[i][o].uid \in Nat
        BY <3>1, <4>3, <4>4, RankFacts
      <4>6. rank(Cache[o]) = 4 * Cache[o].uid + 1 /\ Cache[o].uid \in Nat
        BY <1>3, <2>1, <2>7, RankFacts
      <4>. QED
        BY <4>2, <4>3, <4>5, <4>6
    <3>2. WorkerKnows'
      BY <1>1, <1>3, <2>3, <2>7, <3>1 DEF WorkerKnows
    <3>. QED
      BY <2>4, <3>2, FinalizerInvIntro
  <2>. QED
    BY <2>5, <2>6, <2>7
<1>. QED
  BY <1>2, <1>3 DEF Begin, workerVars

\* A restart, which lists everything anew, preserves FinalizerInv.
LEMMA RestartFinalizerInv == ASSUME TypeOK, FinalizerInv, Restart PROVE FinalizerInv'
<1>1. stream' = <<API>> /\ pc' = "idle"
  BY DEF Restart, Stop
<1>2. API' = API /\ Cache' = API /\ Window' = {1} /\ stream'[1] = API
  BY <1>1 DEF API, Cache, Window
<1>3. ASSUME NEW o \in Overlays PROVE ObjectInv(o)'
  <2>1. API[o] \in NetworkOverlay /\ WellFormed(API[o])
    BY APIFacts
  <2>2. rank(API[o]) <= rank(API[o])
    BY <2>1, RankFacts
  <2>3. \A i \in Window' : stream'[i][o] = API[o]
    BY <1>2
  <2>4. \A i \in Window' : WellFormed(stream'[i][o])
    BY <2>1, <2>3
  <2>5. WindowInOrder(o)'
    BY <2>2, <2>3 DEF WindowInOrder
  <2>6. BoundIsHeld(o)'
    BY <1>2, <2>3 DEF BoundIsHeld, isBound
  <2>7. DeletionIsSeen(o)'
    BY <1>2, <2>3 DEF DeletionIsSeen, stillDeleting
  <2>. QED
    BY <2>4, <2>5, <2>6, <2>7 DEF ObjectInv
<1>4. WorkerKnows'
  BY <1>1 DEF WorkerKnows
<1>. QED
  BY <1>3, <1>4, FinalizerInvIntro

\* FinalizerInv holds before any overlay is created.
LEMMA InitFinalizerInv == Init => FinalizerInv
<1>. SUFFICES ASSUME Init PROVE FinalizerInv
  OBVIOUS
<1>1. stream = <<NothingListed>> /\ pc = "idle"
  BY DEF Init
<1>2. Window = {1} /\ stream[1] = NothingListed
  BY <1>1 DEF Window
<1>3. ASSUME NEW o \in Overlays
      PROVE  /\ \A i \in Window : WellFormed(stream[i][o])
             /\ WindowInOrder(o) /\ BoundIsHeld(o) /\ DeletionIsSeen(o)
  <2>1. \A i \in Window : stream[i][o] = Absent(0)
    BY <1>2 DEF NothingListed
  <2>2. /\ ~Absent(0).exists /\ ~Absent(0).deleting /\ ~Absent(0).finalizer
        /\ WellFormed(Absent(0))
    BY DEF Absent, WellFormed
  <2>3. rank(Absent(0)) <= rank(Absent(0))
    BY AbsentType, RankFacts
  <2>. QED
    BY <2>1, <2>2, <2>3 DEF WindowInOrder, BoundIsHeld, DeletionIsSeen, isBound
<1>4. WorkerKnows
  BY <1>1 DEF WorkerKnows
<1>. QED
  BY <1>3, <1>4 DEF FinalizerInv

\* Every step preserves FinalizerInv.
LEMMA NextFinalizerInv == TypeOK /\ FinalizerInv /\ [Next]_vars => FinalizerInv'
<1>. SUFFICES ASSUME TypeOK, FinalizerInv, [Next]_vars PROVE FinalizerInv'
  OBVIOUS
<1>1. CASE \E o \in Overlays : Begin(o)
  BY <1>1, BeginFinalizerInv
<1>2. CASE Worker
  BY <1>2, AddFinalizerFinalizerInv, StatusStepsFinalizerInv, DeploymentStepsFinalizerInv,
     ResolveEdgesFinalizerInv, TeardownFinalizerInv, RemoveFinalizerFinalizerInv DEF Worker
<1>3. CASE Deliver
  BY <1>3, DeliverFinalizerInv
<1>4. CASE Restart
  BY <1>4, RestartFinalizerInv
<1>5. CASE DeliverDepls \/ CallFails \/ GatewayFailsHalfway \/ InternalFailsHalfway
  <2>1. UNCHANGED stream /\ (pc' = "idle" \/ UNCHANGED <<pc, cur, mem>>)
    BY <1>5 DEF DeliverDepls, CallFails, GatewayFailsHalfway, InternalFailsHalfway, Requeue, Stop, objVars, workerVars
  <2>. QED
    BY <2>1, NoWriteFinalizerInv
<1>6. CASE Environment
  <2>1. CASE \E o \in Overlays : Delete(o) \/ \E spec \in SUBSET Edges : Apply(o, spec)
    BY <2>1, DeleteFinalizerInv, ApplyFinalizerInv
  <2>2. CASE \/ \E p \in Pods, w \in Pod : PodEvent(p, w)
             \/ \E n \in Nodes, w \in NodeStates : NodeEvent(n, w)
    <3>1. UNCHANGED <<stream, pc, cur, mem>>
      BY <2>2, Zenon DEF PodEvent, NodeEvent, Happens, objVars, workerVars
    <3>. QED
      BY <3>1, NoWriteFinalizerInv
  <2>. QED
    BY <1>6, <2>1, <2>2 DEF Environment
<1>7. CASE UNCHANGED vars
  BY <1>7, NoWriteFinalizerInv DEF vars
<1>. QED
  BY <1>1, <1>2, <1>3, <1>4, <1>5, <1>6, <1>7 DEF Next

\* For any number of overlays, nodes, pods and edges, and for any lag of the
\* caches: what Reconcile concludes from the cached object it starts with stays
\* true of the API server's object at each of its writes.
THEOREM FinalizerInvHolds == Spec => []FinalizerInv
<1>1. Init => FinalizerInv
  BY InitFinalizerInv
<1>2. TypeOK /\ FinalizerInv /\ [Next]_vars => FinalizerInv'
  BY NextFinalizerInv
<1>. QED
  BY <1>1, <1>2, TypeCorrect, PTL DEF Spec

\* An overlay with any status written by the operator carries its finalizer, so
\* that no kubectl delete goes past handleDeletion.
THEOREM StatusNeedsFinalizerHolds == Spec => []StatusNeedsFinalizer
<1>1. TypeOK /\ FinalizerInv => StatusNeedsFinalizer
  BY APIFacts DEF StatusNeedsFinalizer, WellFormed
<1>. QED
  BY <1>1, TypeCorrect, FinalizerInvHolds, PTL

-----------------------------------------------------------------------------
(* At rest: no change is missed, for any lag of the caches.                *)

\* The informer will still deliver a change of o.
pending(o) == \E i \in Window : stream[i][o] # Cache[o]

retried(o) == o \in queue \/ pending(o)

busy(o) == pc # "idle" /\ cur = o

gatewayNode(r) == IF roleNodes(r) = {} THEN NoNode ELSE smallest(roleNodes(r))

GatewaysServe(o) ==
    \A r \in Roles :
        gwDepls[r].exists /\ gwDepls[r].node = gatewayNode(r) /\ o \in gwDepls[r].mounts

StatusIsCurrent(o) ==
    /\ ~API[o].deleting /\ API[o].finalizer
    /\ API[o].community # 0 /\ API[o].key
    /\ API[o].gateways = buildGateways
    /\ API[o].edges = resolveEdges(API[o].spec)

\* Whether the gateway Deployments serve o, where they count.
Serves(gw, o) == gw => GatewaysServe(o)

\* A Reconcile that works with the present object, and what it has seen to be
\* in place at each of its steps.
OnCourse(gw) ==
    /\ mem = API[cur]
    /\ mem.deleting <=> pc \in {"delInternal", "delFinalizer"}
    /\ pc \in Working => mem.finalizer
    /\ pc \in {"community", "keys", "gwDepls", "internal", "edges"} => mem.gateways = buildGateways
    /\ pc \in {"keys", "gwDepls", "internal", "edges"} => mem.community # 0
    /\ pc \in {"gwDepls", "internal", "edges"} => mem.key
    /\ pc \in {"internal", "edges"} => Serves(gw, cur)

\* An overlay that is out of date will be reconciled: its key is queued, an event
\* for it is under way, or the running Reconcile is about to bring it up to date.
UpToDateOrOwed(gw) ==
    \A o \in Overlays : API[o].exists =>
        \/ retried(o)
        \/ busy(o) /\ OnCourse(gw)
        \/ ~busy(o) /\ StatusIsCurrent(o) /\ Serves(gw, o)

\* This of the status alone, which holds of an operator that is not alone, too.
StatusInv == UpToDateOrOwed(FALSE)

\* The same of status and gateway Deployments.
RestInv == UpToDateOrOwed(TRUE)

\* What finalizer and deletion mark say about an object.
LifeInv ==
    \A o \in Overlays : (API[o].finalizer => API[o].exists) /\ (API[o].deleting => API[o].finalizer)

\* What a write adds to the window.
LEMMA WriteExtends ==
    ASSUME TypeOK, NEW c \in Overlays, NEW v \in NetworkOverlay, stream' = streamWith(c, v)
    PROVE  /\ \A i \in Window : i \in Window' /\ stream'[i] = stream[i]
           /\ \E i \in Window' : stream'[i] = API'
<1>1. stream \in Seq([Overlays -> NetworkOverlay]) /\ stream # <<>>
  BY DEF TypeOK
<1>2. CASE stream' = stream
  BY <1>1, <1>2 DEF Window, API
<1>3. CASE stream' = Append(stream, [API EXCEPT ![c] = v])
  <2>1. [API EXCEPT ![c] = v] \in [Overlays -> NetworkOverlay]
    BY ViewTypes
  <2>2. /\ Len(stream) \in Nat /\ Len(stream') = Len(stream) + 1
        /\ \A i \in 1..Len(stream) : stream'[i] = stream[i]
    BY <1>1, <1>3, <2>1, AppendFacts
  <2>. QED
    BY <2>2 DEF Window, API
<1>. QED
  BY <1>2, <1>3, Zenon DEF streamWith

\* What is written was well typed, since the step keeps the types.
LEMMA WrittenType ==
    ASSUME TypeOK, TypeOK', NEW c \in Overlays, NEW v, stream' = streamWith(c, v)
    PROVE  v \in NetworkOverlay
<1>1. API \in [Overlays -> NetworkOverlay] /\ API' \in [Overlays -> NetworkOverlay]
  <2>1. stream' \in Seq([Overlays -> NetworkOverlay]) /\ stream' # <<>>
    BY DEF TypeOK
  <2>. QED
    BY <2>1, ViewTypes, EndsAreMembers DEF API
<1>2. CASE v = API[c]
  BY <1>1, <1>2
<1>3. CASE v # API[c]
  <2>1. stream' = Append(stream, [API EXCEPT ![c] = v])
    BY <1>3 DEF streamWith
  <2>2. stream \in Seq([Overlays -> NetworkOverlay]) /\ stream # <<>>
    BY DEF TypeOK
  <2>3. Len(stream') = Len(stream) + 1 /\ stream'[Len(stream')] = [API EXCEPT ![c] = v]
    BY <2>1, <2>2
  <2>4. API'[c] = v
    BY <1>1, <2>3 DEF API
  <2>. QED
    BY <1>1, <2>4
<1>. QED
  BY <1>2, <1>3

\* An overlay without a change under way is cached as it is.
LEMMA NotPending ==
    ASSUME TypeOK, NEW o \in Overlays, ~pending(o)
    PROVE  Cache[o] = API[o]
<1>1. Len(stream) \in Window
  BY EndsAreMembers DEF TypeOK, Window
<1>. QED
  BY <1>1 DEF pending, API

\* A write that changes an object makes an event, and takes none back.
LEMMA PendingWrite ==
    ASSUME TypeOK, TypeOK', NEW c \in Overlays, NEW v, stream' = streamWith(c, v)
    PROVE  /\ \A o \in Overlays : pending(o) => pending(o)'
           /\ v # API[c] => pending(c)'
           /\ API'[c] = v
           /\ \A o \in Overlays \ {c} : API'[o] = API[o]
<1>1. v \in NetworkOverlay /\ API \in [Overlays -> NetworkOverlay]
  BY WrittenType, ViewTypes
<1>2. API' = [API EXCEPT ![c] = v] /\ Cache' = Cache
  BY <1>1, WriteFacts
<1>3. /\ \A i \in Window : i \in Window' /\ stream'[i] = stream[i]
      /\ \E i \in Window' : stream'[i] = API'
  BY <1>1, WriteExtends
<1>4. API'[c] = v /\ \A o \in Overlays \ {c} : API'[o] = API[o]
  BY <1>1, <1>2
<1>5. \A o \in Overlays : pending(o) => pending(o)'
  BY <1>2, <1>3 DEF pending
<1>6. ASSUME v # API[c] PROVE pending(c)'
  <2>1. CASE pending(c)
    BY <1>5, <2>1
  <2>2. CASE ~pending(c)
    <3>1. Cache[c] = API[c]
      BY <2>2, NotPending
    <3>. QED
      BY <1>2, <1>3, <1>4, <1>6, <3>1, Zenon DEF pending
  <2>. QED
    BY <2>1, <2>2
<1>. QED
  BY <1>4, <1>5, <1>6

\* An event that is delivered queues the overlay it is about.
LEMMA PendingDeliver ==
    ASSUME TypeOK, Deliver, NEW o \in Overlays, pending(o)
    PROVE  retried(o)'
<1>1. stream' = Tail(stream) /\ Len(stream) > 1 /\ stream \in Seq([Overlays -> NetworkOverlay])
  BY DEF Deliver, TypeOK
<1>2. Len(stream) \in Nat /\ Len(stream') = Len(stream) - 1
  BY <1>1, TailFacts
<1>3. \A i \in Window' : stream'[i] = stream[i + 1]
  BY <1>1, TailFacts DEF Window
<1>4. Cache' = stream[2]
  BY <1>1, <1>2, <1>3 DEF Cache, Window
<1>5. CASE stream[2][o] # stream[1][o]
  BY <1>5 DEF Deliver, retried
<1>6. CASE stream[2][o] = stream[1][o]
  <2>1. PICK i \in Window : stream[i][o] # stream[1][o]
    BY DEF pending, Cache
  <2>2. i - 1 \in Window' /\ (i - 1) + 1 = i
    BY <1>2, <2>1 DEF Window
  <2>3. stream'[i - 1] = stream[i]
    BY <1>3, <2>2
  <2>. QED
    BY <1>4, <1>6, <2>1, <2>2, <2>3 DEF retried, pending
<1>. QED
  BY <1>5, <1>6

\* Pinning a gateway Deployment depends on the nodes only.
LEMMA GatewayNodeFacts ==
    \A r, ovs : /\ gatewayDeployment(r, ovs).exists
                /\ gatewayDeployment(r, ovs).node = gatewayNode(r)
                /\ gatewayDeployment(r, ovs).mounts = {o \in Overlays : ovs[o].exists /\ ovs[o].key}
  BY DEF gatewayDeployment, gatewayNode

\* What Reconcile computes depends on the overlays' specs, the nodes and the pods.
LEMMA HelpersKept ==
    ASSUME UNCHANGED <<nodes, pods>>
    PROVE  /\ buildGateways' = buildGateways
           /\ \A e : edgeStatus(e)' = edgeStatus(e)
           /\ \A r : gatewayNode(r)' = gatewayNode(r)
<1>1. gatewaySet' = gatewaySet
  BY DEF gatewaySet
<1>2. buildGateways' = buildGateways
  BY <1>1 DEF buildGateways
<1>3. \A e, p : resolvesTo(e, p)' <=> resolvesTo(e, p)
  BY <1>1 DEF resolvesTo, running
<1>4. \A e : edgeStatus(e)' = edgeStatus(e)
  BY <1>3, Zenon DEF edgeStatus
<1>5. \A r : gatewayNode(r)' = gatewayNode(r)
  BY DEF gatewayNode, roleNodes
<1>. QED
  BY <1>2, <1>4, <1>5

\* An up-to-date status stays so while neither it nor the cluster changes.
LEMMA StatusKept ==
    ASSUME UNCHANGED <<nodes, pods>>, NEW o, API'[o] = API[o], StatusIsCurrent(o)
    PROVE  StatusIsCurrent(o)'
  BY HelpersKept DEF StatusIsCurrent, resolveEdges

\* So do gateway Deployments that nobody writes.
LEMMA ServeKept ==
    ASSUME NEW gw \in BOOLEAN, UNCHANGED <<nodes, pods>>, gw => UNCHANGED gwDepls,
           NEW o, Serves(gw, o)
    PROVE  Serves(gw, o)'
  BY HelpersKept DEF Serves, GatewaysServe

\* A step of the Reconcile of c that writes v, or nothing if that is what the API
\* server has: if nothing is under way for c, the step must leave it on course,
\* queued or up to date.
LEMMA PassKeepsRest ==
    ASSUME NEW gw \in BOOLEAN, TypeOK, TypeOK', UpToDateOrOwed(gw), UNCHANGED <<nodes, pods>>,
           NEW c \in Overlays, cur = c, pc # "idle", pc' # "idle" => cur' = c,
           NEW v, stream' = streamWith(c, v), queue \subseteq queue',
           \A o \in Overlays \ {c} :
               ~pending(o) /\ StatusIsCurrent(o) /\ Serves(gw, o) => Serves(gw, o)',
           OnCourse(gw) /\ ~retried(c) /\ v = API[c] /\ v.exists =>
               \/ c \in queue'
               \/ pc' # "idle" /\ OnCourse(gw)'
               \/ pc' = "idle" /\ StatusIsCurrent(c)' /\ Serves(gw, c)'
    PROVE  UpToDateOrOwed(gw)'
<1>1. /\ \A o \in Overlays : pending(o) => pending(o)'
      /\ v # API[c] => pending(c)'
      /\ API'[c] = v
      /\ \A o \in Overlays \ {c} : API'[o] = API[o]
  BY PendingWrite, Zenon
<1>2. \A o \in Overlays : retried(o) => retried(o)'
  BY <1>1, Zenon DEF retried
<1>3. \A o \in Overlays \ {c} : ~busy(o) /\ ~busy(o)'
  BY DEF busy
<1>4. busy(c) /\ (busy(c)' <=> pc' # "idle")
  BY DEF busy
<1>5. ASSUME NEW o \in Overlays \ {c}, API'[o].exists, ~retried(o)'
      PROVE  StatusIsCurrent(o)' /\ Serves(gw, o)'
  <2>1. API'[o] = API[o] /\ ~retried(o)
    BY <1>1, <1>2, <1>5, Zenon
  <2>2. StatusIsCurrent(o) /\ Serves(gw, o)
    BY <1>3, <1>5, <2>1, Zenon DEF UpToDateOrOwed
  <2>3. Serves(gw, o)'
    BY <2>1, <2>2 DEF retried
  <2>. QED
    BY <2>1, <2>2, <2>3, StatusKept, Zenon
<1>6. ASSUME API'[c].exists, ~retried(c)'
      PROVE  \/ pc' # "idle" /\ OnCourse(gw)'
             \/ pc' = "idle" /\ StatusIsCurrent(c)' /\ Serves(gw, c)'
  <2>1. v = API[c] /\ v.exists /\ ~retried(c) /\ c \notin queue'
    BY <1>1, <1>2, <1>6, Zenon DEF retried
  <2>2. OnCourse(gw)
    BY <1>4, <2>1 DEF UpToDateOrOwed
  <2>. QED
    BY <2>1, <2>2
<1>7. ASSUME NEW o \in Overlays, API'[o].exists, ~retried(o)'
      PROVE  \/ busy(o)' /\ OnCourse(gw)'
             \/ ~busy(o)' /\ StatusIsCurrent(o)' /\ Serves(gw, o)'
  <2>1. CASE o = c
    BY <1>4, <1>6, <1>7, <2>1, Zenon
  <2>2. CASE o # c
    BY <1>3, <1>5, <1>7, <2>2, Zenon
  <2>. QED
    BY <2>1, <2>2
<1>. QED
  BY <1>7, Zenon DEF UpToDateOrOwed

\* Writing what there is writes nothing.
LEMMA NoWrite == ASSUME UNCHANGED stream, NEW c PROVE stream' = streamWith(c, API[c])
  BY DEF streamWith

\* A Reconcile that ends with an error is retried.
LEMMA RequeueRest ==
    ASSUME NEW gw \in BOOLEAN, TypeOK, TypeOK', UpToDateOrOwed(gw),
           pc # "idle", Requeue, UNCHANGED <<stream, nodes, pods>>,
           \A o \in Overlays :
               ~pending(o) /\ StatusIsCurrent(o) /\ Serves(gw, o) => Serves(gw, o)'
    PROVE  UpToDateOrOwed(gw)'
<1>1. PICK c \in Overlays : c = cur
  BY CurType
<1>2. pc' = "idle" /\ c \in queue' /\ queue \subseteq queue'
  BY <1>1 DEF Requeue, Stop
<1>3. stream' = streamWith(c, API[c])
  BY NoWrite
<1>. QED
  BY <1>1, <1>2, <1>3, PassKeepsRest

\* A patch: the local copy is what the API server has then.
LEMMA PatchRest ==
    ASSUME NEW gw \in BOOLEAN, TypeOK, TypeOK', UpToDateOrOwed(gw),
           pc # "idle", UNCHANGED <<nodes, pods, gwDepls>>,
           NEW v, NEW next, next # "idle", Patch(v, next),
           OnCourse(gw) /\ v = mem /\ pc' = next /\ mem' = mem /\ cur' = cur /\ API'[cur] = mem
               => OnCourse(gw)'
    PROVE  UpToDateOrOwed(gw)'
<1>1. PICK c \in Overlays : c = cur
  BY CurType
<1>2. \A o \in Overlays : Serves(gw, o) => Serves(gw, o)'
  BY ServeKept
<1>3. CASE /\ stream' = streamWith(cur, v) /\ pc' = next /\ mem' = v
           /\ UNCHANGED <<cur, list, queue>>
  <2>1. API'[c] = v
    BY <1>1, <1>3, PendingWrite, Zenon
  <2>2. OnCourse(gw) /\ v = API[c] => OnCourse(gw)'
    BY <1>1, <1>3, <2>1, Zenon DEF OnCourse
  <2>. QED
    BY <1>1, <1>2, <1>3, <2>2, PassKeepsRest, Zenon
<1>4. CASE Requeue /\ UNCHANGED stream
  BY <1>2, <1>4, RequeueRest
<1>. QED
  BY <1>3, <1>4 DEF Patch

\* A step without a call.
LEMMA SkipRest ==
    ASSUME NEW gw \in BOOLEAN, TypeOK, TypeOK', UpToDateOrOwed(gw),
           pc # "idle", UNCHANGED <<nodes, pods, gwDepls>>,
           NEW next, next # "idle", SkipTo(next),
           OnCourse(gw) /\ pc' = next /\ mem' = mem /\ cur' = cur /\ API'[cur] = mem
               => OnCourse(gw)'
    PROVE  UpToDateOrOwed(gw)'
<1>1. PICK c \in Overlays : c = cur
  BY CurType
<1>2. \A o \in Overlays : Serves(gw, o) => Serves(gw, o)'
  BY ServeKept
<1>3. stream' = streamWith(c, API[c])
  BY NoWrite DEF SkipTo
<1>4. API' = API
  BY DEF SkipTo, API
<1>5. OnCourse(gw) => OnCourse(gw)'
  BY <1>4, Zenon DEF SkipTo, OnCourse
<1>. QED
  BY <1>1, <1>2, <1>3, <1>5, PassKeepsRest, Zenon DEF SkipTo

\* The status patches of Reconcile: a patch that changes something is retried,
\* and one that changes nothing has found its part of the status in place.
LEMMA StatusStepsRest ==
    ASSUME NEW gw \in BOOLEAN, TypeOK, TypeOK', UpToDateOrOwed(gw),
           AddFinalizer \/ PatchGateways \/ AllocateCommunity \/ EnsureKeys
    PROVE  UpToDateOrOwed(gw)'
<1>1. /\ UNCHANGED <<nodes, pods, gwDepls>> /\ buildGateways' = buildGateways
      /\ pc # "idle" /\ API[cur] \in NetworkOverlay /\ mem \in NetworkOverlay
  <2>1. UNCHANGED <<nodes, pods, gwDepls>> /\ pc # "idle"
    BY DEF AddFinalizer, PatchGateways, AllocateCommunity, EnsureKeys, WorkerUnchanged
  <2>. QED
    BY <2>1, CurType, HelpersKept DEF TypeOK
<1>2. CASE AddFinalizer
  <2>. DEFINE v == [API[cur] EXCEPT !.finalizer = TRUE]
  <2>1. v.finalizer
    BY <1>1 DEF NetworkOverlay
  <2>2. ASSUME OnCourse(gw), v = mem, pc' = "gateways", mem' = mem, cur' = cur, API'[cur] = mem
        PROVE  OnCourse(gw)'
    BY <1>1, <1>2, <2>1, <2>2, Zenon DEF OnCourse, AddFinalizer
  <2>3. Patch(v, "gateways")
    BY <1>2 DEF AddFinalizer
  <2>. HIDE DEF v
  <2>. QED
    BY <1>1, <2>2, <2>3, PatchRest
<1>3. CASE PatchGateways
  <2>. DEFINE v == IF mem.gateways = buildGateways THEN API[cur]
                   ELSE [API[cur] EXCEPT !.gateways = buildGateways]
  <2>1. CASE changed(mem.gateways, buildGateways)
    <3>1. v = mem => mem.gateways = buildGateways
      BY <1>1 DEF NetworkOverlay
    <3>2. ASSUME OnCourse(gw), v = mem, pc' = "community", mem' = mem, cur' = cur, API'[cur] = mem
          PROVE  OnCourse(gw)'
      BY <1>1, <1>3, <3>1, <3>2 DEF OnCourse, PatchGateways, Working
    <3>3. Patch(v, "community")
      BY <1>3, <2>1 DEF PatchGateways
    <3>. HIDE DEF v
    <3>. QED
      BY <1>1, <3>2, <3>3, PatchRest
  <2>2. CASE ~changed(mem.gateways, buildGateways)
    <3>1. SkipTo("community") /\ mem.gateways = buildGateways
      BY <1>3, <2>2 DEF PatchGateways, changed
    <3>2. ASSUME OnCourse(gw), pc' = "community", mem' = mem, cur' = cur, API'[cur] = mem
          PROVE  OnCourse(gw)'
      BY <1>1, <1>3, <3>1, <3>2 DEF OnCourse, PatchGateways, Working
    <3>. QED
      BY <1>1, <3>1, <3>2, SkipRest
  <2>. QED
    BY <2>1, <2>2
<1>4. CASE AllocateCommunity
  <2>1. CASE mem.community # 0
    <3>1. SkipTo("keys")
      BY <1>4, <2>1 DEF AllocateCommunity
    <3>2. ASSUME OnCourse(gw), pc' = "keys", mem' = mem, cur' = cur, API'[cur] = mem
          PROVE  OnCourse(gw)'
      BY <1>1, <1>4, <2>1, <3>2 DEF OnCourse, AllocateCommunity, Working
    <3>. QED
      BY <1>1, <3>1, <3>2, SkipRest
  <2>2. CASE mem.community = 0 /\ freeCommunities(cur) # {}
    <3>. DEFINE v == [API[cur] EXCEPT !.community = smallest(freeCommunities(cur))]
    <3>1. smallest(freeCommunities(cur)) # 0
      BY <1>1, <2>2, CurType, FreeCommunityType, BoundsAssumption
    <3>2. v.community # 0
      BY <1>1, <3>1 DEF NetworkOverlay
    <3>3. ASSUME OnCourse(gw), v = mem, pc' = "keys", mem' = mem, cur' = cur, API'[cur] = mem
          PROVE  OnCourse(gw)'
      BY <1>1, <1>4, <2>2, <3>2, <3>3, Zenon DEF OnCourse, AllocateCommunity, Working
    <3>4. Patch(v, "keys")
      BY <1>4, <2>2 DEF AllocateCommunity
    <3>. HIDE DEF v
    <3>. QED
      BY <1>1, <3>3, <3>4, PatchRest
  <2>3. CASE mem.community = 0 /\ freeCommunities(cur) = {}
    <3>1. Requeue /\ UNCHANGED stream
      BY <1>4, <2>3 DEF AllocateCommunity
    <3>. QED
      BY <1>1, <3>1, ServeKept, RequeueRest
  <2>. QED
    BY <2>1, <2>2, <2>3
<1>5. CASE EnsureKeys
  <2>. DEFINE v == [API[cur] EXCEPT !.key = TRUE]
  <2>1. CASE mem.key
    <3>1. SkipTo("gwDepls")
      BY <1>5, <2>1 DEF EnsureKeys
    <3>2. ASSUME OnCourse(gw), pc' = "gwDepls", mem' = mem, cur' = cur, API'[cur] = mem
          PROVE  OnCourse(gw)'
      BY <1>1, <1>5, <2>1, <3>2 DEF OnCourse, EnsureKeys, Working
    <3>. QED
      BY <1>1, <3>1, <3>2, SkipRest
  <2>2. CASE ~mem.key
    <3>1. v.key
      BY <1>1 DEF NetworkOverlay
    <3>2. ASSUME OnCourse(gw), v = mem, pc' = "gwDepls", mem' = mem, cur' = cur, API'[cur] = mem
          PROVE  OnCourse(gw)'
      BY <2>2, <3>1, <3>2, Zenon
    <3>3. Patch(v, "gwDepls")
      BY <1>5, <2>2 DEF EnsureKeys
    <3>. HIDE DEF v
    <3>. QED
      BY <1>1, <3>2, <3>3, PatchRest
  <2>. QED
    BY <2>1, <2>2
<1>. QED
  BY <1>2, <1>3, <1>4, <1>5

\* A gateway Deployment written from the cache serves every overlay that is
\* cached as it is.
LEMMA GatewayWriteServes ==
    ASSUME TypeOK, LifeInv, UNCHANGED <<nodes, pods>>, NEW R \in SUBSET Roles,
           gwDepls' = [r \in Roles |-> IF r \in R THEN gatewayDeployment(r, Cache) ELSE gwDepls[r]],
           NEW o \in Overlays, ~pending(o), API[o].finalizer, API[o].key,
           R # Roles => GatewaysServe(o)
    PROVE  GatewaysServe(o)'
<1>1. Cache[o] = API[o]
  BY NotPending
<1>2. API[o].exists
  BY DEF LifeInv
<1>3. \A r : gatewayNode(r)' = gatewayNode(r)
  BY HelpersKept
<1>4. \A r \in R : /\ gwDepls'[r].exists /\ gwDepls'[r].node = gatewayNode(r)
                  /\ o \in gwDepls'[r].mounts
  BY <1>1, <1>2, GatewayNodeFacts
<1>5. \A r \in Roles \ R : /\ gwDepls'[r].exists /\ gwDepls'[r].node = gatewayNode(r)
                          /\ o \in gwDepls'[r].mounts
  BY DEF GatewaysServe
<1>. QED
  BY <1>3, <1>4, <1>5 DEF GatewaysServe

\* The gateway Deployments follow the nodes and mount every overlay that is
\* not waiting for a Reconcile of its own.
LEMMA GatewayStepsRest ==
    ASSUME NEW gw \in BOOLEAN, TypeOK, TypeOK', LifeInv, UpToDateOrOwed(gw),
           EnsureGatewayDeployments \/ GatewayFailsHalfway
    PROVE  UpToDateOrOwed(gw)'
<1>1. /\ UNCHANGED <<nodes, pods, stream>> /\ pc = "gwDepls"
      /\ buildGateways' = buildGateways /\ API' = API
  <2>1. UNCHANGED <<nodes, pods, stream>> /\ pc = "gwDepls"
    BY DEF EnsureGatewayDeployments, GatewayFailsHalfway, WorkerUnchanged, clusterVars
  <2>. QED
    BY <2>1, HelpersKept DEF API
<1>2. PICK c \in Overlays : c = cur
  BY <1>1, CurType
<1>3. CASE EnsureGatewayDeployments
  <2>1. gwDepls' = [r \in Roles |-> IF r \in Roles THEN gatewayDeployment(r, Cache) ELSE gwDepls[r]]
    BY <1>3 DEF EnsureGatewayDeployments
  <2>2. \A o \in Overlays : ~pending(o) /\ API[o].finalizer /\ API[o].key => Serves(gw, o)'
    BY <1>1, <2>1, GatewayWriteServes DEF Serves
  <2>3. \A o \in Overlays : ~pending(o) /\ StatusIsCurrent(o) => Serves(gw, o)'
    BY <2>2 DEF StatusIsCurrent
  <2>4. ASSUME OnCourse(gw), ~retried(c) PROVE OnCourse(gw)'
    <3>1. Serves(gw, c)'
      BY <1>1, <1>2, <2>2, <2>4 DEF OnCourse, retried, Working
    <3>2. pc' = "internal" /\ mem' = mem /\ cur' = cur
      BY <1>3 DEF EnsureGatewayDeployments
    <3>3. Serves(gw, cur)'
      BY <1>2, <3>1, <3>2 DEF Serves, GatewaysServe
    <3>. QED
      BY <1>1, <2>4, <3>2, <3>3 DEF OnCourse, Working
  <2>5. stream' = streamWith(c, API[c])
    BY <1>1, NoWrite
  <2>6. pc' # "idle" /\ cur' = c /\ queue' = queue
    BY <1>2, <1>3 DEF EnsureGatewayDeployments
  <2>. QED
    BY <1>1, <1>2, <2>3, <2>4, <2>5, <2>6, PassKeepsRest
<1>4. CASE GatewayFailsHalfway
  <2>1. gwDepls' = [r \in Roles |-> IF r \in {"primary"} THEN gatewayDeployment(r, Cache) ELSE gwDepls[r]]
    BY <1>4, Zenon DEF GatewayFailsHalfway, TypeOK, Roles
  <2>2. \A o \in Overlays :
            ~pending(o) /\ StatusIsCurrent(o) /\ Serves(gw, o) => Serves(gw, o)'
    <3>1. {"primary"} \in SUBSET Roles
      BY DEF Roles
    <3>. QED
      BY <1>1, <2>1, <3>1, GatewayWriteServes, Zenon DEF StatusIsCurrent, Serves
  <2>3. Requeue
    BY <1>4 DEF GatewayFailsHalfway
  <2>. QED
    BY <1>1, <2>2, <2>3, RequeueRest
<1>. QED
  BY <1>3, <1>4

\* The internal Deployments have no part in the status.
LEMMA InternalStepsRest ==
    ASSUME NEW gw \in BOOLEAN, TypeOK, TypeOK', UpToDateOrOwed(gw),
           EnsureInternalDeployments \/ TeardownInternal
    PROVE  UpToDateOrOwed(gw)'
<1>1. PICK T, next : /\ EnsureInternal(T, next)
                    /\ \/ pc = "internal" /\ next = "edges"
                       \/ pc = "delInternal" /\ next = "delFinalizer"
  BY DEF EnsureInternalDeployments, TeardownInternal
<1>2. /\ UNCHANGED <<nodes, pods, stream, gwDepls>> /\ pc # "idle"
      /\ buildGateways' = buildGateways /\ API' = API
  <2>1. UNCHANGED <<nodes, pods, stream, gwDepls>> /\ pc # "idle"
    BY <1>1 DEF EnsureInternal, WorkerUnchanged
  <2>. QED
    BY <2>1, HelpersKept DEF API
<1>3. PICK c \in Overlays : c = cur
  BY <1>2, CurType
<1>4. \A o \in Overlays : Serves(gw, o) => Serves(gw, o)'
  BY <1>2, ServeKept
<1>5. CASE Requeue
  BY <1>2, <1>4, <1>5, RequeueRest
<1>6. CASE pc' = next /\ UNCHANGED <<cur, mem, queue>>
  <2>1. Serves(gw, cur) => Serves(gw, cur)'
    BY <1>3, <1>4, <1>6, Zenon DEF Serves, GatewaysServe
  <2>2. OnCourse(gw) => OnCourse(gw)'
    BY <1>1, <1>2, <1>6, <2>1, Zenon DEF OnCourse, Working
  <2>3. stream' = streamWith(c, API[c])
    BY <1>2, NoWrite
  <2>4. pc' # "idle" /\ cur' = c /\ queue' = queue
    BY <1>1, <1>3, <1>6
  <2>. QED
    BY <1>2, <1>3, <1>4, <2>2, <2>3, <2>4, PassKeepsRest
<1>. QED
  BY <1>1, <1>5, <1>6 DEF EnsureInternal

\* The last patch: a Reconcile that was on course and resolves the edges that
\* are in the status leaves an up-to-date overlay.
LEMMA ResolveEdgesRest ==
    ASSUME NEW gw \in BOOLEAN, TypeOK, TypeOK', UpToDateOrOwed(gw), ResolveEdges
    PROVE  UpToDateOrOwed(gw)'
<1>1. /\ UNCHANGED <<nodes, pods, gwDepls>> /\ pc = "edges"
      /\ API[cur] \in NetworkOverlay
  BY CurType DEF ResolveEdges, WorkerUnchanged
<1>2. PICK c \in Overlays : c = cur
  BY <1>1, CurType
<1>3. \A o \in Overlays : Serves(gw, o) => Serves(gw, o)'
  BY <1>1, ServeKept
<1>4. CASE Requeue /\ UNCHANGED stream
  BY <1>1, <1>3, <1>4, RequeueRest
<1>5. CASE /\ stream' = IF mem.edges = resolveEdges(mem.spec) THEN stream
                       ELSE streamWith(cur, [API[cur] EXCEPT !.edges = resolveEdges(mem.spec)])
           /\ Stop /\ UNCHANGED queue
  <2>. DEFINE v == IF mem.edges = resolveEdges(mem.spec) THEN API[c]
                   ELSE [API[c] EXCEPT !.edges = resolveEdges(mem.spec)]
  <2>1. stream' = streamWith(c, v)
    BY <1>2, <1>5, Zenon DEF streamWith
  <2>2. API'[c] = v
    BY <2>1, PendingWrite
  <2>3. ASSUME OnCourse(gw), v = API[c]
        PROVE  StatusIsCurrent(c)' /\ Serves(gw, c)'
    <3>1. mem = API[c] /\ Serves(gw, c)
      BY <1>1, <1>2, <2>3 DEF OnCourse
    <3>2. mem.edges = resolveEdges(mem.spec)
      BY <1>1, <1>2, <2>3, <3>1 DEF NetworkOverlay
    <3>3. StatusIsCurrent(c)
      BY <1>1, <2>3, <3>1, <3>2 DEF StatusIsCurrent, OnCourse, Working
    <3>. QED
      BY <1>1, <1>3, <2>2, <2>3, <3>1, <3>3, StatusKept
  <2>4. pc' = "idle" /\ queue' = queue
    BY <1>5 DEF Stop
  <2>. HIDE DEF v
  <2>. QED
    BY <1>1, <1>2, <1>3, <2>1, <2>3, <2>4, PassKeepsRest
<1>. QED
  BY <1>4, <1>5 DEF ResolveEdges

\* Removing the finalizer of an overlay in deletion removes the overlay.
LEMMA RemoveFinalizerRest ==
    ASSUME NEW gw \in BOOLEAN, TypeOK, TypeOK', UpToDateOrOwed(gw), RemoveFinalizer
    PROVE  UpToDateOrOwed(gw)'
<1>1. /\ UNCHANGED <<nodes, pods, gwDepls>> /\ pc = "delFinalizer"
      /\ API[cur] \in NetworkOverlay
  BY CurType DEF RemoveFinalizer, WorkerUnchanged
<1>2. PICK c \in Overlays : c = cur
  BY <1>1, CurType
<1>3. \A o \in Overlays : Serves(gw, o) => Serves(gw, o)'
  BY <1>1, ServeKept
<1>4. CASE Requeue /\ UNCHANGED stream
  BY <1>1, <1>3, <1>4, RequeueRest
<1>5. CASE /\ API[cur].exists
           /\ stream' = streamWith(cur, IF API[cur].deleting THEN Absent(API[cur].uid)
                                        ELSE [API[cur] EXCEPT !.finalizer = FALSE])
           /\ Stop /\ UNCHANGED queue
  <2>. DEFINE v == IF API[c].deleting THEN Absent(API[c].uid)
                   ELSE [API[c] EXCEPT !.finalizer = FALSE]
  <2>1. stream' = streamWith(c, v)
    BY <1>2, <1>5
  <2>2. OnCourse(gw) => ~v.exists
    BY <1>1, <1>2 DEF OnCourse, Absent
  <2>3. pc' = "idle" /\ queue' = queue
    BY <1>5 DEF Stop
  <2>. HIDE DEF v
  <2>. QED
    BY <1>1, <1>2, <1>3, <2>1, <2>2, <2>3, PassKeepsRest
<1>. QED
  BY <1>4, <1>5 DEF RemoveFinalizer

\* The worker takes a key: if no change of the overlay is under way, the cached
\* copy that Reconcile gets is the object itself.
LEMMA BeginRest ==
    ASSUME NEW gw \in BOOLEAN, TypeOK, LifeInv, UpToDateOrOwed(gw), NEW c \in Overlays, Begin(c)
    PROVE  UpToDateOrOwed(gw)'
<1>1. /\ UNCHANGED <<nodes, pods, gwDepls, stream>> /\ pc = "idle" /\ queue' = queue \ {c}
  BY DEF Begin, WorkerUnchanged, objVars
<1>2. API' = API /\ Cache' = Cache /\ Window' = Window
  BY <1>1 DEF API, Cache, Window
<1>3. \A o \in Overlays : pending(o)' <=> pending(o)
  BY <1>1, <1>2 DEF pending
<1>4. \A o \in Overlays \ {c} : ~busy(o) /\ ~busy(o)'
  BY <1>1 DEF busy, Begin, workerVars
<1>5. ASSUME NEW o \in Overlays \ {c}, API'[o].exists, ~retried(o)'
      PROVE  StatusIsCurrent(o)' /\ Serves(gw, o)'
  <2>1. ~retried(o)
    BY <1>1, <1>3, <1>5 DEF retried
  <2>2. StatusIsCurrent(o) /\ Serves(gw, o)
    BY <1>2, <1>4, <1>5, <2>1 DEF UpToDateOrOwed
  <2>. QED
    BY <1>1, <1>2, <2>2, StatusKept, ServeKept
<1>6. ASSUME API'[c].exists, ~retried(c)' PROVE busy(c)' /\ OnCourse(gw)'
  <2>1. ~pending(c)
    BY <1>3, <1>6 DEF retried
  <2>2. Cache[c] = API[c] /\ API[c].exists
    BY <1>2, <1>6, <2>1, NotPending
  <2>3. Cache[c].deleting => Cache[c].finalizer
    BY <2>2 DEF LifeInv
  <2>4. /\ pc' = IF Cache[c].deleting THEN "delInternal"
                ELSE IF Cache[c].finalizer THEN "gateways" ELSE "finalizer"
        /\ cur' = c /\ mem' = Cache[c]
    BY <2>2, <2>3 DEF Begin
  <2>5. Cache[c].deleting \in BOOLEAN /\ Cache[c].finalizer \in BOOLEAN
    BY ViewTypes DEF NetworkOverlay
  <2>6. busy(c)'
    BY <2>4 DEF busy
  <2>7. OnCourse(gw)'
    BY <1>2, <2>2, <2>4, <2>5 DEF OnCourse, Working
  <2>. QED
    BY <2>6, <2>7
<1>7. ASSUME NEW o \in Overlays, API'[o].exists, ~retried(o)'
      PROVE  \/ busy(o)' /\ OnCourse(gw)'
             \/ ~busy(o)' /\ StatusIsCurrent(o)' /\ Serves(gw, o)'
  <2>1. CASE o = c
    BY <1>6, <1>7, <2>1
  <2>2. CASE o # c
    BY <1>4, <1>5, <1>7, <2>2
  <2>. QED
    BY <2>1, <2>2
<1>. QED
  BY <1>7, Zenon DEF UpToDateOrOwed

\* Whatever the worker leaves alone: an overlay that nothing was under way for
\* and that still has the same object is as before.
LEMMA OutsideKeepsRest ==
    ASSUME NEW gw \in BOOLEAN, UpToDateOrOwed(gw), UNCHANGED <<nodes, pods>>,
           gw => UNCHANGED gwDepls, UNCHANGED workerVars,
           \A o \in Overlays : API'[o].exists /\ ~retried(o)' => ~retried(o) /\ API'[o] = API[o]
    PROVE  UpToDateOrOwed(gw)'
<1>1. ASSUME NEW o \in Overlays, API'[o].exists, ~retried(o)'
      PROVE  \/ busy(o)' /\ OnCourse(gw)'
             \/ ~busy(o)' /\ StatusIsCurrent(o)' /\ Serves(gw, o)'
  <2>1. ~retried(o) /\ API'[o] = API[o]
    BY <1>1
  <2>2. busy(o)' <=> busy(o)
    BY DEF busy, workerVars
  <2>3. CASE busy(o) /\ OnCourse(gw)
    <3>1. cur = o /\ UNCHANGED <<pc, cur, mem>> /\ buildGateways' = buildGateways
      BY <2>3, HelpersKept, Zenon DEF busy, workerVars
    <3>2. Serves(gw, cur) => Serves(gw, cur)'
      <4>1. Serves(gw, o) => Serves(gw, o)'
        BY ServeKept, Zenon
      <4>. QED
        BY <3>1, <4>1, Zenon DEF Serves, GatewaysServe
    <3>3. OnCourse(gw)'
      BY <2>1, <2>3, <3>1, <3>2 DEF OnCourse
    <3>. QED
      BY <2>2, <2>3, <3>3
  <2>4. CASE ~busy(o) /\ StatusIsCurrent(o) /\ Serves(gw, o)
    BY <2>1, <2>2, <2>4, StatusKept, ServeKept, Zenon
  <2>. QED
    BY <1>1, <2>1, <2>3, <2>4, Zenon DEF UpToDateOrOwed
<1>. QED
  BY <1>1, Zenon DEF UpToDateOrOwed

\* The informers.
LEMMA DeliverRest ==
    ASSUME NEW gw \in BOOLEAN, TypeOK, UpToDateOrOwed(gw), Deliver \/ DeliverDepls
    PROVE  UpToDateOrOwed(gw)'
<1>1. UNCHANGED <<nodes, pods, gwDepls>> /\ UNCHANGED workerVars /\ queue \subseteq queue'
  BY DEF Deliver, DeliverDepls
<1>2. CASE Deliver
  <2>1. API' = API
    BY <1>2, TailFacts, Zenon DEF Deliver, API, TypeOK
  <2>2. \A o \in Overlays : retried(o) => retried(o)'
    BY <1>1, <1>2, PendingDeliver DEF retried
  <2>. QED
    BY <1>1, <2>1, <2>2, OutsideKeepsRest
<1>3. CASE DeliverDepls
  <2>1. API' = API /\ \A o : retried(o)' <=> retried(o)
    BY <1>3 DEF DeliverDepls, API, retried, pending, Window, Cache
  <2>. QED
    BY <1>1, <2>1, OutsideKeepsRest
<1>. QED
  BY <1>2, <1>3

\* The users: what they write makes an event.
LEMMA UserRest ==
    ASSUME NEW gw \in BOOLEAN, TypeOK, TypeOK', UpToDateOrOwed(gw), NEW c \in Overlays,
           Delete(c) \/ \E spec \in SUBSET Edges : Apply(c, spec)
    PROVE  UpToDateOrOwed(gw)'
<1>1. /\ UNCHANGED <<nodes, pods, gwDepls>> /\ UNCHANGED workerVars /\ queue' = queue
      /\ \E v : stream' = streamWith(c, v)
  BY Zenon DEF Delete, Apply, Happens, clusterVars
<1>2. PICK v : stream' = streamWith(c, v)
  BY <1>1
<1>3. /\ \A o \in Overlays : pending(o) => pending(o)'
      /\ v # API[c] => pending(c)'
      /\ API'[c] = v
      /\ \A o \in Overlays \ {c} : API'[o] = API[o]
  BY <1>2, PendingWrite, Zenon
<1>. QED
  BY <1>1, <1>3, OutsideKeepsRest, Zenon DEF retried

\* Pods and Nodes: every overlay is queued, or its first event is under way.
LEMMA ClusterRest ==
    ASSUME NEW gw \in BOOLEAN, TypeOK, enqueueAll, UNCHANGED stream
    PROVE  UpToDateOrOwed(gw)'
<1>1. API' = API /\ \A o : pending(o)' <=> pending(o)
  BY DEF API, pending, Window, Cache
<1>2. \A o \in Overlays : API[o].exists => retried(o)'
  BY <1>1, NotPending DEF enqueueAll, retried
<1>. QED
  BY <1>1, <1>2 DEF UpToDateOrOwed

\* A restarted operator reconciles everything.
LEMMA RestartRest == ASSUME NEW gw \in BOOLEAN, TypeOK, Restart PROVE UpToDateOrOwed(gw)'
<1>1. stream' = <<API>> /\ queue' = {o \in Overlays : API[o].exists}
  BY DEF Restart
<1>2. API' = API
  BY <1>1 DEF API
<1>. QED
  BY <1>1, <1>2 DEF UpToDateOrOwed, retried

\* At first there is no overlay that anything would be owed to.
LEMMA InitRest == ASSUME NEW gw \in BOOLEAN, Init PROVE UpToDateOrOwed(gw)
<1>. SUFFICES ASSUME NEW o \in Overlays PROVE ~API[o].exists
  BY DEF UpToDateOrOwed
<1>1. API = NothingListed
  BY DEF Init, API
<1>. QED
  BY <1>1 DEF NothingListed, Absent

\* No step leaves an overlay out of date without a retry.
LEMMA NextRest ==
    ASSUME NEW gw \in BOOLEAN, TypeOK, LifeInv, UpToDateOrOwed(gw), [Next]_vars
    PROVE  UpToDateOrOwed(gw)'
<1>0. TypeOK'
  BY NextType
<1>1. CASE \E o \in Overlays : Begin(o)
  BY <1>1, BeginRest
<1>2. CASE Worker
  BY <1>0, <1>2, StatusStepsRest, GatewayStepsRest, InternalStepsRest, ResolveEdgesRest,
     RemoveFinalizerRest DEF Worker
<1>3. CASE Deliver \/ DeliverDepls
  BY <1>3, DeliverRest
<1>4. CASE CallFails \/ InternalFailsHalfway
  <2>1. pc # "idle" /\ Requeue /\ UNCHANGED <<stream, nodes, pods, gwDepls>>
    BY <1>4 DEF CallFails, InternalFailsHalfway, objVars, clusterVars
  <2>. QED
    BY <1>0, <2>1, ServeKept, RequeueRest
<1>5. CASE GatewayFailsHalfway
  BY <1>0, <1>5, GatewayStepsRest
<1>6. CASE Restart
  BY <1>6, RestartRest
<1>7. CASE Environment
  <2>1. CASE \E o \in Overlays : Delete(o) \/ \E spec \in SUBSET Edges : Apply(o, spec)
    BY <1>0, <2>1, UserRest
  <2>2. CASE \E p \in Pods, v \in Pod : PodEvent(p, v)
    BY <2>2, ClusterRest, Zenon DEF PodEvent, objVars
  <2>3. CASE \E n \in Nodes, v \in NodeStates : NodeEvent(n, v)
    BY <2>3, ClusterRest DEF NodeEvent, objVars
  <2>. QED
    BY <1>7, <2>1, <2>2, <2>3 DEF Environment
<1>8. CASE UNCHANGED vars
  <2>1. UNCHANGED <<nodes, pods, gwDepls>> /\ UNCHANGED workerVars
    BY <1>8 DEF vars, workerVars
  <2>2. API' = API /\ \A o : retried(o)' <=> retried(o)
    BY <1>8 DEF vars, API, retried, pending, Window, Cache
  <2>. QED
    BY <2>1, <2>2, OutsideKeepsRest
<1>. QED
  BY <1>1, <1>2, <1>3, <1>4, <1>5, <1>6, <1>7, <1>8 DEF Next

\* RestInv: nothing that changes is missed, however far the caches lag.
THEOREM RestInvHolds == Spec => []RestInv
<1>1. Init => RestInv
  BY InitRest, Zenon DEF RestInv
<1>2. TypeOK /\ FinalizerInv => LifeInv
  BY APIFacts DEF WellFormed, LifeInv
<1>3. TypeOK /\ FinalizerInv /\ RestInv /\ [Next]_vars => RestInv'
  BY <1>2, NextRest, Zenon DEF RestInv
<1>. QED
  BY <1>1, <1>3, TypeCorrect, FinalizerInvHolds, PTL DEF Spec

\* At rest nothing is queued, under way or being reconciled.
LEMMA NothingRetried ==
    ASSUME NEW gw \in BOOLEAN, TypeOK, UpToDateOrOwed(gw), AtRest,
           NEW o \in Overlays, API[o].exists
    PROVE  StatusIsCurrent(o) /\ Serves(gw, o)
<1>1. Window = {1}
  BY DEF AtRest, Window
<1>2. ~retried(o) /\ ~busy(o)
  BY <1>1 DEF AtRest, retried, pending, Cache, busy
<1>. QED
  BY <1>2, Zenon DEF UpToDateOrOwed

\* An operator at rest that has missed no change has left every status up to date.
LEMMA StatusAtRest ==
    ASSUME NEW gw \in BOOLEAN, TypeOK, UpToDateOrOwed(gw)
    PROVE  RestStatusIsCurrent
  BY NothingRetried DEF RestStatusIsCurrent, StatusIsCurrent

\* And the gateway Deployments with it, if it is the one to see to them.
LEMMA GatewaysAtRest == TypeOK /\ RestInv => RestGatewaysMatch
<1>1. ASSUME TypeOK, RestInv, AtRest, NEW x \in Overlays, API[x].exists, NEW r \in Roles
      PROVE  /\ gwDepls[r].exists
             /\ gwDepls[r].node = gatewayDeployment(r, API).node
             /\ {o \in Overlays : API[o].exists} \subseteq gwDepls[r].mounts
  <2>1. \A o \in Overlays : API[o].exists => GatewaysServe(o)
    BY <1>1, NothingRetried, Zenon DEF RestInv, Serves
  <2>2. gatewayDeployment(r, API).node = gatewayNode(r)
    BY GatewayNodeFacts
  <2>. QED
    BY <1>1, <2>1, <2>2 DEF GatewaysServe
<1>. QED
  BY <1>1 DEF RestGatewaysMatch

\* RestStatusIsCurrent for every number of overlays, nodes, pods and edges and
\* every lag of the caches: the event handlers, retries and no-change patches
\* of Reconcile never let the operator stop at a stale status.
THEOREM RestStatusIsCurrentHolds == Spec => []RestStatusIsCurrent
<1>1. TypeOK /\ RestInv => RestStatusIsCurrent
  BY StatusAtRest, Zenon DEF RestInv
<1>. QED
  BY <1>1, TypeCorrect, RestInvHolds, PTL

\* RestGatewaysMatch, likewise: the gateway Deployments follow the gateway
\* nodes and mount every overlay, although each Reconcile writes them from a
\* cached list.
THEOREM RestGatewaysMatchHolds == Spec => []RestGatewaysMatch
  BY GatewaysAtRest, TypeCorrect, RestInvHolds, PTL

-----------------------------------------------------------------------------
(* An operator that is not alone: its own steps, and those it follows.     *)

ReplicaStep == (\E o \in Overlays : Take(o)) \/ Work \/ Inform

\* Most steps are those of an operator that is alone; its gateway Deployments
\* are what it has seen then, and stay so.
LEMMA StepOfReplica ==
    ASSUME ReplicaStep
    PROVE  \/ /\ [Next]_vars
              /\ seen = gwDepls => seen' = gwDepls'
              /\ gwDepls' # gwDepls => EnsureGatewayDeployments /\ seen' = gwDepls'
           \/ Conflict \/ NothingToWrite
<1>1. CASE \E o \in Overlays : Take(o)
  BY <1>1 DEF Take, Next, Begin, objVars
<1>2. CASE Write
  <2>1. Worker /\ seen' = IF pc = "gwDepls" THEN gwDepls' ELSE seen
    BY <1>2 DEF Write
  <2>2. CASE pc = "gwDepls"
    <3>1. EnsureGatewayDeployments
      BY <2>1, <2>2 DEF Worker, AddFinalizer, PatchGateways, AllocateCommunity, EnsureKeys,
         EnsureInternalDeployments, ResolveEdges, TeardownInternal, RemoveFinalizer
    <3>. QED
      BY <2>1, <2>2, <3>1 DEF Next
  <2>3. CASE pc # "gwDepls"
    <3>1. UNCHANGED gwDepls
      BY <2>1, <2>3 DEF Worker, AddFinalizer, PatchGateways, AllocateCommunity, EnsureKeys,
         EnsureGatewayDeployments, EnsureInternalDeployments, EnsureInternal, ResolveEdges,
         TeardownInternal, RemoveFinalizer
    <3>. QED
      BY <2>1, <2>3, <3>1 DEF Next
  <2>. QED
    BY <2>2, <2>3
<1>3. CASE (Deliver \/ DeliverDepls) /\ UNCHANGED seen
  BY <1>3 DEF Next, Deliver, DeliverDepls
<1>4. CASE /\ seen # gwDepls /\ seen' = gwDepls
           /\ UNCHANGED <<objVars, queue, workerVars>> /\ WorkerUnchanged
  <2>1. UNCHANGED vars
    BY <1>4 DEF vars, objVars, workerVars, WorkerUnchanged
  <2>. QED
    BY <1>4, <2>1 DEF vars
<1>. QED
  BY <1>1, <1>2, <1>3, <1>4 DEF ReplicaStep, Work, Inform

\* No step of a replica changes Nodes or Pods.
LEMMA ReplicaCluster == ReplicaStep => WorkerUnchanged
<1>1. \A T, next : EnsureInternal(T, next) => WorkerUnchanged
  BY DEF EnsureInternal
<1>2. Worker => WorkerUnchanged
  BY <1>1, Zenon DEF Worker, AddFinalizer, PatchGateways, AllocateCommunity, EnsureKeys,
     EnsureGatewayDeployments, EnsureInternalDeployments, ResolveEdges, TeardownInternal,
     RemoveFinalizer
<1>3. \A o \in Overlays : Take(o) => WorkerUnchanged
  BY DEF Take, Begin
<1>4. Inform => WorkerUnchanged
  BY DEF Inform, Deliver, DeliverDepls, WorkerUnchanged
<1>. QED
  BY <1>2, <1>3, <1>4, Zenon DEF ReplicaStep, Work, Write, Conflict, NothingToWrite

\* Every step of a replica keeps its state well typed.
LEMMA ReplicaType == ASSUME TypeOK, ReplicaStep PROVE TypeOK'
<1>1. CASE [Next]_vars
  BY <1>1, NextType
<1>2. CASE Conflict
  <2>1. CoreType' /\ UNCHANGED <<depls, gwDepls>> /\ WorkerUnchanged
    BY <1>2, RequeueType DEF Conflict, objVars
  <2>. QED
    BY <2>1, CoreTypeFrame
<1>3. CASE NothingToWrite
  <2>1. Cache \in [Overlays -> NetworkOverlay]
    BY ViewTypes
  <2>2. CoreType' /\ UNCHANGED <<depls, gwDepls>> /\ WorkerUnchanged
    BY <1>3, <2>1 DEF NothingToWrite, objVars, CoreType, TypeOK, Steps
  <2>. QED
    BY <2>2, CoreTypeFrame
<1>. QED
  BY <1>1, <1>2, <1>3, StepOfReplica

\* A write of a well-formed object leaves all of them well formed.
LEMMA LifeWrite ==
    ASSUME TypeOK, TypeOK', LifeInv, NEW c \in Overlays, NEW v, stream' = streamWith(c, v),
           v.finalizer => v.exists, v.deleting => v.finalizer
    PROVE  LifeInv'
  BY PendingWrite DEF LifeInv

\* A patch likewise.
LEMMA LifePatch ==
    ASSUME TypeOK, TypeOK', LifeInv, pc # "idle", NEW v, NEW next, Patch(v, next),
           API[cur].exists => v.exists, v.deleting => v.finalizer
    PROVE  LifeInv'
<1>1. cur \in Overlays
  BY CurType
<1>2. CASE API[cur].exists /\ stream' = streamWith(cur, v)
  BY <1>1, <1>2, LifeWrite
<1>3. CASE UNCHANGED stream
  BY <1>3 DEF LifeInv, API
<1>. QED
  BY <1>2, <1>3 DEF Patch

\* An object with a finalizer exists and one in deletion has it, whatever the
\* operator and the users do.
LEMMA LifeNext == ASSUME TypeOK, LifeInv, [Next]_vars PROVE LifeInv'
<1>0. TypeOK' /\ \A o \in Overlays : API[o] \in NetworkOverlay
  BY NextType, ViewTypes
<1>1. CASE API' = API
  BY <1>1 DEF LifeInv
<1>2. CASE AddFinalizer \/ PatchGateways \/ AllocateCommunity \/ EnsureKeys
  <2>1. pc # "idle"
    BY <1>2 DEF AddFinalizer, PatchGateways, AllocateCommunity, EnsureKeys
  <2>2. CASE UNCHANGED stream
    BY <1>1, <2>2 DEF API
  <2>3. ASSUME NEW v, NEW next, Patch(v, next), v.exists = API[cur].exists,
               v.deleting = API[cur].deleting, API[cur].finalizer => v.finalizer
        PROVE  LifeInv'
    BY <1>0, <2>1, <2>3, CurType, LifePatch, Zenon DEF LifeInv
  <2>4. CASE AddFinalizer
    <3>. DEFINE v == [API[cur] EXCEPT !.finalizer = TRUE]
    <3>1. v.exists = API[cur].exists /\ v.deleting = API[cur].deleting /\ v.finalizer
      BY <1>0, <2>1, CurType DEF NetworkOverlay
    <3>2. Patch(v, "gateways")
      BY <2>4 DEF AddFinalizer
    <3>. HIDE DEF v
    <3>. QED
      BY <2>3, <3>1, <3>2
  <2>5. CASE PatchGateways
    <3>. DEFINE v == IF mem.gateways = buildGateways THEN API[cur]
                     ELSE [API[cur] EXCEPT !.gateways = buildGateways]
    <3>1. /\ v.exists = API[cur].exists /\ v.deleting = API[cur].deleting
          /\ v.finalizer = API[cur].finalizer
      BY <1>0, <2>1, CurType DEF NetworkOverlay
    <3>2. Patch(v, "community") \/ SkipTo("community")
      BY <2>5 DEF PatchGateways
    <3>. HIDE DEF v
    <3>. QED
      BY <2>2, <2>3, <3>1, <3>2 DEF SkipTo
  <2>6. CASE AllocateCommunity
    <3>. DEFINE v == [API[cur] EXCEPT !.community = smallest(freeCommunities(cur))]
    <3>1. /\ v.exists = API[cur].exists /\ v.deleting = API[cur].deleting
          /\ v.finalizer = API[cur].finalizer
      BY <1>0, <2>1, CurType DEF NetworkOverlay
    <3>2. Patch(v, "keys") \/ UNCHANGED stream
      BY <2>6 DEF AllocateCommunity, SkipTo
    <3>. HIDE DEF v
    <3>. QED
      BY <2>2, <2>3, <3>1, <3>2
  <2>7. CASE EnsureKeys
    <3>. DEFINE v == [API[cur] EXCEPT !.key = TRUE]
    <3>1. /\ v.exists = API[cur].exists /\ v.deleting = API[cur].deleting
          /\ v.finalizer = API[cur].finalizer
      BY <1>0, <2>1, CurType DEF NetworkOverlay
    <3>2. Patch(v, "gwDepls") \/ UNCHANGED stream
      BY <2>7 DEF EnsureKeys, SkipTo
    <3>. HIDE DEF v
    <3>. QED
      BY <2>2, <2>3, <3>1, <3>2
  <2>. QED
    BY <1>2, <2>4, <2>5, <2>6, <2>7
<1>3. CASE ResolveEdges
  <2>. DEFINE v == [API[cur] EXCEPT !.edges = resolveEdges(mem.spec)]
  <2>1. cur \in Overlays
    BY <1>3, CurType DEF ResolveEdges
  <2>2. (v.finalizer => v.exists) /\ (v.deleting => v.finalizer)
    BY <1>0, <2>1 DEF NetworkOverlay, LifeInv
  <2>3. UNCHANGED stream \/ stream' = streamWith(cur, v)
    BY <1>3 DEF ResolveEdges
  <2>. HIDE DEF v
  <2>. QED
    BY <1>0, <1>1, <2>1, <2>2, <2>3, LifeWrite DEF API
<1>4. CASE RemoveFinalizer
  <2>. DEFINE v == IF API[cur].deleting THEN Absent(API[cur].uid)
                   ELSE [API[cur] EXCEPT !.finalizer = FALSE]
  <2>1. cur \in Overlays
    BY <1>4, CurType DEF RemoveFinalizer
  <2>2. (v.finalizer => v.exists) /\ (v.deleting => v.finalizer)
    BY <1>0, <2>1 DEF NetworkOverlay, Absent
  <2>3. UNCHANGED stream \/ stream' = streamWith(cur, v)
    BY <1>4 DEF RemoveFinalizer
  <2>. HIDE DEF v
  <2>. QED
    BY <1>0, <1>1, <2>1, <2>2, <2>3, LifeWrite DEF API
<1>5. ASSUME NEW o \in Overlays, Delete(o) PROVE LifeInv'
  <2>. DEFINE v == IF API[o].finalizer THEN [API[o] EXCEPT !.deleting = TRUE]
                   ELSE Absent(API[o].uid)
  <2>1. (v.finalizer => v.exists) /\ (v.deleting => v.finalizer)
    BY <1>0 DEF NetworkOverlay, Absent, LifeInv
  <2>2. stream' = streamWith(o, v)
    BY <1>5 DEF Delete
  <2>. HIDE DEF v
  <2>. QED
    BY <1>0, <2>1, <2>2, LifeWrite
<1>6. ASSUME NEW o \in Overlays, NEW spec \in SUBSET Edges, Apply(o, spec) PROVE LifeInv'
  <2>. DEFINE v == IF API[o].exists THEN [API[o] EXCEPT !.spec = spec]
                   ELSE [Absent(API[o].uid + 1) EXCEPT !.exists = TRUE, !.spec = spec]
  <2>1. (v.finalizer => v.exists) /\ (v.deleting => v.finalizer)
    BY <1>0 DEF NetworkOverlay, Absent, LifeInv
  <2>2. stream' = streamWith(o, v)
    BY <1>6 DEF Apply
  <2>. HIDE DEF v
  <2>. QED
    BY <1>0, <2>1, <2>2, LifeWrite
<1>7. CASE Deliver
  BY <1>1, <1>7, TailFacts, Zenon DEF Deliver, API, TypeOK
<1>8. CASE Restart
  BY <1>1, <1>8 DEF Restart, API
<1>9. CASE UNCHANGED stream
  BY <1>1, <1>9 DEF API
<1>10. CASE Worker
  BY <1>2, <1>3, <1>4, <1>9, <1>10 DEF Worker, EnsureGatewayDeployments, EnsureInternalDeployments,
     EnsureInternal, TeardownInternal
<1>11. CASE Environment
  BY <1>5, <1>6, <1>9, <1>11, Zenon DEF Environment, PodEvent, NodeEvent, objVars
<1>. QED
  BY <1>7, <1>8, <1>9, <1>10, <1>11, Zenon DEF Next, Begin, DeliverDepls, CallFails,
     GatewayFailsHalfway, InternalFailsHalfway, objVars, vars

\* The same of a replica, whose other steps write no overlay.
LEMMA ReplicaLife == ASSUME TypeOK, LifeInv, ReplicaStep PROVE LifeInv'
<1>1. CASE [Next]_vars
  BY <1>1, LifeNext
<1>2. CASE Conflict \/ NothingToWrite
  BY <1>2 DEF Conflict, NothingToWrite, objVars, LifeInv, API
<1>. QED
  BY <1>1, <1>2, StepOfReplica

\* A replica misses no change of an overlay; and none of the gateway Deployments,
\* if the last write of these was its own.
LEMMA ReplicaRest ==
    ASSUME NEW gw \in BOOLEAN, TypeOK, LifeInv, UpToDateOrOwed(gw), gw => seen = gwDepls,
           ReplicaStep
    PROVE  UpToDateOrOwed(gw)' /\ (gw => seen' = gwDepls')
<1>0. TypeOK'
  BY ReplicaType
<1>1. CASE [Next]_vars /\ (seen = gwDepls => seen' = gwDepls')
  BY <1>1, NextRest
<1>2. CASE Conflict
  <2>1. /\ pc # "idle" /\ Requeue /\ UNCHANGED <<stream, nodes, pods>> /\ ~gw
    BY <1>2 DEF Conflict, objVars, WorkerUnchanged
  <2>. QED
    BY <1>0, <2>1, RequeueRest DEF Serves
<1>3. CASE NothingToWrite
  <2>1. /\ pc = "gwDepls" /\ pc' = "internal" /\ UNCHANGED <<stream, nodes, pods, cur, mem, queue>>
        /\ ~gw
    BY <1>3 DEF NothingToWrite, objVars, WorkerUnchanged
  <2>2. PICK c \in Overlays : c = cur
    BY <2>1, CurType
  <2>3. stream' = streamWith(c, API[c]) /\ API' = API /\ buildGateways' = buildGateways
    BY <2>1, NoWrite, HelpersKept DEF API
  <2>4. OnCourse(gw) => OnCourse(gw)'
    BY <2>1, <2>3, Zenon DEF OnCourse, Serves, Working
  <2>5. \A o \in Overlays : Serves(gw, o)'
    BY <2>1 DEF Serves
  <2>. QED
    BY <1>0, <2>1, <2>2, <2>3, <2>4, <2>5, PassKeepsRest
<1>. QED
  BY <1>1, <1>2, <1>3, StepOfReplica

\* Whoever changes the gateway Deployments has them serve every overlay that it
\* will not reconcile again, and is the one to see to them from then on.
LEMMA ReplicaWrites ==
    ASSUME TypeOK, LifeInv, StatusInv, ReplicaStep, gwDepls' # gwDepls
    PROVE  RestInv' /\ seen' = gwDepls'
<1>1. EnsureGatewayDeployments /\ seen' = gwDepls'
  BY StepOfReplica DEF Conflict, NothingToWrite, objVars
<1>2. /\ UNCHANGED <<nodes, pods, stream, queue>>
      /\ gwDepls' = [r \in Roles |-> IF r \in Roles THEN gatewayDeployment(r, Cache) ELSE gwDepls[r]]
  BY <1>1 DEF EnsureGatewayDeployments, WorkerUnchanged
<1>3. \A o \in Overlays : ~pending(o) /\ API[o].finalizer /\ API[o].key => GatewaysServe(o)'
  BY <1>2, GatewayWriteServes
<1>4. API' = API /\ \A o \in Overlays : pending(o)' <=> pending(o)
  BY <1>2 DEF API, pending, Window, Cache
<1>5. UpToDateOrOwed(FALSE)'
  BY ReplicaRest, Zenon DEF StatusInv
<1>6. ASSUME NEW o \in Overlays, API'[o].exists, ~retried(o)'
      PROVE  \/ busy(o)' /\ OnCourse(TRUE)'
             \/ ~busy(o)' /\ StatusIsCurrent(o)' /\ Serves(TRUE, o)'
  <2>1. ~pending(o)
    BY <1>4, <1>6 DEF retried
  <2>2. CASE busy(o)' /\ OnCourse(FALSE)'
    <3>1. pc' = "internal" /\ mem' = mem /\ cur' = cur
      BY <1>1 DEF EnsureGatewayDeployments
    <3>2. cur = o /\ API[o].finalizer /\ API[o].key
      BY <1>4, <2>2, <3>1, Zenon DEF busy, OnCourse, Working
    <3>3. GatewaysServe(o)'
      BY <1>3, <2>1, <3>2
    <3>4. Serves(TRUE, cur)'
      BY <3>1, <3>2, <3>3 DEF Serves, GatewaysServe
    <3>. QED
      BY <2>2, <3>4, Zenon DEF OnCourse
  <2>3. CASE ~busy(o)' /\ StatusIsCurrent(o)'
    <3>1. API[o].finalizer /\ API[o].key
      BY <1>4, <2>3 DEF StatusIsCurrent
    <3>. QED
      BY <1>3, <2>1, <2>3, <3>1, Zenon DEF Serves
  <2>. QED
    BY <1>5, <1>6, <2>2, <2>3, Zenon DEF UpToDateOrOwed
<1>. QED
  BY <1>1, <1>6, Zenon DEF RestInv, UpToDateOrOwed

\* A window that follows another's: what it held stays, and its last content is
\* the other's.
LEMMA FollowFacts ==
    ASSUME NEW S, NEW s \in Seq(S), s # <<>>, NEW t \in Seq(S), t # <<>>
    PROVE  /\ Follow(s, t) \in Seq(S) /\ Follow(s, t) # <<>>
           /\ Follow(s, t)[Len(Follow(s, t))] = t[Len(t)]
           /\ Len(Follow(s, t)) \in Nat /\ Len(s) <= Len(Follow(s, t))
           /\ \A i \in 1..Len(s) : Follow(s, t)[i] = s[i]
<1>1. t[Len(t)] \in S /\ Len(s) \in Nat
  BY EndsAreMembers
<1>2. CASE t[Len(t)] = s[Len(s)]
  BY <1>1, <1>2 DEF Follow
<1>3. CASE t[Len(t)] # s[Len(s)]
  <2>1. Follow(s, t) = Append(s, t[Len(t)])
    BY <1>3 DEF Follow
  <2>. QED
    BY <1>1, <2>1, AppendFacts
<1>. QED
  BY <1>2, <1>3

\* Nothing but the windows of the one that follows changes.
FollowsStep(s, d) ==
    /\ stream' = Follow(stream, s) /\ depls' = Follow(depls, d)
    /\ UNCHANGED <<queue, pc, cur, mem, list>>

\* It stays well typed, and has the API server's content that the other has.
LEMMA FollowType ==
    ASSUME TypeOK, NEW s \in Seq([Overlays -> NetworkOverlay]), s # <<>>,
           NEW d \in Seq(SUBSET Nodes), d # <<>>, FollowsStep(s, d),
           gwDepls' \in [Roles -> GatewayDeployment],
           nodes' \in [Nodes -> NodeStates], pods' \in [Pods -> Pod],
           env' \in 0..MaxEnv, faults' \in 0..MaxFaults
    PROVE  TypeOK' /\ API' = s[Len(s)]
<1>1. stream \in Seq([Overlays -> NetworkOverlay]) /\ stream # <<>>
  BY DEF TypeOK
<1>2. depls \in Seq(SUBSET Nodes) /\ depls # <<>>
  BY DEF TypeOK
<1>3. /\ stream' \in Seq([Overlays -> NetworkOverlay]) /\ stream' # <<>>
      /\ stream'[Len(stream')] = s[Len(s)]
  BY <1>1, FollowFacts DEF FollowsStep
<1>4. depls' \in Seq(SUBSET Nodes) /\ depls' # <<>>
  BY <1>2, FollowFacts DEF FollowsStep
<1>5. /\ queue' \subseteq Overlays /\ pc' \in Steps
      /\ cur' \in Overlays \cup {NoOverlay} /\ (pc' # "idle" => cur' \in Overlays)
      /\ mem' \in NetworkOverlay /\ list' \in [Overlays -> NetworkOverlay]
  BY DEF FollowsStep, TypeOK
<1>. QED
  BY <1>3, <1>4, <1>5 DEF TypeOK, API

\* It owes a Reconcile to every overlay the other has changed: the change is an
\* event under way.
LEMMA FollowRest ==
    ASSUME NEW gw \in BOOLEAN, TypeOK, UpToDateOrOwed(gw), UNCHANGED <<nodes, pods>>,
           gw => UNCHANGED gwDepls, NEW s \in Seq([Overlays -> NetworkOverlay]), s # <<>>,
           NEW d, FollowsStep(s, d)
    PROVE  UpToDateOrOwed(gw)'
<1>1. stream \in Seq([Overlays -> NetworkOverlay]) /\ stream # <<>>
  BY DEF TypeOK
<1>2. /\ stream' \in Seq([Overlays -> NetworkOverlay]) /\ stream' # <<>>
      /\ Len(stream) \in Nat /\ Len(stream) >= 1
      /\ Len(stream') \in Nat /\ Len(stream) <= Len(stream')
      /\ \A i \in 1..Len(stream) : stream'[i] = stream[i]
  BY <1>1, FollowFacts, EndsAreMembers DEF FollowsStep
<1>3. /\ Cache' = Cache /\ Len(stream') \in Window'
      /\ \A i \in Window : i \in Window' /\ stream'[i] = stream[i]
  BY <1>2 DEF Cache, Window
<1>4. \A o \in Overlays : pending(o) => pending(o)'
  BY <1>3 DEF pending
<1>5. ASSUME NEW o \in Overlays, API'[o] # API[o] PROVE pending(o)'
  <2>1. CASE pending(o)
    BY <1>4, <2>1
  <2>2. CASE ~pending(o)
    <3>1. API'[o] # Cache'[o]
      BY <1>3, <1>5, <2>2, NotPending
    <3>. QED
      BY <1>3, <3>1 DEF pending, API
  <2>. QED
    BY <2>1, <2>2
<1>6. UNCHANGED workerVars /\ queue' = queue
  BY DEF FollowsStep, workerVars
<1>. QED
  BY <1>4, <1>5, <1>6, OutsideKeepsRest, Zenon DEF retried

=============================================================================
