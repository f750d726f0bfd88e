--------------------------- MODULE FreshCacheProofs ---------------------------
(***************************************************************************)
(* Proofs about NetworkOverlayController that need caches that are up to   *)
(* date whenever somebody acts (MaxLag = 0, and MaxDeplLag = 0 where it is *)
(* about the internal Deployments), for any overlays, nodes, pods and      *)
(* edges.  The properties fail when the caches lag.                        *)
(***************************************************************************)
EXTENDS NetworkOverlayControllerProofs

-----------------------------------------------------------------------------
(* UniqueCommunities, when the cache is up to date at every step.          *)

\* An object written with its old community, with none, or with one that no
\* other overlay has keeps the communities apart.
LEMMA WriteKeepsUnique ==
    ASSUME TypeOK, UniqueCommunities,
           NEW c \in Overlays, NEW v \in NetworkOverlay, stream' = streamWith(c, v),
           \/ v.community \in {0, API[c].community}
           \/ \A x \in Overlays \ {c} : API[x].community # v.community
    PROVE  UniqueCommunities'
<1>1. API' = [API EXCEPT ![c] = v] /\ API \in [Overlays -> NetworkOverlay]
  BY WriteFacts, ViewTypes
<1>. SUFFICES ASSUME NEW a \in Overlays, NEW b \in Overlays, a # b, API'[a].community # 0
              PROVE  API'[a].community # API'[b].community
  BY DEF UniqueCommunities
<1>2. API[a].community # 0 => API[a].community # API[b].community
  BY DEF UniqueCommunities
<1>3. API[b].community # 0 => API[b].community # API[a].community
  BY DEF UniqueCommunities
<1>4. CASE a = c
  BY <1>1, <1>2, <1>3, <1>4
<1>5. CASE b = c
  BY <1>1, <1>2, <1>3, <1>5
<1>6. CASE a # c /\ b # c
  BY <1>1, <1>2, <1>6
<1>. QED
  BY <1>4, <1>5, <1>6

\* The steps of Reconcile other than AllocateCommunity write the community that
\* is there, or remove the object.
LEMMA WorkerKeepsUnique ==
    ASSUME TypeOK, UniqueCommunities, MaxLag = 0, Worker
    PROVE  UniqueCommunities'
<1>1. CASE UNCHANGED stream
  BY <1>1 DEF UniqueCommunities, API
<1>2. ASSUME NEW v \in NetworkOverlay, cur \in Overlays, stream' = streamWith(cur, v),
             v.community \in {0, API[cur].community}
      PROVE  UniqueCommunities'
  BY <1>2, WriteKeepsUnique
<1>3. pc # "idle"
  BY DEF Worker, AddFinalizer, PatchGateways, AllocateCommunity, EnsureKeys,
         EnsureGatewayDeployments, EnsureInternalDeployments,
         ResolveEdges, TeardownInternal, RemoveFinalizer
<1>4. cur \in Overlays /\ API[cur] \in NetworkOverlay /\ API[cur].uid \in Nat
  BY <1>3, CurType DEF NetworkOverlay
<1>5. CASE AddFinalizer
  <2>. DEFINE v == [API[cur] EXCEPT !.finalizer = TRUE]
  <2>1. v \in NetworkOverlay /\ v.community = API[cur].community
    BY <1>4, Zenon DEF NetworkOverlay
  <2>. QED
    BY <1>1, <1>2, <1>4, <1>5, <2>1, Zenon DEF AddFinalizer, Patch
<1>6. CASE PatchGateways
  <2>. DEFINE v == IF mem.gateways = buildGateways THEN API[cur]
                   ELSE [API[cur] EXCEPT !.gateways = buildGateways]
  <2>1. v \in NetworkOverlay /\ v.community = API[cur].community
    BY <1>4, BuildGatewaysType DEF NetworkOverlay
  <2>2. stream' = streamWith(cur, v) \/ UNCHANGED stream
    BY <1>6 DEF PatchGateways, Patch, SkipTo
  <2>. QED
    BY <1>1, <1>2, <1>4, <2>1, <2>2, Zenon
<1>7. CASE AllocateCommunity
  <2>1. CASE freeCommunities(cur) # {}
            /\ Patch([API[cur] EXCEPT !.community = smallest(freeCommunities(cur))], "keys")
    <3>. DEFINE k == smallest(freeCommunities(cur))
                v == [API[cur] EXCEPT !.community = k]
    <3>1. Cache = API
      <4>1. Len(stream) <= 1 /\ Len(stream) \in Nat /\ Len(stream) # 0
        BY <1>7 DEF AllocateCommunity, CachesAreRecent, TypeOK
      <4>. QED
        BY <4>1 DEF Cache, API
    <3>2. k \in freeCommunities(cur) /\ k \in 1..MaxCommunity
      <4>1. freeCommunities(cur) \in SUBSET Nat
        BY BoundsAssumption DEF freeCommunities
      <4>. QED
        BY <1>4, <2>1, <4>1, SmallestIsMember, FreeCommunityType
    <3>3. \A x \in Overlays \ {cur} : API[x].community # k
      BY <3>1, <3>2 DEF freeCommunities
    <3>4. k \in 0..MaxCommunity
      BY <3>2
    <3>. HIDE DEF k
    <3>5. v \in NetworkOverlay /\ v.community = k
      BY <1>4, <3>4 DEF NetworkOverlay
    <3>6. stream' = streamWith(cur, v) \/ UNCHANGED stream
      BY <2>1 DEF Patch, k
    <3>. HIDE DEF v
    <3>. QED
      BY <1>1, <1>4, <3>3, <3>5, <3>6, WriteKeepsUnique
  <2>. QED
    BY <1>1, <1>7, <2>1 DEF AllocateCommunity, SkipTo
<1>8. CASE EnsureKeys
  <2>. DEFINE v == [API[cur] EXCEPT !.key = TRUE]
  <2>1. v \in NetworkOverlay /\ v.community = API[cur].community
    BY <1>4, Zenon DEF NetworkOverlay
  <2>. QED
    BY <1>1, <1>2, <1>4, <1>8, <2>1, Zenon DEF EnsureKeys, Patch, SkipTo
<1>9. CASE EnsureGatewayDeployments \/ EnsureInternalDeployments \/ TeardownInternal
  BY <1>1, <1>9 DEF EnsureGatewayDeployments, EnsureInternalDeployments,
                    TeardownInternal, EnsureInternal
<1>10. CASE ResolveEdges
  <2>. DEFINE v == [API[cur] EXCEPT !.edges = resolveEdges(mem.spec)]
  <2>1. resolveEdges(mem.spec) \subseteq EdgeStatus
    BY ResolveEdgesType, Zenon DEF TypeOK, NetworkOverlay
  <2>2. v \in NetworkOverlay /\ v.community = API[cur].community
    BY <1>4, <2>1 DEF NetworkOverlay
  <2>3. stream' = streamWith(cur, v) \/ UNCHANGED stream
    BY <1>10 DEF ResolveEdges
  <2>. QED
    BY <1>1, <1>2, <1>4, <2>2, <2>3, Zenon
<1>11. CASE RemoveFinalizer
  <2>. DEFINE v == IF API[cur].deleting THEN Absent(API[cur].uid)
                   ELSE [API[cur] EXCEPT !.finalizer = FALSE]
  <2>1. v \in NetworkOverlay /\ v.community \in {0, API[cur].community}
    BY <1>4, AbsentType, Zenon DEF NetworkOverlay, Absent
  <2>2. stream' = streamWith(cur, v) \/ UNCHANGED stream
    BY <1>11 DEF RemoveFinalizer
  <2>. QED
    BY <1>1, <1>2, <1>4, <2>1, <2>2, Zenon
<1>. QED
  BY <1>5, <1>6, <1>7, <1>8, <1>9, <1>10, <1>11 DEF Worker

\* Users' writes and the movements of the cache.
LEMMA OthersKeepUnique ==
    ASSUME TypeOK, UniqueCommunities, [Next]_vars, ~Worker
    PROVE  UniqueCommunities'
<1>1. CASE UNCHANGED stream
  BY <1>1 DEF UniqueCommunities, API
<1>2. CASE Deliver
  <2>1. API' = API
    BY <1>2, TailFacts DEF Deliver, API, TypeOK
  <2>. QED
    BY <2>1 DEF UniqueCommunities
<1>3. CASE Restart
  <2>1. API' = API
    BY <1>3 DEF Restart, API
  <2>. QED
    BY <2>1 DEF UniqueCommunities
<1>4. ASSUME NEW o \in Overlays, NEW spec \in SUBSET Edges, Apply(o, spec) PROVE UniqueCommunities'
  <2>. DEFINE v == IF API[o].exists THEN [API[o] EXCEPT !.spec = spec]
                   ELSE [Absent(API[o].uid + 1) EXCEPT !.exists = TRUE, !.spec = spec]
  <2>1. API[o] \in NetworkOverlay /\ API[o].uid \in Nat /\ 0 \in 0..MaxCommunity
    BY ViewTypes, BoundsAssumption DEF NetworkOverlay
  <2>2. v \in NetworkOverlay /\ v.community \in {0, API[o].community}
    <3>1. CASE API[o].exists
      BY <2>1, <3>1 DEF NetworkOverlay
    <3>2. CASE ~API[o].exists
      <4>1. v = [uid |-> API[o].uid + 1, exists |-> TRUE, deleting |-> FALSE,
                 finalizer |-> FALSE, spec |-> spec, community |-> 0, key |-> FALSE,
                 gateways |-> {}, edges |-> {}]
        BY <3>2, Zenon DEF Absent
      <4>2. API[o].uid + 1 \in Nat
        BY <2>1
      <4>. HIDE DEF v
      <4>3. v \in NetworkOverlay
        BY <2>1, <4>1, <4>2 DEF NetworkOverlay
      <4>. QED
        BY <4>1, <4>3
    <3>. QED
      BY <3>1, <3>2
  <2>3. stream' = streamWith(o, v)
    BY <1>4 DEF Apply
  <2>. QED
    BY <2>2, <2>3, WriteKeepsUnique, Zenon
<1>5. ASSUME NEW o \in Overlays, Delete(o) PROVE UniqueCommunities'
  <2>. DEFINE v == IF API[o].finalizer THEN [API[o] EXCEPT !.deleting = TRUE]
                   ELSE Absent(API[o].uid)
  <2>1. API[o] \in NetworkOverlay /\ API[o].uid \in Nat
    BY ViewTypes DEF NetworkOverlay
  <2>2. v \in NetworkOverlay /\ v.community \in {0, API[o].community}
    BY <2>1, AbsentType, Zenon DEF NetworkOverlay, Absent
  <2>3. stream' = streamWith(o, v)
    BY <1>5 DEF Delete
  <2>. QED
    BY <2>2, <2>3, WriteKeepsUnique, Zenon
<1>6. CASE \/ \E o \in Overlays : Begin(o)
           \/ DeliverDepls \/ CallFails \/ GatewayFailsHalfway \/ InternalFailsHalfway
           \/ \E p \in Pods, w \in Pod : PodEvent(p, w)
           \/ \E n \in Nodes, w \in NodeStates : NodeEvent(n, w)
           \/ UNCHANGED vars
  <2>1. UNCHANGED stream
    BY <1>6, Zenon DEF Begin, DeliverDepls, CallFails, GatewayFailsHalfway, InternalFailsHalfway, PodEvent, NodeEvent,
                objVars, vars
  <2>. QED
    BY <1>1, <2>1
<1>. QED
  BY <1>2, <1>3, <1>4, <1>5, <1>6 DEF Next, Environment

\* allocateCommunity never hands out a community in use, as long as each
\* Reconcile step lists an up-to-date cache: the first-free choice is sound, and
\* duplicates come from the lag of the informer alone.
THEOREM UniqueCommunitiesWhenFresh == ASSUME MaxLag = 0 PROVE Spec => []UniqueCommunities
<1>1. Init => UniqueCommunities
  <2>. SUFFICES ASSUME Init, NEW o \in Overlays PROVE API[o].community = 0
    BY DEF UniqueCommunities
  <2>1. API = NothingListed
    BY DEF Init, API
  <2>. QED
    BY <2>1 DEF NothingListed, Absent
<1>2. TypeOK /\ UniqueCommunities /\ [Next]_vars => UniqueCommunities'
  BY WorkerKeepsUnique, OthersKeepUnique
<1>. QED
  BY <1>1, <1>2, TypeCorrect, PTL DEF Spec

-----------------------------------------------------------------------------
(* The community and the internal Deployments, when the caches are up to   *)
(* date at every step.                                                     *)

\* Steps of Reconcile that write a status other than the edges.
StatusStep == AddFinalizer \/ PatchGateways \/ AllocateCommunity \/ EnsureKeys

\* What no step but ResolveEdges and RemoveFinalizer does to the objects.
LEMMA ObjectsKept ==
    ASSUME TypeOK, TypeOK', FinalizerInv, [Next]_vars, ~ResolveEdges, ~RemoveFinalizer,
           NEW o \in Overlays
    PROVE  /\ API'[o].edges = API[o].edges
           /\ API[o].finalizer => /\ API'[o].finalizer
                                  /\ API[o].deleting => API'[o].deleting
                                  /\ ~AllocateCommunity => API'[o].community = API[o].community
<1>. DEFINE Kept(v, w) == /\ w.edges = v.edges
                          /\ v.finalizer => /\ w.finalizer
                                            /\ v.deleting => w.deleting
                                            /\ ~AllocateCommunity => w.community = v.community
<1>. SUFFICES Kept(API[o], API'[o])
  OBVIOUS
<1>1. ASSUME API' = API PROVE Kept(API[o], API'[o])
  BY <1>1
<1>2. ASSUME NEW c \in Overlays, NEW v, stream' = streamWith(c, v), Kept(API[c], v)
      PROVE  Kept(API[o], API'[o])
  <2>1. API'[c] = v /\ \A x \in Overlays \ {c} : API'[x] = API[x]
    BY <1>2, PendingWrite, Zenon
  <2>2. CASE o = c
    BY <1>2, <2>1, <2>2
  <2>3. CASE o # c
    BY <2>1, <2>3
  <2>. QED
    BY <2>2, <2>3
<1>3. CASE UNCHANGED stream
  BY <1>1, <1>3 DEF API
<1>4. CASE Deliver
  <2>1. API' = API
    BY <1>4, TailFacts, Zenon DEF Deliver, API, TypeOK
  <2>. QED
    BY <1>1, <2>1
<1>5. CASE Restart
  <2>1. API' = API
    BY <1>5 DEF Restart, API
  <2>. QED
    BY <1>1, <2>1
<1>6. ASSUME NEW c \in Overlays, NEW spec \in SUBSET Edges, Apply(c, spec)
      PROVE  Kept(API[o], API'[o])
  <2>. DEFINE v == IF API[c].exists THEN [API[c] EXCEPT !.spec = spec]
                   ELSE [Absent(API[c].uid + 1) EXCEPT !.exists = TRUE, !.spec = spec]
  <2>1. API[c] \in NetworkOverlay /\ WellFormed(API[c])
    BY APIFacts
  <2>2. Kept(API[c], v)
    BY <2>1 DEF NetworkOverlay, Absent, WellFormed
  <2>3. stream' = streamWith(c, v)
    BY <1>6 DEF Apply
  <2>. HIDE DEF v, Kept
  <2>. QED
    BY <1>2, <2>2, <2>3
<1>7. ASSUME NEW c \in Overlays, Delete(c) PROVE Kept(API[o], API'[o])
  <2>. DEFINE v == IF API[c].finalizer THEN [API[c] EXCEPT !.deleting = TRUE]
                   ELSE Absent(API[c].uid)
  <2>1. API[c] \in NetworkOverlay /\ WellFormed(API[c])
    BY APIFacts
  <2>2. Kept(API[c], v)
    BY <2>1 DEF NetworkOverlay, Absent, WellFormed
  <2>3. stream' = streamWith(c, v)
    BY <1>7 DEF Delete
  <2>. HIDE DEF v, Kept
  <2>. QED
    BY <1>2, <2>2, <2>3
<1>8. CASE StatusStep
  <2>1. cur \in Overlays /\ API[cur] \in NetworkOverlay
    BY <1>8, CurType DEF StatusStep, AddFinalizer, PatchGateways, AllocateCommunity, EnsureKeys
  <2>2. \A v : stream' = streamWith(cur, v) /\ Kept(API[cur], v) => Kept(API[o], API'[o])
    <3>. HIDE DEF Kept
    <3>. QED
      BY <1>2, <2>1, Zenon
  <2>3. CASE AddFinalizer
    <3>. DEFINE v == [API[cur] EXCEPT !.finalizer = TRUE]
    <3>1. Kept(API[cur], v)
      BY <2>1 DEF NetworkOverlay
    <3>2. stream' = streamWith(cur, v) \/ UNCHANGED stream
      BY <2>3 DEF AddFinalizer, Patch
    <3>. HIDE DEF v, Kept
    <3>. QED
      BY <1>3, <2>2, <3>1, <3>2, Zenon
  <2>4. CASE PatchGateways
    <3>. DEFINE v == IF mem.gateways = buildGateways THEN API[cur]
                     ELSE [API[cur] EXCEPT !.gateways = buildGateways]
    <3>1. Kept(API[cur], v)
      BY <2>1 DEF NetworkOverlay
    <3>2. stream' = streamWith(cur, v) \/ UNCHANGED stream
      BY <2>4 DEF PatchGateways, Patch, SkipTo
    <3>. HIDE DEF v, Kept
    <3>. QED
      BY <1>3, <2>2, <3>1, <3>2
  <2>5. CASE AllocateCommunity
    <3>. DEFINE v == [API[cur] EXCEPT !.community = smallest(freeCommunities(cur))]
    <3>1. Kept(API[cur], v)
      BY <2>1, <2>5 DEF NetworkOverlay
    <3>2. stream' = streamWith(cur, v) \/ UNCHANGED stream
      BY <2>5 DEF AllocateCommunity, Patch, SkipTo
    <3>. HIDE DEF v, Kept
    <3>. QED
      BY <1>3, <2>2, <3>1, <3>2
  <2>6. CASE EnsureKeys
    <3>. DEFINE v == [API[cur] EXCEPT !.key = TRUE]
    <3>1. Kept(API[cur], v)
      BY <2>1 DEF NetworkOverlay
    <3>2. stream' = streamWith(cur, v) \/ UNCHANGED stream
      BY <2>6 DEF EnsureKeys, Patch, SkipTo
    <3>. HIDE DEF v, Kept
    <3>. QED
      BY <1>3, <2>2, <3>1, <3>2
  <2>. QED
    BY <1>8, <2>3, <2>4, <2>5, <2>6, Zenon DEF StatusStep
<1>9. CASE \/ \E c \in Overlays : Begin(c)
           \/ EnsureGatewayDeployments \/ EnsureInternalDeployments \/ TeardownInternal
           \/ DeliverDepls \/ CallFails \/ GatewayFailsHalfway \/ InternalFailsHalfway
           \/ \E p \in Pods, w \in Pod : PodEvent(p, w)
           \/ \E n \in Nodes, w \in NodeStates : NodeEvent(n, w)
           \/ UNCHANGED vars
  <2>1. UNCHANGED stream
    BY <1>9, Zenon DEF Begin, EnsureGatewayDeployments, EnsureInternalDeployments, TeardownInternal,
                EnsureInternal, DeliverDepls, CallFails, GatewayFailsHalfway,
                InternalFailsHalfway, PodEvent, NodeEvent, objVars, vars
  <2>. QED
    BY <1>3, <2>1
<1>. HIDE DEF Kept
<1>. QED
  BY <1>4, <1>5, <1>6, <1>7, <1>8, <1>9, Zenon DEF Next, Worker, Environment, StatusStep

\* With no lag allowed, a step that reads the caches finds what there is.
LEMMA FreshCache ==
    ASSUME TypeOK, MaxLag = 0, CachesAreRecent
    PROVE  Cache = API /\ \A o \in Overlays : ~pending(o)
<1>1. Len(stream) = 1
  <2>1. Len(stream) <= 1 /\ Len(stream) \in Nat /\ Len(stream) # 0
    BY DEF CachesAreRecent, TypeOK
  <2>. QED
    BY <2>1
<1>. QED
  BY <1>1 DEF Cache, API, pending, Window

\* The local copy of a Reconcile that has not allocated yet has the community
\* of the object.
CommunityKnown == pc \in {"gateways", "community"} => mem.community = API[cur].community

\* The text of CommunityStable, as an action.
KeepsCommunity ==
    \A o \in Overlays :
        API[o].community # 0 /\ API'[o].exists => API'[o].community = API[o].community

\* Reconcile allocates for an object without a community only.
LEMMA NextKeepsCommunity ==
    TypeOK /\ FinalizerInv /\ CommunityKnown /\ [Next]_vars => KeepsCommunity
<1>. SUFFICES ASSUME TypeOK, FinalizerInv, CommunityKnown, [Next]_vars,
                     NEW o \in Overlays, API[o].community # 0, API'[o].exists
              PROVE  API'[o].community = API[o].community
  BY DEF KeepsCommunity
<1>1. TypeOK' /\ API[o].finalizer
  BY NextType, APIFacts, Zenon DEF WellFormed
<1>2. CASE AllocateCommunity
  <2>1. cur \in Overlays /\ pc = "community" /\ mem.community = API[cur].community
    BY <1>2, CurType DEF AllocateCommunity, CommunityKnown
  <2>2. \/ UNCHANGED stream
        \/ API[cur].community = 0 /\ \E v : stream' = streamWith(cur, v)
    BY <1>2, <2>1 DEF AllocateCommunity, Patch, SkipTo
  <2>3. CASE UNCHANGED stream
    BY <2>3 DEF API
  <2>4. CASE API[cur].community = 0 /\ \E v : stream' = streamWith(cur, v)
    <3>1. PICK c \in Overlays : c = cur
      BY <2>1
    <3>2. \A x \in Overlays \ {c} : API'[x] = API[x]
      BY <1>1, <2>4, <3>1, PendingWrite
    <3>. QED
      BY <2>4, <3>1, <3>2
  <2>. QED
    BY <2>2, <2>3, <2>4
<1>3. CASE ResolveEdges
  <2>1. cur \in Overlays /\ API[cur] \in NetworkOverlay
    BY <1>3, CurType DEF ResolveEdges
  <2>2. PICK c \in Overlays : c = cur
    BY <2>1
  <2>. DEFINE v == [API[c] EXCEPT !.edges = resolveEdges(mem.spec)]
  <2>3. v.community = API[c].community
    BY <2>1, <2>2 DEF NetworkOverlay
  <2>4. UNCHANGED stream \/ stream' = streamWith(c, v)
    BY <1>3, <2>2 DEF ResolveEdges
  <2>. HIDE DEF v
  <2>5. CASE UNCHANGED stream
    BY <2>5 DEF API
  <2>6. CASE stream' = streamWith(c, v)
    <3>1. API'[c] = v /\ \A x \in Overlays \ {c} : API'[x] = API[x]
      BY <1>1, <2>6, PendingWrite
    <3>. QED
      BY <2>3, <3>1
  <2>. QED
    BY <2>4, <2>5, <2>6
<1>4. CASE RemoveFinalizer
  <2>1. cur \in Overlays /\ API[cur] \in NetworkOverlay
    BY <1>4, CurType DEF RemoveFinalizer
  <2>2. PICK c \in Overlays : c = cur
    BY <2>1
  <2>. DEFINE v == IF API[c].deleting THEN Absent(API[c].uid)
                   ELSE [API[c] EXCEPT !.finalizer = FALSE]
  <2>3. v.exists => v.community = API[c].community
    BY <2>1, <2>2 DEF NetworkOverlay, Absent
  <2>4. UNCHANGED stream \/ stream' = streamWith(c, v)
    BY <1>4, <2>2 DEF RemoveFinalizer
  <2>. HIDE DEF v
  <2>5. CASE UNCHANGED stream
    BY <2>5 DEF API
  <2>6. CASE stream' = streamWith(c, v)
    <3>1. API'[c] = v /\ \A x \in Overlays \ {c} : API'[x] = API[x]
      BY <1>1, <2>6, PendingWrite
    <3>. QED
      BY <2>3, <3>1
  <2>. QED
    BY <2>4, <2>5, <2>6
<1>. QED
  BY <1>1, <1>2, <1>3, <1>4, ObjectsKept

\* Only the read of the cache that starts a Reconcile needs it to be recent.
LEMMA NextCommunityKnown ==
    ASSUME TypeOK, FinalizerInv, CommunityKnown, [Next]_vars, MaxLag = 0
    PROVE  CommunityKnown'
<1>. SUFFICES ASSUME pc' \in {"gateways", "community"}
              PROVE  mem'.community = API'[cur'].community
  BY DEF CommunityKnown
<1>1. TypeOK'
  BY NextType
<1>2. ASSUME NEW c \in Overlays, Begin(c) PROVE mem'.community = API'[cur'].community
  <2>1. Cache = API
    BY <1>2, FreshCache DEF Begin
  <2>2. API' = API /\ mem' = Cache[c] /\ cur' = c
    BY <1>2 DEF Begin, workerVars, objVars, API
  <2>. QED
    BY <2>1, <2>2
<1>3. CASE StatusStep
  <2>1. PICK c \in Overlays : c = cur /\ API[c] \in NetworkOverlay
    BY <1>3, CurType DEF StatusStep, AddFinalizer, PatchGateways, AllocateCommunity, EnsureKeys
  <2>2. \/ cur' = cur /\ mem' = mem /\ UNCHANGED stream /\ pc \in {"gateways", "community"}
        \/ cur' = cur /\ stream' = streamWith(c, mem')
    BY <1>3, <2>1, Zenon DEF StatusStep, AddFinalizer, PatchGateways, AllocateCommunity, EnsureKeys,
                      Patch, SkipTo, Requeue, Stop
  <2>3. CASE cur' = cur /\ mem' = mem /\ UNCHANGED stream /\ pc \in {"gateways", "community"}
    BY <2>3 DEF API, CommunityKnown
  <2>4. CASE cur' = cur /\ stream' = streamWith(c, mem')
    <3>1. PICK v : v = mem'
      OBVIOUS
    <3>2. API'[c] = v
      BY <1>1, <2>4, <3>1, PendingWrite
    <3>. QED
      BY <2>1, <2>4, <3>1, <3>2
  <2>. QED
    BY <2>2, <2>3, <2>4
<1>4. CASE UNCHANGED workerVars /\ ~StatusStep /\ ~(\E c \in Overlays : Begin(c))
  <2>1. pc \in {"gateways", "community"} /\ mem' = mem /\ cur' = cur
    BY <1>4 DEF workerVars
  <2>2. PICK c \in Overlays : c = cur
    BY <2>1, CurType
  <2>3. API[c].finalizer
    BY <2>1, <2>2 DEF FinalizerInv, WorkerKnows
  <2>4. ~ResolveEdges /\ ~RemoveFinalizer /\ ~AllocateCommunity
    BY <1>4, <2>1 DEF ResolveEdges, RemoveFinalizer, StatusStep
  <2>5. API'[c].community = API[c].community
    BY <1>1, <2>3, <2>4, ObjectsKept, Zenon
  <2>. QED
    BY <2>1, <2>2, <2>5 DEF CommunityKnown
<1>5. CASE \/ EnsureGatewayDeployments \/ EnsureInternalDeployments \/ ResolveEdges
           \/ TeardownInternal \/ RemoveFinalizer
           \/ CallFails \/ GatewayFailsHalfway \/ InternalFailsHalfway \/ Restart
  <2>1. pc' \notin {"gateways", "community"}
    BY <1>5 DEF EnsureGatewayDeployments, EnsureInternalDeployments, ResolveEdges,
                TeardownInternal, RemoveFinalizer, EnsureInternal, Requeue, Stop,
                CallFails, GatewayFailsHalfway, InternalFailsHalfway, Restart
  <2>. QED
    BY <2>1
<1>6. CASE Deliver \/ DeliverDepls \/ Environment \/ UNCHANGED vars
  <2>1. UNCHANGED workerVars
    BY <1>6, Zenon DEF Deliver, DeliverDepls, Environment, Delete, Apply, PodEvent, NodeEvent,
                Happens, vars, workerVars
  <2>. QED
    BY <1>2, <1>3, <1>4, <2>1
<1>. QED
  BY <1>2, <1>3, <1>5, <1>6 DEF Next, Worker, StatusStep

\* CommunityStable, as long as the cached overlay that a Reconcile starts from
\* is the present one: allocateCommunity then never replaces a community.
THEOREM CommunityStableWhenFresh == ASSUME MaxLag = 0 PROVE Spec => CommunityStable
<1>1. Init => CommunityKnown
  BY DEF Init, CommunityKnown
<1>2. TypeOK /\ FinalizerInv /\ CommunityKnown /\ [Next]_vars => CommunityKnown'
  BY NextCommunityKnown
<1>. QED
  BY <1>1, <1>2, NextKeepsCommunity, TypeCorrect, FinalizerInvHolds, PTL
     DEF Spec, CommunityStable, KeepsCommunity

\* A key that waits for its Reconcile waits until the worker takes it.
LEMMA RetriedKept ==
    ASSUME TypeOK, TypeOK', [Next]_vars, ~Restart, NEW o \in Overlays, retried(o), ~Begin(o)
    PROVE  retried(o)'
<1>1. ASSUME UNCHANGED stream, queue \subseteq queue' PROVE retried(o)'
  <2>1. pending(o)' <=> pending(o)
    BY <1>1 DEF pending, Window, Cache
  <2>. QED
    BY <1>1, <2>1 DEF retried
<1>2. ASSUME NEW c \in Overlays, NEW v, stream' = streamWith(c, v), queue \subseteq queue'
      PROVE  retried(o)'
  BY <1>2, PendingWrite, Zenon DEF retried
<1>3. ASSUME NEW c \in Overlays, Begin(c) PROVE retried(o)'
  <2>1. c # o /\ queue' = queue \ {c} /\ UNCHANGED stream
    BY <1>3 DEF Begin, objVars
  <2>2. pending(o)' <=> pending(o)
    BY <2>1 DEF pending, Window, Cache
  <2>. QED
    BY <2>1, <2>2 DEF retried
<1>4. CASE Worker
  <2>1. cur \in Overlays
    BY <1>4, CurType DEF Worker, AddFinalizer, PatchGateways, AllocateCommunity, EnsureKeys,
         EnsureGatewayDeployments, EnsureInternalDeployments, ResolveEdges, TeardownInternal,
         RemoveFinalizer
  <2>2. queue \subseteq queue'
    BY <1>4 DEF Worker, AddFinalizer, PatchGateways, AllocateCommunity, EnsureKeys,
         EnsureGatewayDeployments, EnsureInternalDeployments, ResolveEdges, TeardownInternal,
         RemoveFinalizer, EnsureInternal, Patch, SkipTo, Requeue
  <2>3. UNCHANGED stream \/ \E v : stream' = streamWith(cur, v)
    BY <1>4 DEF Worker, AddFinalizer, PatchGateways, AllocateCommunity, EnsureKeys,
         EnsureGatewayDeployments, EnsureInternalDeployments, ResolveEdges, TeardownInternal,
         RemoveFinalizer, EnsureInternal, Patch, SkipTo
  <2>. QED
    BY <1>1, <1>2, <2>1, <2>2, <2>3
<1>5. CASE Deliver
  BY <1>5, PendingDeliver DEF retried, Deliver
<1>6. CASE Environment
  <2>1. queue \subseteq queue'
    BY <1>6, Zenon DEF Environment, Delete, Apply, PodEvent, NodeEvent, enqueueAll
  <2>2. UNCHANGED stream \/ \E c \in Overlays : \E v : stream' = streamWith(c, v)
    BY <1>6, Zenon DEF Environment, Delete, Apply, PodEvent, NodeEvent, objVars
  <2>. QED
    BY <1>1, <1>2, <2>1, <2>2
<1>7. CASE DeliverDepls \/ CallFails \/ GatewayFailsHalfway \/ InternalFailsHalfway \/ UNCHANGED vars
  <2>1. UNCHANGED stream /\ queue \subseteq queue'
    BY <1>7, Zenon DEF DeliverDepls, CallFails, GatewayFailsHalfway, InternalFailsHalfway, Requeue,
                objVars, vars
  <2>. QED
    BY <1>1, <2>1
<1>. QED
  BY <1>3, <1>4, <1>5, <1>6, <1>7 DEF Next

\* The overlays whose edges the internal Deployments are for.
served == IF pc = "delFinalizer" THEN Overlays \ {cur} ELSE Overlays

\* An overlay that cannot vanish and whose Reconcile will write the internal
\* Deployments anew.
covered(o) ==
    /\ API[o].finalizer
    /\ \/ retried(o)
       \/ cur = o /\ pc \in {"gateways", "community", "keys", "gwDepls", "internal", "delInternal"}

\* The internal Deployments fit the edges in the status of all overlays but
\* the one about to be removed, or will be written again.
DeploymentsFollow == InternalDepls = targetNodes(API, served) \/ \E o \in served : covered(o)

\* What Reconcile relies on in handleDeletion, and between its List and the
\* writes of the internal Deployments.
DeploymentInv ==
    /\ pc \in {"delInternal", "delFinalizer"} => API[cur].deleting
    /\ pc = "delFinalizer" => InternalDepls \subseteq readyNodes(API, Overlays \ {cur})
    /\ pc = "internal" => \A o \in Overlays : list[o].edges = API[o].edges

\* The nodes of the Ready edges depend on the edges alone.
LEMMA ReadyNodesFacts ==
    ASSUME NEW a, NEW b, NEW names, \A o \in names : a[o].edges = b[o].edges
    PROVE  readyNodes(a, names) = readyNodes(b, names)
<1>1. {a[o].edges : o \in names} = {b[o].edges : o \in names}
  OBVIOUS
<1>. QED
  BY <1>1 DEF readyNodes

\* What is written is what the API server then has.
LEMMA DeplsWritten ==
    ASSUME TypeOK, NEW D \in SUBSET Nodes, depls' = deplsWith(D)
    PROVE  InternalDepls' = D
<1>1. CASE D = InternalDepls
  BY <1>1 DEF deplsWith, InternalDepls
<1>2. CASE D # InternalDepls
  BY <1>2, AppendFacts DEF deplsWith, InternalDepls, TypeOK
<1>. QED
  BY <1>1, <1>2

\* EnsureInternalDeployments with an up-to-date cache: there are no conflicts,
\* and the Deployments are then exactly those of the target nodes.
LEMMA FreshEnsureInternal ==
    ASSUME TypeOK, MaxDeplLag = 0, NEW T \in SUBSET Nodes, NEW next, EnsureInternal(T, next)
    PROVE  InternalDepls' = T /\ pc' = next /\ UNCHANGED <<cur, mem, queue, stream, nodes, pods>>
<1>1. CachedDepls = InternalDepls
  <2>1. Len(depls) <= 1 /\ Len(depls) \in Nat /\ Len(depls) # 0
    BY DEF EnsureInternal, CachesAreRecent, TypeOK
  <2>2. Len(depls) = 1
    BY <2>1
  <2>. QED
    BY <2>2 DEF CachedDepls, InternalDepls
<1>2. deplConflicts(T) = {}
  BY <1>1 DEF deplConflicts
<1>3. (InternalDepls \ deplOrphans(T)) \cup T = T
  BY <1>1 DEF deplOrphans
<1>4. depls' = deplsWith(T) /\ pc' = next /\ UNCHANGED <<cur, mem, queue, stream, nodes, pods>>
  BY <1>2, <1>3 DEF EnsureInternal, WorkerUnchanged
<1>. QED
  BY <1>4, DeplsWritten

\* Steps that leave the internal Deployments alone.
LEMMA DeplsKept ==
    ASSUME TypeOK, [Next]_vars, ~EnsureInternalDeployments, ~TeardownInternal, ~InternalFailsHalfway
    PROVE  InternalDepls' = InternalDepls
<1>1. CASE UNCHANGED depls
  BY <1>1 DEF InternalDepls
<1>2. CASE DeliverDepls
  BY <1>2, TailFacts DEF DeliverDepls, InternalDepls, TypeOK
<1>3. CASE Restart
  BY <1>3 DEF Restart, InternalDepls
<1>4. UNCHANGED depls \/ DeliverDepls \/ Restart
  BY Zenon DEF Next, Worker, Begin, AddFinalizer, PatchGateways, AllocateCommunity, EnsureKeys,
         EnsureGatewayDeployments, ResolveEdges, RemoveFinalizer, Deliver, CallFails,
         GatewayFailsHalfway, Environment, Delete, Apply, PodEvent, NodeEvent, objVars, vars
<1>. QED
  BY <1>1, <1>2, <1>3, <1>4

\* The target of a teardown, and what is left then.
LEMMA FreshTeardown ==
    ASSUME TypeOK, MaxLag = 0, MaxDeplLag = 0, TeardownInternal
    PROVE  /\ InternalDepls' = targetNodes(API, Overlays \ {cur})
           /\ pc' = "delFinalizer" /\ UNCHANGED <<cur, mem, queue, stream, nodes, pods>>
<1>1. Cache = API
  BY FreshCache DEF TeardownInternal, EnsureInternal
<1>2. targetNodes(API, Overlays \ {cur}) \in SUBSET Nodes
  BY ViewTypes, TargetNodesType
<1>3. EnsureInternal(targetNodes(API, Overlays \ {cur}), "delFinalizer")
  BY <1>1 DEF TeardownInternal
<1>. QED
  BY <1>2, <1>3, FreshEnsureInternal, Zenon

\* The same for the target that Reconcile computed from its List.
LEMMA FreshInternal ==
    ASSUME TypeOK, DeploymentInv, MaxDeplLag = 0, EnsureInternalDeployments
    PROVE  /\ InternalDepls' = targetNodes(API, Overlays)
           /\ pc' = "edges" /\ UNCHANGED <<cur, mem, queue, stream, nodes, pods>>
<1>1. \A o \in Overlays : list[o].edges = API[o].edges
  BY DEF EnsureInternalDeployments, DeploymentInv
<1>2. readyNodes(list, Overlays) = readyNodes(API, Overlays)
  BY <1>1, ReadyNodesFacts
<1>3. targetNodes(list, Overlays) = targetNodes(API, Overlays)
  BY <1>2 DEF targetNodes
<1>4. targetNodes(API, Overlays) \in SUBSET Nodes
  BY ViewTypes, TargetNodesType
<1>5. EnsureInternal(targetNodes(API, Overlays), "edges")
  BY <1>3 DEF EnsureInternalDeployments
<1>. QED
  BY <1>4, <1>5, FreshEnsureInternal

\* Between two steps of a Reconcile nobody else can take away what it relies on.
LEMMA NextDeploymentInv ==
    ASSUME TypeOK, FinalizerInv, DeploymentInv, [Next]_vars, MaxLag = 0, MaxDeplLag = 0
    PROVE  DeploymentInv'
<1>0. TypeOK'
  BY NextType
<1>1. CASE UNCHANGED workerVars
  <2>1. ~ResolveEdges /\ ~RemoveFinalizer /\ ~EnsureInternalDeployments /\ ~TeardownInternal
        /\ ~InternalFailsHalfway
    BY <1>1 DEF ResolveEdges, RemoveFinalizer, EnsureInternalDeployments, TeardownInternal,
                InternalFailsHalfway, EnsureInternal, Requeue, Stop, workerVars
  <2>2. InternalDepls' = InternalDepls
    BY <2>1, DeplsKept
  <2>3. \A o \in Overlays : API'[o].edges = API[o].edges
    BY <1>0, <2>1, ObjectsKept
  <2>4. readyNodes(API', Overlays \ {cur}) = readyNodes(API, Overlays \ {cur})
    BY <2>3, ReadyNodesFacts
  <2>5. pc' = pc /\ cur' = cur /\ list' = list
    BY <1>1 DEF workerVars
  <2>6. pc \in {"delInternal", "delFinalizer"} => API'[cur].deleting
    <3>. SUFFICES ASSUME pc \in {"delInternal", "delFinalizer"} PROVE API'[cur].deleting
      OBVIOUS
    <3>1. cur \in Overlays /\ API[cur].deleting
      BY CurType DEF DeploymentInv
    <3>2. API[cur].finalizer
      BY <3>1, APIFacts DEF WellFormed
    <3>. QED
      BY <1>0, <2>1, <3>1, <3>2, ObjectsKept
  <2>7. readyNodes(API, Overlays \ {cur})' = readyNodes(API', Overlays \ {cur'})
    BY DEF readyNodes
  <2>. QED
    BY <2>2, <2>3, <2>4, <2>5, <2>6, <2>7, Zenon DEF DeploymentInv
<1>2. ASSUME NEW c \in Overlays, Begin(c), ~UNCHANGED workerVars PROVE DeploymentInv'
  <2>1. Cache = API
    BY <1>2, FreshCache DEF Begin
  <2>2. API' = API /\ cur' = c
    BY <1>2 DEF Begin, objVars, API
  <2>3. pc' = IF Cache[c].deleting THEN "delInternal"
              ELSE IF Cache[c].finalizer THEN "gateways" ELSE "finalizer"
    BY <1>2 DEF Begin
  <2>. QED
    BY <2>1, <2>2, <2>3, Zenon DEF DeploymentInv
<1>3. CASE EnsureGatewayDeployments
  <2>1. Cache = API
    BY <1>3, FreshCache DEF EnsureGatewayDeployments
  <2>2. API' = API /\ pc' = "internal" /\ list' = Cache
    BY <1>3 DEF EnsureGatewayDeployments, API
  <2>. QED
    BY <2>1, <2>2 DEF DeploymentInv
<1>4. CASE TeardownInternal
  <2>1. /\ InternalDepls' = targetNodes(API, Overlays \ {cur})
        /\ pc' = "delFinalizer" /\ UNCHANGED <<cur, stream>>
    BY <1>4, FreshTeardown
  <2>2. API' = API
    BY <2>1 DEF API
  <2>3. API[cur].deleting
    BY <1>4, Zenon DEF TeardownInternal, DeploymentInv
  <2>4. readyNodes(API, Overlays \ {cur})' = readyNodes(API, Overlays \ {cur})
    BY <2>1, <2>2 DEF readyNodes
  <2>. QED
    BY <2>1, <2>2, <2>3, <2>4 DEF DeploymentInv, targetNodes
<1>5. CASE \/ StatusStep \/ EnsureInternalDeployments \/ ResolveEdges \/ RemoveFinalizer
           \/ CallFails \/ GatewayFailsHalfway \/ InternalFailsHalfway \/ Restart
  <2>1. pc' \notin {"delInternal", "delFinalizer", "internal"}
    BY <1>5 DEF StatusStep, AddFinalizer, PatchGateways, AllocateCommunity, EnsureKeys,
                EnsureInternalDeployments, ResolveEdges, RemoveFinalizer, EnsureInternal,
                Patch, SkipTo, Requeue, Stop,
                CallFails, GatewayFailsHalfway, InternalFailsHalfway, Restart
  <2>. QED
    BY <2>1 DEF DeploymentInv
<1>6. CASE Deliver \/ DeliverDepls \/ Environment \/ UNCHANGED vars
  <2>1. UNCHANGED workerVars
    BY <1>6, Zenon DEF Deliver, DeliverDepls, Environment, Delete, Apply, PodEvent, NodeEvent,
                Happens, vars, workerVars
  <2>. QED
    BY <1>1, <2>1
<1>. QED
  BY <1>1, <1>2, <1>3, <1>4, <1>5, <1>6 DEF Next, Worker, StatusStep

\* What the API server holds is well formed, before a step and after it.
LEMMA APIIsWellFormed == TypeOK /\ FinalizerInv => \A c \in Overlays : WellFormed(API[c])
  BY APIFacts

LEMMA NextAPIIsWellFormed ==
    (TypeOK /\ FinalizerInv => \A c \in Overlays : WellFormed(API[c]))'
  BY APIIsWellFormed, PTL

\* The text of TeardownBeforeRemoval, as an action.
TearsDownFirst ==
    \A o \in Overlays :
        API[o].exists /\ ~API'[o].exists =>
            (readyNodes(API, {o}) \ readyNodes(API, Overlays \ {o})) \cap InternalDepls' = {}

\* The finalizer keeps an overlay with edges until handleDeletion has torn down.
LEMMA NextTearsDownFirst ==
    TypeOK /\ FinalizerInv /\ DeploymentInv /\ [Next]_vars => TearsDownFirst
<1>. SUFFICES ASSUME TypeOK, FinalizerInv, DeploymentInv, [Next]_vars,
                     NEW o \in Overlays, API[o].exists, ~API'[o].exists
              PROVE  (readyNodes(API, {o}) \ readyNodes(API, Overlays \ {o})) \cap InternalDepls' = {}
  BY DEF TearsDownFirst
<1>1. TypeOK' /\ FinalizerInv'
  BY NextType, NextFinalizerInv
<1>2. CASE RemoveFinalizer
  <2>1. PICK c \in Overlays : c = cur
    BY <1>2, CurType DEF RemoveFinalizer
  <2>2. o = c
    <3>1. UNCHANGED stream \/ \E v : stream' = streamWith(c, v)
      BY <1>2, <2>1 DEF RemoveFinalizer
    <3>2. CASE UNCHANGED stream
      BY <3>2 DEF API
    <3>3. CASE \E v : stream' = streamWith(c, v)
      BY <1>1, <3>3, PendingWrite
    <3>. QED
      BY <3>1, <3>2, <3>3
  <2>3. InternalDepls' = InternalDepls
    BY <1>2 DEF RemoveFinalizer, InternalDepls
  <2>4. InternalDepls \subseteq readyNodes(API, Overlays \ {cur})
    BY <1>2 DEF RemoveFinalizer, DeploymentInv
  <2>. QED
    BY <2>1, <2>2, <2>3, <2>4
<1>3. CASE ResolveEdges
  <2>1. PICK c \in Overlays : c = cur /\ API[c] \in NetworkOverlay
    BY <1>3, CurType DEF ResolveEdges
  <2>2. UNCHANGED stream \/ stream' = streamWith(c, [API[c] EXCEPT !.edges = resolveEdges(mem.spec)])
    BY <1>3, <2>1 DEF ResolveEdges
  <2>. DEFINE v == [API[c] EXCEPT !.edges = resolveEdges(mem.spec)]
  <2>3. v.exists = API[c].exists
    BY <2>1 DEF NetworkOverlay
  <2>. HIDE DEF v
  <2>4. CASE UNCHANGED stream
    BY <2>4 DEF API
  <2>5. CASE stream' = streamWith(c, v)
    <3>1. API'[c] = v /\ \A x \in Overlays \ {c} : API'[x] = API[x]
      BY <1>1, <2>5, PendingWrite
    <3>. QED
      BY <2>3, <3>1
  <2>. QED
    BY <2>2, <2>4, <2>5 DEF v
<1>4. CASE ~RemoveFinalizer /\ ~ResolveEdges
  <2>1. ~API'[o].finalizer
    BY <1>1, NextAPIIsWellFormed, Zenon DEF WellFormed
  <2>2. ~API[o].finalizer
    BY <1>1, <1>4, <2>1, ObjectsKept
  <2>3. API[o].edges = {}
    BY <2>2, APIFacts, Zenon DEF WellFormed
  <2>4. readyNodes(API, {o}) = {}
    BY <2>3 DEF readyNodes
  <2>. QED
    BY <2>4
<1>. QED
  BY <1>2, <1>3, <1>4

\* Nothing is listed at first.
LEMMA InitDeploymentInv == Init => DeploymentInv
  BY Zenon DEF Init, DeploymentInv

\* TeardownBeforeRemoval, as long as the caches of overlays and Deployments are
\* up to date at every step.
THEOREM TeardownBeforeRemovalWhenFresh ==
    ASSUME MaxLag = 0, MaxDeplLag = 0 PROVE Spec => TeardownBeforeRemoval
<1>1. TypeOK /\ FinalizerInv /\ DeploymentInv /\ [Next]_vars => DeploymentInv'
  BY NextDeploymentInv
<1>. QED
  BY <1>1, InitDeploymentInv, NextTearsDownFirst, TypeCorrect, FinalizerInvHolds, PTL
     DEF Spec, TeardownBeforeRemoval, TearsDownFirst

\* ResolveEdges writes the edges of the overlay it works on and nothing else.
LEMMA ResolveEdgesWrite ==
    ASSUME TypeOK, TypeOK', FinalizerInv, ResolveEdges, NEW o \in Overlays
    PROVE  /\ API[o].finalizer => API'[o].finalizer
           /\ API'[o].edges # API[o].edges => API'[o].finalizer /\ retried(o)'
<1>1. PICK c \in Overlays : c = cur /\ API[c] \in NetworkOverlay
  BY CurType DEF ResolveEdges
<1>2. API[c].finalizer
  BY <1>1 DEF ResolveEdges, FinalizerInv, WorkerKnows
<1>. DEFINE v == [API[c] EXCEPT !.edges = resolveEdges(mem.spec)]
<1>3. v.finalizer = API[c].finalizer
  BY <1>1 DEF NetworkOverlay
<1>4. UNCHANGED stream \/ stream' = streamWith(c, v)
  BY <1>1 DEF ResolveEdges
<1>. HIDE DEF v
<1>5. CASE UNCHANGED stream
  BY <1>5 DEF API
<1>6. CASE stream' = streamWith(c, v)
  <2>1. /\ v # API[c] => pending(c)'
        /\ API'[c] = v
        /\ \A x \in Overlays \ {c} : API'[x] = API[x]
    BY <1>6, PendingWrite, Zenon
  <2>2. CASE o = c
    BY <1>2, <1>3, <2>1, <2>2, Zenon DEF retried
  <2>3. CASE o # c
    BY <2>1, <2>3, Zenon
  <2>. QED
    BY <2>2, <2>3
<1>. QED
  BY <1>4, <1>5, <1>6, Zenon

\* An overlay whose Reconcile will write the Deployments keeps it before it,
\* until the Deployments are written.
LEMMA CoveredKept ==
    ASSUME TypeOK, TypeOK', FinalizerInv, MaxLag = 0, [Next]_vars, NEW o \in Overlays, covered(o),
           ~EnsureInternalDeployments, ~TeardownInternal, ~RemoveFinalizer
    PROVE  covered(o)'
<1>1. API[o].finalizer /\ API[o].exists
  BY APIFacts, Zenon DEF covered, WellFormed
<1>2. API'[o].finalizer
  BY <1>1, ObjectsKept, ResolveEdgesWrite, Zenon
<1>3. SUFFICES \/ retried(o)'
               \/ cur' = o /\ pc' \in {"gateways", "community", "keys", "gwDepls", "internal", "delInternal"}
  BY <1>2 DEF covered
<1>4. CASE Restart
  <2>1. o \in queue'
    BY <1>1, <1>4 DEF Restart
  <2>. QED
    BY <2>1 DEF retried
<1>5. CASE Begin(o)
  <2>1. Cache = API
    BY <1>5, FreshCache DEF Begin
  <2>2. /\ pc' = IF Cache[o].deleting THEN "delInternal"
                ELSE IF Cache[o].finalizer THEN "gateways" ELSE "finalizer"
        /\ cur' = o
    BY <1>1, <1>5, <2>1 DEF Begin
  <2>. QED
    BY <1>1, <2>1, <2>2
<1>6. CASE retried(o) /\ ~Restart /\ ~Begin(o)
  BY <1>6, RetriedKept
<1>7. CASE ~retried(o) /\ ~Restart
  <2>1. cur = o /\ pc \in {"gateways", "community", "keys", "gwDepls", "internal", "delInternal"}
    BY <1>7 DEF covered
  <2>2. CASE UNCHANGED workerVars
    BY <2>1, <2>2 DEF workerVars
  <2>3. CASE Requeue
    BY <2>1, <2>3 DEF Requeue, retried
  <2>4. CASE StatusStep \/ EnsureGatewayDeployments
    BY <2>1, <2>3, <2>4 DEF StatusStep, AddFinalizer, PatchGateways, AllocateCommunity, EnsureKeys,
                      EnsureGatewayDeployments, Patch, SkipTo
  <2>5. CASE CallFails \/ GatewayFailsHalfway \/ InternalFailsHalfway
    BY <2>3, <2>5 DEF CallFails, GatewayFailsHalfway, InternalFailsHalfway
  <2>6. CASE Deliver \/ DeliverDepls \/ Environment \/ UNCHANGED vars
    <3>1. UNCHANGED workerVars
      BY <2>6, Zenon DEF Deliver, DeliverDepls, Environment, Delete, Apply, PodEvent, NodeEvent,
                  Happens, vars, workerVars
    <3>. QED
      BY <2>2, <3>1
  <2>7. ~ResolveEdges /\ \A c \in Overlays : ~Begin(c)
    BY <2>1 DEF ResolveEdges, Begin
  <2>. QED
    BY <1>7, <2>4, <2>5, <2>6, <2>7 DEF Next, Worker, StatusStep
<1>. QED
  BY <1>4, <1>5, <1>6, <1>7

\* targetNodes is a function of the edges and the gateway nodes.
LEMMA TargetNodesKept ==
    ASSUME UNCHANGED nodes, NEW S, served' = S, \A o \in S : API'[o].edges = API[o].edges
    PROVE  targetNodes(API, served)' = targetNodes(API, S)
<1>1. gatewaySet' = gatewaySet
  BY DEF gatewaySet
<1>2. readyNodes(API', S) = readyNodes(API, S)
  BY ReadyNodesFacts
<1>3. readyNodes(API, served)' = readyNodes(API', S)
  BY DEF readyNodes
<1>. QED
  BY <1>1, <1>2, <1>3 DEF targetNodes

\* Removing an overlay leaves the target nodes of the others.
LEMMA RemoveFinalizerFollows ==
    ASSUME TypeOK, TypeOK', FinalizerInv, DeploymentInv, DeploymentsFollow, RemoveFinalizer, [Next]_vars
    PROVE  DeploymentsFollow'
<1>1. PICK c \in Overlays : c = cur
  BY CurType DEF RemoveFinalizer
<1>2. pc = "delFinalizer" /\ API[c].deleting /\ API[c].exists /\ served = Overlays \ {c}
  BY <1>1, APIFacts DEF RemoveFinalizer, DeploymentInv, served, WellFormed
<1>3. stream' = streamWith(c, Absent(API[c].uid)) /\ pc' = "idle"
  BY <1>1, <1>2 DEF RemoveFinalizer, Stop
<1>4. API'[c] = Absent(API[c].uid) /\ \A o \in Overlays \ {c} : API'[o] = API[o]
  BY <1>3, PendingWrite
<1>5. InternalDepls' = InternalDepls /\ gatewaySet' = gatewaySet /\ served' = Overlays
  BY <1>3 DEF RemoveFinalizer, InternalDepls, WorkerUnchanged, gatewaySet, served
<1>6. CASE \E o \in served : covered(o)
  <2>1. PICK o \in Overlays \ {c} : covered(o)
    BY <1>2, <1>6
  <2>2. retried(o) /\ API[o].finalizer
    BY <1>1, <2>1 DEF covered
  <2>3. ~Restart /\ ~Begin(o)
    BY <1>2, <1>3 DEF Restart, Begin, RemoveFinalizer, WorkerUnchanged, TypeOK
  <2>4. retried(o)'
    BY <2>2, <2>3, RetriedKept
  <2>. QED
    BY <1>4, <1>5, <2>2, <2>4, Zenon DEF DeploymentsFollow, covered
<1>7. CASE InternalDepls = targetNodes(API, served)
  <2>1. API'[c].edges = {}
    <3>1. Absent(API[c].uid).edges = {}
      BY DEF Absent
    <3>. QED
      BY <1>4, <3>1
  <2>2. UNION {API'[o].edges : o \in Overlays} = UNION {API[o].edges : o \in Overlays \ {c}}
    BY <1>4, <2>1
  <2>3. readyNodes(API', Overlays) = readyNodes(API, Overlays \ {c})
    BY <2>2 DEF readyNodes
  <2>4. readyNodes(API, served)' = readyNodes(API', Overlays)
    BY <1>5 DEF readyNodes
  <2>. QED
    BY <1>2, <1>5, <1>7, <2>3, <2>4 DEF DeploymentsFollow, targetNodes
<1>. QED
  BY <1>6, <1>7 DEF DeploymentsFollow

\* A node that becomes a gateway or stops being one: every overlay with edges
\* is reconciled again.
LEMMA NodeEventFollows ==
    ASSUME TypeOK, TypeOK', FinalizerInv, DeploymentInv, DeploymentsFollow, MaxLag = 0, [Next]_vars,
           NEW n \in Nodes, NEW w \in NodeStates, NodeEvent(n, w)
    PROVE  DeploymentsFollow'
<1>1. UNCHANGED objVars /\ UNCHANGED workerVars /\ enqueueAll
  BY DEF NodeEvent, Happens
<1>2. API' = API /\ Cache' = Cache /\ InternalDepls' = InternalDepls /\ served' = served
  BY <1>1 DEF objVars, workerVars, API, Cache, InternalDepls, served
<1>3. CASE \E o \in served : API[o].edges # {}
  <2>1. PICK o \in served : API[o].edges # {}
    BY <1>3
  <2>2. o \in Overlays
    BY <2>1 DEF served
  <2>3. API[o].finalizer /\ API[o].exists
    BY <2>1, <2>2, APIFacts, Zenon DEF WellFormed
  <2>4. retried(o)'
    <3>1. CASE Cache[o] = API[o]
      BY <1>1, <2>2, <2>3, <3>1, Zenon DEF enqueueAll, retried
    <3>2. CASE Cache[o] # API[o]
      <4>1. pending(o)
        BY <2>2, <3>2, NotPending
      <4>2. pending(o)'
        BY <1>1, <4>1 DEF pending, objVars, Window, Cache
      <4>. QED
        BY <4>2 DEF retried
    <3>. QED
      BY <3>1, <3>2
  <2>. QED
    BY <1>2, <2>1, <2>3, <2>4, Zenon DEF DeploymentsFollow, covered
<1>4. CASE \A o \in served : API[o].edges = {}
  <2>1. readyNodes(API, served) = {}
    BY <1>4 DEF readyNodes
  <2>2. readyNodes(API, served)' = {}
    BY <1>2, <2>1, Zenon DEF readyNodes
  <2>3. CASE InternalDepls = targetNodes(API, served)
    BY <1>2, <2>1, <2>2, <2>3 DEF DeploymentsFollow, targetNodes
  <2>4. CASE \E o \in served : covered(o)
    <3>1. PICK o \in served : covered(o)
      BY <2>4
    <3>2. o \in Overlays
      BY <3>1 DEF served
    <3>3. ~EnsureInternalDeployments /\ ~TeardownInternal /\ ~RemoveFinalizer
      BY <1>1 DEF RemoveFinalizer, EnsureInternalDeployments, TeardownInternal,
                  EnsureInternal, Requeue, Stop, workerVars
    <3>4. covered(o)'
      BY <3>1, <3>2, <3>3, CoveredKept
    <3>. QED
      BY <1>2, <3>1, <3>4 DEF DeploymentsFollow
  <2>. QED
    BY <2>3, <2>4 DEF DeploymentsFollow
<1>. QED
  BY <1>3, <1>4

\* A Reconcile or a deletion that is broken off half-way is taken up again.
LEMMA BrokenOffFollows ==
    ASSUME TypeOK, TypeOK', FinalizerInv, DeploymentInv, pc \in {"internal", "delInternal", "delFinalizer"},
           Requeue \/ Restart, UNCHANGED stream \/ Restart
    PROVE  DeploymentsFollow'
<1>1. PICK c \in Overlays : c = cur
  BY CurType
<1>2. API[c].finalizer /\ API[c].exists
  BY <1>1, APIFacts, Zenon DEF FinalizerInv, WorkerKnows, DeploymentInv, WellFormed
<1>3. API' = API
  BY DEF Restart, API
<1>4. c \in queue' /\ pc' = "idle"
  BY <1>1, <1>2 DEF Requeue, Restart, Stop
<1>. QED
  BY <1>2, <1>3, <1>4 DEF DeploymentsFollow, covered, retried, served

\* Steps that change neither the Deployments nor the gateway nodes: the edges
\* stay, or the overlay whose edges change is reconciled once more.
LEMMA QuietFollows ==
    ASSUME TypeOK, TypeOK', FinalizerInv, DeploymentsFollow, MaxLag = 0, [Next]_vars,
           ~EnsureInternalDeployments, ~TeardownInternal, ~RemoveFinalizer,
           UNCHANGED nodes, InternalDepls' = InternalDepls, served' = served
    PROVE  DeploymentsFollow'
<1>0. PICK S : S = served /\ S \subseteq Overlays
  BY DEF served
<1>1. CASE \E o \in served : covered(o)
  <2>1. PICK o \in S : covered(o)
    BY <1>0, <1>1
  <2>2. covered(o)'
    BY <1>0, <2>1, CoveredKept
  <2>. QED
    BY <1>0, <2>1, <2>2 DEF DeploymentsFollow
<1>2. CASE \E o \in S : API'[o].edges # API[o].edges
  <2>1. PICK o \in S : API'[o].edges # API[o].edges
    BY <1>2
  <2>2. API'[o].finalizer /\ retried(o)'
    BY <1>0, <2>1, ObjectsKept, ResolveEdgesWrite, Zenon
  <2>. QED
    BY <1>0, <2>1, <2>2 DEF DeploymentsFollow, covered
<1>3. CASE InternalDepls = targetNodes(API, served) /\ \A o \in S : API'[o].edges = API[o].edges
  <2>1. targetNodes(API, served)' = targetNodes(API, S)
    BY <1>0, <1>3, TargetNodesKept, Zenon
  <2>. QED
    BY <1>0, <1>3, <2>1, Zenon DEF DeploymentsFollow
<1>. QED
  BY <1>1, <1>2, <1>3, Zenon DEF DeploymentsFollow

\* No step leaves the internal Deployments wrong without a Reconcile to come.
LEMMA NextDeploymentsFollow ==
    ASSUME TypeOK, FinalizerInv, DeploymentInv, DeploymentsFollow, [Next]_vars,
           MaxLag = 0, MaxDeplLag = 0
    PROVE  DeploymentsFollow'
<1>0. TypeOK'
  BY NextType
<1>1. CASE EnsureInternalDeployments
  <2>1. /\ InternalDepls' = targetNodes(API, Overlays)
        /\ pc' = "edges" /\ UNCHANGED <<stream, nodes>>
    BY <1>1, FreshInternal
  <2>2. API' = API /\ served' = Overlays
    BY <2>1 DEF API, served
  <2>3. targetNodes(API, served)' = targetNodes(API, Overlays)
    BY <2>1, <2>2, TargetNodesKept
  <2>. QED
    BY <2>1, <2>3 DEF DeploymentsFollow
<1>2. CASE TeardownInternal
  <2>1. PICK c : c = cur
    OBVIOUS
  <2>2. /\ InternalDepls' = targetNodes(API, Overlays \ {c})
        /\ pc' = "delFinalizer" /\ UNCHANGED <<cur, stream, nodes>>
    BY <1>2, <2>1, FreshTeardown
  <2>3. API' = API /\ served' = Overlays \ {c}
    BY <2>1, <2>2 DEF API, served
  <2>4. targetNodes(API, served)' = targetNodes(API, Overlays \ {c})
    BY <2>2, <2>3, TargetNodesKept
  <2>. QED
    BY <2>2, <2>4 DEF DeploymentsFollow
<1>3. CASE RemoveFinalizer
  BY <1>0, <1>3, RemoveFinalizerFollows
<1>4. CASE \E n \in Nodes, w \in NodeStates : NodeEvent(n, w)
  BY <1>0, <1>4, NodeEventFollows
<1>5. CASE /\ pc \in {"internal", "delInternal", "delFinalizer"}
           /\ CallFails \/ InternalFailsHalfway \/ Restart
  <2>1. (Requeue \/ Restart) /\ (UNCHANGED stream \/ Restart)
    BY <1>5 DEF CallFails, InternalFailsHalfway, objVars
  <2>. QED
    BY <1>0, <1>5, <2>1, BrokenOffFollows
<1>6. CASE /\ ~EnsureInternalDeployments /\ ~TeardownInternal /\ ~RemoveFinalizer
           /\ ~\E n \in Nodes, w \in NodeStates : NodeEvent(n, w)
           /\ ~InternalFailsHalfway
           /\ pc = "delFinalizer" => ~CallFails /\ ~Restart
  <2>1. UNCHANGED nodes
    BY <1>6, Zenon DEF Next, Worker, Begin, AddFinalizer, PatchGateways, AllocateCommunity, EnsureKeys,
         EnsureGatewayDeployments, ResolveEdges, Deliver, DeliverDepls, CallFails,
         GatewayFailsHalfway, Restart, Environment, Delete, Apply, PodEvent, WorkerUnchanged,
         clusterVars, vars
  <2>2. InternalDepls' = InternalDepls
    BY <1>6, DeplsKept
  <2>3. CASE pc = "delFinalizer"
    <3>1. UNCHANGED workerVars
      BY <1>6, <2>3, Zenon DEF Next, Worker, Begin, AddFinalizer, PatchGateways, AllocateCommunity, EnsureKeys,
         EnsureGatewayDeployments, ResolveEdges, Deliver, DeliverDepls,
         GatewayFailsHalfway, Environment, Delete, Apply, PodEvent, Happens, workerVars, vars
    <3>2. served' = served
      BY <3>1 DEF workerVars, served
    <3>. QED
      BY <1>0, <1>6, <2>1, <2>2, <3>2, QuietFollows
  <2>4. CASE pc # "delFinalizer"
    <3>1. pc' # "delFinalizer"
      BY <1>6, <2>4, Zenon DEF Next, Worker, Begin, AddFinalizer, PatchGateways, AllocateCommunity, EnsureKeys,
         EnsureGatewayDeployments, ResolveEdges, Deliver, DeliverDepls, CallFails, Restart,
         GatewayFailsHalfway, Environment, Delete, Apply, PodEvent, Happens, workerVars, vars,
         Patch, SkipTo, Requeue, Stop
    <3>2. served' = served
      BY <2>4, <3>1 DEF served
    <3>. QED
      BY <1>0, <1>6, <2>1, <2>2, <3>2, QuietFollows
  <2>. QED
    BY <2>3, <2>4
<1>7. InternalFailsHalfway => pc \in {"internal", "delInternal"}
  BY DEF InternalFailsHalfway
<1>. QED
  BY <1>1, <1>2, <1>3, <1>4, <1>5, <1>6, <1>7

\* At first there are no Deployments and no edges.
LEMMA InitDeploymentsFollow == Init => DeploymentsFollow
<1>. SUFFICES ASSUME Init PROVE InternalDepls = targetNodes(API, served)
  BY DEF DeploymentsFollow
<1>1. API = NothingListed /\ InternalDepls = {} /\ served = Overlays
  BY DEF Init, API, InternalDepls, served
<1>2. \A o \in Overlays : NothingListed[o].edges = {}
  BY DEF NothingListed, Absent
<1>3. readyNodes(API, Overlays) = {}
  BY <1>1, <1>2 DEF readyNodes
<1>. QED
  BY <1>1, <1>3 DEF targetNodes

\* RestDeploymentsMatch, as long as the caches of overlays and Deployments are
\* up to date at every step: although the edges are resolved after the internal
\* Deployments are written, a change of edges or gateways always brings about
\* another Reconcile that writes them.
THEOREM RestDeploymentsMatchWhenFresh ==
    ASSUME MaxLag = 0, MaxDeplLag = 0 PROVE Spec => []RestDeploymentsMatch
<1>1. TypeOK /\ FinalizerInv /\ DeploymentInv /\ [Next]_vars => DeploymentInv'
  BY NextDeploymentInv
<1>2. TypeOK /\ FinalizerInv /\ DeploymentInv /\ DeploymentsFollow /\ [Next]_vars => DeploymentsFollow'
  BY NextDeploymentsFollow
<1>3. TypeOK /\ DeploymentsFollow => RestDeploymentsMatch
  <2>. SUFFICES ASSUME TypeOK, DeploymentsFollow, AtRest
                PROVE  InternalDepls = targetNodes(API, Overlays)
    BY DEF RestDeploymentsMatch
  <2>1. served = Overlays /\ Window = {1}
    BY DEF AtRest, served, Window
  <2>2. \A o : ~covered(o)
    BY <2>1 DEF AtRest, covered, retried, pending, Cache
  <2>. QED
    BY <2>1, <2>2 DEF DeploymentsFollow
<1>. QED
  BY <1>1, <1>2, <1>3, InitDeploymentInv, InitDeploymentsFollow, TypeCorrect, FinalizerInvHolds, PTL
     DEF Spec

=============================================================================
