---------------------- MODULE NetworkOverlayController ----------------------
(***************************************************************************)
(* The pontifex operator: NetworkOverlayReconciler (networkoverlay_        *)
(* controller.go) with the two Deployment builders it calls (agent/        *)
(* gateway.go, agent/internal.go), run by a controller-runtime manager.    *)
(*                                                                         *)
(* What the controller reads and what it writes are different things.      *)
(* Get and List answer from the informer cache, which trails the API       *)
(* server; Patch, Create and Delete go to the API server.  Both are one    *)
(* variable here: `stream' holds the successive contents of the            *)
(* NetworkOverlay collection that the informer has not moved past, the     *)
(* first one being the cache and the last one the API server.  `depls' is  *)
(* the same for the per-node Deployments.  Pods and Nodes are never        *)
(* written by the operator, so `pods' and `nodes' are its cached view and  *)
(* their actions are the arrival of a watch event.                         *)
(*                                                                         *)
(* A step of the worker is the cache reads that precede one API write,     *)
(* together with that write.  An event that falls between the reads and    *)
(* the write can be moved after the write: nothing the write does depends  *)
(* on the cache, and the cache may lag anyway.                             *)
(*                                                                         *)
(* Simplifications: virtual IPs, pod IPs and node IPs are functions of     *)
(* the edge, pod and node that carry them; PodPending and the other        *)
(* phases that are not Running are "absent"; no finalizer other than the   *)
(* operator's own; one edge matches pods through the constant Selects.     *)
(***************************************************************************)
EXTENDS Integers, Sequences, FiniteSets

CONSTANTS
    Overlays,          \* names of NetworkOverlay objects
    NoOverlay,         \* the worker holds no key
    Nodes,             \* node names, numbered in their lexicographic order
    Pods,              \* pod names
    NoPod,             \* EdgeStatus.PodName = ""
    Edges,             \* edges a spec may list (each has its own virtual IP)
    Selects,           \* Selects[e]: the pods matched by e's label selector
    InvalidSelectors,  \* edges whose selector labels.Parse rejects
    InitNodes,         \* the nodes and their gateway label at start
    MaxCommunity,      \* largest community number (65535 in the code)
    MaxLag,            \* overlay events the cache may miss when somebody acts
    MaxDeplLag,        \* the same for Deployment events
    MaxEnv,            \* bound: user, pod and node events in a behaviour
    MaxFaults          \* bound: failed calls and operator restarts

NoNode == 0            \* EdgeStatus.NodeName = ""

Roles == {"primary", "secondary"}

\* The value of the gateway label: HasLabels selects all but "unlabeled".
NodeStates == Roles \cup {"other", "unlabeled", "absent"}

ASSUME NodesAssumption == Nodes \subseteq Nat \ {NoNode} /\ IsFiniteSet(Nodes)
ASSUME NamesAssumption == NoOverlay \notin Overlays /\ NoPod \notin Pods
ASSUME SelectsAssumption ==
    Selects \in [Edges -> SUBSET Pods] /\ InvalidSelectors \subseteq Edges
ASSUME InitNodesAssumption == InitNodes \in [Nodes -> NodeStates]
ASSUME BoundsAssumption ==
    /\ MaxCommunity \in Nat /\ MaxLag \in Nat /\ MaxDeplLag \in Nat
    /\ MaxEnv \in Nat /\ MaxFaults \in Nat

VARIABLES
    stream,   \* NetworkOverlays: cache first, API server last
    depls,    \* nodes with an internal Deployment: cache first, API last
    gwDepls,  \* gwDepls[role]: the gateway Deployment of that role
    nodes,    \* gateway label of each node, as cached
    pods,     \* phase and node of each pod, as cached
    queue,    \* the workqueue (a set: the queue removes duplicates)
    pc,       \* the next step of the running Reconcile, or "idle"
    cur,      \* the overlay being reconciled
    mem,      \* Reconcile's local `overlay'
    list,     \* Reconcile's local `all'
    env,      \* user, pod and node events so far
    faults    \* failed calls and restarts so far

objVars == <<stream, depls, gwDepls>>
clusterVars == <<nodes, pods>>
workerVars == <<pc, cur, mem, list>>
boundVars == <<env, faults>>
vars == <<stream, depls, gwDepls, nodes, pods, queue, pc, cur, mem, list, env, faults>>

-----------------------------------------------------------------------------
(* The objects.                                                            *)

EdgeStatus ==
    [edge : Edges, ready : BOOLEAN, pod : Pods \cup {NoPod}, node : Nodes \cup {NoNode}]

Gateway == [node : Nodes, isSecondary : BOOLEAN]

NetworkOverlay ==
    [uid : Nat, exists : BOOLEAN, deleting : BOOLEAN, finalizer : BOOLEAN,
     spec : SUBSET Edges, community : 0..MaxCommunity, key : BOOLEAN,
     gateways : SUBSET Gateway, edges : SUBSET EdgeStatus]

GatewayDeployment ==
    [exists : BOOLEAN, node : Nodes \cup {NoNode}, mounts : SUBSET Overlays]

Pod == [phase : {"absent", "running", "terminating"}, node : Nodes \cup {NoNode}]

\* What is left of an object that was removed: only its uid, so that the next
\* object of the same name gets another one.
Absent(u) ==
    [uid |-> u, exists |-> FALSE, deleting |-> FALSE, finalizer |-> FALSE,
     spec |-> {}, community |-> 0, key |-> FALSE, gateways |-> {}, edges |-> {}]

Cache == stream[1]
API == stream[Len(stream)]
CachedDepls == depls[1]
InternalDepls == depls[Len(depls)]

\* Every reader and writer finds the caches at most that many events behind.
CachesAreRecent == Len(stream) <= MaxLag + 1 /\ Len(depls) <= MaxDeplLag + 1

Steps ==
    {"idle", "finalizer", "gateways", "community", "keys", "gwDepls",
     "internal", "edges", "delInternal", "delFinalizer"}

TypeOK ==
    /\ stream \in Seq([Overlays -> NetworkOverlay]) /\ stream # <<>>
    /\ depls \in Seq(SUBSET Nodes) /\ depls # <<>>
    /\ gwDepls \in [Roles -> GatewayDeployment]
    /\ nodes \in [Nodes -> NodeStates]
    /\ pods \in [Pods -> Pod]
    /\ queue \subseteq Overlays
    /\ pc \in Steps
    /\ cur \in Overlays \cup {NoOverlay} /\ (pc # "idle" => cur \in Overlays)
    /\ mem \in NetworkOverlay
    /\ list \in [Overlays -> NetworkOverlay]
    /\ env \in 0..MaxEnv
    /\ faults \in 0..MaxFaults

NothingListed == [o \in Overlays |-> Absent(0)]

Init ==
    /\ stream = <<NothingListed>>
    /\ depls = <<{}>>
    /\ gwDepls = [r \in Roles |-> [exists |-> FALSE, node |-> NoNode, mounts |-> {}]]
    /\ nodes = InitNodes
    /\ pods = [p \in Pods |-> [phase |-> "absent", node |-> NoNode]]
    /\ queue = {}
    /\ pc = "idle" /\ cur = NoOverlay /\ mem = Absent(0) /\ list = NothingListed
    /\ env = 0 /\ faults = 0

-----------------------------------------------------------------------------
(* Helpers of the reconciler.                                              *)

gatewaySet == {n \in Nodes : nodes[n] \in Roles \cup {"other"}}

buildGateways ==
    {[node |-> n, isSecondary |-> nodes[n] = "secondary"] : n \in gatewaySet}

\* Mutants of freeCommunities: one number too many, and the numbers of overlays
\* in deletion taken for free.
freeCommunitiesOneMore(o) ==
    (1..(MaxCommunity + 1)) \ {Cache[x].community : x \in Overlays \ {o}}

freeCommunitiesOfLive(o) ==
    (1..MaxCommunity) \ {Cache[x].community : x \in {y \in Overlays \ {o} : ~Cache[y].deleting}}

\* allocateCommunity: the numbers free in the cached list.
freeCommunities(o) ==
    (1..MaxCommunity) \ {Cache[x].community : x \in Overlays \ {o}}

smallest(S) == CHOOSE x \in S : \A y \in S : x <= y

running(e) == {p \in Selects[e] : pods[p].phase = "running"}

\* The one pod an edge resolves to sits on a node that is no gateway.
resolvesTo(e, p) ==
    /\ e \notin InvalidSelectors
    /\ running(e) = {p}
    /\ pods[p].node \notin gatewaySet

edgeStatus(e) ==
    IF \E p \in Pods : resolvesTo(e, p)
    THEN LET p == CHOOSE q \in Pods : resolvesTo(e, q)
         IN  [edge |-> e, ready |-> TRUE, pod |-> p, node |-> pods[p].node]
    ELSE [edge |-> e, ready |-> FALSE, pod |-> NoPod, node |-> NoNode]

resolveEdges(spec) == {edgeStatus(e) : e \in spec}

\* resolveEdges fails as a whole when it cannot Get one pod's Node.
resolveFails(spec) ==
    \E e \in spec, p \in Pods : resolvesTo(e, p) /\ nodes[pods[p].node] = "absent"

\* reflect.DeepEqual tells an empty slice from nil, and an empty list is stored
\* as nil: an empty result always looks changed.
changed(old, new) == old # new \/ new = {}

\* Nodes of the Ready edges of the given overlays.
readyNodes(ovs, names) ==
    {s.node : s \in {t \in UNION {ovs[o].edges : o \in names} : t.ready /\ t.node # NoNode}}

targetNodes(ovs, names) == readyNodes(ovs, names) \ gatewaySet

roleNodes(role) == {n \in Nodes : nodes[n] = role}

gatewayDeployment(role, ovs) ==
    [exists |-> TRUE,
     node |-> IF roleNodes(role) = {} THEN NoNode ELSE smallest(roleNodes(role)),
     mounts |-> {o \in Overlays : ovs[o].exists /\ ovs[o].key}]

\* An API server write of object v under name o; a write that changes nothing
\* makes no watch event.
streamWith(o, v) ==
    IF v = API[o] THEN stream ELSE Append(stream, [API EXCEPT ![o] = v])

deplsWith(D) == IF D = InternalDepls THEN depls ELSE Append(depls, D)

\* Reconcile returns; with an error the key goes back to the queue.
Stop == pc' = "idle" /\ cur' = NoOverlay /\ mem' = Absent(0) /\ list' = NothingListed

Requeue == Stop /\ queue' = queue \cup {cur}

\* A merge patch changes its own fields of whatever object has the name now,
\* and its response replaces the local copy; NotFound is an error.
Patch(v, next) ==
    \/ /\ API[cur].exists
       /\ stream' = streamWith(cur, v)
       /\ pc' = next /\ mem' = v
       /\ UNCHANGED <<cur, list, queue>>
    \/ /\ ~API[cur].exists
       /\ Requeue /\ UNCHANGED stream

SkipTo(next) == pc' = next /\ UNCHANGED <<stream, cur, mem, list, queue>>

-----------------------------------------------------------------------------
(* Reconcile, one action per API write.                                    *)

WorkerUnchanged == UNCHANGED <<nodes, pods, env, faults>>

\* Mutants of Begin: the finalizer check is left out, and NotFound is returned
\* as an error.
BeginWithoutFinalizer(o) ==
    /\ pc = "idle" /\ o \in queue /\ CachesAreRecent
    /\ queue' = queue \ {o}
    /\ \/ /\ ~Cache[o].exists
          /\ UNCHANGED workerVars
       \/ /\ Cache[o].exists
          /\ pc' = IF Cache[o].deleting THEN "delInternal" ELSE "gateways"
          /\ cur' = o /\ mem' = Cache[o]
          /\ UNCHANGED list
    /\ UNCHANGED objVars /\ WorkerUnchanged

BeginNotFoundIsError(o) ==
    /\ pc = "idle" /\ o \in queue /\ CachesAreRecent
    /\ \/ /\ ~Cache[o].exists
          /\ UNCHANGED queue /\ UNCHANGED workerVars
       \/ /\ Cache[o].exists
          /\ queue' = queue \ {o}
          /\ pc' = IF Cache[o].deleting THEN "delInternal"
                   ELSE IF Cache[o].finalizer THEN "gateways" ELSE "finalizer"
          /\ cur' = o /\ mem' = Cache[o]
          /\ UNCHANGED list
    /\ UNCHANGED objVars /\ WorkerUnchanged

\* The worker takes a key, Gets the overlay and branches on what it finds.
Begin(o) ==
    /\ pc = "idle" /\ o \in queue /\ CachesAreRecent
    /\ queue' = queue \ {o}
    /\ \/ /\ ~Cache[o].exists \/ (Cache[o].deleting /\ ~Cache[o].finalizer)
          /\ UNCHANGED workerVars
       \/ /\ Cache[o].exists /\ (Cache[o].deleting => Cache[o].finalizer)
          /\ pc' = IF Cache[o].deleting THEN "delInternal"
                   ELSE IF Cache[o].finalizer THEN "gateways" ELSE "finalizer"
          /\ cur' = o /\ mem' = Cache[o]
          /\ UNCHANGED list
    /\ UNCHANGED objVars /\ WorkerUnchanged

\* Mutant of AddFinalizer: a NotFound from Patch is ignored.
AddFinalizerIgnoresNotFound ==
    /\ pc = "finalizer" /\ CachesAreRecent
    /\ IF API[cur].exists THEN Patch([API[cur] EXCEPT !.finalizer = TRUE], "gateways")
       ELSE SkipTo("gateways")
    /\ UNCHANGED <<depls, gwDepls>> /\ WorkerUnchanged

AddFinalizer ==
    /\ pc = "finalizer" /\ CachesAreRecent
    /\ Patch([API[cur] EXCEPT !.finalizer = TRUE], "gateways")
    /\ UNCHANGED <<depls, gwDepls>> /\ WorkerUnchanged

PatchGateways ==
    /\ pc = "gateways" /\ CachesAreRecent
    /\ IF changed(mem.gateways, buildGateways)
       THEN Patch(IF mem.gateways = buildGateways THEN API[cur]
                  ELSE [API[cur] EXCEPT !.gateways = buildGateways], "community")
       ELSE SkipTo("community")
    /\ UNCHANGED <<depls, gwDepls>> /\ WorkerUnchanged

\* Mutant of AllocateCommunity: it allocates on every reconcile.
AllocateCommunityAgain ==
    /\ pc = "community" /\ CachesAreRecent
    /\ freeCommunities(cur) # {}
    /\ Patch([API[cur] EXCEPT !.community = smallest(freeCommunities(cur))], "keys")
    /\ UNCHANGED <<depls, gwDepls>> /\ WorkerUnchanged

AllocateCommunity ==
    /\ pc = "community" /\ CachesAreRecent
    /\ \/ /\ mem.community # 0
          /\ SkipTo("keys")
       \/ /\ mem.community = 0 /\ freeCommunities(cur) # {}
          /\ Patch([API[cur] EXCEPT !.community = smallest(freeCommunities(cur))], "keys")
       \/ /\ mem.community = 0 /\ freeCommunities(cur) = {}
          /\ Requeue /\ UNCHANGED stream
    /\ UNCHANGED <<depls, gwDepls>> /\ WorkerUnchanged

EnsureKeys ==
    /\ pc = "keys" /\ CachesAreRecent
    /\ IF mem.key THEN SkipTo("gwDepls")
       ELSE Patch([API[cur] EXCEPT !.key = TRUE], "gwDepls")
    /\ UNCHANGED <<depls, gwDepls>> /\ WorkerUnchanged

\* Mutant of EnsureGatewayDeployments: the affinity is set on creation only.
EnsureGatewayDeploymentsPinnedOnce ==
    /\ pc = "gwDepls" /\ CachesAreRecent
    /\ list' = Cache
    /\ gwDepls' = [r \in Roles |->
                     IF gwDepls[r].exists
                     THEN [gatewayDeployment(r, Cache) EXCEPT !.node = gwDepls[r].node]
                     ELSE gatewayDeployment(r, Cache)]
    /\ pc' = "internal"
    /\ UNCHANGED <<stream, depls, cur, mem, queue>> /\ WorkerUnchanged

\* Reconcile lists every overlay, then writes the two gateway Deployments.
\* Nobody else reads or writes these, so that the two writes are one step.
EnsureGatewayDeployments ==
    /\ pc = "gwDepls" /\ CachesAreRecent
    /\ list' = Cache
    /\ gwDepls' = [r \in Roles |-> gatewayDeployment(r, Cache)]
    /\ pc' = "internal"
    /\ UNCHANGED <<stream, depls, cur, mem, queue>> /\ WorkerUnchanged

\* EnsureInternalDeployments(T): delete the listed Deployments outside T, then
\* create or update one per node of T.  The cached copy decides between Create
\* and Update, so a node whose cached and real Deployments disagree is an error.
deplOrphans(T) == CachedDepls \ T

deplConflicts(T) == {n \in T : (n \in CachedDepls) # (n \in InternalDepls)}

EnsureInternal(T, next) ==
    /\ CachesAreRecent
    /\ \/ /\ deplConflicts(T) = {}
          /\ depls' = deplsWith((InternalDepls \ deplOrphans(T)) \cup T)
          /\ pc' = next /\ list' = NothingListed
          /\ UNCHANGED <<cur, mem, queue>>
       \/ /\ deplConflicts(T) # {}
          /\ \E E \in SUBSET (T \ deplConflicts(T)) :
                depls' = deplsWith((InternalDepls \ deplOrphans(T)) \cup E)
          /\ Requeue
    /\ UNCHANGED <<stream, gwDepls>> /\ WorkerUnchanged

EnsureInternalDeployments ==
    pc = "internal" /\ EnsureInternal(targetNodes(list, Overlays), "edges")

\* Mutant of ResolveEdges: a failing Get of a Node is logged and dropped.
ResolveEdgesDropsError ==
    /\ pc = "edges" /\ CachesAreRecent
    /\ stream' = IF resolveFails(mem.spec) \/ mem.edges = resolveEdges(mem.spec) \/ ~API[cur].exists
                 THEN stream
                 ELSE streamWith(cur, [API[cur] EXCEPT !.edges = resolveEdges(mem.spec)])
    /\ Stop
    /\ UNCHANGED <<depls, gwDepls, queue>> /\ WorkerUnchanged

ResolveEdges ==
    /\ pc = "edges" /\ CachesAreRecent
    /\ \/ /\ resolveFails(mem.spec)
          /\ Requeue /\ UNCHANGED stream
       \/ /\ ~resolveFails(mem.spec)
          /\ changed(mem.edges, resolveEdges(mem.spec)) => API[cur].exists
          /\ stream' = IF mem.edges = resolveEdges(mem.spec) THEN stream
                       ELSE streamWith(cur, [API[cur] EXCEPT !.edges = resolveEdges(mem.spec)])
          /\ Stop /\ UNCHANGED queue
       \/ /\ ~resolveFails(mem.spec)
          /\ changed(mem.edges, resolveEdges(mem.spec)) /\ ~API[cur].exists
          /\ Requeue /\ UNCHANGED stream
    /\ UNCHANGED <<depls, gwDepls>> /\ WorkerUnchanged

\* Mutant of TeardownInternal: the overlay in deletion counts as a remaining one.
TeardownInternalOfNothing ==
    pc = "delInternal" /\ EnsureInternal(targetNodes(Cache, Overlays), "delFinalizer")

\* handleDeletion: tear down with the other overlays' edges, then let the API
\* server remove the object by removing the finalizer.
TeardownInternal ==
    pc = "delInternal" /\ EnsureInternal(targetNodes(Cache, Overlays \ {cur}), "delFinalizer")

RemoveFinalizer ==
    /\ pc = "delFinalizer" /\ CachesAreRecent
    /\ \/ /\ API[cur].exists
          /\ stream' = streamWith(cur, IF API[cur].deleting THEN Absent(API[cur].uid)
                                       ELSE [API[cur] EXCEPT !.finalizer = FALSE])
          /\ Stop /\ UNCHANGED queue
       \/ /\ ~API[cur].exists
          /\ Requeue /\ UNCHANGED stream
    /\ UNCHANGED <<depls, gwDepls>> /\ WorkerUnchanged

Worker ==
    \/ AddFinalizer \/ PatchGateways \/ AllocateCommunity \/ EnsureKeys
    \/ EnsureGatewayDeployments \/ EnsureInternalDeployments \/ ResolveEdges
    \/ TeardownInternal \/ RemoveFinalizer

-----------------------------------------------------------------------------
(* controller-runtime: watches, failed calls and restarts.                 *)

\* Mutant of Deliver: a GenerationChangedPredicate hides status updates.
DeliverGenerationOnly ==
    /\ Len(stream) > 1
    /\ stream' = Tail(stream)
    /\ queue' = queue \cup {o \in Overlays :
          \/ stream[2][o].exists # stream[1][o].exists
          \/ stream[2][o].deleting # stream[1][o].deleting
          \/ stream[2][o].spec # stream[1][o].spec}
    /\ UNCHANGED <<depls, gwDepls, nodes, pods, env, faults>> /\ UNCHANGED workerVars

\* The informer moves on by one event, and For() queues the object it is about.
Deliver ==
    /\ Len(stream) > 1
    /\ stream' = Tail(stream)
    /\ queue' = queue \cup {o \in Overlays : stream[2][o] # stream[1][o]}
    /\ UNCHANGED <<depls, gwDepls, nodes, pods, env, faults>> /\ UNCHANGED workerVars

\* Deployments are cached but not watched: nothing is queued.
DeliverDepls ==
    /\ Len(depls) > 1
    /\ depls' = Tail(depls)
    /\ UNCHANGED <<stream, gwDepls, nodes, pods, queue, env, faults>> /\ UNCHANGED workerVars

\* Mutant of enqueueAll: only overlays with edges follow Pods and Nodes.
enqueueAllWithEdges ==
    queue' = queue \cup {o \in Overlays : Cache[o].exists /\ Cache[o].edges # {}}

\* Pod and Node events queue every overlay in the cache.
enqueueAll == queue' = queue \cup {o \in Overlays : Cache[o].exists}

\* Any call of Reconcile fails, EnsureKeyPair and EnsureRBAC included.
CallFails ==
    /\ pc # "idle" /\ faults < MaxFaults
    /\ faults' = faults + 1
    /\ Requeue
    /\ UNCHANGED objVars /\ UNCHANGED clusterVars /\ UNCHANGED env

\* The primary's Deployment is written and the secondary's write fails.
GatewayFailsHalfway ==
    /\ pc = "gwDepls" /\ faults < MaxFaults /\ CachesAreRecent
    /\ faults' = faults + 1
    /\ gwDepls' = [gwDepls EXCEPT !["primary"] = gatewayDeployment("primary", Cache)]
    /\ Requeue
    /\ UNCHANGED <<stream, depls>> /\ UNCHANGED clusterVars /\ UNCHANGED env

\* EnsureInternalDeployments stops half-way: some orphans deleted, or all of
\* them deleted and some Deployments created.
InternalFailsHalfway ==
    /\ pc \in {"internal", "delInternal"} /\ faults < MaxFaults /\ CachesAreRecent
    /\ faults' = faults + 1
    /\ LET T == IF pc = "internal" THEN targetNodes(list, Overlays)
                ELSE targetNodes(Cache, Overlays \ {cur})
       IN  \/ \E D \in SUBSET deplOrphans(T) : depls' = deplsWith(InternalDepls \ D)
           \/ \E E \in SUBSET (T \ deplConflicts(T)) :
                E # T /\ depls' = deplsWith((InternalDepls \ deplOrphans(T)) \cup E)
    /\ Requeue
    /\ UNCHANGED <<stream, gwDepls>> /\ UNCHANGED clusterVars /\ UNCHANGED env

\* A restarted operator lists everything anew and queues every overlay.
Restart ==
    /\ faults < MaxFaults
    /\ faults' = faults + 1
    /\ stream' = <<API>> /\ depls' = <<InternalDepls>>
    /\ queue' = {o \in Overlays : API[o].exists}
    /\ Stop
    /\ UNCHANGED gwDepls /\ UNCHANGED clusterVars /\ UNCHANGED env

-----------------------------------------------------------------------------
(* The users and the cluster.                                              *)

Happens == env < MaxEnv /\ env' = env + 1 /\ UNCHANGED faults /\ UNCHANGED workerVars

\* kubectl create, edit and delete.  An object with a finalizer is only marked.
Apply(o, spec) ==
    /\ Happens /\ CachesAreRecent
    /\ stream' = streamWith(o,
          IF API[o].exists THEN [API[o] EXCEPT !.spec = spec]
          ELSE [Absent(API[o].uid + 1) EXCEPT !.exists = TRUE, !.spec = spec])
    /\ stream' # stream
    /\ UNCHANGED <<depls, gwDepls, queue>> /\ UNCHANGED clusterVars

Delete(o) ==
    /\ Happens /\ CachesAreRecent
    /\ API[o].exists /\ ~API[o].deleting
    /\ stream' = streamWith(o, IF API[o].finalizer THEN [API[o] EXCEPT !.deleting = TRUE]
                               ELSE Absent(API[o].uid))
    /\ UNCHANGED <<depls, gwDepls, queue>> /\ UNCHANGED clusterVars

PodEvent(p, v) ==
    /\ Happens
    /\ v # pods[p] /\ (v.phase = "absent") = (v.node = NoNode)
    /\ v.phase = "running" => pods[p].phase = "absent"
    /\ v.phase = "terminating" => pods[p].phase = "running" /\ v.node = pods[p].node
    /\ pods' = [pods EXCEPT ![p] = v]
    /\ enqueueAll
    /\ UNCHANGED nodes /\ UNCHANGED objVars

NodeEvent(n, v) ==
    /\ Happens
    /\ v # nodes[n]
    /\ nodes' = [nodes EXCEPT ![n] = v]
    /\ enqueueAll
    /\ UNCHANGED pods /\ UNCHANGED objVars

Environment ==
    \/ \E o \in Overlays : Delete(o) \/ \E spec \in SUBSET Edges : Apply(o, spec)
    \/ \E p \in Pods, v \in Pod : PodEvent(p, v)
    \/ \E n \in Nodes, v \in NodeStates : NodeEvent(n, v)

Next ==
    \/ \E o \in Overlays : Begin(o)
    \/ Worker
    \/ Deliver \/ DeliverDepls
    \/ CallFails \/ GatewayFailsHalfway \/ InternalFailsHalfway \/ Restart
    \/ Environment

\* The worker goroutine and the informers keep running; the queue is first-in
\* first-out and retries back off, so that no key starves.
Fairness ==
    /\ \A o \in Overlays : SF_vars(Begin(o))
    /\ WF_vars(Worker) /\ WF_vars(Deliver) /\ WF_vars(DeliverDepls)

Spec == Init /\ [][Next]_vars /\ Fairness

-----------------------------------------------------------------------------
(* Properties.                                                             *)

\* Status implies finalizer: as soon as the operator has written anything into
\* an overlay's status, the object carries the finalizer that AddFinalizer put
\* there, however stale the cache was and whatever was deleted and re-created
\* under the same name in between.  A kubectl delete therefore always passes
\* through handleDeletion before the object and its edges disappear.
StatusNeedsFinalizer ==
    \A o \in Overlays :
        \/ API[o].community # 0 \/ API[o].key
        \/ API[o].gateways # {} \/ API[o].edges # {}
        => API[o].exists /\ API[o].finalizer

\* allocateCommunity skips the communities in use: no two overlays ever hold
\* the same one.
UniqueCommunities ==
    \A o1, o2 \in Overlays :
        o1 # o2 /\ API[o1].community # 0 => API[o1].community # API[o2].community

\* Reconciling an overlay again never changes the community it already has.
CommunityStable ==
    [][\A o \in Overlays :
          API[o].community # 0 /\ API'[o].exists => API'[o].community = API[o].community]_vars

\* handleDeletion tears down before it removes the finalizer: when an overlay
\* disappears, no internal Deployment is left on a node that only its edges used.
TeardownBeforeRemoval ==
    [][\A o \in Overlays :
          API[o].exists /\ ~API'[o].exists =>
              (readyNodes(API, {o}) \ readyNodes(API, Overlays \ {o})) \cap InternalDepls' = {}]_vars

AtRest == pc = "idle" /\ queue = {} /\ Len(stream) = 1 /\ Len(depls) = 1

\* When the operator has nothing left to do, the status of every overlay is the
\* one Reconcile would compute now, and none is waiting for its deletion.
RestStatusIsCurrent ==
    AtRest => \A o \in Overlays : API[o].exists =>
        /\ ~API[o].deleting /\ API[o].finalizer
        /\ API[o].community # 0 /\ API[o].key
        /\ API[o].gateways = buildGateways
        /\ API[o].edges = resolveEdges(API[o].spec)

\* EnsureInternalDeployments' target set: when the operator is at rest the
\* internal Deployments are exactly those of the nodes of Ready edges that are
\* not gateways, although the edges are resolved after the Deployments.
RestDeploymentsMatch == AtRest => InternalDepls = targetNodes(API, Overlays)

\* When the operator is at rest and has an overlay, both gateway Deployments
\* are pinned to the smallest node of their role and mount every overlay's key.
RestGatewaysMatch ==
    AtRest /\ (\E o \in Overlays : API[o].exists) =>
        \A r \in Roles :
            /\ gwDepls[r].exists
            /\ gwDepls[r].node = gatewayDeployment(r, API).node
            /\ {o \in Overlays : API[o].exists} \subseteq gwDepls[r].mounts

\* Each gateway Deployment mounts the Secrets of the overlays there are, when
\* the operator is at rest: none of an overlay that was removed.
RestMountsAreLive ==
    AtRest => \A r \in Roles : gwDepls[r].mounts \subseteq {o \in Overlays : API[o].exists}

\* An overlay that cannot be reconciled yet: its pod's Node is not known, or
\* the communities are used up.
Blocked ==
    \E o \in Overlays :
        /\ API[o].exists
        /\ \/ resolveFails(API[o].spec)
           \/ Cardinality({x \in Overlays : API[x].exists}) > MaxCommunity

\* Status patches trigger further reconciles and failed calls are retried, and
\* still the operator comes to rest once users and cluster do.
EventuallyAtRest == <>[](AtRest \/ Blocked)

-----------------------------------------------------------------------------
(* The invariant behind StatusNeedsFinalizer.  The life of the objects of  *)
(* one name is a number that only grows: created, finalizer added,         *)
(* deletion requested, removed, created again with the next uid.           *)

rank(v) ==
    4 * v.uid + (IF ~v.exists THEN 4 ELSE IF v.deleting THEN 3 ELSE IF v.finalizer THEN 2 ELSE 1)

isBound(v) == v.exists /\ v.finalizer /\ ~v.deleting

WellFormed(v) ==
    /\ v.finalizer => v.exists
    /\ v.deleting => v.finalizer
    /\ v.community # 0 \/ v.key \/ v.gateways # {} \/ v.edges # {} => v.finalizer

Window == 1..Len(stream)

\* The contents of the window are in the order of the object's life.
WindowInOrder(o) ==
    \A i, j \in Window : i <= j => rank(stream[i][o]) <= rank(stream[j][o])

\* While the cache may still show the finalizer on a live object, the object
\* of the API server has it.
BoundIsHeld(o) == \A i \in Window : isBound(stream[i][o]) => API[o].finalizer

stillDeleting(o, u) == API[o].deleting /\ API[o].uid = u

\* A deletion in the window is still pending, or no later object of that name
\* has a finalizer yet; and it was carried out only after the cache showed it.
DeletionIsSeen(o) ==
    \A i \in Window : stream[i][o].deleting =>
        /\ stillDeleting(o, stream[i][o].uid) \/ ~API[o].finalizer
        /\ \/ stillDeleting(o, stream[i][o].uid)
           \/ rank(Cache[o]) >= 4 * stream[i][o].uid + 3

\* What Reconcile relies on at its steps about the object it works on.
WorkerKnows ==
    /\ pc = "finalizer" /\ ~API[cur].finalizer =>
           \A i \in Window : ~stream[i][cur].deleting
    /\ pc \in {"gateways", "community", "keys", "gwDepls", "internal", "edges"} =>
           API[cur].finalizer
    /\ pc \in {"delInternal", "delFinalizer"} =>
           /\ rank(Cache[cur]) >= 4 * mem.uid + 3
           /\ API[cur].finalizer => stillDeleting(cur, mem.uid)

FinalizerInv ==
    /\ \A o \in Overlays :
          /\ \A i \in Window : WellFormed(stream[i][o])
          /\ WindowInOrder(o) /\ BoundIsHeld(o) /\ DeletionIsSeen(o)
    /\ WorkerKnows
=============================================================================
