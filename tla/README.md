# A TLA+ verification of pontifex

pontifex connects pods of one Kubernetes cluster to peer clusters. A user
declares a `NetworkOverlay`: peers, and edges that each expose one pod under a
virtual IP. The *operator* turns it into a BGP community, a WireGuard key,
gateway Deployments and one agent Deployment per node that hosts an exposed
pod, and writes the resolved edges into the object's status. The *agents* watch
the objects and converge their host: BGP neighbors and policies, VRFs, rules,
addresses, routes and firewall bridges on internal nodes, WireGuard interfaces
on gateways.

Both halves are reconcilers. They read a view of the world that may be old,
make several writes that may each fail, and run again when something changes.
What is hard about them is what the modules here are about: stale views,
interleavings with users and the cluster, failures half-way, restarts, and
whether the last run really leaves everything right.

## Inventory

| part of the system | source | state and operations | module |
|---|---|---|---|
| NetworkOverlay controller | `operator/internal/controller` | workqueue, cached objects, Reconcile and handleDeletion | `NetworkOverlayController` |
| gateway Deployments | `operator/internal/agent/gateway.go` | two Deployments: node, mounted Secrets | `NetworkOverlayController` |
| internal Deployments | `operator/internal/agent/internal.go` | one Deployment per node | `NetworkOverlayController` |
| WireGuard keys, agent RBAC | `operator/internal/wgkeys`, `agent/rbac.go` | stubs | by contract, in `NetworkOverlayController` |
| operator process | `operator/cmd/operator` | start, restart, two processes at once | `Rollout` |
| routes updater | `agent/internal/bgp/routes_updater.go` | latest snapshot; select loop | `RoutesUpdater` |
| internal-node routes | `reconcilers/routes/internalnode.go` | learned routes; VRFs, rules, addresses, routes, bridges of the host | `InternalRoutes` |
| gateway routes | `reconcilers/routes/gateway.go` | learned routes; global table | `GatewayRoutes` |
| gateway BGP | `reconcilers/bgp/gateway.go` | neighbors and policies of the BGP server | `GatewayBGP` |
| internal-node BGP | `reconcilers/bgp/internalnode.go` | neighbors, policies, advertisements | `InternalBGP` |
| WireGuard | `reconcilers/wireguard` | interfaces; not yet run by a manager | `WireGuard` |
| gateway manager | `agent/internal/controllers/gateway` | two goroutines on one BGP server | `GatewayAgent` |
| internal-node manager | `agent/internal/controllers/internalnode` | two goroutines | `InternalRoutes` and `InternalBGP`, one loop each |
| agent main | `agent/cmd/agent` | choice of a manager | `AgentBGP` |
| mediator, observer | `agent/internal/cluster` | stubs that never send | external: `Tick` |
| libs (GoBGP, netlink, firewall, wgctrl) | `agent/internal/libs` | stubs behind interfaces | external |
| configuration, deep copies | `config`, `zz_generated` | start-up, generated code | not modelled |

The `map` of PROJECT.json gives the source lines of every definition, and its
`hazards` the places where this code can go wrong in a way a test hardly meets.

## Modules

### NetworkOverlayController

`stream` holds the successive contents of the NetworkOverlay collection that
the informer has not moved past: its first element is the cache, which Get and
List read, and its last the API server, which Patch writes. `depls` is the same
for the internal Deployments. `MaxLag` and `MaxDeplLag` bound how many events
the caches may be behind when somebody acts; 0 is a cache that is always up to
date. Pods and Nodes are never written by the operator, so `pods` and `nodes`
are the cached view and `PodEvent`, `NodeEvent` the arrival of an event, which
queues every cached overlay (`enqueueAll`).

`pc` is the step of the running Reconcile: there is one action per API write,
with the cache reads before it, in the order of the code.

| action | code |
|---|---|
| `Begin` | the worker takes a key, Get, the branches on NotFound, deletion and finalizer |
| `AddFinalizer` | the finalizer patch |
| `PatchGateways` | buildGateways and the status.gateways patch |
| `AllocateCommunity` | allocateCommunity and the status.community patch |
| `EnsureKeys` | EnsureKeyPair and the status.publicKey patch |
| `EnsureGatewayDeployments` | List of all overlays, both gateway Deployments |
| `EnsureInternalDeployments` | the same function, with that list |
| `ResolveEdges` | resolveEdges and the status.edges patch |
| `TeardownInternal`, `RemoveFinalizer` | handleDeletion |
| `Deliver`, `DeliverDepls` | an informer moves on by one event; only overlays are queued |
| `CallFails`, `GatewayFailsHalfway`, `InternalFailsHalfway`, `Restart` | errors at any call, between the two gateway Deployments, in the midst of EnsureInternalDeployments; a restart |
| `Apply`, `Delete`, `PodEvent`, `NodeEvent` | users and cluster |

A merge patch carries only its own fields and no resource version, so it
changes those fields of whatever object has the name then, and its response
replaces the local copy. CreateOrUpdate chooses by the cached copy, so it fails
when cache and API server disagree about a Deployment. An error puts the key
back into the queue. `EnsureKeyPair` and `EnsureAgentRBAC` return
`errNotImplemented` in this repository; the model has them as their comments
and the controller's tests do, that is, able to succeed.

Simplifications: IPs are functions of the pod, node or edge that carries them;
a phase other than Running counts as no pod; the operator's finalizer is the
only one; list order is left out, because no decision of the operator depends
on it; a conflict on a gateway Deployment is a `CallFails`.

### OperatorReplica, Rollout

The manager has `LeaderElection: false`, so during a rollout of the operator's
Deployment the old and the new process reconcile at once. `OperatorReplica` is
`NetworkOverlayController` with the cached copy of the gateway Deployments that
CreateOrUpdate starts from: if another process has written since, it gets a
`Conflict`, or, when the old copy is what it wants, has `NothingToWrite`.
`Rollout` has two of it: it extends the module, whose state and steps are the
new operator's, and has an instance `Old` with queue, caches and worker of its
own. Both act on one API server: what one writes is an event in the other's
window (`Follow`). The old one is at rest when the new one starts, and may be
terminated at any point. Nodes and Pods reach both alike, and the only fault is
the termination; failing calls are `NetworkOverlayController`'s.

### Converge

What the comments on all `Reconcile` functions of the agent promise, as a
specification: a pass moves the actual state towards the desired one, never
removes a wanted key and never adds one that is not wanted, reports every
failing call, and ends with exactly the wanted keys if it reports none. It says
nothing about values of keys that existed before, because the code does not
look at them. `InternalRoutes`, `AgentBGP` (so `GatewayBGP` and `InternalBGP`)
and `WireGuard` implement it under refinement mappings that join their
collections into one: `want` is what the `buildDesired...` functions make of the snapshot,
`have` the host's or server's state, `busy` a Reconcile under way, `failed` its
collected errors.

### KeyedSync

The idiom all reconcilers of the agent share: list, remove the keys that are
not desired, add the desired keys the list does not have, skip keys that exist
whatever their value, collect errors and go on. `sync` is both loops in one
step, `pruned` and `filled` are the two loops on their own.

### RoutesUpdater, InternalRoutes, GatewayRoutes

`RoutesUpdater` is the receiving half of the two cases of `RoutesUpdater.Run`;
the routes reconciler of each mode adds what follows.

In `InternalRoutes` that are the five steps `reconcileVRFs` to
`reconcileBridges`, each with a set of keys whose calls fail. The host survives
a `Restart` of the agent, which loses its channels, `latest` and `learned`. A
rule is listed only while its table belongs to a managed VRF, as
`libs/routes/interface.go` says. An overlay has a VirtualCIDR (the CRD requires
the field) and a well-formed community. Route events are left free.

In `GatewayRoutes` it is one SyncRoutes of the learned routes whose community
is that of some overlay; the call sets the table or fails.

### GatewayBGP, InternalBGP, AgentBGP

`GatewayBGP` and `InternalBGP` are the BGP loops of the two managers with their
reconcilers: an action for each loop over RemoveNeighbor, RemovePolicy,
Withdraw, AddPolicy, AddNeighbor and Advertise. A snapshot has a list order:
a peer address that two overlays share goes to the first of them, a virtual IP
to the last. On an internal node the gateways of an overlay without a community
are neighbors already; on a gateway such an overlay is skipped.

`AgentBGP` is an agent process in the mode that `--mode` says, with the BGP
loop of that mode: it extends `InternalBGP` and has an instance of `GatewayBGP`
over the same variables.

### GatewayAgent

Both goroutines of a gateway's manager: `GatewayBGP` and `GatewayRoutes` with
their own subscriptions to the mediator. The BGP server between them is
external: it reports (`Report`), some time after it changed, the route of a
configured neighbor that announces one, tagged by the import policy that the
neighbor names. So what the routes loop hears depends on what the BGP loop has
configured, from a snapshot that may be older or newer than its own.

### WireGuard

`ReadKeys`, `RemoveInterfaces` and `EnsureInterfaces` are the three loops of
Reconcile. Key files (`mounted`) appear late or change with the pod; interfaces
stay on the host. Names are sequences that `ifaceName` cuts at `MaxName`. No
manager calls this reconciler, so the model may call it at any time.

In all modules of the agent a snapshot is one that the operator can produce
when it works as documented: communities are not shared between overlays. (Run
`duplicate_communities` shows that they can be; what agents do then is not
modelled.)

## Runs

`CHECK_DEADLOCK FALSE` is set everywhere but in `wireguard`: with the number of
outside events bounded, each of these systems comes to rest, and rest is what
the properties are about.

### What holds

| run | states | shows |
|---|---|---|
| `controller_fresh` | 1.1 M | with up-to-date caches, one fault: `UniqueCommunities`, `CommunityStable`, `TeardownBeforeRemoval`, and `RestDeploymentsMatch`, the operator never stops with the wrong agents deployed |
| `controller_lagging` | 0.8 M | caches one event behind, one fault, an edge that selects two pods: `RestStatusIsCurrent`, `RestGatewaysMatch`, `EventuallyAtRest` |
| `controller_stale` | 2.0 M | overlay cache two events behind, one fault, delete and re-create, two overlays for one community: `TypeOK`, `StatusNeedsFinalizer`, and `FinalizerInv`, the invariant of the proof |
| `rollout` | 0.2 M | two operators, caches one event behind, the old one terminated anywhere: they come to rest (`EventuallyBothAtRest`); either one at rest means the right status (`RolloutStatusIsCurrent`), both at rest the right gateway Deployments (`RolloutGatewaysMatch`) |
| `internal_routes` | 1.8 M | failed calls, two route events and a restart: `TypeOK`, `SettledHostMatches`, `HostConverges` (implements `Converge`), and `LiveStateKeptUntilRestart`: no trigger tears down what is wanted |
| `agent_bgp` | 1.6 M | both modes; a peer, a node address and a virtual IP that both overlays may have, any list order, one fault: `AgentTypeOK`, `AgentServerMatches`, `ServerConverges` (implements `Converge`) |
| `gateway_agent` | 1.3 M | two loops on different snapshots, one fault in either, one restart: `AgentTypeOK`, `SettledTableMatches`, `EventuallyQuiet`; `OwnPoliciesResolve` for unshared peers until a call fails |
| `wireguard` | 0.3 M | three overlays, two with one interface name, keys that come late, replaced pods, one fault: `TypeOK`, `ReadableOverlaysServed`, `SkippedLeftAlone`, `InterfacesConverge` (implements `Converge`) |

Each property has a mutant: a plausible slip in the code it is about (a status
predicate on the watch, a dropped error, a missing finalizer check, ...), under
which the run fails.

### What does not hold

Four runs show where the code departs from what its comments or tests say;
`findings` quotes both.

| run | what happens |
|---|---|
| `duplicate_communities` | allocation from a cached list that misses the last allocation |
| `dead_mounts` | handleDeletion does not touch the gateway Deployments |
| `stale_bridge` | an existing bridge is skipped although its pod IP changed |
| `event_before_snapshot` | after a restart, a BGP event before the first snapshot reconciles against nothing |

The same causes have further effects, which the passing properties are worded
around; TLC finds each of them when the wording or the bound is changed.

* With `MaxLag = 2` a retry on a copy that misses its own patch allocates a
  second community (`CommunityStable` fails).
* With `MaxLag = 1` another overlay's Reconcile still lists the one just
  removed and re-creates its agent, and with `MaxDeplLag = 1` a teardown does
  not see the last Deployment (`RestDeploymentsMatch` fails, and with
  `MaxDeplLag = 1` `TeardownBeforeRemoval` too).
* An old operator that writes the gateway Deployments from an old list and is
  then terminated leaves them so, as nobody watches Deployments; hence the
  `alive` in `RolloutGatewaysMatch`.
* A VRF keeps the table, and a policy or an advertised prefix the community, of
  an earlier overlay of the same name or virtual IP; the rule of a removed
  overlay stays, because its VRF goes first and the rule is not listed any
  more. Hence `SettledHostMatches` and `AgentServerMatches` compare names and
  listed rules, `Converge` promises keys, and `SettledTableMatches` asks for
  routes whose policy sets the present community.
* A shared neighbor keeps the policies of the overlay that went away, and a
  neighbor is added although AddPolicy failed; hence `OwnPoliciesResolve` is
  about unshared peers and stops at the first failure, and the routes that
  `SettledTableMatches` asks for are those of unshared peers. (The latter came
  out of the proof: `gateway_agent` has no shared peer.)
* Of two overlays with one interface name only one gets its interface; hence
  the "either" in `ReadableOverlaysServed`. All interfaces have the same listen
  port (`reconciler.go:82`), which the model leaves out.

### Bounds

Two overlays are enough for every interaction between overlays in this code
(allocation, remaining set, shared peers); two nodes give a gateway and an
internal node, whose labels may change. Four outside events (three where
liveness is checked) reach the longest
scenario of interest: create two overlays, start a pod, delete one. One fault
puts a failure or a restart at any point of it. A lag of 0, 1 and 2 events
separates what needs a fresh cache from what does not. Node and pod names are
numbers or model values; symmetry in the overlay names is used where no
liveness is checked, which is sound as no name is told apart from another.
For agents, two cluster changes include every change of the set of overlays, of
a community under the same name and of a pod behind a virtual IP, since a
debounced snapshot may skip what lies between; one prefix with a route of one
community or of both shows the first-match rule. `gateway_agent` has one peer,
of one overlay, and a second overlay that may take over its community: peers
interact only through shared addresses, which `agent_bgp` has. `rollout` has one
overlay, of which each operator may hold an old copy, without edges; two users'
or node events on top of an overlay that is already reconciled reach an edit
during the rollout and a removal after it. With two overlays and the same
events the properties hold too (3.8 M states), in a run that is too long to keep.
`wireguard` has names below, at and above the limit.

### Fairness

Operator: the worker and the informers are goroutines that keep running (weak
fairness); the workqueue is first-in first-out with a back-off that is bounded,
so a queued key is taken again and again (strong fairness of `Begin` for each
overlay, as another key's retries may come between). Nothing is assumed of
users, the cluster or faults. `EventuallyAtRest` leaves out the states in which
an overlay cannot be reconciled: the Node of its pod is unknown, or there are
more overlays than communities; there the code retries for ever on purpose.

Rollout: the same for each of the two processes; nothing makes the old one end.

Agent: both goroutines and the mediator keep running, and Go's select picks
among ready cases at random, so neither channel starves (weak fairness of each
case; a full channel stays full until it is read). The BGP server reports what
changed. A restart, a fault or an announcement need never come.

## Proofs

TLAPS proves every safety property, action property and refinement of the
passing runs: for any sets of overlays, nodes, pods, edges, peers, prefixes and
keys, and any lag and bounds. Each proof module extends the module it is about.

| module | theorems |
|---|---|
| `NetworkOverlayControllerProofs` | any lag: `TypeCorrect`, `FinalizerInvHolds`, `StatusNeedsFinalizerHolds`, `RestInvHolds`, `RestStatusIsCurrentHolds`, `RestGatewaysMatchHolds`; lemmas on the steps of an operator that is not alone |
| `FreshCacheProofs` | fresh caches: `UniqueCommunitiesWhenFresh`, `CommunityStableWhenFresh`, `TeardownBeforeRemovalWhenFresh`, `RestDeploymentsMatchWhenFresh` |
| `RolloutProofs` | two operators, any lag: `RolloutStatusIsCurrentHolds`, `RolloutGatewaysMatchHolds` |
| `KeyedSyncProofs` | lemmas on `sync`, `pruned`, `filled` and `both`: what a loop with failing calls leaves, and that it moves a collection towards the desired one; on list orders and on a channel of events |
| `InternalRoutesProofs` | `TypeCorrect`, `SettledHostMatchesHolds`, `LiveStateKeptUntilRestartHolds`, `HostConvergesHolds` |
| `AgentBGPProofs` | lemmas as in `GatewayAgentProofs` for an internal node's BGP loop; for both modes `AgentTypeCorrect`, `AgentServerMatchesHolds`, `ServerConvergesHolds` |
| `GatewayAgentProofs` | lemmas: the invariant of a gateway's BGP loop and its steps in `Converge`'s terms; `AgentTypeCorrect`, `OwnPoliciesResolveHolds`, `SettledTableMatchesHolds` |
| `WireGuardProofs` | `TypeCorrect`, `ReadableOverlaysServedHolds`, `SkippedLeftAloneHolds`, `InterfacesConvergeHolds` |

They rest on the named assumptions of the modules: bounds are naturals, sets
that are listed or counted are finite, the model values for "none" are no
members, (gateway BGP) no peer has the address of a node of this cluster, and
(rollout) there is a community, which the overlay of the initial state has.
"Fresh caches" is `MaxLag = 0`, for `TeardownBeforeRemoval` and `RestDeploymentsMatch` also `MaxDeplLag = 0`:
then `CachesAreRecent` says that a step that reads or writes finds each cache
equal to the API server. It is the assumption of run `controller_fresh`, and
"What does not hold" says what goes wrong without it. TLC checked the inductive
invariants of the operator and of the gateway's agent on the instances of the
runs before they were proved.

### The operator

`StatusNeedsFinalizer` is not inductive. A status patch goes to the object of
that name in the API server, while the finalizer was seen on a cached copy,
which may be of an object deleted and re-created since. The argument is about
the life of the objects of one name, numbered by `rank`: created, finalizer
added, deletion requested, removed, created again with the next uid. Ranks only
grow along `stream` (`WindowInOrder`). While some element of the window shows a
live object with the finalizer, the API server's object has it (`BoundIsHeld`):
to lose it, an object must be deleted, and that is done by the worker only
after the cache has shown the deletion (`DeletionIsSeen`), when all earlier
elements are out of the window. `WorkerKnows` carries this through the steps
of a Reconcile. That there is one worker is essential: `FinalizerInv` is neither
stated nor proved for two operators at once. `controller_stale` checks it.

`RestStatusIsCurrent` and `RestGatewaysMatch` follow from `RestInv`: for every
overlay that exists, its key is queued or a change of it is still in the window
(`retried`), or the running Reconcile is its own and works with the present
object (`OnCourse`, which lists what each step has found in place), or status
and gateway Deployments are up to date. A patch that changes something puts
itself into the window, so only a Reconcile all of whose patches change nothing
may end without a retry, and that one has found everything in place. No lag
matters, since a stale copy implies a pending event.

For two operators, `RestInv` is split. Its status part (`StatusInv`) holds for
each of them: the other's patch is an event in one's own window, so it makes the
overlay `retried`, and what one reads is never newer than one's window. The
part about the gateway Deployments has no such event, as nobody watches them,
and does not hold for each. It holds for the one that wrote them last, which
`RolloutInv` identifies by its cached copy: a copy equal to the Deployments
(`seen = gwDepls`) is needed to write them. If that operator wrote from an old
list, what the list misses is still in its window, so it owes a Reconcile to
the overlays concerned; if the other one then skips or loses a write
(`NothingToWrite`, `Conflict`), nothing is lost, for the first one repairs it.
Both windows end with the same contents of the API server, so at rest both
speak of the same overlays. `Terminate` may end the operator that is
responsible, after which only `StatusInv` of the new one is left; this is why
`RolloutGatewaysMatch` is about the time before. `RolloutProofs` uses the
lemmas of `NetworkOverlayControllerProofs` twice, for the new operator directly
and for the old one through an instance. TLC checked `RolloutInv` first, with
one overlay and with two.

With fresh caches, `CommunityStable` needs that the local copy has the object's
community until it is allocated (`CommunityKnown`), and `UniqueCommunities`
that the list does. `TeardownBeforeRemoval` and `RestDeploymentsMatch` need
`DeploymentInv`: between the List and the writes of the internal Deployments
nobody changes edges, and during handleDeletion the object stays in deletion
and no Deployment is outside the other overlays' nodes. `DeploymentsFollow`
adds that the Deployments are those of the target nodes (without the overlay
about to vanish), or that some overlay which cannot vanish (it has the
finalizer) has a Reconcile before it that will write them (`covered`).

### The agents

Each reconciler's invariant (`Inv`) says, for every step of a pass, what the
loops run so far have achieved unless a call has failed: which keys are gone,
and which are there. It speaks of the snapshot that the pass works with; its
`ChannelInv` adds that this is the cluster, or that a newer one is owed or in
the channel. (The WireGuard reconciler has no loop around it yet, and no
channel.) The lemmas of `KeyedSyncProofs` give what one loop does, for any set
of failing keys. The refinements of `Converge` are proved step by step from the
same lemmas.

`SettledTableMatches` combines both goroutines of a gateway: the BGP loop's
invariant, that of the routes updater, and `EventsInv` between them: for every
peer, the route the updater has learned, changed by the events still in the
channel, is the one the BGP server reported last.

### Only model-checked

Liveness (`EventuallyAtRest`, `EventuallyBothAtRest`, `EventuallyQuiet`), which
is out of the prover's reach.

## Plan

Composition: the operator's output as the agents' input, duplicate communities
included.

## Not modelled

Configuration and start-up, logging, generated code, the contents of pod
templates beyond node and mounts, RBAC objects, and the implementations behind
the agent's interfaces, which are stubs: the mediator, the BGP server, netlink,
the firewalls and wgctrl appear only as their comments and their callers take
them to be. The capacity of the BGP server's event channel (64) is left out,
as nothing in the repository sends on it. The parts of an agent stop together
when its context is cancelled, which is `Restart`. Timing appears only as
order: debouncing is the freedom of `Tick` to come late.
