------------------------------- MODULE Rollout -------------------------------
(***************************************************************************)
(* A rollout of the operator.  Its manager runs without leader election    *)
(* (cmd/operator/main.go), and its Deployment replaces the pod by starting *)
(* the new one first: for some time two operators reconcile the same       *)
(* overlays, each with its own caches and workqueue, against one API       *)
(* server.  Then the old one is terminated, wherever it is.                *)
(*                                                                         *)
(* The definitions and variables of OperatorReplica are the new operator's *)
(* here, and Old's are those of the old one; both share the gateway        *)
(* Deployments, Nodes and Pods.  Each write of one is an event for the     *)
(* other; the lag of the overlay caches lets one act on what it read       *)
(* before the other wrote.                                                 *)
(***************************************************************************)
EXTENDS OperatorReplica

ASSUME OneCommunityAssumption == MaxCommunity >= 1

VARIABLES
    oldStream, oldDepls, oldQueue, oldPc, oldCur, oldMem, oldList, oldSeen,
    alive   \* the old operator has not been terminated yet

Old == INSTANCE OperatorReplica WITH
    stream <- oldStream, depls <- oldDepls, queue <- oldQueue, pc <- oldPc,
    cur <- oldCur, mem <- oldMem, list <- oldList, seen <- oldSeen

oldLocal == <<oldQueue, oldPc, oldCur, oldMem, oldList, oldSeen>>
newLocal == <<queue, pc, cur, mem, list, seen>>
rolloutVars == <<vars, seen, oldStream, oldDepls, oldLocal, alive>>

\* An overlay that an operator alone has finished with.
reconciled ==
    [Absent(1) EXCEPT !.exists = TRUE, !.finalizer = TRUE, !.community = 1,
                      !.key = TRUE, !.gateways = buildGateways]

\* The old operator is at rest, with an overlay or without; the new one has just
\* started, and lists and queues what there is.
RolloutInit ==
    /\ nodes = InitNodes /\ pods = [p \in Pods |-> [phase |-> "absent", node |-> NoNode]]
    /\ queue \in {{}} \cup {{o} : o \in Overlays}
    /\ stream = <<[o \in Overlays |-> IF o \in queue THEN reconciled ELSE Absent(0)]>>
    /\ gwDepls = [r \in Roles |->
                    IF queue = {} THEN [exists |-> FALSE, node |-> NoNode, mounts |-> {}]
                    ELSE gatewayDeployment(r, Cache)]
    /\ depls = <<{}>> /\ seen = gwDepls
    /\ pc = "idle" /\ cur = NoOverlay /\ mem = Absent(0) /\ list = NothingListed
    /\ oldStream = stream /\ oldDepls = depls /\ oldQueue = {} /\ oldSeen = seen
    /\ oldPc = pc /\ oldCur = cur /\ oldMem = mem /\ oldList = list
    /\ env = 0 /\ faults = 0 /\ alive = TRUE

-----------------------------------------------------------------------------
(* A step of one operator, and what the other gets to see of it.           *)

NewFollows ==
    /\ stream' = Follow(stream, oldStream')
    /\ depls' = Follow(depls, oldDepls')
    /\ UNCHANGED <<newLocal, alive>>

OldFollows ==
    /\ oldStream' = IF alive THEN Follow(oldStream, stream') ELSE oldStream
    /\ oldDepls' = IF alive THEN Follow(oldDepls, depls') ELSE oldDepls
    /\ UNCHANGED alive

OldTake(o) == alive /\ Old!Take(o) /\ NewFollows

OldWork == alive /\ Old!Work /\ NewFollows

OldInform == alive /\ Old!Inform /\ NewFollows

NewTake(o) == Take(o) /\ OldFollows /\ UNCHANGED oldLocal

NewWork == Work /\ OldFollows /\ UNCHANGED oldLocal

NewInform == Inform /\ OldFollows /\ UNCHANGED oldLocal

-----------------------------------------------------------------------------
(* Users, the cluster, and the end of the old operator.                    *)

Edit ==
    /\ alive => Old!CachesAreRecent
    /\ \E o \in Overlays : Delete(o) \/ \E spec \in SUBSET Edges : Apply(o, spec)
    /\ OldFollows /\ UNCHANGED <<oldLocal, seen>>

\* The gateway label comes and goes; its other values are NetworkOverlayController's.
Relabel ==
    /\ \E n \in Nodes, v \in {"primary", "unlabeled"} : NodeEvent(n, v)
    /\ oldQueue' = oldQueue \cup {o \in Overlays : alive /\ Old!Cache[o].exists}
    /\ UNCHANGED <<oldStream, oldDepls, oldPc, oldCur, oldMem, oldList, oldSeen, seen, alive>>

\* What is left of the old operator does not matter.
Terminate ==
    /\ alive /\ faults < MaxFaults /\ faults' = faults + 1
    /\ alive' = FALSE
    /\ oldStream' = <<NothingListed>> /\ oldDepls' = <<{}>> /\ oldQueue' = {}
    /\ oldPc' = "idle" /\ oldCur' = NoOverlay /\ oldMem' = Absent(0)
    /\ oldList' = NothingListed /\ oldSeen' = seen
    /\ UNCHANGED <<gwDepls, nodes, pods, env, stream, depls, newLocal>>

RolloutNext ==
    \/ \E o \in Overlays : OldTake(o) \/ NewTake(o)
    \/ OldWork \/ NewWork \/ OldInform \/ NewInform
    \/ Edit \/ Relabel \/ Terminate

\* As for one operator, for each of the two.
RolloutFairness ==
    /\ \A o \in Overlays : SF_rolloutVars(OldTake(o)) /\ SF_rolloutVars(NewTake(o))
    /\ WF_rolloutVars(OldWork) /\ WF_rolloutVars(NewWork)
    /\ WF_rolloutVars(OldInform) /\ WF_rolloutVars(NewInform)

RolloutSpec == RolloutInit /\ [][RolloutNext]_rolloutVars /\ RolloutFairness

-----------------------------------------------------------------------------
(* Properties.                                                             *)

BothAtRest ==
    /\ AtRest /\ seen = gwDepls
    /\ alive => Old!AtRest /\ oldSeen = gwDepls

\* Whatever the two wrote over each other, and wherever the old one stopped: as
\* soon as one of them has nothing left to do, whatever the other is about to do,
\* every overlay's status is the one Reconcile would compute now.
RolloutStatusIsCurrent == RestStatusIsCurrent /\ (alive => Old!RestStatusIsCurrent)

\* While both operators run, each repairs what it wrote to the gateway
\* Deployments from an older list: when both are at rest these mount every
\* overlay's key, although neither need have seen what the other wrote last.
RolloutGatewaysMatch == alive /\ Old!AtRest => RestGatewaysMatch

\* Two operators that react to each other's patches still come to rest.
EventuallyBothAtRest == <>[](BothAtRest \/ Blocked)
=============================================================================
