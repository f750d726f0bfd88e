--------------------------- MODULE OperatorReplica ---------------------------
(***************************************************************************)
(* One of several operators at work at once: NetworkOverlayController with *)
(* the copy of the gateway Deployments that its CreateOrUpdate Gets from   *)
(* the cache.  Alone, an operator need not look at that copy; with another *)
(* writer it may be old.  CreateOrUpdate then writes nothing if the old    *)
(* copy is what it wants, and otherwise gets a Conflict from the API       *)
(* server.                                                                 *)
(***************************************************************************)
EXTENDS NetworkOverlayController

VARIABLE seen   \* the gateway Deployments as cached

wanted == [r \in Roles |-> gatewayDeployment(r, Cache)]

\* A replica's own write is in its cache when it writes again.
Write ==
    /\ Worker /\ (pc = "gwDepls" => seen = gwDepls)
    /\ seen' = IF pc = "gwDepls" THEN gwDepls' ELSE seen

Conflict ==
    /\ pc = "gwDepls" /\ CachesAreRecent /\ seen # gwDepls /\ wanted # seen
    /\ Requeue
    /\ UNCHANGED <<objVars, seen>> /\ WorkerUnchanged

NothingToWrite ==
    /\ pc = "gwDepls" /\ CachesAreRecent /\ seen # gwDepls /\ wanted = seen
    /\ list' = Cache /\ pc' = "internal"
    /\ UNCHANGED <<objVars, seen, cur, mem, queue>> /\ WorkerUnchanged

Work == Write \/ Conflict \/ NothingToWrite

Take(o) == Begin(o) /\ UNCHANGED seen

\* The informers: NetworkOverlays, internal Deployments, gateway Deployments.
Inform ==
    \/ (Deliver \/ DeliverDepls) /\ UNCHANGED seen
    \/ /\ seen # gwDepls /\ seen' = gwDepls
       /\ UNCHANGED <<objVars, queue, workerVars>> /\ WorkerUnchanged

\* The window of one replica when another's API writes have led to `other'.
Follow(window, other) ==
    IF other[Len(other)] = window[Len(window)] THEN window
    ELSE Append(window, other[Len(other)])
=============================================================================
