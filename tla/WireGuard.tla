------------------------------ MODULE WireGuard ------------------------------
(***************************************************************************)
(* The WireGuard reconciler of a gateway (reconcilers/wireguard/           *)
(* reconciler.go) with the interfaces of the host and the private keys     *)
(* that the operator mounts into the agent's pod.                          *)
(*                                                                         *)
(* No manager calls this reconciler yet, so its caller is external: one    *)
(* call at a time, with the overlays of the cluster in some order.  The    *)
(* wg.Manager is a stub, modelled from its interface.  Keys and interfaces *)
(* have different lives: the kubelet may make a key file appear late, a    *)
(* replaced pod has the mounts of its own template, and the host keeps its *)
(* interfaces across both.                                                 *)
(*                                                                         *)
(* Simplifications: an overlay is its name, a sequence of bytes; its key   *)
(* is named by the overlay; a peer stands for its key, endpoint and IPs;   *)
(* the key files are read in one step.                                     *)
(***************************************************************************)
EXTENDS Integers, Sequences, KeyedSync

CONSTANTS
    Overlays,     \* names of NetworkOverlays, as sequences
    MaxName,      \* ifaceMaxLen less the length of ifacePrefix
    Peers,        \* entries of spec.peers
    MaxChanges,   \* bound: changes of the cluster and of the mounts
    MaxFaults     \* bound: steps of Reconcile in which calls fail

ASSUME ConstantsAssumption ==
    IsFiniteSet(Overlays) /\ MaxName \in Nat /\ MaxChanges \in Nat /\ MaxFaults \in Nat

VARIABLES
    cluster,      \* overlay -> its peers
    mounted,      \* overlays whose key file the pod can read
    snap,         \* Reconcile's `overlays': peers by overlay, and their order
    read,         \* overlays of snap whose key Reconcile could read
    pc,           \* the step of the running Reconcile; "start" before the first
    errs,         \* some call of the running or last Reconcile failed
    interfaces,   \* the host's interfaces: name -> key and peers
    changes, faults

vars == <<cluster, mounted, snap, read, pc, errs, interfaces, changes, faults>>

Cluster == UNION {[S -> SUBSET Peers] : S \in SUBSET Overlays}

Orders(S) ==
    {q \in [1..Cardinality(S) -> S] : \A i, j \in DOMAIN q : i # j => q[i] # q[j]}

NoOverlays == [view |-> [o \in {} |-> {}], order |-> <<>>]

Interface == [key : Overlays, peers : SUBSET Peers]

Init ==
    /\ cluster = NoOverlays.view /\ mounted = {}
    /\ snap = NoOverlays /\ read = {}
    /\ pc = "start" /\ errs = FALSE
    /\ interfaces = [n \in {} |-> {}]
    /\ changes = 0 /\ faults = 0

-----------------------------------------------------------------------------
(* What Reconcile derives from a snapshot and the keys it read.            *)

\* The name is cut at the limit of the kernel.
ifaceName(o) == SubSeq(o, 1, IF Len(o) > MaxName THEN MaxName ELSE Len(o))

sharers(s, n) == {i \in DOMAIN s.order : s.order[i] \in read /\ ifaceName(s.order[i]) = n}

config(s, o) == [key |-> o, peers |-> s.view[o]]

\* Of the overlays whose names are cut to the same one, the last in the list
\* overwrites the others.
desired ==
    [n \in {ifaceName(o) : o \in read} |->
        config(snap, snap.order[CHOOSE i \in sharers(snap, n) :
                                    \A j \in sharers(snap, n) : i >= j])]

skip == {ifaceName(o) : o \in DOMAIN snap.view \ read}

-----------------------------------------------------------------------------
(* Reconcile: read the keys, remove, ensure.                               *)

\* Mutant of ReadKeys: it walks the key directory instead of the snapshot.
ReadKeysOfDirectory ==
    /\ pc \in {"start", "idle"} /\ pc' = "remove" /\ errs' = FALSE
    /\ \E q \in Orders(DOMAIN cluster) : snap' = [view |-> cluster, order |-> q]
    /\ read' = mounted
    /\ UNCHANGED <<cluster, mounted, interfaces, changes, faults>>

ReadKeys ==
    /\ pc \in {"start", "idle"} /\ pc' = "remove" /\ errs' = FALSE
    /\ \E q \in Orders(DOMAIN cluster) : snap' = [view |-> cluster, order |-> q]
    /\ read' = DOMAIN cluster \cap mounted
    /\ UNCHANGED <<cluster, mounted, interfaces, changes, faults>>

Fails(F) ==
    \/ F = {} /\ UNCHANGED <<errs, faults>>
    \/ F # {} /\ faults < MaxFaults /\ faults' = faults + 1 /\ errs' = TRUE

PassUnchanged == UNCHANGED <<cluster, mounted, snap, read, changes>>

ListFails ==
    /\ pc = "remove" /\ pc' = "idle"
    /\ faults < MaxFaults /\ faults' = faults + 1 /\ errs' = TRUE
    /\ UNCHANGED interfaces /\ PassUnchanged

\* Mutant of RemoveInterfaces: an unreadable key is taken for no overlay.
RemoveInterfacesSkipped ==
    /\ pc = "remove" /\ pc' = "ensure"
    /\ \E F \in SUBSET orphans(interfaces, desired) :
          Fails(F) /\ interfaces' = pruned(interfaces, desired, F)
    /\ PassUnchanged

RemoveInterfaces ==
    /\ pc = "remove" /\ pc' = "ensure"
    /\ \E F \in SUBSET (orphans(interfaces, desired) \ skip) :
          Fails(F) /\ interfaces' = pruned(interfaces, desired, F \cup skip)
    /\ PassUnchanged

\* Mutants of EnsureInterfaces: interfaces that exist are skipped, as every
\* other reconciler does, and failing calls are logged but not returned.
EnsureInterfacesMissing ==
    /\ pc = "ensure" /\ pc' = "idle"
    /\ \E F \in SUBSET missing(interfaces, desired) :
          Fails(F) /\ interfaces' = filled(interfaces, desired, F)
    /\ PassUnchanged

EnsureInterfacesDropsErrors ==
    /\ pc = "ensure" /\ pc' = "idle"
    /\ \E F \in SUBSET missing(interfaces, desired) :
          interfaces' = filled(interfaces, desired, F)
    /\ UNCHANGED <<errs, faults>> /\ PassUnchanged

\* Unlike the other reconcilers this one also sets what exists already.
EnsureInterfaces ==
    /\ pc = "ensure" /\ pc' = "idle"
    /\ \E F \in SUBSET DOMAIN desired :
          /\ Fails(F)
          /\ interfaces' =
                [n \in DOMAIN interfaces \cup (DOMAIN desired \ F) |->
                    IF n \in DOMAIN desired \ F THEN desired[n] ELSE interfaces[n]]
    /\ PassUnchanged

-----------------------------------------------------------------------------
(* External: the cluster, the kubelet and the pod.                         *)

Happens == changes < MaxChanges /\ changes' = changes + 1

ClusterChange ==
    /\ Happens /\ cluster' \in Cluster \ {cluster}
    /\ UNCHANGED <<mounted, snap, read, pc, errs, interfaces, faults>>

KeyAppears ==
    /\ Happens
    /\ \E o \in DOMAIN cluster \ mounted : mounted' = mounted \cup {o}
    /\ UNCHANGED <<cluster, snap, read, pc, errs, interfaces, faults>>

\* The operator has changed the pod template's mounts; the new pod's files may
\* not be there yet.
PodReplaced ==
    /\ Happens
    /\ \E S \in SUBSET DOMAIN cluster : mounted' = S
    /\ snap' = NoOverlays /\ read' = {} /\ pc' = "start" /\ errs' = FALSE
    /\ UNCHANGED <<cluster, interfaces, faults>>

Next ==
    \/ ReadKeys \/ ListFails \/ RemoveInterfaces \/ EnsureInterfaces
    \/ ClusterChange \/ KeyAppears \/ PodReplaced

Spec == Init /\ [][Next]_vars

-----------------------------------------------------------------------------
(* Properties.                                                             *)

\* All state is well typed, and only overlays of the snapshot are read.
TypeOK ==
    /\ cluster \in Cluster /\ mounted \subseteq Overlays
    /\ snap.view \in Cluster /\ snap.order \in Orders(DOMAIN snap.view)
    /\ read \subseteq DOMAIN snap.view
    /\ pc \in {"start", "idle", "remove", "ensure"} /\ errs \in BOOLEAN
    /\ \A n \in DOMAIN interfaces :
          n \in {ifaceName(o) : o \in Overlays} /\ interfaces[n] \in Interface
    /\ changes \in 0..MaxChanges /\ faults \in 0..MaxFaults

\* One unreadable key does not hold up the others: after a pass with no failing
\* call no interface outlives the overlays of the snapshot, and every overlay
\* whose key was read has its interface, with its own key and current peers
\* unless another overlay's name is cut to the same one.
ReadableOverlaysServed ==
    pc = "idle" /\ ~errs =>
        /\ DOMAIN interfaces \subseteq {ifaceName(o) : o \in DOMAIN snap.view}
        /\ \A o \in read :
              /\ ifaceName(o) \in DOMAIN interfaces
              /\ interfaces[ifaceName(o)] \in
                    {config(snap, x) : x \in {x \in read : ifaceName(x) = ifaceName(o)}}

\* "If a key file is unreadable the overlay is skipped (neither created nor
\* removed)": no step of a pass touches the interface of such an overlay, nor
\* creates one, unless an overlay with a readable key has the same name.
SkippedLeftAlone ==
    [][\A n \in skip \ DOMAIN desired :
          pc \in {"remove", "ensure"} =>
            /\ n \in DOMAIN interfaces <=> n \in DOMAIN interfaces'
            /\ n \in DOMAIN interfaces => interfaces'[n] = interfaces[n]]_vars

Host == INSTANCE Converge WITH
    want <- desired, have <- interfaces, busy <- pc \in {"remove", "ensure"},
    failed <- errs \/ read # DOMAIN snap.view

\* The reconciler implements Converge: it only moves interfaces towards the
\* snapshot, and a pass that returns no error, all keys read, ends with exactly
\* the interfaces of the snapshot's overlays.
InterfacesConverge == Host!Spec
=============================================================================
