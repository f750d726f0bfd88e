--------------------------- MODULE WireGuardProofs ---------------------------
(***************************************************************************)
(* Proofs about WireGuard, for any finite set of overlays, any peers and   *)
(* any length at which interface names are cut.                            *)
(***************************************************************************)
EXTENDS WireGuard, KeyedSyncProofs

names(S) == {ifaceName(o) : o \in S}

\* Half-way through a pass without failing calls, no interface is left that
\* belongs to no overlay of the snapshot.
PrunedInv ==
    pc = "ensure" /\ ~errs => DOMAIN interfaces \subseteq names(DOMAIN snap.view)

Inv == TypeOK /\ PrunedInv /\ ReadableOverlaysServed

-----------------------------------------------------------------------------
(* What Reconcile derives from a snapshot.                                 *)

\* The overlays in a state of the cluster, and their peers.
LEMMA ClusterFacts ==
    ASSUME NEW c \in Cluster
    PROVE  DOMAIN c \subseteq Overlays /\ \A o \in DOMAIN c : c[o] \subseteq Peers
  BY DEF Cluster

\* Every overlay of the snapshot is in the list that Reconcile walks.
LEMMA SnapshotIsListed ==
    ASSUME TypeOK, NEW o \in DOMAIN snap.view
    PROVE  \E i \in DOMAIN snap.order : snap.order[i] = o
<1>1. DOMAIN snap.view \in SUBSET Overlays
  BY ClusterFacts DEF TypeOK
<1>2. IsFiniteSet(DOMAIN snap.view)
  BY <1>1, ConstantsAssumption, FS_Subset
<1>. QED
  BY <1>2, ListingIsOnto DEF TypeOK, Orders

\* An interface that Reconcile wants is the one of an overlay whose key it
\* read and whose name is cut to the interface's.
LEMMA DesiredFacts ==
    ASSUME TypeOK
    PROVE  /\ DOMAIN desired = names(read)
           /\ \A n \in DOMAIN desired :
                 \E x \in read : ifaceName(x) = n /\ desired[n] = config(snap, x)
<1>1. DOMAIN desired = names(read)
  BY DEF desired, names
<1>2. ASSUME NEW n \in DOMAIN desired
      PROVE  \E x \in read : ifaceName(x) = n /\ desired[n] = config(snap, x)
  <2>. DEFINE I == sharers(snap, n)
  <2>1. PICK o \in read : ifaceName(o) = n
    BY <1>1, <1>2 DEF names
  <2>2. PICK i \in DOMAIN snap.order : snap.order[i] = o
    BY SnapshotIsListed DEF TypeOK
  <2>3. i \in I
    BY <2>1, <2>2 DEF sharers
  <2>4. Cardinality(DOMAIN snap.view) \in Nat /\ I \in SUBSET (1..Cardinality(DOMAIN snap.view))
    <3>1. DOMAIN snap.view \in SUBSET Overlays
      BY ClusterFacts DEF TypeOK
    <3>2. Cardinality(DOMAIN snap.view) \in Nat
      BY <3>1, ConstantsAssumption, FS_Subset, FS_CardinalityType
    <3>. QED
      BY <3>2 DEF TypeOK, Orders, sharers
  <2>5. (CHOOSE k \in I : \A j \in I : k >= j) \in I
    BY <2>3, <2>4, LastIndex, Zenon
  <2>6. desired[n] = config(snap, snap.order[CHOOSE k \in I : \A j \in I : k >= j])
    BY <1>1, <1>2 DEF desired, names
  <2>. QED
    BY <2>5, <2>6, Zenon DEF sharers
<1>. QED
  BY <1>1, <1>2

\* A wanted interface is well typed.
LEMMA DesiredType ==
    ASSUME TypeOK, NEW n \in DOMAIN desired
    PROVE  n \in names(Overlays) /\ desired[n] \in Interface
<1>1. PICK x \in read : ifaceName(x) = n /\ desired[n] = config(snap, x)
  BY DesiredFacts
<1>2. x \in DOMAIN snap.view /\ x \in Overlays /\ snap.view[x] \subseteq Peers
  BY ClusterFacts DEF TypeOK
<1>. QED
  BY <1>1, <1>2 DEF names, config, Interface

\* The wanted interfaces stay the same during a pass.
LEMMA DesiredStays == ASSUME UNCHANGED <<snap, read>> PROVE desired' = desired /\ skip' = skip
  BY DEF desired, sharers, config, skip

-----------------------------------------------------------------------------
(* The invariant.                                                          *)

\* A fault is counted within its bound, and an error once seen is kept.
LEMMA FailsFacts ==
    ASSUME TypeOK, NEW F, Fails(F)
    PROVE  /\ faults' \in 0..MaxFaults /\ errs' \in BOOLEAN
           /\ errs => errs'
           /\ ~errs' => F = {}
<1>1. faults' \in 0..MaxFaults
  BY ConstantsAssumption DEF Fails, TypeOK
<1>2. errs' \in BOOLEAN /\ (errs => errs') /\ (~errs' => F = {})
  BY Zenon DEF Fails, TypeOK
<1>. QED
  BY <1>1, <1>2

\* The agent starts on a host without interfaces.
LEMMA InitInv == Init => Inv
<1>. SUFFICES ASSUME Init PROVE Inv
  OBVIOUS
<1>1. NoOverlays.view \in Cluster /\ DOMAIN NoOverlays.view = {}
  <2>1. [o \in {} |-> {}] \in [{} -> SUBSET Peers]
    OBVIOUS
  <2>. QED
    BY <2>1 DEF NoOverlays, Cluster
<1>2. NoOverlays.order \in Orders({})
  BY FS_EmptySet DEF NoOverlays, Orders
<1>3. DOMAIN interfaces = {} /\ changes \in 0..MaxChanges /\ faults \in 0..MaxFaults
  BY ConstantsAssumption DEF Init
<1>4. TypeOK
  BY <1>1, <1>2, <1>3, Zenon DEF Init, TypeOK
<1>. QED
  BY <1>4 DEF Inv, Init, PrunedInv, ReadableOverlaysServed

\* Reading the keys starts a pass with a listing of the cluster.
LEMMA ReadKeysInv == ASSUME Inv, ReadKeys PROVE Inv'
<1>1. PICK q \in Orders(DOMAIN cluster) : snap' = [view |-> cluster, order |-> q]
  BY DEF ReadKeys
<1>2. TypeOK'
  BY <1>1, Zenon DEF ReadKeys, Inv, TypeOK
<1>. QED
  BY <1>2 DEF Inv, ReadKeys, PrunedInv, ReadableOverlaysServed

\* A pass that cannot list the interfaces ends with an error.
LEMMA ListFailsInv == ASSUME Inv, ListFails PROVE Inv'
<1>1. TypeOK'
  BY ConstantsAssumption DEF ListFails, PassUnchanged, Inv, TypeOK
<1>. QED
  BY <1>1 DEF Inv, ListFails, PrunedInv, ReadableOverlaysServed

\* The removing loop leaves the interfaces of the snapshot's overlays only.
LEMMA RemoveInterfacesInv == ASSUME Inv, RemoveInterfaces PROVE Inv'
<1>1. PICK F \in SUBSET (orphans(interfaces, desired) \ skip) :
          Fails(F) /\ interfaces' = pruned(interfaces, desired, F \cup skip)
  BY DEF RemoveInterfaces
<1>2. /\ DOMAIN interfaces' = DOMAIN interfaces \cap (DOMAIN desired \cup F \cup skip)
      /\ \A n \in DOMAIN interfaces' : interfaces'[n] = interfaces[n]
  <2>1. PICK G : G = F \cup skip /\ interfaces' = pruned(interfaces, desired, G)
    BY <1>1
  <2>. QED
    BY <2>1, PrunedFacts
<1>3. TypeOK /\ faults' \in 0..MaxFaults /\ errs' \in BOOLEAN /\ (~errs' => F = {})
  BY <1>1, FailsFacts DEF Inv
<1>4. TypeOK'
  BY <1>2, <1>3, Zenon DEF RemoveInterfaces, PassUnchanged, TypeOK
<1>5. DOMAIN desired \subseteq names(DOMAIN snap.view) /\ skip \subseteq names(DOMAIN snap.view)
  BY <1>3, DesiredFacts DEF TypeOK, names, skip
<1>6. PrunedInv'
  BY <1>2, <1>3, <1>5 DEF PrunedInv, RemoveInterfaces, PassUnchanged, names, ifaceName
<1>. QED
  BY <1>4, <1>6 DEF Inv, RemoveInterfaces, ReadableOverlaysServed

\* The ensuring loop sets every interface that is wanted.
LEMMA EnsureInterfacesInv == ASSUME Inv, EnsureInterfaces PROVE Inv'
<1>1. PICK F \in SUBSET DOMAIN desired :
          /\ Fails(F)
          /\ interfaces' =
                [n \in DOMAIN interfaces \cup (DOMAIN desired \ F) |->
                    IF n \in DOMAIN desired \ F THEN desired[n] ELSE interfaces[n]]
  BY DEF EnsureInterfaces
<1>2. /\ DOMAIN interfaces' = DOMAIN interfaces \cup (DOMAIN desired \ F)
      /\ \A n \in DOMAIN desired \ F : interfaces'[n] = desired[n]
      /\ \A n \in DOMAIN interfaces \ (DOMAIN desired \ F) : interfaces'[n] = interfaces[n]
  BY <1>1
<1>3. /\ TypeOK /\ faults' \in 0..MaxFaults /\ errs' \in BOOLEAN
      /\ (~errs' => F = {}) /\ (errs => errs')
  BY <1>1, FailsFacts DEF Inv
<1>4. \A n \in DOMAIN interfaces' : n \in names(Overlays) /\ interfaces'[n] \in Interface
  BY <1>2, <1>3, DesiredType DEF TypeOK, names
<1>5. TypeOK'
  BY <1>3, <1>4, Zenon DEF EnsureInterfaces, PassUnchanged, TypeOK, names
<1>6. ASSUME ~errs' PROVE
        /\ DOMAIN interfaces' \subseteq names(DOMAIN snap.view)
        /\ \A o \in read :
              /\ ifaceName(o) \in DOMAIN interfaces'
              /\ interfaces'[ifaceName(o)] \in
                    {config(snap, x) : x \in {x \in read : ifaceName(x) = ifaceName(o)}}
  <2>1. F = {} /\ ~errs
    BY <1>3, <1>6
  <2>2. DOMAIN interfaces \subseteq names(DOMAIN snap.view)
    BY <2>1 DEF Inv, PrunedInv, EnsureInterfaces
  <2>3. DOMAIN desired = names(read) /\ names(read) \subseteq names(DOMAIN snap.view)
    BY <1>3, DesiredFacts DEF TypeOK, names
  <2>4. ASSUME NEW o \in read
        PROVE  /\ ifaceName(o) \in DOMAIN interfaces'
               /\ interfaces'[ifaceName(o)] \in
                     {config(snap, x) : x \in {x \in read : ifaceName(x) = ifaceName(o)}}
    <3>1. ifaceName(o) \in DOMAIN desired
      BY <2>3 DEF names
    <3>2. ifaceName(o) \in DOMAIN interfaces' /\ interfaces'[ifaceName(o)] = desired[ifaceName(o)]
      BY <1>2, <2>1, <3>1
    <3>. QED
      BY <1>3, <3>1, <3>2, DesiredFacts
  <2>. QED
    BY <1>2, <2>1, <2>2, <2>3, <2>4
<1>7. ReadableOverlaysServed'
  BY <1>6 DEF ReadableOverlaysServed, EnsureInterfaces, PassUnchanged, names
<1>. QED
  BY <1>5, <1>7 DEF Inv, EnsureInterfaces, PrunedInv

\* Nothing outside a pass touches the interfaces or the last snapshot but the
\* replacement of the pod, which forgets the snapshot.
LEMMA EnvironmentInv ==
    ASSUME Inv, ClusterChange \/ KeyAppears \/ PodReplaced PROVE Inv'
<1>1. changes' \in 0..MaxChanges
  BY ConstantsAssumption DEF Inv, TypeOK, ClusterChange, KeyAppears, PodReplaced, Happens
<1>2. CASE ClusterChange \/ KeyAppears
  <2>1. UNCHANGED <<snap, read, pc, errs, interfaces, faults>>
    BY <1>2 DEF ClusterChange, KeyAppears
  <2>2. cluster' \in Cluster /\ mounted' \subseteq Overlays
    BY <1>2, ClusterFacts DEF ClusterChange, KeyAppears, Inv, TypeOK
  <2>3. TypeOK'
    BY <1>1, <2>1, <2>2 DEF Inv, TypeOK, ifaceName
  <2>. QED
    BY <2>1, <2>3, Zenon DEF Inv, PrunedInv, ReadableOverlaysServed, names, config, ifaceName
<1>3. CASE PodReplaced
  <2>1. NoOverlays.view \in Cluster /\ NoOverlays.order \in Orders(DOMAIN NoOverlays.view)
    <3>1. [o \in {} |-> {}] \in [{} -> SUBSET Peers]
      OBVIOUS
    <3>2. NoOverlays.view \in Cluster /\ DOMAIN NoOverlays.view = {}
      BY <3>1, Zenon DEF NoOverlays, Cluster
    <3>3. NoOverlays.order \in Orders({})
      BY FS_EmptySet DEF NoOverlays, Orders
    <3>. QED
      BY <3>2, <3>3
  <2>2. mounted' \subseteq Overlays
    BY <1>3, ClusterFacts DEF PodReplaced, Inv, TypeOK
  <2>3. TypeOK'
    BY <1>1, <1>3, <2>1, <2>2, Zenon DEF PodReplaced, Inv, TypeOK, ifaceName
  <2>. QED
    BY <1>3, <2>3 DEF PodReplaced, Inv, PrunedInv, ReadableOverlaysServed
<1>. QED
  BY <1>2, <1>3

\* Every step keeps the invariant.
LEMMA NextInv == Inv /\ [Next]_vars => Inv'
<1>. SUFFICES ASSUME Inv, [Next]_vars PROVE Inv'
  OBVIOUS
<1>1. CASE UNCHANGED vars
  BY <1>1, Zenon DEF vars, Inv, TypeOK, PrunedInv, ReadableOverlaysServed, names, config, ifaceName
<1>. QED
  BY <1>1, ReadKeysInv, ListFailsInv, RemoveInterfacesInv, EnsureInterfacesInv, EnvironmentInv
     DEF Next

\* The inductive invariant holds in every reachable state.
LEMMA InvHolds == Spec => []Inv
  BY InitInv, NextInv, PTL DEF Spec

\* All state of the reconciler and of the host is well typed.
THEOREM TypeCorrect == Spec => []TypeOK
<1>1. Inv => TypeOK
  BY DEF Inv
<1>. QED
  BY <1>1, InvHolds, PTL

\* After a pass without failing calls every overlay whose key was read has its
\* interface, however many keys are unreadable and however names collide.
THEOREM ReadableOverlaysServedHolds == Spec => []ReadableOverlaysServed
<1>1. Inv => ReadableOverlaysServed
  BY DEF Inv
<1>. QED
  BY <1>1, InvHolds, PTL

-----------------------------------------------------------------------------
(* What a step never does.                                                 *)

\* The step of SkippedLeftAlone.
LeavesSkipped ==
    \A n \in skip \ DOMAIN desired :
        pc \in {"remove", "ensure"} =>
          /\ n \in DOMAIN interfaces <=> n \in DOMAIN interfaces'
          /\ n \in DOMAIN interfaces => interfaces'[n] = interfaces[n]

\* Neither loop of a pass touches the interface of an overlay whose key it could
\* not read, even if calls fail.
LEMMA NextLeavesSkipped == [Next]_vars => [LeavesSkipped]_vars
<1>. SUFFICES ASSUME Next, NEW n \in skip \ DOMAIN desired, pc \in {"remove", "ensure"}
              PROVE  /\ n \in DOMAIN interfaces <=> n \in DOMAIN interfaces'
                     /\ n \in DOMAIN interfaces => interfaces'[n] = interfaces[n]
  BY DEF LeavesSkipped
<1>1. CASE RemoveInterfaces
  <2>1. PICK F \in SUBSET (orphans(interfaces, desired) \ skip) :
            interfaces' = pruned(interfaces, desired, F \cup skip)
    BY <1>1, Zenon DEF RemoveInterfaces
  <2>2. PICK G : G = F \cup skip
    BY Zenon
  <2>. QED
    BY <2>1, <2>2, PrunedFacts
<1>2. CASE EnsureInterfaces
  BY <1>2 DEF EnsureInterfaces
<1>3. CASE ListFails \/ ClusterChange \/ KeyAppears \/ PodReplaced
  BY <1>3 DEF ListFails, ClusterChange, KeyAppears, PodReplaced
<1>4. ~ReadKeys
  BY DEF ReadKeys
<1>. QED
  BY <1>1, <1>2, <1>3, <1>4 DEF Next

\* "If a key file is unreadable the overlay is skipped (neither created nor
\* removed)" by any step of any pass.
THEOREM SkippedLeftAloneHolds == Spec => SkippedLeftAlone
  BY NextLeavesSkipped, PTL DEF Spec, SkippedLeftAlone, LeavesSkipped

-----------------------------------------------------------------------------
(* The reconciler implements Converge.                                     *)

\* A host without interfaces is an initial state of Converge.
LEMMA InitConverges == Init => Host!Init
  BY DEF Init, Host!Init

\* What Moves says of the loop that changes the interfaces.
LEMMA TowardsIsMoves == Towards(interfaces, desired, interfaces') <=> Host!Moves
  BY DEF Towards, Host!Moves

\* Every step of the reconciler is a step of Converge or leaves it alone.
LEMMA NextConverges ==
    Inv /\ [Next]_vars =>
        [Host!Begin \/ Host!Step \/ Host!End \/ Host!Crash]_Host!vars
<1>. SUFFICES ASSUME Inv, [Next]_vars
              PROVE  Host!Begin \/ Host!Step \/ Host!End \/ Host!Crash \/ UNCHANGED Host!vars
  OBVIOUS
<1>. DEFINE allRead == read = DOMAIN snap.view
<1>1. CASE ReadKeys
  <2>1. Host!Begin
    BY <1>1 DEF ReadKeys, Host!Begin
  <2>. QED
    BY <2>1
<1>2. CASE ListFails
  <2>1. desired' = desired /\ allRead' = allRead
    BY <1>2, DesiredStays DEF ListFails, PassUnchanged
  <2>2. Host!Moves
    BY <1>2, StayTowards, TowardsIsMoves DEF ListFails
  <2>3. Host!End
    BY <1>2, <2>1, <2>2 DEF ListFails, Host!End
  <2>. QED
    BY <2>3
<1>3. CASE RemoveInterfaces
  <2>1. PICK F \in SUBSET (orphans(interfaces, desired) \ skip) :
            Fails(F) /\ interfaces' = pruned(interfaces, desired, F \cup skip)
    BY <1>3 DEF RemoveInterfaces
  <2>0. PICK G : G = F \cup skip
    BY Zenon
  <2>2. desired' = desired /\ allRead' = allRead
    BY <1>3, DesiredStays DEF RemoveInterfaces, PassUnchanged
  <2>3. errs => errs'
    BY <2>1, FailsFacts DEF Inv
  <2>4. Host!Moves
    BY <2>0, <2>1, PrunedFacts, TowardsIsMoves
  <2>5. Host!Step
    BY <1>3, <2>2, <2>3, <2>4 DEF RemoveInterfaces, Host!Step
  <2>. QED
    BY <2>5
<1>4. CASE EnsureInterfaces
  <2>1. PICK F \in SUBSET DOMAIN desired :
            /\ Fails(F)
            /\ interfaces' =
                  [n \in DOMAIN interfaces \cup (DOMAIN desired \ F) |->
                      IF n \in DOMAIN desired \ F THEN desired[n] ELSE interfaces[n]]
    BY <1>4 DEF EnsureInterfaces
  <2>2. desired' = desired /\ allRead' = allRead
    BY <1>4, DesiredStays DEF EnsureInterfaces, PassUnchanged
  <2>3. (errs => errs') /\ (~errs' => F = {})
    BY <2>1, FailsFacts DEF Inv
  <2>4. Towards(interfaces, desired, interfaces')
    BY <2>1 DEF Towards
  <2>5. ASSUME ~errs', allRead PROVE DOMAIN interfaces' = DOMAIN desired
    <3>1. DOMAIN interfaces \subseteq names(read)
      BY <1>4, <2>3, <2>5 DEF Inv, PrunedInv, EnsureInterfaces
    <3>2. DOMAIN desired = names(read)
      BY DesiredFacts DEF Inv
    <3>. QED
      BY <2>1, <2>3, <2>5, <3>1, <3>2
  <2>6. Host!End
    BY <1>4, <2>2, <2>3, <2>4, <2>5, TowardsIsMoves DEF EnsureInterfaces, Host!End
  <2>. QED
    BY <2>6
<1>5. CASE ClusterChange \/ KeyAppears \/ UNCHANGED vars
  <2>1. UNCHANGED <<snap, read, pc, errs, interfaces>>
    BY <1>5 DEF ClusterChange, KeyAppears, vars
  <2>2. UNCHANGED Host!vars
    BY <2>1, DesiredStays DEF Host!vars
  <2>. QED
    BY <2>2
<1>6. CASE PodReplaced
  <2>1. read' = {} /\ interfaces' = interfaces /\ pc' = "start"
    BY <1>6 DEF PodReplaced
  <2>2. DOMAIN desired' = {}
    BY <2>1 DEF desired
  <2>3. Host!Crash
    BY <2>1, <2>2 DEF Host!Crash
  <2>. QED
    BY <2>3
<1>. QED
  BY <1>1, <1>2, <1>3, <1>4, <1>5, <1>6 DEF Next

\* Across passes, failures and replaced pods the reconciler implements Converge:
\* it never moves an interface away from the snapshot, and a pass that reports
\* no error ends with exactly the interfaces of the snapshot's overlays.
THEOREM InterfacesConvergeHolds == Spec => InterfacesConverge
  BY InitConverges, NextConverges, InvHolds, PTL DEF Spec, InterfacesConverge, Host!Spec
=============================================================================
