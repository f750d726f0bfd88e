-------------------------- MODULE GatewayAgentProofs --------------------------
(***************************************************************************)
(* Proofs about GatewayAgent, for any finite set of overlays, any peers    *)
(* and internal nodes, either role of the gateway, and across restarts:    *)
(* first the BGP loop alone (GatewayBGP), then the routes updater beside   *)
(* it and the server between them.                                         *)
(***************************************************************************)
EXTENDS GatewayAgent, KeyedSyncProofs

-----------------------------------------------------------------------------
(* What Reconcile derives from a snapshot.                                 *)

\* What the fields of an overlay in a snapshot can be.
LEMMA ViewFacts ==
    ASSUME NEW s \in Snapshot, NEW o \in Overlays
    PROVE  /\ s.view \in Cluster
           /\ s.view[o].community \in 0..MaxCommunity
           /\ s.view[o].peers \subseteq PeersOf[o]
           /\ s.view[o].edges \subseteq NodeIPs
<1>1. s.view \in Cluster
  BY DEF Snapshot
<1>2. s.view[o] \in OverlayView /\ s.view[o].peers \subseteq PeersOf[o]
  BY <1>1 DEF Cluster
<1>. QED
  BY <1>1, <1>2 DEF OverlayView

\* A position in the list that claims an address is one of an overlay.
LEMMA ListedFacts ==
    ASSUME NEW s \in Snapshot, NEW i \in DOMAIN s.order
    PROVE  s.order[i] \in Overlays /\ i \in Nat
<1>1. s.order \in [1..Cardinality(Overlays) -> Overlays]
  BY DEF Snapshot, Orders
<1>2. Cardinality(Overlays) \in Nat
  BY ConstantsAssumption, FS_CardinalityType
<1>. QED
  BY <1>1, <1>2

\* The overlay whose policies a peer gets lists that peer.
LEMMA OwnerFacts ==
    ASSUME NEW s \in Snapshot, NEW a, claims(s, a) # {}
    PROVE  owner(s, a) \in Overlays /\ a \in s.view[owner(s, a)].peers
<1>1. claims(s, a) \in SUBSET Nat
  BY ListedFacts DEF claims
<1>. DEFINE i == CHOOSE i \in claims(s, a) : \A j \in claims(s, a) : i <= j
<1>2. i \in claims(s, a)
  BY <1>1, FirstIndex
<1>3. owner(s, a) = s.order[i]
  BY DEF owner
<1>. HIDE DEF i
<1>. QED
  BY <1>2, <1>3, ListedFacts DEF claims

\* An overlay that lists a peer has a community: in a cluster's state only an
\* overlay with a community has peers.
LEMMA ListingIsActive ==
    ASSUME NEW s \in Snapshot, NEW o \in Overlays,
           s.view[o].peers # {} \/ s.view[o].edges # {}
    PROVE  o \in active(s.view)
  BY ViewFacts DEF Cluster, active

\* The neighbors that Reconcile wants, and the policies they name.
LEMMA DesiredNeighborsFacts ==
    ASSUME NEW s \in Snapshot
    PROVE  /\ \A a : a \in DOMAIN buildDesiredNeighbors(s) <=>
                       \E o \in active(s.view) : a \in s.view[o].peers \/ a \in s.view[o].edges
           /\ \A a \in DOMAIN buildDesiredNeighbors(s) :
                 /\ a \in Addresses
                 /\ \A n \in buildDesiredNeighbors(s)[a] :
                       \E k \in Kinds, o \in active(s.view) :
                           n = <<k, o>> /\ a \in s.view[o].peers /\ a \in PeersOf[o]
<1>1. \A a : a \in DOMAIN buildDesiredNeighbors(s) <=>
               \E o \in active(s.view) : a \in s.view[o].peers \/ a \in s.view[o].edges
  BY DEF buildDesiredNeighbors
<1>2. ASSUME NEW a \in DOMAIN buildDesiredNeighbors(s) PROVE a \in Addresses
  <2>1. PICK o \in active(s.view) : a \in s.view[o].peers \/ a \in s.view[o].edges
    BY <1>1, <1>2
  <2>2. o \in Overlays
    BY DEF active
  <2>. QED
    BY <2>1, <2>2, ViewFacts DEF Addresses
<1>3. ASSUME NEW a \in DOMAIN buildDesiredNeighbors(s), NEW n \in buildDesiredNeighbors(s)[a]
      PROVE  \E k \in Kinds, o \in active(s.view) :
                 n = <<k, o>> /\ a \in s.view[o].peers /\ a \in PeersOf[o]
  <2>1. buildDesiredNeighbors(s)[a] = IF claims(s, a) = {} THEN {} ELSE Kinds \X {owner(s, a)}
    BY DEF buildDesiredNeighbors
  <2>2. claims(s, a) # {} /\ n \in Kinds \X {owner(s, a)}
    BY <2>1
  <2>3. owner(s, a) \in Overlays /\ a \in s.view[owner(s, a)].peers
    BY <2>2, OwnerFacts
  <2>4. owner(s, a) \in active(s.view) /\ a \in PeersOf[owner(s, a)]
    BY <2>3, ListingIsActive, ViewFacts
  <2>5. \E k \in Kinds : n = <<k, owner(s, a)>>
    BY <2>2
  <2>. QED
    BY <2>3, <2>4, <2>5
<1>. QED
  BY <1>1, <1>2, <1>3

\* The policies that Reconcile wants: those of the overlays with a community.
LEMMA DesiredPoliciesFacts ==
    ASSUME NEW s \in Snapshot
    PROVE  /\ DOMAIN buildDesiredPolicies(s) = Kinds \X active(s.view)
           /\ \A n \in DOMAIN buildDesiredPolicies(s) :
                 n \in PolicyNames /\ buildDesiredPolicies(s)[n] \in 1..MaxCommunity
<1>1. DOMAIN buildDesiredPolicies(s) = Kinds \X active(s.view)
  BY DEF buildDesiredPolicies
<1>2. ASSUME NEW n \in DOMAIN buildDesiredPolicies(s)
      PROVE  n \in PolicyNames /\ buildDesiredPolicies(s)[n] \in 1..MaxCommunity
  <2>1. n[2] \in Overlays /\ s.view[n[2]].community # 0 /\ n \in PolicyNames
    BY <1>1, <1>2 DEF active, PolicyNames
  <2>2. s.view[n[2]].community \in 1..MaxCommunity
    BY <2>1, ViewFacts, ConstantsAssumption
  <2>. QED
    BY <2>1, <2>2 DEF buildDesiredPolicies
<1>. QED
  BY <1>1, <1>2

-----------------------------------------------------------------------------
(* The inductive invariant of the BGP loop.                                *)

\* No update is lost: when the mediator owes nothing, the newest snapshot, in
\* the channel or in the loop, is the cluster.
ChannelInv ==
    ~owed => IF snapshots = <<>> THEN snap.view = cluster ELSE snapshots[1].view = cluster

\* How far a pass without failing calls has come at each of its steps.
PassInv ==
    ~errs =>
        /\ pc \in {"removePolicies", "addPolicies", "addNeighbors"} =>
               DOMAIN neighbors \subseteq DOMAIN buildDesiredNeighbors(snap)
        /\ pc \in {"addPolicies", "addNeighbors"} =>
               DOMAIN policies \subseteq DOMAIN buildDesiredPolicies(snap)
        /\ pc = "addNeighbors" =>
               DOMAIN buildDesiredPolicies(snap) \subseteq DOMAIN policies

Inv == TypeOK /\ ChannelInv /\ PassInv /\ SettledServerMatches

\* What a step of a pass leaves alone, and what failing calls do.
LEMMA FailsFacts ==
    ASSUME TypeOK, NEW F, Fails(F)
    PROVE  /\ faults' \in 0..MaxFaults /\ errs' \in BOOLEAN
           /\ errs => errs'
           /\ ~errs' => F = {}
           /\ faults' = 0 => faults = 0 /\ F = {}
<1>1. faults' \in 0..MaxFaults /\ (faults' = 0 => faults = 0 /\ F = {})
  BY ConstantsAssumption DEF Fails, TypeOK
<1>2. errs' \in BOOLEAN /\ (errs => errs') /\ (~errs' => F = {})
  BY Zenon DEF Fails, TypeOK
<1>. QED
  BY <1>1, <1>2

\* The server starts empty, and the first tick is owed.
LEMMA InitInv == Init => Inv
<1>. SUFFICES ASSUME Init PROVE Inv
  OBVIOUS
<1>1. cluster \in Cluster
  <2>1. Unreconciled \in OverlayView
    <3>1. 0 \in 0..MaxCommunity
      BY ConstantsAssumption
    <3>. QED
      BY <3>1 DEF Unreconciled, OverlayView
  <2>. QED
    BY <2>1 DEF Init, Cluster, Unreconciled
<1>2. snap \in Snapshot
  BY <1>1 DEF Init, Snapshot
<1>3. TypeOK
  <2>1. snapshots \in Seq(Snapshot) /\ Len(snapshots) <= 1
    BY DEF Init
  <2>2. DOMAIN neighbors = {} /\ DOMAIN policies = {}
    BY DEF Init
  <2>3. changes \in 0..MaxChanges /\ faults \in 0..MaxFaults
    BY ConstantsAssumption DEF Init
  <2>. QED
    BY <1>1, <1>2, <2>1, <2>2, <2>3, Zenon DEF Init, TypeOK
<1>. QED
  BY <1>3 DEF Inv, Init, ChannelInv, PassInv, SettledServerMatches, Settled

\* A pass begins with the snapshot that was in the channel.
LEMMA TakeSnapshotInv == ASSUME Inv, TakeSnapshot PROVE Inv'
<1>1. snap' = snapshots[1] /\ snap' \in Snapshot /\ snapshots' = <<>>
  BY ReceiveFacts DEF Inv, TypeOK, TakeSnapshot
<1>2. snapshots' \in Seq(Snapshot) /\ Len(snapshots') <= 1
  BY <1>1
<1>3. TypeOK'
  BY <1>1, <1>2, Zenon DEF Inv, TypeOK, TakeSnapshot
<1>4. ChannelInv'
  BY <1>1 DEF Inv, ChannelInv, TakeSnapshot
<1>. QED
  BY <1>3, <1>4 DEF Inv, TakeSnapshot, PassInv, SettledServerMatches, Settled

\* The first loop of a pass leaves wanted neighbors only.
LEMMA RemoveNeighborsInv == ASSUME Inv, RemoveNeighbors PROVE Inv'
<1>. DEFINE want == buildDesiredNeighbors(snap)
<1>1. PICK F \in SUBSET orphans(neighbors, want) :
          Fails(F) /\ neighbors' = pruned(neighbors, want, F)
  BY DEF RemoveNeighbors
<1>. HIDE DEF want
<1>2. /\ \A a : a \in DOMAIN neighbors' <=> a \in DOMAIN neighbors /\ (a \in DOMAIN want \/ a \in F)
      /\ \A a \in DOMAIN neighbors' : neighbors'[a] = neighbors[a]
  BY <1>1, PrunedFacts
<1>3. faults' \in 0..MaxFaults /\ errs' \in BOOLEAN /\ (errs => errs') /\ (~errs' => F = {})
  BY <1>1, FailsFacts DEF Inv
<1>4. TypeOK'
  BY <1>2, <1>3 DEF Inv, TypeOK, RemoveNeighbors, LoopUnchanged
<1>5. PassInv'
  BY <1>2, <1>3 DEF PassInv, RemoveNeighbors, LoopUnchanged, want
<1>. QED
  BY <1>4, <1>5 DEF Inv, ChannelInv, SettledServerMatches, Settled, RemoveNeighbors, LoopUnchanged

\* The second loop leaves wanted policies only.
LEMMA RemovePoliciesInv == ASSUME Inv, RemovePolicies PROVE Inv'
<1>. DEFINE want == buildDesiredPolicies(snap)
<1>1. PICK F \in SUBSET orphans(policies, want) :
          Fails(F) /\ policies' = pruned(policies, want, F)
  BY DEF RemovePolicies
<1>. HIDE DEF want
<1>2. /\ \A n : n \in DOMAIN policies' <=> n \in DOMAIN policies /\ (n \in DOMAIN want \/ n \in F)
      /\ \A n \in DOMAIN policies' : policies'[n] = policies[n]
  BY <1>1, PrunedFacts
<1>3. faults' \in 0..MaxFaults /\ errs' \in BOOLEAN /\ (errs => errs') /\ (~errs' => F = {})
  BY <1>1, FailsFacts DEF Inv
<1>4. TypeOK'
  BY <1>2, <1>3 DEF Inv, TypeOK, RemovePolicies, LoopUnchanged
<1>5. PassInv'
  BY <1>2, <1>3 DEF Inv, PassInv, RemovePolicies, LoopUnchanged, want
<1>. QED
  BY <1>4, <1>5 DEF Inv, ChannelInv, SettledServerMatches, Settled, RemovePolicies, LoopUnchanged

\* The third loop adds the policies that are missing.
LEMMA AddPoliciesInv == ASSUME Inv, AddPolicies PROVE Inv'
<1>. DEFINE want == buildDesiredPolicies(snap)
<1>1. PICK F \in SUBSET missing(policies, want) :
          Fails(F) /\ policies' = filled(policies, want, F)
  BY DEF AddPolicies
<1>2. \A n \in DOMAIN want : n \in PolicyNames /\ want[n] \in 1..MaxCommunity
  BY DesiredPoliciesFacts, Zenon DEF Inv, TypeOK
<1>. HIDE DEF want
<1>3. /\ \A n : n \in DOMAIN policies' <=> n \in DOMAIN policies \/ (n \in DOMAIN want /\ n \notin F)
      /\ \A n \in DOMAIN policies : policies'[n] = policies[n]
      /\ \A n \in DOMAIN policies' : n \notin DOMAIN policies => policies'[n] = want[n]
  BY <1>1, FilledFacts
<1>4. faults' \in 0..MaxFaults /\ errs' \in BOOLEAN /\ (errs => errs') /\ (~errs' => F = {})
  BY <1>1, FailsFacts DEF Inv
<1>5. /\ DOMAIN policies' \subseteq PolicyNames
      /\ \A n \in DOMAIN policies' : policies'[n] \in 1..MaxCommunity
  BY <1>2, <1>3 DEF Inv, TypeOK
<1>6. TypeOK'
  BY <1>4, <1>5 DEF Inv, TypeOK, AddPolicies, LoopUnchanged
<1>7. PassInv'
  BY <1>3, <1>4 DEF Inv, PassInv, AddPolicies, LoopUnchanged, want
<1>. QED
  BY <1>6, <1>7 DEF Inv, ChannelInv, SettledServerMatches, Settled, AddPolicies, LoopUnchanged

\* The last loop adds the neighbors that are missing; if no call of the pass
\* has failed the server is that of the snapshot.
LEMMA AddNeighborsInv == ASSUME Inv, AddNeighbors PROVE Inv'
<1>. DEFINE want == buildDesiredNeighbors(snap)
<1>1. PICK F \in SUBSET missing(neighbors, want) :
          Fails(F) /\ neighbors' = filled(neighbors, want, F)
  BY DEF AddNeighbors
<1>2. \A a \in DOMAIN want : a \in Addresses /\ want[a] \subseteq PolicyNames
  BY DesiredNeighborsFacts DEF Inv, TypeOK, active, PolicyNames
<1>. HIDE DEF want
<1>3. /\ \A a : a \in DOMAIN neighbors' <=> a \in DOMAIN neighbors \/ (a \in DOMAIN want /\ a \notin F)
      /\ \A a \in DOMAIN neighbors : neighbors'[a] = neighbors[a]
      /\ \A a \in DOMAIN neighbors' : a \notin DOMAIN neighbors => neighbors'[a] = want[a]
  BY <1>1, FilledFacts
<1>4. faults' \in 0..MaxFaults /\ errs' \in BOOLEAN /\ (errs => errs') /\ (~errs' => F = {})
  BY <1>1, FailsFacts DEF Inv
<1>5. /\ DOMAIN neighbors' \subseteq Addresses
      /\ \A a \in DOMAIN neighbors' : neighbors'[a] \subseteq PolicyNames
  BY <1>2, <1>3 DEF Inv, TypeOK
<1>6. TypeOK'
  BY <1>4, <1>5 DEF Inv, TypeOK, AddNeighbors, LoopUnchanged
<1>7. SettledServerMatches'
  <2>. SUFFICES ASSUME Settled'
                PROVE  /\ DOMAIN neighbors' =
                             UNION {cluster[o].peers \cup cluster[o].edges : o \in active(cluster)}
                       /\ DOMAIN policies' = Kinds \X active(cluster)
    BY DEF SettledServerMatches, AddNeighbors, LoopUnchanged, active
  <2>1. ~errs /\ F = {} /\ snap.view = cluster
    BY <1>4 DEF Settled, Inv, ChannelInv, AddNeighbors, LoopUnchanged
  <2>2. DOMAIN neighbors \subseteq DOMAIN want
    BY <2>1 DEF Inv, PassInv, AddNeighbors, want
  <2>3. DOMAIN policies = DOMAIN buildDesiredPolicies(snap)
    BY <2>1 DEF Inv, PassInv, AddNeighbors
  <2>4. DOMAIN neighbors' = DOMAIN want
    BY <1>3, <2>1, <2>2
  <2>5. DOMAIN want = UNION {cluster[o].peers \cup cluster[o].edges : o \in active(cluster)}
    BY <2>1 DEF want, buildDesiredNeighbors
  <2>6. policies' = policies /\ DOMAIN buildDesiredPolicies(snap) = Kinds \X active(cluster)
    BY <2>1 DEF AddNeighbors, buildDesiredPolicies
  <2>. QED
    BY <2>3, <2>4, <2>5, <2>6
<1>. QED
  BY <1>6, <1>7 DEF Inv, ChannelInv, PassInv, AddNeighbors, LoopUnchanged

\* A pass that cannot list the server's state ends with an error.
LEMMA ListFailsInv == ASSUME Inv, ListFails PROVE Inv'
<1>1. TypeOK'
  BY ConstantsAssumption DEF Inv, TypeOK, ListFails, LoopUnchanged
<1>. QED
  BY <1>1 DEF Inv, ChannelInv, PassInv, SettledServerMatches, Settled, ListFails, LoopUnchanged

\* A change of the cluster is owed to the loop.
LEMMA ClusterChangeInv == ASSUME Inv, ClusterChange PROVE Inv'
<1>1. TypeOK'
  BY ConstantsAssumption DEF Inv, TypeOK, ClusterChange
<1>. QED
  BY <1>1 DEF Inv, ChannelInv, PassInv, SettledServerMatches, Settled, ClusterChange

\* A tick sends the cluster as it is.
LEMMA TickInv == ASSUME Inv, Tick PROVE Inv'
<1>1. PICK q \in Orders : snapshots' = <<[view |-> cluster, order |-> q]>>
  BY DEF Tick
<1>2. [view |-> cluster, order |-> q] \in Snapshot
  BY DEF Inv, TypeOK, Snapshot
<1>3. /\ snapshots' \in Seq(Snapshot) /\ Len(snapshots') <= 1 /\ snapshots' # <<>>
      /\ snapshots'[1].view = cluster
  BY <1>1, <1>2
<1>4. TypeOK'
  BY <1>3, Zenon DEF Inv, TypeOK, Tick
<1>. QED
  BY <1>3, <1>4 DEF Inv, ChannelInv, PassInv, SettledServerMatches, Settled, Tick

\* Every step keeps the invariant.
LEMMA NextInv == Inv /\ [Next]_vars => Inv'
<1>. SUFFICES ASSUME Inv, [Next]_vars PROVE Inv'
  OBVIOUS
<1>1. CASE UNCHANGED vars
  BY <1>1 DEF vars, Inv, TypeOK, ChannelInv, PassInv, SettledServerMatches, Settled, active
<1>. QED
  BY <1>1, TakeSnapshotInv, RemoveNeighborsInv, RemovePoliciesInv, AddPoliciesInv,
     AddNeighborsInv, ListFailsInv, ClusterChangeInv, TickInv DEF Next, Reconcile

-----------------------------------------------------------------------------
(* What a step of the loop is, seen from the server: nothing, the beginning *)
(* of a pass, a move towards the snapshot, or the end of a pass.            *)

BeginsPass == pc = "idle" /\ pc' # "idle" /\ UNCHANGED <<neighbors, policies>>

MovesServer ==
    /\ pc # "idle" /\ snap' = snap /\ (errs => errs')
    /\ Towards(neighbors, buildDesiredNeighbors(snap), neighbors')
    /\ Towards(policies, buildDesiredPolicies(snap), policies')

HasConverged ==
    /\ DOMAIN neighbors = DOMAIN buildDesiredNeighbors(snap)
    /\ DOMAIN policies = DOMAIN buildDesiredPolicies(snap)

EndsPass == MovesServer /\ pc' = "idle" /\ (~errs' => HasConverged')

\* Every step of the loop is one of these; a pass whose calls all succeed ends
\* with exactly the wanted neighbors and policies.
LEMMA PassSteps ==
    ASSUME Inv, [Next]_vars
    PROVE  \/ BeginsPass
           \/ MovesServer /\ pc' # "idle"
           \/ EndsPass
           \/ UNCHANGED <<snap, pc, errs, neighbors, policies>>
<1>. DEFINE wantN == buildDesiredNeighbors(snap)
            wantP == buildDesiredPolicies(snap)
<1>1. CASE TakeSnapshot
  BY <1>1 DEF TakeSnapshot, BeginsPass
<1>2. CASE RemoveNeighbors
  <2>1. PICK F : Fails(F) /\ neighbors' = pruned(neighbors, wantN, F)
    BY <1>2 DEF RemoveNeighbors
  <2>2. Towards(neighbors, wantN, neighbors') /\ Towards(policies, wantP, policies')
    BY <1>2, <2>1, PrunedFacts, StayTowards DEF RemoveNeighbors
  <2>3. errs => errs'
    BY <2>1, FailsFacts DEF Inv
  <2>. QED
    BY <1>2, <2>2, <2>3 DEF RemoveNeighbors, LoopUnchanged, MovesServer
<1>3. CASE RemovePolicies
  <2>1. PICK F : Fails(F) /\ policies' = pruned(policies, wantP, F)
    BY <1>3 DEF RemovePolicies
  <2>2. Towards(neighbors, wantN, neighbors') /\ Towards(policies, wantP, policies')
    BY <1>3, <2>1, PrunedFacts, StayTowards DEF RemovePolicies
  <2>3. errs => errs'
    BY <2>1, FailsFacts DEF Inv
  <2>. QED
    BY <1>3, <2>2, <2>3 DEF RemovePolicies, LoopUnchanged, MovesServer
<1>4. CASE AddPolicies
  <2>1. PICK F : Fails(F) /\ policies' = filled(policies, wantP, F)
    BY <1>4 DEF AddPolicies
  <2>2. Towards(neighbors, wantN, neighbors') /\ Towards(policies, wantP, policies')
    BY <1>4, <2>1, FilledFacts, StayTowards DEF AddPolicies
  <2>3. errs => errs'
    BY <2>1, FailsFacts DEF Inv
  <2>. QED
    BY <1>4, <2>2, <2>3 DEF AddPolicies, LoopUnchanged, MovesServer
<1>5. CASE AddNeighbors
  <2>1. PICK F : Fails(F) /\ neighbors' = filled(neighbors, wantN, F)
    BY <1>5 DEF AddNeighbors
  <2>2. /\ Towards(neighbors, wantN, neighbors') /\ Towards(policies, wantP, policies')
        /\ \A a : a \in DOMAIN neighbors' <=> a \in DOMAIN neighbors \/ (a \in DOMAIN wantN /\ a \notin F)
    BY <1>5, <2>1, FilledFacts, StayTowards DEF AddNeighbors
  <2>3. (errs => errs') /\ (~errs' => F = {})
    BY <2>1, FailsFacts DEF Inv
  <2>4. ASSUME ~errs' PROVE HasConverged'
    <3>1. F = {} /\ ~errs
      BY <2>3, <2>4
    <3>2. DOMAIN neighbors \subseteq DOMAIN wantN /\ DOMAIN policies = DOMAIN wantP
      BY <1>5, <3>1 DEF Inv, PassInv, AddNeighbors
    <3>3. DOMAIN neighbors' = DOMAIN wantN
      BY <2>2, <3>1, <3>2
    <3>4. snap' = snap /\ policies' = policies
      BY <1>5 DEF AddNeighbors, LoopUnchanged
    <3>. QED
      BY <3>2, <3>3, <3>4 DEF HasConverged
  <2>. QED
    BY <1>5, <2>2, <2>3, <2>4 DEF AddNeighbors, LoopUnchanged, MovesServer, EndsPass
<1>6. CASE ListFails
  BY <1>6, StayTowards DEF ListFails, LoopUnchanged, MovesServer, EndsPass
<1>7. CASE ClusterChange \/ Tick \/ UNCHANGED vars
  BY <1>7 DEF ClusterChange, Tick, vars
<1>. QED
  BY <1>1, <1>2, <1>3, <1>4, <1>5, <1>6, <1>7 DEF Next, Reconcile

\* A step of a pass, of the collections as one.
MovesActual ==
    snap' = snap /\ (errs => errs') /\ Towards(serverActual, serverWanted, serverActual')

\* Every step of the loop begins a pass, is one that Converge allows in a pass or
\* at its end, or leaves its state alone.
LEMMA ServerSteps ==
    ASSUME Inv, [Next]_vars
    PROVE  \/ pc = "idle" /\ pc' # "idle" /\ serverActual' = serverActual
           \/ pc # "idle" /\ pc' # "idle" /\ MovesActual
           \/ /\ pc # "idle" /\ pc' = "idle" /\ MovesActual
              /\ ~errs' => DOMAIN serverActual' = DOMAIN serverWanted
           \/ UNCHANGED <<snap, pc, errs, neighbors, policies>>
<1>. DEFINE wantN == buildDesiredNeighbors(snap)
            wantP == buildDesiredPolicies(snap)
<1>1. ASSUME MovesServer PROVE Towards(serverActual, serverWanted, serverActual')
  <2>1. Towards(both(neighbors, policies), both(wantN, wantP), both(neighbors', policies'))
    BY <1>1, BothTowards DEF MovesServer
  <2>. QED
    BY <2>1 DEF serverActual, serverWanted
<1>2. ASSUME EndsPass, ~errs' PROVE DOMAIN serverActual' = DOMAIN serverWanted
  <2>1. DOMAIN neighbors' = DOMAIN wantN /\ DOMAIN policies' = DOMAIN wantP
    BY <1>2 DEF EndsPass, MovesServer, HasConverged
  <2>2. DOMAIN both(neighbors', policies') = DOMAIN both(wantN, wantP)
    BY <2>1, BothDomain
  <2>. QED
    BY <2>2 DEF serverActual, serverWanted
<1>3. CASE BeginsPass
  BY <1>3 DEF BeginsPass, serverActual
<1>4. CASE MovesServer /\ pc' # "idle"
  BY <1>1, <1>4 DEF MovesServer, MovesActual
<1>5. CASE EndsPass
  BY <1>1, <1>2, <1>5 DEF EndsPass, MovesServer, MovesActual
<1>. QED
  BY <1>3, <1>4, <1>5, PassSteps

-----------------------------------------------------------------------------
(* Policy references resolve.                                              *)

\* A neighbor names only policies of overlays that may list it.
ClaimInv ==
    \A a \in DOMAIN neighbors : \A n \in neighbors[a] :
        \E k \in Kinds, o \in Overlays : n = <<k, o>> /\ a \in PeersOf[o]

\* Until a call fails: stale neighbors are gone before policies are removed, and
\* every wanted policy is there before neighbors are added.
OrderInv ==
    faults = 0 =>
        /\ pc = "removePolicies" => DOMAIN neighbors \subseteq DOMAIN buildDesiredNeighbors(snap)
        /\ pc = "addNeighbors" => DOMAIN buildDesiredPolicies(snap) \subseteq DOMAIN policies

ResolveInv == ClaimInv /\ OrderInv /\ OwnPoliciesResolve

\* Two overlays that may list an address which only one may list are the same.
LEMMA SoleOwner ==
    ASSUME NEW a, NEW x \in Overlays, NEW y \in Overlays, a \in PeersOf[x], a \in PeersOf[y],
           Cardinality({o \in Overlays : a \in PeersOf[o]}) <= 1
    PROVE  x = y
<1>. DEFINE S == {o \in Overlays : a \in PeersOf[o]}
<1>1. x \in S /\ y \in S /\ S \in SUBSET Overlays
  OBVIOUS
<1>. HIDE DEF S
<1>2. IsFiniteSet(S)
  BY <1>1, ConstantsAssumption, FS_Subset
<1>3. IsFiniteSet(S \ {x}) /\ Cardinality(S \ {x}) = Cardinality(S) - 1
  BY <1>1, <1>2, FS_RemoveElement
<1>4. Cardinality(S) \in Nat /\ Cardinality(S \ {x}) \in Nat
  BY <1>2, <1>3, FS_CardinalityType
<1>5. Cardinality(S \ {x}) = 0
  BY <1>3, <1>4 DEF S
<1>6. S \ {x} = {}
  BY <1>3, <1>5, FS_EmptySet
<1>. QED
  BY <1>1, <1>6

\* A policy that a wanted neighbor of one overlay names is itself wanted.
LEMMA ClaimIsWanted ==
    ASSUME Inv, ClaimInv, NEW a \in DOMAIN neighbors, NEW n \in neighbors[a],
           a \in DOMAIN buildDesiredNeighbors(snap),
           Cardinality({o \in Overlays : a \in PeersOf[o]}) <= 1
    PROVE  n \in DOMAIN buildDesiredPolicies(snap)
<1>1. PICK k \in Kinds, x \in Overlays : n = <<k, x>> /\ a \in PeersOf[x]
  BY DEF ClaimInv
<1>2. snap \in Snapshot
  BY DEF Inv, TypeOK
<1>3. PICK y \in active(snap.view) : a \in snap.view[y].peers \/ a \in snap.view[y].edges
  BY <1>2, DesiredNeighborsFacts
<1>4. y \in Overlays
  BY DEF active
<1>5. a \in PeersOf[y]
  BY <1>1, <1>2, <1>3, <1>4, ViewFacts, ConstantsAssumption
<1>6. x = y
  BY <1>1, <1>4, <1>5, SoleOwner
<1>. QED
  BY <1>1, <1>2, <1>3, <1>6, DesiredPoliciesFacts, Zenon

\* At the start there is no neighbor.
LEMMA InitResolve == Init => ResolveInv
  BY DEF Init, ResolveInv, ClaimInv, OrderInv, OwnPoliciesResolve

\* Removing neighbors leaves the references of the others alone.
LEMMA RemoveNeighborsResolve == ASSUME Inv, ResolveInv, RemoveNeighbors PROVE ResolveInv'
<1>1. PICK F : Fails(F) /\ neighbors' = pruned(neighbors, buildDesiredNeighbors(snap), F)
  BY DEF RemoveNeighbors
<1>2. /\ \A a : a \in DOMAIN neighbors' <=>
                 a \in DOMAIN neighbors /\ (a \in DOMAIN buildDesiredNeighbors(snap) \/ a \in F)
      /\ \A a \in DOMAIN neighbors' : neighbors'[a] = neighbors[a]
  BY <1>1, PrunedFacts
<1>3. faults' = 0 => faults = 0 /\ F = {}
  BY <1>1, FailsFacts DEF Inv
<1>4. ClaimInv'
  BY <1>2 DEF ResolveInv, ClaimInv
<1>5. OrderInv'
  BY <1>2, <1>3 DEF OrderInv, RemoveNeighbors, LoopUnchanged
<1>6. OwnPoliciesResolve'
  BY <1>2, <1>3 DEF ResolveInv, OwnPoliciesResolve, RemoveNeighbors
<1>. QED
  BY <1>4, <1>5, <1>6 DEF ResolveInv

\* The policies that are removed are named by no neighbor that is left.
LEMMA RemovePoliciesResolve == ASSUME Inv, ResolveInv, RemovePolicies PROVE ResolveInv'
<1>1. PICK F : Fails(F) /\ policies' = pruned(policies, buildDesiredPolicies(snap), F)
  BY DEF RemovePolicies
<1>2. \A n : n \in DOMAIN policies' <=>
                 n \in DOMAIN policies /\ (n \in DOMAIN buildDesiredPolicies(snap) \/ n \in F)
  BY <1>1, PrunedFacts
<1>3. faults' = 0 => faults = 0 /\ F = {}
  BY <1>1, FailsFacts DEF Inv
<1>4. ClaimInv' /\ OrderInv'
  BY DEF ResolveInv, ClaimInv, OrderInv, RemovePolicies
<1>5. OwnPoliciesResolve'
  <2>1. SUFFICES ASSUME faults' = 0, NEW a \in DOMAIN neighbors,
                        Cardinality({o \in Overlays : a \in PeersOf[o]}) <= 1,
                        NEW n \in neighbors[a]
                 PROVE  n \in DOMAIN policies'
    BY DEF OwnPoliciesResolve, RemovePolicies
  <2>2. a \in DOMAIN buildDesiredNeighbors(snap)
    BY <1>3, <2>1 DEF ResolveInv, OrderInv, RemovePolicies
  <2>3. n \in DOMAIN buildDesiredPolicies(snap)
    BY <2>1, <2>2, ClaimIsWanted DEF ResolveInv
  <2>4. n \in DOMAIN policies
    BY <1>3, <2>1 DEF ResolveInv, OwnPoliciesResolve
  <2>. QED
    BY <1>2, <2>3, <2>4
<1>. QED
  BY <1>4, <1>5 DEF ResolveInv

\* Adding policies takes none away, and a loop without failures adds them all.
LEMMA AddPoliciesResolve == ASSUME Inv, ResolveInv, AddPolicies PROVE ResolveInv'
<1>1. PICK F : Fails(F) /\ policies' = filled(policies, buildDesiredPolicies(snap), F)
  BY DEF AddPolicies
<1>2. \A n : n \in DOMAIN policies' <=>
                 n \in DOMAIN policies \/ (n \in DOMAIN buildDesiredPolicies(snap) /\ n \notin F)
  BY <1>1, FilledFacts
<1>3. faults' = 0 => faults = 0 /\ F = {}
  BY <1>1, FailsFacts DEF Inv
<1>4. ClaimInv'
  BY DEF ResolveInv, ClaimInv, AddPolicies
<1>5. OrderInv'
  BY <1>2, <1>3 DEF OrderInv, AddPolicies, LoopUnchanged
<1>6. OwnPoliciesResolve'
  BY <1>2, <1>3 DEF ResolveInv, OwnPoliciesResolve, AddPolicies
<1>. QED
  BY <1>4, <1>5, <1>6 DEF ResolveInv

\* A neighbor that is added names policies of an overlay of the snapshot, which
\* are all there.
LEMMA AddNeighborsResolve == ASSUME Inv, ResolveInv, AddNeighbors PROVE ResolveInv'
<1>. DEFINE want == buildDesiredNeighbors(snap)
<1>1. PICK F : Fails(F) /\ neighbors' = filled(neighbors, want, F)
  BY DEF AddNeighbors
<1>2. snap \in Snapshot
  BY DEF Inv, TypeOK
<1>3. \A a \in DOMAIN want : \A n \in want[a] :
          \E k \in Kinds, o \in active(snap.view) : n = <<k, o>> /\ a \in PeersOf[o]
  BY <1>2, DesiredNeighborsFacts
<1>4. \A a \in DOMAIN want : want[a] \subseteq DOMAIN buildDesiredPolicies(snap)
  <2>1. \A k \in Kinds, o \in active(snap.view) : <<k, o>> \in DOMAIN buildDesiredPolicies(snap)
    BY DEF buildDesiredPolicies
  <2>. QED
    BY <1>3, <2>1
<1>. HIDE DEF want
<1>5. /\ \A a : a \in DOMAIN neighbors' <=> a \in DOMAIN neighbors \/ (a \in DOMAIN want /\ a \notin F)
      /\ \A a \in DOMAIN neighbors : neighbors'[a] = neighbors[a]
      /\ \A a \in DOMAIN neighbors' : a \notin DOMAIN neighbors => neighbors'[a] = want[a]
  BY <1>1, FilledFacts
<1>6. faults' = 0 => faults = 0 /\ F = {}
  BY <1>1, FailsFacts DEF Inv
<1>7. ClaimInv'
  <2>1. SUFFICES ASSUME NEW a \in DOMAIN neighbors', NEW n \in neighbors'[a]
                 PROVE  \E k \in Kinds, o \in Overlays : n = <<k, o>> /\ a \in PeersOf[o]
    BY DEF ClaimInv
  <2>2. CASE a \in DOMAIN neighbors
    BY <1>5, <2>1, <2>2 DEF ResolveInv, ClaimInv
  <2>3. CASE a \notin DOMAIN neighbors
    BY <1>3, <1>5, <2>1, <2>3 DEF active
  <2>. QED
    BY <2>2, <2>3
<1>8. OrderInv'
  BY DEF OrderInv, AddNeighbors
<1>9. OwnPoliciesResolve'
  <2>1. SUFFICES ASSUME faults' = 0, NEW a \in DOMAIN neighbors',
                        Cardinality({o \in Overlays : a \in PeersOf[o]}) <= 1
                 PROVE  neighbors'[a] \subseteq DOMAIN policies
    BY DEF OwnPoliciesResolve, AddNeighbors
  <2>2. CASE a \in DOMAIN neighbors
    BY <1>5, <1>6, <2>1, <2>2 DEF ResolveInv, OwnPoliciesResolve
  <2>3. CASE a \notin DOMAIN neighbors
    BY <1>4, <1>5, <1>6, <2>1, <2>3 DEF ResolveInv, OrderInv, AddNeighbors
  <2>. QED
    BY <2>2, <2>3
<1>. QED
  BY <1>7, <1>8, <1>9 DEF ResolveInv

\* Every step of the loop keeps the references of neighbors resolved.
LEMMA NextResolve == Inv /\ ResolveInv /\ [Next]_vars => ResolveInv'
<1>. SUFFICES ASSUME Inv, ResolveInv, [Next]_vars PROVE ResolveInv'
  OBVIOUS
<1>1. CASE TakeSnapshot
  BY <1>1 DEF ResolveInv, ClaimInv, OrderInv, OwnPoliciesResolve, TakeSnapshot
<1>2. CASE ListFails
  BY <1>2 DEF ResolveInv, ClaimInv, OrderInv, OwnPoliciesResolve, ListFails, Inv, TypeOK
<1>3. CASE ClusterChange
  BY <1>3 DEF ResolveInv, ClaimInv, OrderInv, OwnPoliciesResolve, ClusterChange
<1>4. CASE Tick
  BY <1>4 DEF ResolveInv, ClaimInv, OrderInv, OwnPoliciesResolve, Tick
<1>5. CASE UNCHANGED vars
  BY <1>5 DEF ResolveInv, ClaimInv, OrderInv, OwnPoliciesResolve, vars
<1>. QED
  BY <1>1, <1>2, <1>3, <1>4, <1>5, RemoveNeighborsResolve, RemovePoliciesResolve,
     AddPoliciesResolve, AddNeighborsResolve DEF Next, Reconcile

-----------------------------------------------------------------------------
(* The inductive invariant of the agent.                                   *)

\* A peer's neighbor was added with all policies of an overlay that may list it.
WholeClaims ==
    \A a \in DOMAIN neighbors :
        a \in Peers => \E o \in Overlays : a \in PeersOf[o] /\ neighbors[a] = Kinds \X {o}

\* No snapshot is lost on the way to the updater.
UpdaterChannelInv ==
    ~routesOwed =>
        IF routesSnapshots = <<>> THEN latest = communities(cluster)
        ELSE routesSnapshots[1] = communities(cluster)

\* No event is lost or reordered on the way to the updater.
EventsInv == InFlight(Peers, bgpEvents, learned, rib)

\* Once an updater has had its first snapshot, the table is that of the last
\* Reconcile without an error.
TableInv ==
    ~routesErrs /\ ~routesOwed /\ routesSnapshots = <<>> =>
        table = Routes!buildDesiredRoutes(learned, Routes!activeCommunities(latest))

BGPInv == Inv /\ ResolveInv /\ WholeClaims

UpdaterInv == UpdaterChannelInv /\ EventsInv /\ TableInv

AgentInv == AgentTypeOK /\ BGPInv /\ UpdaterInv

\* The communities of a state of the cluster, by overlay.
LEMMA CommunitiesType ==
    ASSUME NEW c \in Cluster
    PROVE  communities(c) \in [Overlays -> 0..MaxCommunity]
<1>1. \A o \in Overlays : c[o] \in OverlayView
  BY DEF Cluster
<1>2. \A o \in Overlays : c[o].community \in 0..MaxCommunity
  BY <1>1 DEF OverlayView
<1>. QED
  BY <1>2 DEF communities

\* The server tags a route with the community of a policy, or reports none.
LEMMA RouteType == ASSUME TypeOK, NEW a PROVE route(a) \in RouteCommunities
<1>. DEFINE imports == {n \in DOMAIN policies : n[1] = "import" /\ n \in neighbors[a]}
            n == CHOOSE n \in imports : TRUE
<1>1. CASE a \notin announced \cap DOMAIN neighbors \/ imports = {}
  <2>1. route(a) = <<>>
    BY <1>1 DEF route
  <2>. QED
    BY <2>1 DEF RouteCommunities
<1>2. CASE ~(a \notin announced \cap DOMAIN neighbors \/ imports = {})
  <2>1. n \in imports
    BY <1>2
  <2>2. policies[n] \in 1..MaxCommunity
    BY <2>1 DEF TypeOK
  <2>3. route(a) = <<policies[n]>>
    BY <1>2 DEF route
  <2>. HIDE DEF n
  <2>. QED
    BY <2>2, <2>3 DEF RouteCommunities
<1>. QED
  BY <1>1, <1>2

\* Reconcile wants every peer with all policies of an overlay that may list it.
LEMMA DesiredWhole ==
    ASSUME NEW s \in Snapshot, NEW a \in DOMAIN buildDesiredNeighbors(s), a \in Peers
    PROVE  \E o \in Overlays : a \in PeersOf[o] /\ buildDesiredNeighbors(s)[a] = Kinds \X {o}
<1>1. PICK y \in active(s.view) : a \in s.view[y].peers \/ a \in s.view[y].edges
  BY DesiredNeighborsFacts
<1>2. y \in Overlays
  BY DEF active
<1>3. a \notin NodeIPs
  BY ConstantsAssumption DEF Peers
<1>4. a \in s.view[y].peers
  BY <1>1, <1>2, <1>3, ViewFacts
<1>5. PICK i \in DOMAIN s.order : s.order[i] = y
  BY <1>2, ConstantsAssumption, ListingIsOnto DEF Snapshot, Orders
<1>6. claims(s, a) # {}
  BY <1>4, <1>5 DEF claims
<1>7. owner(s, a) \in Overlays /\ a \in s.view[owner(s, a)].peers
  BY <1>6, OwnerFacts
<1>8. a \in PeersOf[owner(s, a)]
  BY <1>7, ViewFacts
<1>9. buildDesiredNeighbors(s)[a] = Kinds \X {owner(s, a)}
  BY <1>6 DEF buildDesiredNeighbors
<1>. QED
  BY <1>7, <1>8, <1>9

\* A new agent knows nothing, and the first ticks are owed.
LEMMA AgentInitInv == AgentInit => AgentInv
<1>. SUFFICES ASSUME AgentInit PROVE AgentInv
  OBVIOUS
<1>1. Inv /\ ResolveInv
  BY InitInv, InitResolve DEF AgentInit
<1>2. WholeClaims
  BY DEF AgentInit, Init, WholeClaims
<1>3. NoRoutes \in [Peers -> RouteCommunities]
  BY DEF NoRoutes, RouteCommunities
<1>4. AgentTypeOK
  <2>1. /\ routesSnapshots \in Seq([Overlays -> 0..MaxCommunity]) /\ Len(routesSnapshots) <= 1
        /\ bgpEvents \in Seq(Peers \X RouteCommunities)
    BY DEF AgentInit
  <2>2. latest \in [Overlays -> 0..MaxCommunity]
    BY ConstantsAssumption DEF AgentInit
  <2>3. events \in 0..MaxEvents /\ restarts \in 0..MaxRestarts
    BY BoundsAssumption DEF AgentInit
  <2>. QED
    BY <1>1, <1>3, <2>1, <2>2, <2>3, Zenon DEF AgentInit, AgentTypeOK, Inv
<1>5. UpdaterInv
  BY DEF AgentInit, UpdaterInv, UpdaterChannelInv, EventsInv, InFlight, TableInv
<1>. QED
  BY <1>1, <1>2, <1>4, <1>5 DEF AgentInv, BGPInv

-----------------------------------------------------------------------------
(* The steps of the BGP loop.                                              *)

\* The loop adds a peer with all policies of one overlay, and never edits it.
LEMMA NextWhole == ASSUME Inv, WholeClaims, [Next]_vars PROVE WholeClaims'
<1>. DEFINE want == buildDesiredNeighbors(snap)
<1>1. CASE RemoveNeighbors
  <2>1. PICK F : neighbors' = pruned(neighbors, want, F)
    BY <1>1 DEF RemoveNeighbors
  <2>. HIDE DEF want
  <2>2. \A a \in DOMAIN neighbors' : a \in DOMAIN neighbors /\ neighbors'[a] = neighbors[a]
    BY <2>1, PrunedFacts
  <2>. QED
    BY <2>2 DEF WholeClaims
<1>2. CASE AddNeighbors
  <2>1. PICK F : neighbors' = filled(neighbors, want, F)
    BY <1>2 DEF AddNeighbors
  <2>2. \A a \in DOMAIN want :
            a \in Peers => \E o \in Overlays : a \in PeersOf[o] /\ want[a] = Kinds \X {o}
    BY DesiredWhole DEF Inv, TypeOK
  <2>. HIDE DEF want
  <2>3. \A a \in DOMAIN neighbors' :
            \/ a \in DOMAIN neighbors /\ neighbors'[a] = neighbors[a]
            \/ a \in DOMAIN want /\ neighbors'[a] = want[a]
    BY <2>1, FilledFacts
  <2>. QED
    BY <2>2, <2>3 DEF WholeClaims
<1>3. CASE UNCHANGED neighbors
  BY <1>3 DEF WholeClaims
<1>. QED
  BY <1>1, <1>2, <1>3 DEF Next, Reconcile, TakeSnapshot, RemovePolicies, AddPolicies,
     ListFails, ClusterChange, Tick, vars

\* So each step of the loop, of the cluster or of its mediator keeps the loop's
\* part of the invariant.
LEMMA NextBGP == ASSUME BGPInv, [Next]_vars PROVE BGPInv'
  BY NextInv, NextResolve, NextWhole DEF BGPInv

\* It does not depend on which loop's calls fail: the updater only uses up the
\* bound on faults.
LEMMA FaultsKeepBGP ==
    ASSUME BGPInv, UNCHANGED <<cluster, bgpVars, changes>>,
           faults' \in 0..MaxFaults, faults' = 0 => faults = 0
    PROVE  BGPInv'
<1>. USE DEF bgpVars
<1>1. TypeOK'
  BY DEF BGPInv, Inv, TypeOK
<1>2. ChannelInv' /\ PassInv' /\ SettledServerMatches'
  BY DEF BGPInv, Inv, ChannelInv, PassInv, SettledServerMatches, Settled
<1>3. ClaimInv' /\ WholeClaims'
  BY DEF BGPInv, ResolveInv, ClaimInv, WholeClaims
<1>4. OrderInv' /\ OwnPoliciesResolve'
  BY DEF BGPInv, ResolveInv, OrderInv, OwnPoliciesResolve
<1>. QED
  BY <1>1, <1>2, <1>3, <1>4 DEF BGPInv, Inv, ResolveInv

\* What the steps of the loop leave alone of the updater and the server.
LEMMA UpdaterKeeps ==
    ASSUME AgentInv, TypeOK', UNCHANGED <<updaterVars, serverVars, events, restarts>>
    PROVE  AgentTypeOK' /\ EventsInv' /\ TableInv'
<1>. USE DEF updaterVars, serverVars
<1>1. AgentTypeOK'
  BY DEF AgentInv, AgentTypeOK
<1>2. EventsInv'
  BY DEF AgentInv, UpdaterInv, EventsInv
<1>3. TableInv'
  BY DEF AgentInv, UpdaterInv, TableInv
<1>. QED
  BY <1>1, <1>2, <1>3

\* A step of the BGP loop.
LEMMA BGPLoopInv == ASSUME AgentInv, BGPLoop PROVE AgentInv'
<1>1. BGPInv'
  BY NextBGP DEF AgentInv, BGPLoop, Next
<1>2. cluster' = cluster
  BY DEF BGPLoop, TakeSnapshot, Reconcile, RemoveNeighbors, RemovePolicies, AddPolicies,
     AddNeighbors, ListFails, LoopUnchanged
<1>3. UpdaterChannelInv'
  BY <1>2 DEF AgentInv, UpdaterInv, UpdaterChannelInv, BGPLoop, updaterVars
<1>4. AgentTypeOK' /\ EventsInv' /\ TableInv'
  BY <1>1, UpdaterKeeps DEF BGPLoop, BGPInv, Inv
<1>. QED
  BY <1>1, <1>3, <1>4 DEF AgentInv, UpdaterInv

\* A tick for the BGP loop.
LEMMA BGPTickInv == ASSUME AgentInv, BGPTick PROVE AgentInv'
<1>1. BGPInv'
  BY NextBGP DEF AgentInv, BGPTick, Next
<1>2. UpdaterChannelInv'
  BY DEF AgentInv, UpdaterInv, UpdaterChannelInv, BGPTick, Tick, updaterVars
<1>3. AgentTypeOK' /\ EventsInv' /\ TableInv'
  BY <1>1, UpdaterKeeps DEF BGPTick, BGPInv, Inv
<1>. QED
  BY <1>1, <1>2, <1>3 DEF AgentInv, UpdaterInv

\* A change of the cluster is owed to both loops.
LEMMA AgentClusterChangeInv == ASSUME AgentInv, AgentClusterChange PROVE AgentInv'
<1>1. BGPInv'
  BY NextBGP DEF AgentInv, AgentClusterChange, Next
<1>2. AgentTypeOK'
  BY <1>1 DEF AgentInv, AgentTypeOK, AgentClusterChange, serverVars, BGPInv, Inv
<1>3. UpdaterInv'
  BY DEF AgentInv, UpdaterInv, UpdaterChannelInv, EventsInv, TableInv, AgentClusterChange, serverVars
<1>. QED
  BY <1>1, <1>2, <1>3 DEF AgentInv

-----------------------------------------------------------------------------
(* The steps of the routes updater.                                        *)

\* A Reconcile of the routes sets the table, or fails and leaves it.
LEMMA RoutesReconcileFacts ==
    ASSUME TypeOK, routesErrs \in BOOLEAN, table \subseteq Peers,
           NEW r \in [Peers -> RouteCommunities], NEW s, Routes!Reconcile(r, s)
    PROVE  /\ faults' \in 0..MaxFaults /\ (faults' = 0 => faults = 0)
           /\ routesErrs' \in BOOLEAN /\ table' \subseteq Peers
           /\ ~routesErrs' => table' = Routes!buildDesiredRoutes(r, Routes!activeCommunities(s))
<1>1. faults' \in 0..MaxFaults /\ (faults' = 0 => faults = 0)
  BY ConstantsAssumption DEF Routes!Reconcile, TypeOK
<1>2. Routes!buildDesiredRoutes(r, Routes!activeCommunities(s)) \subseteq Peers
  BY DEF Routes!buildDesiredRoutes
<1>3. /\ routesErrs' \in BOOLEAN /\ table' \subseteq Peers
      /\ ~routesErrs' => table' = Routes!buildDesiredRoutes(r, Routes!activeCommunities(s))
  BY <1>2, Zenon DEF Routes!Reconcile
<1>. QED
  BY <1>1, <1>3

\* A pass that a snapshot begins works with the routes learned so far.
LEMMA UpdaterSnapshotInv == ASSUME AgentInv, UpdaterSnapshot PROVE AgentInv'
<1>. USE DEF UpdaterSnapshot, UpdaterUnchanged, serverVars
<1>1. /\ latest' = routesSnapshots[1] /\ latest' \in [Overlays -> 0..MaxCommunity]
      /\ routesSnapshots' = <<>> /\ routesSnapshots # <<>>
  BY ReceiveFacts DEF AgentInv, AgentTypeOK, Routes!TakeSnapshot, Routes!ReceiveSnapshot
<1>2. learned' = learned /\ bgpEvents' = bgpEvents /\ Routes!Reconcile(learned, latest')
  BY DEF Routes!TakeSnapshot, Routes!ReceiveSnapshot
<1>3. /\ faults' \in 0..MaxFaults /\ (faults' = 0 => faults = 0)
      /\ routesErrs' \in BOOLEAN /\ table' \subseteq Peers
      /\ ~routesErrs' => table' = Routes!buildDesiredRoutes(learned, Routes!activeCommunities(latest'))
  BY <1>2, RoutesReconcileFacts DEF AgentInv, AgentTypeOK
<1>4. BGPInv'
  BY <1>3, FaultsKeepBGP DEF AgentInv
<1>5. routesSnapshots' \in Seq([Overlays -> 0..MaxCommunity]) /\ Len(routesSnapshots') <= 1
  BY <1>1
<1>6. AgentTypeOK'
  BY <1>1, <1>2, <1>3, <1>4, <1>5 DEF AgentInv, AgentTypeOK, BGPInv, Inv
<1>7. UpdaterChannelInv'
  BY <1>1 DEF AgentInv, UpdaterInv, UpdaterChannelInv, communities
<1>8. EventsInv' /\ TableInv'
  BY <1>2, <1>3 DEF AgentInv, UpdaterInv, EventsInv, TableInv
<1>. QED
  BY <1>4, <1>6, <1>7, <1>8 DEF AgentInv, UpdaterInv

\* A pass that an event begins works with the snapshot received last.
LEMMA UpdaterEventInv == ASSUME AgentInv, UpdaterEvent PROVE AgentInv'
<1>. USE DEF UpdaterEvent, UpdaterUnchanged, serverVars
<1>1. /\ bgpEvents' \in Seq(Peers \X RouteCommunities)
      /\ learned' \in [Peers -> RouteCommunities]
      /\ EventsInv'
  BY ReceiveEventFacts, Zenon DEF AgentInv, AgentTypeOK, UpdaterInv, EventsInv, Routes!TakeEvent,
     Routes!ReceiveEvent, Routes!ApplyEvent
<1>2. /\ latest' = latest /\ routesSnapshots' = routesSnapshots
      /\ Routes!Reconcile(learned', latest)
  BY DEF Routes!TakeEvent, Routes!ReceiveEvent
<1>3. /\ faults' \in 0..MaxFaults /\ (faults' = 0 => faults = 0)
      /\ routesErrs' \in BOOLEAN /\ table' \subseteq Peers
      /\ ~routesErrs' => table' = Routes!buildDesiredRoutes(learned', Routes!activeCommunities(latest))
  BY <1>1, <1>2, RoutesReconcileFacts DEF AgentInv, AgentTypeOK
<1>4. BGPInv'
  BY <1>3, FaultsKeepBGP DEF AgentInv
<1>5. AgentTypeOK'
  BY <1>1, <1>2, <1>3, <1>4 DEF AgentInv, AgentTypeOK, BGPInv, Inv
<1>6. UpdaterChannelInv' /\ TableInv'
  BY <1>2, <1>3 DEF AgentInv, UpdaterInv, UpdaterChannelInv, TableInv
<1>. QED
  BY <1>1, <1>4, <1>5, <1>6 DEF AgentInv, UpdaterInv

-----------------------------------------------------------------------------
(* The mediator, the peers, the server and the pod.                        *)

\* A step that touches neither the loop nor the cluster keeps the loop's part.
LEMMA IdleBGP == ASSUME BGPInv, UNCHANGED vars PROVE BGPInv'
  BY NextBGP

\* A tick sends the communities of the cluster as it is.
LEMMA UpdaterTickInv == ASSUME AgentInv, UpdaterTick PROVE AgentInv'
<1>. USE DEF UpdaterTick, serverVars
<1>1. BGPInv'
  BY IdleBGP DEF AgentInv
<1>2. communities(cluster) \in [Overlays -> 0..MaxCommunity]
  BY CommunitiesType DEF AgentInv, AgentTypeOK, TypeOK
<1>3. /\ routesSnapshots' \in Seq([Overlays -> 0..MaxCommunity]) /\ Len(routesSnapshots') <= 1
      /\ routesSnapshots' # <<>> /\ routesSnapshots'[1] = communities(cluster)
  BY <1>2, SendFacts
<1>4. AgentTypeOK'
  BY <1>1, <1>3, Zenon DEF AgentInv, AgentTypeOK, BGPInv, Inv
<1>5. UpdaterChannelInv' /\ TableInv'
  BY <1>3 DEF UpdaterChannelInv, TableInv, communities, vars
<1>6. EventsInv'
  BY DEF AgentInv, UpdaterInv, EventsInv
<1>. QED
  BY <1>1, <1>4, <1>5, <1>6 DEF AgentInv, UpdaterInv

\* A peer that starts or stops to announce changes nothing before the server
\* reports it.
LEMMA AnnounceInv == ASSUME AgentInv, NEW a \in Peers, Announce(a) PROVE AgentInv'
<1>. USE DEF Announce, updaterVars
<1>1. BGPInv'
  BY IdleBGP DEF AgentInv
<1>2. announced' \subseteq Peers /\ events' \in 0..MaxEvents
  BY BoundsAssumption DEF AgentInv, AgentTypeOK
<1>3. AgentTypeOK'
  BY <1>1, <1>2 DEF AgentInv, AgentTypeOK, BGPInv, Inv
<1>4. UpdaterInv'
  BY DEF AgentInv, UpdaterInv, UpdaterChannelInv, EventsInv, TableInv, vars
<1>. QED
  BY <1>1, <1>3, <1>4 DEF AgentInv

\* The server reports a route as it is now.
LEMMA ReportInv == ASSUME AgentInv, NEW a \in Peers, Report(a) PROVE AgentInv'
<1>1. BGPInv'
  BY IdleBGP DEF AgentInv, Report
<1>2. route(a) \in RouteCommunities
  BY RouteType DEF AgentInv, AgentTypeOK
<1>3. Announces(a, route(a), bgpEvents, rib, bgpEvents', rib')
  BY DEF Report, Announces
<1>4. /\ bgpEvents' \in Seq(Peers \X RouteCommunities)
      /\ rib' \in [Peers -> RouteCommunities]
      /\ InFlight(Peers, bgpEvents', learned, rib')
  <2>1. /\ bgpEvents \in Seq(Peers \X RouteCommunities)
        /\ rib \in [Peers -> RouteCommunities]
        /\ InFlight(Peers, bgpEvents, learned, rib)
    BY DEF AgentInv, AgentTypeOK, UpdaterInv, EventsInv
  <2>. QED
    BY <1>2, <1>3, <2>1, SendEventFacts, ZenonT(30)
<1>5. AgentTypeOK'
  BY <1>1, <1>4 DEF Report, AgentInv, AgentTypeOK, BGPInv, Inv
<1>6. UpdaterInv'
  BY <1>4 DEF Report, AgentInv, UpdaterInv, UpdaterChannelInv, EventsInv, TableInv, vars
<1>. QED
  BY <1>1, <1>5, <1>6 DEF AgentInv

\* A restart empties the server and both loops, and ticks are owed to both.
LEMMA RestartInv == ASSUME AgentInv, Restart PROVE AgentInv'
<1>. USE DEF Restart
<1>1. DOMAIN neighbors' = {} /\ DOMAIN policies' = {}
  OBVIOUS
<1>2. snapshots' \in Seq(Snapshot) /\ Len(snapshots') <= 1
  OBVIOUS
<1>3. TypeOK'
  BY <1>1, <1>2, Zenon DEF AgentInv, AgentTypeOK, TypeOK
<1>4. BGPInv'
  BY <1>1, <1>3 DEF BGPInv, Inv, ChannelInv, PassInv, SettledServerMatches, Settled,
     ResolveInv, ClaimInv, OrderInv, OwnPoliciesResolve, WholeClaims
<1>5. NoRoutes \in [Peers -> RouteCommunities]
  BY DEF NoRoutes, RouteCommunities
<1>6. /\ routesSnapshots' \in Seq([Overlays -> 0..MaxCommunity]) /\ Len(routesSnapshots') <= 1
      /\ bgpEvents' \in Seq(Peers \X RouteCommunities)
  OBVIOUS
<1>7. latest' \in [Overlays -> 0..MaxCommunity] /\ restarts' \in 0..MaxRestarts
  BY ConstantsAssumption, BoundsAssumption DEF AgentInv, AgentTypeOK
<1>8. AgentTypeOK'
  BY <1>3, <1>5, <1>6, <1>7, Zenon DEF AgentInv, AgentTypeOK
<1>9. UpdaterInv'
  BY DEF UpdaterInv, UpdaterChannelInv, EventsInv, InFlight, TableInv
<1>. QED
  BY <1>4, <1>8, <1>9 DEF AgentInv

\* Every step keeps the invariant.
LEMMA AgentNextInv == AgentInv /\ [AgentNext]_agentVars => AgentInv'
<1>. SUFFICES ASSUME AgentInv, [AgentNext]_agentVars PROVE AgentInv'
  OBVIOUS
<1>1. CASE UNCHANGED agentVars
  <2>1. UNCHANGED <<updaterVars, serverVars, events, restarts>> /\ UNCHANGED vars
    BY <1>1 DEF agentVars
  <2>2. BGPInv'
    BY <2>1, IdleBGP DEF AgentInv
  <2>3. UpdaterChannelInv'
    BY <2>1 DEF AgentInv, UpdaterInv, UpdaterChannelInv, updaterVars, vars
  <2>4. AgentTypeOK' /\ EventsInv' /\ TableInv'
    BY <2>1, <2>2, UpdaterKeeps DEF BGPInv, Inv
  <2>. QED
    BY <2>2, <2>3, <2>4 DEF AgentInv, UpdaterInv
<1>. QED
  BY <1>1, BGPLoopInv, UpdaterSnapshotInv, UpdaterEventInv, AgentClusterChangeInv, BGPTickInv,
     UpdaterTickInv, RestartInv, AnnounceInv, ReportInv DEF AgentNext

-----------------------------------------------------------------------------
(* What the invariant says of both loops at rest.                          *)

\* When all is quiet the table has the peers whose route in the server has the
\* community of an overlay.
LEMMA QuietTable ==
    ASSUME AgentInv, Quiet, ~routesErrs, NEW a
    PROVE  a \in table <=>
               /\ a \in Peers
               /\ \E i \in DOMAIN route(a), o \in active(cluster) : route(a)[i] = cluster[o].community
<1>1. latest = communities(cluster)
  BY DEF AgentInv, UpdaterInv, UpdaterChannelInv, Quiet
<1>2. learned = rib
  BY DrainedFacts, Zenon DEF AgentInv, AgentTypeOK, UpdaterInv, EventsInv, Quiet
<1>3. table = Routes!buildDesiredRoutes(rib, Routes!activeCommunities(communities(cluster)))
  BY <1>1, <1>2 DEF AgentInv, UpdaterInv, TableInv, Quiet
<1>4. \A c : c \in Routes!activeCommunities(communities(cluster)) <=>
                 \E o \in active(cluster) : c = cluster[o].community
  BY DEF Routes!activeCommunities, communities, active
<1>5. a \in table <=> /\ a \in Peers
                      /\ \E i \in DOMAIN rib[a] :
                            rib[a][i] \in Routes!activeCommunities(communities(cluster))
  BY <1>3 DEF Routes!buildDesiredRoutes, Routes!routeMatchesCommunities, AgentInv, AgentTypeOK
<1>6. a \in Peers => rib[a] = route(a)
  BY DEF Quiet
<1>. QED
  BY <1>4, <1>5, <1>6

\* The route of a peer of one overlay has the community its import policy sets.
LEMMA QuietRoute ==
    ASSUME AgentInv, Quiet, ~errs, NEW o \in active(cluster),
           NEW a \in cluster[o].peers \cap announced,
           Cardinality({x \in Overlays : a \in PeersOf[x]}) <= 1
    PROVE  a \in Peers /\ route(a) = <<policies[<<"import", o>>]>>
<1>1. SettledServerMatches /\ Settled /\ cluster \in Cluster
  BY DEF AgentInv, BGPInv, Inv, TypeOK, Quiet, Settled
<1>2. o \in Overlays /\ a \in PeersOf[o]
  BY <1>1 DEF Cluster, active
<1>3. a \in Peers
  BY <1>2 DEF Peers
<1>4. a \in DOMAIN neighbors
  BY <1>1 DEF SettledServerMatches
<1>5. PICK x \in Overlays : a \in PeersOf[x] /\ neighbors[a] = Kinds \X {x}
  BY <1>3, <1>4 DEF AgentInv, BGPInv, WholeClaims
<1>6. x = o
  BY <1>2, <1>5, SoleOwner
<1>7. "import" \in Kinds
  BY DEF Kinds
<1>8. <<"import", o>> \in DOMAIN policies
  BY <1>1, <1>7 DEF SettledServerMatches
<1>. DEFINE imports == {n \in DOMAIN policies : n[1] = "import" /\ n \in neighbors[a]}
<1>9. imports = {<<"import", o>>}
  BY <1>5, <1>6, <1>7, <1>8
<1>10. (CHOOSE n \in imports : TRUE) = <<"import", o>>
  BY <1>9
<1>11. a \in announced \cap DOMAIN neighbors /\ imports # {}
  BY <1>4, <1>9, Zenon
<1>12. route(a) = <<policies[CHOOSE n \in imports : TRUE]>>
  BY <1>11 DEF route
<1>. QED
  BY <1>3, <1>10, <1>12, Zenon

\* The invariant implies the property of the table.
LEMMA InvMatchesTable == AgentInv => SettledTableMatches
<1>. SUFFICES ASSUME AgentInv, Quiet, ~errs, ~routesErrs
              PROVE  /\ \A o \in active(cluster) : \A a \in cluster[o].peers \cap announced :
                           /\ Cardinality({x \in Overlays : a \in PeersOf[x]}) <= 1
                           /\ policies[<<"import", o>>] = cluster[o].community
                           => a \in table
                     /\ table \subseteq announced \cap UNION {cluster[o].peers : o \in Overlays}
  BY DEF SettledTableMatches
<1>1. ASSUME NEW o \in active(cluster), NEW a \in cluster[o].peers \cap announced,
             Cardinality({x \in Overlays : a \in PeersOf[x]}) <= 1,
             policies[<<"import", o>>] = cluster[o].community
      PROVE  a \in table
  <2>1. a \in Peers /\ route(a) = <<cluster[o].community>>
    BY <1>1, QuietRoute
  <2>2. 1 \in DOMAIN route(a) /\ route(a)[1] = cluster[o].community
    BY <2>1
  <2>. QED
    BY <2>1, <2>2, QuietTable
<1>2. ASSUME NEW a \in table
      PROVE  a \in announced \cap UNION {cluster[o].peers : o \in Overlays}
  <2>1. a \in Peers /\ route(a) # <<>>
    BY <1>2, QuietTable
  <2>2. a \in announced /\ a \in DOMAIN neighbors
    BY <2>1 DEF route
  <2>3. PICK o \in active(cluster) : a \in cluster[o].peers \/ a \in cluster[o].edges
    BY <2>2 DEF AgentInv, BGPInv, Inv, SettledServerMatches, Settled, Quiet
  <2>4. o \in Overlays
    BY DEF active
  <2>5. cluster[o].edges \subseteq NodeIPs
    <3>1. cluster[o] \in OverlayView
      BY <2>4 DEF AgentInv, AgentTypeOK, TypeOK, Cluster
    <3>. QED
      BY <3>1 DEF OverlayView
  <2>6. a \notin NodeIPs
    BY <2>1, ConstantsAssumption DEF Peers
  <2>. QED
    BY <2>2, <2>3, <2>4, <2>5, <2>6
<1>. QED
  BY <1>1, <1>2

-----------------------------------------------------------------------------
(* Theorems.                                                               *)

\* The invariant holds throughout.
LEMMA AgentInvHolds == AgentSpec => []AgentInv
  BY AgentInitInv, AgentNextInv, PTL DEF AgentSpec

\* All state of both loops, the channels between and the server stay well typed.
THEOREM AgentTypeCorrect == AgentSpec => []AgentTypeOK
<1>1. AgentInv => AgentTypeOK
  BY DEF AgentInv
<1>. QED
  BY <1>1, AgentInvHolds, PTL

\* gateway.go adds policies before neighbors and removes them after: whatever
\* snapshots come and wherever the agent restarts, until a call fails no
\* neighbor of one overlay names a policy the server does not have.
THEOREM OwnPoliciesResolveHolds == AgentSpec => []OwnPoliciesResolve
<1>1. AgentInv => OwnPoliciesResolve
  BY DEF AgentInv, BGPInv, ResolveInv
<1>. QED
  BY <1>1, AgentInvHolds, PTL

\* The two goroutines of manager.go agree at rest: the host's table has the
\* routes of the announcing peers of the cluster, and no others.
THEOREM SettledTableMatchesHolds == AgentSpec => []SettledTableMatches
  BY AgentInvHolds, InvMatchesTable, PTL
=============================================================================
