---------------------------- MODULE AgentBGPProofs ----------------------------
(***************************************************************************)
(* Proofs about AgentBGP, for any finite set of overlays and any peers,    *)
(* nodes, gateways and virtual IPs: first the loop of an internal node,    *)
(* then, with what GatewayAgentProofs shows of a gateway's, both modes.    *)
(***************************************************************************)
EXTENDS AgentBGP, KeyedSyncProofs

-----------------------------------------------------------------------------
(* InternalBGP: what Reconcile derives from a snapshot.                    *)

\* What the fields of an overlay in a snapshot can be.
LEMMA ViewFacts ==
    ASSUME NEW s \in Snapshot, NEW o \in Overlays
    PROVE  /\ s.view \in Cluster
           /\ s.view[o].community \in 0..MaxCommunity
           /\ s.view[o].gateways \subseteq GatewayIPs
           /\ s.view[o].edges \subseteq Vips
<1>1. s.view \in Cluster
  BY DEF Snapshot
<1>2. s.view[o] \in OverlayView
  BY <1>1 DEF Cluster
<1>. QED
  BY <1>1, <1>2 DEF OverlayView

\* The overlay whose community a prefix is advertised with has an edge there,
\* and so a community.
LEMMA OwnerFacts ==
    ASSUME NEW s \in Snapshot, NEW v, NEW o \in active(s.view), v \in s.view[o].edges
    PROVE  owner(s, v) \in active(s.view)
<1>1. s.order \in [1..Cardinality(Overlays) -> Overlays]
  BY DEF Snapshot, Orders
<1>2. Cardinality(Overlays) \in Nat
  BY FS_CardinalityType, ConstantsAssumption
<1>3. \E i \in DOMAIN s.order : s.order[i] = o
  <2>1. o \in Overlays /\ \A i, j \in DOMAIN s.order : i # j => s.order[i] # s.order[j]
    BY DEF active, Snapshot, Orders
  <2>. QED
    BY <1>1, <2>1, ListingIsOnto, ConstantsAssumption
<1>4. claims(s, v) \in SUBSET (1..Cardinality(Overlays)) /\ claims(s, v) # {}
  BY <1>1, <1>3, Zenon DEF claims
<1>. DEFINE i == CHOOSE i \in claims(s, v) : \A j \in claims(s, v) : i >= j
<1>5. i \in claims(s, v)
  BY <1>2, <1>4, LastIndex, Zenon
<1>6. owner(s, v) = s.order[i]
  BY DEF owner
<1>. HIDE DEF i
<1>7. owner(s, v) \in Overlays /\ v \in s.view[owner(s, v)].edges
  BY <1>1, <1>5, <1>6, Zenon DEF claims
<1>. QED
  BY <1>7, ViewFacts DEF Cluster, active

\* The neighbors that Reconcile wants are gateways.
LEMMA DesiredNeighborsFacts ==
    ASSUME NEW s \in Snapshot
    PROVE  \A a \in DOMAIN buildDesiredNeighbors(s) : a \in GatewayIPs
  BY ViewFacts DEF buildDesiredNeighbors

\* The policies that Reconcile wants: those of the overlays with a community.
LEMMA DesiredPoliciesFacts ==
    ASSUME NEW s \in Snapshot
    PROVE  \A n \in DOMAIN buildDesiredPolicies(s) :
              n \in PolicyNames /\ buildDesiredPolicies(s)[n] \in 1..MaxCommunity
<1>1. SUFFICES ASSUME NEW n \in DOMAIN buildDesiredPolicies(s)
               PROVE  n \in PolicyNames /\ buildDesiredPolicies(s)[n] \in 1..MaxCommunity
  OBVIOUS
<1>2. n[2] \in Overlays /\ s.view[n[2]].community # 0 /\ n \in PolicyNames
  BY <1>1 DEF buildDesiredPolicies, active, PolicyNames
<1>3. s.view[n[2]].community \in 1..MaxCommunity
  BY <1>2, ViewFacts, ConstantsAssumption
<1>. QED
  BY <1>2, <1>3 DEF buildDesiredPolicies

\* The prefixes that Reconcile wants: virtual IPs, each with the community of
\* an overlay.
LEMMA DesiredAdvertisementsFacts ==
    ASSUME NEW s \in Snapshot
    PROVE  \A v \in DOMAIN buildDesiredAdvertisements(s) :
              v \in Vips /\ buildDesiredAdvertisements(s)[v] \in 1..MaxCommunity
<1>1. SUFFICES ASSUME NEW v \in DOMAIN buildDesiredAdvertisements(s)
               PROVE  v \in Vips /\ buildDesiredAdvertisements(s)[v] \in 1..MaxCommunity
  OBVIOUS
<1>2. PICK o \in active(s.view) : v \in s.view[o].edges
  BY <1>1 DEF buildDesiredAdvertisements
<1>3. v \in Vips
  BY <1>2, ViewFacts DEF active
<1>4. owner(s, v) \in Overlays /\ s.view[owner(s, v)].community # 0
  BY <1>2, OwnerFacts DEF active
<1>5. s.view[owner(s, v)].community \in 1..MaxCommunity
  BY <1>4, ViewFacts, ConstantsAssumption
<1>6. buildDesiredAdvertisements(s)[v] = s.view[owner(s, v)].community
  BY <1>1 DEF buildDesiredAdvertisements
<1>. QED
  BY <1>3, <1>5, <1>6

-----------------------------------------------------------------------------
(* The inductive invariant.                                                *)

\* No update is lost: when the mediator owes nothing, the newest snapshot, in
\* the channel or in the loop, is the cluster.
ChannelInv ==
    ~owed => IF snapshots = <<>> THEN snap.view = cluster ELSE snapshots[1].view = cluster

\* How far a pass without failing calls has come at each of its steps.
PassInv ==
    ~errs =>
        /\ pc \in Steps \ {"idle", "removeNeighbors"} =>
               DOMAIN neighbors \subseteq DOMAIN buildDesiredNeighbors(snap)
        /\ pc \in {"withdraw", "addPolicies", "addNeighbors", "advertise"} =>
               DOMAIN policies \subseteq DOMAIN buildDesiredPolicies(snap)
        /\ pc \in {"addPolicies", "addNeighbors", "advertise"} =>
               DOMAIN advertised \subseteq DOMAIN buildDesiredAdvertisements(snap)
        /\ pc \in {"addNeighbors", "advertise"} =>
               DOMAIN buildDesiredPolicies(snap) \subseteq DOMAIN policies
        /\ pc = "advertise" =>
               DOMAIN buildDesiredNeighbors(snap) \subseteq DOMAIN neighbors

Inv == TypeOK /\ ChannelInv /\ PassInv /\ SettledServerMatches

\* What a step of a pass leaves alone, and what failing calls do.
LEMMA FailsFacts ==
    ASSUME TypeOK, NEW F, Fails(F)
    PROVE  /\ faults' \in 0..MaxFaults /\ errs' \in BOOLEAN
           /\ errs => errs'
           /\ ~errs' => F = {}
<1>1. faults' \in 0..MaxFaults
  BY ConstantsAssumption DEF Fails, TypeOK
<1>2. errs' \in BOOLEAN /\ (errs => errs') /\ (~errs' => F = {})
  BY Zenon DEF Fails, TypeOK
<1>. QED
  BY <1>1, <1>2

\* The server starts empty, and the first tick is owed.
LEMMA InitInv == Init => Inv
<1>. SUFFICES ASSUME Init PROVE Inv
  OBVIOUS
<1>1. cluster \in Cluster
  <2>1. 0 \in 0..MaxCommunity
    BY ConstantsAssumption
  <2>2. Unreconciled \in OverlayView
    <3>1. {} \in SUBSET GatewayIPs /\ {} \in SUBSET Vips
      OBVIOUS
    <3>. QED
      BY <2>1, <3>1, SMTT(30) DEF Unreconciled, OverlayView
  <2>. QED
    BY <2>2 DEF Init, Cluster, Unreconciled
<1>2. snap \in Snapshot
  BY <1>1 DEF Init, Snapshot
<1>3. TypeOK
  <2>1. snapshots \in Seq(Snapshot) /\ Len(snapshots) <= 1
    BY DEF Init
  <2>2. DOMAIN neighbors = {} /\ DOMAIN policies = {} /\ DOMAIN advertised = {}
    BY DEF Init
  <2>3. changes \in 0..MaxChanges /\ faults \in 0..MaxFaults
    BY ConstantsAssumption DEF Init
  <2>. QED
    BY <1>1, <1>2, <2>1, <2>2, <2>3, Zenon DEF Init, TypeOK, Steps
<1>. QED
  BY <1>3 DEF Inv, Init, ChannelInv, PassInv, SettledServerMatches, Settled, Steps

\* A pass begins with the snapshot that was in the channel.
LEMMA TakeSnapshotInv == ASSUME Inv, TakeSnapshot PROVE Inv'
<1>1. snap' = snapshots[1] /\ snap' \in Snapshot /\ snapshots' = <<>>
  BY ReceiveFacts DEF Inv, TypeOK, TakeSnapshot
<1>2. snapshots' \in Seq(Snapshot) /\ Len(snapshots') <= 1
  BY <1>1
<1>3. TypeOK'
  BY <1>1, <1>2, Zenon DEF Inv, TypeOK, TakeSnapshot, serverVars, Steps
<1>4. ChannelInv'
  BY <1>1 DEF Inv, ChannelInv, TakeSnapshot
<1>. QED
  BY <1>3, <1>4 DEF Inv, TakeSnapshot, PassInv, SettledServerMatches, Settled, Steps

\* The first loop leaves wanted neighbors only.
LEMMA RemoveNeighborsInv == ASSUME Inv, RemoveNeighbors PROVE Inv'
<1>. DEFINE want == buildDesiredNeighbors(snap)
<1>1. PICK F : Fails(F) /\ neighbors' = pruned(neighbors, want, F)
  BY DEF RemoveNeighbors
<1>. HIDE DEF want
<1>2. /\ \A k : k \in DOMAIN neighbors' <=> k \in DOMAIN neighbors /\ (k \in DOMAIN want \/ k \in F)
      /\ \A k \in DOMAIN neighbors' : neighbors'[k] = neighbors[k]
  BY <1>1, PrunedFacts
<1>3. faults' \in 0..MaxFaults /\ errs' \in BOOLEAN /\ (errs => errs') /\ (~errs' => F = {})
  BY <1>1, FailsFacts DEF Inv
<1>4. TypeOK'
  BY <1>2, <1>3 DEF Inv, TypeOK, RemoveNeighbors, LoopUnchanged, Steps
<1>5. PassInv'
  BY <1>2, <1>3 DEF Inv, PassInv, RemoveNeighbors, LoopUnchanged, Steps, want
<1>. QED
  BY <1>4, <1>5 DEF Inv, ChannelInv, SettledServerMatches, Settled, RemoveNeighbors, LoopUnchanged

\* The second loop leaves wanted policies only.
LEMMA RemovePoliciesInv == ASSUME Inv, RemovePolicies PROVE Inv'
<1>. DEFINE want == buildDesiredPolicies(snap)
<1>1. PICK F : Fails(F) /\ policies' = pruned(policies, want, F)
  BY DEF RemovePolicies
<1>. HIDE DEF want
<1>2. /\ \A k : k \in DOMAIN policies' <=> k \in DOMAIN policies /\ (k \in DOMAIN want \/ k \in F)
      /\ \A k \in DOMAIN policies' : policies'[k] = policies[k]
  BY <1>1, PrunedFacts
<1>3. faults' \in 0..MaxFaults /\ errs' \in BOOLEAN /\ (errs => errs') /\ (~errs' => F = {})
  BY <1>1, FailsFacts DEF Inv
<1>4. TypeOK'
  BY <1>2, <1>3 DEF Inv, TypeOK, RemovePolicies, LoopUnchanged, Steps
<1>5. PassInv'
  BY <1>2, <1>3 DEF Inv, PassInv, RemovePolicies, LoopUnchanged, Steps, want
<1>. QED
  BY <1>4, <1>5 DEF Inv, ChannelInv, SettledServerMatches, Settled, RemovePolicies, LoopUnchanged

\* The third loop leaves wanted prefixes only.
LEMMA WithdrawInv == ASSUME Inv, Withdraw PROVE Inv'
<1>. DEFINE want == buildDesiredAdvertisements(snap)
<1>1. PICK F : Fails(F) /\ advertised' = pruned(advertised, want, F)
  BY DEF Withdraw
<1>. HIDE DEF want
<1>2. /\ \A k : k \in DOMAIN advertised' <=> k \in DOMAIN advertised /\ (k \in DOMAIN want \/ k \in F)
      /\ \A k \in DOMAIN advertised' : advertised'[k] = advertised[k]
  BY <1>1, PrunedFacts
<1>3. faults' \in 0..MaxFaults /\ errs' \in BOOLEAN /\ (errs => errs') /\ (~errs' => F = {})
  BY <1>1, FailsFacts DEF Inv
<1>4. TypeOK'
  BY <1>2, <1>3 DEF Inv, TypeOK, Withdraw, LoopUnchanged, Steps
<1>5. PassInv'
  BY <1>2, <1>3 DEF Inv, PassInv, Withdraw, LoopUnchanged, Steps, want
<1>. QED
  BY <1>4, <1>5 DEF Inv, ChannelInv, SettledServerMatches, Settled, Withdraw, LoopUnchanged

\* The fourth loop adds the policies that are missing.
LEMMA AddPoliciesInv == ASSUME Inv, AddPolicies PROVE Inv'
<1>. DEFINE want == buildDesiredPolicies(snap)
<1>1. PICK F : Fails(F) /\ policies' = filled(policies, want, F)
  BY DEF AddPolicies
<1>2. \A k \in DOMAIN want : k \in PolicyNames /\ want[k] \in 1..MaxCommunity
  BY DesiredPoliciesFacts DEF Inv, TypeOK
<1>. HIDE DEF want
<1>3. /\ \A k : k \in DOMAIN policies' <=> k \in DOMAIN policies \/ (k \in DOMAIN want /\ k \notin F)
      /\ \A k \in DOMAIN policies : policies'[k] = policies[k]
      /\ \A k \in DOMAIN policies' : k \notin DOMAIN policies => policies'[k] = want[k]
  BY <1>1, FilledFacts
<1>4. faults' \in 0..MaxFaults /\ errs' \in BOOLEAN /\ (errs => errs') /\ (~errs' => F = {})
  BY <1>1, FailsFacts DEF Inv
<1>5. /\ DOMAIN policies' \subseteq PolicyNames
      /\ \A k \in DOMAIN policies' : policies'[k] \in 1..MaxCommunity
  BY <1>2, <1>3 DEF Inv, TypeOK
<1>6. TypeOK'
  BY <1>4, <1>5 DEF Inv, TypeOK, AddPolicies, LoopUnchanged, Steps
<1>7. PassInv'
  BY <1>3, <1>4 DEF Inv, PassInv, AddPolicies, LoopUnchanged, Steps, want
<1>. QED
  BY <1>6, <1>7 DEF Inv, ChannelInv, SettledServerMatches, Settled, AddPolicies, LoopUnchanged

\* The fifth loop adds the neighbors that are missing.
LEMMA AddNeighborsInv == ASSUME Inv, AddNeighbors PROVE Inv'
<1>. DEFINE want == buildDesiredNeighbors(snap)
<1>1. PICK F : Fails(F) /\ neighbors' = filled(neighbors, want, F)
  BY DEF AddNeighbors
<1>2. \A k \in DOMAIN want : k \in GatewayIPs
  BY DesiredNeighborsFacts DEF Inv, TypeOK
<1>. HIDE DEF want
<1>3. /\ \A k : k \in DOMAIN neighbors' <=> k \in DOMAIN neighbors \/ (k \in DOMAIN want /\ k \notin F)
      /\ \A k \in DOMAIN neighbors : neighbors'[k] = neighbors[k]
      /\ \A k \in DOMAIN neighbors' : k \notin DOMAIN neighbors => neighbors'[k] = want[k]
  BY <1>1, FilledFacts
<1>4. faults' \in 0..MaxFaults /\ errs' \in BOOLEAN /\ (errs => errs') /\ (~errs' => F = {})
  BY <1>1, FailsFacts DEF Inv
<1>5. DOMAIN neighbors' \subseteq GatewayIPs
  BY <1>2, <1>3 DEF Inv, TypeOK
<1>6. TypeOK'
  BY <1>4, <1>5 DEF Inv, TypeOK, AddNeighbors, LoopUnchanged, Steps
<1>7. PassInv'
  BY <1>3, <1>4 DEF Inv, PassInv, AddNeighbors, LoopUnchanged, Steps, want
<1>. QED
  BY <1>6, <1>7 DEF Inv, ChannelInv, SettledServerMatches, Settled, AddNeighbors, LoopUnchanged

\* The last loop advertises the prefixes that are missing; if no call of the pass
\* has failed the server is that of the snapshot.
LEMMA AdvertiseInv == ASSUME Inv, Advertise PROVE Inv'
<1>. DEFINE want == buildDesiredAdvertisements(snap)
<1>1. PICK F : Fails(F) /\ advertised' = filled(advertised, want, F)
  BY DEF Advertise
<1>2. \A k \in DOMAIN want : k \in Vips /\ want[k] \in 1..MaxCommunity
  BY DesiredAdvertisementsFacts DEF Inv, TypeOK
<1>. HIDE DEF want
<1>3. /\ \A k : k \in DOMAIN advertised' <=> k \in DOMAIN advertised \/ (k \in DOMAIN want /\ k \notin F)
      /\ \A k \in DOMAIN advertised : advertised'[k] = advertised[k]
      /\ \A k \in DOMAIN advertised' : k \notin DOMAIN advertised => advertised'[k] = want[k]
  BY <1>1, FilledFacts
<1>4. faults' \in 0..MaxFaults /\ errs' \in BOOLEAN /\ (errs => errs') /\ (~errs' => F = {})
  BY <1>1, FailsFacts DEF Inv
<1>5. /\ DOMAIN advertised' \subseteq Vips
      /\ \A k \in DOMAIN advertised' : advertised'[k] \in 1..MaxCommunity
  BY <1>2, <1>3 DEF Inv, TypeOK
<1>6. TypeOK'
  BY <1>4, <1>5 DEF Inv, TypeOK, Advertise, LoopUnchanged, Steps
<1>7. ASSUME ~errs'
      PROVE  /\ DOMAIN advertised' = DOMAIN want
             /\ DOMAIN neighbors' = DOMAIN buildDesiredNeighbors(snap)
             /\ DOMAIN policies' = DOMAIN buildDesiredPolicies(snap)
  <2>1. ~errs /\ F = {}
    BY <1>4, <1>7
  <2>2. DOMAIN advertised \subseteq DOMAIN want
    BY <2>1 DEF Inv, PassInv, Advertise, Steps, want
  <2>3. DOMAIN advertised' = DOMAIN want
    BY <1>3, <2>1, <2>2
  <2>. QED
    BY <2>1, <2>3 DEF Inv, PassInv, Advertise, Steps
<1>8. SettledServerMatches'
  <2>. SUFFICES ASSUME Settled'
                PROVE  /\ DOMAIN neighbors' = UNION {cluster[o].gateways : o \in Overlays}
                       /\ DOMAIN policies' = {"import", "export"} \X active(cluster)
                       /\ DOMAIN advertised' = UNION {cluster[o].edges : o \in active(cluster)}
    BY DEF SettledServerMatches, Advertise, LoopUnchanged, active
  <2>1. ~errs' /\ snap.view = cluster
    BY DEF Settled, Inv, ChannelInv, Advertise, LoopUnchanged
  <2>2. /\ DOMAIN buildDesiredNeighbors(snap) = UNION {cluster[o].gateways : o \in Overlays}
        /\ DOMAIN buildDesiredPolicies(snap) = {"import", "export"} \X active(cluster)
        /\ DOMAIN want = UNION {cluster[o].edges : o \in active(cluster)}
    BY <2>1 DEF buildDesiredNeighbors, buildDesiredPolicies, buildDesiredAdvertisements, want
  <2>. QED
    BY <1>7, <2>1, <2>2
<1>. QED
  BY <1>6, <1>8 DEF Inv, ChannelInv, PassInv, Advertise, LoopUnchanged, Steps

\* A pass that cannot list the server's state ends with an error.
LEMMA ListFailsInv == ASSUME Inv, ListFails PROVE Inv'
<1>1. TypeOK'
  BY ConstantsAssumption DEF Inv, TypeOK, ListFails, LoopUnchanged, serverVars, Steps
<1>. QED
  BY <1>1 DEF Inv, ChannelInv, PassInv, SettledServerMatches, Settled, ListFails, LoopUnchanged, Steps

\* A change of the cluster is owed to the loop.
LEMMA ClusterChangeInv == ASSUME Inv, ClusterChange PROVE Inv'
<1>1. TypeOK'
  BY ConstantsAssumption DEF Inv, TypeOK, ClusterChange, serverVars
<1>. QED
  BY <1>1 DEF Inv, ChannelInv, PassInv, SettledServerMatches, Settled, ClusterChange, serverVars

\* A tick sends the cluster as it is.
LEMMA TickInv == ASSUME Inv, Tick PROVE Inv'
<1>1. PICK q \in Orders : snapshots' = <<[view |-> cluster, order |-> q]>>
  BY DEF Tick
<1>2. [view |-> cluster, order |-> q] \in Snapshot
  BY DEF Inv, TypeOK, Snapshot
<1>3. /\ snapshots' \in Seq(Snapshot) /\ Len(snapshots') <= 1 /\ snapshots' # <<>>
      /\ snapshots'[1].view = cluster
  BY <1>1, <1>2
<1>4. TypeOK'
  BY <1>3, Zenon DEF Inv, TypeOK, Tick, serverVars
<1>. QED
  BY <1>3, <1>4 DEF Inv, ChannelInv, PassInv, SettledServerMatches, Settled, Tick, serverVars

\* Every step keeps the invariant.
LEMMA NextInv == Inv /\ [Next]_vars => Inv'
<1>. SUFFICES ASSUME Inv, [Next]_vars PROVE Inv'
  OBVIOUS
<1>1. CASE UNCHANGED vars
  BY <1>1 DEF vars, serverVars, Inv, TypeOK, ChannelInv, PassInv, SettledServerMatches, Settled, active
<1>. QED
  BY <1>1, TakeSnapshotInv, RemoveNeighborsInv, RemovePoliciesInv, WithdrawInv, AddPoliciesInv,
     AddNeighborsInv, AdvertiseInv, ListFailsInv, ClusterChangeInv, TickInv DEF Next, Reconcile

-----------------------------------------------------------------------------
(* What a step of the loop is, seen from the server: nothing, the beginning *)
(* of a pass, a move towards the snapshot, or the end of a pass.            *)

BeginsPass == pc = "idle" /\ pc' # "idle" /\ UNCHANGED <<neighbors, policies, advertised>>

MovesServer ==
    /\ pc # "idle" /\ snap' = snap /\ (errs => errs')
    /\ Towards(neighbors, buildDesiredNeighbors(snap), neighbors')
    /\ Towards(policies, buildDesiredPolicies(snap), policies')
    /\ Towards(advertised, buildDesiredAdvertisements(snap), advertised')

HasConverged ==
    /\ DOMAIN neighbors = DOMAIN buildDesiredNeighbors(snap)
    /\ DOMAIN policies = DOMAIN buildDesiredPolicies(snap)
    /\ DOMAIN advertised = DOMAIN buildDesiredAdvertisements(snap)

EndsPass == MovesServer /\ pc' = "idle" /\ (~errs' => HasConverged')

\* Every step of the loop is one of these; a pass whose calls all succeed ends
\* with exactly the wanted neighbors, policies and prefixes.
LEMMA PassSteps ==
    ASSUME Inv, [Next]_vars
    PROVE  \/ BeginsPass
           \/ MovesServer /\ pc' # "idle"
           \/ EndsPass
           \/ UNCHANGED <<snap, pc, errs, neighbors, policies, advertised>>
<1>. DEFINE wantN == buildDesiredNeighbors(snap)
            wantP == buildDesiredPolicies(snap)
            wantA == buildDesiredAdvertisements(snap)
<1>1. CASE TakeSnapshot
  BY <1>1 DEF TakeSnapshot, BeginsPass, serverVars
<1>2. CASE RemoveNeighbors
  <2>1. PICK F : Fails(F) /\ neighbors' = pruned(neighbors, wantN, F)
    BY <1>2 DEF RemoveNeighbors
  <2>2. /\ Towards(neighbors, wantN, neighbors') /\ Towards(policies, wantP, policies')
        /\ Towards(advertised, wantA, advertised')
    BY <1>2, <2>1, PrunedFacts, StayTowards DEF RemoveNeighbors
  <2>3. errs => errs'
    BY <2>1, FailsFacts DEF Inv
  <2>. QED
    BY <1>2, <2>2, <2>3 DEF RemoveNeighbors, LoopUnchanged, MovesServer
<1>3. CASE RemovePolicies
  <2>1. PICK F : Fails(F) /\ policies' = pruned(policies, wantP, F)
    BY <1>3 DEF RemovePolicies
  <2>2. /\ Towards(neighbors, wantN, neighbors') /\ Towards(policies, wantP, policies')
        /\ Towards(advertised, wantA, advertised')
    BY <1>3, <2>1, PrunedFacts, StayTowards DEF RemovePolicies
  <2>3. errs => errs'
    BY <2>1, FailsFacts DEF Inv
  <2>. QED
    BY <1>3, <2>2, <2>3 DEF RemovePolicies, LoopUnchanged, MovesServer
<1>4. CASE Withdraw
  <2>1. PICK F : Fails(F) /\ advertised' = pruned(advertised, wantA, F)
    BY <1>4 DEF Withdraw
  <2>2. /\ Towards(neighbors, wantN, neighbors') /\ Towards(policies, wantP, policies')
        /\ Towards(advertised, wantA, advertised')
    BY <1>4, <2>1, PrunedFacts, StayTowards DEF Withdraw
  <2>3. errs => errs'
    BY <2>1, FailsFacts DEF Inv
  <2>. QED
    BY <1>4, <2>2, <2>3 DEF Withdraw, LoopUnchanged, MovesServer
<1>5. CASE AddPolicies
  <2>1. PICK F : Fails(F) /\ policies' = filled(policies, wantP, F)
    BY <1>5 DEF AddPolicies
  <2>2. /\ Towards(neighbors, wantN, neighbors') /\ Towards(policies, wantP, policies')
        /\ Towards(advertised, wantA, advertised')
    BY <1>5, <2>1, FilledFacts, StayTowards DEF AddPolicies
  <2>3. errs => errs'
    BY <2>1, FailsFacts DEF Inv
  <2>. QED
    BY <1>5, <2>2, <2>3 DEF AddPolicies, LoopUnchanged, MovesServer
<1>6. CASE AddNeighbors
  <2>1. PICK F : Fails(F) /\ neighbors' = filled(neighbors, wantN, F)
    BY <1>6 DEF AddNeighbors
  <2>2. /\ Towards(neighbors, wantN, neighbors') /\ Towards(policies, wantP, policies')
        /\ Towards(advertised, wantA, advertised')
    BY <1>6, <2>1, FilledFacts, StayTowards DEF AddNeighbors
  <2>3. errs => errs'
    BY <2>1, FailsFacts DEF Inv
  <2>. QED
    BY <1>6, <2>2, <2>3 DEF AddNeighbors, LoopUnchanged, MovesServer
<1>7. CASE Advertise
  <2>1. PICK F : Fails(F) /\ advertised' = filled(advertised, wantA, F)
    BY <1>7 DEF Advertise
  <2>2. /\ Towards(neighbors, wantN, neighbors') /\ Towards(policies, wantP, policies')
        /\ Towards(advertised, wantA, advertised')
        /\ \A v : v \in DOMAIN advertised' <=> v \in DOMAIN advertised \/ (v \in DOMAIN wantA /\ v \notin F)
    BY <1>7, <2>1, FilledFacts, StayTowards DEF Advertise
  <2>3. (errs => errs') /\ (~errs' => F = {})
    BY <2>1, FailsFacts DEF Inv
  <2>4. ASSUME ~errs' PROVE HasConverged'
    <3>1. F = {} /\ ~errs
      BY <2>3, <2>4
    <3>2. /\ DOMAIN neighbors = DOMAIN wantN /\ DOMAIN policies = DOMAIN wantP
          /\ DOMAIN advertised \subseteq DOMAIN wantA
      BY <1>7, <3>1 DEF Inv, PassInv, Advertise, Steps
    <3>3. DOMAIN advertised' = DOMAIN wantA
      BY <2>2, <3>1, <3>2
    <3>4. snap' = snap /\ policies' = policies /\ neighbors' = neighbors
      BY <1>7 DEF Advertise, LoopUnchanged
    <3>. QED
      BY <3>2, <3>3, <3>4 DEF HasConverged
  <2>. QED
    BY <1>7, <2>2, <2>3, <2>4 DEF Advertise, LoopUnchanged, MovesServer, EndsPass
<1>8. CASE ListFails
  BY <1>8, StayTowards DEF ListFails, LoopUnchanged, MovesServer, EndsPass, serverVars
<1>9. CASE ClusterChange \/ Tick \/ UNCHANGED vars
  BY <1>9 DEF ClusterChange, Tick, vars, serverVars
<1>. QED
  BY <1>1, <1>2, <1>3, <1>4, <1>5, <1>6, <1>7, <1>8, <1>9 DEF Next, Reconcile

\* A step of a pass, of the collections as one.
MovesActual ==
    snap' = snap /\ (errs => errs') /\ Towards(serverActual, serverWanted, serverActual')

\* Every step of the loop begins a pass, is one that Converge allows in a pass or
\* at its end, or leaves its state alone.
LEMMA ServerSteps ==
    ASSUME Inv, [Next]_vars
    PROVE  \/ pc = "idle" /\ pc' # "idle" /\ serverActual' = serverActual
           \/ pc # "idle" /\ pc' # "idle" /\ MovesActual
           \/ /\ pc # "idle" /\ pc' = "idle" /\ MovesActual
              /\ ~errs' => DOMAIN serverActual' = DOMAIN serverWanted
           \/ UNCHANGED <<snap, pc, errs, neighbors, policies, advertised>>
<1>. DEFINE wantN == buildDesiredNeighbors(snap)
            wantP == buildDesiredPolicies(snap)
            wantA == buildDesiredAdvertisements(snap)
<1>1. ASSUME MovesServer PROVE Towards(serverActual, serverWanted, serverActual')
  <2>1. Towards(both(neighbors, policies), both(wantN, wantP), both(neighbors', policies'))
    BY <1>1, BothTowards DEF MovesServer
  <2>2. Towards(both(both(neighbors, policies), advertised), both(both(wantN, wantP), wantA),
                both(both(neighbors', policies'), advertised'))
    BY <1>1, <2>1, BothTowards DEF MovesServer
  <2>. QED
    BY <2>2 DEF serverActual, serverWanted
<1>2. ASSUME EndsPass, ~errs' PROVE DOMAIN serverActual' = DOMAIN serverWanted
  <2>1. /\ DOMAIN neighbors' = DOMAIN wantN /\ DOMAIN policies' = DOMAIN wantP
        /\ DOMAIN advertised' = DOMAIN wantA
    BY <1>2 DEF EndsPass, MovesServer, HasConverged
  <2>2. DOMAIN both(neighbors', policies') = DOMAIN both(wantN, wantP)
    BY <2>1, BothDomain
  <2>3. DOMAIN both(both(neighbors', policies'), advertised') = DOMAIN both(both(wantN, wantP), wantA)
    BY <2>1, <2>2, BothDomain
  <2>. QED
    BY <2>3 DEF serverActual, serverWanted
<1>3. CASE BeginsPass
  BY <1>3 DEF BeginsPass, serverActual
<1>4. CASE MovesServer /\ pc' # "idle"
  BY <1>1, <1>4 DEF MovesServer, MovesActual
<1>5. CASE EndsPass
  BY <1>1, <1>2, <1>5 DEF EndsPass, MovesServer, MovesActual
<1>. QED
  BY <1>3, <1>4, <1>5, PassSteps

-----------------------------------------------------------------------------
(* The gateway's loop, as GatewayAgentProofs has it, with nothing beside   *)
(* it.                                                                     *)

GP == INSTANCE GatewayAgentProofs WITH
    routesOwed <- FALSE, routesSnapshots <- <<>>, bgpEvents <- <<>>, latest <- <<>>,
    learned <- <<>>, routesErrs <- FALSE, table <- {}, announced <- {}, rib <- <<>>,
    events <- 0, restarts <- 0, MaxEvents <- 0, MaxRestarts <- 0

\* Its assumptions follow from those of AgentBGP.
LEMMA SameConstants ==
    GP!IsFiniteSet(Overlays) /\ Gateway!Cardinality(Overlays) = GP!Cardinality(Overlays)
  BY ConstantsAssumption DEF GP!IsFiniteSet, IsFiniteSet, Gateway!Cardinality, GP!Cardinality

\* The gateway's types, and what its Reconcile derives from a snapshot.
LEMMA SameGatewayData ==
    /\ Gateway!Orders = GP!Orders /\ Gateway!Cluster = GP!Cluster
    /\ Gateway!Snapshot = GP!Snapshot
    /\ Gateway!buildDesiredNeighbors(snap) = GP!buildDesiredNeighbors(snap)
    /\ Gateway!buildDesiredPolicies(snap) = GP!buildDesiredPolicies(snap)
    /\ Gateway!serverWanted = GP!serverWanted /\ Gateway!serverActual = GP!serverActual
<1>1. Gateway!Orders = GP!Orders
  BY SameConstants DEF Gateway!Orders, GP!Orders
<1>2. Gateway!Cluster = GP!Cluster
  BY DEF Gateway!Cluster, GP!Cluster, Gateway!OverlayView, GP!OverlayView
<1>3. Gateway!Snapshot = GP!Snapshot
  BY <1>1, <1>2 DEF Gateway!Snapshot, GP!Snapshot
<1>4. Gateway!buildDesiredNeighbors(snap) = GP!buildDesiredNeighbors(snap)
  BY DEF Gateway!buildDesiredNeighbors, GP!buildDesiredNeighbors, Gateway!active, GP!active,
         Gateway!claims, GP!claims, Gateway!owner, GP!owner, Gateway!Kinds, GP!Kinds
<1>5. Gateway!buildDesiredPolicies(snap) = GP!buildDesiredPolicies(snap)
  BY DEF Gateway!buildDesiredPolicies, GP!buildDesiredPolicies, Gateway!active, GP!active,
         Gateway!Kinds, GP!Kinds
<1>6. Gateway!serverWanted = GP!serverWanted /\ Gateway!serverActual = GP!serverActual
  BY <1>4, <1>5 DEF Gateway!serverWanted, GP!serverWanted, Gateway!serverActual,
     GP!serverActual, Gateway!both, GP!both
<1>. QED
  BY <1>1, <1>2, <1>3, <1>4, <1>5, <1>6

\* The gateway's initial states, steps and properties.
LEMMA SameGateway ==
    /\ Gateway!Init <=> GP!Init
    /\ Gateway!Next <=> GP!Next
    /\ Gateway!TypeOK <=> GP!TypeOK
    /\ Gateway!SettledServerMatches <=> GP!SettledServerMatches
<1>1. Gateway!Init <=> GP!Init
  BY SameGatewayData DEF Gateway!Init, GP!Init, Gateway!Unreconciled, GP!Unreconciled
<1>2. Gateway!TypeOK <=> GP!TypeOK
  BY SameGatewayData DEF Gateway!TypeOK, GP!TypeOK, Gateway!Addresses, GP!Addresses,
     Gateway!PolicyNames, GP!PolicyNames, Gateway!Kinds, GP!Kinds
<1>3. Gateway!SettledServerMatches <=> GP!SettledServerMatches
  BY DEF Gateway!SettledServerMatches, GP!SettledServerMatches, Gateway!Settled, GP!Settled,
     Gateway!active, GP!active, Gateway!Kinds, GP!Kinds
<1>4. /\ Gateway!TakeSnapshot <=> GP!TakeSnapshot
      /\ Gateway!ClusterChange <=> GP!ClusterChange
      /\ Gateway!Tick <=> GP!Tick
      /\ Gateway!ListFails <=> GP!ListFails
  BY SameGatewayData DEF Gateway!TakeSnapshot, GP!TakeSnapshot, Gateway!ClusterChange,
     GP!ClusterChange, Gateway!Tick, GP!Tick, Gateway!ListFails, GP!ListFails,
     Gateway!LoopUnchanged, GP!LoopUnchanged
<1>5. /\ Gateway!RemoveNeighbors <=> GP!RemoveNeighbors
      /\ Gateway!AddNeighbors <=> GP!AddNeighbors
  BY SameGatewayData DEF Gateway!RemoveNeighbors, GP!RemoveNeighbors, Gateway!AddNeighbors,
     GP!AddNeighbors, Gateway!Fails, GP!Fails, Gateway!LoopUnchanged, GP!LoopUnchanged,
     Gateway!orphans, GP!orphans, Gateway!missing, GP!missing, Gateway!pruned, GP!pruned,
     Gateway!filled, GP!filled, Gateway!kept, GP!kept, Gateway!added, GP!added
<1>6. /\ Gateway!RemovePolicies <=> GP!RemovePolicies
      /\ Gateway!AddPolicies <=> GP!AddPolicies
  BY SameGatewayData DEF Gateway!RemovePolicies, GP!RemovePolicies, Gateway!AddPolicies,
     GP!AddPolicies, Gateway!Fails, GP!Fails, Gateway!LoopUnchanged, GP!LoopUnchanged,
     Gateway!orphans, GP!orphans, Gateway!missing, GP!missing, Gateway!pruned, GP!pruned,
     Gateway!filled, GP!filled, Gateway!kept, GP!kept, Gateway!added, GP!added
<1>. QED
  BY <1>1, <1>2, <1>3, <1>4, <1>5, <1>6 DEF Gateway!Next, GP!Next, Gateway!Reconcile, GP!Reconcile

\* The server's collections after a step.
LEMMA SameActualNext == Gateway!serverActual' = GP!serverActual'
  BY DEF Gateway!serverActual, GP!serverActual, Gateway!both, GP!both

-----------------------------------------------------------------------------
(* Both modes.                                                             *)

\* The inductive invariant of the reconciler of the agent's mode.
AgentInv ==
    /\ mode \in {"gateway", "internal"}
    /\ mode = "gateway" => GP!Inv /\ DOMAIN advertised = {}
    /\ mode = "internal" => Inv

\* A step of the agent is one of the reconciler of its mode.
LEMMA StepOfMode ==
    ASSUME AgentInv, [AgentNext]_agentVars
    PROVE  /\ mode' = mode
           /\ mode = "gateway" => [GP!Next]_(GP!vars) /\ advertised' = advertised
           /\ mode = "internal" => [Next]_vars
<1>1. CASE UNCHANGED agentVars
  BY <1>1 DEF agentVars, vars, serverVars, GP!vars
<1>2. CASE AgentNext
  BY <1>2, SameGateway DEF AgentInv, AgentNext
<1>. QED
  BY <1>1, <1>2

\* An agent starts in one mode, with an empty server.
LEMMA InitAgentInv == AgentInit => AgentInv
<1>. SUFFICES ASSUME AgentInit PROVE AgentInv
  OBVIOUS
<1>1. CASE mode = "gateway" /\ Gateway!Init /\ advertised = [v \in {} |-> 0]
  BY <1>1, SameGateway, SameConstants, ConstantsAssumption, GatewayAssumption, GP!InitInv
     DEF AgentInv
<1>2. CASE mode = "internal" /\ Init
  BY <1>2, InitInv DEF AgentInv
<1>. QED
  BY <1>1, <1>2 DEF AgentInit

\* Every step keeps the invariant of the mode.
LEMMA NextAgentInv == AgentInv /\ [AgentNext]_agentVars => AgentInv'
<1>. SUFFICES ASSUME AgentInv, [AgentNext]_agentVars PROVE AgentInv'
  OBVIOUS
<1>1. CASE mode = "gateway"
  <2>1. GP!Inv'
    BY <1>1, StepOfMode, SameConstants, ConstantsAssumption, GatewayAssumption, GP!NextInv
       DEF AgentInv
  <2>. QED
    BY <1>1, <2>1, StepOfMode DEF AgentInv
<1>2. CASE mode = "internal"
  <2>1. Inv'
    BY <1>2, StepOfMode, NextInv DEF AgentInv
  <2>. QED
    BY <1>2, <2>1, StepOfMode DEF AgentInv
<1>. QED
  BY <1>1, <1>2 DEF AgentInv

\* The invariant holds throughout.
LEMMA AgentInvHolds == AgentSpec => []AgentInv
  BY InitAgentInv, NextAgentInv, PTL DEF AgentSpec

\* The invariant of a mode gives the properties of that mode.
LEMMA InvImplies == AgentInv => AgentTypeOK /\ AgentServerMatches
  BY SameGateway DEF AgentInv, GP!Inv, Inv, AgentTypeOK, AgentServerMatches

\* In both modes the snapshot channel never holds more than one snapshot, and
\* the reconcilers only configure neighbors, policies and prefixes that the
\* overlays may have, with the community of an overlay that has one.
THEOREM AgentTypeCorrect == AgentSpec => []AgentTypeOK
  BY AgentInvHolds, InvImplies, PTL

\* In both modes, when the loop is idle with nothing owed or queued and the last
\* Reconcile had no failing call, the server has exactly the neighbors, policies
\* and prefixes of the cluster, by key, whatever failed before and in whatever
\* order the snapshots listed the overlays.
THEOREM AgentServerMatchesHolds == AgentSpec => []AgentServerMatches
  BY AgentInvHolds, InvImplies, PTL

-----------------------------------------------------------------------------
(* Both reconcilers implement Converge.                                    *)

want == IF mode = "gateway" THEN Gateway!serverWanted ELSE serverWanted
have == IF mode = "gateway" THEN Gateway!serverActual ELSE serverActual

\* What a step of a pass does, in Converge's terms.
MovesHave == snap' = snap /\ (errs => errs') /\ Towards(have, want, have')

\* Whatever the mode, a step of the reconciler is one that Converge allows.
LEMMA AgentSteps ==
    ASSUME AgentInv, [AgentNext]_agentVars
    PROVE  \/ pc = "idle" /\ pc' # "idle" /\ have' = have
           \/ pc # "idle" /\ pc' # "idle" /\ MovesHave
           \/ pc # "idle" /\ pc' = "idle" /\ MovesHave /\ (~errs' => DOMAIN have' = DOMAIN want)
           \/ UNCHANGED <<snap, pc, errs, neighbors, policies, advertised>>
<1>1. mode' = mode
  BY StepOfMode
<1>2. CASE mode = "gateway"
  <2>1. GP!Inv /\ [GP!Next]_(GP!vars) /\ advertised' = advertised
    BY <1>2, StepOfMode DEF AgentInv
  <2>2. \/ pc = "idle" /\ pc' # "idle" /\ GP!serverActual' = GP!serverActual
        \/ pc # "idle" /\ pc' # "idle" /\ GP!MovesActual
        \/ /\ pc # "idle" /\ pc' = "idle" /\ GP!MovesActual
           /\ ~errs' => DOMAIN GP!serverActual' = DOMAIN GP!serverWanted
        \/ UNCHANGED <<snap, pc, errs, neighbors, policies>>
    BY <2>1, SameConstants, ConstantsAssumption, GatewayAssumption, GP!ServerSteps
  <2>3. want = GP!serverWanted /\ have = GP!serverActual /\ have' = GP!serverActual'
    BY <1>1, <1>2, SameGatewayData, SameActualNext DEF want, have
  <2>4. GP!MovesActual => MovesHave
    BY <2>3 DEF GP!MovesActual, GP!Towards, Towards, MovesHave
  <2>. QED
    BY <2>1, <2>2, <2>3, <2>4
<1>3. CASE mode = "internal"
  <2>1. want = serverWanted /\ have = serverActual /\ have' = serverActual'
    BY <1>1, <1>3 DEF want, have
  <2>2. Inv /\ [Next]_vars
    BY <1>3, StepOfMode DEF AgentInv
  <2>3. MovesActual => MovesHave
    BY <2>1 DEF MovesActual, MovesHave
  <2>. QED
    BY <2>1, <2>2, <2>3, ServerSteps
<1>. QED
  BY <1>2, <1>3 DEF AgentInv

\* A new server is empty and no pass is under way.
LEMMA InitConverge == AgentInit => Server!Init
<1>. SUFFICES ASSUME AgentInit PROVE Server!Init
  OBVIOUS
<1>1. pc = "idle" /\ DOMAIN neighbors = {} /\ DOMAIN policies = {} /\ DOMAIN advertised = {}
  BY DEF AgentInit, Init, Gateway!Init
<1>2. DOMAIN both(neighbors, policies) = {}
  BY <1>1, BothFacts, ZenonT(30)
<1>3. DOMAIN serverActual = {}
  BY <1>1, <1>2, BothFacts DEF serverActual
<1>4. DOMAIN Gateway!serverActual = {}
  BY <1>2 DEF Gateway!serverActual, Gateway!both, both
<1>. QED
  BY <1>1, <1>3, <1>4 DEF Server!Init

\* Every step of the agent is one of Converge or leaves its state alone.
LEMMA NextConverge ==
    AgentInv /\ [AgentNext]_agentVars =>
        [Server!Begin \/ Server!Step \/ Server!End \/ Server!Crash]_(Server!vars)
<1>. SUFFICES ASSUME AgentInv, [AgentNext]_agentVars
              PROVE  [Server!Begin \/ Server!Step \/ Server!End \/ Server!Crash]_(Server!vars)
  OBVIOUS
<1>1. mode' = mode
  BY StepOfMode
<1>2. snap' = snap => want' = want
  BY <1>1 DEF want, serverWanted, Gateway!serverWanted
<1>3. CASE pc = "idle" /\ pc' # "idle" /\ have' = have
  BY <1>3 DEF Server!Begin, have
<1>4. CASE pc # "idle" /\ pc' # "idle" /\ MovesHave
  BY <1>2, <1>4 DEF Server!Step, Server!Moves, MovesHave, Towards, have, want
<1>5. CASE /\ pc # "idle" /\ pc' = "idle" /\ MovesHave
           /\ ~errs' => DOMAIN have' = DOMAIN want
  BY <1>2, <1>5 DEF Server!End, Server!Moves, MovesHave, Towards, have, want
<1>6. CASE UNCHANGED <<snap, pc, errs, neighbors, policies, advertised>>
  <2>1. have' = have
    BY <1>1, <1>6 DEF have, serverActual, Gateway!serverActual
  <2>. QED
    BY <1>2, <1>6, <2>1 DEF Server!vars, have, want
<1>. QED
  BY <1>3, <1>4, <1>5, <1>6, AgentSteps

\* Both reconcilers implement Converge, whatever the mode: no step of a pass
\* removes a neighbor, policy or prefix that the snapshot wants or adds one that
\* it does not, and a pass without failing calls ends with exactly the wanted
\* ones, whatever earlier passes left undone.
THEOREM ServerConvergesHolds == AgentSpec => ServerConverges
  BY InitConverge, NextConverge, AgentInvHolds, PTL DEF AgentSpec, ServerConverges, Server!Spec
=============================================================================
