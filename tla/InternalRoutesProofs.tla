------------------------- MODULE InternalRoutesProofs -------------------------
(***************************************************************************)
(* Proofs about InternalRoutes, for any overlays, virtual IPs, pods,       *)
(* prefixes and routes, and any number of changes, events, failing calls   *)
(* and restarts.                                                           *)
(***************************************************************************)
EXTENDS InternalRoutes, KeyedSyncProofs

-----------------------------------------------------------------------------
(* What Reconcile derives from a snapshot.                                 *)

\* An overlay with a community has a table, and one with an edge a community.
LEMMA SnapshotFacts ==
    ASSUME NEW s \in Snapshot, NEW o \in Overlays
    PROVE  /\ s[o].community \in 0..MaxCommunity
           /\ s[o].edges \in [Vips -> Pods \cup {NoPod}]
           /\ o \in active(s) => s[o].community \in Tables
           /\ o \notin active(s) => \A v \in Vips : s[o].edges[v] = NoPod
<1>1. s[o] \in OverlayView
  BY DEF Snapshot
<1>2. s[o].community \in 0..MaxCommunity /\ s[o].edges \in [Vips -> Pods \cup {NoPod}]
  BY <1>1 DEF OverlayView
<1>3. o \in active(s) => s[o].community \in Tables
  BY <1>2, ConstantsAssumption DEF active, Tables
<1>4. o \notin active(s) => \A v \in Vips : s[o].edges[v] = NoPod
  BY DEF active, Snapshot
<1>. QED
  BY <1>2, <1>3, <1>4

\* The VRFs and bridges that Reconcile wants.
LEMMA DesiredFacts ==
    ASSUME NEW s \in Snapshot
    PROVE  /\ \A o : o \in DOMAIN desiredVRFs(s) <=> o \in active(s)
           /\ \A o \in active(s) : o \in Overlays /\ desiredVRFs(s)[o] \in Tables
           /\ DOMAIN desiredBridges(s) \subseteq Keys
           /\ \A k \in DOMAIN desiredBridges(s) : desiredBridges(s)[k] \in Pods
           /\ communities(s) \subseteq Tables
<1>1. \A o : o \in DOMAIN desiredVRFs(s) <=> o \in active(s)
  BY DEF desiredVRFs
<1>2. \A o \in active(s) : o \in Overlays /\ desiredVRFs(s)[o] \in Tables
  BY SnapshotFacts DEF desiredVRFs, active
<1>3. DOMAIN desiredBridges(s) \subseteq Keys
  BY DEF desiredBridges
<1>4. ASSUME NEW k \in DOMAIN desiredBridges(s) PROVE desiredBridges(s)[k] \in Pods
  <2>1. k \in Keys /\ s[k[1]].edges[k[2]] # NoPod
    BY <1>4 DEF desiredBridges
  <2>2. k[1] \in Overlays /\ k[2] \in Vips
    BY <2>1 DEF Keys
  <2>3. s[k[1]].edges[k[2]] \in Pods
    BY <2>1, <2>2, SnapshotFacts
  <2>. QED
    BY <2>1, <2>3 DEF desiredBridges
<1>5. communities(s) \subseteq Tables
  BY SnapshotFacts DEF communities, active
<1>. QED
  BY <1>1, <1>2, <1>3, <1>4, <1>5

\* Before the first snapshot there is nothing to want.
LEMMA NoOverlaysFacts ==
    /\ NoOverlays \in Snapshot /\ active(NoOverlays) = {}
    /\ DOMAIN desiredVRFs(NoOverlays) = {} /\ DOMAIN desiredBridges(NoOverlays) = {}
<1>1. 0 \in 0..MaxCommunity
  BY ConstantsAssumption
<1>2. NoOverlays \in Snapshot
  BY <1>1 DEF NoOverlays, Snapshot, OverlayView
<1>3. active(NoOverlays) = {}
  BY DEF NoOverlays, active
<1>4. DOMAIN desiredVRFs(NoOverlays) = {}
  BY <1>3 DEF desiredVRFs
<1>5. DOMAIN desiredBridges(NoOverlays) = {}
  BY DEF NoOverlays, desiredBridges, Keys
<1>. QED
  BY <1>2, <1>3, <1>4, <1>5

-----------------------------------------------------------------------------
(* The inductive invariant.                                                *)

\* No snapshot is lost: when the mediator owes nothing, the newest one, in the
\* channel or in the updater, is the cluster.
ChannelInv ==
    ~owed => IF snapshots = <<>> THEN latest = cluster ELSE snapshots[1] = cluster

\* No route event is lost or reordered.
EventsInv == InFlight(Prefixes, bgpEvents, learned, rib)

RulesMatch(s) ==
    /\ \A o \in active(s) : \E r \in rules : r.table = s[o].community
    /\ \A r \in listedRules : r.table \in communities(s)

AddrsMatch(s) == \A o \in active(s) : addrs[o] = desiredIPs(s, o)

\* How far a pass without failing calls has come at each of its steps.
PassInv ==
    ~errs =>
        /\ pc \in {"rules", "addrs", "routes", "bridges"} => DOMAIN vrfs = active(latest)
        /\ pc \in {"addrs", "routes", "bridges"} => RulesMatch(latest)
        /\ pc \in {"routes", "bridges"} => AddrsMatch(latest)
        /\ pc = "bridges" =>
              \A t \in communities(latest) : tables[t] = routesByTable(learned, latest, t)

\* The first agent's snapshot is the last one received on the node.
DeliveredInv == restarts = 0 => delivered = latest

Inv ==
    TypeOK /\ ChannelInv /\ EventsInv /\ PassInv /\ DeliveredInv /\ SettledHostMatches

\* A step that leaves the rules and VRFs alone leaves the rules as good as they
\* were, and likewise for the addresses.
LEMMA RulesMatchKept ==
    ASSUME latest' = latest, rules' = rules, vrfs' = vrfs
    PROVE  RulesMatch(latest) => RulesMatch(latest)'
<1>1. listedRules' = listedRules
  BY DEF listedRules
<1>2. active(latest)' = active(latest) /\ communities(latest)' = communities(latest)
  BY DEF active, communities
<1>. QED
  BY <1>1, <1>2, Zenon DEF RulesMatch

LEMMA AddrsMatchKept ==
    ASSUME latest' = latest, addrs' = addrs
    PROVE  AddrsMatch(latest) => AddrsMatch(latest)'
  BY Zenon DEF AddrsMatch, active, desiredIPs

\* What failing calls do.
LEMMA FailsFacts ==
    ASSUME TypeOK, NEW F, Fails(F)
    PROVE  /\ faults' \in 0..MaxFaults /\ errs' \in BOOLEAN
           /\ errs => errs'
           /\ ~errs' => F = {}
<1>1. faults' \in 0..MaxFaults
  BY ConstantsAssumption DEF Fails, TypeOK
<1>2. errs' \in BOOLEAN /\ (errs => errs') /\ (~errs' => F = {})
  BY Zenon DEF Fails, TypeOK
<1>. QED
  BY <1>1, <1>2

\* The node starts with nothing, and the first tick is owed.
LEMMA InitInv == Init => Inv
<1>. SUFFICES ASSUME Init PROVE Inv
  OBVIOUS
<1>1. TypeOK
  <2>1. cluster \in Snapshot /\ latest \in Snapshot /\ delivered \in Snapshot
    BY NoOverlaysFacts DEF Init
  <2>2. snapshots \in Seq(Snapshot) /\ Len(snapshots) <= 1 /\ bgpEvents \in Seq(Prefixes \X Routes)
    BY DEF Init
  <2>3. learned \in [Prefixes -> Routes] /\ rib \in [Prefixes -> Routes]
    BY ConstantsAssumption DEF Init
  <2>4. /\ DOMAIN vrfs = {} /\ DOMAIN bridges = {} /\ rules = {}
        /\ addrs \in [Overlays -> SUBSET Vips] /\ \A o \in Overlays : addrs[o] = {}
        /\ tables \in [Tables -> SUBSET Prefixes]
    BY DEF Init, Nothing
  <2>5. /\ changes \in 0..MaxChanges /\ events \in 0..MaxEvents
        /\ faults \in 0..MaxFaults /\ restarts \in 0..MaxRestarts
    BY ConstantsAssumption DEF Init
  <2>. QED
    BY <2>1, <2>2, <2>3, <2>4, <2>5, Zenon DEF Init, TypeOK
<1>2. EventsInv
  BY DEF Init, EventsInv, InFlight
<1>. QED
  BY <1>1, <1>2 DEF Inv, Init, ChannelInv, PassInv, DeliveredInv, SettledHostMatches, Settled

-----------------------------------------------------------------------------
(* The two receives.                                                       *)

\* A pass begins with the snapshot that was in the channel.
LEMMA TakeSnapshotInv == ASSUME Inv, TakeSnapshot PROVE Inv'
<1>1. latest' = snapshots[1] /\ latest' \in Snapshot /\ snapshots' = <<>>
  BY ReceiveFacts DEF Inv, TypeOK, TakeSnapshot, ReceiveSnapshot
<1>2. snapshots' \in Seq(Snapshot) /\ Len(snapshots') <= 1
  BY <1>1
<1>. USE DEF TakeSnapshot, ReceiveSnapshot, hostVars, boundVars
<1>3. TypeOK'
  BY <1>1, <1>2, Zenon DEF Inv, TypeOK
<1>4. ChannelInv' /\ DeliveredInv'
  BY <1>1 DEF Inv, ChannelInv, DeliveredInv
<1>5. EventsInv'
  BY DEF Inv, EventsInv
<1>. QED
  BY <1>3, <1>4, <1>5 DEF Inv, PassInv, SettledHostMatches, Settled

\* A pass that an event begins works with the snapshot received last.
LEMMA TakeEventInv == ASSUME Inv, TakeEvent PROVE Inv'
<1>1. /\ bgpEvents' \in Seq(Prefixes \X Routes)
      /\ learned' \in [Prefixes -> Routes]
      /\ EventsInv'
  BY ReceiveEventFacts, Zenon DEF Inv, TypeOK, EventsInv, TakeEvent, ReceiveEvent, ApplyEvent, worldVars
<1>. USE DEF TakeEvent, ReceiveEvent, worldVars, hostVars, boundVars
<1>2. TypeOK'
  BY <1>1, Zenon DEF Inv, TypeOK
<1>3. ChannelInv' /\ DeliveredInv'
  BY DEF Inv, ChannelInv, DeliveredInv
<1>. QED
  BY <1>1, <1>2, <1>3 DEF Inv, PassInv, SettledHostMatches, Settled

-----------------------------------------------------------------------------
(* The steps of a pass.                                                    *)

\* What a step of a pass does to the agent leaves alone what is in flight.
LEMMA StepKeeps ==
    ASSUME Inv, StepUnchanged
    PROVE  ChannelInv' /\ EventsInv' /\ DeliveredInv'
  BY DEF Inv, StepUnchanged, worldVars, ChannelInv, EventsInv, DeliveredInv

\* Nor does what happens between the steps change how far a pass has come.
LEMMA PassKeeps ==
    ASSUME Inv, UNCHANGED <<errs, pc, latest, learned, vrfs, rules, addrs, tables>>
    PROVE  PassInv'
  BY DEF Inv, PassInv, RulesMatch, AddrsMatch, listedRules

\* After the first step there is one VRF per overlay with a community.
LEMMA VRFsInv == ASSUME Inv, reconcileVRFs PROVE Inv'
<1>. DEFINE want == desiredVRFs(latest)
<1>1. PICK F : Fails(F) /\ vrfs' = sync(vrfs, want, F)
  BY DEF reconcileVRFs
<1>2. /\ \A o : o \in DOMAIN want <=> o \in active(latest)
      /\ \A o \in active(latest) : o \in Overlays /\ want[o] \in Tables
  BY DesiredFacts DEF Inv, TypeOK
<1>. HIDE DEF want
<1>3. /\ \A o : o \in DOMAIN vrfs' <=>
              \/ o \in DOMAIN vrfs /\ (o \in DOMAIN want \/ o \in F)
              \/ o \in DOMAIN want /\ o \notin F
      /\ \A o \in DOMAIN vrfs' : vrfs'[o] = IF o \in DOMAIN vrfs THEN vrfs[o] ELSE want[o]
  BY <1>1, SyncFacts
<1>4. faults' \in 0..MaxFaults /\ errs' \in BOOLEAN /\ (errs => errs') /\ (~errs' => F = {})
  BY <1>1, FailsFacts DEF Inv
<1>. USE DEF reconcileVRFs, StepUnchanged, worldVars
<1>5. DOMAIN vrfs' \subseteq Overlays /\ \A o \in DOMAIN vrfs' : vrfs'[o] \in Tables
  BY <1>2, <1>3 DEF Inv, TypeOK
<1>6. addrs' \in [Overlays -> SUBSET Vips] /\ \A o \in Overlays \ DOMAIN vrfs' : addrs'[o] = {}
  BY DEF Inv, TypeOK
<1>7. TypeOK'
  BY <1>4, <1>5, <1>6 DEF Inv, TypeOK
<1>8. PassInv'
  <2>1. ~errs' => DOMAIN vrfs' = active(latest)
    BY <1>2, <1>3, <1>4, Zenon
  <2>. QED
    BY <2>1 DEF PassInv, active
<1>. QED
  BY <1>7, <1>8, StepKeeps DEF Inv, SettledHostMatches, Settled

\* After the second every overlay with a community has a rule for its table,
\* and the rules that can be listed lead to those tables.
LEMMA RulesInv == ASSUME Inv, reconcileRules PROVE Inv'
<1>. DEFINE stale == {r \in listedRules : r.table \notin communities(latest)}
            absent == {r \in desiredRules(latest) : r.table \notin {x.table : x \in listedRules}}
<1>1. PICK F : /\ Fails(F)
               /\ rules' = {r \in rules : r \notin stale \/ r.table \in F}
                           \cup {r \in absent : r.table \notin F}
  BY DEF reconcileRules
<1>2. faults' \in 0..MaxFaults /\ errs' \in BOOLEAN /\ (errs => errs') /\ (~errs' => F = {})
  BY <1>1, FailsFacts DEF Inv
<1>. USE DEF reconcileRules, StepUnchanged, worldVars
<1>3. rules' \subseteq [to : Overlays, table : Tables]
  <2>1. desiredRules(latest) \subseteq [to : Overlays, table : Tables]
    BY SnapshotFacts DEF Inv, TypeOK, desiredRules, active
  <2>. QED
    BY <1>1, <2>1 DEF Inv, TypeOK
<1>4. TypeOK'
  BY <1>2, <1>3 DEF Inv, TypeOK
<1>5. ASSUME ~errs' PROVE RulesMatch(latest)'
  <2>1. rules' = {r \in rules : r \notin stale} \cup absent
    BY <1>1, <1>2, <1>5
  <2>2. ASSUME NEW o \in active(latest) PROVE \E r \in rules' : r.table = latest[o].community
    <3>. DEFINE want == [to |-> o, table |-> latest[o].community]
    <3>1. want \in desiredRules(latest) /\ want.table = latest[o].community
      BY <2>2 DEF desiredRules
    <3>2. latest[o].community \in communities(latest)
      BY <2>2 DEF communities
    <3>3. CASE want.table \in {x.table : x \in listedRules}
      <4>1. PICK x \in listedRules : x.table = want.table
        BY <3>3
      <4>2. x \in rules /\ x \notin stale
        BY <3>1, <3>2, <4>1 DEF listedRules
      <4>. QED
        BY <2>1, <3>1, <4>1, <4>2
    <3>4. CASE want.table \notin {x.table : x \in listedRules}
      BY <2>1, <3>1, <3>4
    <3>. QED
      BY <3>3, <3>4
  <2>3. ASSUME NEW r \in rules', NEW o \in DOMAIN vrfs, vrfs[o] = r.table
        PROVE  r.table \in communities(latest)
    <3>1. CASE r \in rules /\ r \notin stale
      BY <2>3, <3>1 DEF listedRules
    <3>2. CASE r \in absent
      BY <3>2 DEF desiredRules, communities
    <3>. QED
      BY <2>1, <2>3, <3>1, <3>2
  <2>. QED
    BY <2>2, <2>3 DEF RulesMatch, listedRules, active, communities
<1>6. PassInv'
  BY <1>2, <1>5 DEF Inv, PassInv
<1>. QED
  BY <1>4, <1>6, StepKeeps DEF Inv, SettledHostMatches, Settled

\* What the third step does to the addresses of an overlay.
LEMMA AddrsFacts ==
    ASSUME Inv, reconcileAddrs
    PROVE  /\ addrs' \in [Overlays -> SUBSET Vips]
           /\ \A o \in Overlays \ (active(latest) \cap DOMAIN vrfs) : addrs'[o] = addrs[o]
           /\ \A o \in active(latest) \cap DOMAIN vrfs :
                 /\ addrs[o] \cap desiredIPs(latest, o) \subseteq addrs'[o]
                 /\ addrs'[o] \subseteq addrs[o] \cup desiredIPs(latest, o)
                 /\ ~errs' => addrs'[o] = desiredIPs(latest, o)
           /\ faults' \in 0..MaxFaults /\ errs' \in BOOLEAN /\ (errs => errs')
<1>. DEFINE want(o) == desiredIPs(latest, o)
            fails(F, o) == {v \in Vips : <<o, v>> \in F}
<1>1. PICK F \in SUBSET Keys :
          /\ Fails(F)
          /\ addrs' = [o \in Overlays |->
                          IF o \in active(latest) \cap DOMAIN vrfs
                          THEN (addrs[o] \cap (want(o) \cup fails(F, o))) \cup (want(o) \ fails(F, o))
                          ELSE addrs[o]]
  BY Zenon DEF reconcileAddrs
<1>2. faults' \in 0..MaxFaults /\ errs' \in BOOLEAN /\ (errs => errs') /\ (~errs' => F = {})
  BY <1>1, FailsFacts DEF Inv
<1>3. \A o : want(o) \subseteq Vips
  BY DEF desiredIPs
<1>4. addrs \in [Overlays -> SUBSET Vips]
  BY DEF Inv, TypeOK
<1>. HIDE DEF want
<1>5. addrs' \in [Overlays -> SUBSET Vips]
  BY <1>1, <1>3, <1>4
<1>6. \A o \in Overlays \ (active(latest) \cap DOMAIN vrfs) : addrs'[o] = addrs[o]
  BY <1>1
<1>7. ASSUME NEW o \in active(latest) \cap DOMAIN vrfs
      PROVE  /\ addrs[o] \cap want(o) \subseteq addrs'[o]
             /\ addrs'[o] \subseteq addrs[o] \cup want(o)
             /\ ~errs' => addrs'[o] = want(o)
  <2>1. addrs'[o] = (addrs[o] \cap (want(o) \cup fails(F, o))) \cup (want(o) \ fails(F, o))
    BY <1>1 DEF active
  <2>2. ~errs' => fails(F, o) = {}
    BY <1>2
  <2>. HIDE DEF fails
  <2>. QED
    BY <2>1, <2>2
<1>. QED
  BY <1>2, <1>5, <1>6, <1>7 DEF want

\* After the third step the addresses are those of the local edges.
LEMMA AddrsInv == ASSUME Inv, reconcileAddrs PROVE Inv'
<1>. USE DEF reconcileAddrs, StepUnchanged, worldVars
<1>1. TypeOK'
  <2>1. \A o \in Overlays \ DOMAIN vrfs : addrs'[o] = {}
    BY AddrsFacts DEF Inv, TypeOK
  <2>. QED
    BY <2>1, AddrsFacts, ZenonT(30) DEF Inv, TypeOK
<1>2. ASSUME ~errs' PROVE AddrsMatch(latest)'
  <2>1. ~errs /\ DOMAIN vrfs = active(latest)
    BY <1>2, AddrsFacts, ZenonT(30) DEF Inv, PassInv
  <2>2. \A o \in active(latest) : addrs'[o] = desiredIPs(latest, o)
    BY <1>2, <2>1, AddrsFacts, ZenonT(30)
  <2>. QED
    BY <2>2 DEF AddrsMatch, active, desiredIPs
<1>3. PassInv'
  <2>1. errs => errs'
    BY AddrsFacts, Zenon
  <2>2. RulesMatch(latest) => RulesMatch(latest)'
    BY RulesMatchKept, ZenonT(30)
  <2>. QED
    BY <1>2, <2>1, <2>2 DEF Inv, PassInv, active
<1>. QED
  BY <1>1, <1>3, StepKeeps DEF Inv, SettledHostMatches, Settled

\* After the fourth step the tables hold the learned routes.
LEMMA RoutesInv == ASSUME Inv, reconcileRoutes PROVE Inv'
<1>1. PICK F : /\ Fails(F)
               /\ tables' = [t \in Tables |->
                                IF t \in communities(latest) \ F
                                THEN routesByTable(learned, latest, t) ELSE tables[t]]
  BY DEF reconcileRoutes
<1>2. faults' \in 0..MaxFaults /\ errs' \in BOOLEAN /\ (errs => errs') /\ (~errs' => F = {})
  BY <1>1, FailsFacts DEF Inv
<1>. USE DEF reconcileRoutes, StepUnchanged, worldVars
<1>3. tables' \in [Tables -> SUBSET Prefixes]
  <2>1. \A t \in Tables : routesByTable(learned, latest, t) \in SUBSET Prefixes
    BY ZenonT(30) DEF routesByTable
  <2>. QED
    BY <1>1, <2>1 DEF Inv, TypeOK
<1>4. TypeOK'
  BY <1>2, <1>3 DEF Inv, TypeOK
<1>5. ASSUME ~errs'
      PROVE  \A t \in communities(latest) : tables'[t] = routesByTable(learned, latest, t)
  <2>1. communities(latest) \subseteq Tables
    BY DesiredFacts DEF Inv, TypeOK
  <2>. QED
    BY <1>1, <1>2, <1>5, <2>1, ZenonT(30)
<1>6. PassInv'
  <2>1. RulesMatch(latest) => RulesMatch(latest)'
    BY RulesMatchKept, ZenonT(30)
  <2>2. AddrsMatch(latest) => AddrsMatch(latest)'
    BY AddrsMatchKept, ZenonT(30)
  <2>. QED
    BY <1>2, <1>5, <2>1, <2>2 DEF Inv, PassInv
<1>. QED
  BY <1>4, <1>6, StepKeeps, Zenon DEF Inv, SettledHostMatches, Settled

\* What the last step does to the bridges.
LEMMA BridgesFacts ==
    ASSUME Inv, reconcileBridges
    PROVE  /\ Towards(bridges, desiredBridges(latest), bridges')
           /\ ~errs' => DOMAIN bridges' = DOMAIN desiredBridges(latest)
           /\ DOMAIN bridges' \subseteq Keys /\ \A k \in DOMAIN bridges' : bridges'[k] \in Pods
           /\ faults' \in 0..MaxFaults /\ errs' \in BOOLEAN /\ (errs => errs')
<1>. DEFINE want == desiredBridges(latest)
<1>1. PICK F : Fails(F) /\ bridges' = sync(bridges, want, F)
  BY DEF reconcileBridges
<1>2. DOMAIN want \subseteq Keys /\ \A k \in DOMAIN want : want[k] \in Pods
  BY DesiredFacts DEF Inv, TypeOK
<1>. HIDE DEF want
<1>3. /\ \A k : k \in DOMAIN bridges' <=>
              \/ k \in DOMAIN bridges /\ (k \in DOMAIN want \/ k \in F)
              \/ k \in DOMAIN want /\ k \notin F
      /\ \A k \in DOMAIN bridges' : bridges'[k] = IF k \in DOMAIN bridges THEN bridges[k] ELSE want[k]
      /\ Towards(bridges, want, bridges')
  BY <1>1, SyncFacts
<1>4. faults' \in 0..MaxFaults /\ errs' \in BOOLEAN /\ (errs => errs') /\ (~errs' => F = {})
  BY <1>1, FailsFacts DEF Inv
<1>5. ~errs' => DOMAIN bridges' = DOMAIN want
  BY <1>3, <1>4
<1>6. DOMAIN bridges' \subseteq Keys /\ \A k \in DOMAIN bridges' : bridges'[k] \in Pods
  BY <1>2, <1>3 DEF Inv, TypeOK
<1>. QED
  BY <1>3, <1>4, <1>5, <1>6 DEF want

\* A pass that ends without an error leaves the host that its snapshot and its
\* routes want.
LEMMA BridgesInv == ASSUME Inv, reconcileBridges PROVE Inv'
<1>. USE DEF reconcileBridges, StepUnchanged, worldVars
<1>1. TypeOK'
  BY BridgesFacts DEF Inv, TypeOK
<1>2. SettledHostMatches'
  <2>. SUFFICES ASSUME Settled'
                PROVE  /\ DOMAIN vrfs = active(cluster)
                       /\ AddrsMatch(cluster) /\ RulesMatch(cluster)
                       /\ DOMAIN bridges' = DOMAIN desiredBridges(cluster)
                       /\ \A t \in communities(cluster) : tables[t] = routesByTable(rib, cluster, t)
    BY DEF SettledHostMatches, AddrsMatch, RulesMatch, listedRules
  <2>1. ~errs' /\ ~errs /\ latest = cluster
    BY BridgesFacts DEF Settled, Inv, ChannelInv
  <2>2. learned = rib
    <3>1. InFlight(Prefixes, <<>>, learned, rib)
      BY DEF Settled, Inv, EventsInv
    <3>2. learned \in [Prefixes -> Routes] /\ rib \in [Prefixes -> Routes]
      BY DEF Inv, TypeOK
    <3>. QED
      BY <3>1, <3>2, DrainedFacts, Zenon
  <2>. QED
    BY <2>1, <2>2, BridgesFacts, ZenonT(30) DEF Inv, PassInv
<1>. QED
  BY <1>1, <1>2, StepKeeps DEF Inv, PassInv

\* A pass that cannot list what there is ends with an error.
LEMMA ListFailsInv == ASSUME Inv, ListFails PROVE Inv'
<1>. USE DEF ListFails, StepUnchanged, worldVars, hostVars
<1>1. TypeOK'
  BY ConstantsAssumption DEF Inv, TypeOK
<1>. QED
  BY <1>1, StepKeeps, Zenon DEF Inv, PassInv, SettledHostMatches, Settled

-----------------------------------------------------------------------------
(* The environment.                                                        *)

\* A change of the cluster is owed to the updater.
LEMMA ClusterChangeInv == ASSUME Inv, ClusterChange PROVE Inv'
<1>. USE DEF ClusterChange, agentVars, hostVars
<1>1. TypeOK'
  BY ConstantsAssumption DEF Inv, TypeOK
<1>2. EventsInv' /\ DeliveredInv' /\ ChannelInv'
  BY DEF Inv, EventsInv, DeliveredInv, ChannelInv
<1>3. PassInv'
  BY PassKeeps
<1>. QED
  BY <1>1, <1>2, <1>3 DEF Inv, SettledHostMatches, Settled

\* A tick sends the cluster as it is.
LEMMA TickInv == ASSUME Inv, Tick PROVE Inv'
<1>. USE DEF Tick, hostVars, boundVars
<1>1. /\ snapshots' \in Seq(Snapshot) /\ Len(snapshots') <= 1 /\ snapshots' # <<>>
      /\ snapshots'[1] = cluster
  BY SendFacts DEF Inv, TypeOK
<1>2. TypeOK'
  BY <1>1, Zenon DEF Inv, TypeOK
<1>3. EventsInv' /\ DeliveredInv' /\ ChannelInv'
  BY <1>1 DEF Inv, EventsInv, DeliveredInv, ChannelInv
<1>4. PassInv'
  BY PassKeeps
<1>. QED
  BY <1>1, <1>2, <1>3, <1>4, Zenon DEF Inv, SettledHostMatches, Settled

\* An event joins the channel with the route the server announces.
LEMMA RouteEventInv ==
    ASSUME Inv, NEW p \in Prefixes, NEW r \in Routes, RouteEvent(p, r) PROVE Inv'
<1>1. /\ bgpEvents' \in Seq(Prefixes \X Routes) /\ bgpEvents' # <<>>
      /\ rib' \in [Prefixes -> Routes] /\ EventsInv'
  <2>1. /\ bgpEvents \in Seq(Prefixes \X Routes) /\ rib \in [Prefixes -> Routes]
        /\ InFlight(Prefixes, bgpEvents, learned, rib)
    BY DEF Inv, TypeOK, EventsInv
  <2>2. Announces(p, r, bgpEvents, rib, bgpEvents', rib') /\ learned' = learned
    BY DEF RouteEvent, Announces
  <2>3. bgpEvents' # <<>>
    BY <2>1, <2>2 DEF Announces
  <2>. QED
    BY <2>1, <2>2, <2>3, SendEventFacts, Zenon DEF EventsInv
<1>2. TypeOK'
  <2>1. events' \in 0..MaxEvents
    BY ConstantsAssumption DEF Inv, TypeOK, RouteEvent
  <2>2. UNCHANGED <<snapshots, latest, learned, pc, errs, vrfs, rules, addrs, tables, bridges,
                    cluster, owed, delivered, changes, faults, restarts>>
    BY DEF RouteEvent, hostVars
  <2>. QED
    BY <1>1, <2>1, <2>2 DEF Inv, TypeOK
<1>. USE DEF RouteEvent, hostVars
<1>3. DeliveredInv' /\ ChannelInv'
  BY DEF Inv, DeliveredInv, ChannelInv
<1>4. PassInv'
  BY PassKeeps
<1>. QED
  BY <1>1, <1>2, <1>3, <1>4 DEF Inv, SettledHostMatches, Settled

\* A new agent knows nothing and is owed a tick; the host is as it was.
LEMMA RestartInv == ASSUME Inv, Restart PROVE Inv'
<1>. USE DEF Restart, hostVars
<1>1. snapshots' \in Seq(Snapshot) /\ Len(snapshots') <= 1 /\ bgpEvents' \in Seq(Prefixes \X Routes)
  OBVIOUS
<1>2. learned' \in [Prefixes -> Routes] /\ rib' \in [Prefixes -> Routes]
  BY ConstantsAssumption
<1>3. restarts' \in 0..MaxRestarts /\ restarts' # 0
  BY ConstantsAssumption DEF Inv, TypeOK
<1>4. TypeOK'
  BY <1>1, <1>2, <1>3, NoOverlaysFacts, ZenonT(30) DEF Inv, TypeOK
<1>5. EventsInv' /\ DeliveredInv' /\ ChannelInv'
  BY <1>3 DEF EventsInv, InFlight, DeliveredInv, ChannelInv
<1>. QED
  BY <1>4, <1>5, Zenon DEF Inv, PassInv, SettledHostMatches, Settled

\* Every step keeps the invariant.
LEMMA NextInv == Inv /\ [Next]_vars => Inv'
<1>. SUFFICES ASSUME Inv, [Next]_vars PROVE Inv'
  OBVIOUS
<1>1. CASE UNCHANGED vars
  <2>. USE <1>1 DEF vars, agentVars, hostVars, worldVars, boundVars
  <2>1. TypeOK'
    BY DEF Inv, TypeOK
  <2>2. ChannelInv' /\ EventsInv' /\ DeliveredInv'
    BY DEF Inv, ChannelInv, EventsInv, DeliveredInv
  <2>3. PassInv'
    BY PassKeeps
  <2>4. SettledHostMatches'
    BY DEF Inv, SettledHostMatches, Settled, listedRules
  <2>. QED
    BY <2>1, <2>2, <2>3, <2>4 DEF Inv
<1>. QED
  BY <1>1, TakeSnapshotInv, TakeEventInv, VRFsInv, RulesInv, AddrsInv, RoutesInv, BridgesInv,
     ListFailsInv, ClusterChangeInv, TickInv, RouteEventInv, RestartInv
  DEF Next, Updater, Reconcile

\* The invariant holds throughout.
LEMMA InvHolds == Spec => []Inv
  BY InitInv, NextInv, PTL DEF Spec

\* All state of the updater and of the host is well typed; in particular an
\* address is only ever on the dummy of a VRF that exists.
THEOREM TypeCorrect == Spec => []TypeOK
  BY InvHolds, PTL DEF Inv

\* Once nothing is in flight and the last Reconcile returned no error, the host
\* has the VRFs, addresses, bridges, rules and routes of the cluster and of the
\* BGP server, by name, whatever failed before and wherever an agent stopped.
THEOREM SettledHostMatchesHolds == Spec => []SettledHostMatches
  BY InvHolds, PTL DEF Inv

-----------------------------------------------------------------------------
(* VRFs that are still wanted are kept.                                    *)

\* The VRFs and the addresses after the first step of a pass.
LEMMA VRFsFacts ==
    ASSUME Inv, reconcileVRFs
    PROVE  /\ Towards(vrfs, desiredVRFs(latest), vrfs')
           /\ \A o \in active(latest) : o \in DOMAIN vrfs => o \in DOMAIN vrfs'
           /\ errs => errs'
<1>1. PICK F : Fails(F) /\ vrfs' = sync(vrfs, desiredVRFs(latest), F)
  BY DEF reconcileVRFs
<1>2. /\ \A o : o \in DOMAIN vrfs' <=>
              \/ o \in DOMAIN vrfs /\ (o \in DOMAIN desiredVRFs(latest) \/ o \in F)
              \/ o \in DOMAIN desiredVRFs(latest) /\ o \notin F
      /\ Towards(vrfs, desiredVRFs(latest), vrfs')
  BY <1>1, SyncFacts
<1>3. \A o : o \in DOMAIN desiredVRFs(latest) <=> o \in active(latest)
  BY DesiredFacts DEF Inv, TypeOK
<1>4. errs => errs'
  BY <1>1, FailsFacts DEF Inv
<1>. QED
  BY <1>2, <1>3, <1>4

\* What LiveStateKeptUntilRestart says of a step.
KeepsLiveState ==
    restarts = 0 =>
        \A o \in active(delivered) \cap active(cluster) :
            o \in DOMAIN vrfs => o \in DOMAIN vrfs'

\* Only the first step of a pass removes VRFs, and it works with the snapshot
\* that was received last.
LEMMA NextKeepsLiveState == Inv /\ [Next]_vars => [KeepsLiveState]_vars
<1>. SUFFICES ASSUME Inv, Next PROVE KeepsLiveState
  OBVIOUS
<1>1. CASE reconcileVRFs
  BY <1>1, VRFsFacts DEF Inv, DeliveredInv, KeepsLiveState
<1>2. CASE ~reconcileVRFs
  <2>1. vrfs' = vrfs
    BY <1>2 DEF Next, Updater, Reconcile, TakeSnapshot, TakeEvent, reconcileRules, reconcileAddrs,
       reconcileRoutes, reconcileBridges, ListFails, ClusterChange, Tick, RouteEvent, Restart, hostVars
  <2>. QED
    BY <2>1 DEF KeepsLiveState
<1>. QED
  BY <1>1, <1>2

\* Until the agent restarts, no step removes the VRF, and with it all addresses,
\* of an overlay that both the cluster and the last snapshot received have.
THEOREM LiveStateKeptUntilRestartHolds == Spec => LiveStateKeptUntilRestart
  BY InvHolds, NextKeepsLiveState, PTL DEF Spec, LiveStateKeptUntilRestart, KeepsLiveState

-----------------------------------------------------------------------------
(* The reconciler implements Converge.                                     *)

wantedAddrs == {k \in Keys : k[1] \in active(latest) /\ k[2] \in desiredIPs(latest, k[1])}

hostAddrs == {k \in Keys : k[2] \in addrs[k[1]]}

want == hostState(desiredVRFs(latest), wantedAddrs, desiredBridges(latest))

have == hostState(vrfs, hostAddrs, bridges)

\* What the combined collection has.
LEMMA HostStateFacts ==
    ASSUME NEW v, NEW a, NEW b
    PROVE  /\ \A k : k \in DOMAIN hostState(v, a, b) <=>
                 \/ \E x \in DOMAIN v : k = <<"vrf", x>>
                 \/ \E x \in a : k = <<"addr", x>>
                 \/ \E x \in DOMAIN b : k = <<"bridge", x>>
           /\ \A x \in DOMAIN v : hostState(v, a, b)[<<"vrf", x>>] = v[x]
           /\ \A x \in a : hostState(v, a, b)[<<"addr", x>>] = 0
           /\ \A x \in DOMAIN b : hostState(v, a, b)[<<"bridge", x>>] = b[x]
  BY DEF hostState

\* If VRFs, addresses and bridges each move towards what is wanted of them, so
\* does the host.
LEMMA HostStateTowards ==
    ASSUME NEW v, NEW a, NEW b, NEW wv, NEW wa, NEW wb, NEW v1, NEW a1, NEW b1,
           Towards(v, wv, v1), Towards(b, wb, b1), a \cap wa \subseteq a1, a1 \subseteq a \cup wa
    PROVE  Towards(hostState(v, a, b), hostState(wv, wa, wb), hostState(v1, a1, b1))
<1>. DEFINE old == hostState(v, a, b)
            goal == hostState(wv, wa, wb)
            new == hostState(v1, a1, b1)
<1>1. ASSUME NEW k \in DOMAIN old, k \in DOMAIN goal PROVE k \in DOMAIN new
  BY <1>1, HostStateFacts DEF Towards
<1>2. ASSUME NEW k \in DOMAIN new
      PROVE  \/ k \in DOMAIN old /\ new[k] = old[k]
             \/ k \in DOMAIN goal /\ new[k] = goal[k]
  <2>1. CASE \E x \in DOMAIN v1 : k = <<"vrf", x>>
    BY <2>1, HostStateFacts, SMTT(20) DEF Towards
  <2>2. CASE \E x \in a1 : k = <<"addr", x>>
    BY <2>2, HostStateFacts
  <2>3. CASE \E x \in DOMAIN b1 : k = <<"bridge", x>>
    BY <2>3, HostStateFacts, SMTT(20) DEF Towards
  <2>. QED
    BY <1>2, <2>1, <2>2, <2>3, HostStateFacts, SMTT(20)
<1>. HIDE DEF old, goal, new
<1>3. Towards(old, goal, new)
  BY <1>1, <1>2 DEF Towards
<1>. QED
  BY <1>3 DEF old, goal, new

\* Parts with the same keys make hosts with the same keys.
LEMMA HostStateDomain ==
    ASSUME NEW v, NEW a, NEW b, NEW wv, NEW wb, DOMAIN v = DOMAIN wv, DOMAIN b = DOMAIN wb
    PROVE  DOMAIN hostState(v, a, b) = DOMAIN hostState(wv, a, wb)
  BY DEF hostState

\* A step that moves each part moves the host.
LEMMA PartsTowards ==
    ASSUME Towards(vrfs, desiredVRFs(latest), vrfs'),
           Towards(bridges, desiredBridges(latest), bridges'),
           \A k \in Keys : k \in hostAddrs /\ k \in wantedAddrs => k[2] \in addrs'[k[1]],
           \A k \in Keys : k[2] \in addrs'[k[1]] => k \in hostAddrs \/ k \in wantedAddrs
    PROVE  Towards(have, want, have')
<1>. DEFINE a1 == {k \in Keys : k[2] \in addrs'[k[1]]}
<1>1. hostAddrs \cap wantedAddrs \subseteq a1 /\ a1 \subseteq hostAddrs \cup wantedAddrs
  BY DEF hostAddrs
<1>2. have' = hostState(vrfs', a1, bridges')
  BY DEF have, hostAddrs
<1>. HIDE DEF a1
<1>3. Towards(hostState(vrfs, hostAddrs, bridges),
              hostState(desiredVRFs(latest), wantedAddrs, desiredBridges(latest)),
              hostState(vrfs', a1, bridges'))
  BY <1>1, HostStateTowards
<1>. QED
  BY <1>2, <1>3 DEF have, want

\* A step that leaves the addresses alone moves them nowhere.
LEMMA AddrsStay ==
    ASSUME addrs' = addrs
    PROVE  /\ \A k \in Keys : k \in hostAddrs /\ k \in wantedAddrs => k[2] \in addrs'[k[1]]
           /\ \A k \in Keys : k[2] \in addrs'[k[1]] => k \in hostAddrs \/ k \in wantedAddrs
  BY DEF hostAddrs

\* The first step takes the addresses of a VRF with it only if they are not
\* wanted: those of an overlay without a community.
LEMMA VRFsTowards == ASSUME Inv, reconcileVRFs PROVE Towards(have, want, have')
<1>1. ASSUME NEW k \in Keys, k \in hostAddrs, k \in wantedAddrs PROVE k[2] \in addrs'[k[1]]
  <2>1. k[1] \in Overlays /\ k[2] \in addrs[k[1]] /\ k[1] \in active(latest)
    BY <1>1 DEF Keys, hostAddrs, wantedAddrs
  <2>2. k[1] \in DOMAIN vrfs
    BY <2>1 DEF Inv, TypeOK
  <2>3. k[1] \in DOMAIN vrfs'
    BY <2>1, <2>2, VRFsFacts
  <2>. QED
    BY <2>1, <2>3 DEF reconcileVRFs
<1>2. ASSUME NEW k \in Keys, k[2] \in addrs'[k[1]] PROVE k \in hostAddrs
  <2>1. k[1] \in Overlays
    BY DEF Keys
  <2>. QED
    BY <1>2, <2>1 DEF reconcileVRFs, hostAddrs
<1>3. Towards(vrfs, desiredVRFs(latest), vrfs') /\ Towards(bridges, desiredBridges(latest), bridges')
  BY VRFsFacts, StayTowards, ZenonT(30) DEF reconcileVRFs
<1>. QED
  BY <1>1, <1>2, <1>3, PartsTowards

\* The third step moves the addresses towards those of the edges.
LEMMA AddrsTowards == ASSUME Inv, reconcileAddrs PROVE Towards(have, want, have')
<1>1. ASSUME NEW k \in Keys
      PROVE  /\ k \in hostAddrs /\ k \in wantedAddrs => k[2] \in addrs'[k[1]]
             /\ k[2] \in addrs'[k[1]] => k \in hostAddrs \/ k \in wantedAddrs
  <2>1. k[1] \in Overlays
    BY DEF Keys
  <2>2. CASE k[1] \in active(latest) \cap DOMAIN vrfs
    BY <2>1, <2>2, AddrsFacts DEF hostAddrs, wantedAddrs
  <2>3. CASE k[1] \notin active(latest) \cap DOMAIN vrfs
    BY <2>1, <2>3, AddrsFacts DEF hostAddrs
  <2>. QED
    BY <2>2, <2>3
<1>2. Towards(vrfs, desiredVRFs(latest), vrfs') /\ Towards(bridges, desiredBridges(latest), bridges')
  BY StayTowards DEF reconcileAddrs
<1>. QED
  BY <1>1, <1>2, PartsTowards

\* The last step moves the bridges, and if no call of the pass has failed the
\* host has exactly what is wanted.
LEMMA BridgesTowards ==
    ASSUME Inv, reconcileBridges
    PROVE  Towards(have, want, have') /\ (~errs' => DOMAIN have' = DOMAIN want)
<1>1. vrfs' = vrfs /\ addrs' = addrs
  BY DEF reconcileBridges
<1>2. Towards(have, want, have')
  BY <1>1, BridgesFacts, AddrsStay, StayTowards, PartsTowards
<1>3. ASSUME ~errs' PROVE DOMAIN have' = DOMAIN want
  <2>1. ~errs /\ DOMAIN bridges' = DOMAIN desiredBridges(latest)
    BY <1>3, BridgesFacts
  <2>2. DOMAIN vrfs = active(latest) /\ AddrsMatch(latest)
    BY <2>1 DEF Inv, PassInv, reconcileBridges
  <2>3. DOMAIN vrfs' = DOMAIN desiredVRFs(latest)
    BY <1>1, <2>2 DEF desiredVRFs
  <2>4. ASSUME NEW k \in Keys PROVE k \in hostAddrs <=> k \in wantedAddrs
    <3>1. k[1] \in Overlays
      BY DEF Keys
    <3>. QED
      BY <2>2, <3>1 DEF hostAddrs, wantedAddrs, AddrsMatch, Inv, TypeOK
  <2>5. hostAddrs = wantedAddrs /\ hostAddrs' = hostAddrs
    BY <1>1, <2>4 DEF hostAddrs, wantedAddrs
  <2>6. have' = hostState(vrfs', wantedAddrs, bridges')
    BY <2>5 DEF have
  <2>7. DOMAIN hostState(vrfs', wantedAddrs, bridges') =
        DOMAIN hostState(desiredVRFs(latest), wantedAddrs, desiredBridges(latest))
    BY <2>1, <2>3, HostStateDomain
  <2>. QED
    BY <2>6, <2>7 DEF want
<1>. QED
  BY <1>2, <1>3

\* The operators of Converge, instantiated.
LEMMA ConvergeMeans ==
    /\ Host!Begin <=> pc = "idle" /\ pc' # "idle" /\ have' = have
    /\ Host!Step <=> /\ pc # "idle" /\ pc' # "idle" /\ want' = want /\ (errs => errs')
                     /\ Towards(have, want, have')
    /\ Host!End <=> /\ pc # "idle" /\ pc' = "idle" /\ want' = want /\ (errs => errs')
                    /\ Towards(have, want, have')
                    /\ ~errs' => DOMAIN have' = DOMAIN want
    /\ Host!Crash <=> pc' = "idle" /\ have' = have /\ DOMAIN want' = {}
    /\ UNCHANGED <<want, have, pc, errs>> => UNCHANGED Host!vars
  BY Zenon DEF Host!Begin, Host!Step, Host!End, Host!Crash, Host!Moves, Host!vars, Towards,
         have, want, hostAddrs, wantedAddrs

\* A host without VRFs, addresses and bridges is an initial state of Converge.
LEMMA InitConverges == Init => Host!Init
<1>. SUFFICES ASSUME Init PROVE Host!Init
  OBVIOUS
<1>1. DOMAIN vrfs = {} /\ DOMAIN bridges = {} /\ pc = "idle"
  BY DEF Init, Nothing
<1>2. hostAddrs = {}
  BY DEF Init, hostAddrs, Keys
<1>3. DOMAIN have = {}
  BY <1>1, <1>2, HostStateFacts, ZenonT(30) DEF have
<1>. QED
  BY <1>1, <1>3 DEF Host!Init, have, hostAddrs

\* Every step is one of Converge or leaves its state alone.
LEMMA NextConverges ==
    Inv /\ [Next]_vars => [Host!Begin \/ Host!Step \/ Host!End \/ Host!Crash]_Host!vars
<1>. SUFFICES ASSUME Inv, [Next]_vars
              PROVE  Host!Begin \/ Host!Step \/ Host!End \/ Host!Crash \/ UNCHANGED Host!vars
  OBVIOUS
<1>1. UNCHANGED <<vrfs, addrs, bridges>> => have' = have
  BY DEF have, hostAddrs
<1>2. latest' = latest => want' = want
  BY DEF want, wantedAddrs
<1>3. Towards(have, want, have)
  BY StayTowards
<1>4. CASE TakeSnapshot \/ TakeEvent
  BY <1>1, <1>4, ConvergeMeans, ZenonT(30) DEF TakeSnapshot, TakeEvent, hostVars
<1>5. CASE reconcileVRFs
  BY <1>2, <1>5, VRFsTowards, VRFsFacts, ConvergeMeans, ZenonT(30) DEF reconcileVRFs, StepUnchanged
<1>6. CASE reconcileRules \/ reconcileRoutes
  <2>1. errs => errs'
    BY <1>6, FailsFacts DEF Inv, reconcileRules, reconcileRoutes
  <2>. QED
    BY <1>1, <1>2, <1>3, <1>6, <2>1, ConvergeMeans DEF reconcileRules, reconcileRoutes, StepUnchanged
<1>7. CASE reconcileAddrs
  BY <1>2, <1>7, AddrsTowards, AddrsFacts, ConvergeMeans, ZenonT(30) DEF reconcileAddrs, StepUnchanged
<1>8. CASE reconcileBridges
  BY <1>2, <1>8, BridgesTowards, BridgesFacts, ConvergeMeans, ZenonT(30) DEF reconcileBridges, StepUnchanged
<1>9. CASE ListFails
  BY <1>1, <1>2, <1>3, <1>9, ConvergeMeans, ZenonT(30) DEF ListFails, StepUnchanged, hostVars
<1>10. CASE \/ ClusterChange \/ Tick \/ UNCHANGED vars
            \/ \E p \in Prefixes, r \in Routes : RouteEvent(p, r)
  <2>1. UNCHANGED <<latest, vrfs, addrs, bridges, pc, errs>>
    BY <1>10 DEF ClusterChange, Tick, RouteEvent, vars, agentVars, hostVars
  <2>. QED
    BY <1>1, <1>2, <2>1, ConvergeMeans
<1>11. CASE Restart
  <2>1. UNCHANGED <<vrfs, addrs, bridges>> /\ pc' = "idle" /\ latest' = NoOverlays
    BY <1>11 DEF Restart, hostVars
  <2>2. wantedAddrs' = {}
    BY <2>1, NoOverlaysFacts DEF wantedAddrs
  <2>3. DOMAIN desiredVRFs(latest)' = {} /\ DOMAIN desiredBridges(latest)' = {}
    BY <2>1, NoOverlaysFacts
  <2>4. want' = hostState(desiredVRFs(latest'), {}, desiredBridges(latest'))
    BY <2>2 DEF want
  <2>5. DOMAIN want' = {}
    BY <2>3, <2>4, HostStateFacts, Zenon
  <2>. QED
    BY <1>1, <2>1, <2>5, ConvergeMeans
<1>. QED
  BY <1>4, <1>5, <1>6, <1>7, <1>8, <1>9, <1>10, <1>11 DEF Next, Updater, Reconcile

\* The reconciler implements Converge across restarts: no step of a pass removes
\* a VRF, address or bridge that its snapshot wants, not even as a side effect of
\* removing a VRF, and a pass without failing calls has converged them all.
THEOREM HostConvergesHolds == Spec => HostConverges
  BY InitConverges, NextConverges, InvHolds, PTL DEF Spec, HostConverges, Host!Spec
=============================================================================
