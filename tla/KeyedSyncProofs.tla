--------------------------- MODULE KeyedSyncProofs ---------------------------
(***************************************************************************)
(* What the loops of KeyedSync do to a keyed collection, for any keys and  *)
(* values, what it means to list a finite set in some order, and what the  *)
(* channels of snapshots and of route events hold.  The proofs about the   *)
(* reconcilers rest on these lemmas.                                       *)
(***************************************************************************)
EXTENDS Integers, Sequences, KeyedSync, FiniteSetTheorems, FunctionTheorems,
        SequenceTheorems, WellFoundedInduction, TLAPS

\* One loop of a pass moves a collection from `old' to `new' and never away
\* from what is wanted: the meaning of Moves in Converge.
Towards(old, want, new) ==
    /\ DOMAIN old \cap DOMAIN want \subseteq DOMAIN new
    /\ \A k \in DOMAIN new :
          \/ k \in DOMAIN old /\ new[k] = old[k]
          \/ k \in DOMAIN want /\ new[k] = want[k]

\* A loop that has nothing to do with a collection moves it nowhere.
LEMMA StayTowards == \A old, want : Towards(old, want, old)
  BY DEF Towards

\* The removing loop keeps every wanted key, changes no value, and leaves only
\* wanted keys and those whose Remove call failed.
LEMMA PrunedFacts ==
    ASSUME NEW old, NEW want, NEW F
    PROVE  /\ \A k : k \in DOMAIN pruned(old, want, F) <=>
                       k \in DOMAIN old /\ (k \in DOMAIN want \/ k \in F)
           /\ \A k \in DOMAIN pruned(old, want, F) : pruned(old, want, F)[k] = old[k]
           /\ Towards(old, want, pruned(old, want, F))
  BY DEF pruned, kept, Towards

\* The adding loop keeps what there is, and adds the missing wanted keys, with
\* their wanted value, except those whose Add call failed.
LEMMA FilledFacts ==
    ASSUME NEW old, NEW want, NEW F
    PROVE  /\ \A k : k \in DOMAIN filled(old, want, F) <=>
                       k \in DOMAIN old \/ (k \in DOMAIN want /\ k \notin F)
           /\ \A k \in DOMAIN old : filled(old, want, F)[k] = old[k]
           /\ \A k \in DOMAIN filled(old, want, F) :
                 k \notin DOMAIN old => filled(old, want, F)[k] = want[k]
           /\ Towards(old, want, filled(old, want, F))
  BY DEF filled, added, Towards

\* Both loops over one listing.
LEMMA SyncFacts ==
    ASSUME NEW old, NEW want, NEW F
    PROVE  /\ \A k : k \in DOMAIN sync(old, want, F) <=>
                       \/ k \in DOMAIN old /\ (k \in DOMAIN want \/ k \in F)
                       \/ k \in DOMAIN want /\ k \notin F
           /\ \A k \in DOMAIN sync(old, want, F) :
                 sync(old, want, F)[k] = IF k \in DOMAIN old THEN old[k] ELSE want[k]
           /\ Towards(old, want, sync(old, want, F))
  BY DEF sync, kept, added, Towards

-----------------------------------------------------------------------------
(* Two collections as one.                                                 *)

\* What the combined collection has.
LEMMA BothFacts ==
    ASSUME NEW f, NEW g
    PROVE  /\ \A k : k \in DOMAIN both(f, g) <=>
                 \/ \E x \in DOMAIN f : k = <<"first", x>>
                 \/ \E x \in DOMAIN g : k = <<"second", x>>
           /\ \A x \in DOMAIN f : both(f, g)[<<"first", x>>] = f[x]
           /\ \A x \in DOMAIN g : both(f, g)[<<"second", x>>] = g[x]
  BY DEF both

\* If each collection moves towards what is wanted of it, so does the whole.
LEMMA BothTowards ==
    ASSUME NEW f, NEW g, NEW wf, NEW wg, NEW f1, NEW g1,
           Towards(f, wf, f1), Towards(g, wg, g1)
    PROVE  Towards(both(f, g), both(wf, wg), both(f1, g1))
<1>. DEFINE old == both(f, g)
            goal == both(wf, wg)
            new == both(f1, g1)
<1>1. ASSUME NEW k \in DOMAIN old, k \in DOMAIN goal PROVE k \in DOMAIN new
  BY <1>1, BothFacts DEF Towards
<1>2. ASSUME NEW k \in DOMAIN new
      PROVE  \/ k \in DOMAIN old /\ new[k] = old[k]
             \/ k \in DOMAIN goal /\ new[k] = goal[k]
  <2>1. CASE \E x \in DOMAIN f1 : k = <<"first", x>>
    BY <2>1, BothFacts DEF Towards
  <2>2. CASE \E x \in DOMAIN g1 : k = <<"second", x>>
    BY <2>2, BothFacts DEF Towards
  <2>. QED
    BY <1>2, <2>1, <2>2, BothFacts
<1>. HIDE DEF old, goal, new
<1>3. Towards(old, goal, new)
  BY <1>1, <1>2 DEF Towards
<1>. QED
  BY <1>3 DEF old, goal, new

\* Collections with the same keys make wholes with the same keys.
LEMMA BothDomain ==
    ASSUME NEW f, NEW g, NEW wf, NEW wg, DOMAIN f = DOMAIN wf, DOMAIN g = DOMAIN wg
    PROVE  DOMAIN both(f, g) = DOMAIN both(wf, wg)
  BY DEF both

-----------------------------------------------------------------------------
(* Listings: snapshots list the overlays in the order of a cache.          *)

\* A list without duplicates that is as long as its finite set is large has
\* every element of the set.
LEMMA ListingIsOnto ==
    ASSUME NEW S, IsFiniteSet(S), NEW q \in [1..Cardinality(S) -> S],
           \A i, j \in DOMAIN q : i # j => q[i] # q[j],
           NEW x \in S
    PROVE  \E i \in DOMAIN q : q[i] = x
<1>. DEFINE n == Cardinality(S)
<1>1. n \in Nat
  BY FS_CardinalityType
<1>2. q \in Injection(1..n, S)
  BY Fun_IsInj, Zenon
<1>3. Cardinality(1..n) = n
  BY <1>1, FS_Interval
<1>4. q \in Surjection(1..n, S)
  BY <1>2, <1>3, FS_Injection
<1>. QED
  BY <1>4 DEF Surjection

\* "The first overlay in the list" exists.
LEMMA FirstIndex ==
    ASSUME NEW I \in SUBSET Nat, I # {}
    PROVE  /\ (CHOOSE i \in I : \A j \in I : i <= j) \in I
           /\ \A j \in I : (CHOOSE i \in I : \A k \in I : i <= k) <= j
<1>1. \E x \in I : \A y \in I : ~(<<y, x>> \in OpToRel(<, Nat))
  BY NatLessThanWellFounded, WFMin, Zenon
<1>2. \E x \in I : \A y \in I : x <= y
  <2>1. PICK x \in I : \A y \in I : ~(<<y, x>> \in OpToRel(<, Nat))
    BY <1>1, Zenon
  <2>2. \A y \in I : ~(y < x)
    BY <2>1, Zenon DEF OpToRel
  <2>. QED
    BY <2>2
<1>. QED
  BY <1>2, Zenon

\* "The last overlay in the list" exists: the list is finite.
LEMMA LastIndex ==
    ASSUME NEW n \in Nat, NEW I \in SUBSET (1..n), I # {}
    PROVE  (CHOOSE i \in I : \A j \in I : i >= j) \in I
<1>. DEFINE R == {n - i : i \in I}
<1>1. R \in SUBSET Nat /\ R # {}
  <2>1. \A i \in I : n - i \in Nat
    OBVIOUS
  <2>. QED
    BY <2>1, Zenon
<1>2. PICK m \in R : \A r \in R : m <= r
  BY <1>1, FirstIndex, Zenon
<1>3. PICK x \in I : m = n - x
  OBVIOUS
<1>4. \A j \in I : x >= j
  <2>. SUFFICES ASSUME NEW j \in I PROVE x >= j
    OBVIOUS
  <2>1. n - j \in R
    OBVIOUS
  <2>. QED
    BY <1>2, <1>3, <2>1
<1>. QED
  BY <1>4

-----------------------------------------------------------------------------
(* Channels of capacity one.                                               *)

\* Receiving from a full channel empties it.
LEMMA ReceiveFacts ==
    ASSUME NEW S, NEW q \in Seq(S), Len(q) <= 1, q # <<>>
    PROVE  Head(q) = q[1] /\ Head(q) \in S /\ Tail(q) = <<>>
<1>1. Len(q) = 1 /\ Head(q) = q[1] /\ Head(q) \in S
  BY EmptySeq
<1>2. Tail(q) \in Seq(S) /\ Len(Tail(q)) = 0
  BY <1>1
<1>. QED
  BY <1>1, <1>2, EmptySeq, Zenon

\* Sending on an empty channel fills it.
LEMMA SendFacts ==
    ASSUME NEW S, NEW x \in S
    PROVE  <<x>> \in Seq(S) /\ Len(<<x>>) <= 1 /\ <<x>> # <<>> /\ <<x>>[1] = x
  OBVIOUS

-----------------------------------------------------------------------------
(* The channel of route events.                                            *)

\* Events are neither lost nor reordered: of each prefix in P, what is known is
\* what was announced last, or the last of its events in the channel q is.
InFlight(P, q, known, last) ==
    \A p \in P :
        /\ (\A i \in DOMAIN q : q[i][1] # p) => known[p] = last[p]
        /\ \A i \in DOMAIN q :
              q[i][1] = p /\ (\A j \in DOMAIN q : j > i => q[j][1] # p) => q[i][2] = last[p]

\* Once the channel is empty, what is known is what was announced.
LEMMA DrainedFacts ==
    ASSUME NEW P, NEW R, NEW known \in [P -> R], NEW last \in [P -> R],
           InFlight(P, <<>>, known, last)
    PROVE  known = last
<1>1. \A p \in P : known[p] = last[p]
  BY DEF InFlight
<1>. QED
  BY <1>1

\* An event that is received is remembered, and the next ones are still there.
LEMMA ReceiveEventFacts ==
    ASSUME NEW P, NEW R, NEW q \in Seq(P \X R), q # <<>>, NEW known \in [P -> R], NEW last,
           InFlight(P, q, known, last)
    PROVE  /\ Tail(q) \in Seq(P \X R) /\ Head(q) \in P \X R
           /\ [known EXCEPT ![Head(q)[1]] = Head(q)[2]] \in [P -> R]
           /\ InFlight(P, Tail(q), [known EXCEPT ![Head(q)[1]] = Head(q)[2]], last)
<1>. DEFINE ev == Head(q)
            rest == Tail(q)
            known1 == [known EXCEPT ![ev[1]] = ev[2]]
<1>1. /\ Len(q) \in Nat /\ Len(q) > 0 /\ DOMAIN q = 1..Len(q)
      /\ ev = q[1] /\ ev \in P \X R
      /\ rest \in Seq(P \X R)
      /\ DOMAIN rest = 1..(Len(q) - 1)
      /\ \A i \in DOMAIN rest : rest[i] = q[i + 1]
  BY EmptySeq
<1>2. ev[1] \in P /\ ev[2] \in R
  BY <1>1
<1>. HIDE DEF ev, rest
<1>3. known1 \in [P -> R] /\ known1[ev[1]] = ev[2] /\ \A p \in P \ {ev[1]} : known1[p] = known[p]
  BY <1>2
<1>. HIDE DEF known1
<1>4. ASSUME NEW p \in P, \A i \in DOMAIN rest : rest[i][1] # p
      PROVE  known1[p] = last[p]
  <2>1. \A i \in DOMAIN q : i > 1 => q[i][1] # p
    <3>. SUFFICES ASSUME NEW i \in DOMAIN q, i > 1 PROVE q[i][1] # p
      OBVIOUS
    <3>1. i - 1 \in DOMAIN rest /\ (i - 1) + 1 = i
      BY <1>1
    <3>2. rest[i - 1] = q[i]
      BY <1>1, <3>1
    <3>. QED
      BY <1>4, <3>1, <3>2
  <2>2. 1 \in DOMAIN q
    BY <1>1
  <2>3. CASE ev[1] = p
    BY <1>1, <1>3, <2>1, <2>2, <2>3 DEF InFlight
  <2>4. CASE ev[1] # p
    <3>1. \A i \in DOMAIN q : q[i][1] # p
      BY <1>1, <2>1, <2>4
    <3>. QED
      BY <1>3, <2>4, <3>1 DEF InFlight
  <2>. QED
    BY <2>3, <2>4
<1>5. ASSUME NEW p \in P, NEW i \in DOMAIN rest, rest[i][1] = p,
             \A j \in DOMAIN rest : j > i => rest[j][1] # p
      PROVE  rest[i][2] = last[p]
  <2>1. i + 1 \in DOMAIN q /\ rest[i] = q[i + 1]
    BY <1>1
  <2>2. \A j \in DOMAIN q : j > i + 1 => q[j][1] # p
    <3>. SUFFICES ASSUME NEW j \in DOMAIN q, j > i + 1 PROVE q[j][1] # p
      OBVIOUS
    <3>1. j - 1 \in DOMAIN rest /\ j - 1 > i /\ (j - 1) + 1 = j
      BY <1>1
    <3>2. rest[j - 1] = q[j]
      BY <1>1, <3>1
    <3>. QED
      BY <1>5, <3>1, <3>2
  <2>. QED
    BY <1>5, <2>1, <2>2 DEF InFlight
<1>6. InFlight(P, rest, known1, last)
  BY <1>4, <1>5 DEF InFlight
<1>. QED
  BY <1>1, <1>3, <1>6 DEF rest, ev, known1

\* The server announces the route r of p, and reports it.
Announces(p, r, q, last, q1, last1) ==
    q1 = Append(q, <<p, r>>) /\ last1 = [last EXCEPT ![p] = r]

\* An event joins the channel with the route that is announced.
LEMMA SendEventFacts ==
    ASSUME NEW P, NEW R, NEW q \in Seq(P \X R), NEW known, NEW last \in [P -> R],
           NEW p \in P, NEW r \in R, InFlight(P, q, known, last),
           NEW q1, NEW last1, Announces(p, r, q, last, q1, last1)
    PROVE  q1 \in Seq(P \X R) /\ last1 \in [P -> R] /\ InFlight(P, q1, known, last1)
<1>. DEFINE n == Len(q)
<1>1. /\ n \in Nat /\ DOMAIN q = 1..n
      /\ q1 \in Seq(P \X R) /\ DOMAIN q1 = 1..(n + 1) /\ Len(q1) = n + 1
      /\ \A i \in 1..n : q1[i] = q[i]
      /\ q1[n + 1] = <<p, r>>
  BY DEF Announces
<1>2. last1 \in [P -> R] /\ last1[p] = r /\ \A x \in P \ {p} : last1[x] = last[x]
  BY DEF Announces
<1>. HIDE DEF n
<1>3. n + 1 \in DOMAIN q1 /\ q1[n + 1][1] = p /\ q1[n + 1][2] = r
  BY <1>1
<1>4. ASSUME NEW x \in P, \A i \in DOMAIN q1 : q1[i][1] # x PROVE known[x] = last1[x]
  <2>1. \A i \in DOMAIN q : q[i][1] # x
    BY <1>1, <1>4
  <2>. QED
    BY <1>2, <1>3, <1>4, <2>1 DEF InFlight
<1>5. ASSUME NEW x \in P, NEW i \in DOMAIN q1, q1[i][1] = x,
             \A j \in DOMAIN q1 : j > i => q1[j][1] # x
      PROVE  q1[i][2] = last1[x]
  <2>1. CASE i = n + 1
    BY <1>2, <1>3, <1>5, <2>1
  <2>2. CASE i # n + 1
    <3>1. i \in DOMAIN q /\ q1[i] = q[i] /\ n + 1 > i
      BY <1>1, <2>2
    <3>2. x # p
      BY <1>3, <1>5, <3>1
    <3>3. \A j \in DOMAIN q : j > i => q[j][1] # x
      BY <1>1, <1>5
    <3>. QED
      BY <1>2, <1>5, <3>1, <3>2, <3>3 DEF InFlight
  <2>. QED
    BY <2>1, <2>2
<1>6. InFlight(P, q1, known, last1)
  BY <1>4, <1>5 DEF InFlight
<1>. QED
  BY <1>1, <1>2, <1>6
=============================================================================
