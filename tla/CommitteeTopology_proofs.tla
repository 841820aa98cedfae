---------------------- MODULE CommitteeTopology_proofs -----------------------
(***************************************************************************)
(* The pairing of instances into peers is exact for every number of        *)
(* committees and of intersections.                                        *)
(***************************************************************************)
EXTENDS CommitteeTopology, FiniteSetTheorems, FunctionTheorems, TLAPS

\* The sizes the code computes are positive integers.
LEMMA Sizes ==
    /\ SectionSize \in Nat \ {0} /\ CommitteeSize \in Nat
    /\ NumberOfCommittees = SectionSize + 1
BY TopologyAssumption DEF SectionSize, CommitteeSize

\* A multiple of a later section is at least one whole section further on.
LEMMA SectionsApart ==
    ASSUME NEW k \in Nat, NEW l \in Nat, k < l, NEW n \in Nat
    PROVE  n * k + n <= n * l
<1>1. PICK d \in Nat : l = k + 1 + d
  <2>1. l - k - 1 \in Nat /\ l = k + 1 + (l - k - 1)
    OBVIOUS
  <2> QED BY <2>1
<1>2. n * l = n * k + n + n * d
  BY <1>1
<1>3. n * d \in Nat /\ n * k \in Nat
  BY <1>1
<1> QED BY <1>2, <1>3

\* A place in a committee names one section and one index in it.
LEMMA PlaceIsUnique ==
    ASSUME NEW k \in Nat, NEW l \in Nat, NEW n \in Nat,
           NEW x \in 0..(n - 1), NEW y \in 0..(n - 1), n * k + x = n * l + y
    PROVE  k = l /\ x = y
<1>1. n * k \in Nat /\ n * l \in Nat
  OBVIOUS
<1>2. ~(k < l)
  BY <1>1, SectionsApart
<1>3. ~(l < k)
  BY <1>1, SectionsApart
<1>4. k = l
  BY <1>2, <1>3
<1> QED BY <1>1, <1>4

\* A place below n * m lies in one of m sections of n.
LEMMA PlaceHasSection ==
    ASSUME NEW n \in Nat \ {0}, NEW m \in Nat, NEW s \in 0..(n * m - 1)
    PROVE  \E k \in 0..(m - 1), x \in 0..(n - 1) : s = n * k + x
<1>1. n * m \in Int
  OBVIOUS
<1>2. s \in Nat /\ s < n * m
  BY <1>1
<1> DEFINE k == s \div n
           x == s % n
<1>3. k \in Nat /\ x \in 0..(n - 1) /\ s = n * k + x
  BY <1>2
<1>4. k < m
  <2>1. SUFFICES ASSUME m <= k PROVE FALSE
    BY <1>3
  <2>2. CASE m = k
    BY <2>2, <1>2, <1>3
  <2>3. CASE m < k
    <3>1. n * m + n <= n * k
      BY <2>3, <1>3, SectionsApart
    <3>2. n * k \in Nat
      BY <1>3
    <3> HIDE DEF k, x
    <3> QED BY <3>1, <3>2, <1>1, <1>2, <1>3
  <2> QED BY <2>1, <2>2, <2>3, <1>3
<1>5. k \in 0..(m - 1)
  BY <1>3, <1>4
<1> HIDE DEF k, x
<1> QED BY <1>3, <1>5

\* A loop iteration's section, row and column are in the loops' ranges.
LEMMA PeerFields ==
    ASSUME NEW p \in PairedPeers
    PROVE  /\ p.section \in Nat
           /\ p.row \in 0..(SectionSize - 1) /\ p.column \in 0..(SectionSize - 1)
           /\ p.row <= p.column
           /\ p = [section |-> p.section, row |-> p.row, column |-> p.column]
<1>1. p \in [section : 0..(Intersections - 1), row : CommitteeIds, column : 0..(SectionSize - 1)]
  BY DEF PairedPeers
<1>2. p.row <= p.column
  BY DEF PairedPeers
<1>3. p.section \in 0..(Intersections - 1) /\ p.row \in CommitteeIds /\ p.column \in 0..(SectionSize - 1)
  BY <1>1
<1> QED BY <1>1, <1>2, <1>3, Sizes, TopologyAssumption DEF CommitteeIds

\* make_single_intersection gives an instance to one peer, as one of its halves.
THEOREM InstancesAreUsedOnce == NoInstanceTwice
<1> SUFFICES ASSUME NEW c \in CommitteeIds, NEW s \in Slots,
                    NEW p \in PairedPeers, NEW q \in PairedPeers
             PROVE  /\ UsesA(p, c, s) /\ UsesA(q, c, s) => p = q
                    /\ UsesB(p, c, s) /\ UsesB(q, c, s) => p = q
                    /\ ~(UsesA(p, c, s) /\ UsesB(q, c, s))
  BY DEF NoInstanceTwice
<1> USE Sizes, PeerFields
<1>1. UsesA(p, c, s) /\ UsesA(q, c, s) => p = q
  <2> SUFFICES ASSUME UsesA(p, c, s), UsesA(q, c, s) PROVE p = q
    OBVIOUS
  <2>1. p.row = q.row /\ SectionSize * p.section + p.column = SectionSize * q.section + q.column
    BY DEF UsesA, CommitteeIdA, SlotA, SlotOf
  <2>2. p.section = q.section /\ p.column = q.column
    BY <2>1, PlaceIsUnique
  <2> QED BY <2>1, <2>2
<1>2. UsesB(p, c, s) /\ UsesB(q, c, s) => p = q
  <2> SUFFICES ASSUME UsesB(p, c, s), UsesB(q, c, s) PROVE p = q
    OBVIOUS
  <2>1. p.column = q.column /\ SectionSize * p.section + p.row = SectionSize * q.section + q.row
    BY DEF UsesB, CommitteeIdB, SlotB, SlotOf
  <2>2. p.section = q.section /\ p.row = q.row
    BY <2>1, PlaceIsUnique
  <2> QED BY <2>1, <2>2
<1>3. ~(UsesA(p, c, s) /\ UsesB(q, c, s))
  <2> SUFFICES ASSUME UsesA(p, c, s), UsesB(q, c, s) PROVE FALSE
    OBVIOUS
  <2>1. p.row = q.column + 1 /\ SectionSize * p.section + p.column = SectionSize * q.section + q.row
    BY DEF UsesA, UsesB, CommitteeIdA, CommitteeIdB, SlotA, SlotB, SlotOf
  <2>2. p.column = q.row
    BY <2>1, PlaceIsUnique
  <2> QED BY <2>1, <2>2
<1> QED BY <1>1, <1>2, <1>3

\* Every instance make_sawtooth_committee started ends up in a peer: as its
\* first half when its place in the section is at or after its committee's id,
\* as its second half otherwise.
THEOREM InstancesAreAllUsed == NoInstanceIdle
<1> SUFFICES ASSUME NEW c \in CommitteeIds, NEW s \in Slots
             PROVE  \E peer \in PairedPeers : UsesA(peer, c, s) \/ UsesB(peer, c, s)
  BY DEF NoInstanceIdle
<1>1. PICK k \in 0..(Intersections - 1), x \in 0..(SectionSize - 1) : s = SectionSize * k + x
  BY PlaceHasSection, Sizes, TopologyAssumption DEF Slots, CommitteeSize
<1>2. CASE c <= x
  <2> DEFINE peer == [section |-> k, row |-> c, column |-> x]
  <2>1. peer \in PairedPeers
    BY <1>2 DEF PairedPeers
  <2>2. UsesA(peer, c, s)
    BY <1>1 DEF UsesA, CommitteeIdA, SlotA, SlotOf
  <2> QED BY <2>1, <2>2
<1>3. CASE ~(c <= x)
  <2> DEFINE peer == [section |-> k, row |-> x, column |-> c - 1]
  <2>1. c - 1 \in 0..(SectionSize - 1) /\ x <= c - 1 /\ x \in CommitteeIds
    BY <1>3, Sizes, TopologyAssumption DEF CommitteeIds
  <2>2. peer \in PairedPeers
    BY <2>1 DEF PairedPeers
  <2>3. UsesB(peer, c, s)
    BY <1>1, Sizes DEF UsesB, CommitteeIdB, SlotB, SlotOf, CommitteeIds
  <2> QED BY <2>2, <2>3
<1> QED BY <1>2, <1>3

\* The peers two committees share are one per section.
LEMMA SharedIsOnePerSection ==
    ASSUME NEW c \in CommitteeIds, NEW d \in CommitteeIds, c < d
    PROVE  Shared(c, d) = {[section |-> k, row |-> c, column |-> d - 1] : k \in 0..(Intersections - 1)}
<1> DEFINE One(k) == [section |-> k, row |-> c, column |-> d - 1]
<1>1. c \in Int /\ d \in Int /\ d - 1 \in 0..(SectionSize - 1) /\ c <= d - 1
  BY Sizes, TopologyAssumption DEF CommitteeIds
<1>2. ASSUME NEW k \in 0..(Intersections - 1) PROVE One(k) \in Shared(c, d)
  <2>1. One(k) \in PairedPeers
    BY <1>1 DEF PairedPeers
  <2>2. CommitteeIdA(One(k)) = c /\ CommitteeIdB(One(k)) = d
    BY <1>1 DEF CommitteeIdA, CommitteeIdB
  <2> QED BY <2>1, <2>2 DEF Shared
<1>3. ASSUME NEW p \in Shared(c, d)
      PROVE  \E k \in 0..(Intersections - 1) : p = One(k)
  <2>1. p \in PairedPeers /\ {p.row, p.column + 1} = {c, d}
    BY DEF Shared, CommitteeIdA, CommitteeIdB
  <2>2. p.row = c /\ p.column = d - 1
    BY <2>1, <1>1, PeerFields, Sizes
  <2>3. p.section \in 0..(Intersections - 1)
    BY <2>1 DEF PairedPeers
  <2> QED BY <2>1, <2>2, <2>3, PeerFields
<1> QED BY <1>2, <1>3

\* make_intersecting_committees: any two committees share exactly the number of
\* peers asked for.
THEOREM CommitteesMeet == EveryPairMeets
<1>1. ASSUME NEW c \in CommitteeIds, NEW d \in CommitteeIds, c < d
      PROVE  Cardinality(Shared(c, d)) = Intersections
  <2> DEFINE Sections == 1..Intersections
             One(k) == [section |-> k - 1, row |-> c, column |-> d - 1]
             f == [k \in Sections |-> One(k)]
  <2>1. f \in Bijection(Sections, Shared(c, d))
    <3>1. Shared(c, d) = {One(k) : k \in Sections}
      <4>1. {One(k) : k \in Sections}
              = {[section |-> k, row |-> c, column |-> d - 1] : k \in 0..(Intersections - 1)}
        <5>1. ASSUME NEW k \in Sections PROVE k - 1 \in 0..(Intersections - 1)
          BY TopologyAssumption
        <5>2. ASSUME NEW k \in 0..(Intersections - 1) PROVE k + 1 \in Sections /\ k = (k + 1) - 1
          BY TopologyAssumption
        <5> QED BY <5>1, <5>2
      <4> QED BY <4>1, <1>1, SharedIsOnePerSection
    <3>2. ASSUME NEW k \in Sections, NEW l \in Sections, f[k] = f[l] PROVE k = l
      <4>1. f[k].section = k - 1 /\ f[l].section = l - 1
        OBVIOUS
      <4> QED BY <3>2, <4>1, TopologyAssumption
    <3>3. f \in [Sections -> Shared(c, d)]
      BY <3>1
    <3>4. \A p \in Shared(c, d) : \E k \in Sections : f[k] = p
      BY <3>1
    <3> QED BY <3>2, <3>3, <3>4, Fun_IsBij
  <2>2. IsFiniteSet(Sections) /\ Cardinality(Sections) = Intersections
    BY FS_Interval, TopologyAssumption
  <2> QED BY <2>1, <2>2, FS_Bijection DEF ExistsBijection
<1>2. \A c, d : Shared(c, d) = Shared(d, c)
  BY DEF Shared
<1>3. \A c, d \in CommitteeIds : c # d => c < d \/ d < c
  BY TopologyAssumption DEF CommitteeIds
<1> QED BY <1>1, <1>2, <1>3 DEF EveryPairMeets

\* So there is a peer that joins them, and it joins no committee to itself.
LEMMA SomePeerShares ==
    ASSUME NEW c \in CommitteeIds, NEW d \in CommitteeIds, c # d
    PROVE  \E p \in PairedPeers : {CommitteeIdA(p), CommitteeIdB(p)} = {c, d}
<1>1. Cardinality(Shared(c, d)) # 0
  BY CommitteesMeet, TopologyAssumption DEF EveryPairMeets
<1>2. Shared(c, d) # {}
  BY <1>1, FS_EmptySet
<1> QED BY <1>2 DEF Shared

LEMMA IdsOfPeer ==
    ASSUME NEW p \in PairedPeers
    PROVE  /\ CommitteeIdA(p) \in CommitteeIds /\ CommitteeIdB(p) \in CommitteeIds
           /\ CommitteeIdA(p) # CommitteeIdB(p)
BY PeerFields, Sizes DEF CommitteeIdA, CommitteeIdB, CommitteeIds

\* make_intersecting_committees pairs the instances exactly, whatever the numbers
\* of committees and of intersections.
THEOREM PairingIsExact == Pairing
BY InstancesAreUsedOnce, InstancesAreAllUsed, CommitteesMeet DEF Pairing

\* The instance of committee c that a peer holds is one of the committee's.
LEMMA SlotsOfPeer ==
    ASSUME NEW p \in PairedPeers
    PROVE  SlotA(p) \in Slots /\ SlotB(p) \in Slots
<1>1. /\ p.section \in Nat /\ p.section < Intersections
      /\ p.row \in 0..(SectionSize - 1) /\ p.column \in 0..(SectionSize - 1)
  <2>1. p.section \in 0..(Intersections - 1)
    BY DEF PairedPeers
  <2> QED BY <2>1, PeerFields, TopologyAssumption
<1> PICK n \in Nat \ {0} : n = SectionSize
  BY Sizes
<1>2. n * p.section + n <= n * Intersections
  BY <1>1, SectionsApart, TopologyAssumption
<1>3. n * p.section \in Nat /\ n * Intersections \in Nat
  BY <1>1, TopologyAssumption
<1> QED BY <1>1, <1>2, <1>3 DEF SlotA, SlotB, SlotOf, Slots, CommitteeSize

\* A committee has as many peers as instances, so make_intersecting_committees
\* gives every peer of it a seat of its own.
THEOREM SeatsAreAllTaken ==
    ASSUME NEW c \in CommitteeIds
    PROVE  Cardinality({p \in PairedPeers : c \in {CommitteeIdA(p), CommitteeIdB(p)}}) = CommitteeSize
<1> DEFINE Seated == {p \in PairedPeers : c \in {CommitteeIdA(p), CommitteeIdB(p)}}
           Uses(p, s) == UsesA(p, c, s) \/ UsesB(p, c, s)
           f == [s \in Slots |-> CHOOSE p \in PairedPeers : Uses(p, s)]
<1>1. \A s \in Slots : f[s] \in PairedPeers /\ Uses(f[s], s)
  BY InstancesAreAllUsed DEF NoInstanceIdle
<1>2. f \in [Slots -> Seated]
  BY <1>1 DEF UsesA, UsesB
<1>3. ASSUME NEW s \in Slots, NEW t \in Slots, f[s] = f[t] PROVE s = t
  <2> PICK p \in PairedPeers : p = f[s]
    BY <1>1
  <2>1. Uses(p, s) /\ Uses(p, t)
    BY <1>1, <1>3
  <2>2. CommitteeIdA(p) # CommitteeIdB(p)
    BY PeerFields, Sizes DEF CommitteeIdA, CommitteeIdB
  <2> QED BY <2>1, <2>2 DEF UsesA, UsesB
<1>4. ASSUME NEW p \in Seated PROVE \E s \in Slots : f[s] = p
  <2>1. PICK s \in Slots : Uses(p, s)
    BY SlotsOfPeer DEF UsesA, UsesB
  <2> PICK q \in PairedPeers : q = f[s]
    BY <1>1
  <2>2. Uses(q, s)
    BY <1>1
  <2>3. q = p
    BY <2>1, <2>2, InstancesAreUsedOnce DEF NoInstanceTwice
  <2> QED BY <2>3
<1> HIDE DEF f
<1>5. f \in Bijection(Slots, Seated)
  BY <1>2, <1>3, <1>4, Fun_IsBij
<1>6. IsFiniteSet(Slots) /\ Cardinality(Slots) = CommitteeSize
  BY FS_Interval, Sizes DEF Slots
<1> QED BY <1>5, <1>6, FS_Bijection DEF ExistsBijection
=============================================================================
