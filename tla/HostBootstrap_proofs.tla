------------------------- MODULE HostBootstrap_proofs -------------------------
(***************************************************************************)
(* Proofs about HostBootstrap, for any number of committees, sections,     *)
(* collisions, faults and leaves.  Chains follows the genesis block from   *)
(* the first container to every member and the process's one admin key,    *)
(* Servers the peers' processes and the dict that owns them, Network what  *)
(* the call hands over while nobody has left yet.                          *)
(***************************************************************************)
EXTENDS HostBootstrap, CooperativeLeave_proofs, CommitteeTopology_proofs, SequenceTheorems

Making == {"create", "genesis", "join", "await"}
Adding == {"addA", "addB"}

Pair == [section : Nat, row : Nat, column : Nat]

BootTypes ==
    /\ boot \in [pc : Making \cup Adding \cup {"open", "return", "done", "failed"},
                 c : CommitteeIds, i : Nat, pair : Pair]
    /\ boot.pc \in Making => boot.i \in Slots
    /\ boot.pc \in {"genesis", "open"} => boot.i = 0
    /\ boot.pc \notin Making => boot.c = NumberOfCommittees - 1
    /\ boot.pc \in Making \cup {"open"} => boot.pair \in PairedPeers
    /\ boot.pc \in Making => boot.pair = FirstPair

\* The committees whose genesis has been made, and those that are polled.
Made(c) == boot.c > c \/ (boot.c = c /\ boot.pc \notin {"create", "genesis"})
Polled(c) == boot.c > c \/ boot.pc \notin Making \cup {"failed"}

LifeTypes ==
    /\ DOMAIN block = Containers /\ DOMAIN genesis = Containers
    /\ DOMAIN linked = Containers /\ DOMAIN keyFile = Containers
    /\ adminKey \in Containers \cup {None} /\ services \subseteq Containers

\* A block is that of the first container of the same committee.
OneBlock(m) ==
    /\ block[m] = None \/ (block[m] = <<m[1], 0>> /\ Made(m[1]))
    /\ genesis[m] # NoGenesis => m[2] = 0 /\ Made(m[1])
    /\ linked[m] \subseteq Members(m[1])
    /\ m \in services => Made(m[1]) /\ keyFile[m] = adminKey

HasGenesis(c) ==
    Made(c) =>
        /\ genesis[<<c, 0>>].members = Members(c)
        /\ adminKey # None /\ adminKey \in genesis[<<c, 0>>].admins

Chains ==
    /\ LifeTypes
    /\ \A m \in Containers : OneBlock(m)
    /\ \A c \in CommitteeIds :
         HasGenesis(c) /\ (Polled(c) => \A m \in Members(c) : block[m] # None)
    /\ boot.pc = "await" => \A s \in Slots : s < boot.i => block[<<boot.c, s>>] # None
-----------------------------------------------------------------------------
InDict == Seqs!ToSet(held)

\* The order of the three loops.
Before(p, q) ==
    \/ p.section < q.section
    \/ p.section = q.section /\ p.row < q.row
    \/ p.section = q.section /\ p.row = q.row /\ p.column < q.column

Servers ==
    /\ held \in Seq(PairedPeers) /\ collisions \in Nat
    /\ starting \cap api = {} /\ starting \cup api \subseteq InDict
    /\ boot.pc \in Making => held = <<>>
    /\ boot.pc = "open" =>
         /\ \A p \in InDict : Before(p, boot.pair)
         /\ collisions = 0 => \A p \in PairedPeers : Before(p, boot.pair) => p \in InDict
    /\ boot.pc \in Adding => boot.i < Len(held)
    /\ boot.pc \notin Making \cup {"open", "failed"} /\ collisions = 0 => InDict = PairedPeers
-----------------------------------------------------------------------------
\* The peer serves, and its tables are those get_neighbors builds.
Told(p) ==
    p \in api /\ table[p][IdA[p]] = Listed(p, IdA[p]) /\ table[p][IdB[p]] = Listed(p, IdB[p])

ToldSoFar == \A k \in 1..boot.i : Told(held[k])
HalfTold == Poster \in api /\ table[Poster][IdA[Poster]] = Listed(Poster, IdA[Poster])
AllTold == \A k \in 1..Len(held) : Told(held[k])

\* Two lists in each table, of other members.
Shaped(t) == t = [p \in Peers |-> [c \in {IdA[p], IdB[p]} |-> t[p][c]]]
Fitting(t) == \A p \in Peers : \A c \in {IdA[p], IdB[p]} : t[p][c] \subseteq InCommittee(c) \ {p}

Network ==
    /\ leave = [p \in Peers |-> Idle("none")] /\ floating = [c \in Committees |-> {}]
    /\ roster = [c \in Committees |-> IF Made(c) THEN InCommittee(c) ELSE {}]
    /\ past = [c \in Committees |-> IF Made(c) THEN {InCommittee(c)} ELSE {}]
    /\ Shaped(table) /\ Fitting(table)
    /\ boot.pc \in Adding => ToldSoFar
    /\ boot.pc = "addB" => HalfTold
    /\ boot.pc \in {"return", "done"} => AllTold
    /\ boot.pc = "done" => running = InDict

\* No /remove has been sent.
Calm == met = {} /\ crossed = {}

HostInv ==
    /\ BootTypes /\ Chains /\ Servers
    /\ leaves \in Nat /\ (leaves > 0 => boot.pc = "done")
    /\ leaves = 0 => Network /\ Calm
-----------------------------------------------------------------------------
(* The order in which the peers are opened *)

LEMMA PairFields ==
    ASSUME NEW p \in PairedPeers
    PROVE  /\ p.section \in 0..(Intersections - 1)
           /\ p.row \in 0..(SectionSize - 1) /\ p.column \in 0..(SectionSize - 1)
           /\ p.row <= p.column /\ p \in Pair
           /\ p = [section |-> p.section, row |-> p.row, column |-> p.column]
<1>1. /\ p \in [section : 0..(Intersections - 1), row : CommitteeIds, column : 0..(SectionSize - 1)]
      /\ p.row <= p.column
  BY DEF PairedPeers
<1>2. SectionSize \in Nat \ {0} /\ Intersections \in Nat \ {0} /\ NumberOfCommittees \in Nat
  BY TopologyAssumption DEF SectionSize
<1>3. p.section \in 0..(Intersections - 1) /\ p.row \in CommitteeIds /\ p.column \in 0..(SectionSize - 1)
  BY <1>1
<1>4. p.row \in 0..(SectionSize - 1)
  BY <1>1, <1>2, <1>3 DEF CommitteeIds
<1>5. p.section \in Nat /\ p.row \in Nat /\ p.column \in Nat
  BY <1>2, <1>3, <1>4
<1> QED BY <1>1, <1>3, <1>4, <1>5 DEF Pair

LEMMA PairMade ==
    ASSUME NEW i \in 0..(Intersections - 1), NEW r \in 0..(SectionSize - 1),
           NEW k \in 0..(SectionSize - 1), r <= k
    PROVE  [section |-> i, row |-> r, column |-> k] \in PairedPeers
BY TopologyAssumption DEF PairedPeers, SectionSize, CommitteeIds

LEMMA Ends ==
    /\ FirstPair \in PairedPeers /\ LastPair \in PairedPeers
    /\ \A p \in PairedPeers : ~Before(p, FirstPair) /\ ~Before(p, p)
    /\ \A p \in PairedPeers : Before(p, LastPair) \/ p = LastPair
<1>1. SectionSize \in Nat \ {0} /\ Intersections \in Nat \ {0}
  BY TopologyAssumption DEF SectionSize
<1>2. FirstPair \in PairedPeers
  BY <1>1, PairMade DEF FirstPair
<1>3. LastPair \in PairedPeers
  BY <1>1, PairMade DEF LastPair
<1>4. ASSUME NEW p \in PairedPeers
      PROVE  /\ ~Before(p, FirstPair) /\ ~Before(p, p)
             /\ Before(p, LastPair) \/ p = LastPair
  BY <1>1, PairFields DEF Before, FirstPair, LastPair
<1> QED BY <1>2, <1>3, <1>4

LEMMA PairSteps ==
    ASSUME NEW q \in PairedPeers, q # LastPair
    PROVE  /\ NextPair(q) \in PairedPeers
           /\ \A p \in PairedPeers : Before(p, NextPair(q)) <=> Before(p, q) \/ p = q
<1>1. SectionSize \in Nat \ {0} /\ Intersections \in Nat \ {0}
  BY TopologyAssumption DEF SectionSize
<1>2. CASE q.column + 1 < SectionSize
  <2> DEFINE n == [section |-> q.section, row |-> q.row, column |-> q.column + 1]
  <2>1. NextPair(q) = n
    BY <1>2 DEF NextPair
  <2>2. n \in PairedPeers
    BY <1>1, <1>2, PairFields, PairMade
  <2>3. ASSUME NEW p \in PairedPeers PROVE Before(p, n) <=> Before(p, q) \/ p = q
    BY <1>1, <1>2, PairFields DEF Before
  <2> QED BY <2>1, <2>2, <2>3
<1>3. CASE ~(q.column + 1 < SectionSize) /\ q.row + 1 < SectionSize
  <2> DEFINE n == [section |-> q.section, row |-> q.row + 1, column |-> q.row + 1]
  <2>1. NextPair(q) = n
    BY <1>3 DEF NextPair
  <2>2. n \in PairedPeers
    BY <1>1, <1>3, PairFields, PairMade
  <2>3. ASSUME NEW p \in PairedPeers PROVE Before(p, n) <=> Before(p, q) \/ p = q
    BY <1>1, <1>3, PairFields DEF Before
  <2> QED BY <2>1, <2>2, <2>3
<1>4. CASE ~(q.column + 1 < SectionSize) /\ ~(q.row + 1 < SectionSize)
  <2> DEFINE n == [section |-> q.section + 1, row |-> 0, column |-> 0]
  <2>1. NextPair(q) = n
    BY <1>4 DEF NextPair
  <2>2. q.row = SectionSize - 1 /\ q.column = SectionSize - 1
    BY <1>1, <1>4, PairFields
  <2>3. q.section # Intersections - 1
    BY <2>2, PairFields DEF LastPair
  <2>4. n \in PairedPeers
    <3>1. q.section + 1 \in 0..(Intersections - 1)
      BY <1>1, <2>3, PairFields
    <3> QED BY <1>1, <3>1, PairMade
  <2>5. ASSUME NEW p \in PairedPeers PROVE Before(p, n) <=> Before(p, q) \/ p = q
    BY <1>1, <2>2, PairFields DEF Before
  <2> QED BY <2>1, <2>4, <2>5
<1> QED BY <1>2, <1>3, <1>4
-----------------------------------------------------------------------------
(* The owner's program *)

LEMMA HostSizes ==
    /\ NumberOfCommittees \in Nat /\ NumberOfCommittees >= 2
    /\ CommitteeSize \in Nat /\ CommitteeSize >= 4
    /\ 0 \in Slots /\ 0 \in CommitteeIds
BY TopologyAssumption, HostAssumption DEF CommitteeSize, SectionSize, Slots, CommitteeIds

Program == [pc : Making \cup Adding \cup {"open", "return", "done", "failed"},
            c : CommitteeIds, i : Nat, pair : Pair]


\* Where a loop over the members of a committee goes next.
At(pc, c, i, pair) == [pc |-> pc, c |-> c, i |-> i, pair |-> pair]

LEMMA WalkShape ==
    ASSUME boot \in Program, boot.i \in Slots, NEW next
    PROVE  \/ boot.i + 1 \in Slots /\ Walk(next) = At(boot.pc, boot.c, boot.i + 1, boot.pair)
           \/ boot.i + 1 = CommitteeSize /\ Walk(next) = At(next, boot.c, 0, boot.pair)
<1>1. boot.i \in 0..(CommitteeSize - 1)
  BY DEF Slots
<1>2. CASE boot.i + 1 < CommitteeSize
  <2>1. boot.i + 1 \in Slots
    BY <1>1, <1>2, HostSizes DEF Slots
  <2>2. Walk(next) = [boot EXCEPT !.i = boot.i + 1]
    BY <1>2 DEF Walk
  <2> QED BY <2>1, <2>2 DEF At, Program
<1>3. CASE ~(boot.i + 1 < CommitteeSize)
  <2>1. boot.i + 1 = CommitteeSize
    BY <1>1, <1>3, HostSizes
  <2>2. Walk(next) = [boot EXCEPT !.pc = next, !.i = 0]
    BY <1>3 DEF Walk
  <2> QED BY <2>1, <2>2 DEF At, Program
<1> QED BY <1>2, <1>3

LEMMA ReadShape ==
    ASSUME boot \in Program, boot.i \in Slots, NEW seen
    PROVE  \/ seen = None /\ AfterRead(seen) = At(boot.pc, boot.c, 0, boot.pair)
           \/ /\ seen # None /\ boot.i + 1 \in Slots
              /\ AfterRead(seen) = At(boot.pc, boot.c, boot.i + 1, boot.pair)
           \/ /\ seen # None /\ boot.i + 1 = CommitteeSize
              /\ boot.c + 1 \in CommitteeIds
              /\ AfterRead(seen) = At("create", boot.c + 1, 0, boot.pair)
           \/ /\ seen # None /\ boot.i + 1 = CommitteeSize
              /\ boot.c = NumberOfCommittees - 1
              /\ AfterRead(seen) = At("open", boot.c, 0, boot.pair)
<1>1. boot.i \in 0..(CommitteeSize - 1) /\ boot.c \in 0..(NumberOfCommittees - 1)
  BY DEF Slots, Program, CommitteeIds
<1>2. CASE seen = None
  <2>1. AfterRead(seen) = [boot EXCEPT !.i = 0]
    BY <1>2 DEF AfterRead
  <2> QED BY <1>2, <2>1 DEF At, Program
<1>3. CASE seen # None /\ boot.i + 1 < CommitteeSize
  <2>1. AfterRead(seen) = [boot EXCEPT !.i = boot.i + 1]
    BY <1>3 DEF AfterRead
  <2>2. boot.i + 1 \in Slots
    BY <1>1, <1>3, HostSizes DEF Slots
  <2> QED BY <1>3, <2>1, <2>2 DEF At, Program
<1>4. CASE seen # None /\ ~(boot.i + 1 < CommitteeSize)
  <2>1. boot.i + 1 = CommitteeSize
    BY <1>1, <1>4, HostSizes
  <2>2. CASE boot.c + 1 < NumberOfCommittees
    <3>1. AfterRead(seen) = [boot EXCEPT !.pc = "create", !.c = boot.c + 1, !.i = 0]
      BY <1>4, <2>2 DEF AfterRead, NextCommittee
    <3>2. boot.c + 1 \in CommitteeIds
      BY <1>1, <2>2, HostSizes DEF CommitteeIds
    <3> QED BY <1>4, <2>1, <3>1, <3>2 DEF At, Program
  <2>3. CASE ~(boot.c + 1 < NumberOfCommittees)
    <3>1. AfterRead(seen) = [boot EXCEPT !.pc = "open", !.i = 0]
      BY <1>4, <2>3 DEF AfterRead, NextCommittee
    <3>2. boot.c = NumberOfCommittees - 1
      BY <1>1, <2>3, HostSizes
    <3> QED BY <1>4, <2>1, <3>1, <3>2 DEF At, Program
  <2> QED BY <2>2, <2>3
<1> QED BY <1>2, <1>3, <1>4

LEMMA AddShape ==
    ASSUME boot \in Program, boot.pc \in Adding
    PROVE  \/ boot.pc = "addA" /\ AfterAdd = At("addB", boot.c, boot.i, boot.pair)
           \/ /\ boot.pc = "addB" /\ boot.i + 1 < Len(held)
              /\ AfterAdd = At("addA", boot.c, boot.i + 1, boot.pair)
           \/ /\ boot.pc = "addB" /\ ~(boot.i + 1 < Len(held))
              /\ AfterAdd = At("return", boot.c, boot.i, boot.pair)
<1>1. CASE boot.pc = "addA"
  <2>1. AfterAdd = [boot EXCEPT !.pc = "addB"]
    BY <1>1 DEF AfterAdd
  <2> QED BY <1>1, <2>1 DEF At, Program
<1>2. CASE boot.pc = "addB" /\ boot.i + 1 < Len(held)
  <2>1. AfterAdd = [boot EXCEPT !.pc = "addA", !.i = boot.i + 1]
    BY <1>2 DEF AfterAdd
  <2> QED BY <1>2, <2>1 DEF At, Program
<1>3. CASE boot.pc = "addB" /\ ~(boot.i + 1 < Len(held))
  <2>1. AfterAdd = [boot EXCEPT !.pc = "return"]
    BY <1>3 DEF AfterAdd
  <2> QED BY <1>3, <2>1 DEF At, Program
<1> QED BY <1>1, <1>2, <1>3 DEF Adding

LEMMA BootKept ==
    ASSUME BootTypes, [HNext]_hvars
    PROVE  BootTypes'
<1> USE HostSizes
<1>0. boot \in Program
  BY DEF BootTypes, Program
<1>1. CASE boot' = boot
  BY <1>1 DEF BootTypes
<1>2. CASE CreateMember
  <2>1. boot' = Walk("genesis") /\ boot.pc = "create"
    BY <1>2 DEF CreateMember
  <2>2. boot.i \in Slots /\ boot.c \in CommitteeIds /\ boot.pair \in Pair
    BY <1>0, <2>1 DEF BootTypes, Program, Making
  <2> QED BY <2>1, <2>2, <1>0, WalkShape DEF BootTypes, At, Program, Making, Slots
<1>3. CASE FirstMakesGenesis
  <2>1. boot' = [boot EXCEPT !.pc = "join"] /\ boot.pc = "genesis"
    BY <1>3 DEF FirstMakesGenesis
  <2> QED BY <1>0, <2>1 DEF BootTypes, Program, Making
<1>4. CASE JoinMember
  <2>1. boot' = Walk("await") /\ boot.pc = "join"
    BY <1>4 DEF JoinMember
  <2>2. boot.i \in Slots /\ boot.c \in CommitteeIds /\ boot.pair \in Pair
    BY <1>0, <2>1 DEF BootTypes, Program, Making
  <2> QED BY <2>1, <2>2, <1>0, WalkShape DEF BootTypes, At, Program, Making, Slots
<1>5. CASE AwaitGenesis
  <2>1. boot' = AfterRead(block[Member]) /\ boot.pc = "await"
    BY <1>5 DEF AwaitGenesis
  <2>2. boot.i \in Slots /\ boot.c \in CommitteeIds /\ boot.pair \in Pair
    BY <1>0, <2>1 DEF BootTypes, Program, Making
  <2> QED BY <2>1, <2>2, <1>0, ReadShape DEF BootTypes, At, Program, Making, Slots
<1>6. CASE OpenPeer \/ OpenOnSamePort
  <2>1. boot' = AfterOpening /\ boot.pc = "open"
    BY <1>6 DEF OpenPeer, OpenOnSamePort
  <2>2. boot.pair \in PairedPeers /\ boot.i = 0
    BY <2>1 DEF BootTypes
  <2>3. CASE boot.pair # LastPair
    <3>1. NextPair(boot.pair) \in PairedPeers /\ NextPair(boot.pair) \in Pair
      BY <2>2, <2>3, PairSteps, PairFields
    <3>2. boot' = [boot EXCEPT !.pair = NextPair(boot.pair)]
      BY <2>1, <2>3 DEF AfterOpening
    <3> QED BY <1>0, <2>1, <2>2, <3>1, <3>2 DEF BootTypes, Program, Making
  <2>4. CASE boot.pair = LastPair
    <3>1. boot' = [boot EXCEPT !.pc = "addA"]
      BY <2>1, <2>4 DEF AfterOpening
    <3> QED BY <1>0, <2>1, <2>2, <3>1 DEF BootTypes, Program, Making, Adding
  <2> QED BY <2>3, <2>4
<1>7. CASE Add
  <2>1. boot' = AfterAdd /\ boot.pc \in Adding
    BY <1>7 DEF Add, Adding
  <2> QED BY <1>0, <2>1, AddShape DEF BootTypes, At, Program, Making, Adding
<1>8. CASE AddRefused
  <2>1. boot' = [boot EXCEPT !.pc = "failed"] /\ boot.pc \in Adding
    BY <1>8 DEF AddRefused, Adding
  <2> QED BY <1>0, <2>1 DEF BootTypes, Program, Making, Adding
<1>9. CASE Return
  <2>1. boot' = [boot EXCEPT !.pc = "done"] /\ boot.pc = "return"
    BY <1>9 DEF Return
  <2> QED BY <1>0, <2>1 DEF BootTypes, Program, Making, Adding
<1>10. CASE \E c \in Containers : Validate(c)
  BY <1>10, <1>1 DEF Validate
<1>11. CASE \E p \in Peers : Bind(p) \/ BindFails(p)
  BY <1>11, <1>1 DEF Bind, BindFails
<1>12. CASE Live(Next)
  BY <1>12, <1>1 DEF Live
<1>13. CASE UNCHANGED hvars
  BY <1>13, <1>1 DEF hvars
<1> QED
  BY <1>2, <1>3, <1>4, <1>5, <1>6, <1>7, <1>8, <1>9, <1>10, <1>11, <1>12, <1>13 DEF HNext, Boot
-----------------------------------------------------------------------------
(* The genesis block and the admin key *)

LEMMA MemberOf ==
    /\ \A c \in CommitteeIds, s \in Slots :
          <<c, s>> \in Containers /\ <<c, s>>[1] = c /\ <<c, s>>[2] = s /\ <<c, s>> \in Members(c)
    /\ \A m \in Containers :
          m[1] \in CommitteeIds /\ m[2] \in Slots /\ m = <<m[1], m[2]>> /\ m \in Members(m[1])
    /\ \A c \in CommitteeIds : \A m \in Members(c) : m \in Containers /\ m[1] = c
BY HostAssumption DEF Members

\* What is made or polled stays so, and what a step of the program adds.
SameStage ==
    /\ \A c \in CommitteeIds : Made(c)' <=> Made(c)
    /\ \A c \in CommitteeIds : Polled(c)' => Polled(c)

LEMMA StageKept ==
    ASSUME BootTypes, BootTypes', boot'.c = boot.c,
           \/ boot'.pc = boot.pc
           \/ /\ boot.pc \in {"create", "genesis"} /\ boot'.pc \in {"create", "genesis"}
           \/ /\ boot.pc \in {"join", "await"} /\ boot'.pc \in {"join", "await"}
           \/ /\ boot.pc \notin Making \cup {"failed"} /\ boot'.pc \notin Making
    PROVE  SameStage
BY HostSizes DEF BootTypes, SameStage, Made, Polled, Making, CommitteeIds

\* Steps that leave the chains alone.
LEMMA ChainsLeft ==
    ASSUME Chains, SameStage, boot' = boot \/ boot'.pc # "await",
           adminKey' = adminKey, keyFile' = keyFile, genesis' = genesis, linked' = linked,
           block' = block, services' \subseteq services
    PROVE  Chains'
<1>1. LifeTypes'
  BY DEF Chains, LifeTypes
<1>2. ASSUME NEW m \in Containers PROVE OneBlock(m)'
  <2>1. OneBlock(m) /\ (Made(m[1])' <=> Made(m[1]))
    BY MemberOf DEF Chains, SameStage
  <2> QED BY <2>1 DEF OneBlock
<1>3. ASSUME NEW c \in CommitteeIds
      PROVE  HasGenesis(c)' /\ (Polled(c)' => \A m \in Members(c) : block'[m] # None)
  <2>1. HasGenesis(c) /\ (Made(c)' <=> Made(c)) /\ (Polled(c)' => Polled(c))
    BY DEF Chains, SameStage
  <2>2. Polled(c) => \A m \in Members(c) : block[m] # None
    BY DEF Chains
  <2> QED BY <2>1, <2>2 DEF HasGenesis
<1>4. boot'.pc = "await" => \A s \in Slots : s < boot'.i => block'[<<boot'.c, s>>] # None
  BY DEF Chains
<1> QED BY <1>1, <1>2, <1>3, <1>4 DEF Chains, Members

LEMMA GenesisChains ==
    ASSUME BootTypes, BootTypes', Chains, FirstMakesGenesis
    PROVE  Chains'
<1> USE MemberOf, HostSizes
<1> DEFINE b == boot.c
           key == AdminKeyAfter(Member)
<1>1. /\ boot.pc = "genesis" /\ boot.i = 0 /\ b \in CommitteeIds /\ Member = <<b, 0>>
      /\ boot' = [boot EXCEPT !.pc = "join"] /\ boot'.c = b /\ boot'.pc = "join"
  BY DEF FirstMakesGenesis, BootTypes, Member
<1>2. /\ adminKey' = key /\ keyFile' = [keyFile EXCEPT ![Member] = key]
      /\ genesis' = [genesis EXCEPT ![Member] = [members |-> Members(b), admins |-> Members(b) \cup {key}]]
      /\ linked' = linked /\ services' = services /\ block' = block
  BY DEF FirstMakesGenesis, MakeGenesis
<1>3. key \in Containers /\ key # None /\ (adminKey # None => key = adminKey)
  BY <1>1, NoneAssumption DEF AdminKeyAfter, Chains, LifeTypes
<1>4. Member \in Containers
  BY <1>1
<1>5. ~Made(b) /\ (\A c \in CommitteeIds : Made(c)' <=> Made(c) \/ c = b)
  BY <1>1 DEF Made, CommitteeIds
<1>6. \A c \in CommitteeIds : Polled(c)' => Polled(c) /\ Made(c)
  BY <1>1 DEF Polled, Made, Making, CommitteeIds
<1> HIDE DEF b, key
<1>7. LifeTypes'
  BY <1>2, <1>3 DEF Chains, LifeTypes
<1>8. ASSUME NEW m \in Containers PROVE OneBlock(m)'
  <2>1. OneBlock(m) /\ m[1] \in CommitteeIds /\ HasGenesis(m[1])
    BY DEF Chains
  <2>2. Made(m[1])' <=> Made(m[1]) \/ m[1] = b
    BY <2>1, <1>5
  <2>3. block'[m] = None \/ (block'[m] = <<m[1], 0>> /\ Made(m[1])')
    BY <2>1, <2>2, <1>2 DEF OneBlock
  <2>4. genesis'[m] # NoGenesis => m[2] = 0 /\ Made(m[1])'
    <3>1. CASE m = Member
      BY <3>1, <1>1, <2>2
    <3>2. CASE m # Member
      BY <3>2, <1>2, <2>1, <2>2 DEF OneBlock, Chains, LifeTypes
    <3> QED BY <3>1, <3>2
  <2>5. linked'[m] \subseteq Members(m[1])
    BY <1>2, <2>1 DEF OneBlock
  <2>6. m \in services => Made(m[1])' /\ keyFile'[m] = adminKey'
    <3> SUFFICES ASSUME m \in services PROVE Made(m[1])' /\ keyFile'[m] = adminKey'
      OBVIOUS
    <3>1. Made(m[1]) /\ keyFile[m] = adminKey
      BY <2>1 DEF OneBlock
    <3>2. m # Member /\ adminKey # None
      BY <3>1, <1>1, <1>5, <2>1 DEF HasGenesis
    <3> QED BY <3>1, <3>2, <1>2, <1>3, <2>2 DEF Chains, LifeTypes
  <2> QED BY <1>2, <2>3, <2>4, <2>5, <2>6 DEF OneBlock, Members
<1>9. ASSUME NEW c \in CommitteeIds PROVE HasGenesis(c)'
  <2>1. HasGenesis(c) /\ (Made(c)' <=> Made(c) \/ c = b)
    BY <1>5 DEF Chains
  <2>2. CASE c = b
    BY <2>2, <1>1, <1>2, <1>3, <1>4 DEF HasGenesis, Chains, LifeTypes, Members
  <2>3. CASE c # b
    <3>1. <<c, 0>> # Member
      BY <2>3, <1>1
    <3>2. genesis'[<<c, 0>>] = genesis[<<c, 0>>]
      BY <3>1, <1>2 DEF Chains, LifeTypes
    <3>3. Made(c)' => adminKey' = adminKey
      BY <2>1, <2>3, <1>2, <1>3 DEF HasGenesis
    <3> QED BY <2>1, <2>3, <3>2, <3>3 DEF HasGenesis, Members
  <2> QED BY <2>2, <2>3
<1>10. ASSUME NEW c \in CommitteeIds, Polled(c)'
       PROVE  \A m \in Members(c) : block'[m] # None
  BY <1>6, <1>10, <1>2 DEF Chains
<1> QED BY <1>1, <1>7, <1>8, <1>9, <1>10 DEF Chains, Members

LEMMA JoinChains ==
    ASSUME BootTypes, BootTypes', Chains, JoinMember
    PROVE  Chains'
<1> USE MemberOf, HostSizes
<1>0. boot \in Program
  BY DEF BootTypes, Program
<1>1. /\ boot.pc = "join" /\ boot.c \in CommitteeIds /\ boot.i \in Slots
      /\ boot' = Walk("await")
  BY DEF JoinMember, BootTypes, Making
<1>2. boot'.c = boot.c /\ boot'.pc \in {"join", "await"} /\ (boot'.pc = "await" => boot'.i = 0)
  BY <1>0, <1>1, WalkShape DEF At
<1>3. SameStage
  BY <1>1, <1>2, StageKept
<1>4. Made(boot.c) /\ HasGenesis(boot.c) /\ adminKey # None
  BY <1>1 DEF Made, Chains, HasGenesis
<1>5. AdminKeyAfter(None) = adminKey
  BY <1>4 DEF AdminKeyAfter
<1>a. Member = <<boot.c, boot.i>> /\ Member \in Containers /\ Member[1] = boot.c
  BY <1>1 DEF Member
<1> PICK b \in CommitteeIds : b = boot.c
  BY <1>1
<1> PICK M \in Containers : M = Member /\ M[1] = b
  BY <1>a
<1>6. /\ linked' = [linked EXCEPT ![M] = PeersGiven(M, Members(b))]
      /\ keyFile' = [keyFile EXCEPT ![M] = adminKey] /\ adminKey' = adminKey
      /\ services' = services \cup {M} /\ genesis' = genesis
      /\ block' = [block EXCEPT ![M] = IF genesis[M] # NoGenesis /\ block[M] = None THEN M ELSE block[M]]
  BY <1>5 DEF JoinMember, JoinSawtooth
<1>7. LifeTypes'
  BY <1>6 DEF Chains, LifeTypes
<1>8. \A m \in Containers : block[m] # None => block'[m] = block[m]
  BY <1>6 DEF Chains, LifeTypes
<1>9. ASSUME NEW m \in Containers PROVE OneBlock(m)'
  <2>1. OneBlock(m) /\ m[1] \in CommitteeIds /\ (Made(m[1])' <=> Made(m[1]))
    BY <1>3 DEF Chains, SameStage
  <2>2. CASE m # M
    <3>1. /\ block'[m] = block[m] /\ linked'[m] = linked[m] /\ keyFile'[m] = keyFile[m]
          /\ m \in services' <=> m \in services
      BY <2>2, <1>6 DEF Chains, LifeTypes
    <3> QED BY <2>1, <3>1, <1>6 DEF OneBlock, Members
  <2>3. CASE m = M
    <3>1. /\ linked'[m] = Members(b) \ {m} /\ keyFile'[m] = adminKey
          /\ block'[m] = IF genesis[m] # NoGenesis /\ block[m] = None THEN m ELSE block[m]
      BY <2>3, <1>6 DEF Chains, LifeTypes, PeersGiven
    <3>2. m[1] = b /\ Made(m[1])' /\ Made(m[1])
      BY <2>1, <2>3, <1>4
    <3>3. block'[m] = None \/ block'[m] = <<m[1], 0>>
      BY <3>1, <2>1 DEF OneBlock
    <3>4. /\ linked'[m] \subseteq Members(m[1])
          /\ genesis'[m] # NoGenesis => m[2] = 0
          /\ keyFile'[m] = adminKey'
      BY <3>1, <3>2, <2>1, <1>6 DEF OneBlock
    <3> QED BY <3>2, <3>3, <3>4 DEF OneBlock, Members
  <2> QED BY <2>2, <2>3
<1>10. ASSUME NEW c \in CommitteeIds
       PROVE  HasGenesis(c)' /\ (Polled(c)' => \A m \in Members(c) : block'[m] # None)
  <2>1. HasGenesis(c) /\ (Made(c)' <=> Made(c)) /\ (Polled(c)' => Polled(c))
    BY <1>3 DEF Chains, SameStage
  <2>2. Polled(c) => \A m \in Members(c) : block[m] # None
    BY DEF Chains
  <2> QED BY <2>1, <2>2, <1>6, <1>8 DEF HasGenesis, Members
<1> QED BY <1>2, <1>7, <1>9, <1>10 DEF Chains, Members, Slots

\* What a committee's chain is made of, step by step.
LEMMA CommitteeKept ==
    ASSUME NEW c \in CommitteeIds, HasGenesis(c), Made(c)' <=> Made(c),
           genesis' = genesis, adminKey' = adminKey
    PROVE  HasGenesis(c)'
BY DEF HasGenesis, Members

LEMMA AwaitChains ==
    ASSUME BootTypes, BootTypes', Chains, AwaitGenesis
    PROVE  Chains'
<1> USE MemberOf, HostSizes
<1>0. boot \in Program
  BY DEF BootTypes, Program
<1> PICK b \in CommitteeIds : b = boot.c
  BY <1>0 DEF Program
<1> PICK i \in Slots : i = boot.i
  BY DEF BootTypes, AwaitGenesis, Making
<1> PICK seen : seen = block[<<b, i>>]
  OBVIOUS
<1>1. /\ boot.pc = "await" /\ boot' = AfterRead(seen) /\ UNCHANGED lifecycle
  BY DEF AwaitGenesis, Member
<1>2. /\ adminKey' = adminKey /\ keyFile' = keyFile /\ genesis' = genesis /\ linked' = linked
      /\ services' = services /\ block' = block
  BY <1>1 DEF lifecycle
<1>3. \A s \in Slots : s < i => block[<<b, s>>] # None
  BY <1>1 DEF Chains
<1>4. i \in Nat /\ \A s \in Slots : s \in Nat /\ s < CommitteeSize
  BY DEF Slots
<1>5. \A s \in Slots : s < i + 1 => s < i \/ s = i
  BY <1>4
<1>6. CASE boot' = At("await", b, 0, boot.pair) \/ (seen # None /\ boot' = At("await", b, i + 1, boot.pair))
  <2>1. boot'.pc = "await" /\ boot'.c = b
    BY <1>6 DEF At
  <2>2. SameStage
    BY <1>1, <2>1, StageKept
  <2>3. \A s \in Slots : s < boot'.i => block[<<b, s>>] # None
    <3>1. CASE boot' = At("await", b, 0, boot.pair)
      BY <3>1, <1>4 DEF At
    <3>2. CASE seen # None /\ boot' = At("await", b, i + 1, boot.pair)
      BY <3>2, <1>3, <1>5 DEF At
    <3> QED BY <1>6, <3>1, <3>2
  <2>4. \A m \in Containers : OneBlock(m)'
    BY <1>2, <2>2 DEF Chains, SameStage, OneBlock, Members
  <2>5. \A c \in CommitteeIds :
           HasGenesis(c)' /\ (Polled(c)' => \A m \in Members(c) : block'[m] # None)
    <3>1. \A c \in CommitteeIds : Polled(c) => \A m \in Members(c) : block[m] # None
      BY DEF Chains
    <3>2. \A c \in CommitteeIds : Polled(c)' => \A m \in Members(c) : block'[m] # None
      BY <3>1, <1>2, <2>2 DEF Members, SameStage
    <3>3. \A c \in CommitteeIds : HasGenesis(c)'
      BY <1>2, <2>2, CommitteeKept DEF Chains, SameStage
    <3> QED BY <3>2, <3>3
  <2>6. LifeTypes'
    BY <1>2 DEF Chains, LifeTypes
  <2> QED BY <1>2, <2>1, <2>3, <2>4, <2>5, <2>6 DEF Chains, Members
<1>7. CASE /\ seen # None /\ i + 1 = CommitteeSize
           /\ \/ b + 1 \in CommitteeIds /\ boot' = At("create", b + 1, 0, boot.pair)
              \/ b = NumberOfCommittees - 1 /\ boot' = At("open", b, 0, boot.pair)
  <2>1. \A m \in Members(b) : block[m] # None
    <3>1. \A s \in Slots : block[<<b, s>>] # None
      BY <1>3, <1>4, <1>5, <1>7
    <3> QED BY <3>1 DEF Members
  <2>2. \A c \in CommitteeIds : /\ Made(c)' <=> Made(c)
                                /\ Polled(c)' => Polled(c) \/ c = b
    BY <1>1, <1>7 DEF Made, Polled, At, Making, CommitteeIds
  <2>3. \A m \in Containers : OneBlock(m)'
    BY <1>2, <2>2 DEF Chains, OneBlock, Members
  <2>4. \A c \in CommitteeIds :
           HasGenesis(c)' /\ (Polled(c)' => \A m \in Members(c) : block'[m] # None)
    <3>1. \A c \in CommitteeIds : Polled(c) => \A m \in Members(c) : block[m] # None
      BY DEF Chains
    <3>2. \A c \in CommitteeIds : Polled(c)' => \A m \in Members(c) : block'[m] # None
      BY <3>1, <1>2, <2>1, <2>2 DEF Members
    <3>3. \A c \in CommitteeIds : HasGenesis(c)'
      BY <1>2, <2>2, CommitteeKept DEF Chains
    <3> QED BY <3>2, <3>3
  <2>5. LifeTypes'
    BY <1>2 DEF Chains, LifeTypes
  <2>6. boot'.pc # "await"
    BY <1>7 DEF At
  <2> QED BY <2>3, <2>4, <2>5, <2>6 DEF Chains, Members
<1> QED BY <1>0, <1>1, <1>6, <1>7, ReadShape

LEMMA SyncChains ==
    ASSUME BootTypes, Chains, NEW n \in Containers, Validate(n)
    PROVE  Chains'
<1> USE MemberOf
<1>1. /\ boot' = boot /\ adminKey' = adminKey /\ keyFile' = keyFile /\ genesis' = genesis
      /\ linked' = linked /\ services' = services
  BY DEF Validate, Sync
<1>2. PICK d \in services : Linked(n, d) /\ block[d] # None /\ block' = [block EXCEPT ![n] = block[d]]
  BY DEF Validate, Sync
<1>3. d \in Containers /\ OneBlock(d) /\ OneBlock(n)
  BY DEF Chains, LifeTypes
<1>4. n[1] = d[1]
  <2>1. n \in linked[d] \/ d \in linked[n]
    BY <1>2 DEF Linked
  <2>2. n \in Members(d[1]) \/ d \in Members(n[1])
    BY <2>1, <1>3 DEF OneBlock
  <2> QED BY <1>3, <2>2
<1>5. block[d] = <<n[1], 0>> /\ Made(n[1])
  BY <1>2, <1>3, <1>4 DEF OneBlock
<1>6. /\ LifeTypes'
      /\ \A m \in Containers : block'[m] = IF m = n THEN <<n[1], 0>> ELSE block[m]
  BY <1>1, <1>2, <1>5 DEF Chains, LifeTypes
<1>7. \A m \in Containers : block[m] # None => block'[m] # None
  BY <1>2, <1>6, <1>5
<1>8. /\ \A c \in CommitteeIds : /\ Made(c)' <=> Made(c) 
                                 /\ Polled(c)' <=> Polled(c)
  BY <1>1 DEF Made, Polled
<1>9. ASSUME NEW m \in Containers PROVE OneBlock(m)'
  <2>1. OneBlock(m) /\ (Made(m[1])' <=> Made(m[1]))
    BY <1>8 DEF Chains
  <2> QED BY <2>1, <1>1, <1>5, <1>6 DEF OneBlock, Members
<1>10. ASSUME NEW c \in CommitteeIds
       PROVE  HasGenesis(c)' /\ (Polled(c)' => \A m \in Members(c) : block'[m] # None)
  BY <1>1, <1>7, <1>8 DEF Chains, HasGenesis, Members
<1>11. \A s \in Slots : boot.pc = "await" => <<boot.c, s>> \in Containers
  BY DEF BootTypes
<1> QED BY <1>1, <1>6, <1>7, <1>9, <1>10, <1>11 DEF Chains, Members

LEMMA ChainsKept ==
    ASSUME BootTypes, BootTypes', Chains, [HNext]_hvars
    PROVE  Chains'
<1>0. boot \in Program
  BY DEF BootTypes, Program
<1>1. boot' = boot => SameStage
  BY StageKept
<1>2. CASE CreateMember
  <2>1. boot.pc = "create" /\ boot' = Walk("genesis") /\ boot.i \in Slots
    BY <1>2 DEF CreateMember, BootTypes, Making
  <2>2. boot'.c = boot.c /\ boot'.pc \in {"create", "genesis"}
    BY <1>0, <2>1, WalkShape DEF At
  <2>3. SameStage
    BY <2>1, <2>2, StageKept
  <2> QED BY <1>2, <2>2, <2>3, ChainsLeft DEF CreateMember, Create
<1>3. CASE OpenPeer \/ OpenOnSamePort
  <2>1. boot.pc = "open" /\ boot' = AfterOpening
    BY <1>3 DEF OpenPeer, OpenOnSamePort
  <2>2. boot'.c = boot.c /\ boot'.pc \in {"open", "addA"}
    <3>1. \/ boot' = [boot EXCEPT !.pair = NextPair(boot.pair)]
          \/ boot' = [boot EXCEPT !.pc = "addA"]
      BY <2>1 DEF AfterOpening
    <3> QED BY <1>0, <2>1, <3>1 DEF Program
  <2>3. SameStage
    BY <2>1, <2>2, StageKept DEF Making
  <2> QED BY <1>3, <2>2, <2>3, ChainsLeft DEF OpenPeer, OpenOnSamePort, lifecycle
<1>4. CASE Add
  <2>1. boot.pc \in Adding /\ boot' = AfterAdd /\ UNCHANGED lifecycle
    BY <1>4 DEF Add, Adding
  <2>2. boot'.c = boot.c /\ boot'.pc \in {"addA", "addB", "return"}
    BY <1>0, <2>1, AddShape DEF At
  <2>3. SameStage
    BY <2>1, <2>2, StageKept DEF Making, Adding
  <2> QED BY <2>1, <2>2, <2>3, ChainsLeft DEF lifecycle
<1>5. CASE AddRefused
  <2>1. boot.pc \in Adding /\ boot' = [boot EXCEPT !.pc = "failed"] /\ Stop(up)
    BY <1>5 DEF AddRefused, Adding
  <2>2. boot'.c = boot.c /\ boot'.pc = "failed"
    BY <1>0, <2>1 DEF Program
  <2>3. SameStage
    BY <2>1, <2>2, StageKept DEF Making, Adding
  <2> QED BY <2>1, <2>2, <2>3, ChainsLeft DEF Stop
<1>6. CASE Return
  <2>1. boot.pc = "return" /\ boot' = [boot EXCEPT !.pc = "done"]
        /\ Stop(UNION {Halves(p) : p \in Peers \ Seqs!ToSet(held)})
    BY <1>6 DEF Return
  <2>2. boot'.c = boot.c /\ boot'.pc = "done"
    BY <1>0, <2>1 DEF Program
  <2>3. SameStage
    BY <2>1, <2>2, StageKept DEF Making
  <2> QED BY <2>1, <2>2, <2>3, ChainsLeft DEF Stop
<1>7. CASE \E p \in Peers : Bind(p) \/ BindFails(p)
  <2>1. boot' = boot /\ UNCHANGED lifecycle
    BY <1>7 DEF Bind, BindFails
  <2> QED BY <1>1, <2>1, ChainsLeft DEF lifecycle
<1>8. CASE Live(Next)
  <2>1. boot' = boot /\ Stop(UNION {Halves(p) : p \in running \ running'})
    BY <1>8 DEF Live
  <2> QED BY <1>1, <2>1, ChainsLeft DEF Stop
<1>9. CASE UNCHANGED hvars
  <2>1. boot' = boot /\ UNCHANGED lifecycle
    BY <1>9 DEF hvars
  <2> QED BY <1>1, <2>1, ChainsLeft DEF lifecycle
<1> QED
  BY <1>2, <1>3, <1>4, <1>5, <1>6, <1>7, <1>8, <1>9,
     GenesisChains, JoinChains, AwaitChains, SyncChains DEF HNext, Boot
-----------------------------------------------------------------------------
(* The peers and their processes *)

LEMMA DictOf ==
    ASSUME NEW S, NEW s \in Seq(S)
    PROVE  /\ Seqs!ToSet(s) = {s[k] : k \in 1..Len(s)} /\ Seqs!ToSet(s) \subseteq S
           /\ Len(s) \in Nat
BY LenProperties DEF Seqs!ToSet

\* A step that opens no peer.
LEMMA ServersLeft ==
    ASSUME BootTypes, Servers, held' = held, collisions' = collisions,
           starting' \cap api' = {}, starting' \cup api' \subseteq starting \cup api,
           \/ boot' = boot
           \/ boot.pc \in Making /\ boot'.pc \in Making
           \/ boot.pc \in Making /\ boot'.pc = "open" /\ boot'.pair = FirstPair
           \/ /\ boot.pc \in Adding \cup {"return"} /\ boot'.pc \in Adding \cup {"return", "done"}
              /\ boot'.pc \in Adding => boot'.i < Len(held)
    PROVE  Servers'
<1>1. held' \in Seq(PairedPeers) /\ collisions' \in Nat /\ (starting \cup api)' \subseteq InDict'
  BY DEF Servers, InDict
<1>2. boot'.pc \in Making => held' = <<>>
  BY DEF Servers, Making, Adding
<1>3. boot'.pc = "open" =>
         /\ \A p \in InDict' : Before(p, boot'.pair)
         /\ collisions' = 0 => \A p \in PairedPeers : Before(p, boot'.pair) => p \in InDict'
  <2>1. CASE boot' = boot
    BY <2>1 DEF Servers, InDict
  <2>2. CASE boot.pc \in Making /\ boot'.pc = "open" /\ boot'.pair = FirstPair
    <3>1. held = <<>>
      BY <2>2 DEF Servers
    <3>2. InDict' = {}
      BY <3>1 DEF InDict, Seqs!ToSet
    <3> QED BY <2>2, <3>2, Ends
  <2>3. CASE boot'.pc \in Making \cup Adding \cup {"return", "done"}
    BY <2>3 DEF Making, Adding
  <2> QED BY <2>1, <2>2, <2>3
<1>4. boot'.pc \in Adding => boot'.i < Len(held')
  BY DEF Servers, Making, Adding
<1>5. boot'.pc \notin Making \cup {"open", "failed"} /\ collisions' = 0 => InDict' = PairedPeers
  BY DEF Servers, InDict, Making, Adding
<1> QED BY <1>1, <1>2, <1>3, <1>4, <1>5 DEF Servers, Before

\* The peer gets a port of its own.
LEMMA ServersGrow ==
    ASSUME BootTypes, Servers, OpenPeer
    PROVE  Servers'
<1> PICK q \in PairedPeers : q = boot.pair
  BY DEF OpenPeer, BootTypes
<1>0. boot \in Program /\ boot.pc = "open" /\ boot.i = 0
  BY DEF BootTypes, Program, OpenPeer
<1>1. /\ held' = Append(held, q) /\ starting' = starting \cup {q} /\ boot' = AfterOpening
      /\ collisions' = collisions /\ api' = api
  BY DEF OpenPeer, vars
<1>2. held \in Seq(PairedPeers) /\ starting \cup api \subseteq InDict /\ starting \cap api = {}
  BY DEF Servers
<1>3. /\ held' \in Seq(PairedPeers) /\ Len(held') = Len(held) + 1
      /\ InDict' = InDict \cup {q}
  <2>1. held' \in Seq(PairedPeers) /\ Len(held') = Len(held) + 1 /\ Len(held) \in Nat
    BY <1>1, <1>2
  <2>2. /\ \A k \in 1..Len(held) : held'[k] = held[k]
        /\ held'[Len(held) + 1] = q
    BY <1>1, <1>2
  <2>3. 1..Len(held') = 1..Len(held) \cup {Len(held) + 1}
    BY <2>1
  <2>4. /\ InDict = {held[k] : k \in 1..Len(held)}
        /\ InDict' = {held'[k] : k \in 1..Len(held')}
    BY <1>2, <2>1, DictOf DEF InDict
  <2> HIDE DEF InDict
  <2> QED BY <2>1, <2>2, <2>3, <2>4
<1>4. /\ \A p \in InDict : Before(p, q)
      /\ collisions = 0 => \A p \in PairedPeers : Before(p, q) => p \in InDict
  BY <1>0 DEF Servers
<1>5. q \notin InDict /\ InDict \subseteq PairedPeers
  BY <1>2, <1>4, Ends, DictOf DEF InDict
<1>6. starting' \cap api' = {} /\ (starting \cup api)' \subseteq InDict'
  BY <1>1, <1>2, <1>3, <1>5
<1>7. CASE q # LastPair
  <2>1. boot' = [boot EXCEPT !.pair = NextPair(q)]
    BY <1>1, <1>7 DEF AfterOpening
  <2>2. boot'.pc = "open" /\ boot'.pair = NextPair(q)
    BY <1>0, <2>1 DEF Program
  <2>3. \A p \in InDict' : Before(p, boot'.pair)
    BY <1>3, <1>4, <1>5, <1>7, <2>2, PairSteps
  <2>4. collisions' = 0 => \A p \in PairedPeers : Before(p, boot'.pair) => p \in InDict'
    BY <1>1, <1>3, <1>4, <1>7, <2>2, PairSteps
  <2> QED BY <1>1, <1>3, <1>6, <2>2, <2>3, <2>4 DEF Servers, Making, Adding, Before
<1>8. CASE q = LastPair
  <2>1. boot' = [boot EXCEPT !.pc = "addA"]
    BY <1>1, <1>8 DEF AfterOpening
  <2>2. boot'.pc = "addA" /\ boot'.i = 0
    BY <1>0, <2>1 DEF Program
  <2>3. collisions' = 0 => InDict' = PairedPeers
    BY <1>1, <1>3, <1>4, <1>5, <1>8, Ends
  <2>4. boot'.i < Len(held')
    BY <1>2, <1>3, <2>2, LenProperties
  <2> QED BY <1>1, <1>3, <1>6, <2>2, <2>3, <2>4 DEF Servers, Making, Adding
<1> QED BY <1>7, <1>8

\* The peer gets the port of one that is starting, which ends.
LEMMA ServersReplace ==
    ASSUME BootTypes, Servers, OpenOnSamePort
    PROVE  Servers'
<1> PICK q \in PairedPeers : q = boot.pair
  BY DEF OpenOnSamePort, BootTypes
<1>0. boot \in Program /\ boot.pc = "open" /\ boot.i = 0
  BY DEF BootTypes, Program, OpenOnSamePort
<1>1. PICK k \in DOMAIN held :
         /\ held[k] \in starting /\ held' = [held EXCEPT ![k] = q]
         /\ starting' = (starting \ {held[k]}) \cup {q}
  BY DEF OpenOnSamePort, StillStarting
<1>2. collisions' = collisions + 1 /\ boot' = AfterOpening /\ api' = api
  BY DEF OpenOnSamePort, vars
<1>3. held \in Seq(PairedPeers) /\ starting \cup api \subseteq InDict /\ starting \cap api = {}
  BY DEF Servers
<1>4. k \in 1..Len(held) /\ Len(held) \in Nat
  BY <1>1, <1>3, LenProperties
<1>5. /\ held' \in Seq(PairedPeers) /\ Len(held') = Len(held)
      /\ \A j \in 1..Len(held) : held'[j] = IF j = k THEN q ELSE held[j]
  BY <1>1, <1>3, <1>4, ExceptSeq
<1>6. /\ InDict = {held[j] : j \in 1..Len(held)}
      /\ InDict' = {held'[j] : j \in 1..Len(held)}
  BY <1>3, <1>5, DictOf DEF InDict
<1>7. \A p \in InDict : Before(p, q)
  BY <1>0 DEF Servers
<1>8. q \notin InDict /\ InDict \subseteq PairedPeers
  BY <1>3, <1>7, Ends, DictOf DEF InDict
<1> HIDE DEF InDict
<1>9. /\ InDict' \subseteq InDict \cup {q} /\ q \in InDict'
      /\ InDict \ {held[k]} \subseteq InDict'
  BY <1>4, <1>5, <1>6
<1>10. starting' \cap api' = {} /\ (starting \cup api)' \subseteq InDict'
  BY <1>1, <1>2, <1>3, <1>8, <1>9
<1>11. collisions' \in Nat /\ collisions' # 0
  BY <1>2 DEF Servers
<1>12. CASE q # LastPair
  <2>1. boot' = [boot EXCEPT !.pair = NextPair(q)]
    BY <1>2, <1>12 DEF AfterOpening
  <2>2. boot'.pc = "open" /\ boot'.pair = NextPair(q)
    BY <1>0, <2>1 DEF Program
  <2>3. \A p \in InDict' : Before(p, boot'.pair)
    BY <1>7, <1>8, <1>9, <1>12, <2>2, PairSteps
  <2> QED BY <1>5, <1>10, <1>11, <2>2, <2>3 DEF Servers, Making, Adding, Before
<1>13. CASE q = LastPair
  <2>1. boot' = [boot EXCEPT !.pc = "addA"]
    BY <1>2, <1>13 DEF AfterOpening
  <2>2. boot'.pc = "addA" /\ boot'.i = 0
    BY <1>0, <2>1 DEF Program
  <2> QED BY <1>4, <1>5, <1>10, <1>11, <2>2 DEF Servers, Making, Adding
<1> QED BY <1>12, <1>13

LEMMA LiveSteps ==
    ASSUME Next, leaves \in Nat
    PROVE  api' \subseteq api /\ (leaves' = leaves \/ leaves' = leaves + 1)
<1>1. CASE \E c \in Committees : Adopt(c)
  BY <1>1 DEF Adopt
<1>2. CASE \E p \in Leavers : CheckNeighbors(p)
  BY <1>2 DEF CheckNeighbors
<1>3. CASE \E p \in Leavers : Delete(p)
  BY <1>3 DEF Delete
<1>4. CASE \E p \in Leavers : Step(p)
  <2> PICK p \in Leavers : Step(p)
    BY <1>4
  <2>1. CASE AskA(p) \/ AskB(p)
    BY <2>1 DEF AskA, AskB, AskToLeave
  <2>2. CASE AnswerA(p) \/ AnswerB(p) \/ AnswerRaises(p) \/ Rejoin(p) \/ LeaveReturns(p)
    BY <2>2 DEF AnswerA, AnswerB, AnswerRaises, Rejoin, LeaveReturns
  <2>3. CASE Terminate(p) \/ PostRemove(p) \/ CutA(p) \/ CutB(p) \/ NotifyRefused(p)
    BY <2>3 DEF Terminate, PostRemove, CutA, CutB, NotifyRefused
  <2>4. CASE AgainA(p) \/ AgainB(p)
    BY <2>4 DEF AgainA, AgainB, SubmitAgain
  <2> QED BY <2>1, <2>2, <2>3, <2>4 DEF Step
<1> QED BY <1>1, <1>2, <1>3, <1>4 DEF Next

\* In a network nobody has left, all there is to do is to call leave.
LEMMA LeaveComesFirst ==
    ASSUME Next, leaves \in Nat, Network
    PROVE  leaves' = leaves + 1
<1>0. \A p \in Leavers : leave[p].pc = "idle" /\ leave[p].ret = "none"
  BY PeersAssumption DEF Network, Idle
<1>1. ~ \E c \in Committees : Adopt(c)
  BY DEF Adopt, Network
<1>2. CASE \E p \in Leavers : CheckNeighbors(p)
  BY <1>2 DEF CheckNeighbors
<1>3. ~ \E p \in Leavers : Delete(p)
  BY <1>0 DEF Delete
<1>4. ASSUME NEW p \in Leavers PROVE ~Step(p)
  <2>1. leave[p].pc = "idle"
    BY <1>0
  <2>2. ~(AskA(p) \/ AskB(p) \/ AnswerA(p) \/ AnswerB(p))
    BY <2>1 DEF AskA, AskB, AskToLeave, AnswerA, AnswerB
  <2>3. ~(AnswerRaises(p) \/ Rejoin(p) \/ LeaveReturns(p))
    BY <2>1 DEF AnswerRaises, Rejoin, LeaveReturns
  <2>4. ~(Terminate(p) \/ PostRemove(p) \/ CutA(p) \/ CutB(p) \/ NotifyRefused(p))
    BY <2>1 DEF Terminate, PostRemove, CutA, CutB, NotifyRefused
  <2>5. ~(AgainA(p) \/ AgainB(p))
    BY <2>1 DEF AgainA, AgainB, SubmitAgain
  <2> QED BY <2>2, <2>3, <2>4, <2>5 DEF Step
<1> QED BY <1>1, <1>2, <1>3, <1>4 DEF Next

LEMMA ServersKept ==
    ASSUME BootTypes, BootTypes', Servers, leaves \in Nat, [HNext]_hvars
    PROVE  Servers'
<1>0. boot \in Program
  BY DEF BootTypes, Program
<1>a. starting \cap api = {}
  BY DEF Servers
<1>1. CASE CreateMember \/ FirstMakesGenesis \/ JoinMember
  <2>1. /\ boot.pc \in Making /\ UNCHANGED ports /\ api' = api
        /\ boot.i \in Slots
    BY <1>1 DEF CreateMember, FirstMakesGenesis, JoinMember, vars, Making, BootTypes
  <2>2. boot' = Walk("genesis") \/ boot' = [boot EXCEPT !.pc = "join"] \/ boot' = Walk("await")
    BY <1>1 DEF CreateMember, FirstMakesGenesis, JoinMember
  <2>3. boot'.pc \in Making
    BY <1>0, <2>1, <2>2, WalkShape DEF At, Making, Program
  <2> QED BY <1>a, <2>1, <2>3, ServersLeft DEF ports
<1>2. CASE AwaitGenesis
  <2>1. /\ boot.pc = "await" /\ boot' = AfterRead(block[Member]) /\ UNCHANGED ports /\ api' = api
        /\ boot.i \in Slots /\ boot.pair = FirstPair
    BY <1>2 DEF AwaitGenesis, vars, Making, BootTypes
  <2>2. boot'.pc \in {"await", "create", "open"} /\ boot'.pair = FirstPair
    BY <1>0, <2>1, ReadShape DEF At
  <2> QED BY <1>a, <2>1, <2>2, ServersLeft DEF ports, Making
<1>3. CASE Add
  <2>1. boot.pc \in Adding /\ boot' = AfterAdd /\ UNCHANGED ports /\ api' = api
    BY <1>3 DEF Add, Adding
  <2>2. /\ boot'.pc \in Adding \cup {"return"}
        /\ boot'.pc \in Adding => boot'.i < Len(held)
    BY <1>0, <2>1, AddShape DEF At, Adding, Servers
  <2> QED BY <1>a, <2>1, <2>2, ServersLeft DEF ports
<1>4. CASE AddRefused
  <2>1. /\ held' = <<>> /\ starting' = {} /\ api' = {} /\ collisions' = collisions
        /\ boot' = [boot EXCEPT !.pc = "failed"]
    BY <1>4 DEF AddRefused
  <2>2. boot'.pc = "failed" /\ held' \in Seq(PairedPeers) /\ collisions' \in Nat
    BY <1>0, <2>1 DEF Program, Servers
  <2> QED BY <2>1, <2>2 DEF Servers, Making, Adding
<1>5. CASE Return
  <2>1. /\ boot.pc = "return" /\ boot' = [boot EXCEPT !.pc = "done"]
        /\ UNCHANGED ports /\ api' = api
    BY <1>5 DEF Return
  <2>2. boot'.pc = "done"
    BY <1>0, <2>1 DEF Program
  <2> QED BY <1>a, <2>1, <2>2, ServersLeft DEF ports, Adding
<1>6. CASE \E c \in Containers : Validate(c)
  BY <1>6, <1>a, ServersLeft DEF Validate, ports, vars
<1>7. CASE \E p \in Peers : Bind(p) \/ BindFails(p)
  <2>1. /\ boot' = boot /\ held' = held /\ collisions' = collisions
        /\ \/ api' = api /\ \E p \in starting : starting' = starting \ {p}
           \/ \E p \in starting : starting' = starting \ {p} /\ api' = api \cup {p}
    BY <1>7 DEF Bind, BindFails, vars
  <2>2. starting' \cap api' = {} /\ (starting' \cup api') \subseteq starting \cup api
    BY <2>1, <1>a
  <2> QED BY <2>1, <2>2, ServersLeft
<1>8. CASE Live(Next)
  <2>1. boot' = boot /\ UNCHANGED ports /\ api' \subseteq api
    BY <1>8, LiveSteps DEF Live
  <2> QED BY <1>a, <2>1, ServersLeft DEF ports
<1>9. CASE UNCHANGED hvars
  BY <1>9, <1>a, ServersLeft DEF hvars, vars
<1> QED
  BY <1>1, <1>2, <1>3, <1>4, <1>5, <1>6, <1>7, <1>8, <1>9,
     ServersGrow, ServersReplace DEF HNext, Boot
-----------------------------------------------------------------------------
(* What is handed over *)

WithList(t, q, c, L) == [t EXCEPT ![q][c] = L]

OnlyList(t, q, c, L, u) ==
    /\ u[q][c] = L
    /\ \A p \in Peers : \A d \in {IdA[p], IdB[p]} : p # q \/ d # c => u[p][d] = t[p][d]

LEMMA OneListChanges ==
    ASSUME NEW q \in Peers, NEW c \in {IdA[q], IdB[q]}, NEW t, NEW L, NEW u,
           Shaped(t), Fitting(t), L \subseteq InCommittee(c) \ {q}, u = WithList(t, q, c, L)
    PROVE  Shaped(u) /\ Fitting(u) /\ OnlyList(t, q, c, L, u)
<1>1. DOMAIN t = Peers /\ DOMAIN t[q] = {IdA[q], IdB[q]}
  <2>1. PICK w : w = [p \in Peers |-> [d \in {IdA[p], IdB[p]} |-> t[p][d]]]
    OBVIOUS
  <2>2. w[q] = [d \in {IdA[q], IdB[q]} |-> t[q][d]] /\ DOMAIN w = Peers
    BY <2>1
  <2> QED BY <2>1, <2>2 DEF Shaped
<1>2. u = [t EXCEPT ![q] = [t[q] EXCEPT ![c] = L]]
  BY DEF WithList
<1>3. u[q] = [t[q] EXCEPT ![c] = L] /\ \A p \in Peers \ {q} : u[p] = t[p]
  BY <1>1, <1>2
<1>4. u[q][c] = L /\ \A d \in {IdA[q], IdB[q]} : d # c => u[q][d] = t[q][d]
  BY <1>1, <1>3
<1>5. \A p \in Peers : u[p] = [d \in {IdA[p], IdB[p]} |-> u[p][d]]
  <2>1. \A p \in Peers : t[p] = [d \in {IdA[p], IdB[p]} |-> t[p][d]]
    <3>1. PICK w : w = [p \in Peers |-> [d \in {IdA[p], IdB[p]} |-> t[p][d]]]
      OBVIOUS
    <3>2. \A p \in Peers : w[p] = [d \in {IdA[p], IdB[p]} |-> t[p][d]]
      BY <3>1
    <3> QED BY <3>1, <3>2 DEF Shaped
  <2>2. u[q] = [d \in {IdA[q], IdB[q]} |-> u[q][d]]
    BY <1>1, <1>3
  <2>3. \A p \in Peers \ {q} : u[p] = [d \in {IdA[p], IdB[p]} |-> u[p][d]]
    BY <1>3, <2>1
  <2> QED BY <2>2, <2>3
<1>6. u = [p \in Peers |-> u[p]]
  BY <1>1, <1>2
<1>7. Shaped(u)
  BY <1>5, <1>6, Zenon DEF Shaped
<1>8. OnlyList(t, q, c, L, u)
  BY <1>3, <1>4 DEF OnlyList
<1>9. Fitting(u)
  <2>1. \A p \in Peers \ {q} : \A d \in {IdA[p], IdB[p]} : u[p][d] \subseteq InCommittee(d) \ {p}
    BY <1>3 DEF Fitting
  <2>2. \A d \in {IdA[q], IdB[q]} : u[q][d] \subseteq InCommittee(d) \ {q}
    BY <1>4 DEF Fitting
  <2> QED BY <2>1, <2>2 DEF Fitting
<1> QED BY <1>7, <1>8, <1>9

\* A step that leaves peers, tables and rosters alone.
LEMMA NetworkLeft ==
    ASSUME BootTypes, BootTypes', Servers, Network, \A c \in CommitteeIds : Made(c)' <=> Made(c),
           leave' = leave, floating' = floating, roster' = roster, past' = past, table' = table,
           \/ boot'.pc \in Making \cup {"failed"}
           \/ boot.pc \in Making \cup {"open"} /\ boot'.pc = "open"
           \/ boot.pc = "open" /\ boot'.pc = "addA" /\ boot'.i = 0
           \/ boot' = boot /\ held' = held /\ api \subseteq api' /\ running' = running
           \/ /\ boot.pc = "return" /\ boot'.pc = "done" /\ held' = held /\ api \subseteq api'
              /\ running' = InDict
    PROVE  Network'
<1>1. roster' = [c \in Committees |-> IF Made(c)' THEN InCommittee(c) ELSE {}]
  BY HostAssumption DEF Network
<1>2. past' = [c \in Committees |-> IF Made(c)' THEN {InCommittee(c)} ELSE {}]
  BY HostAssumption DEF Network
<1>3. /\ leave' = [p \in Peers |-> Idle("none")] /\ floating' = [c \in Committees |-> {}]
      /\ Shaped(table') /\ Fitting(table')
  BY DEF Network
<1>4. ASSUME held' = held, api \subseteq api' PROVE AllTold => AllTold'
  BY <1>4 DEF AllTold, Told, Listed
<1>5. (boot.pc \in Adding => ToldSoFar)'
  <2>1. CASE boot'.i = 0
    BY <2>1 DEF ToldSoFar
  <2>2. CASE boot'.pc \in Making \cup {"failed", "open", "done"}
    BY <2>2 DEF Making, Adding
  <2>3. CASE boot' = boot /\ held' = held /\ api \subseteq api'
    <3>1. ToldSoFar => ToldSoFar'
      BY <2>3 DEF ToldSoFar, Told, Listed
    <3> QED BY <2>3, <3>1 DEF Network
  <2> QED BY <2>1, <2>2, <2>3
<1>6. (boot.pc = "addB" => HalfTold)'
  <2>1. CASE boot'.pc # "addB"
    BY <2>1
  <2>2. CASE boot' = boot /\ held' = held /\ api \subseteq api'
    <3>1. HalfTold => HalfTold'
      BY <2>2 DEF HalfTold, Poster, Listed
    <3> QED BY <2>2, <3>1 DEF Network
  <2> QED BY <2>1, <2>2 DEF Making
<1>7. (boot.pc \in {"return", "done"} => AllTold)'
  <2>1. CASE boot'.pc \in Making \cup {"failed", "open", "addA"}
    BY <2>1 DEF Making
  <2>2. CASE /\ held' = held /\ api \subseteq api'
             /\ boot' = boot \/ boot.pc = "return"
    BY <2>2, <1>4 DEF Network
  <2> QED BY <2>1, <2>2
<1>8. (boot.pc = "done" => running = InDict)'
  BY DEF Network, Making, InDict
<1> QED BY <1>1, <1>2, <1>3, <1>5, <1>6, <1>7, <1>8 DEF Network, InCommittee, Idle, Shaped, Fitting

LEMMA GenesisNetwork ==
    ASSUME BootTypes, BootTypes', Network, FirstMakesGenesis
    PROVE  Network'
<1> PICK b \in CommitteeIds : b = boot.c
  BY DEF BootTypes
<1>1. /\ boot.pc = "genesis" /\ boot' = [boot EXCEPT !.pc = "join"]
      /\ roster' = [roster EXCEPT ![b] = InCommittee(b)]
      /\ past' = [past EXCEPT ![b] = {InCommittee(b)}]
      /\ leave' = leave /\ floating' = floating /\ table' = table
  BY DEF FirstMakesGenesis
<1>2. boot'.c = b /\ boot'.pc = "join"
  BY <1>1 DEF BootTypes
<1>3. \A c \in CommitteeIds : Made(c)' <=> Made(c) \/ c = b
  BY <1>1, <1>2, HostSizes DEF Made, CommitteeIds
<1>4. \A c \in CommitteeIds : InCommittee(c)' = InCommittee(c)
  BY DEF InCommittee
<1>5. roster' = [c \in Committees |-> IF Made(c)' THEN InCommittee(c) ELSE {}]
  BY <1>1, <1>3, HostAssumption DEF Network
<1>6. past' = [c \in Committees |-> IF Made(c)' THEN {InCommittee(c)} ELSE {}]
  BY <1>1, <1>3, HostAssumption DEF Network
<1>7. /\ leave' = [p \in Peers |-> Idle("none")] /\ floating' = [c \in Committees |-> {}]
      /\ Shaped(table) /\ Fitting(table)
  BY <1>1 DEF Network
<1>8. Shaped(table') /\ Fitting(table')
  BY <1>1, <1>7
<1> QED BY <1>2, <1>5, <1>6, <1>7, <1>8 DEF Network, InCommittee, Idle, Shaped, Fitting, Adding

\* A post that is answered.
LEMMA AddNetwork ==
    ASSUME BootTypes, BootTypes', Servers, Network, Add
    PROVE  Network'
<1>0. boot \in Program /\ boot.pc \in Adding /\ boot.i \in Nat
  BY DEF BootTypes, Program, Add, Adding
<1> PICK i \in Nat : i = boot.i
  BY <1>0
<1>1. held \in Seq(PairedPeers) /\ i < Len(held) /\ Len(held) \in Nat
  BY <1>0, LenProperties DEF Servers
<1> PICK q \in Peers : q = Poster /\ q = held[i + 1]
  BY <1>1, ElementOfSeq, HostAssumption DEF Poster
<1> PICK c : c = IF boot.pc = "addA" THEN IdA[q] ELSE IdB[q]
  OBVIOUS
<1>2. /\ q \in api /\ table' = [table EXCEPT ![q][c] = Listed(q, c)] /\ boot' = AfterAdd
      /\ held' = held /\ api' = api
  BY DEF Add, ports
<1>3. leave' = leave /\ floating' = floating /\ roster' = roster /\ past' = past
  BY DEF Add, ledger
<1>4. c \in {IdA[q], IdB[q]} /\ Shaped(table) /\ Fitting(table)
  BY DEF Network
<1>5. /\ Shaped(table') /\ Fitting(table') /\ table'[q][c] = Listed(q, c)
      /\ \A p \in Peers : \A d \in {IdA[p], IdB[p]} : p # q \/ d # c => table'[p][d] = table[p][d]
  <2> PICK t, L, u : t = table /\ L = Listed(q, c) /\ u = table'
    OBVIOUS
  <2>1. u = WithList(t, q, c, L) /\ Shaped(t) /\ Fitting(t) /\ L \subseteq InCommittee(c) \ {q}
    BY <1>2, <1>4 DEF WithList, Listed
  <2>2. Shaped(u) /\ Fitting(u) /\ OnlyList(t, q, c, L, u)
    BY <1>4, <2>1, OneListChanges
  <2> QED BY <2>2 DEF OnlyList
<1>6. \A p, d : Listed(p, d)' = Listed(p, d)
  BY <1>2 DEF Listed
<1>7. \A p \in Peers : Told(p) => Told(p)'
  BY <1>2, <1>5, <1>6 DEF Told
<1>8. boot'.c = boot.c /\ boot'.pc \in Adding \cup {"return"}
  BY <1>0, <1>2, AddShape DEF At, Adding
<1>9. \A d \in CommitteeIds : Made(d)' <=> Made(d)
  BY <1>0, <1>8 DEF Made, Adding
<1>10. /\ roster' = [d \in Committees |-> IF Made(d)' THEN InCommittee(d) ELSE {}]
       /\ past' = [d \in Committees |-> IF Made(d)' THEN {InCommittee(d)} ELSE {}]
  BY <1>3, <1>9, HostAssumption DEF Network
<1> PICK h \in Seq(PairedPeers) : h = held
  BY <1>1
<1>11. \A k \in 1..Len(h) : h[k] \in Peers
  BY ElementOfSeq, HostAssumption
<1>12. \A k \in 1..i : Told(h[k])'
  <2>1. \A k \in 1..i : Told(h[k]) /\ h[k] \in Peers
    BY <1>0, <1>1, <1>11 DEF Network, ToldSoFar
  <2> QED BY <2>1, <1>7
<1>13. CASE boot.pc = "addA"
  <2>1. boot'.pc = "addB" /\ boot'.i = i
    BY <1>0, <1>2, <1>13, AddShape DEF At
  <2>2. ToldSoFar'
    BY <1>2, <1>12, <2>1 DEF ToldSoFar, Told, Listed
  <2>3. HalfTold'
    BY <1>2, <1>5, <1>13, <2>1 DEF HalfTold, Poster, Listed
  <2> QED BY <1>3, <1>5, <1>10, <2>1, <2>2, <2>3 DEF Network, InCommittee, Idle, Shaped, Fitting
<1>14. CASE boot.pc = "addB"
  <2>1. Told(q)'
    <3>1. table'[q][IdB[q]] = Listed(q, IdB[q])
      BY <1>5, <1>14
    <3>2. table[q][IdA[q]] = Listed(q, IdA[q])
      BY <1>14 DEF Network, HalfTold
    <3>3. table'[q][IdA[q]] = Listed(q, IdA[q])
      BY <1>5, <1>14, <3>2
    <3> QED BY <1>2, <1>6, <3>1, <3>3 DEF Told
  <2>2. \A k \in 1..(i + 1) : Told(h[k])'
    <3>1. \A k \in 1..(i + 1) : k \in 1..i \/ k = i + 1
      OBVIOUS
    <3> QED BY <1>12, <2>1, <3>1
  <2>3. \/ boot'.pc = "addA" /\ boot'.i = i + 1
        \/ boot'.pc = "return" /\ Len(h) = i + 1
    BY <1>0, <1>1, <1>2, <1>14, AddShape DEF At
  <2>4. CASE boot'.pc = "addA" /\ boot'.i = i + 1
    <3>1. ToldSoFar'
      BY <1>2, <2>2, <2>4 DEF ToldSoFar, Told, Listed
    <3> QED BY <1>3, <1>5, <1>10, <2>4, <3>1 DEF Network, InCommittee, Idle, Shaped, Fitting
  <2>5. CASE boot'.pc = "return" /\ Len(h) = i + 1
    <3>1. AllTold'
      BY <1>2, <2>2, <2>5 DEF AllTold, Told, Listed
    <3> QED BY <1>3, <1>5, <1>10, <2>5, <3>1 DEF Network, InCommittee, Idle, Shaped, Fitting, Adding
  <2> QED BY <2>3, <2>4, <2>5
<1> QED BY <1>0, <1>13, <1>14 DEF Adding

LEMMA NetworkKept ==
    ASSUME BootTypes, BootTypes', Servers, Network, leaves = 0, leaves' = 0, [HNext]_hvars
    PROVE  Network'
<1>0. boot \in Program
  BY DEF BootTypes, Program
<1>1. CASE CreateMember
  <2>1. /\ boot.pc = "create" /\ boot' = Walk("genesis") /\ boot.i \in Slots
        /\ UNCHANGED vars
    BY <1>1 DEF CreateMember, BootTypes, Making
  <2>2. boot'.c = boot.c /\ boot'.pc \in {"create", "genesis"}
    BY <1>0, <2>1, WalkShape DEF At
  <2>3. SameStage
    BY <2>1, <2>2, StageKept
  <2> QED BY <2>1, <2>2, <2>3, NetworkLeft DEF vars, SameStage, Making
<1>2. CASE JoinMember
  <2>1. /\ boot.pc = "join" /\ boot' = Walk("await") /\ boot.i \in Slots
        /\ UNCHANGED vars
    BY <1>2 DEF JoinMember, BootTypes, Making
  <2>2. boot'.c = boot.c /\ boot'.pc \in {"join", "await"}
    BY <1>0, <2>1, WalkShape DEF At
  <2>3. SameStage
    BY <2>1, <2>2, StageKept
  <2> QED BY <2>1, <2>2, <2>3, NetworkLeft DEF vars, SameStage, Making
<1>3. CASE AwaitGenesis
  <2>1. /\ boot.pc = "await" /\ boot.i \in Slots /\ boot' = AfterRead(block[Member])
        /\ UNCHANGED vars
    BY <1>3 DEF AwaitGenesis, BootTypes, Making
  <2>2. \/ boot'.pc \in {"await", "open"} /\ boot'.c = boot.c
        \/ boot'.pc = "create" /\ boot'.c = boot.c + 1
    BY <1>0, <2>1, ReadShape DEF At
  <2>3. \A c \in CommitteeIds : Made(c)' <=> Made(c)
    BY <1>0, <2>1, <2>2, HostSizes DEF Made, Program, CommitteeIds
  <2> QED BY <2>1, <2>2, <2>3, NetworkLeft DEF vars, Making
<1>4. CASE OpenPeer \/ OpenOnSamePort
  <2>1. boot.pc = "open" /\ boot.i = 0 /\ boot' = AfterOpening /\ UNCHANGED vars
    BY <1>4 DEF OpenPeer, OpenOnSamePort, BootTypes
  <2>2. boot'.c = boot.c /\ boot'.pc \in {"open", "addA"} /\ boot'.i = 0
    <3>1. \/ boot' = [boot EXCEPT !.pair = NextPair(boot.pair)]
          \/ boot' = [boot EXCEPT !.pc = "addA"]
      BY <2>1 DEF AfterOpening
    <3> QED BY <1>0, <2>1, <3>1 DEF Program
  <2>3. SameStage
    BY <2>1, <2>2, StageKept DEF Making
  <2> QED BY <2>1, <2>2, <2>3, NetworkLeft DEF vars, SameStage
<1>5. CASE AddRefused
  <2>1. /\ boot.pc \in Adding /\ boot' = [boot EXCEPT !.pc = "failed"]
        /\ UNCHANGED <<ledger, table, leave>>
    BY <1>5 DEF AddRefused, Adding
  <2>2. boot'.c = boot.c /\ boot'.pc = "failed"
    BY <1>0, <2>1 DEF Program
  <2>3. SameStage
    BY <2>1, <2>2, StageKept DEF Making, Adding
  <2> QED BY <2>1, <2>2, <2>3, NetworkLeft DEF ledger, SameStage
<1>6. CASE Return
  <2>1. /\ boot.pc = "return" /\ boot' = [boot EXCEPT !.pc = "done"] /\ running' = InDict
        /\ UNCHANGED <<ledger, table, leave, api, ports>>
    BY <1>6 DEF Return, InDict
  <2>2. boot'.c = boot.c /\ boot'.pc = "done"
    BY <1>0, <2>1 DEF Program
  <2>3. SameStage
    BY <2>1, <2>2, StageKept DEF Making
  <2> QED BY <2>1, <2>2, <2>3, NetworkLeft DEF ledger, ports, SameStage
<1>7. CASE (\E c \in Containers : Validate(c)) \/ (\E p \in Peers : Bind(p) \/ BindFails(p)) \/ UNCHANGED hvars
  <2>1. /\ boot' = boot /\ held' = held /\ api \subseteq api' /\ running' = running
        /\ UNCHANGED <<ledger, table, leave>>
    BY <1>7 DEF Validate, Bind, BindFails, hvars, vars, ledger, ports
  <2>2. SameStage
    BY <2>1, StageKept
  <2> QED BY <2>1, <2>2, NetworkLeft DEF ledger, SameStage
<1>8. CASE Live(Next)
  <2>1. leaves' = leaves + 1
    BY <1>8, LeaveComesFirst DEF Live
  <2> QED BY <2>1
<1> QED
  BY <1>1, <1>2, <1>3, <1>4, <1>5, <1>6, <1>7, <1>8, GenesisNetwork, AddNetwork DEF HNext, Boot

\* Nobody leaves before the network is handed over.
LEMMA CalmKept ==
    ASSUME Network, Calm, leaves = 0, leaves' = 0, [HNext]_hvars
    PROVE  Calm'
<1>1. ~Live(Next)
  BY LeaveComesFirst DEF Live
<1>2. CASE Boot
  BY <1>2 DEF Boot, CreateMember, FirstMakesGenesis, JoinMember, AwaitGenesis, OpenPeer,
              OpenOnSamePort, Add, AddRefused, Return, vars, races, Calm
<1>3. CASE \/ \E p \in Peers : Bind(p) \/ BindFails(p)
           \/ \E c \in Containers : Validate(c)
           \/ UNCHANGED hvars
  BY <1>3 DEF Bind, BindFails, Validate, hvars, vars, races, Calm
<1> QED BY <1>1, <1>2, <1>3 DEF HNext

LEMMA LeavesKept ==
    ASSUME leaves \in Nat, leaves > 0 => boot.pc = "done", [HNext]_hvars
    PROVE  /\ leaves' \in Nat /\ (leaves' > 0 => boot'.pc = "done")
           /\ leaves' = 0 => leaves = 0
<1>1. CASE Live(Next)
  <2>1. boot' = boot /\ boot.pc = "done"
    BY <1>1 DEF Live
  <2>2. leaves' = leaves \/ leaves' = leaves + 1
    BY <1>1, LiveSteps DEF Live
  <2> QED BY <2>1, <2>2
<1>2. CASE Boot
  <2>1. leaves' = leaves /\ boot.pc # "done"
    BY <1>2 DEF Boot, CreateMember, FirstMakesGenesis, JoinMember, AwaitGenesis, OpenPeer,
                OpenOnSamePort, Add, AddRefused, Return, vars
  <2> QED BY <2>1
<1>3. CASE (\E c \in Containers : Validate(c)) \/ (\E p \in Peers : Bind(p) \/ BindFails(p)) \/ UNCHANGED hvars
  <2>1. leaves' = leaves /\ boot' = boot
    BY <1>3 DEF Validate, Bind, BindFails, hvars, vars
  <2> QED BY <2>1
<1> QED BY <1>1, <1>2, <1>3 DEF HNext
-----------------------------------------------------------------------------
(* The theorems *)

LEMMA InitHostInv == HInit => HostInv
<1> SUFFICES ASSUME HInit PROVE HostInv
  OBVIOUS
<1> USE HostSizes, Ends
<1>1. boot = At("create", 0, 0, FirstPair) /\ held = <<>> /\ starting = {} /\ api = {}
      /\ collisions = 0 /\ leaves = 0
  BY DEF HInit, At
<1>2. boot.pc = "create" /\ boot.c = 0 /\ boot.i = 0 /\ boot.pair = FirstPair
  BY <1>1 DEF At
<1>3. BootTypes
  BY <1>1, <1>2, PairFields DEF BootTypes, At, Making
<1>4. \A c \in CommitteeIds : ~Made(c) /\ ~Polled(c)
  BY <1>2 DEF Made, Polled, Making, CommitteeIds
<1>5. /\ services = {} /\ adminKey = None /\ block = [m \in Containers |-> None]
      /\ genesis = [m \in Containers |-> NoGenesis] /\ linked = [m \in Containers |-> {}]
      /\ keyFile = [m \in Containers |-> None]
  BY DEF HInit, LInit, LStart
<1>6. Chains
  <2>1. LifeTypes
    BY <1>5 DEF LifeTypes
  <2>2. \A m \in Containers : OneBlock(m)
    BY <1>5 DEF OneBlock
  <2>3. \A c \in CommitteeIds : HasGenesis(c)
    BY <1>4 DEF HasGenesis
  <2> QED BY <1>2, <1>4, <2>1, <2>2, <2>3 DEF Chains
<1>7. Servers
  BY <1>1, <1>2 DEF Servers, Making, Adding
<1>8. Network
  <2>1. /\ roster = [c \in Committees |-> IF Made(c) THEN InCommittee(c) ELSE {}]
        /\ past = [c \in Committees |-> {}]
        /\ leave = [p \in Peers |-> Idle("none")] /\ floating = [c \in Committees |-> {}]
        /\ table = [p \in Peers |-> [c \in {IdA[p], IdB[p]} |-> {}]]
    BY <1>4, HostAssumption DEF HInit
  <2> QED BY <1>2, <1>4, <2>1, HostAssumption DEF Network, Shaped, Fitting, Adding
<1>9. Calm
  BY DEF HInit, Calm
<1> QED BY <1>1, <1>3, <1>6, <1>7, <1>8, <1>9 DEF HostInv

LEMMA NextHostInv == HostInv /\ [HNext]_hvars => HostInv'
<1> SUFFICES ASSUME HostInv, [HNext]_hvars PROVE HostInv'
  OBVIOUS
<1>1. /\ BootTypes /\ Chains /\ Servers /\ leaves \in Nat
      /\ leaves > 0 => boot.pc = "done"
      /\ leaves = 0 => Network /\ Calm
  BY DEF HostInv
<1>2. BootTypes'
  BY <1>1, BootKept
<1>3. Chains'
  BY <1>1, <1>2, ChainsKept
<1>4. Servers'
  BY <1>1, <1>2, ServersKept
<1>5. leaves' \in Nat /\ (leaves' > 0 => boot'.pc = "done") /\ (leaves' = 0 => leaves = 0)
  BY <1>1, LeavesKept
<1>6. leaves' = 0 => Network' /\ Calm'
  BY <1>1, <1>2, <1>5, NetworkKept, CalmKept
<1> QED BY <1>2, <1>3, <1>4, <1>5, <1>6 DEF HostInv

\* The bootstrap's inductive invariant.
THEOREM HostInductive == HSpec => []HostInv
BY InitHostInv, NextHostInv, PTL DEF HSpec

\* make_sawtooth_committee hands over a committee only when all its members have
\* the block of the first one, and make_genesis has named all of them in it.
THEOREM MembersShareGenesis == HSpec => []CommitteesWhole
<1>1. HostInv => CommitteesWhole
  <2> SUFFICES ASSUME HostInv, NEW c \in CommitteeIds,
                      boot.c > c \/ boot.pc \notin {"create", "genesis", "join", "await", "failed"}
               PROVE  /\ \A m \in Members(c) : block[m] = <<c, 0>>
                      /\ genesis[<<c, 0>>].members = Members(c)
    BY DEF CommitteesWhole
  <2>1. BootTypes /\ Chains
    BY DEF HostInv
  <2>2. Polled(c) /\ Made(c)
    BY <2>1, HostSizes DEF BootTypes, Polled, Made, Making, CommitteeIds
  <2>3. genesis[<<c, 0>>].members = Members(c)
    BY <2>1, <2>2 DEF Chains, HasGenesis
  <2>4. ASSUME NEW m \in Members(c) PROVE block[m] = <<c, 0>>
    <3>1. m \in Containers /\ m[1] = c /\ block[m] # None
      BY <2>1, <2>2, MemberOf DEF Chains
    <3> QED BY <2>1, <3>1 DEF Chains, OneBlock
  <2> QED BY <2>3, <2>4
<1> QED BY <1>1, HostInductive, PTL

\* set_admin_key keeps the first key of the process, and every later genesis
\* admits it: update_committee may sign for any committee whose block is there.
THEOREM AdminKeyAdmitted == HSpec => []AdminCanReconfigure
<1>1. HostInv => AdminCanReconfigure
  <2> SUFFICES ASSUME HostInv, NEW m \in services, block[m] # None
               PROVE  keyFile[m] \in genesis[block[m]].admins
    BY DEF AdminCanReconfigure
  <2>1. Chains /\ m \in Containers /\ m[1] \in CommitteeIds
    BY MemberOf DEF HostInv, Chains, LifeTypes
  <2>2. OneBlock(m) /\ HasGenesis(m[1])
    BY <2>1 DEF Chains
  <2>3. block[m] = <<m[1], 0>> /\ Made(m[1]) /\ keyFile[m] = adminKey
    BY <2>2 DEF OneBlock
  <2> QED BY <2>2, <2>3 DEF HasGenesis
<1> QED BY <1>1, HostInductive, PTL

\* Whatever port find_free_port returns twice and wherever a post is refused, a
\* server process is that of a peer of the dict, whose __del__ terminates it.
THEOREM ServersOwned == HSpec => []ServersAreOwned
<1>1. HostInv => ServersAreOwned
  BY DEF HostInv, Servers, InDict, ServersAreOwned
<1> QED BY <1>1, HostInductive, PTL

\* When make_intersecting_committees_on_host returns, every peer of its dict
\* serves, and its table lists the other members of the dict and nobody else.
THEOREM TablesMatch == HSpec => []TablesAgree
<1>1. HostInv => TablesAgree
  <2> SUFFICES ASSUME HostInv, boot.pc = "done", leaves = 0
               PROVE  /\ api = Seqs!ToSet(held)
                      /\ \A p \in api, c \in Committees : p \in InCommittee(c) =>
                            table[p][c] = (api \cap InCommittee(c)) \ {p}
    BY DEF TablesAgree
  <2>1. held \in Seq(PairedPeers) /\ api \subseteq Seqs!ToSet(held)
    BY DEF HostInv, Servers, InDict
  <2>2. \A k \in 1..Len(held) : Told(held[k])
    BY DEF HostInv, Network, AllTold
  <2>3. Seqs!ToSet(held) = {held[k] : k \in 1..Len(held)}
    BY <2>1, DictOf
  <2>4. \A p \in Seqs!ToSet(held) : Told(p)
    BY <2>2, <2>3
  <2>5. api = Seqs!ToSet(held)
    BY <2>1, <2>4 DEF Told
  <2>6. ASSUME NEW p \in api, NEW c \in Committees, p \in InCommittee(c)
        PROVE  table[p][c] = (api \cap InCommittee(c)) \ {p}
    <3>1. c \in {IdA[p], IdB[p]} /\ Told(p)
      BY <2>4, <2>5, <2>6 DEF InCommittee
    <3> QED BY <2>5, <3>1 DEF Told, Listed
  <2> QED BY <2>5, <2>6
<1> QED BY <1>1, HostInductive, PTL

\* When no port came back twice, what the call returns is a state that leave may
\* start from: every peer that was paired runs and knows all the others.
THEOREM HandsOverInit == HSpec => []HandOver
<1>1. HostInv => HandOver
  <2> SUFFICES ASSUME HostInv, boot.pc = "done", leaves = 0, collisions = 0 PROVE Init
    BY DEF HandOver
  <2>1. /\ held \in Seq(PairedPeers) /\ api \subseteq InDict
        /\ InDict = Peers
    BY HostAssumption DEF HostInv, Servers, Making, Adding
  <2>2. Network /\ running = Peers
    BY <2>1 DEF HostInv, Network
  <2>3. \A p \in Peers : Told(p)
    <3>1. InDict = {held[k] : k \in 1..Len(held)}
      BY <2>1, DictOf DEF InDict
    <3>2. \A k \in 1..Len(held) : Told(held[k])
      BY <2>2 DEF Network, AllTold
    <3> QED BY <2>1, <3>1, <3>2
  <2>4. api = Peers
    BY <2>1, <2>3 DEF Told
  <2>5. \A c \in Committees : Made(c)
    BY HostSizes, HostAssumption DEF HostInv, BootTypes, Made, Making, CommitteeIds
  <2>6. /\ roster = [c \in Committees |-> InCommittee(c)]
        /\ past = [c \in Committees |-> {InCommittee(c)}]
    BY <2>2, <2>5 DEF Network
  <2>7. table = [p \in Peers |-> [c \in {IdA[p], IdB[p]} |-> InCommittee(c) \ {p}]]
    <3>1. ASSUME NEW p \in Peers, NEW c \in {IdA[p], IdB[p]}
          PROVE  table[p][c] = InCommittee(c) \ {p}
      <4>1. table[p][c] = (InDict \cap InCommittee(c)) \ {p}
        BY <2>3 DEF Told, Listed, InDict
      <4>2. InCommittee(c) \subseteq Peers
        BY DEF InCommittee
      <4> QED BY <2>1, <4>1, <4>2
    <3>2. table = [p \in Peers |-> [c \in {IdA[p], IdB[p]} |-> table[p][c]]]
      BY <2>2 DEF Network, Shaped
    <3> QED BY <3>1, <3>2, Zenon
  <2>8. leave = [p \in Peers |-> Idle("none")] /\ floating = [c \in Committees |-> {}]
    BY <2>2 DEF Network
  <2>9. met = {} /\ crossed = {}
    BY DEF HostInv, Calm
  <2> QED BY <2>2, <2>4, <2>6, <2>7, <2>8, <2>9 DEF Init
<1> QED BY <1>1, HostInductive, PTL
-----------------------------------------------------------------------------
(* The network lives: what CooperativeLeave promises of any network that it *)
(* starts from, it keeps in the one this bootstrap makes, also when a port  *)
(* came back twice and the dict lacks peers that the committees name.       *)

Lived == boot.pc = "done" => IInv /\ starting = {}

LEMMA HandedOver == HostInv /\ leaves = 0 => Lived
<1> SUFFICES ASSUME HostInv, leaves = 0, boot.pc = "done" PROVE IInv /\ starting = {}
  BY DEF Lived
<1>1. /\ held \in Seq(PairedPeers) /\ starting \cap api = {} /\ starting \cup api \subseteq InDict
      /\ Network /\ running = InDict
  BY DEF HostInv, Servers, Network
<1>2. InDict = {held[k] : k \in 1..Len(held)} /\ InDict \subseteq Peers
  BY <1>1, DictOf, HostAssumption DEF InDict
<1>3. \A p \in InDict : Told(p)
  <2>1. \A k \in 1..Len(held) : Told(held[k])
    BY <1>1 DEF Network, AllTold
  <2> QED BY <1>2, <2>1
<1>4. api = InDict /\ starting = {}
  BY <1>1, <1>3 DEF Told
<1>5. \A c \in Committees : Made(c)
  BY HostSizes, HostAssumption DEF HostInv, BootTypes, Made, Making, CommitteeIds
<1>6. /\ roster = [c \in Committees |-> InCommittee(c)]
      /\ past = [c \in Committees |-> {InCommittee(c)}]
      /\ floating = [c \in Committees |-> {}] /\ leave = [p \in Peers |-> Idle("none")]
  BY <1>1, <1>5 DEF Network
<1>7. Leavers \subseteq Peers /\ leave \in [Peers -> Call]
  BY <1>6, IdleShape, PeersAssumption
<1>8. \A p \in Peers : leave[p].pc = "idle" /\ leave[p].ret = "none" /\ ~leave[p].a /\ ~leave[p].b
  BY <1>6, IdleFields
<1>9. TypeOK /\ Domains
  <2>1. LedgerOK
    BY <1>6 DEF LedgerOK
  <2>2. Shaped(table) /\ Fitting(table)
    BY <1>1 DEF Network
  <2>3. TablesOK /\ DOMAIN table = Peers
    <3>1. DOMAIN table = Peers /\ \A p \in Peers : DOMAIN table[p] = {IdA[p], IdB[p]}
      BY <2>2 DEF Shaped
    <3> QED BY <2>2, <3>1 DEF Fitting, TablesOK
  <2>4. running \subseteq Peers /\ api \subseteq running /\ leaves \in 0..MaxLeaves
    BY <1>1, <1>2, <1>4, PeersAssumption
  <2>5. Domains
    BY <1>6, <2>3 DEF Domains
  <2>6. met \subseteq Leavers /\ crossed \subseteq Peers
    BY DEF HostInv, Calm
  <2> QED BY <1>7, <2>1, <2>3, <2>4, <2>5, <2>6 DEF TypeOK, LedgerOK, TablesOK
<1>10. ListsOut /\ AskedFirst /\ StopsFirst /\ RacesNoted /\ Remembered
  BY <1>7, <1>8 DEF ListsOut, AskedFirst, StopsFirst, RacesNoted, Remembered, Ending
<1>11. LivingAreKnown
  <2> SUFFICES ASSUME NEW c \in Committees, NEW p \in InCommittee(c) \cap api,
                      NEW q \in InCommittee(c) \cap api, p # q
               PROVE  q \in table[p][c]
    BY DEF LivingAreKnown
  <2>1. Told(p) /\ c \in {IdA[p], IdB[p]}
    BY <1>3, <1>4 DEF InCommittee
  <2>2. table[p][c] = Listed(p, c)
    BY <2>1 DEF Told
  <2> QED BY <1>4, <2>2 DEF Listed, InDict
<1> QED BY <1>4, <1>9, <1>10, <1>11 DEF IInv

\* A step of the bootstrap leaves a network nobody has left; no other step opens
\* or closes a server behind the network's back.
LEMMA LivedKept ==
    ASSUME HostInv, Lived, [HNext]_hvars
    PROVE  Lived' \/ leaves' = 0
<1>1. CASE Live(Next)
  <2>1. boot.pc = "done" /\ boot' = boot /\ starting' = starting /\ Next
    BY <1>1 DEF Live, ports
  <2>2. IInv'
    BY <2>1, NextIInv DEF Lived
  <2> QED BY <2>1, <2>2 DEF Lived
<1>2. CASE Boot
  <2>1. leaves' = leaves /\ boot.pc # "done"
    BY <1>2 DEF Boot, CreateMember, FirstMakesGenesis, JoinMember, AwaitGenesis, OpenPeer,
                OpenOnSamePort, Add, AddRefused, Return, vars
  <2> QED BY <2>1 DEF HostInv
<1>3. CASE \E p \in Peers : Bind(p) \/ BindFails(p)
  <2>1. starting # {} /\ boot' = boot
    BY <1>3 DEF Bind, BindFails
  <2> QED BY <2>1 DEF Lived
<1>4. CASE (\E c \in Containers : Validate(c)) \/ UNCHANGED hvars
  <2>1. boot' = boot /\ starting' = starting /\ UNCHANGED vars
    BY <1>4 DEF Validate, hvars, ports
  <2>2. IInv => IInv'
    BY <2>1, NextIInv
  <2> QED BY <2>1, <2>2 DEF Lived
<1> QED BY <1>1, <1>2, <1>3, <1>4 DEF HNext

LEMMA LivesOn == HSpec => []Lived
<1>1. HInit => Lived
  BY DEF HInit, Lived
<1>2. HostInv /\ Lived /\ [HNext]_hvars => Lived' \/ (leaves = 0)'
  BY LivedKept
<1> QED BY <1>1, <1>2, HandedOver, HostInductive, PTL DEF HSpec

\* In the network make_intersecting_committees_on_host returned, however its ports
\* fell and whoever leaves, running members of a committee know each other wherever
\* no two /removes have overlapped.
THEOREM ServingPeersKnown == HSpec => [](boot.pc = "done" => LivingAreKnown)
<1>1. Lived => (boot.pc = "done" => LivingAreKnown)
  BY DEF Lived, IInv
<1> QED BY <1>1, LivesOn, PTL

\* ... a peer's process stops only after a list without it went to both committees,
THEOREM StopsAskedBoth == HSpec => [](boot.pc = "done" => StoppedMeansAskedBoth)
<1>1. Lived => (boot.pc = "done" => StoppedMeansAskedBoth)
  BY StopAsksBoth DEF Lived
<1> QED BY <1>1, LivesOn, PTL

\* ... and a peer whose leave returned True is forgotten by all that serve, as long as
\* no connection is refused and wherever no two /removes have overlapped.
THEOREM LeaversForgotten ==
    ASSUME ~Faults PROVE HSpec => [](boot.pc = "done" => GoneAreForgotten)
<1>1. Lived => (boot.pc = "done" => GoneAreForgotten)
  BY DEF Lived, IInv, TypeOK, Remembered, GoneAreForgotten
<1> QED BY <1>1, LivesOn, PTL

\* The committees make_sawtooth_committee agrees to make have four members, and
\* so they keep four whoever leaves.
THEOREM FourFromTheStart == HSpec => [](boot.pc = "done" => CommitteesKeepFour)
<1> DEFINE Safe == boot.pc = "done" => Fours
<1>1. ASSUME NEW c \in Committees PROVE Cardinality(InCommittee(c)) >= 4
  <2>1. c \in CommitteeIds
    BY HostAssumption
  <2>2. InCommittee(c) = {p \in PairedPeers : c \in {CommitteeIdA(p), CommitteeIdB(p)}}
    BY HostAssumption DEF InCommittee
  <2>3. Cardinality(InCommittee(c)) = CommitteeSize
    BY <2>1, <2>2, SeatsAreAllTaken
  <2> QED BY <2>3, HostSizes
<1>2. HostInv /\ leaves = 0 => Safe
  <2> SUFFICES ASSUME HostInv, leaves = 0, boot.pc = "done" PROVE Fours
    OBVIOUS
  <2>1. \A c \in Committees : Made(c)
    BY HostSizes, HostAssumption DEF HostInv, BootTypes, Made, Making, CommitteeIds
  <2>2. /\ past = [c \in Committees |-> {InCommittee(c)}]
        /\ floating = [c \in Committees |-> {}]
    BY <2>1 DEF HostInv, Network
  <2> QED BY <1>1, <2>2 DEF Fours
<1>3. HInit => Safe
  BY DEF HInit
<1>4. HostInv /\ Lived /\ Safe /\ [HNext]_hvars => Safe' \/ (leaves = 0)'
  <2> SUFFICES ASSUME HostInv, Lived, Safe, [HNext]_hvars PROVE Safe' \/ leaves' = 0
    OBVIOUS
  <2>1. IInv => LedgerOK /\ Domains /\ ListsOut
    BY DEF IInv, TypeOK, LedgerOK
  <2>2. CASE Live(Next)
    <3>1. boot.pc = "done" /\ boot' = boot /\ Next
      BY <2>2 DEF Live
    <3>2. Fours'
      BY <2>1, <3>1, FoursKept DEF Lived
    <3> QED BY <3>2
  <2>3. CASE Boot
    <3>1. leaves' = leaves /\ boot.pc # "done"
      BY <2>3 DEF Boot, CreateMember, FirstMakesGenesis, JoinMember, AwaitGenesis, OpenPeer,
                  OpenOnSamePort, Add, AddRefused, Return, vars
    <3> QED BY <3>1 DEF HostInv
  <2>4. CASE (\E c \in Containers : Validate(c)) \/ (\E p \in Peers : Bind(p) \/ BindFails(p)) \/ UNCHANGED hvars
    <3>1. boot' = boot /\ UNCHANGED ledger
      BY <2>4 DEF Validate, Bind, BindFails, hvars, vars, ledger
    <3>2. Fours => Fours'
      BY <3>1 DEF Fours, ledger
    <3> QED BY <3>1, <3>2
  <2> QED BY <2>2, <2>3, <2>4 DEF HNext
<1>5. Lived /\ Safe => (boot.pc = "done" => CommitteesKeepFour)
  BY DEF Lived, IInv, TypeOK, Fours, CommitteesKeepFour
<1> HIDE DEF Safe
<1> QED BY <1>2, <1>3, <1>4, <1>5, LivesOn, HostInductive, PTL DEF HSpec
=============================================================================
