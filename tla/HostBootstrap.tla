----------------------------- MODULE HostBootstrap -----------------------------
(***************************************************************************)
(* One host from nothing to a network that peers may leave (src/util.py:   *)
(* make_sawtooth_committee, make_intersecting_committees_on_host;          *)
(* src/SmartShardPeer.py: start, __del__).  The owner makes one committee  *)
(* of containers after the other and waits for its genesis block, opens a  *)
(* peer on a port of its own for each pair of instances, and posts every   *)
(* peer its neighbours, while validators copy the block and the peers'     *)
(* servers are starting.  Then the network is CooperativeLeave's.          *)
(***************************************************************************)
EXTENDS CooperativeLeave, CommitteeTopology, ContainerLifecycle, Sequences

Seqs == INSTANCE SequencesExt

CONSTANT MaxCollisions  \* bound: times find_free_port returns a port again

ASSUME HostAssumption ==
    /\ Peers = PairedPeers /\ Committees = CommitteeIds
    /\ IdA = [p \in Peers |-> CommitteeIdA(p)] /\ IdB = [p \in Peers |-> CommitteeIdB(p)]
    /\ Containers = CommitteeIds \X Slots
    /\ CommitteeSize >= 4       \* fewer, and make_sawtooth_committee makes none
    /\ MaxCollisions \in Nat

VARIABLES
    boot,       \* the owner's program: where it is, which committee, item and pair
    held,       \* the peers dict in its order: a position is a port
    starting,   \* the peers whose server process has not bound its port yet
    collisions  \* ports returned again so far

hvars == <<vars, lifecycle, boot, held, starting, collisions>>
ports == <<held, starting, collisions>>

Members(c) == {<<c, s>> : s \in Slots}

\* The two containers of a peer's Intersection.
Halves(p) == {<<CommitteeIdA(p), SlotA(p)>>, <<CommitteeIdB(p), SlotB(p)>>}

\* The three loops that append the Intersections: the sections, in each the
\* rows, in each the columns from the row on.
FirstPair == [section |-> 0, row |-> 0, column |-> 0]
LastPair == [section |-> Intersections - 1, row |-> SectionSize - 1, column |-> SectionSize - 1]
NextPair(p) ==
    IF p.column + 1 < SectionSize
    THEN [section |-> p.section, row |-> p.row, column |-> p.column + 1]
    ELSE IF p.row + 1 < SectionSize
    THEN [section |-> p.section, row |-> p.row + 1, column |-> p.row + 1]
    ELSE [section |-> p.section + 1, row |-> 0, column |-> 0]

HInit ==
    /\ LInit
    /\ roster = [c \in Committees |-> {}] /\ past = [c \in Committees |-> {}]
    /\ floating = [c \in Committees |-> {}]
    /\ running = {} /\ api = {}
    /\ table = [p \in Peers |-> [c \in {IdA[p], IdB[p]} |-> {}]]
    /\ leave = [p \in Peers |-> Idle("none")] /\ leaves = 0
    /\ met = {} /\ crossed = {}
    /\ boot = [pc |-> "create", c |-> 0, i |-> 0, pair |-> FirstPair]
    /\ held = <<>> /\ starting = {} /\ collisions = 0
-----------------------------------------------------------------------------
(* make_sawtooth_committee *)

\* for p in peers: ...
Walk(next) ==
    IF boot.i + 1 < CommitteeSize THEN [boot EXCEPT !.i = @ + 1]
    ELSE [boot EXCEPT !.pc = next, !.i = 0]

Member == <<boot.c, boot.i>>

CreateMember ==
    /\ boot.pc = "create"
    /\ Create(Member)
    /\ boot' = Walk("genesis")
    /\ UNCHANGED <<vars, ports>>

\* The genesis in the first container fixes the committee's roster.
FirstMakesGenesis ==
    /\ boot.pc = "genesis"
    /\ MakeGenesis(Member, Members(boot.c), Members(boot.c))
    /\ roster' = [roster EXCEPT ![boot.c] = InCommittee(boot.c)]
    /\ past' = [past EXCEPT ![boot.c] = {InCommittee(boot.c)}]
    /\ boot' = [boot EXCEPT !.pc = "join"]
    /\ UNCHANGED <<floating, running, api, table, leave, leaves, ports, races>>

JoinMember ==
    /\ boot.pc = "join"
    /\ JoinSawtooth(Member, Members(boot.c))
    /\ boot' = Walk("await")
    /\ UNCHANGED <<vars, ports>>

NextCommittee ==
    IF boot.c + 1 < NumberOfCommittees
    THEN [boot EXCEPT !.pc = "create", !.c = boot.c + 1, !.i = 0]
    ELSE [boot EXCEPT !.pc = "open", !.i = 0]

\* A member without a block ends the pass, and the next one begins with the
\* first member: there is no limit to the passes.
AfterReadMutGoesOn(blocks) ==
    IF boot.i + 1 < CommitteeSize THEN [boot EXCEPT !.i = @ + 1] ELSE NextCommittee
AfterRead(blocks) ==
    IF blocks = None THEN [boot EXCEPT !.i = 0]
    ELSE IF boot.i + 1 < CommitteeSize THEN [boot EXCEPT !.i = @ + 1]
    ELSE NextCommittee

AwaitGenesis ==
    /\ boot.pc = "await"
    /\ boot' = AfterRead(block[Member])
    /\ UNCHANGED <<vars, lifecycle, ports>>
-----------------------------------------------------------------------------
(* make_intersecting_committees_on_host *)

AfterOpening ==
    IF boot.pair # LastPair THEN [boot EXCEPT !.pair = NextPair(@)]
    ELSE [boot EXCEPT !.pc = "addA"]

\* peers[port] = SmartShardPeer(i, port) on a port no peer has.
OpenPeer ==
    /\ boot.pc = "open"
    /\ held' = Append(held, boot.pair)
    /\ starting' = starting \cup {boot.pair}
    /\ boot' = AfterOpening
    /\ UNCHANGED <<vars, lifecycle, collisions>>

\* __del__ of the peer that loses its place terminates its process.
StillStartingMutKept(k) == starting
StillStarting(k) == starting \ {held[k]}

\* find_free_port closes its socket before it returns: a port whose server has
\* not bound it is free, and its peer's entry is overwritten.
OpenOnSamePort ==
    /\ boot.pc = "open" /\ collisions < MaxCollisions
    /\ \E k \in DOMAIN held :
         /\ held[k] \in starting
         /\ held' = [held EXCEPT ![k] = boot.pair]
         /\ starting' = StillStarting(k) \cup {boot.pair}
    /\ collisions' = collisions + 1
    /\ boot' = AfterOpening
    /\ UNCHANGED <<vars, lifecycle>>

\* app.run: the server listens.
Bind(p) ==
    /\ p \in starting
    /\ starting' = starting \ {p}
    /\ api' = api \cup {p}
    /\ UNCHANGED <<ledger, running, table, leave, leaves, lifecycle, boot, held, collisions, races>>

\* Another program has taken the port meanwhile: app.run raises, the process ends.
BindFails(p) ==
    /\ Faults /\ p \in starting
    /\ starting' = starting \ {p}
    /\ UNCHANGED <<vars, lifecycle, boot, held, collisions>>

\* get_neighbors over the other peers of the dict
ListedMutAsPlanned(p, c) == InCommittee(c) \ {p}
ListedMutOwnToo(p, c) == Seqs!ToSet(held) \cap InCommittee(c)
Listed(p, c) == (Seqs!ToSet(held) \cap InCommittee(c)) \ {p}

Poster == held[boot.i + 1]

AfterAdd ==
    IF boot.pc = "addA" THEN [boot EXCEPT !.pc = "addB"]
    ELSE IF boot.i + 1 < Len(held) THEN [boot EXCEPT !.pc = "addA", !.i = @ + 1]
    ELSE [boot EXCEPT !.pc = "return"]

\* requests.post to /add; after the second one check_neighbors reads the table.
Add ==
    LET c == IF boot.pc = "addA" THEN IdA[Poster] ELSE IdB[Poster] IN
    /\ boot.pc \in {"addA", "addB"} /\ Poster \in api
    /\ table' = [table EXCEPT ![Poster][c] = Listed(Poster, c)]
    /\ boot' = AfterAdd
    /\ UNCHANGED <<ledger, running, api, leave, leaves, lifecycle, ports, races>>

\* The server does not listen yet, or has ended: ConnectionError leaves the
\* function, and what it made is dropped.
AddRefused ==
    /\ boot.pc \in {"addA", "addB"} /\ Poster \notin api
    /\ boot' = [boot EXCEPT !.pc = "failed"]
    /\ held' = <<>> /\ starting' = {} /\ api' = {}
    /\ Stop(up)
    /\ UNCHANGED <<ledger, running, table, leave, leaves, collisions, races>>

\* The list of Intersections goes, and with it those no peer of the dict holds.
Return ==
    /\ boot.pc = "return"
    /\ boot' = [boot EXCEPT !.pc = "done"]
    /\ running' = Seqs!ToSet(held)
    /\ Stop(UNION {Halves(p) : p \in Peers \ Seqs!ToSet(held)})
    /\ UNCHANGED <<ledger, api, table, leave, leaves, ports, races>>
-----------------------------------------------------------------------------
Boot ==
    \/ CreateMember \/ FirstMakesGenesis \/ JoinMember \/ AwaitGenesis
    \/ OpenPeer \/ OpenOnSamePort \/ Add \/ AddRefused \/ Return

Validate(c) == Sync(c) /\ UNCHANGED <<vars, boot, ports>>

\* The network lives; a peer that is deleted takes its containers with it.
Live(A) ==
    /\ boot.pc = "done" /\ A
    /\ Stop(UNION {Halves(p) : p \in running \ running'})
    /\ UNCHANGED <<boot, ports>>

HNext ==
    \/ Boot
    \/ \E c \in Containers : Validate(c)
    \/ \E p \in Peers : Bind(p) \/ BindFails(p)
    \/ Live(Next)

HSpec == HInit /\ [][HNext]_hvars

\* The owner's process runs, and a validator that may take a block takes it.
FairHSpec ==
    /\ HSpec
    /\ WF_hvars(Boot)
    /\ \A c \in Containers : WF_hvars(Validate(c))
    /\ \A p \in Leavers : WF_hvars(Live(Step(p)))
-----------------------------------------------------------------------------
(* Properties *)

\* When the polling of a committee is over, every member has the block the first
\* one made, and that genesis names all of them: no peer is opened on less.
CommitteesWhole ==
    \A c \in CommitteeIds :
        boot.c > c \/ boot.pc \notin {"create", "genesis", "join", "await", "failed"} =>
            /\ \A m \in Members(c) : block[m] = <<c, 0>>
            /\ genesis[<<c, 0>>].members = Members(c)

\* The call returns a dict of peers all of which serve, and their tables list the
\* other members among them, neither themselves nor one that lost its port.
TablesAgree ==
    boot.pc = "done" /\ leaves = 0 =>
        /\ api = Seqs!ToSet(held)
        /\ \A p \in api, c \in Committees : p \in InCommittee(c) =>
              table[p][c] = (api \cap InCommittee(c)) \ {p}

\* Unless a port was used twice, what is returned is CooperativeLeave's initial
\* state.
HandOver == boot.pc = "done" /\ leaves = 0 /\ collisions = 0 => Init

\* A server process always has a peer of the dict to terminate it, whatever port
\* was returned twice and wherever the call failed.
ServersAreOwned == starting \cup api \subseteq Seqs!ToSet(held)

\* The bootstrap returns or fails: every member gets the genesis block.
BootstrapEnds == boot.pc \notin {"done", "failed"} ~> boot.pc \in {"done", "failed"}
=============================================================================
