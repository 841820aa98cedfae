# smartShards in TLA+

smartShards is a sharded blockchain: every peer runs two Hyperledger Sawtooth containers, one
in each of two PBFT committees, and a Flask API through which peers and clients talk. This
directory holds a specification of that system, model-checked with TLC; its safety properties are
proved with TLAPS. File and line references are to the repository, whose library code is in `src/`.

## 1. The system

| Part | State it keeps | Operations |
| --- | --- | --- |
| `SawtoothContainer` (`SawtoothPBFT.py`) | a docker container, its keys and address; per *process* one admin key; the committee's roster is on the chain | `make_genesis`, `start_sawtooth`, `join_sawtooth`, `update_committee`, `leave_network`, `rejoin_network`, `submit_tx`, `get_tx`, `blocks` |
| `Intersection` (`Intersection.py`) | two containers, two committee ids | the container operations, dispatched on the committee id |
| `SmartShardPeer` (`SmartShardPeer.py`) | the API process, its port, a copy of the API's configuration | `start`, `check_neighbors`, `leave`, `__del__` |
| API (`api/routes.py`, `api/__init__.py`) | `PBFT_INSTANCES` and the neighbour table `QUORUMS` | `start`, `join`, `add`, `remove`, `make+genesis`, `submit`, `get`, `blocks`, `min+intersection`, `request+join`, read-only routes |
| Forwarding and maps (`api/api_util.py`) | none | `forward`, `create_intersection_map`, `merge_intersection_maps` |
| Bootstrap (`util.py`) | none | `make_sawtooth_committee`, `make_intersecting_committees`, `make_intersecting_committees_on_host`, `check_for_confirmation`, `find_free_port` |
| `Transaction` (`structures.py`) | quorum, key, value | conversion to and from JSON |
| evaluation scripts | none | measurements |

**How the parts meet.** The owner of a peer calls `leave` in its own process. It copies the API
process's table over HTTP, asks both containers to leave their committees, stops the API process
and posts `/remove` to every neighbour. A container re-configures its committee by submitting a
*complete* key list to the ledger and watching the length of the chain. A client posts to any
peer; a peer that is not a member of the quorum posts the request on to a neighbour that is and
waits. The server runs one thread per request, without a lock on the table. After the fork the
owner and the API process share nothing.

**What is hard about it.**
- Concurrency: membership changes are unprotected read-modify-writes of a whole roster; several
  peers leave at once; `/remove` threads delete from lists that others iterate over or replace.
- Confirmation by proxy: only the chain's *length* is watched, so anybody's block confirms, and a
  timeout says nothing of what the ledger will do later.
- Failure: an API that cannot be reached reads as an empty chain; a connection may be refused; a
  peer may stop while it serves or is sent a request; a container may not start.
- Ordering: the API stops before the neighbours know; a table is stored before the join succeeds; a
  restart deletes the instances long before it stores others, under the requests in progress.
- Bootstrap: the owner waits for a block that every validator has to get from another, uses ports
  that are free when asked for, and posts to servers that are still starting.

**What makes each part correct.** *Membership:* never fewer than four keys except by an
operator's own list, nobody loses a seat who did not ask to, a departed key returns only through
a stale list, every call returns, and one that gives up has not read its own block. *Leave:*
running neighbours stay known and departed ones are forgotten wherever no two `/remove`s overlap,
both committees keep their promises, a leave ends. *Table:* a removal that meets no other takes the
departed neighbour and nobody else; however many meet, a list loses no more entries than there were
removals, and all end. *Routing:* one forward at most, a neighbour to forward to unless deletions
during the look explain that none was found, at most one execution, every request ends. *Restart:* a
request is executed by an instance of the quorum it names or not at all, what is acknowledged was
done, a handler that meets no restart finds what it looks up, a container does not stop under a call.
*Pairing:* every instance in exactly one peer, any two committees meet. *Bootstrap:* whole
committees, tables that agree, no server without an owner, an admin key every genesis admits.
*Minimum intersection:* no peer counted where it is not, nobody missing.

## 2. Modules

| Module | What it models |
| --- | --- |
| `CommitteeRoster` | abstract: what one committee promises about its roster |
| `SawtoothCommittee` | one committee: the membership calls, the ledger, the lagging validators; implements `CommitteeRoster` |
| `SawtoothCommittee_proofs` | theorems about it |
| `CooperativeLeave` | the peers of a network of committees that leave; each committee implements `CommitteeRoster` |
| `CooperativeLeave_proofs` | theorems about it |
| `ContainerLifecycle` | the containers of one host: creation, admin key, genesis, join, deletion; no specification of its own |
| `HostBootstrap` | one host from nothing to a network: `ContainerLifecycle` driven by the bootstrap, then `CooperativeLeave` |
| `HostBootstrap_proofs` | theorems about it, and about the leaves in the network it makes |
| `PeerApi` | one peer's API process across restarts, with its `Intersection` and `ContainerLifecycle`'s containers |
| `PeerApi_proofs` | theorems about it |
| `NeighbourTable` | one API process's table under concurrent `/start`, `/add`, `/join`, `/remove` |
| `NeighbourTable_proofs` | theorems about it |
| `CommitteeTopology` | the index arithmetic that pairs instances into peers |
| `CommitteeTopology_proofs` | theorems about it |
| `Forwarding` | client requests, composed with `CooperativeLeave`; its instance takes the peers from `CommitteeTopology` |
| `Forwarding_proofs` | theorems about it |
| `IntersectionMap` | intersection maps and their truncating merge |
| `MinIntersection` | `/min+intersection` as one of the client's requests, composed with `Forwarding` |
| `MinIntersection_proofs` | theorems about it |
| `MC...` | values of the constants for TLC |

**SawtoothCommittee.** `chain` is the committed blocks, each with the roster it leaves in force;
`height[n]` is the prefix container *n*'s validator has; `pending` is the proposals submitted and
not committed; `call[n]` is the local state of the call *n*'s owner is in: the list to submit, the
first length read, how far the clock is, whether the retry was made, the result. `LeaveNetwork`
and `UpdateCommittee` run up to the tests of `update_committee`; `ReadChainSize` and `Submit` begin
`__update_on_chain_settings`, and a pass of its polling loop is a step per read of the world:
`PollChain` is the loop's condition, `ReadClock` the second reading (which is logged only) and the
clock, `SubmitAgain` the retry's submission; `AfterPass` is the test of the timeout. The chain may
grow between any two of them, so a call may give up although its own block has arrived since its
reading. `Tick` is time passing; `Raise` is an answer of the REST API that is not JSON. `Commit`,
`Traffic` and `CatchUp` are the ledger: it commits in any order, at any time or never (a batch that
is lost stays in `pending`), one proposal per block. `read`, `without`, `asked`, `seen` are history:
which block a list was read from and who it leaves out, who has asked to leave, and how many blocks
the loop's last reading listed.

**CooperativeLeave.** `leave[p]` is the call of `SmartShardPeer.leave`, one `pc` value per step;
`api` and `running` are the processes and containers alive; `table[p]` is the table in p's API
process, and `leave[p].todo` the copy `check_neighbors` made of it, as the entries still to be
notified. A roster that is read may be any earlier one (`past`); a submitted list (`list`) is
`floating` until it is adopted and may be submitted a second time while the call waits (`again`),
before or after its first adoption; an answer, once the list is out, is arbitrary: that is what
`SawtoothCommittee` says of True and False. A list whose call answered False may therefore be adopted
later, and one committee may let a peer go while the other refuses: the peer is then half in, with
its API running, as in the code. `Rejoin` raises when the other running containers of the committee
are fewer than four (`join_sawtooth`'s assertion over a list that excludes the caller).

A `/remove` is a thread at the neighbour: `PostRemove` starts it, `CutA` and `CutB` are its passes
over the two lists, and a neighbour that stops breaks it off. A thread that is alone at its peer cuts
its caller's port from either list. As soon as two overlap (`met`, and `crossed` for the peer), a pass
takes out *any one entry or none*. Both halves of this contract are what `NeighbourTable` shows of
the handler's own steps: `AnsweredMeansRemoved` and `UndisturbedSparesOthers` of one that is alone,
`LossIsBounded` of those that are not. The order of notifications is fixed by `NextEntry`; the code's
order is fixed too, by the dictionary.

**NeighbourTable.** `slot` maps a key of `QUORUMS` to a list *object*, `heap` holds the objects'
contents: `Add` and `Join` put a new object; `Start` stores the instances and an empty list for the
first id, and owes that of the second (`owed`, `StartEnds`). A `/remove` thread goes on iterating over
the object it began with (`NextEntry`, `NextQuorum`) while `Delete` looks the list up again. A
dictionary that grew ends the loop with an exception, as does an index beyond the list. `was`,
`departed`, `disturbed` are history.

**CommitteeTopology.** A peer is an iteration (section, row, column) of the three loops; `SlotA`,
`SlotB`, `CommitteeIdA`, `CommitteeIdB` are the index expressions of the constructor call.

**Forwarding.** `request` is the client's request: the peer it is at, the peers whose threads wait
for the answer (`serving`), how often it was forwarded (0, 1, more) and executed, and whether its id
came as a string (`text`): `in_committee` makes a string of it, `forward` does not, so that a number
finds nobody. A look for a neighbour takes time, while `/remove` threads shorten the lists it walks:
`Look` begins with the entries that match, `Follow` goes along with every change of the peer's lists,
each of which may hide one more entry (`Shifted`: the one deleted, or the one that moves to an index
already passed), and `Choose` takes one of those found, or raises when there is none (`nobody`). With
`Faults`, `Deliver` may be refused by a running API too. The exception of a refused connection is
the `requests` library's own and not the built-in `ConnectionError` that `forward` names, so it is not
caught: the model ends the request as raised. `make+genesis` is forwarded the same way and is in
`PeerApi`.

**ContainerLifecycle.** The process begins with the containers it is given (`LStart`; none in
`HostBootstrap`). `adminKey` is `SawtoothContainer`'s class attribute, one per process;
`keyFile[c]` is what `set_admin_key` wrote into container *c*, `genesis[c]` the keys its genesis
names, `linked[c]` the peers its validator was started with, `block[c]` whose genesis block its chain
begins with. A validator takes the block of one it is linked to (`Sync`, external).

**HostBootstrap.** `boot` is the owner's program counter with the committee and the item of the loop
it is at, and the pair of instances whose peer is next (`FirstPair`, `NextPair`: the order of the three
loops). `held` is the peers dict, a position standing for a port: `OpenOnSamePort` is
`find_free_port` returning a port that is not bound yet, so that `peers[port]` is overwritten and the
peer that was there deleted, with its process. `starting` peers bind their port at any later time or,
with `Faults`, never. A refused `/add` leaves the function and drops all it has made. When the call
has returned, the steps are those of `CooperativeLeave`, of the same variables (`Live`).

**PeerApi.** `config` is the key of the Intersection, with values for None and for a missing key. The
app begins with None or, as `create_app(instances)` may, with an Intersection its owner holds and no
lists. `thread[t]` is one request, from the test of the ids (`Check`) to the second look-up (`Call`),
the run in the container (`Run`) and the end of its references (`Answer`); a restart goes through
`DeleteInstances`, `MakeA`, `MakeB`, `StoreInstances` and two `PutEmpty`. `Unreferenced` is Python's
reference count: the current Intersection, the owner's and those that threads hold keep their
containers. A request for a foreign quorum needs an entry that leads there (`Forward`); after a
`/start` there is none and `random.choice` raises. `Count` and `TakeId` are the look-ups of `/info`
and `/min+intersection`; `TakeAddresses` is `join` taking the addresses out of whatever list is in the
table by then, which a rival may have emptied of them (`bare`). `Remove` deletes any entries: which
ones is `NeighbourTable`'s. Results: "noKey" and "noList" are the KeyErrors of the two look-ups,
"raised" is any other exception, an answer that is no JSON included; "failed" is an error answered.
`disturbed` is history: requests that overlap a start, another write of the same list or, if they
write a list, a `/remove`. `/request+join` posts to `/min+intersection`, which accepts GET only, and
indexes the response object: it raises at once and changes nothing.

**MinIntersection.** The call at the peer asked (`depth0`) and the one below it (`depth1`); the calls
at depth two ask nobody and are one step. Each walks the live lists, with a call between two entries:
`Rest` passes an entry, and `FollowSearch` goes along with the deletions in between (`ToGo`: one ahead
is not met, one behind hides the entry that moves up). A map is its ids and its entries
`<<row, column, peer>>`. `Merge` keeps what the two nested zips keep: of either map the columns up to
the other's number of ids. Rows and columns are sorted as strings in the code; any fixed order will do,
and the model takes numbers.

## 3. Runs

| Run | Instance | Shows |
| --- | --- | --- |
| `leaves` | 5 members, 2 concurrent leavers, 2 calls, 1 client block; 719 k states | `TypeOK`, `FourUnlessTold`, `RosterWithinBounds`, `ReadmissionIsStale`, `CallCommitsAtMostTwice`, refinement `RosterSpec` |
| `operator_lists` | 2 callers that leave or submit an operator's list of three keys with a newcomer; unreliable API, a page of 2 blocks, fair; 58 k | the inductive invariant `IInv`, `TimeoutSawNothing`, liveness `FullPageTimesOut`, `CallsReturn` |
| `two_leave` | 2 committees sharing 5 peers, 2 leavers, up to 3 rosters each, lists submitted twice, commands that raise; 872 k | `TypeOK`, `StoppedMeansAskedBoth`, `CommitteesKeepFour`, refinement `RostersSpec` |
| `two_removes` | the same with 3 calls, `/remove`s that overlap at one peer, and no list adopted; 2.2 M | `LivingAreKnown`, `GoneAreForgotten` |
| `host` | 2 committees of 5 from nothing, one port returned twice, servers that are late or fail; then 1 leaver, 3 calls, refused connections, exceptions; fair; 54 k | `CommitteesWhole`, `TablesAgree`, `HandOver`, `ServersAreOwned`, `AdminCanReconfigure`, liveness `BootstrapEnds`, `LeaveEnds` |
| `removes` | 2 `/remove` threads, 1 write in between, 2 keys (a third after a restart), fair; 276 k | `TypeOK`, `AnsweredMeansRemoved`, `LossIsBounded`, `UndisturbedSparesOthers`, liveness `RemovesEnd` |
| `forwarding` | 6 committees of 5 (15 peers); the only peer of committees 0 and 2 or of 1 and 3 leaves, as the first or with the other one gone; 1 request or search, fair; 50 k | `ForwardedOnce`, `NeighbourFound`, `ExecutedOnce`, `FiledTruly`, `MapIsComplete`, liveness `RequestsEnd`, `SearchEnds` |
| `peer_api` | 2 threads, 3 requests of every kind, starts with the same or other ids among them, an app made with or without an Intersection, 1 container that fails; 1.1 M | `ExecutedInItsQuorum`, `AcknowledgedMeansDone`, `CallsKeepTheirContainer`, `KeysAreThere`, `MissingOnlyDuringStart` |

Four more runs refute what the code's own words say of a result:

| Run | Refuted | Behaviour |
| --- | --- | --- |
| `true_unexplained` | `UpdateCompleteIsCommitted`: "update complete" | a client's block ends the wait; the list is not on the chain |
| `readmitted` | `DepartedStaysOut`: "Remove self from network" | two leaves at once; the second list, read earlier, brings the first leaver's key back; the trace ends there, before either call has returned |
| `rejoin_asserts` | `RefusedLeaveReturns`: "rejoining" | in a committee of four the rejoin fails its assertion, and `leave` raises |
| `wrong_entry` | `OnlyTheDepartedGo`: "remove neighbor from API after it leaves" | two removes of the same port; an index counted before the other's deletion names the neighbour behind, which stays |

What some properties do *not* say is worth knowing:
- `TimeoutSawNothing` is about the readings a call has made. A block that arrives after the last of them
  is reported as a failure, as is one that a full page hides.
- `LivingAreKnown` and `GoneAreForgotten` are claimed where no two `/remove`s have overlapped. Where two
  have, a running neighbour may be gone and a leaver listed: that is `wrong_entry`, seen from outside.
- `NeighbourFound` counts the deletions during a look. One that meets none finds a neighbour as long as
  one that stays leads to the quorum; at a peer where `/remove`s have overlapped nothing is claimed.
- `AcknowledgedMeansDone` and `KeysAreThere` exempt requests that a start, or another write of their
  list, has met: what those may see, the actions show and no property forbids.

Also visible in the models, with other constants or properties, and not kept as runs:
- an update that failed and is committed later; two blocks for one update after the retry;
- a neighbour that refuses five times and is never told (`Faults = TRUE` refutes `GoneAreForgotten`);
- a port shared by two hosts (refutes `OnlyTheDepartedGo`);
- `/min+intersection` does not always answer the smallest intersection, which its comment promises
  ("finds the quorums with the fewest intersections", routes.py:114): add `AnswerIsSmallest` to the
  invariants of `MC_forwarding.cfg`. When the only peer of two committees has left before the call, no
  list of the peer asked names one of the ids, its map is one id shorter, every merge drops the last
  column, and it answers two committees that a peer joins, where those two have none;
- after a container could not be created in a restart, the key of the instances stays deleted: every
  later request raises, a further `/start` too. `MissingOnlyDuringStart` shows that it takes this
  failure (`MaxFailures`).

**Bounds.** `MaxCalls`, `MaxTraffic`, `MaxLeaves`, `MaxRemoves`, `MaxWrites`, `MaxRequests`, `MaxStarts`
cap the number of calls; each is enough for two calls to overlap at every step, which is the least
that shows a lost update, a race of removals or a stale copy, for a third call after a refused leave,
and for a request between two restarts and one that outlives both. `MaxRosters` caps the rosters a
committee has had: three are the first, one leaver's and the other's, and a fourth would be one of them
again or refused; `two_removes` and `forwarding` look at tables, which no roster enters, and adopt none.
`MaxCrossed` caps the peers at which `/remove`s overlap; with one, the properties about the others are
checked beside it. `forwarding` has one request at a time, as requests share no state; it begins with
everybody there or in a state `CooperativeLeave` reaches, the first leaver gone and its lists out, so
that one more leave makes the second departure. `MaxCollisions` and `MaxFailures` are 1: a second one
meets no state the first has not. Five members are the least from which a leave is allowed and the
next refused. `MaxAttempts` is 2 where the code has 5: the loop distinguishes the last refusal from the
others. One client block suffices to end anybody's wait. `PageLimit` is the code's 100 in `leaves`, and
never reached; in `operator_lists` it is 2, so that the page fills during the run. `Callers` only are
given a height, the other validators' views being read by nobody. The runs stop when their bounds are
used up and every call has returned, so deadlock is not checked: a program at rest is not stuck, and
that calls do not get stuck is what the liveness properties say. Symmetry exchanges two callers
(`leaves`) or two threads (`peer_api`) whose constants are alike, in runs without liveness.

**Fairness.** `FairSpec` of `SawtoothCommittee`: a container command returns (`ReadChainSize`,
`Submit`), the polling loop goes on (`Poll`), and time passes (`Tick`); nothing is asked of the
ledger. `CooperativeLeave`: a call in progress takes steps; that `leave_network` answers is
`CallsReturn` of the other module. A `/remove` thread is part of its caller's call there. `NeighbourTable`, `Forwarding`, `MinIntersection`: a server thread
that has begun goes on. `HostBootstrap`: the owner's program goes on, and a validator that is linked
to one with a block gets it in the end, without which `make_sawtooth_committee` polls for ever; a server
that starts owes nothing. No peer is obliged to call, leave or catch up, and no ledger to commit.

## 4. Proofs

Every safety invariant and action property of the passing runs is stated by a theorem, for every
value of the constants. The assumptions are the `ASSUME`s of the modules (a genesis of at least four
keys; natural bounds; at least two committees and one intersection) and, where a theorem names one,
a hypothesis on constants that the run's own instance satisfies:

| Hypothesis | Theorems | Where it comes from |
| --- | --- | --- |
| `OnePortEach`: no list has a port twice | `AnswersAreTrue`, `LossesAreBounded` | `get_neighbors` builds such lists on one host |
| `~Faults` | `GoneStayForgotten`, `LeaversForgotten` | a neighbour that refuses five times is not told: with it the claim is false |
| four members in every committee | `NeverBelowFour` | `make_sawtooth_committee`; proved of the bootstrap in `FourFromTheStart` |
| `IsFiniteSet(Peers)` | `LooksFindNeighbours`, `LooksStillFindNeighbours` | deletions are counted; `QuietLooksFind` does without, `Paired` gives it |
| `EveryTwoMeet`: ids are numbers, every two quorums share a peer | `NobodyIsMissed` | the pairing: `NobodyIsMissedInPairs` |
| `Committees \subseteq Nat` | `MapsStayTrue` | ids are numbers |
| `OneLostAtMost`: of each committee one intersection at most leaves as a whole | `QuietLooksFind` | needed: who loses both ways to a quorum cannot forward to it |

**`SawtoothCommittee_proofs`** (about 1,440 obligations):
- `TypeCorrect`: `Spec => []TypeOK`, and `Inductive`: `Spec => []IInv`.
- `NeverBelowFour` (`FourUnlessTold`), `SeatsAreKept` (`RosterWithinBounds`) and
  `OnlyStaleListsReadmit` (`ReadmissionIsStale`) from `IInv`.
- `RetriesAreBounded` (`CallCommitsAtMostTwice`) and `TimeoutsAreHonest` (`TimeoutSawNothing`).
- `ImplementsRoster`: `Spec => RosterSpec`, step simulation of `CommitteeRoster`.

`FourUnlessTold` is not inductive: a list in `pending`, or in a call about to submit, could have any
size or origin. `IInv` adds `Derived`: every list proposed, about to be proposed or adopted is either
an operator's or an *earlier block's* roster less callers that asked to leave, with the number of that
block. `Derived` is stable because the chain only grows, so a list read at height *h* keeps its
origin however stale it gets. One step per action, one conjunct at a time; `Commit` is the case where
a pending list becomes a block and the origin must lie before it.

That a call leaves two blocks at most is a budget (`CallsCounted`): its blocks, its proposals that are
still pending and the submissions it may yet make (`SubmissionsLeft`, by its place and retry flag) are
two together. A commit moves one from pending to the chain, a submission one from the future to
pending. `TimeoutSawNothing` rests on `BlocksComeLater`: none of the blocks a call counted at its first
read is its own. A call that goes on from a reading has found no more blocks than at the first (`seen`
is at most `size`, and a page at most), so none of those it found is its own, however many arrive
before it returns. An API that cannot be reached lists nothing and changes nothing in this.

**`CooperativeLeave_proofs`** (about 980), for any peers, committees and number of calls:
- `TypeCorrect`, `LivingStayKnown` (`LivingAreKnown`), `StopNeedsBoth` (`StoppedMeansAskedBoth`).
- `GoneStayForgotten` (`GoneAreForgotten`), where connections are not refused.
- `NeverBelowFour` (`CommitteesKeepFour`), where every committee begins with four members.
- `ImplementsRosters`: `Spec => RostersSpec`, the step simulation for every committee at once.

The invariant has one part per step of a call. `AskedFirst`: a wait or a yes means that a list without
the peer is out or adopted, which stays so because lists are only added; `ListsOut`: what may be
submitted a second time is what was submitted. `StopsFirst`: who notifies has stopped its API; as APIs
never start again, what a `/remove` that is alone takes is no living peer. `RacesNoted`: two that are
in service at one peer have met, and the peer is `crossed`, so that at the others every `/remove` is
alone and `LivingAreKnown` is inductive. `Remembered`: whoever runs, is not crossed and still knows a
caller that is not crossed is on the caller's list. It holds when the list is made because of
`LivingAreKnown` (a peer that knows the caller is a running member, so the caller knows it:
`CopyIsEnough`), and later because tables and the set of running APIs only shrink. That is why one copy,
taken before other leaves end, is enough. `crossed` is kept by the theorems, not bounded by them: they
hold whatever `MaxCrossed` is, of the peers that are not in it.

**`HostBootstrap_proofs`** (about 1,840), for any number of committees, sections and collisions:
- `MembersShareGenesis` (`CommitteesWhole`), `AdminKeyAdmitted` (`AdminCanReconfigure`): the part
  `Chains` of the invariant. A block a member has is the first member's of its own committee; that
  genesis names all of them and the process's one admin key, and so does every key file written later.
- `ServersOwned` (`ServersAreOwned`): the part `Servers`. A server that starts or serves is that of a
  peer of the dict; the peers opened so far are those before the cursor in the order of the loops
  (`Before`), all of them if no port came back twice.
- `TablesMatch` (`TablesAgree`), `HandsOverInit` (`HandOver`): the part `Network`, which holds until
  somebody leaves. A post that was answered has left the list `get_neighbors` builds (`Told`), for
  every peer before the one at hand; when the loop ends, for all.
- The composition with the leaves. `HandedOver`: what the call returns satisfies `CooperativeLeave`'s
  invariant, *also when a port came back twice* and the network is not `CooperativeLeave`'s initial
  state, because the dict and the tables lack the same peers. From there on its step lemmas apply:
  `ServingPeersKnown` (`LivingAreKnown`), `StopsAskedBoth` (`StoppedMeansAskedBoth`), `LeaversForgotten`
  (`GoneAreForgotten`), as restricted there to peers at which no two `/remove`s have overlapped.
  `FourFromTheStart` (`CommitteesKeepFour`) needs no hypothesis any more: a
  committee has as many peers as instances (`SeatsAreAllTaken`), and four at least.

**`PeerApi_proofs`** (about 1,090), for any threads, requests, starts and quorums: `ExecutedWhereAsked`
(`ExecutedInItsQuorum`), `RestartsSpareCalls` (`CallsKeepTheirContainer`), `OkIsTrue`
(`AcknowledgedMeansDone`), `KeysAreFound` (`KeysAreThere`), `MissingIsTemporary`
(`MissingOnlyDuringStart`). An Intersection has its ids and both containers before `config` holds it
(`ConfigOK`) and no two starts make the same one (`Distinct`); a thread that is in a call keeps both
halves up (`HolderOK`). The ids of the instance dispatched on are the new Intersection's, so a request
whose ids were tested against the old one runs in its quorum or not at all. What an *undisturbed* thread
has tested or stored is still so (`UndisturbedOK`), because whoever might change it has marked it on
arrival (`Quiet`); and the lists of the ids it finds are in the table, or a start is about to put them
there, or no start has come yet (`Keyed`).

**`NeighbourTable_proofs`** (about 1,880), for any threads, keys, neighbours and requests:
- `TypesHold` (`TypeOK`) and `OthersAreSpared` (`UndisturbedSparesOthers`) from `IInv`: a request that
  has met no other iterates over the object it deletes from, at the entry it has compared
  (`OnTarget`), and two requests at a time are both marked (`Alone`).
- `AnswersAreTrue` (`AnsweredMeansRemoved`) and `LossesAreBounded` (`LossIsBounded`), for lists without
  a port twice, from `PInv`. `Swept`: what lies behind the iterator is free of the port, which the
  entry skipped after a deletion does not break as the port is not there again. `Counted`: the entries a
  list object has lost and the requests that may still delete from it (`MayCut`) are no more than the
  requests so far. A request that has cut an object finds its port no more behind the entry it cut
  (`PassedBy`) and is `Spent` for it, and no two keys share an object, so it does not come back to it.
  `Embeds`: deletions keep the order.

**`Forwarding_proofs`** (about 360): `NeverForwardedTwice` (`ForwardedOnce`) and `NeverExecutedTwice`
(`ExecutedOnce`). `CandidatesAreMembers` is the reason: a table only ever lists members of the
committee of its key, so a label is one of the neighbour's own quorums, in any network and after any
departures. `LooksFindNeighbours` (`NeighbourFound`): a neighbour that stays is in the list of every
peer that serves and is not crossed (`LivingAreKnown`), so a look begins with all of them, and each
deletion hides one at most (`Explained`: those missing are no more than the deletions met).

**`MinIntersection_proofs`** (about 750) carries these over to the composition with the search
(`RequestsKeepTheirPromises`, `LooksStillFindNeighbours`) and proves `MapsStayTrue` (`FiledTruly`):
zipping drops entries and files none anew. `NobodyIsMissed` (`MapIsComplete`): while everyone serves,
nothing is deleted, every map is over all the ids, so a merge drops nothing (`WholeMerge`), and every
peer is asked or two calls away (`TwoCallsReachAll`); `Complete` says which neighbours are still to be
asked and that the others' peers are counted. `NobodyIsMissedInPairs` and `QuietLooksFind` discharge the
hypotheses for the networks of `make_intersecting_committees`: of each committee one whole intersection,
and of every other all peers but one, may leave, and a look that meets no deletion still finds a
neighbour, whatever was deleted before it.

**`CommitteeTopology_proofs`** (about 260): `PairingIsExact`: for every number of committees and of
intersections, no instance is used twice (`InstancesAreUsedOnce`: a place *n·k + x* names one section
and one index), none is left over (`InstancesAreAllUsed`: an instance whose place is at or after its
committee's id is a first half, else a second half), and any two committees share exactly the number
asked for (`CommitteesMeet`: a bijection with the sections). `SeatsAreAllTaken`: a committee has as many
peers as instances.

**Only model-checked:** liveness (`FullPageTimesOut`, `CallsReturn`, `LeaveEnds`, `BootstrapEnds`,
`RemovesEnd`, `RequestsEnd`, `SearchEnds`), since fairness and ENABLED are beyond the prover. That the
contract `CooperativeLeave` gives a `/remove` is one of the handler's rests on the theorems of
`NeighbourTable_proofs` and is argued in words: the two modules are not composed. The four refuted
claims need no proof: TLC's counterexamples refute them.

## 5. Not modelled, and the plan

Simplified: one settings proposal per block; ids of peers constant in `CooperativeLeave` and
`Forwarding`; one client request at a time there; two `/remove`s that overlap at a peer, whose outcome in
`CooperativeLeave` is any that their number allows; the expression that collects the ids of
`/min+intersection` (routes.py:125), one step over a list that it only reads; keys and values of
transactions; the containers' key files, addresses and commands. Left out:
- the evaluation scripts: measurements and plots around the library, sequential, without state;
- `check_for_confirmation` and `get_ports`, helpers of tests and measurements;
- a second `start` of a running peer, which nothing in the repository calls;
- Docker failing to run a command in a container that is up (`exec_run` raising); in `PeerApi` only its
  creation fails, and reading what a command printed;
- logging, docker and shell command text, `top`, `attached_network`.

`make_sawtooth_committee` returns no instance below four members, which the pairing's instances
respect (`HostAssumption`); the theorems about the pairing do not need it.

Left of the plan: nothing of the safety properties. Liveness stays with TLC and its instances.
