-------------------------- MODULE SawtoothCommittee --------------------------
(***************************************************************************)
(* One PBFT committee and the containers that re-configure it              *)
(* (src/SawtoothPBFT.py, class SawtoothContainer).  The ledger itself      *)
(* (Sawtooth) is external: it commits, loses or delays what is submitted,  *)
(* and a container sees a prefix of its blocks.  A membership call         *)
(* computes a complete key list, remembers the length of the chain it can  *)
(* see, submits the list and polls until that length grows or 45 s pass,   *)
(* submitting once more after three quarters of that time.  A pass of the  *)
(* polling loop takes two or three steps, since the chain may grow between *)
(* them: the loop's reading; a second reading, only logged, and the clock; *)
(* and the second submission.                                              *)
(***************************************************************************)
EXTENDS Integers, Sequences, FiniteSets

CONSTANTS
    Containers,     \* the containers, each named by its validator key
    Callers,        \* the containers whose membership calls are modelled
    Genesis,        \* the validator keys make_genesis is given
    AdminHolders,   \* the callers whose process holds the admin key
    Rosters,        \* the key lists passed straight to update_committee
    MaxCalls,       \* bound: membership calls in a behaviour
    MaxTraffic,     \* bound: blocks of client transactions
    PageLimit,      \* the blocks the REST API lists at most (100)
    ApiMayFail      \* whether the REST API may be unreachable or garbled

ASSUME MembersAssumption ==
    /\ Genesis \subseteq Containers
    /\ Callers \subseteq Containers
    /\ AdminHolders \subseteq Callers
    /\ Rosters \subseteq SUBSET Containers
    /\ Cardinality(Genesis) >= 4

ASSUME BoundsAssumption ==
    /\ MaxCalls \in Nat
    /\ MaxTraffic \in Nat
    /\ PageLimit \in Nat \ {0}
    /\ ApiMayFail \in BOOLEAN

VARIABLES
    chain,      \* the committed blocks; each carries the roster it leaves behind
    height,     \* how many of them each caller's own validator has
    pending,    \* the proposals submitted and not committed (some never are)
    call,       \* each caller's membership call, and what the last one returned
    calls,      \* the calls started so far; numbers them
    asked       \* history: the callers that have called leave_network

vars == <<chain, height, pending, call, calls, asked>>

Proposal ==
    [call : Nat, try : 1..2, keys : SUBSET Containers, read : Nat,
     without : SUBSET Containers]

\* read = 0 marks a list that was given and not read off the chain.
Block ==
    [call : Nat, roster : SUBSET Containers, read : Nat,
     without : SUBSET Containers]

Call ==
    [pc : {"idle", "size", "submit", "poll", "log", "retry"}, id : Nat,
     keys : SUBSET Containers, read : Nat, without : SUBSET Containers,
     size : Nat, seen : Nat,
     clock : {"early", "late", "over"}, retried : BOOLEAN,
     ret : {"none", "true", "false", "raised"}]
\* seen is history: the blocks that the loop's reading listed, until the next one.

Busy(n) == call[n].pc # "idle"
-----------------------------------------------------------------------------
(* The code's pure parts *)

\* get_peers: the members in the settings as this container's validator has them.
Peers(n) == chain[height[n]].roster

NewNetworkMutToggles(peers, key) ==
    IF key \in peers THEN peers \ {key} ELSE peers \cup {key}
NewNetworkMutDropsOther(peers, key) == peers \ {CHOOSE k \in peers : k # key}
NewNetwork(peers, key) == peers \ {key}

EnoughKeysMutOffByOne(keys) == Cardinality(keys) >= 3
EnoughKeys(keys) == Cardinality(keys) >= 4

\* len(self.blocks()['data']): the API lists one page of the chain.
VisibleSize(n) == IF height[n] > PageLimit THEN PageLimit ELSE height[n]

\* What a read of the chain may return; an unreachable API reads as no block.
SizesReadMutMinusOne(n) == {VisibleSize(n), -1}
SizesRead(n) == {VisibleSize(n)} \cup (IF ApiMayFail THEN {0} ELSE {})

\* while len(...) <= current_chain_size
HasGrownMutNotLess(n, size) == size >= call[n].size
HasGrownMutByTwo(n, size) == size > call[n].size + 1
HasGrown(n, size) == size > call[n].size

RetryDueMutAlways(n) == call[n].clock # "early"
RetryDue(n) == call[n].clock # "early" /\ ~call[n].retried

TimedOutMutNever(n) == call[n].clock = "never"
TimedOut(n) == call[n].clock = "over"
-----------------------------------------------------------------------------
(* A call's start, its proposals and its end *)

NoCall(ret) ==
    [pc |-> "idle", id |-> 0, keys |-> {}, read |-> 0, without |-> {},
     size |-> 0, seen |-> 0, clock |-> "early", retried |-> FALSE, ret |-> ret]

Returned(n, ret) == [NoCall(ret) EXCEPT !.id = call[n].id]

Started(keys, read, without) ==
    [NoCall("none") EXCEPT !.pc = "size", !.id = calls + 1, !.keys = keys,
                           !.read = read, !.without = without]

\* update_committee up to the submission: too few keys stop a leave only.
UpdateCommitteeCall(n, keys, read, without, stopOnFailure) ==
    IF (stopOnFailure /\ ~EnoughKeys(keys)) \/ n \notin AdminHolders
    THEN [NoCall("false") EXCEPT !.id = calls + 1]
    ELSE Started(keys, read, without)

ProposalOf(n, try) ==
    [call |-> call[n].id, try |-> try, keys |-> call[n].keys,
     read |-> call[n].read, without |-> call[n].without]

Init ==
    /\ chain = <<[call |-> 0, roster |-> Genesis, read |-> 0, without |-> {}]>>
    /\ height = [n \in Callers |-> IF n \in Genesis THEN 1 ELSE 0]
    /\ pending = {}
    /\ call = [n \in Callers |-> NoCall("none")]
    /\ calls = 0
    /\ asked = {}
-----------------------------------------------------------------------------
(* The membership calls *)

MayCall(n) ==
    /\ ~Busy(n)
    /\ height[n] > 0
    /\ calls < MaxCalls
    /\ calls' = calls + 1

LeaveNetwork(n) ==
    /\ MayCall(n)
    /\ asked' = asked \cup {n}
    /\ call' = [call EXCEPT ![n] =
            UpdateCommitteeCall(n, NewNetwork(Peers(n), n), height[n], {n}, TRUE)]
    /\ UNCHANGED <<chain, height, pending>>

UpdateCommittee(n) ==
    /\ MayCall(n)
    /\ \E keys \in Rosters :
         call' = [call EXCEPT ![n] = UpdateCommitteeCall(n, keys, 0, {}, FALSE)]
    /\ UNCHANGED <<chain, height, pending, asked>>

ReadChainSize(n) ==
    /\ call[n].pc = "size"
    /\ \E size \in SizesRead(n) :
         call' = [call EXCEPT ![n].size = size, ![n].pc = "submit"]
    /\ UNCHANGED <<chain, height, pending, calls, asked>>

Submit(n) ==
    /\ call[n].pc = "submit"
    /\ pending' = pending \cup {ProposalOf(n, 1)}
    /\ call' = [call EXCEPT ![n].pc = "poll"]
    /\ UNCHANGED <<chain, height, calls, asked>>

\* The loop's condition reads the chain; what it saw is used nowhere else.
PollChain(n) ==
    /\ call[n].pc = "poll"
    /\ \E size \in SizesRead(n) :
         call' = [call EXCEPT ![n] =
             IF HasGrown(n, size) THEN Returned(n, "true")
                                  ELSE [call[n] EXCEPT !.pc = "log", !.seen = size]]
    /\ UNCHANGED <<chain, height, pending, calls, asked>>

\* if end - start > UPDATE_TIMEOUT: the call gives up, or the loop goes on.
AfterPass(n) ==
    IF TimedOut(n) THEN Returned(n, "false")
    ELSE [call[n] EXCEPT !.pc = "poll", !.seen = 0,
                         !.retried = call[n].retried \/ call[n].pc = "retry"]

\* The second reading is logged only; then the clock is read, once for both tests.
ReadClock(n) ==
    /\ call[n].pc = "log"
    /\ call' = [call EXCEPT ![n] = IF RetryDue(n) THEN [call[n] EXCEPT !.pc = "retry"]
                                   ELSE AfterPass(n)]
    /\ UNCHANGED <<chain, height, pending, calls, asked>>

\* A pass that submits again goes on to the test of the timeout.
SubmitAgain(n) ==
    /\ call[n].pc = "retry"
    /\ pending' = pending \cup {ProposalOf(n, 2)}
    /\ call' = [call EXCEPT ![n] = AfterPass(n)]
    /\ UNCHANGED <<chain, height, calls, asked>>

\* time.time() - start passes 0.75 * UPDATE_TIMEOUT and then UPDATE_TIMEOUT.
\* What passes after the clock was read shows at its next reading.
Tick(n) ==
    /\ call[n].pc \in {"poll", "log"}
    /\ call[n].clock # "over"
    /\ call' = [call EXCEPT ![n].clock = IF @ = "early" THEN "late" ELSE "over"]
    /\ UNCHANGED <<chain, height, pending, calls, asked>>

\* An answer that is not JSON raises; what was submitted stays submitted.
Raise(n) ==
    /\ ApiMayFail
    /\ call[n].pc \in {"size", "poll", "log"}
    /\ call' = [call EXCEPT ![n] = Returned(n, "raised")]
    /\ UNCHANGED <<chain, height, pending, calls, asked>>

Poll(n) == PollChain(n) \/ ReadClock(n) \/ SubmitAgain(n)
-----------------------------------------------------------------------------
(* The ledger *)

\* A batch that is refused (back pressure) or lost stays in pending for ever:
\* no guard asks what is pending and nothing obliges the ledger to commit.
Commit(p) ==
    /\ chain' = Append(chain, [call |-> p.call, roster |-> p.keys,
                               read |-> p.read, without |-> p.without])
    /\ pending' = pending \ {p}
    /\ UNCHANGED <<height, call, calls, asked>>

TrafficBlocks == {i \in 2..Len(chain) : chain[i].call = 0}

\* A block of client transactions (submit_tx) leaves the roster alone.
Traffic ==
    /\ Cardinality(TrafficBlocks) < MaxTraffic
    /\ chain' = Append(chain, [call |-> 0, roster |-> chain[Len(chain)].roster,
                               read |-> Len(chain), without |-> {}])
    /\ UNCHANGED <<height, pending, call, calls, asked>>

CatchUp(n) ==
    /\ height[n] < Len(chain)
    /\ height' = [height EXCEPT ![n] = @ + 1]
    /\ UNCHANGED <<chain, pending, call, calls, asked>>

Next ==
    \/ \E n \in Callers :
         \/ LeaveNetwork(n) \/ UpdateCommittee(n)
         \/ ReadChainSize(n) \/ Submit(n)
         \/ PollChain(n) \/ ReadClock(n) \/ SubmitAgain(n)
         \/ Tick(n) \/ Raise(n) \/ CatchUp(n)
    \/ \E p \in pending : Commit(p)
    \/ Traffic

Spec == Init /\ [][Next]_vars

Proceed(n) == ReadChainSize(n) \/ Submit(n) \/ Poll(n)

\* A container command returns and time passes; nothing else is owed.
Fairness == \A n \in Callers : WF_vars(Proceed(n)) /\ WF_vars(Tick(n))

FairSpec == Spec /\ Fairness
-----------------------------------------------------------------------------
(* Properties *)

\* The variables keep their shape: every recorded length, roster, clock and
\* result of a membership call is one the code can hold.
TypeOK ==
    /\ chain \in Seq(Block) /\ Len(chain) >= 1
    /\ height \in [Callers -> Nat] /\ \A n \in Callers : height[n] <= Len(chain)
    /\ pending \subseteq Proposal
    /\ call \in [Callers -> Call]
    /\ calls \in Nat
    /\ asked \subseteq Callers

Four(keys) == Cardinality(keys) >= 4 \/ keys \in Rosters

\* update_committee's length test and leave_network's stop_on_failure: however
\* many containers leave at once, on however stale a roster, the committee
\* never falls below four keys unless an operator gave that very list.
FourUnlessTold == \A i \in DOMAIN chain : Four(chain[i].roster)

Undisputed == Genesis \cap {k \in Containers : \A keys \in Rosters : k \in keys}

\* leave_network drops the caller's own key and only that: a founding member
\* that never asked to leave and that no operator list omits keeps its seat
\* through every re-configuration, and nobody gets a seat but by such a list.
RosterWithinBounds ==
    \A i \in DOMAIN chain :
        /\ Undisputed \ asked \subseteq chain[i].roster
        /\ chain[i].roster \subseteq Genesis \cup UNION Rosters

\* leave_network writes back a whole list read earlier (a read-modify-write
\* with no lock).  When that brings a departed key back, the list was read
\* before the key left; a current list never re-admits anyone.
ReadmissionIsStale ==
    \A i \in 2..Len(chain) : \A k \in chain[i].roster \ chain[i-1].roster :
        \/ chain[i].roster \in Rosters
        \/ /\ chain[i].read \in 1..i-2
           /\ k \in chain[chain[i].read].roster

BlocksOf(id) == {i \in DOMAIN chain : chain[i].call = id}

\* __update_on_chain_settings submits again once: one call leaves at most two
\* blocks, however late its two proposals are committed.
CallCommitsAtMostTwice == \A id \in 1..calls : Cardinality(BlocksOf(id)) <= 2

\* A call that gives up (returns False after polling) did not have a block of its
\* own among those that its last reading listed, unless the page was full at the
\* first read and hides what is new.  A block that arrives after that reading is
\* reported as a failure: nothing is read again before the return.
TimeoutSawNothing ==
    [][\A n \in Callers : Busy(n) /\ call'[n].ret = "false" /\ call[n].size < PageLimit =>
            \A i \in 1..call[n].seen : chain[i].call # call[n].id]_vars

\* blocks() lists one page: a call that begins with the page full never returns True;
\* it is refused after the timeout, or raises, whatever is committed meanwhile.
FullPageTimesOut ==
    \A n \in Callers :
        call[n].pc = "submit" /\ call[n].size = PageLimit
            ~> call[n].ret \in {"false", "raised"}

\* The polling loop ends by growth, timeout or exception: every membership
\* call returns, whatever the ledger does.
CallsReturn == \A n \in Callers : Busy(n) ~> ~Busy(n)

\* What the code's own words claim of a result and the runs refute.

\* "update complete" (SawtoothPBFT.py:184) is logged when the chain has grown:
\* the call's own list should then be on the chain.
UpdateCompleteIsCommitted ==
    \A n \in Callers : call[n].ret = "true" => BlocksOf(call[n].id) # {}

\* "Remove self from network" (SmartShardPeer.py:99) follows a leave that
\* returned True: with no operator's list, who left the roster is not put back.
DepartedStaysOut ==
    \A i, j \in DOMAIN chain : i <= j => chain[i].without \cap chain[j].roster = {}

Roster == INSTANCE CommitteeRoster WITH
    roster <- chain[Len(chain)].roster,
    past <- {chain[i].roster : i \in DOMAIN chain},
    floating <- {p.keys : p \in pending}

\* The calls and the ledger together implement the abstract roster: it is
\* replaced whole, by an operator's list or by an earlier roster less one.
RosterSpec == Roster!Spec
-----------------------------------------------------------------------------
(* The inductive invariant: where every list in circulation comes from *)

Derived(list, read, without, before) ==
    \/ read = 0 /\ without = {} /\ list \in Rosters
    \/ /\ read \in 1..before
       /\ without \subseteq asked
       /\ list = chain[read].roster \ without

BlocksDerived ==
    \A i \in 2..Len(chain) :
        Derived(chain[i].roster, chain[i].read, chain[i].without, i - 1)

ProposalsDerived ==
    \A p \in pending :
        /\ Derived(p.keys, p.read, p.without, Len(chain))
        /\ Four(p.keys)

CallsDerived ==
    \A n \in Callers : Busy(n) =>
        /\ Derived(call[n].keys, call[n].read, call[n].without, Len(chain))
        /\ call[n].read > 0 => call[n].without = {n} /\ Cardinality(call[n].keys) >= 4

\* Every list proposed, about to be proposed or adopted was given by an
\* operator or is an earlier block's roster less keys that asked to leave.
IInv ==
    /\ TypeOK
    /\ BlocksDerived /\ ProposalsDerived /\ CallsDerived
    /\ FourUnlessTold /\ RosterWithinBounds
=============================================================================
