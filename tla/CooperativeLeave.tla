--------------------------- MODULE CooperativeLeave ---------------------------
(***************************************************************************)
(* SmartShardPeer.leave (src/SmartShardPeer.py): a peer, a member of two   *)
(* committees, leaves both, stops its API process and tells its neighbours *)
(* (their /remove handler, src/api/routes.py).  Several peers may leave at *)
(* once.  What leave_network answers says nothing of what becomes of the   *)
(* list it submitted (SawtoothCommittee): here an answer is arbitrary once *)
(* the list is out, and a list that is out may be adopted at any time.     *)
(* The owner's process and the API process each have a copy of the         *)
(* neighbour table: check_neighbors copies the latter into the former.     *)
(* A /remove is served by a thread of its own, without a lock: one that    *)
(* meets no other at its peer cuts the caller's port from the one list and *)
(* then from the other, one that meets another takes any one entry from a  *)
(* list, or none.  NeighbourTable has the handler line by line: these are  *)
(* what it promises (AnsweredMeansRemoved, UndisturbedSparesOthers) and    *)
(* what it does not exceed (LossIsBounded).                                *)
(***************************************************************************)
EXTENDS Naturals, FiniteSets

CONSTANTS
    Peers,          \* the peers, each named by its port
    Committees,     \* the committee ids
    IdA, IdB,       \* the committee of each peer's instance a, and of its b
    Leavers,        \* the peers whose owner calls leave
    AdminHolders,   \* the peers whose process holds the admin key
    MaxLeaves,      \* bound: calls of leave in a behaviour
    MaxAttempts,    \* times a notification is tried (5 in the code)
    MaxRosters,     \* bound: rosters a committee may have had
    MaxCrossed,     \* bound: peers at which two /removes may overlap
    Faults,         \* whether a connection to a running API may be refused
    CommandsMayFail \* whether leave_network may raise

ASSUME PeersAssumption ==
    /\ IdA \in [Peers -> Committees] /\ IdB \in [Peers -> Committees]
    /\ Leavers \subseteq Peers /\ AdminHolders \subseteq Peers
    /\ MaxLeaves \in Nat /\ MaxAttempts \in Nat \ {0}
    /\ MaxRosters \in Nat /\ MaxCrossed \in Nat
    /\ Faults \in BOOLEAN /\ CommandsMayFail \in BOOLEAN

VARIABLES
    past,       \* the rosters each committee has had, the one in force included
    roster,     \* the roster of each committee in force
    floating,   \* the lists each committee has been proposed and not adopted
    running,    \* the peers whose containers run (until the owner deletes the peer)
    api,        \* the peers whose API process runs
    table,      \* the API process's neighbours, by committee
    leave,      \* the owner's call of leave, and what the last one returned
    leaves,     \* the calls of leave so far
    met,        \* the callers whose /remove in service has met another one
    crossed     \* history: the peers at which two /removes have overlapped

races == <<met, crossed>>
vars == <<past, roster, floating, running, api, table, leave, leaves, met, crossed>>
ledger == <<past, roster, floating>>

InCommittee(c) == {p \in Peers : c \in {IdA[p], IdB[p]}}

Call ==
    [pc : {"idle", "askA", "waitA", "askB", "waitB", "decide", "notify", "cutA", "cutB"},
     a : BOOLEAN, b : BOOLEAN,
     list : SUBSET Peers, again : BOOLEAN,  \* the list that is out, may it go out again
     todo : SUBSET (Committees \X Peers), attempts : 0..MaxAttempts,
     ret : {"none", "true", "false", "raised"}]

Idle(ret) == [pc |-> "idle", a |-> FALSE, b |-> FALSE, list |-> {}, again |-> FALSE,
              todo |-> {}, attempts |-> 0, ret |-> ret]

\* make_intersecting_committees_on_host: every peer knows every other member.
Init ==
    /\ roster = [c \in Committees |-> InCommittee(c)]
    /\ past = [c \in Committees |-> {InCommittee(c)}]
    /\ floating = [c \in Committees |-> {}]
    /\ running = Peers
    /\ api = Peers
    /\ table = [p \in Peers |-> [c \in {IdA[p], IdB[p]} |-> InCommittee(c) \ {p}]]
    /\ leave = [p \in Peers |-> Idle("none")]
    /\ leaves = 0
    /\ met = {} /\ crossed = {}
-----------------------------------------------------------------------------
(* Leaving a committee *)

\* The entries of p's neighbour table.
Neighbours(p) ==
    {e \in Committees \X Peers : e[1] \in DOMAIN table[p] /\ e[2] \in table[p][e[1]]}

Knows(q, p) == \E c \in DOMAIN table[q] : p \in table[q][c]

\* check_neighbors copies the API process's table; nothing catches a refusal.
CheckNeighbors(p) ==
    /\ leave[p].pc = "idle" /\ p \in api /\ leaves < MaxLeaves
    /\ leaves' = leaves + 1
    /\ \/ leave' = [leave EXCEPT ![p] = [Idle("none") EXCEPT !.pc = "askA",
                                                          !.todo = Neighbours(p)]]
       \/ Faults /\ leave' = [leave EXCEPT ![p] = Idle("raised")]
    /\ UNCHANGED <<ledger, running, api, table, races>>

\* update_committee's tests before it submits.
MayUpdateMutCountsLeaver(p, list) == Cardinality(list \cup {p}) >= 4 /\ p \in AdminHolders
MayUpdate(p, list) == Cardinality(list) >= 4 /\ p \in AdminHolders

\* leave_network of the instance in committee c up to the submission: a refusal
\* is answered at once, a list read off a lagging roster goes out.
AskToLeave(p, c, ask, wait, next) ==
    /\ leave[p].pc = ask
    /\ \E old \in past[c] :
         IF MayUpdate(p, old \ {p})
         THEN /\ floating' = [floating EXCEPT ![c] = @ \cup {old \ {p}}]
              /\ leave' = [leave EXCEPT ![p].pc = wait, ![p].list = old \ {p},
                                        ![p].again = TRUE]
         ELSE /\ leave' = [leave EXCEPT ![p].pc = next]
              /\ UNCHANGED floating
    /\ UNCHANGED <<past, roster, running, api, table, leaves, races>>

AskA(p) == AskToLeave(p, IdA[p], "askA", "waitA", "askB")
AskB(p) == AskToLeave(p, IdB[p], "askB", "waitB", "decide")

\* After three quarters of the waiting time the list goes out a second time.
SubmitAgain(p, c, wait) ==
    /\ leave[p].pc = wait /\ leave[p].again
    /\ floating' = [floating EXCEPT ![c] = @ \cup {leave[p].list}]
    /\ leave' = [leave EXCEPT ![p].again = FALSE]
    /\ UNCHANGED <<past, roster, running, api, table, leaves, races>>

AgainA(p) == SubmitAgain(p, IdA[p], "waitA")
AgainB(p) == SubmitAgain(p, IdB[p], "waitB")

AnswerA(p) ==
    /\ leave[p].pc = "waitA"
    /\ \E yes \in BOOLEAN :
         leave' = [leave EXCEPT ![p].a = yes, ![p].pc = "askB",
                                ![p].list = {}, ![p].again = FALSE]
    /\ UNCHANGED <<ledger, running, api, table, leaves, races>>

AnswerB(p) ==
    /\ leave[p].pc = "waitB"
    /\ \E yes \in BOOLEAN :
         leave' = [leave EXCEPT ![p].b = yes, ![p].pc = "decide",
                                ![p].list = {}, ![p].again = FALSE]
    /\ UNCHANGED <<ledger, running, api, table, leaves, races>>

\* leave does not catch what leave_network raises.
AnswerRaises(p) ==
    /\ CommandsMayFail
    /\ leave[p].pc \in {"askA", "waitA", "askB", "waitB"}
    /\ leave' = [leave EXCEPT ![p] = Idle("raised")]
    /\ UNCHANGED <<ledger, running, api, table, leaves, races>>

\* The ledger adopts a list that is out, at any time.
Adopt(c) ==
    /\ \E list \in floating[c] :
         /\ Cardinality(past[c] \cup {list}) <= MaxRosters
         /\ roster' = [roster EXCEPT ![c] = list]
         /\ past' = [past EXCEPT ![c] = @ \cup {list}]
         /\ floating' = [floating EXCEPT ![c] = @ \ {list}]
    /\ UNCHANGED <<running, api, table, leave, leaves, races>>
-----------------------------------------------------------------------------
(* The outcome *)

BothSaidYesMutEither(p) == leave[p].a \/ leave[p].b
BothSaidYes(p) == leave[p].a /\ leave[p].b

\* app.terminate() and app.join() come before the first notification.
TerminateMutTooLate(p) ==
    /\ leave[p].pc = "decide" /\ BothSaidYes(p)
    /\ leave' = [leave EXCEPT ![p].pc = "notify"]
    /\ UNCHANGED <<ledger, running, api, table, leaves, races>>
Terminate(p) ==
    /\ leave[p].pc = "decide" /\ BothSaidYes(p)
    /\ api' = api \ {p}
    /\ leave' = [leave EXCEPT ![p].pc = "notify"]
    /\ UNCHANGED <<ledger, running, table, leaves, races>>

\* get_ips: the validator's peer list (external) holds the other running containers
\* of the committee.
ReportedIps(p, c) == (running \cap InCommittee(c)) \ {p}

\* join_sawtooth's assertion, on its own in rejoin_network.
JoinAssertionFails(ips) == Cardinality(ips) < 4
RejoinFails(p, c) == JoinAssertionFails(ReportedIps(p, c))

Rejoin(p) ==
    /\ leave[p].pc = "decide" /\ ~BothSaidYes(p)
    /\ leave' = [leave EXCEPT ![p] = Idle(
            IF \/ ~leave[p].a /\ RejoinFails(p, IdA[p])
               \/ ~leave[p].b /\ RejoinFails(p, IdB[p])
            THEN "raised" ELSE "false")]
    /\ UNCHANGED <<ledger, running, api, table, leaves, races>>

\* The order of the loops over quorums is fixed by the table, and any will do.
NextEntry(p) == CHOOSE e \in leave[p].todo : TRUE

\* p's /remove is in service at q.
Cutting(p, q) == leave[p].pc \in {"cutA", "cutB"} /\ NextEntry(p)[2] = q

\* The neighbour accepts the call: from now on it and those in service there race.
PostRemove(p) ==
    LET q == NextEntry(p)[2]
        others == {r \in Leavers : Cutting(r, q)} IN
    /\ leave[p].pc = "notify" /\ leave[p].todo # {} /\ q \in api
    /\ leave' = [leave EXCEPT ![p].pc = "cutA"]
    /\ IF others = {} THEN met' = met \ {p} /\ UNCHANGED crossed
       ELSE /\ Cardinality(crossed \cup {q}) <= MaxCrossed
            /\ met' = met \cup others \cup {p} /\ crossed' = crossed \cup {q}
    /\ UNCHANGED <<ledger, running, api, table, leaves>>

\* What the thread may take out of a list: an index counted before another
\* thread's deletion names another entry or none, and an error ends the request.
Cuts(p, entries) == IF p \in met THEN {{}} \cup {{x} : x \in entries} ELSE {{p}}

\* The thread's pass over the list of committee c at q.
CutListMutFirstOnly(p, q, c) ==
    IF c = IdA[q] THEN table' = [table EXCEPT ![q][c] = @ \ {p}] ELSE UNCHANGED table
CutList(p, q, c) ==
    \E gone \in Cuts(p, table[q][c]) : table' = [table EXCEPT ![q][c] = @ \ gone]

CutA(p) ==
    LET q == NextEntry(p)[2] IN
    /\ leave[p].pc = "cutA" /\ q \in api
    /\ CutList(p, q, IdA[q])
    /\ leave' = [leave EXCEPT ![p].pc = "cutB"]
    /\ UNCHANGED <<ledger, running, api, leaves, races>>

\* The neighbour answers, with 200 or 500; the loop goes on to the next entry.
CutB(p) ==
    LET q == NextEntry(p)[2] IN
    /\ leave[p].pc = "cutB" /\ q \in api
    /\ CutList(p, q, IdB[q])
    /\ leave' = [leave EXCEPT ![p].pc = "notify", ![p].todo = @ \ {NextEntry(p)},
                              ![p].attempts = 0]
    /\ UNCHANGED <<ledger, running, api, leaves, races>>

\* ConnectionError: the fifth one ends the loop with attempts = 5, which the test
\* attempts > 5 does not catch, and the next entry's turn comes.
AfterRefusalMutForever(p) ==
    [leave[p] EXCEPT !.pc = "notify", !.attempts = (@ + 1) % MaxAttempts]
AfterRefusalMutTooMany(p) ==
    IF leave[p].attempts < MaxAttempts + 1
    THEN [leave[p] EXCEPT !.pc = "notify", !.attempts = @ + 1]
    ELSE [leave[p] EXCEPT !.pc = "notify", !.todo = @ \ {NextEntry(p)}, !.attempts = 0]
AfterRefusal(p) ==
    IF leave[p].attempts + 1 < MaxAttempts
    THEN [leave[p] EXCEPT !.pc = "notify", !.attempts = @ + 1]
    ELSE [leave[p] EXCEPT !.pc = "notify", !.todo = @ \ {NextEntry(p)}, !.attempts = 0]

\* Refused, or broken off because the neighbour's process ends with its threads.
NotifyRefused(p) ==
    /\ leave[p].pc \in {"notify", "cutA", "cutB"} /\ leave[p].todo # {}
    /\ NextEntry(p)[2] \notin api \/ (Faults /\ leave[p].pc = "notify")
    /\ leave' = [leave EXCEPT ![p] = AfterRefusal(p)]
    /\ UNCHANGED <<ledger, running, api, table, leaves, races>>

LeaveReturns(p) ==
    /\ leave[p].pc = "notify" /\ leave[p].todo = {}
    /\ leave' = [leave EXCEPT ![p] = Idle("true")]
    /\ UNCHANGED <<ledger, running, api, table, leaves, races>>

\* The owner drops the peer object, whatever leave returned: __del__ stops the
\* containers and the API process.
Delete(p) ==
    /\ leave[p].pc = "idle" /\ leave[p].ret # "none" /\ p \in running
    /\ running' = running \ {p}
    /\ api' = api \ {p}
    /\ UNCHANGED <<ledger, table, leave, leaves, races>>

Step(p) ==
    \/ AskA(p) \/ AgainA(p) \/ AnswerA(p) \/ AskB(p) \/ AgainB(p) \/ AnswerB(p)
    \/ AnswerRaises(p) \/ Terminate(p) \/ Rejoin(p) \/ LeaveReturns(p)
    \/ PostRemove(p) \/ CutA(p) \/ CutB(p) \/ NotifyRefused(p)

Next ==
    \/ \E p \in Leavers : CheckNeighbors(p) \/ Step(p) \/ Delete(p)
    \/ \E c \in Committees : Adopt(c)

Spec == Init /\ [][Next]_vars

\* The owner's process runs; the ledger, the network and the owner owe nothing.
FairSpec == Spec /\ \A p \in Leavers : WF_vars(Step(p))
-----------------------------------------------------------------------------
(* Properties *)

\* The variables keep their shape; no call is left with attempts beyond the cap.
TypeOK ==
    /\ \A c \in Committees :
         /\ roster[c] \in past[c] /\ past[c] \subseteq SUBSET InCommittee(c)
         /\ floating[c] \subseteq SUBSET InCommittee(c)
    /\ running \subseteq Peers /\ api \subseteq running
    /\ \A p \in Peers : /\ DOMAIN table[p] = {IdA[p], IdB[p]}
                        /\ \A c \in DOMAIN table[p] : table[p][c] \subseteq InCommittee(c) \ {p}
    /\ leave \in [Peers -> Call]
    /\ leaves \in 0..MaxLeaves
    /\ met \subseteq Leavers /\ crossed \subseteq Peers

\* leave stops the API before the first /remove and no refused or raising leave
\* sends one: a peer at which no two /removes have overlapped has every neighbour
\* whose API runs in its table.
LivingAreKnown ==
    \A c \in Committees : \A p, q \in InCommittee(c) \cap api :
        p # q /\ p \notin crossed => q \in table[p][c]

\* When leave has returned True, no running peer at which no two /removes have
\* overlapped lists the leaver, also when both committees are shared and when
\* others leave meanwhile on a copy of the table that still has this peer: one
\* copy is enough if none overlapped at the leaver (without refused connections).
GoneAreForgotten ==
    \A p \in Leavers \ crossed : leave[p].ret = "true" =>
        \A q \in api \ crossed : ~Knows(q, p)

\* An API process is stopped by leave only when a list without the peer was
\* submitted to each of its committees.
StoppedMeansAskedBoth ==
    \A p \in Leavers : leave[p].pc \in {"notify", "cutA", "cutB"} \/ leave[p].ret = "true" =>
        \A c \in {IdA[p], IdB[p]} :
            \E list \in past[c] \cup floating[c] : p \notin list

\* However many peers leave at once, no committee falls below four members.
CommitteesKeepFour == \A c \in Committees : Cardinality(roster[c]) >= 4

\* leave ends: the answers come, attempts are counted, unreachable neighbours
\* are given up.
LeaveEnds == \A p \in Leavers : leave[p].pc # "idle" ~> leave[p].pc = "idle"

RosterOf(c) == INSTANCE CommitteeRoster WITH
    Containers <- Peers, Callers <- Leavers,
    Genesis <- InCommittee(c), Rosters <- {},
    roster <- roster[c], past <- past[c], floating <- floating[c]

\* Each committee of the network is a roster as CommitteeRoster specifies it:
\* leaving two committees at once breaks the promise of neither.
RostersSpec ==
    /\ \A c \in Committees : RosterOf(c)!Init
    /\ [][\A c \in Committees : [RosterOf(c)!Next]_(RosterOf(c)!vars)]_vars

\* What the code's own words claim and the runs refute.

\* "... was unable to cooperatively leave committee ... - rejoining"
\* (SmartShardPeer.py:104): a refused leave rejoins and returns False.
RefusedLeaveReturns == \A p \in Leavers : leave[p].ret # "raised"
=============================================================================
