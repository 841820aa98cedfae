------------------------ MODULE CooperativeLeave_proofs ------------------------
(***************************************************************************)
(* Proofs about CooperativeLeave, for every set of peers, committees and   *)
(* leavers and any number of calls.  IInv adds to the types where a call   *)
(* stands: what it has submitted and may submit again, that its API has    *)
(* stopped before it notifies, which removes have overlapped, and that     *)
(* where none did whoever still knows the leaver is on its list.           *)
(***************************************************************************)
EXTENDS CooperativeLeave, TLAPS

Domains ==
    /\ DOMAIN past = Committees /\ DOMAIN roster = Committees
    /\ DOMAIN floating = Committees /\ DOMAIN table = Peers

LedgerOK ==
    \A c \in Committees :
        /\ roster[c] \in past[c] /\ past[c] \subseteq SUBSET InCommittee(c)
        /\ floating[c] \subseteq SUBSET InCommittee(c)

TablesOK ==
    \A p \in Peers : /\ DOMAIN table[p] = {IdA[p], IdB[p]}
                     /\ \A c \in DOMAIN table[p] : table[p][c] \subseteq InCommittee(c) \ {p}

\* A call keeps its shape whatever fields a step changes.
LEMMA CallFields ==
    ASSUME leave \in [Peers -> Call], NEW p \in Peers
    PROVE  /\ leave[p].a \in BOOLEAN /\ leave[p].b \in BOOLEAN
           /\ leave[p].list \subseteq Peers /\ leave[p].again \in BOOLEAN
           /\ leave[p].todo \subseteq Committees \X Peers
           /\ leave[p].attempts \in 0..MaxAttempts
  BY DEF Call

LEMMA IdleShape ==
    ASSUME NEW ret \in {"none", "true", "false", "raised"}
    PROVE  Idle(ret) \in Call
  BY PeersAssumption DEF Idle, Call

LEMMA StartedShape ==
    ASSUME NEW p \in Peers
    PROVE  [Idle("none") EXCEPT !.pc = "askA", !.todo = Neighbours(p)] \in Call
<1>1. Neighbours(p) \in SUBSET (Committees \X Peers)
  BY DEF Neighbours
<1>2. Idle("none") \in Call
  BY IdleShape
<1>3. \A r \in Call : [r EXCEPT !.pc = "askA", !.todo = Neighbours(p)] \in Call
  BY <1>1 DEF Call
<1> QED
  BY <1>2, <1>3

LEMMA IdleFields ==
    ASSUME NEW ret \in {"none", "true", "false", "raised"}
    PROVE  /\ Idle(ret).pc = "idle" /\ Idle(ret).ret = ret
           /\ ~Idle(ret).a /\ ~Idle(ret).b
  BY DEF Idle

LEMMA StartedFields ==
    ASSUME NEW p \in Peers, NEW next,
           next = [Idle("none") EXCEPT !.pc = "askA", !.todo = Neighbours(p)]
    PROVE  /\ next.pc = "askA" /\ next.todo = Neighbours(p) /\ next.ret = "none"
           /\ ~next.a /\ ~next.b
<1>1. PICK idle \in Call : idle = Idle("none")
  BY IdleShape
<1>2. ~idle.a /\ ~idle.b /\ idle.ret = "none"
  BY <1>1, IdleFields
<1>3. next = [idle EXCEPT !.pc = "askA", !.todo = Neighbours(p)]
  BY <1>1
<1> QED
  BY <1>2, <1>3 DEF Call

LEMMA RefusedShape ==
    ASSUME leave \in [Peers -> Call], NEW p \in Peers
    PROVE  AfterRefusal(p) \in Call
<1>1. leave[p] \in Call
  OBVIOUS
<1>2. CASE leave[p].attempts + 1 < MaxAttempts
  <2>1. leave[p].attempts + 1 \in 0..MaxAttempts
    BY <1>2, CallFields, PeersAssumption
  <2> QED
    BY <1>1, <1>2, <2>1 DEF AfterRefusal, Call
<1>3. CASE ~(leave[p].attempts + 1 < MaxAttempts)
  <2>1. leave[p].todo \ {NextEntry(p)} \in SUBSET (Committees \X Peers)
    BY CallFields
  <2>2. 0 \in 0..MaxAttempts
    BY PeersAssumption
  <2> QED
    BY <1>1, <1>3, <2>1, <2>2 DEF AfterRefusal, Call
<1> QED
  BY <1>2, <1>3
-----------------------------------------------------------------------------
(* What a step of a peer's call does to the calls: one action, one call *)

Answered(p) == [leave[p] EXCEPT !.pc = "notify", !.todo = @ \ {NextEntry(p)}, !.attempts = 0]

\* The step from one call to the next, action by action.
CallStep(p, next) ==
    \/ CheckNeighbors(p) /\ next \in {Idle("raised"),
           [Idle("none") EXCEPT !.pc = "askA", !.todo = Neighbours(p)]}
    \/ AskA(p) /\ \/ next = [leave[p] EXCEPT !.pc = "askB"]
                  \/ \E list \in SUBSET Peers :
                        next = [leave[p] EXCEPT !.pc = "waitA", !.list = list, !.again = TRUE]
    \/ AskB(p) /\ \/ next = [leave[p] EXCEPT !.pc = "decide"]
                  \/ \E list \in SUBSET Peers :
                        next = [leave[p] EXCEPT !.pc = "waitB", !.list = list, !.again = TRUE]
    \/ (AgainA(p) \/ AgainB(p)) /\ next = [leave[p] EXCEPT !.again = FALSE]
    \/ AnswerA(p) /\ \E yes \in BOOLEAN :
           next = [leave[p] EXCEPT !.a = yes, !.pc = "askB", !.list = {}, !.again = FALSE]
    \/ AnswerB(p) /\ \E yes \in BOOLEAN :
           next = [leave[p] EXCEPT !.b = yes, !.pc = "decide", !.list = {}, !.again = FALSE]
    \/ AnswerRaises(p) /\ next = Idle("raised")
    \/ Terminate(p) /\ next = [leave[p] EXCEPT !.pc = "notify"]
    \/ Rejoin(p) /\ next \in {Idle("raised"), Idle("false")}
    \/ PostRemove(p) /\ next = [leave[p] EXCEPT !.pc = "cutA"]
    \/ CutA(p) /\ next = [leave[p] EXCEPT !.pc = "cutB"]
    \/ CutB(p) /\ next = Answered(p)
    \/ NotifyRefused(p) /\ next = AfterRefusal(p)
    \/ LeaveReturns(p) /\ next = Idle("true")

LEMMA CallSteps ==
    ASSUME leave \in [Peers -> Call], LedgerOK,
           NEW p \in Leavers, CheckNeighbors(p) \/ Step(p)
    PROVE  /\ leave' = [leave EXCEPT ![p] = leave'[p]]
           /\ CallStep(p, leave'[p])
           /\ leave'[p] \in Call
<1> p \in Peers
  BY PeersAssumption
<1>0. leave[p] \in Call
  OBVIOUS
<1>1. CASE CheckNeighbors(p)
  <2>1. \/ leave' = [leave EXCEPT ![p] = [Idle("none") EXCEPT !.pc = "askA", !.todo = Neighbours(p)]]
        \/ leave' = [leave EXCEPT ![p] = Idle("raised")]
    BY <1>1 DEF CheckNeighbors
  <2> QED
    BY <1>1, <2>1, StartedShape, IdleShape DEF CallStep
<1> DEFINE Waits(wait, list) == [leave[p] EXCEPT !.pc = wait, !.list = list, !.again = TRUE]
           Told(next) == [leave[p] EXCEPT !.pc = next]
<1>2. ASSUME NEW c \in Committees, NEW ask,
             NEW wait \in {"waitA", "waitB"}, NEW next \in {"askB", "decide"},
             AskToLeave(p, c, ask, wait, next)
      PROVE  /\ leave' = [leave EXCEPT ![p] = leave'[p]] /\ leave'[p] \in Call
             /\ leave'[p] = Told(next) \/ \E list \in SUBSET Peers : leave'[p] = Waits(wait, list)
  <2>1. PICK old \in past[c] :
           \/ leave' = [leave EXCEPT ![p].pc = wait, ![p].list = old \ {p}, ![p].again = TRUE]
           \/ leave' = [leave EXCEPT ![p].pc = next]
    BY <1>2 DEF AskToLeave
  <2>2. old \ {p} \in SUBSET Peers
    BY <2>1 DEF LedgerOK, InCommittee
  <2>3. \/ leave' = [leave EXCEPT ![p] = Waits(wait, old \ {p})]
        \/ leave' = [leave EXCEPT ![p] = Told(next)]
    <3>1. CASE leave' = [leave EXCEPT ![p].pc = next]
      BY <3>1
    <3>2. CASE leave' = [leave EXCEPT ![p].pc = wait, ![p].list = old \ {p}, ![p].again = TRUE]
      <4>1. leave' = [leave EXCEPT ![p] = Waits(wait, old \ {p})]
        BY <3>2, <1>0 DEF Call
      <4> QED
        BY <4>1
    <3> QED
      BY <2>1, <3>1, <3>2
  <2>4. Waits(wait, old \ {p}) \in Call /\ Told(next) \in Call
    BY <1>0, <2>2 DEF Call
  <2> QED
    BY <2>2, <2>3, <2>4
<1>3. CASE AskA(p)
  <2>1. IdA[p] \in Committees
    BY PeersAssumption
  <2>2. AskToLeave(p, IdA[p], "askA", "waitA", "askB")
    BY <1>3 DEF AskA
  <2> QED
    BY <1>2, <1>3, <2>1, <2>2 DEF CallStep
<1>4. CASE AskB(p)
  <2>1. IdB[p] \in Committees
    BY PeersAssumption
  <2>2. AskToLeave(p, IdB[p], "askB", "waitB", "decide")
    BY <1>4 DEF AskB
  <2> QED
    BY <1>2, <1>4, <2>1, <2>2 DEF CallStep
<1>12. CASE AgainA(p) \/ AgainB(p)
  <2>1. leave' = [leave EXCEPT ![p] = [leave[p] EXCEPT !.again = FALSE]]
    BY <1>12 DEF AgainA, AgainB, SubmitAgain
  <2>2. [leave[p] EXCEPT !.again = FALSE] \in Call
    BY <1>0 DEF Call
  <2> QED
    BY <1>12, <2>1, <2>2 DEF CallStep
<1>5. CASE AnswerA(p)
  <2> DEFINE Next1(yes) ==
               [leave[p] EXCEPT !.a = yes, !.pc = "askB", !.list = {}, !.again = FALSE]
  <2>1. PICK yes \in BOOLEAN :
           leave' = [leave EXCEPT ![p].a = yes, ![p].pc = "askB", ![p].list = {},
                                  ![p].again = FALSE]
    BY <1>5 DEF AnswerA
  <2>2. leave' = [leave EXCEPT ![p] = Next1(yes)]
    BY <2>1, <1>0 DEF Call
  <2>3. Next1(yes) \in Call
    BY <1>0 DEF Call
  <2> QED
    BY <1>5, <2>2, <2>3 DEF CallStep
<1>13. CASE AnswerB(p)
  <2> DEFINE Next2(yes) ==
               [leave[p] EXCEPT !.b = yes, !.pc = "decide", !.list = {}, !.again = FALSE]
  <2>1. PICK yes \in BOOLEAN :
           leave' = [leave EXCEPT ![p].b = yes, ![p].pc = "decide", ![p].list = {},
                                  ![p].again = FALSE]
    BY <1>13 DEF AnswerB
  <2>2. leave' = [leave EXCEPT ![p] = Next2(yes)]
    BY <2>1, <1>0 DEF Call
  <2>3. Next2(yes) \in Call
    BY <1>0 DEF Call
  <2> QED
    BY <1>13, <2>2, <2>3 DEF CallStep
<1>6. CASE AnswerRaises(p)
  BY <1>6, IdleShape DEF AnswerRaises, CallStep
<1>7. CASE Terminate(p)
  <2>1. leave' = [leave EXCEPT ![p] = [leave[p] EXCEPT !.pc = "notify"]]
    BY <1>7 DEF Terminate
  <2>2. [leave[p] EXCEPT !.pc = "notify"] \in Call
    BY <1>0 DEF Call
  <2> QED
    BY <1>7, <2>1, <2>2 DEF CallStep
<1>8. CASE Rejoin(p)
  <2>1. \/ leave' = [leave EXCEPT ![p] = Idle("raised")]
        \/ leave' = [leave EXCEPT ![p] = Idle("false")]
    BY <1>8 DEF Rejoin
  <2> QED
    BY <1>8, <2>1, IdleShape DEF CallStep
<1>9. CASE PostRemove(p) \/ CutA(p)
  <2>1. \E next \in {"cutA", "cutB"} :
           /\ leave' = [leave EXCEPT ![p] = [leave[p] EXCEPT !.pc = next]]
           /\ CallStep(p, [leave[p] EXCEPT !.pc = next])
    BY <1>9 DEF PostRemove, CutA, CallStep
  <2>2. \A next \in {"cutA", "cutB"} : [leave[p] EXCEPT !.pc = next] \in Call
    BY <1>0 DEF Call
  <2> QED
    BY <2>1, <2>2
<1>14. CASE CutB(p)
  <2>1. leave' = [leave EXCEPT ![p] = Answered(p)]
    BY <1>14, <1>0 DEF CutB, Call, Answered
  <2>2. /\ leave[p].todo \ {NextEntry(p)} \in SUBSET (Committees \X Peers)
        /\ 0 \in 0..MaxAttempts
    BY CallFields, PeersAssumption
  <2>3. Answered(p) \in Call
    BY <1>0, <2>2 DEF Call, Answered
  <2> QED
    BY <1>14, <2>1, <2>3 DEF CallStep
<1>10. CASE NotifyRefused(p)
  BY <1>10, RefusedShape DEF NotifyRefused, CallStep
<1>11. CASE LeaveReturns(p)
  BY <1>11, IdleShape DEF LeaveReturns, CallStep
<1> QED
  BY <1>1, <1>3, <1>4, <1>5, <1>6, <1>7, <1>8, <1>9, <1>10, <1>11, <1>12, <1>13, <1>14
     DEF Step
-----------------------------------------------------------------------------
(* Types *)

\* What a step may do to the ledger: a member submits a roster without itself, or
\* a list that is out is adopted.
Submission(p, c) ==
    \E old \in past[c] :
        /\ MayUpdate(p, old \ {p})
        /\ floating' = [floating EXCEPT ![c] = @ \cup {old \ {p}}]
        /\ UNCHANGED <<past, roster>>

\* A list that waits for its answer is a roster of some earlier time without the
\* caller, and one that update_committee lets through.
Proposed(p, c) ==
    MayUpdate(p, leave[p].list) /\ \E old \in past[c] : leave[p].list = old \ {p}

ListsOut ==
    \A p \in Leavers : /\ leave[p].pc = "waitA" => Proposed(p, IdA[p])
                       /\ leave[p].pc = "waitB" => Proposed(p, IdB[p])

LEMMA LedgerSteps ==
    ASSUME ListsOut, Next
    PROVE  \/ UNCHANGED ledger
           \/ \E p \in Leavers : Submission(p, IdA[p]) \/ Submission(p, IdB[p])
           \/ \E c \in Committees : Adopt(c)
<1>1. CASE \E c \in Committees : Adopt(c)
  BY <1>1
<1>2. ASSUME NEW p \in Leavers, AskA(p)
      PROVE  UNCHANGED ledger \/ Submission(p, IdA[p])
  BY <1>2 DEF AskA, AskToLeave, ledger, Submission
<1>3. ASSUME NEW p \in Leavers, AskB(p)
      PROVE  UNCHANGED ledger \/ Submission(p, IdB[p])
  BY <1>3 DEF AskB, AskToLeave, ledger, Submission
<1>4. ASSUME NEW p \in Leavers,
             \/ CheckNeighbors(p) \/ AnswerA(p) \/ AnswerB(p) \/ AnswerRaises(p)
             \/ Terminate(p) \/ Rejoin(p) \/ LeaveReturns(p)
             \/ PostRemove(p) \/ CutA(p) \/ CutB(p) \/ NotifyRefused(p) \/ Delete(p)
      PROVE  UNCHANGED ledger
  BY <1>4 DEF CheckNeighbors, AnswerA, AnswerB, AnswerRaises, Terminate, Rejoin,
              LeaveReturns, PostRemove, CutA, CutB, NotifyRefused, Delete
<1>5. ASSUME NEW p \in Leavers, AgainA(p)
      PROVE  Submission(p, IdA[p])
  BY <1>5 DEF AgainA, SubmitAgain, ListsOut, Proposed, Submission
<1>6. ASSUME NEW p \in Leavers, AgainB(p)
      PROVE  Submission(p, IdB[p])
  BY <1>6 DEF AgainB, SubmitAgain, ListsOut, Proposed, Submission
<1> QED
  BY <1>1, <1>2, <1>3, <1>4, <1>5, <1>6 DEF Next, Step

LEMMA LedgerTypes ==
    ASSUME LedgerOK, Domains, ListsOut, Next
    PROVE  LedgerOK' /\ DOMAIN past' = Committees /\ DOMAIN roster' = Committees
           /\ DOMAIN floating' = Committees
<1>1. CASE UNCHANGED ledger
  BY <1>1 DEF LedgerOK, Domains, ledger, InCommittee
<1>2. ASSUME NEW p \in Leavers, NEW c \in Committees, Submission(p, c)
      PROVE  LedgerOK' /\ DOMAIN floating' = Committees /\ UNCHANGED <<past, roster>>
  <2>1. PICK old \in past[c] :
            /\ floating' = [floating EXCEPT ![c] = @ \cup {old \ {p}}]
            /\ UNCHANGED <<past, roster>>
    BY <1>2 DEF Submission
  <2>2. old \ {p} \in SUBSET InCommittee(c)
    BY DEF LedgerOK
  <2> QED
    BY <2>1, <2>2 DEF LedgerOK, Domains, InCommittee
<1>3. ASSUME NEW c \in Committees, Adopt(c)
      PROVE  LedgerOK' /\ DOMAIN past' = Committees /\ DOMAIN roster' = Committees
             /\ DOMAIN floating' = Committees
  <2>1. PICK list \in floating[c] :
            /\ roster' = [roster EXCEPT ![c] = list]
            /\ past' = [past EXCEPT ![c] = @ \cup {list}]
            /\ floating' = [floating EXCEPT ![c] = @ \ {list}]
    BY <1>3 DEF Adopt
  <2> QED
    BY <2>1 DEF LedgerOK, Domains, InCommittee
<1>4. \A p \in Leavers : IdA[p] \in Committees /\ IdB[p] \in Committees
  BY PeersAssumption
<1> QED
  BY <1>1, <1>2, <1>3, <1>4, LedgerSteps DEF Domains

\* Tables only shrink: a thread's pass takes entries out of one list.
Cut(p, c) ==
    /\ leave[p].pc \in {"cutA", "cutB"} /\ NextEntry(p)[2] \in api
    /\ CutList(p, NextEntry(p)[2], c)

LEMMA TableSteps ==
    ASSUME Next
    PROVE  \/ UNCHANGED table
           \/ \E p \in Leavers :
                 \/ CutA(p) /\ Cut(p, IdA[NextEntry(p)[2]])
                 \/ CutB(p) /\ Cut(p, IdB[NextEntry(p)[2]])
<1>1. ASSUME NEW p \in Leavers, CutA(p) \/ CutB(p)
      PROVE  \/ CutA(p) /\ Cut(p, IdA[NextEntry(p)[2]])
             \/ CutB(p) /\ Cut(p, IdB[NextEntry(p)[2]])
  BY <1>1 DEF CutA, CutB, Cut
<1>2. ASSUME NEW p \in Leavers,
             \/ CheckNeighbors(p) \/ AskA(p) \/ AskB(p) \/ AgainA(p) \/ AgainB(p)
             \/ AnswerA(p) \/ AnswerB(p)
             \/ AnswerRaises(p) \/ Terminate(p) \/ Rejoin(p) \/ LeaveReturns(p)
             \/ PostRemove(p) \/ NotifyRefused(p) \/ Delete(p)
      PROVE  UNCHANGED table
  BY <1>2 DEF CheckNeighbors, AskA, AskB, AskToLeave, AgainA, AgainB, SubmitAgain,
              AnswerA, AnswerB, AnswerRaises,
              Terminate, Rejoin, LeaveReturns, PostRemove, NotifyRefused, Delete
<1>3. ASSUME NEW c \in Committees, Adopt(c)
      PROVE  UNCHANGED table
  BY <1>3 DEF Adopt
<1> QED
  BY <1>1, <1>2, <1>3 DEF Next, Step

\* A /remove meets others only when it is accepted.
LEMMA RacesBegin ==
    ASSUME [Next]_vars
    PROVE  UNCHANGED races \/ \E p \in Leavers : PostRemove(p)
<1>1. ASSUME NEW p \in Leavers,
             \/ CheckNeighbors(p) \/ AskA(p) \/ AskB(p) \/ AgainA(p) \/ AgainB(p)
             \/ AnswerA(p) \/ AnswerB(p)
             \/ AnswerRaises(p) \/ Terminate(p) \/ Rejoin(p) \/ LeaveReturns(p)
      PROVE  UNCHANGED races
  BY <1>1 DEF CheckNeighbors, AskA, AskB, AskToLeave, AgainA, AgainB, SubmitAgain,
              AnswerA, AnswerB, AnswerRaises, Terminate, Rejoin, LeaveReturns
<1>2. ASSUME NEW p \in Leavers, CutA(p) \/ CutB(p) \/ NotifyRefused(p) \/ Delete(p)
      PROVE  UNCHANGED races
  BY <1>2 DEF CutA, CutB, NotifyRefused, Delete
<1>3. ASSUME NEW c \in Committees, Adopt(c)
      PROVE  UNCHANGED races
  BY <1>3 DEF Adopt
<1>4. UNCHANGED vars => UNCHANGED races
  BY DEF vars, races
<1> QED
  BY <1>1, <1>2, <1>3, <1>4 DEF Next, Step

\* A pass over one list, and what it leaves.
LEMMA Removal ==
    ASSUME TablesOK, Domains, NEW q \in Peers, NEW p \in Peers, NEW d, CutList(p, q, d)
    PROVE  /\ DOMAIN table' = Peers /\ TablesOK'
           /\ \A r \in Peers : DOMAIN table'[r] = DOMAIN table[r]
           /\ \A r \in Peers : \A c \in DOMAIN table[r] :
                 /\ table'[r][c] \subseteq table[r][c]
                 /\ p \notin met => \A x : x \in table'[r][c] <=>
                       x \in table[r][c] /\ ~(r = q /\ c = d /\ x = p)
                 /\ r # q => table'[r] = table[r]
<1>1. PICK gone \in Cuts(p, table[q][d]) : table' = [table EXCEPT ![q][d] = @ \ gone]
  BY DEF CutList
<1>2. p \notin met => gone = {p}
  BY <1>1 DEF Cuts
<1>3. DOMAIN table' = Peers /\ \A r \in Peers \ {q} : table'[r] = table[r]
  BY <1>1 DEF Domains
<1>4. table'[q] = [table[q] EXCEPT ![d] = @ \ gone]
  BY <1>1 DEF Domains
<1>5. \A r \in Peers : DOMAIN table'[r] = DOMAIN table[r]
  BY <1>3, <1>4
<1>6. \A c \in DOMAIN table[q] : table'[q][c] = IF c = d THEN table[q][c] \ gone ELSE table[q][c]
  BY <1>4
<1>7. \A r \in Peers : \A c \in DOMAIN table[r] :
                 /\ table'[r][c] \subseteq table[r][c]
                 /\ p \notin met => \A x : x \in table'[r][c] <=>
                       x \in table[r][c] /\ ~(r = q /\ c = d /\ x = p)
                 /\ r # q => table'[r] = table[r]
  BY <1>2, <1>3, <1>6
<1>8. \A r \in Peers : DOMAIN table[r] = {IdA[r], IdB[r]}
  BY DEF TablesOK
<1>9. \A r \in Peers : \A c \in DOMAIN table[r] : table'[r][c] \subseteq InCommittee(c) \ {r}
  <2> TAKE r \in Peers
  <2> TAKE c \in DOMAIN table[r]
  <2>1. table[r][c] \subseteq InCommittee(c) \ {r}
    BY DEF TablesOK
  <2> QED
    BY <1>7, <2>1
<1>10. TablesOK'
  BY <1>5, <1>8, <1>9 DEF TablesOK, InCommittee
<1> QED
  BY <1>3, <1>5, <1>7, <1>10

LEMMA Types == TypeOK /\ Domains /\ ListsOut /\ [Next]_vars => TypeOK' /\ Domains'
<1> SUFFICES ASSUME TypeOK, Domains, ListsOut, [Next]_vars
             PROVE  TypeOK' /\ Domains'
  OBVIOUS
<1> LedgerOK /\ TablesOK
  BY DEF TypeOK, LedgerOK, TablesOK
<1>1. CASE UNCHANGED vars
  BY <1>1 DEF TypeOK, Domains, vars, InCommittee, Call
<1>2. CASE Next
  <2>1. LedgerOK' /\ DOMAIN past' = Committees /\ DOMAIN roster' = Committees
        /\ DOMAIN floating' = Committees
    BY <1>2, LedgerTypes
  <2>2. TablesOK' /\ DOMAIN table' = Peers
    <3>1. CASE UNCHANGED table
      BY <3>1 DEF TablesOK, Domains, InCommittee
    <3>2. ASSUME NEW p \in Leavers, NEW c, Cut(p, c)
          PROVE  TablesOK' /\ DOMAIN table' = Peers
      <4>1. p \in Peers /\ NextEntry(p)[2] \in Peers
        BY <3>2, PeersAssumption DEF Cut, TypeOK
      <4>2. CutList(p, NextEntry(p)[2], c)
        BY <3>2 DEF Cut
      <4> QED
        BY <4>1, <4>2, Removal
    <3> QED
      BY <1>2, <3>1, <3>2, TableSteps
  <2>3. leave' \in [Peers -> Call]
    <3> leave \in [Peers -> Call]
      BY DEF TypeOK
    <3>1. ASSUME NEW p \in Leavers, CheckNeighbors(p) \/ Step(p)
          PROVE  leave' \in [Peers -> Call]
      <4>1. p \in Peers
        BY PeersAssumption
      <4>2. leave' = [leave EXCEPT ![p] = leave'[p]] /\ leave'[p] \in Call
        BY <3>1, CallSteps
      <4> QED
        BY <4>1, <4>2
    <3>2. ASSUME NEW p \in Leavers, Delete(p)
          PROVE  UNCHANGED leave
      BY <3>2 DEF Delete
    <3>3. ASSUME NEW c \in Committees, Adopt(c)
          PROVE  UNCHANGED leave
      BY <3>3 DEF Adopt
    <3> QED
      BY <1>2, <3>1, <3>2, <3>3 DEF Next
  <2>4. running' \subseteq Peers /\ api' \subseteq running' /\ leaves' \in 0..MaxLeaves
    <3>1. ASSUME NEW p \in Leavers, CheckNeighbors(p)
          PROVE  UNCHANGED <<running, api>> /\ leaves' \in 0..MaxLeaves
      BY <3>1, PeersAssumption DEF CheckNeighbors, TypeOK
    <3>2. ASSUME NEW p \in Leavers, Step(p)
          PROVE  UNCHANGED <<running, leaves>> /\ api' \subseteq api
      BY <3>2 DEF Step, AskA, AskB, AskToLeave, AgainA, AgainB, SubmitAgain, AnswerA, AnswerB,
              AnswerRaises, Terminate, Rejoin, LeaveReturns, PostRemove, CutA, CutB,
              NotifyRefused
    <3>3. ASSUME NEW p \in Leavers, Delete(p)
          PROVE  running' = running \ {p} /\ api' = api \ {p} /\ UNCHANGED leaves
      BY <3>3 DEF Delete
    <3>4. ASSUME NEW c \in Committees, Adopt(c)
          PROVE  UNCHANGED <<running, api, leaves>>
      BY <3>4 DEF Adopt
    <3> QED
      BY <1>2, <3>1, <3>2, <3>3, <3>4 DEF Next, TypeOK
  <2>5. met' \subseteq Leavers /\ crossed' \subseteq Peers
    <3>1. UNCHANGED races \/ \E p \in Leavers : PostRemove(p)
      BY RacesBegin
    <3>2. ASSUME NEW p \in Leavers, PostRemove(p)
          PROVE  met' \subseteq Leavers /\ crossed' \subseteq Peers
      BY <3>2 DEF PostRemove, TypeOK
    <3> QED
      BY <3>1, <3>2 DEF races, TypeOK
  <2> QED
    BY <2>1, <2>2, <2>3, <2>4, <2>5 DEF TypeOK, Domains, LedgerOK, TablesOK
<1> QED
  BY <1>1, <1>2
-----------------------------------------------------------------------------
(* The invariant *)

\* Every list out or adopted has four members at least.
Fours ==
    \A c \in Committees : \A list \in past[c] \cup floating[c] : Cardinality(list) >= 4

Asked(p, c) == \E list \in past[c] \cup floating[c] : p \notin list

Ending == {"notify", "cutA", "cutB"}

\* A yes is an answer to a list without the peer, and both precede the stop.
AskedFirst ==
    \A p \in Leavers :
        /\ leave[p].a \/ leave[p].pc = "waitA" => Asked(p, IdA[p])
        /\ leave[p].b \/ leave[p].pc = "waitB" => Asked(p, IdB[p])
        /\ leave[p].pc \in Ending => leave[p].a /\ leave[p].b
        /\ leave[p].ret = "true" => Asked(p, IdA[p]) /\ Asked(p, IdB[p])

\* Whoever notifies has stopped its API.
StopsFirst == \A p \in Leavers : leave[p].pc \in Ending => p \notin api

\* A /remove in service that has met another is served at a peer that is noted.
RacesNoted ==
    \A p \in Leavers : leave[p].pc \in {"cutA", "cutB"} =>
        /\ leave[p].todo # {}
        /\ p \in met => NextEntry(p)[2] \in crossed

\* While p's call is in progress, who still knows p is on its list, and a thread
\* that has passed over the first list has left nothing there.
Remembered ==
    ~Faults => \A p \in Leavers \ crossed : \A q \in api \ crossed :
        /\ leave[p].pc # "idle" =>
              \A c \in DOMAIN table[q] :
                  p \in table[q][c] => <<c, q>> \in leave[p].todo
        /\ leave[p].pc = "cutB" /\ NextEntry(p)[2] = q => p \notin table[q][IdA[q]]
        /\ leave[p].ret = "true" => ~Knows(q, p)

LEMMA FoursKept ==
    ASSUME LedgerOK, Domains, ListsOut, Fours, [Next]_vars
    PROVE  Fours'
<1>1. CASE UNCHANGED ledger
  BY <1>1 DEF Fours, ledger
<1>2. ASSUME NEW p \in Leavers, NEW c \in Committees, Submission(p, c)
      PROVE  Fours'
  <2>1. PICK old \in past[c] :
            /\ MayUpdate(p, old \ {p})
            /\ floating' = [floating EXCEPT ![c] = @ \cup {old \ {p}}]
            /\ UNCHANGED <<past, roster>>
    BY <1>2 DEF Submission
  <2>2. Cardinality(old \ {p}) >= 4
    BY <2>1 DEF MayUpdate
  <2> QED
    BY <2>1, <2>2 DEF Fours, Domains
<1>3. ASSUME NEW c \in Committees, Adopt(c)
      PROVE  Fours'
  BY <1>3 DEF Adopt, Fours, Domains
<1>4. \A p \in Leavers : IdA[p] \in Committees /\ IdB[p] \in Committees
  BY PeersAssumption
<1>5. UNCHANGED vars => UNCHANGED ledger
  BY DEF vars, ledger
<1> QED
  BY <1>1, <1>2, <1>3, <1>4, <1>5, LedgerSteps

\* A list that is out, or was adopted, stays one of the two.
LEMMA AskedStays ==
    ASSUME LedgerOK, Domains, ListsOut, [Next]_vars, NEW p, NEW c \in Committees, Asked(p, c)
    PROVE  Asked(p, c)'
<1>1. CASE UNCHANGED ledger
  BY <1>1 DEF Asked, ledger
<1>2. ASSUME NEW n \in Leavers, NEW d \in Committees, Submission(n, d)
      PROVE  Asked(p, c)'
  BY <1>2 DEF Submission, Asked, Domains
<1>3. ASSUME NEW d \in Committees, Adopt(d)
      PROVE  Asked(p, c)'
  BY <1>3 DEF Adopt, Asked, Domains
<1>4. \A n \in Leavers : IdA[n] \in Committees /\ IdB[n] \in Committees
  BY PeersAssumption
<1>5. UNCHANGED vars => UNCHANGED ledger
  BY DEF vars, ledger
<1> QED
  BY <1>1, <1>2, <1>3, <1>4, <1>5, LedgerSteps

\* A call waits for an answer only after its list went out.
LEMMA WaitingAsked ==
    ASSUME TypeOK, Domains, NEW p \in Leavers
    PROVE  /\ AskA(p) /\ leave'[p].pc = "waitA" => Asked(p, IdA[p])'
           /\ AskB(p) /\ leave'[p].pc = "waitB" => Asked(p, IdB[p])'
<1> p \in Peers /\ IdA[p] \in Committees /\ IdB[p] \in Committees /\ leave[p] \in Call
  BY PeersAssumption DEF TypeOK
<1>1. ASSUME NEW c \in Committees, NEW ask, NEW wait, NEW next,
             AskToLeave(p, c, ask, wait, next), leave'[p].pc = wait, wait # next
      PROVE  Asked(p, c)'
  <2>1. PICK old \in past[c] :
          IF MayUpdate(p, old \ {p})
          THEN floating' = [floating EXCEPT ![c] = @ \cup {old \ {p}}]
          ELSE leave' = [leave EXCEPT ![p].pc = next]
    BY <1>1 DEF AskToLeave
  <2>2. CASE MayUpdate(p, old \ {p})
    BY <2>1, <2>2 DEF Asked, Domains
  <2>3. CASE ~MayUpdate(p, old \ {p})
    <3>1. leave' = [leave EXCEPT ![p].pc = next]
      BY <2>1, <2>3
    <3>2. leave'[p] = [leave[p] EXCEPT !.pc = next]
      BY <3>1 DEF TypeOK
    <3>3. leave'[p].pc = next
      BY <3>2 DEF Call
    <3> QED
      BY <1>1, <3>3
  <2> QED
    BY <2>2, <2>3
<1> QED
  BY <1>1 DEF AskA, AskB

\* A call stands still or takes one of its steps.
LEMMA Calls ==
    ASSUME TypeOK, LedgerOK, [Next]_vars, NEW p \in Leavers
    PROVE  leave'[p] = leave[p] \/ CallStep(p, leave'[p])
<1> p \in Peers /\ leave \in [Peers -> Call]
  BY PeersAssumption DEF TypeOK
<1>1. ASSUME NEW n \in Leavers, CheckNeighbors(n) \/ Step(n)
      PROVE  leave'[p] = leave[p] \/ CallStep(p, leave'[p])
  <2>1. leave' = [leave EXCEPT ![n] = leave'[n]] /\ CallStep(n, leave'[n])
    BY <1>1, CallSteps
  <2>2. CASE n = p
    BY <2>1, <2>2
  <2>3. CASE n # p
    BY <2>1, <2>3
  <2> QED
    BY <2>2, <2>3
<1>2. ASSUME NEW n \in Leavers, Delete(n)
      PROVE  UNCHANGED leave
  BY <1>2 DEF Delete
<1>3. ASSUME NEW c \in Committees, Adopt(c)
      PROVE  UNCHANGED leave
  BY <1>3 DEF Adopt
<1>4. UNCHANGED vars => UNCHANGED leave
  BY DEF vars
<1> QED
  BY <1>1, <1>2, <1>3, <1>4 DEF Next

LEMMA AskedFirstKept ==
    ASSUME TypeOK, Domains, LedgerOK, ListsOut, AskedFirst, [Next]_vars
    PROVE  AskedFirst'
<1> SUFFICES ASSUME NEW p \in Leavers
    PROVE  /\ leave'[p].a \/ leave'[p].pc = "waitA" => Asked(p, IdA[p])'
           /\ leave'[p].b \/ leave'[p].pc = "waitB" => Asked(p, IdB[p])'
           /\ leave'[p].pc \in Ending => leave'[p].a /\ leave'[p].b
           /\ leave'[p].ret = "true" => Asked(p, IdA[p])' /\ Asked(p, IdB[p])'
  BY DEF AskedFirst
<1> p \in Peers /\ IdA[p] \in Committees /\ IdB[p] \in Committees /\ leave[p] \in Call
  BY PeersAssumption DEF TypeOK
<1> DEFINE askedA == Asked(p, IdA[p])
           askedB == Asked(p, IdB[p])
<1>1. (askedA => askedA') /\ (askedB => askedB')
  BY AskedStays
<1>2. /\ leave[p].a \/ leave[p].pc = "waitA" => askedA
      /\ leave[p].b \/ leave[p].pc = "waitB" => askedB
      /\ leave[p].pc \in Ending => leave[p].a /\ leave[p].b
      /\ leave[p].ret = "true" => askedA /\ askedB
  BY DEF AskedFirst
<1>3. /\ AskA(p) /\ leave'[p].pc = "waitA" => askedA'
      /\ AskB(p) /\ leave'[p].pc = "waitB" => askedB'
  BY WaitingAsked
<1> HIDE DEF askedA, askedB
<1>4. /\ leave'[p].a \/ leave'[p].pc = "waitA" => askedA'
      /\ leave'[p].b \/ leave'[p].pc = "waitB" => askedB'
      /\ leave'[p].pc \in Ending => leave'[p].a /\ leave'[p].b
      /\ leave'[p].ret = "true" => askedA' /\ askedB'
  <2>1. CASE leave'[p] = leave[p]
    BY <2>1, <1>1, <1>2
  <2>2. CASE \/ leave'[p] = Idle("raised") \/ leave'[p] = Idle("false")
             \/ leave'[p] = [Idle("none") EXCEPT !.pc = "askA", !.todo = Neighbours(p)]
    BY <2>2, IdleFields, StartedFields DEF Ending
  <2>3. CASE /\ AskA(p)
             /\ \/ leave'[p] = [leave[p] EXCEPT !.pc = "askB"]
                \/ \E list \in SUBSET Peers :
                     leave'[p] = [leave[p] EXCEPT !.pc = "waitA", !.list = list, !.again = TRUE]
    <3>1. /\ leave'[p].a = leave[p].a /\ leave'[p].b = leave[p].b
          /\ leave'[p].ret = leave[p].ret /\ leave'[p].pc \in {"askB", "waitA"}
      BY <2>3 DEF Call
    <3> QED
      BY <2>3, <3>1, <1>1, <1>2, <1>3 DEF Ending
  <2>4. CASE /\ AskB(p)
             /\ \/ leave'[p] = [leave[p] EXCEPT !.pc = "decide"]
                \/ \E list \in SUBSET Peers :
                     leave'[p] = [leave[p] EXCEPT !.pc = "waitB", !.list = list, !.again = TRUE]
    <3>1. /\ leave'[p].a = leave[p].a /\ leave'[p].b = leave[p].b
          /\ leave'[p].ret = leave[p].ret /\ leave'[p].pc \in {"decide", "waitB"}
      BY <2>4 DEF Call
    <3> QED
      BY <2>4, <3>1, <1>1, <1>2, <1>3 DEF Ending
  <2>5. CASE /\ leave[p].pc = "waitA"
             /\ \E yes \in BOOLEAN : leave'[p] =
                  [leave[p] EXCEPT !.a = yes, !.pc = "askB", !.list = {}, !.again = FALSE]
    BY <2>5, <1>1, <1>2 DEF Call, Ending
  <2>6. CASE /\ leave[p].pc = "waitB"
             /\ \E yes \in BOOLEAN : leave'[p] =
                  [leave[p] EXCEPT !.b = yes, !.pc = "decide", !.list = {}, !.again = FALSE]
    BY <2>6, <1>1, <1>2 DEF Call, Ending
  <2>7. CASE leave[p].a /\ leave[p].b /\ leave'[p] = [leave[p] EXCEPT !.pc = "notify"]
    BY <2>7, <1>1, <1>2 DEF Call, Ending
  <2>8. CASE leave[p].pc \in Ending /\ leave'[p] = AfterRefusal(p)
    BY <2>8, <1>1, <1>2 DEF Call, AfterRefusal, Ending
  <2>9. CASE /\ leave[p].pc \in Ending
             /\ \/ leave'[p] = Answered(p)
                \/ \E next \in {"cutA", "cutB"} : leave'[p] = [leave[p] EXCEPT !.pc = next]
    BY <2>9, <1>1, <1>2 DEF Call, Ending, Answered
  <2>10. CASE leave[p].pc \in Ending /\ leave'[p] = Idle("true")
    BY <2>10, <1>1, <1>2 DEF Idle, Ending
  <2>11. CASE leave'[p] = [leave[p] EXCEPT !.again = FALSE]
    BY <2>11, <1>1, <1>2 DEF Call, Ending
  <2>12. Terminate(p) => leave[p].a /\ leave[p].b
    BY DEF Terminate, BothSaidYes
  <2>13. PostRemove(p) \/ CutA(p) \/ CutB(p) \/ NotifyRefused(p) \/ LeaveReturns(p)
            => leave[p].pc \in Ending
    BY DEF PostRemove, CutA, CutB, NotifyRefused, LeaveReturns, Ending
  <2> QED
    BY <2>1, <2>2, <2>3, <2>4, <2>5, <2>6, <2>7, <2>8, <2>9, <2>10, <2>11, <2>12, <2>13, Calls
       DEF CallStep, AnswerA, AnswerB
<1> QED
  BY <1>4 DEF askedA, askedB

\* What waits was proposed, and earlier rosters are not forgotten.
LEMMA ListsOutKept ==
    ASSUME TypeOK, Domains, LedgerOK, ListsOut, [Next]_vars
    PROVE  ListsOut'
<1> SUFFICES ASSUME NEW p \in Leavers
    PROVE  /\ leave'[p].pc = "waitA" => Proposed(p, IdA[p])'
           /\ leave'[p].pc = "waitB" => Proposed(p, IdB[p])'
  BY DEF ListsOut
<1> p \in Peers /\ IdA[p] \in Committees /\ IdB[p] \in Committees
    /\ leave[p] \in Call /\ leave \in [Peers -> Call]
  BY PeersAssumption DEF TypeOK
<1>1. \A c \in Committees : past[c] \subseteq past'[c]
  <2>1. ASSUME NEW d \in Committees, Adopt(d)
        PROVE  \A c \in Committees : past[c] \subseteq past'[c]
    BY <2>1 DEF Adopt, Domains
  <2>2. UNCHANGED vars \/ UNCHANGED ledger => UNCHANGED past
    BY DEF vars, ledger
  <2> QED
    BY <2>1, <2>2, LedgerSteps DEF Submission
<1>2. ASSUME leave'[p].list = leave[p].list, leave'[p].pc = leave[p].pc
      PROVE  /\ leave'[p].pc = "waitA" => Proposed(p, IdA[p])'
             /\ leave'[p].pc = "waitB" => Proposed(p, IdB[p])'
  BY <1>1, <1>2 DEF ListsOut, Proposed, MayUpdate
<1>3. ASSUME NEW c \in Committees, NEW ask, NEW wait \in {"waitA", "waitB"},
             NEW next \in {"askB", "decide"}, AskToLeave(p, c, ask, wait, next)
      PROVE  leave'[p].pc = next \/ (leave'[p].pc = wait /\ Proposed(p, c)')
  <2>1. PICK old \in past[c] :
          \/ /\ MayUpdate(p, old \ {p})
             /\ leave' = [leave EXCEPT ![p].pc = wait, ![p].list = old \ {p}, ![p].again = TRUE]
          \/ leave' = [leave EXCEPT ![p].pc = next]
    BY <1>3 DEF AskToLeave
  <2>2. CASE leave' = [leave EXCEPT ![p].pc = next]
    <3>1. leave'[p] = [leave[p] EXCEPT !.pc = next]
      BY <2>2
    <3>2. leave'[p].pc = next
      BY <3>1 DEF Call
    <3> QED
      BY <3>2
  <2>3. CASE /\ MayUpdate(p, old \ {p})
             /\ leave' = [leave EXCEPT ![p].pc = wait, ![p].list = old \ {p}, ![p].again = TRUE]
    <3>1. leave'[p] = [leave[p] EXCEPT !.pc = wait, !.list = old \ {p}, !.again = TRUE]
      BY <2>3 DEF Call
    <3>2. leave'[p].pc = wait /\ leave'[p].list = old \ {p}
      BY <3>1 DEF Call
    <3> QED
      BY <1>1, <2>3, <3>2 DEF Proposed, MayUpdate
  <2> QED
    BY <2>1, <2>2, <2>3
<1>4. CASE AskA(p)
  BY <1>3, <1>4 DEF AskA
<1>5. CASE AskB(p)
  BY <1>3, <1>5 DEF AskB
<1>6. CASE leave'[p] = leave[p]
  BY <1>2, <1>6
<1>7. CASE leave'[p] = [leave[p] EXCEPT !.again = FALSE]
  BY <1>2, <1>7 DEF Call
<1>8. CASE \/ \E ret \in {"raised", "false", "true"} : leave'[p] = Idle(ret)
           \/ leave'[p] = [Idle("none") EXCEPT !.pc = "askA", !.todo = Neighbours(p)]
  BY <1>8, IdleFields, StartedFields
<1>9. CASE \/ \E next \in {"notify", "cutA", "cutB"} : leave'[p] = [leave[p] EXCEPT !.pc = next]
           \/ leave'[p] = Answered(p)
           \/ leave'[p] = AfterRefusal(p)
           \/ \E yes \in BOOLEAN : leave'[p] =
                  [leave[p] EXCEPT !.a = yes, !.pc = "askB", !.list = {}, !.again = FALSE]
           \/ \E yes \in BOOLEAN : leave'[p] =
                  [leave[p] EXCEPT !.b = yes, !.pc = "decide", !.list = {}, !.again = FALSE]
  <2>1. leave'[p].pc \in {"notify", "cutA", "cutB", "askB", "decide"}
    BY <1>9 DEF Call, Answered, AfterRefusal
  <2> QED
    BY <2>1
<1> QED
  BY <1>4, <1>5, <1>6, <1>7, <1>8, <1>9, Calls DEF CallStep

\* APIs only stop, and nothing is taken out of a table but a peer that notifies.
LEMMA ApiShrinks ==
    ASSUME [Next]_vars
    PROVE  api' \subseteq api
<1>1. ASSUME NEW p \in Leavers, CheckNeighbors(p) \/ Step(p) \/ Delete(p)
      PROVE  api' \subseteq api
  BY <1>1 DEF CheckNeighbors, Step, AskA, AskB, AskToLeave, AnswerA, AnswerB, AnswerRaises,
              Terminate, Rejoin, LeaveReturns, PostRemove, CutA, CutB, NotifyRefused,
              AgainA, AgainB, SubmitAgain, Delete
<1>2. ASSUME NEW c \in Committees, Adopt(c)
      PROVE  api' \subseteq api
  BY <1>2 DEF Adopt
<1> QED
  BY <1>1, <1>2 DEF Next, vars

LEMMA StopsFirstKept ==
    ASSUME TypeOK, LedgerOK, StopsFirst, [Next]_vars
    PROVE  StopsFirst'
<1> SUFFICES ASSUME NEW p \in Leavers, leave'[p].pc \in Ending
             PROVE  p \notin api'
  BY DEF StopsFirst
<1> p \in Peers /\ leave[p] \in Call
  BY PeersAssumption DEF TypeOK
<1>1. CASE leave[p].pc \in Ending
  BY <1>1, ApiShrinks DEF StopsFirst
<1>2. CASE Terminate(p)
  BY <1>2 DEF Terminate
<1>3. CASE leave[p].pc \notin Ending /\ ~Terminate(p)
  <2>1. leave'[p] # leave[p]
    BY <1>3
  <2>2. /\ ~PostRemove(p) /\ ~CutA(p) /\ ~CutB(p) /\ ~NotifyRefused(p) /\ ~LeaveReturns(p)
    BY <1>3 DEF PostRemove, CutA, CutB, NotifyRefused, LeaveReturns, Ending
  <2>3. CASE \/ leave'[p] = Idle("raised") \/ leave'[p] = Idle("false")
             \/ leave'[p] = [Idle("none") EXCEPT !.pc = "askA", !.todo = Neighbours(p)]
    BY <2>3, IdleFields, StartedFields DEF Ending
  <2>4. CASE \/ \E next \in {"askB", "decide"} : leave'[p] = [leave[p] EXCEPT !.pc = next]
             \/ \E wait \in {"waitA", "waitB"}, list \in SUBSET Peers :
                   leave'[p] = [leave[p] EXCEPT !.pc = wait, !.list = list, !.again = TRUE]
             \/ \E yes \in BOOLEAN : leave'[p] =
                   [leave[p] EXCEPT !.a = yes, !.pc = "askB", !.list = {}, !.again = FALSE]
             \/ \E yes \in BOOLEAN : leave'[p] =
                   [leave[p] EXCEPT !.b = yes, !.pc = "decide", !.list = {}, !.again = FALSE]
    <3>1. leave'[p].pc \in {"askB", "decide", "waitA", "waitB"}
      BY <2>4 DEF Call
    <3> QED
      BY <3>1 DEF Ending
  <2>5. CASE leave'[p] = [leave[p] EXCEPT !.again = FALSE]
    <3>1. leave'[p].pc = leave[p].pc
      BY <2>5 DEF Call
    <3> QED
      BY <1>3, <3>1
  <2> QED
    BY <1>3, <2>1, <2>2, <2>3, <2>4, <2>5, Calls DEF CallStep
<1> QED
  BY <1>1, <1>2, <1>3

LEMMA CrossedGrows ==
    ASSUME [Next]_vars
    PROVE  crossed \subseteq crossed'
<1>1. UNCHANGED races \/ \E p \in Leavers : PostRemove(p)
  BY RacesBegin
<1>2. ASSUME NEW p \in Leavers, PostRemove(p)
      PROVE  crossed \subseteq crossed'
  BY <1>2 DEF PostRemove
<1> QED
  BY <1>1, <1>2 DEF races

\* A /remove is marked when it, or one it meets, is accepted.
LEMMA Meets ==
    ASSUME [Next]_vars, NEW p \in met'
    PROVE  p \in met \/ \E n \in Leavers :
               /\ PostRemove(n) /\ NextEntry(n)[2] \in crossed'
               /\ (p = n \/ Cutting(p, NextEntry(n)[2]))
<1>1. UNCHANGED races \/ \E n \in Leavers : PostRemove(n)
  BY RacesBegin
<1>2. ASSUME NEW n \in Leavers, PostRemove(n)
      PROVE  p \in met \/ (NextEntry(n)[2] \in crossed' /\ (p = n \/ Cutting(p, NextEntry(n)[2])))
  <2> DEFINE others == {r \in Leavers : Cutting(r, NextEntry(n)[2])}
  <2>1. \/ met' = met \ {n}
        \/ met' = met \cup others \cup {n} /\ NextEntry(n)[2] \in crossed'
    BY <1>2 DEF PostRemove
  <2>2. p \in others => Cutting(p, NextEntry(n)[2])
    OBVIOUS
  <2> QED
    BY <2>1, <2>2
<1> QED
  BY <1>1, <1>2 DEF races

LEMMA RacesKept ==
    ASSUME TypeOK, LedgerOK, RacesNoted, [Next]_vars
    PROVE  RacesNoted'
<1> SUFFICES ASSUME NEW p \in Leavers, leave'[p].pc \in {"cutA", "cutB"}
             PROVE  /\ leave'[p].todo # {}
                    /\ p \in met' => NextEntry(p)'[2] \in crossed'
  BY DEF RacesNoted
<1> p \in Peers /\ leave[p] \in Call
  BY PeersAssumption DEF TypeOK
<1>1. leave'[p].todo = leave[p].todo => NextEntry(p)' = NextEntry(p)
  BY DEF NextEntry
<1>2. CASE PostRemove(p) /\ leave'[p] = [leave[p] EXCEPT !.pc = "cutA"]
  <2>1. leave'[p].todo = leave[p].todo /\ leave[p].todo # {}
    BY <1>2 DEF PostRemove, Call
  <2>2. p \in met' => NextEntry(p)[2] \in crossed'
    BY <1>2 DEF PostRemove
  <2> QED
    BY <1>1, <2>1, <2>2
<1>3. CASE /\ leave'[p].todo = leave[p].todo /\ leave[p].pc \in {"cutA", "cutB"}
           /\ ~PostRemove(p)
  <2>1. leave[p].todo # {} /\ (p \in met => NextEntry(p)[2] \in crossed)
    BY <1>3 DEF RacesNoted
  <2>2. p \in met' => NextEntry(p)[2] \in crossed'
    BY <1>3, <2>1, CrossedGrows, Meets DEF Cutting
  <2> QED
    BY <1>1, <1>3, <2>1, <2>2
<1>4. leave[p].pc \in {"cutA", "cutB"} => ~PostRemove(p)
  BY DEF PostRemove
<1>5. CASE leave'[p] = leave[p]
  BY <1>3, <1>4, <1>5
<1>6. CASE CutA(p) /\ leave'[p] = [leave[p] EXCEPT !.pc = "cutB"]
  BY <1>3, <1>4, <1>6 DEF CutA, Call
<1>7. CASE leave'[p] = [leave[p] EXCEPT !.again = FALSE]
  BY <1>3, <1>4, <1>7 DEF Call
<1>8. CASE \/ \E ret \in {"raised", "false", "true"} : leave'[p] = Idle(ret)
           \/ leave'[p] = [Idle("none") EXCEPT !.pc = "askA", !.todo = Neighbours(p)]
  BY <1>8, IdleFields, StartedFields
<1>9. CASE \/ \E next \in {"askB", "decide", "notify"} :
                 leave'[p] = [leave[p] EXCEPT !.pc = next]
           \/ \E wait \in {"waitA", "waitB"}, list \in SUBSET Peers :
                 leave'[p] = [leave[p] EXCEPT !.pc = wait, !.list = list, !.again = TRUE]
           \/ leave'[p] = Answered(p)
           \/ leave'[p] = AfterRefusal(p)
           \/ \E yes \in BOOLEAN : leave'[p] =
                 [leave[p] EXCEPT !.a = yes, !.pc = "askB", !.list = {}, !.again = FALSE]
           \/ \E yes \in BOOLEAN : leave'[p] =
                 [leave[p] EXCEPT !.b = yes, !.pc = "decide", !.list = {}, !.again = FALSE]
  <2>1. leave'[p].pc \in {"notify", "askB", "decide", "waitA", "waitB"}
    BY <1>9 DEF Call, Answered, AfterRefusal
  <2> QED
    BY <2>1
<1> QED
  BY <1>2, <1>5, <1>6, <1>7, <1>8, <1>9, Calls DEF CallStep

\* One pass over a list at a peer where no two have overlapped takes the caller
\* out and nobody else.
LEMMA CutTakes ==
    ASSUME TypeOK, Domains, RacesNoted, NEW n \in Leavers, NEW d, Cut(n, d), NEW q \in Peers
    PROVE  /\ DOMAIN table'[q] = DOMAIN table[q]
           /\ \A c \in DOMAIN table[q] : table'[q][c] \subseteq table[q][c]
           /\ q \notin crossed => \A c \in DOMAIN table[q] : \A x :
                 x \in table'[q][c] <=>
                    x \in table[q][c] /\ ~(q = NextEntry(n)[2] /\ c = d /\ x = n)
<1> TablesOK
  BY DEF TypeOK, TablesOK
<1>1. NextEntry(n)[2] \in Peers /\ n \in Peers /\ CutList(n, NextEntry(n)[2], d)
  BY PeersAssumption DEF Cut, TypeOK
<1>2. n \in met => NextEntry(n)[2] \in crossed
  BY DEF Cut, RacesNoted
<1>3. /\ DOMAIN table'[q] = DOMAIN table[q]
      /\ \A c \in DOMAIN table[q] :
            /\ table'[q][c] \subseteq table[q][c]
            /\ n \notin met => \A x : x \in table'[q][c] <=>
                  x \in table[q][c] /\ ~(q = NextEntry(n)[2] /\ c = d /\ x = n)
            /\ q # NextEntry(n)[2] => table'[q] = table[q]
  BY <1>1, Removal
<1> QED
  BY <1>2, <1>3

\* What a step takes out of the tables.
LEMMA TableLosses ==
    ASSUME TypeOK, Domains, RacesNoted, [Next]_vars, NEW q \in Peers
    PROVE  /\ DOMAIN table'[q] = DOMAIN table[q]
           /\ \A c \in DOMAIN table[q] : table'[q][c] \subseteq table[q][c]
           /\ q \notin crossed => \A c \in DOMAIN table[q] : \A x \in table[q][c] :
                 x \notin table'[q][c] => x \in Leavers /\ leave[x].pc \in {"cutA", "cutB"}
           /\ q \notin crossed => \A p \in Leavers : NextEntry(p)[2] = q =>
                 /\ CutA(p) => p \notin table'[q][IdA[q]]
                 /\ CutB(p) => p \notin table'[q][IdB[q]]
<1>1. UNCHANGED table \/ \E p \in Leavers : \E c : Cut(p, c)
  BY TableSteps DEF vars
<1>2. ASSUME NEW n \in Leavers, NEW d, Cut(n, d)
      PROVE  /\ DOMAIN table'[q] = DOMAIN table[q]
             /\ \A c \in DOMAIN table[q] : table'[q][c] \subseteq table[q][c]
             /\ q \notin crossed => \A c \in DOMAIN table[q] : \A x \in table[q][c] :
                   x \notin table'[q][c] => x \in Leavers /\ leave[x].pc \in {"cutA", "cutB"}
  <2>1. leave[n].pc \in {"cutA", "cutB"}
    BY <1>2 DEF Cut
  <2> QED
    BY <1>2, <2>1, CutTakes
<1>3. ASSUME q \notin crossed, NEW p \in Leavers, NextEntry(p)[2] = q
      PROVE  /\ CutA(p) => p \notin table'[q][IdA[q]]
             /\ CutB(p) => p \notin table'[q][IdB[q]]
  <2>1. IdA[q] \in DOMAIN table[q] /\ IdB[q] \in DOMAIN table[q]
    BY DEF TypeOK
  <2>2. CutA(p) => Cut(p, IdA[q])
    BY <1>3 DEF CutA, Cut
  <2>3. CutB(p) => Cut(p, IdB[q])
    BY <1>3 DEF CutB, Cut
  <2> QED
    BY <1>3, <2>1, <2>2, <2>3, CutTakes
<1> QED
  BY <1>1, <1>2, <1>3

LEMMA LivingKept ==
    ASSUME TypeOK, Domains, RacesNoted, StopsFirst, LivingAreKnown, [Next]_vars
    PROVE  LivingAreKnown'
<1> SUFFICES ASSUME NEW c \in Committees, NEW p \in InCommittee(c) \cap api',
                    NEW q \in InCommittee(c) \cap api', p # q, p \notin crossed'
             PROVE  q \in table'[p][c]
  BY DEF LivingAreKnown, InCommittee
<1>1. p \in Peers /\ q \in Peers /\ c \in DOMAIN table[p]
  BY DEF InCommittee, TypeOK
<1>2. p \in api /\ q \in api /\ p \notin crossed
  BY ApiShrinks, CrossedGrows
<1>3. q \in table[p][c]
  BY <1>2 DEF LivingAreKnown
<1>4. CASE q \in Leavers /\ leave[q].pc \in {"cutA", "cutB"}
  BY <1>2, <1>4 DEF StopsFirst, Ending
<1> QED
  BY <1>1, <1>2, <1>3, <1>4, TableLosses

\* What leave copies is enough: every living peer that knows the caller is, by
\* LivingAreKnown, known to the caller.
LEMMA CopyIsEnough ==
    ASSUME TypeOK, Domains, LivingAreKnown, NEW p \in Leavers, p \in api, p \notin crossed,
           NEW q \in api, NEW c \in DOMAIN table[q], p \in table[q][c]
    PROVE  <<c, q>> \in Neighbours(p)
<1>1. p \in Peers /\ q \in Peers
  BY PeersAssumption DEF TypeOK
<1>2. c \in {IdA[q], IdB[q]} /\ c \in Committees /\ p \in InCommittee(c) /\ p # q
  BY <1>1, PeersAssumption DEF TypeOK
<1>3. q \in InCommittee(c) /\ c \in DOMAIN table[p]
  BY <1>1, <1>2 DEF InCommittee, TypeOK
<1>4. q \in table[p][c]
  BY <1>2, <1>3 DEF LivingAreKnown
<1> QED
  BY <1>1, <1>2, <1>3, <1>4 DEF Neighbours

LEMMA RememberedKept ==
    ASSUME TypeOK, Domains, LedgerOK, RacesNoted, LivingAreKnown, Remembered, [Next]_vars
    PROVE  Remembered'
<1> SUFFICES ASSUME ~Faults, NEW p \in Leavers, p \notin crossed',
                    NEW q \in api', q \notin crossed'
    PROVE  /\ leave'[p].pc # "idle" =>
                \A c \in DOMAIN table'[q] : p \in table'[q][c] => <<c, q>> \in leave'[p].todo
           /\ leave'[p].pc = "cutB" /\ NextEntry(p)'[2] = q => p \notin table'[q][IdA[q]]
           /\ leave'[p].ret = "true" => ~Knows(q, p)'
  BY DEF Remembered
<1> p \in Peers /\ leave[p] \in Call
  BY PeersAssumption DEF TypeOK
<1> p \notin crossed /\ q \notin crossed /\ q \in api /\ q \in Peers
  BY ApiShrinks, CrossedGrows DEF TypeOK
<1>0. IdA[q] \in DOMAIN table[q] /\ DOMAIN table[q] = {IdA[q], IdB[q]}
  BY DEF TypeOK
<1>1. ASSUME NEW c \in DOMAIN table'[q], p \in table'[q][c]
      PROVE  c \in DOMAIN table[q] /\ p \in table[q][c]
  BY <1>1, TableLosses
<1>2. /\ leave[p].pc # "idle" =>
           \A c \in DOMAIN table[q] : p \in table[q][c] => <<c, q>> \in leave[p].todo
      /\ leave[p].pc = "cutB" /\ NextEntry(p)[2] = q => p \notin table[q][IdA[q]]
      /\ leave[p].ret = "true" => ~Knows(q, p)
  BY DEF Remembered
<1>3. DOMAIN table'[q] = DOMAIN table[q]
  BY TableLosses
<1>4. CASE /\ leave'[p].pc # "idle" => leave[p].pc # "idle"
           /\ leave'[p].todo = leave[p].todo /\ leave'[p].ret = leave[p].ret
           /\ leave'[p].pc = "cutB" => leave[p].pc = "cutB"
  <2>1. NextEntry(p)' = NextEntry(p)
    BY <1>4 DEF NextEntry
  <2> QED
    BY <1>0, <1>1, <1>2, <1>3, <1>4, <2>1 DEF Knows
<1>5. CASE leave'[p] = leave[p]
  BY <1>4, <1>5
<1>6. CASE \/ leave'[p] = Idle("raised") \/ leave'[p] = Idle("false")
  BY <1>6, IdleFields
<1>7. CASE /\ CheckNeighbors(p)
           /\ leave'[p] = [Idle("none") EXCEPT !.pc = "askA", !.todo = Neighbours(p)]
  <2>1. leave'[p].todo = Neighbours(p) /\ leave'[p].ret = "none" /\ p \in api
        /\ leave'[p].pc = "askA"
    BY <1>7, StartedFields DEF CheckNeighbors
  <2> QED
    BY <1>1, <2>1, CopyIsEnough
<1>8. CASE CutA(p) /\ leave'[p] = [leave[p] EXCEPT !.pc = "cutB"]
  <2>1. leave'[p].todo = leave[p].todo /\ leave'[p].ret = leave[p].ret /\ leave[p].pc # "idle"
    BY <1>8 DEF CutA, Call
  <2>2. NextEntry(p)' = NextEntry(p)
    BY <2>1 DEF NextEntry
  <2>3. NextEntry(p)[2] = q => p \notin table'[q][IdA[q]]
    BY <1>8, TableLosses
  <2> QED
    BY <1>1, <1>2, <1>3, <2>1, <2>2, <2>3 DEF Knows
<1>9. CASE CutB(p) /\ leave'[p] = Answered(p)
  <2>1. /\ leave'[p].todo = leave[p].todo \ {NextEntry(p)} /\ leave'[p].ret = leave[p].ret
        /\ leave'[p].pc = "notify" /\ leave[p].pc = "cutB"
    BY <1>9 DEF CutB, Call, Answered
  <2>2. ASSUME NEW c \in DOMAIN table'[q], p \in table'[q][c]
        PROVE  NextEntry(p)[2] # q
    <3> SUFFICES ASSUME NextEntry(p)[2] = q
                 PROVE  FALSE
      OBVIOUS
    <3>1. p \notin table[q][IdA[q]] /\ p \notin table'[q][IdB[q]]
      BY <1>2, <1>9, <2>1, TableLosses
    <3> QED
      BY <1>0, <1>1, <2>2, <3>1
  <2>3. \A c : NextEntry(p)[2] # q => <<c, q>> # NextEntry(p)
    OBVIOUS
  <2> QED
    BY <1>1, <1>2, <1>3, <2>1, <2>2, <2>3 DEF Knows
<1>10. CASE NotifyRefused(p) /\ leave'[p] = AfterRefusal(p)
  <2>1. leave[p].pc # "idle" /\ NextEntry(p)[2] \notin api
    BY <1>10 DEF NotifyRefused
  <2>2. \A c : <<c, q>> # NextEntry(p)
    BY <2>1
  <2>3. /\ leave'[p].todo \in {leave[p].todo, leave[p].todo \ {NextEntry(p)}}
        /\ leave'[p].ret = leave[p].ret /\ leave'[p].pc = "notify"
    BY <1>10 DEF AfterRefusal, Call
  <2> QED
    BY <1>1, <1>2, <1>3, <2>1, <2>2, <2>3 DEF Knows
<1>11. CASE LeaveReturns(p) /\ leave'[p] = Idle("true")
  <2>1. leave[p].pc # "idle" /\ leave[p].todo = {} /\ leave'[p].pc = "idle"
    BY <1>11, IdleFields DEF LeaveReturns
  <2> QED
    BY <1>1, <1>2, <2>1 DEF Knows
<1>12. CASE \/ \E next \in {"askB", "decide", "notify", "cutA"} :
                  leave'[p] = [leave[p] EXCEPT !.pc = next]
            \/ \E wait \in {"waitA", "waitB"}, list \in SUBSET Peers :
                  leave'[p] = [leave[p] EXCEPT !.pc = wait, !.list = list, !.again = TRUE]
            \/ leave'[p] = [leave[p] EXCEPT !.again = FALSE]
            \/ \E yes \in BOOLEAN : leave'[p] =
                  [leave[p] EXCEPT !.a = yes, !.pc = "askB", !.list = {}, !.again = FALSE]
            \/ \E yes \in BOOLEAN : leave'[p] =
                  [leave[p] EXCEPT !.b = yes, !.pc = "decide", !.list = {}, !.again = FALSE]
  <2>1. leave'[p].todo = leave[p].todo /\ leave'[p].ret = leave[p].ret
        /\ (leave'[p].pc = "cutB" => leave[p].pc = "cutB")
    BY <1>12 DEF Call
  <2>2. CASE leave[p].pc # "idle"
    BY <1>4, <2>1, <2>2
  <2>3. CASE leave[p].pc = "idle" /\ leave'[p] = [leave[p] EXCEPT !.again = FALSE]
    <3>1. leave'[p].pc = "idle"
      BY <2>3 DEF Call
    <3> QED
      BY <1>4, <2>1, <3>1
  <2>4. CASE leave[p].pc = "idle" /\ CallStep(p, leave'[p])
    <3>1. ~(AskA(p) \/ AskB(p) \/ AgainA(p) \/ AgainB(p) \/ AnswerA(p) \/ AnswerB(p)
            \/ Terminate(p) \/ PostRemove(p) \/ CutA(p) \/ CutB(p) \/ NotifyRefused(p)
            \/ LeaveReturns(p) \/ Rejoin(p) \/ AnswerRaises(p))
      BY <2>4 DEF AskA, AskB, AskToLeave, AgainA, AgainB, SubmitAgain, AnswerA, AnswerB,
                  Terminate, PostRemove, CutA, CutB, NotifyRefused, LeaveReturns, Rejoin,
                  AnswerRaises
    <3> QED
      BY <1>6, <1>7, <2>4, <3>1 DEF CallStep
  <2> QED
    BY <1>5, <2>2, <2>4, Calls
<1> QED
  BY <1>5, <1>6, <1>7, <1>8, <1>9, <1>10, <1>11, <1>12, Calls DEF CallStep
-----------------------------------------------------------------------------
(* Theorems *)

IInv ==
    /\ TypeOK /\ Domains /\ ListsOut /\ AskedFirst /\ StopsFirst
    /\ RacesNoted /\ LivingAreKnown /\ Remembered

LEMMA InitIInv == Init => IInv
<1> SUFFICES ASSUME Init
             PROVE  IInv
  OBVIOUS
<1>1. leave = [p \in Peers |-> Idle("none")] /\ Leavers \subseteq Peers
  BY PeersAssumption DEF Init
<1>2. \A p \in Peers : /\ leave[p].pc = "idle" /\ leave[p].ret = "none"
                       /\ ~leave[p].a /\ ~leave[p].b
  BY <1>1, IdleFields
<1>3. leave \in [Peers -> Call]
  BY <1>1, IdleShape
<1>4. TypeOK /\ Domains
  <2>1. \A p \in Peers : table[p] = [c \in {IdA[p], IdB[p]} |-> InCommittee(c) \ {p}]
    BY DEF Init
  <2>2. LedgerOK
    BY DEF Init, LedgerOK
  <2>3. TablesOK
    BY <2>1 DEF TablesOK
  <2>4. running \subseteq Peers /\ api \subseteq running /\ leaves \in 0..MaxLeaves
    BY PeersAssumption DEF Init
  <2>6. met \subseteq Leavers /\ crossed \subseteq Peers
    BY DEF Init
  <2>5. Domains
    BY DEF Init, Domains
  <2> QED
    BY <1>3, <2>2, <2>3, <2>4, <2>5, <2>6 DEF TypeOK, LedgerOK, TablesOK
<1>5. ListsOut /\ AskedFirst /\ StopsFirst /\ RacesNoted /\ Remembered
  BY <1>1, <1>2 DEF ListsOut, AskedFirst, StopsFirst, RacesNoted, Remembered, Ending
<1>6. LivingAreKnown
  BY DEF Init, LivingAreKnown, InCommittee
<1> QED
  BY <1>4, <1>5, <1>6 DEF IInv

LEMMA NextIInv == IInv /\ [Next]_vars => IInv'
<1> SUFFICES ASSUME IInv, [Next]_vars
             PROVE  IInv'
  OBVIOUS
<1> LedgerOK
  BY DEF IInv, TypeOK, LedgerOK
<1> QED
  BY Types, ListsOutKept, AskedFirstKept, StopsFirstKept, RacesKept, LivingKept,
     RememberedKept DEF IInv

LEMMA StopAsksBoth == IInv => StoppedMeansAskedBoth
<1> SUFFICES ASSUME IInv, NEW p \in Leavers,
                    leave[p].pc \in {"notify", "cutA", "cutB"} \/ leave[p].ret = "true",
                    NEW c \in {IdA[p], IdB[p]}
             PROVE  Asked(p, c)
  BY DEF StoppedMeansAskedBoth, Asked
<1> QED
  BY DEF IInv, AskedFirst, Ending

\* The invariant behind all that follows: where every call stands, and what the
\* tables and the submitted lists owe to that.
THEOREM Inductive == Spec => []IInv
<1> QED
  BY InitIInv, NextIInv, PTL DEF Spec

\* Whatever the peers, committees and number of calls, the state of a call and
\* the tables keep their shape (SmartShardPeer.leave, routes.remove).
THEOREM TypeCorrect == Spec => []TypeOK
<1>1. IInv => TypeOK
  BY DEF IInv
<1> QED
  BY <1>1, Inductive, PTL

\* A leaver stops its API before the first /remove, so a running neighbour is in
\* the table of every running peer of its committees at which no two /removes have
\* overlapped, however many peers leave.
THEOREM LivingStayKnown == Spec => []LivingAreKnown
<1>1. IInv => LivingAreKnown
  BY DEF IInv
<1> QED
  BY <1>1, Inductive, PTL

\* leave stops its API only after a list without it went out in both committees,
\* whatever the two answers are worth.
THEOREM StopNeedsBoth == Spec => []StoppedMeansAskedBoth
BY StopAsksBoth, Inductive, PTL

\* While connections are not refused, a peer whose leave returned True is known to
\* no running peer, if no two /removes have overlapped at either: the copy of the
\* table taken at its start was enough.
THEOREM GoneStayForgotten ==
    ASSUME ~Faults PROVE Spec => []GoneAreForgotten
<1>1. IInv => GoneAreForgotten
  BY DEF IInv, TypeOK, Remembered, GoneAreForgotten
<1> QED
  BY <1>1, Inductive, PTL

\* Where every committee begins with four members, none falls below four however
\* many members leave at once on rosters read at any earlier time.
THEOREM NeverBelowFour ==
    ASSUME \A c \in Committees : Cardinality(InCommittee(c)) >= 4
    PROVE  Spec => []CommitteesKeepFour
<1>1. Init => Fours
  BY DEF Init, Fours
<1>2. IInv /\ Fours /\ [Next]_vars => Fours'
  <2>1. IInv => LedgerOK /\ Domains /\ ListsOut
    BY DEF IInv, TypeOK, LedgerOK
  <2> QED
    BY <2>1, FoursKept
<1>3. IInv /\ Fours => CommitteesKeepFour
  BY DEF IInv, TypeOK, Fours, CommitteesKeepFour
<1> QED
  BY <1>1, <1>2, <1>3, Inductive, PTL DEF Spec

\* Each committee of the network keeps the promises of CommitteeRoster: a step of
\* any peer is a proposal to one committee, an adoption by one, or nothing to it.
THEOREM ImplementsRosters == Spec => RostersSpec
<1>1. Init => \A c \in Committees : RosterOf(c)!Init
  BY DEF Init, RosterOf!Init
<1>2. IInv /\ [Next]_vars => \A c \in Committees : [RosterOf(c)!Next]_(RosterOf(c)!vars)
  <2> SUFFICES ASSUME IInv, [Next]_vars, NEW c \in Committees
               PROVE  [RosterOf(c)!Next]_(RosterOf(c)!vars)
    OBVIOUS
  <2> LedgerOK /\ Domains /\ ListsOut
    BY DEF IInv, TypeOK, LedgerOK
  <2>1. CASE UNCHANGED ledger
    BY <2>1 DEF ledger, RosterOf!vars
  <2>2. ASSUME NEW p \in Leavers, NEW d \in Committees, Submission(p, d)
        PROVE  [RosterOf(c)!Next]_(RosterOf(c)!vars)
    <3>1. PICK old \in past[d] :
            /\ Cardinality(old \ {p}) >= 4
            /\ floating' = [floating EXCEPT ![d] = @ \cup {old \ {p}}]
            /\ UNCHANGED <<past, roster>>
      BY <2>2 DEF Submission, MayUpdate
    <3>2. CASE c = d
      <4>1. RosterOf(c)!Cardinality(old \ {p}) = Cardinality(old \ {p})
        BY DEF RosterOf!Cardinality, Cardinality
      <4> QED
        BY <3>1, <3>2, <4>1 DEF Domains, RosterOf!Next, RosterOf!Propose, RosterOf!Float
    <3>3. CASE c # d
      BY <3>1, <3>3 DEF Domains, RosterOf!vars
    <3> QED
      BY <3>2, <3>3
  <2>3. ASSUME NEW d \in Committees, Adopt(d)
        PROVE  [RosterOf(c)!Next]_(RosterOf(c)!vars)
    <3>1. PICK list \in floating[d] :
            /\ roster' = [roster EXCEPT ![d] = list]
            /\ past' = [past EXCEPT ![d] = @ \cup {list}]
            /\ floating' = [floating EXCEPT ![d] = @ \ {list}]
      BY <2>3 DEF Adopt
    <3>2. CASE c = d
      BY <3>1, <3>2 DEF Domains, RosterOf!Next, RosterOf!Adopt
    <3>3. CASE c # d
      BY <3>1, <3>3 DEF Domains, RosterOf!vars
    <3> QED
      BY <3>2, <3>3
  <2>4. \A p \in Leavers : IdA[p] \in Committees /\ IdB[p] \in Committees
    BY PeersAssumption
  <2>5. UNCHANGED vars => UNCHANGED ledger
    BY DEF vars, ledger
  <2> QED
    BY <2>1, <2>2, <2>3, <2>4, <2>5, LedgerSteps
<1> QED
  BY <1>1, <1>2, Inductive, PTL DEF Spec, RostersSpec
=============================================================================
