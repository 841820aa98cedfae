----------------------------- MODULE PeerApi_proofs -----------------------------
(***************************************************************************)
(* Proofs about PeerApi, for any number of threads, requests, restarts and *)
(* quorums.  IInv follows the two look-ups of every handler: an            *)
(* Intersection has its containers and its ids before config holds it, no  *)
(* two starts make the same one, and what a request has tested stays true  *)
(* until another request that may change it has arrived.                   *)
(***************************************************************************)
EXTENDS PeerApi, TLAPS

Ids == Quorums \cup {None}
Addresses == (UNION Lists) \cup Containers \cup {None}
Kinds == {"none", "start", "submit", "genesis", "read", "info", "add", "join",
          "min", "remove", "quoruminfo", "request+join"}
StartPcs == {"enter", "del", "makeA", "makeB", "store", "putA", "putB"}
OtherPcs == {"check", "checkB", "forward", "idA", "idB", "count", "cut",
             "put", "pop", "ip", "call", "run"}
Results == {"none", "ok", "raised", "noKey", "noList", "failed", "forwarded", "null"}

Request ==
    [kind : Kinds, q : Ids, ids : Ids \X Ids, list : SUBSET Addresses, ips : SUBSET Addresses,
     pc : {"idle", "return"} \cup StartPcs \cup OtherPcs, obj : 0..Owners,
     by : Containers \cup {None}, ret : Results]

Types ==
    /\ thread \in [Threads -> Request]
    /\ config \in 0..Deleted /\ idsOf \in [Objects -> Ids \X Ids]
    /\ failures \in Nat
    /\ \A k \in DOMAIN quorums : quorums[k] \subseteq UNION Lists
-----------------------------------------------------------------------------
(* What a step does to the thread that takes it *)

OthersWait(t) == \A o \in Threads \ {t} : thread'[o] = thread[o]

SameRequest(t) ==
    /\ thread'[t].kind = thread[t].kind /\ thread'[t].q = thread[t].q

\* The thread goes on to another place of its handler.
Goes(t, pc) ==
    /\ thread' \in [Threads -> Request] /\ OthersWait(t) /\ SameRequest(t)
    /\ thread'[t].pc = pc
    /\ thread'[t].ids = thread[t].ids
    /\ thread'[t].list = thread[t].list /\ thread'[t].ips = thread[t].ips
    /\ thread'[t].obj = thread[t].obj /\ thread'[t].by = thread[t].by
    /\ thread'[t].ret = thread[t].ret

\* The handler has its result.
Returns(t, ret) ==
    /\ thread' \in [Threads -> Request] /\ OthersWait(t) /\ SameRequest(t)
    /\ thread'[t].pc \in {"idle", "return"}
    /\ thread'[t].list = thread[t].list
    /\ thread'[t].obj = thread[t].obj /\ thread'[t].by = thread[t].by
    /\ thread'[t].ret = ret

LEMMA IdleShape ==
    /\ Idle \in Request
    /\ Idle.kind = "none" /\ Idle.q = None /\ Idle.list = {} /\ Idle.pc = "idle"
    /\ Idle.ips = {} /\ Idle.obj = 0 /\ Idle.by = None /\ Idle.ret = "none" /\ Idle.ids = <<None, None>>
  BY PeerApiAssumption
     DEF Idle, Request, Kinds, Ids, Addresses, NotStarted, Owners, Results

LEMMA GotoGoes ==
    ASSUME Types, NEW t \in Threads, NEW pc \in StartPcs \cup OtherPcs, Goto(t, pc)
    PROVE  Goes(t, pc)
<1>1. thread' = [thread EXCEPT ![t] = [thread[t] EXCEPT !.pc = pc]] /\ thread[t] \in Request
  BY DEF Goto, Types
<1>2. [thread[t] EXCEPT !.pc = pc] \in Request
  BY <1>1 DEF Request
<1> QED
  BY <1>1, <1>2 DEF Goes, OthersWait, SameRequest, Types, Request

LEMMA ReturnReturns ==
    ASSUME Types, NEW t \in Threads, NEW ret \in Results, Return(t, ret)
    PROVE  Returns(t, ret)
<1> DEFINE pc == IF thread[t].obj = NotStarted THEN "idle" ELSE "return"
           done == [thread[t] EXCEPT !.ret = ret, !.ids = Idle.ids, !.ips = {}, !.pc = pc]
<1>1. thread' = [thread EXCEPT ![t] = done] /\ thread[t] \in Request
  BY DEF Return, Types
<1>2. pc \in {"idle", "return"} /\ Idle.ids \in Ids \X Ids
  BY IdleShape DEF Ids
<1> HIDE DEF pc
<1>3. /\ done \in Request /\ done.pc = pc /\ done.ret = ret
      /\ done.kind = thread[t].kind /\ done.q = thread[t].q /\ done.list = thread[t].list
      /\ done.obj = thread[t].obj /\ done.by = thread[t].by
  BY <1>1, <1>2 DEF Request
<1> HIDE DEF done
<1> QED
  BY <1>1, <1>2, <1>3 DEF Returns, OthersWait, SameRequest, Types
-----------------------------------------------------------------------------
(* The inductive invariant *)

\* config has held the Intersection: its ids are known.
Made(o) == o \in Objects /\ idsOf[o][1] # None

ConfigOK == config \in Objects => Made(config) /\ Halves(config) \subseteq up

\* Which request is where in its handler.
PlaceOK(t) ==
    /\ thread[t].pc \in StartPcs \cup OtherPcs => thread[t].ret = "none"
    /\ thread[t].pc \in StartPcs => thread[t].kind = "start" /\ thread[t].ids \in StartIds
    /\ thread[t].pc \in OtherPcs =>
         thread[t].kind \notin {"none", "start", "quoruminfo", "request+join"}
    /\ thread[t].pc \in {"idA", "idB"} => thread[t].kind = "min"
    /\ thread[t].pc = "cut" => thread[t].kind = "remove"
    /\ thread[t].pc \in {"check", "checkB"} => thread[t].kind \notin {"min", "remove"}
    /\ thread[t].pc = "checkB" => thread[t].kind = "genesis"
    /\ thread[t].pc = "count" => thread[t].kind \in {"info", "min"}
    /\ thread[t].pc = "put" => Writes(thread[t])
    /\ thread[t].pc \in {"pop", "ip"} => thread[t].kind = "join"
    /\ thread[t].pc \in {"call", "run"} =>
         thread[t].kind \in {"submit", "genesis", "read", "join"}
    /\ thread[t].list \subseteq UNION Lists

\* What the reference a thread holds keeps alive, and whom it has called.
HolderOK(t) ==
    /\ thread[t].pc \in {"makeB", "store"} =>
         thread[t].obj \in Objects /\ idsOf[thread[t].obj][1] = None
    /\ thread[t].pc = "makeB" => <<thread[t].obj, "a">> \in up
    /\ thread[t].pc = "store" => Halves(thread[t].obj) \subseteq up
    /\ thread[t].pc = "run" =>
         /\ Halves(thread[t].obj) \subseteq up
         /\ thread[t].by \in {None} \cup Halves(thread[t].obj)
    /\ thread[t].pc \in {"idB", "put", "count", "pop", "ip", "call", "run"} => config # NotStarted
    /\ thread[t].pc = "pop" => thread[t].q \in DOMAIN quorums
    /\ thread[t].by # None =>
         Made(thread[t].by[1]) /\ QuorumOf(thread[t].by) = thread[t].q

\* No other thread has the Intersection that a start is making.
Distinct ==
    \A t, o \in Threads : t # o /\ thread[t].pc \in {"makeB", "store"} =>
        thread[o].obj # thread[t].obj

\* Whoever is being served marks those it may interfere with.
Quiet ==
    \A s, t \in Threads : s # t /\ Serving(s) /\ Disturbs(thread[s], thread[t]) =>
        t \in disturbed

\* The ids of a started Intersection are keys of the table or about to become keys.
Keyed ==
    config \in Objects \ {Owners} =>
        \/ \E s \in Threads : thread[s].pc = "putA" /\ thread[s].ids = idsOf[config]
        \/ /\ idsOf[config][1] \in DOMAIN quorums
           /\ \/ idsOf[config][2] \in DOMAIN quorums
              \/ \E s \in Threads : thread[s].pc = "putB" /\ thread[s].ids = idsOf[config]

Excused(t) ==
    /\ thread[t].ret = "noKey" => failures > 0
    /\ thread[t].ret = "noList" => config = Owners

Listed(t) ==
    /\ thread[t].q \in DOMAIN quorums
    /\ quorums[thread[t].q] = thread[t].list

\* What an undisturbed request has tested, stored or called is still so.
UndisturbedOK(t) ==
    t \notin disturbed =>
        /\ thread[t].pc \in {"put", "pop", "ip", "call"} =>
             config \in Objects /\ InCommittee(config, thread[t].q)
        /\ thread[t].pc = "idB" => config \in Objects /\ InCommittee(config, thread[t].ids[1])
        /\ thread[t].pc = "count" =>
             config \in Objects /\ InCommittee(config, KeyOf(thread[t]))
        /\ thread[t].pc = "run" => thread[t].by # None
        /\ Writes(thread[t]) /\ (thread[t].pc \in {"pop", "ip", "call", "run"} \/ thread[t].ret = "ok")
             => Listed(t)
        /\ thread[t].ret = "ok" /\ thread[t].kind \in {"submit", "genesis", "join"} =>
             thread[t].by # None
        /\ Excused(t)

Globals == Types /\ ConfigOK /\ Distinct /\ Quiet /\ Keyed /\ MissingOnlyDuringStart
ThreadOK(t) == PlaceOK(t) /\ HolderOK(t) /\ UndisturbedOK(t)

IInv == Globals /\ \A t \in Threads : ThreadOK(t)
-----------------------------------------------------------------------------
(* What a step does to the threads that do not take it *)

LEMMA ContainerShape ==
    /\ \A o \in Objects : Halves(o) \subseteq Containers
    /\ \A c \in Containers : c[1] \in Objects /\ c # None
    /\ \A o, h : h \in Halves(o) => h[1] = o
    /\ 0 \notin Objects /\ Deleted \notin Objects /\ Deleted # NotStarted /\ Owners \in Objects
    /\ \A x \in 0..Deleted : x \in Objects \/ x = NotStarted \/ x = Deleted
    /\ Objects \subseteq 0..Owners /\ Objects \subseteq 0..Deleted /\ 0 \in 0..Owners
    /\ {NotStarted, Owners, Deleted} \subseteq 0..Deleted
  BY PeerApiAssumption, NoneAssumption DEF Halves, Objects, Deleted, NotStarted, Owners

LEMMA MakersHaveOne ==
    ASSUME IInv, NEW s \in Threads, thread[s].pc \in {"makeB", "store"}
    PROVE  thread[s].obj # 0
<1>1. HolderOK(s)
  BY DEF IInv, ThreadOK
<1>2. thread[s].obj \in Objects
  BY <1>1 DEF HolderOK
<1>3. 0 \notin Objects
  BY ContainerShape
<1> QED
  BY <1>2, <1>3

LEMMA OthersHold ==
    ASSUME IInv, NEW t \in Threads, OthersWait(t), NEW o \in Threads \ {t},
           config = NotStarted \/ config' # NotStarted,
           DOMAIN quorums \subseteq DOMAIN quorums',
           \A x \in Objects : Made(x) => idsOf'[x] = idsOf[x],
           thread[o].pc \in {"makeB", "store"} =>
               idsOf'[thread[o].obj] = idsOf[thread[o].obj],
           \A h \in Halves(thread[o].obj) : h \in up => h \in up'
    PROVE  PlaceOK(o)' /\ HolderOK(o)'
<1> thread'[o] = thread[o] /\ PlaceOK(o) /\ HolderOK(o) /\ thread[o] \in Request
  BY DEF OthersWait, IInv, ThreadOK, Globals, Types
<1>1. PlaceOK(o)'
  BY DEF PlaceOK, Writes
<1>2. <<thread[o].obj, "a">> \in Halves(thread[o].obj)
  BY DEF Halves
<1>3. thread[o].by # None =>
         /\ thread[o].by[1] \in Objects
         /\ idsOf'[thread[o].by[1]] = idsOf[thread[o].by[1]]
  BY ContainerShape DEF HolderOK, Made, Request
<1>4. HolderOK(o)'
  <2>1. thread[o].by # None =>
           Made(thread[o].by[1])' /\ QuorumOf(thread[o].by)' = thread[o].q
    BY <1>3 DEF HolderOK, Made, QuorumOf
  <2> QED
    BY <1>2, <2>1 DEF HolderOK
<1> QED
  BY <1>1, <1>4

\* A start disturbs everyone; another handler leaves config alone and writes one
\* list, which an undisturbed request for that quorum has not stored.
LEMMA OthersUndisturbed ==
    ASSUME IInv, NEW t \in Threads, OthersWait(t), NEW o \in Threads \ {t},
           Serving(t), disturbed' = disturbed,
           \/ thread[t].kind = "start"
           \/ /\ config' = config /\ idsOf' = idsOf /\ failures' = failures
              /\ \/ quorums' = quorums
                 \/ Writes(thread[t]) /\ \E list : Put(thread[t].q, list)
                 \/ thread[t].kind = "remove"
    PROVE  UndisturbedOK(o)'
<1> SUFFICES ASSUME o \notin disturbed
             PROVE  UndisturbedOK(o)'
  BY DEF UndisturbedOK
<1> thread'[o] = thread[o] /\ UndisturbedOK(o)
  BY DEF OthersWait, IInv, ThreadOK
<1>1. ~Disturbs(thread[t], thread[o])
  BY DEF IInv, Globals, Quiet
<1>2. /\ config' = config /\ idsOf' = idsOf /\ failures' = failures
      /\ Writes(thread[o]) /\ Listed(o) => Listed(o)'
  BY <1>1 DEF Disturbs, Listed, Put
<1> QED
  BY <1>2 DEF UndisturbedOK, Excused, InCommittee, KeyOf

\* The step of a handler that leaves the Intersections alone.
Plain(t) ==
    /\ Serving(t) /\ OthersWait(t) /\ SameRequest(t)
    /\ thread' \in [Threads -> Request]
    /\ config' = config /\ idsOf' = idsOf /\ up' = up
    /\ disturbed' = disturbed /\ failures' = failures
    /\ DOMAIN quorums \subseteq DOMAIN quorums'
    /\ \A k \in DOMAIN quorums' : quorums'[k] \subseteq UNION Lists

LEMMA PlainKeeps ==
    ASSUME IInv, NEW t \in Threads, Plain(t),
           thread[t].pc \in OtherPcs, thread'[t].pc \notin StartPcs,
           thread'[t].obj = thread[t].obj \/ (thread'[t].obj = config /\ config \in Objects)
    PROVE  Globals'
<1> Globals /\ PlaceOK(t)
  BY DEF IInv, ThreadOK
<1>1. Types'
  BY DEF Types, Globals, Plain
<1>2. ConfigOK'
  BY DEF ConfigOK, Globals, Plain, Made
<1>3. Distinct'
  <2> SUFFICES ASSUME NEW s \in Threads, NEW o \in Threads, s # o,
                      thread'[s].pc \in {"makeB", "store"}
               PROVE  thread'[o].obj # thread'[s].obj
    BY DEF Distinct
  <2>1. s # t
    BY DEF StartPcs
  <2>2. thread'[s] = thread[s] /\ HolderOK(s)
    BY <2>1 DEF Plain, OthersWait, IInv, ThreadOK
  <2>3. thread[o].obj # thread[s].obj
    BY <2>2 DEF Distinct, Globals
  <2>4. config \in Objects => config # thread[s].obj
    BY <2>2 DEF HolderOK, ConfigOK, Globals, Made
  <2> QED
    BY <2>2, <2>3, <2>4 DEF Plain, OthersWait
<1>4. Quiet'
  BY DEF Quiet, Globals, Plain, OthersWait, SameRequest, Serving, Disturbs, Writes
<1>5. Keyed'
  <2>1. \A s \in Threads : thread[s].pc \in {"putA", "putB"} => thread'[s] = thread[s]
    BY DEF Plain, OthersWait, OtherPcs
  <2> QED
    BY <2>1 DEF Keyed, Globals, Plain
<1>6. MissingOnlyDuringStart'
  <2>1. \A s \in Threads : thread[s].pc \in {"makeA", "makeB", "store"} => thread'[s] = thread[s]
    BY DEF Plain, OthersWait, OtherPcs
  <2> QED
    BY <2>1 DEF MissingOnlyDuringStart, Globals, Plain
<1> QED
  BY <1>1, <1>2, <1>3, <1>4, <1>5, <1>6 DEF Globals

\* It is enough then to look at the thread that takes it.
LEMMA PlainStep ==
    ASSUME IInv, NEW t \in Threads, Plain(t),
           thread[t].pc \in OtherPcs, thread'[t].pc \notin StartPcs,
           thread'[t].obj = thread[t].obj \/ (thread'[t].obj = config /\ config \in Objects),
           \/ quorums' = quorums
           \/ Writes(thread[t]) /\ \E list : Put(thread[t].q, list)
           \/ thread[t].kind = "remove",
           ThreadOK(t)'
    PROVE  IInv'
<1>1. \A o \in Threads \ {t} : PlaceOK(o)' /\ HolderOK(o)'
  BY OthersHold DEF Plain
<1>2. \A o \in Threads \ {t} : UndisturbedOK(o)'
  BY OthersUndisturbed DEF Plain
<1> QED
  BY <1>1, <1>2, PlainKeeps DEF IInv, ThreadOK

\* A handler that returns owes what its answer promises.
LEMMA ReturnStep ==
    ASSUME IInv, NEW t \in Threads, NEW ret \in Results, Returns(t, ret),
           thread[t].pc \in OtherPcs,
           config' = config /\ idsOf' = idsOf /\ up' = up,
           disturbed' = disturbed /\ failures' = failures,
           \/ quorums' = quorums
           \/ /\ Writes(thread[t]) /\ \E list : Put(thread[t].q, list)
              /\ DOMAIN quorums \subseteq DOMAIN quorums'
              /\ \A k \in DOMAIN quorums' : quorums'[k] \subseteq UNION Lists,
           ret = "noKey" /\ t \notin disturbed => failures > 0,
           ret = "noList" /\ t \notin disturbed => config = Owners,
           ret = "ok" /\ t \notin disturbed =>
               /\ thread[t].kind \in {"submit", "genesis", "join"} => thread[t].by # None
               /\ Writes(thread[t]) => Listed(t)'
    PROVE  IInv'
<1>1. Plain(t)
  BY DEF Plain, Returns, Serving, OtherPcs, IInv, Globals, Types
<1> thread'[t].pc \in {"idle", "return"} /\ HolderOK(t) /\ thread[t] \in Request
  BY DEF Returns, IInv, ThreadOK, Globals, Types
<1>2. PlaceOK(t)'
  BY DEF PlaceOK, Returns, StartPcs, OtherPcs, IInv, ThreadOK
<1>3. HolderOK(t)'
  BY DEF HolderOK, Returns, SameRequest, Made, QuorumOf
<1>4. UndisturbedOK(t)'
  BY DEF UndisturbedOK, Returns, SameRequest, Excused, Listed, Writes
<1> QED
  BY <1>1, <1>2, <1>3, <1>4, PlainStep DEF ThreadOK, Returns, StartPcs
-----------------------------------------------------------------------------
(* The handlers *)

\* The key of the Intersection is missing for an undisturbed request only after a
\* failed restart.
LEMMA MissingIsExcused ==
    ASSUME IInv, NEW t \in Threads, Serving(t), t \notin disturbed, config = Deleted,
           thread[t].pc \notin {"makeA", "makeB", "store"}
    PROVE  failures > 0
<1> SUFFICES ASSUME failures = 0
             PROVE  FALSE
  BY DEF IInv, Globals, Types
<1>1. PICK s \in Threads : thread[s].pc \in {"makeA", "makeB", "store"}
  BY DEF IInv, Globals, MissingOnlyDuringStart
<1>2. s # t /\ Serving(s) /\ thread[s].kind = "start"
  BY <1>1 DEF IInv, ThreadOK, PlaceOK, StartPcs, Serving
<1> QED
  BY <1>2 DEF IInv, Globals, Quiet, Disturbs

\* What a handler finds missing, it answers.
LEMMA MissingKeeps ==
    ASSUME IInv, NEW t \in Threads, thread[t].pc \in OtherPcs,
           UNCHANGED <<config, idsOf, up, quorums, disturbed, failures>>,
           config = Deleted, Return(t, "noKey")
    PROVE  IInv'
<1>1. Returns(t, "noKey")
  BY ReturnReturns DEF Results, IInv, Globals
<1>2. Serving(t) /\ thread[t].pc \notin {"makeA", "makeB", "store"}
  BY DEF Serving, OtherPcs
<1>3. "noKey" \in Results
  BY DEF Results
<1> QED
  BY <1>1, <1>2, <1>3, ReturnStep, MissingIsExcused

\* An answer that promises nothing is always in order.
LEMMA ModestKeeps ==
    ASSUME IInv, NEW t \in Threads, thread[t].pc \in OtherPcs,
           UNCHANGED <<config, idsOf, up, quorums, disturbed, failures>>,
           NEW ret \in Results \ {"noKey", "noList"}, Return(t, ret),
           ret = "ok" => thread[t].kind \in {"info", "min", "remove"}
    PROVE  IInv'
<1>1. Returns(t, ret)
  BY ReturnReturns DEF IInv, Globals
<1> QED
  BY <1>1, ReturnStep DEF Writes

LEMMA CheckKeeps ==
    ASSUME IInv, NEW t \in Threads, Check(t)
    PROVE  IInv'
<1> /\ thread[t].pc \in OtherPcs /\ Types /\ PlaceOK(t) /\ HolderOK(t) /\ UndisturbedOK(t)
    /\ thread[t] \in Request
  BY DEF Check, OtherPcs, IInv, ThreadOK, Globals, Types
<1>1. UNCHANGED <<config, idsOf, up, quorums, disturbed, failures>>
  BY DEF Check, lifecycle
<1>2. \/ config = Deleted /\ Return(t, "noKey")
      \/ config = NotStarted /\ Return(t, Refusal(thread[t].kind))
      \/ config \in Objects /\ InCommittee(config, thread[t].q) /\ Goto(t, AfterCheck(thread[t].kind))
      \/ thread[t].kind = "genesis" /\ Goto(t, "checkB")
      \/ Stranger(t)
  BY ContainerShape DEF Check, InCommittee, Types
<1>3. CASE config = Deleted /\ Return(t, "noKey")
  BY <1>1, <1>3, MissingKeeps
<1>4. CASE config = NotStarted /\ Return(t, Refusal(thread[t].kind))
  <2>1. PICK ret \in Results \ {"noKey", "noList"} :
           ret = Refusal(thread[t].kind) /\ (ret = "ok" => thread[t].kind = "info")
    BY DEF Refusal, Results
  <2> QED
    BY <1>1, <1>4, <2>1, ModestKeeps
<1>5. ASSUME NEW pc \in {"checkB", "forward", "put", "count", "call"}, Goto(t, pc),
             pc = "checkB" => thread[t].kind = "genesis",
             pc \notin {"checkB", "forward"} =>
                config \in Objects /\ InCommittee(config, thread[t].q),
             pc = "put" => Writes(thread[t]), pc = "count" => thread[t].kind = "info",
             pc = "call" => thread[t].kind \in {"submit", "genesis", "read"}
      PROVE  IInv'
  <2>1. Goes(t, pc)
    BY <1>5, GotoGoes DEF OtherPcs
  <2>2. Plain(t)
    BY <1>1, <2>1 DEF Plain, Goes, Serving, OtherPcs, Types
  <2>3. PlaceOK(t)'
    BY <1>5, <2>1 DEF PlaceOK, Goes, SameRequest, Writes, StartPcs, OtherPcs
  <2>4. HolderOK(t)'
    BY <1>1, <1>5, <2>1, ContainerShape DEF HolderOK, Goes, SameRequest, Made, QuorumOf, NotStarted
  <2>5. thread'[t].pc \notin {"pop", "ip", "run"} /\ thread'[t].ret = "none"
        /\ (thread'[t].pc = "call" => ~Writes(thread[t])) /\ thread'[t].pc # "idB"
    BY <1>5, <2>1 DEF Goes, PlaceOK, Writes
  <2>6. UndisturbedOK(t)'
    BY <1>1, <1>5, <2>1, <2>5
       DEF UndisturbedOK, Goes, SameRequest, Excused, Writes, InCommittee, KeyOf
  <2> QED
    BY <1>1, <2>1, <2>2, <2>3, <2>4, <2>6, PlainStep DEF ThreadOK, Goes, StartPcs
<1>6. CASE Stranger(t)
  <2>1. CASE thread[t].kind \in {"add", "join", "read"} /\ Return(t, "failed")
    BY <1>1, <2>1, ModestKeeps DEF Results
  <2>2. CASE thread[t].kind = "info" /\ Return(t, "ok")
    BY <1>1, <2>2, ModestKeeps DEF Results
  <2>3. CASE Goto(t, "forward")
    BY <1>5, <2>3
  <2> QED
    BY <1>6, <2>1, <2>2, <2>3 DEF Stranger
<1>7. /\ thread[t].kind \in {"submit", "genesis", "read", "info", "add", "join"}
      /\ AfterCheck(thread[t].kind) \in {"put", "count", "call"}
      /\ AfterCheck(thread[t].kind) = "put" => Writes(thread[t])
      /\ AfterCheck(thread[t].kind) = "count" => thread[t].kind = "info"
      /\ AfterCheck(thread[t].kind) = "call" => thread[t].kind \in {"submit", "genesis", "read"}
  BY DEF AfterCheck, Writes, Check, PlaceOK, Request, Kinds
<1> QED
  BY <1>2, <1>3, <1>4, <1>5, <1>6, <1>7

LEMMA ForwardKeeps ==
    ASSUME IInv, NEW t \in Threads, Forward(t)
    PROVE  IInv'
<1>1. /\ UNCHANGED <<config, idsOf, up, quorums, disturbed, failures>>
      /\ thread[t].pc \in OtherPcs
  BY DEF Forward, lifecycle, OtherPcs
<1>2. Return(t, "forwarded") \/ Return(t, "raised")
  BY DEF Forward
<1> QED
  BY <1>1, <1>2, ModestKeeps DEF Results

LEMMA PairShape ==
    ASSUME NEW S, NEW a \in S, NEW b \in S
    PROVE  \E ids \in S \X S : ids = <<a, b>> /\ ids[1] = a
<1>1. <<a, b>> \in S \X S /\ <<a, b>>[1] = a
  OBVIOUS
<1> QED
  BY <1>1, Zenon

\* The ids a /min+intersection has taken are those of the Intersection, unless a
\* start has come.
LEMMA TakeIdKeeps ==
    ASSUME IInv, NEW t \in Threads, TakeId(t)
    PROVE  IInv'
<1> /\ thread[t].pc \in {"idA", "idB"} /\ thread[t].pc \in OtherPcs /\ Types
    /\ PlaceOK(t) /\ HolderOK(t) /\ UndisturbedOK(t) /\ thread[t] \in Request
  BY DEF TakeId, OtherPcs, IInv, ThreadOK, Globals, Types
<1>1. UNCHANGED <<config, idsOf, up, quorums, disturbed, failures>>
  BY DEF TakeId, lifecycle
<1>2. CASE config = Deleted /\ Return(t, "noKey")
  BY <1>1, <1>2, MissingKeeps
<1>3. CASE config = NotStarted /\ Return(t, "raised")
  BY <1>1, <1>3, ModestKeeps DEF Results
<1>4. ASSUME config \in Objects, NEW ids \in Ids \X Ids, NEW pc \in {"idB", "count"},
             thread' = [thread EXCEPT ![t].ids = ids, ![t].pc = pc],
             t \notin disturbed => InCommittee(config, ids[1])
      PROVE  IInv'
  <2>1. /\ thread' \in [Threads -> Request] /\ OthersWait(t) /\ SameRequest(t)
        /\ thread'[t].pc = pc /\ thread'[t].ids = ids /\ thread'[t].list = thread[t].list
        /\ thread'[t].obj = thread[t].obj /\ thread'[t].by = thread[t].by
        /\ thread'[t].ret = thread[t].ret
    <3>1. thread' = [thread EXCEPT ![t] = [thread[t] EXCEPT !.ids = ids, !.pc = pc]]
      BY <1>4 DEF Types
    <3>2. [thread[t] EXCEPT !.ids = ids, !.pc = pc] \in Request
      BY DEF Request, OtherPcs
    <3> QED
      BY <3>1, <3>2 DEF OthersWait, SameRequest, Types, Request
  <2>2. Plain(t)
    BY <1>1, <2>1 DEF Plain, Serving, Types
  <2>3. PlaceOK(t)'
    BY <2>1 DEF PlaceOK, SameRequest, StartPcs, OtherPcs
  <2>4. HolderOK(t)'
    BY <1>1, <1>4, <2>1, ContainerShape DEF HolderOK, SameRequest, Made, QuorumOf, NotStarted
  <2>5. thread[t].kind = "min" /\ thread[t].ret = "none"
    BY DEF PlaceOK
  <2>6. UndisturbedOK(t)'
    BY <1>1, <1>4, <2>1, <2>5
       DEF UndisturbedOK, SameRequest, Writes, InCommittee, KeyOf, Excused
  <2> QED
    BY <1>1, <2>1, <2>2, <2>3, <2>4, <2>6, PlainStep DEF ThreadOK, StartPcs
<1>5. ASSUME config \in Objects, thread[t].pc = "idA",
             thread' = [thread EXCEPT ![t].ids = <<idsOf[config][1], None>>, ![t].pc = "idB"]
      PROVE  IInv'
  <2>1. idsOf[config] \in Ids \X Ids /\ None \in Ids
    BY <1>5 DEF Types, Ids
  <2>2. PICK a \in Ids : a = idsOf[config][1]
    BY <2>1
  <2>3. PICK ids \in Ids \X Ids : ids = <<a, None>> /\ ids[1] = a
    BY <2>1, PairShape
  <2> QED
    BY <1>4, <1>5, <2>2, <2>3 DEF InCommittee
<1>6. ASSUME config \in Objects, thread[t].pc = "idB",
             thread' = [thread EXCEPT ![t].ids = <<@[1], idsOf[config][2]>>, ![t].pc = "count"]
      PROVE  IInv'
  <2>1. idsOf[config] \in Ids \X Ids /\ thread[t].ids \in Ids \X Ids
    BY <1>6 DEF Types, Request
  <2>2. PICK a \in Ids, b \in Ids : a = thread[t].ids[1] /\ b = idsOf[config][2]
    BY <2>1
  <2>3. PICK ids \in Ids \X Ids : ids = <<a, b>> /\ ids[1] = a
    BY <2>2, PairShape
  <2>4. thread' = [thread EXCEPT ![t].ids = ids, ![t].pc = "count"]
    BY <1>6, <2>2, <2>3 DEF Types
  <2> QED
    BY <1>4, <1>6, <2>2, <2>3, <2>4 DEF UndisturbedOK
<1>7. config \in Objects \/ config = NotStarted \/ config = Deleted
  BY ContainerShape DEF Types
<1> QED
  BY <1>2, <1>3, <1>5, <1>6, <1>7 DEF TakeId

LEMMA CountKeeps ==
    ASSUME IInv, NEW t \in Threads, Count(t)
    PROVE  IInv'
<1> /\ thread[t].pc \in OtherPcs /\ Types /\ PlaceOK(t) /\ HolderOK(t) /\ UndisturbedOK(t)
  BY DEF Count, OtherPcs, IInv, ThreadOK, Globals
<1>1. UNCHANGED <<config, idsOf, up, quorums, disturbed, failures>>
  BY DEF Count, lifecycle
<1>2. thread[t].pc = "count" /\ thread[t].kind \in {"info", "min"}
  BY DEF Count, PlaceOK
<1>3. ASSUME t \notin disturbed, KeyOf(thread[t]) \notin DOMAIN quorums
      PROVE  config = Owners
  <2> SUFFICES ASSUME config # Owners
               PROVE  FALSE
    OBVIOUS
  <2>1. config \in Objects /\ KeyOf(thread[t]) \in {idsOf[config][1], idsOf[config][2]}
    BY <1>2, <1>3 DEF UndisturbedOK, InCommittee
  <2>2. PICK s \in Threads : thread[s].pc \in {"putA", "putB"}
    BY <1>3, <2>1 DEF IInv, Globals, Keyed
  <2>3. s # t /\ Serving(s) /\ thread[s].kind = "start"
    BY <1>2, <2>2 DEF IInv, ThreadOK, PlaceOK, StartPcs, Serving
  <2> QED
    BY <1>3, <2>3 DEF IInv, Globals, Quiet, Disturbs
<1>4. CASE KeyOf(thread[t]) \notin DOMAIN quorums /\ Return(t, "noList")
  <2>1. Returns(t, "noList") /\ "noList" \in Results
    BY <1>4, ReturnReturns DEF Results
  <2> QED
    BY <1>1, <1>3, <1>4, <2>1, ReturnStep
<1>5. CASE Return(t, "ok") \/ Return(t, "raised")
  BY <1>1, <1>2, <1>5, ModestKeeps DEF Results
<1> QED
  BY <1>4, <1>5 DEF Count

LEMMA RemoveKeeps ==
    ASSUME IInv, NEW t \in Threads, Remove(t)
    PROVE  IInv'
<1> /\ thread[t].pc = "cut" /\ thread[t].pc \in OtherPcs /\ thread[t].kind = "remove"
    /\ Types /\ PlaceOK(t) /\ HolderOK(t) /\ UndisturbedOK(t)
  BY DEF Remove, OtherPcs, PlaceOK, IInv, ThreadOK, Globals
<1>1. UNCHANGED <<config, idsOf, up, disturbed, failures>>
  BY DEF Remove, lifecycle
<1>2. CASE (Return(t, "ok") \/ Return(t, "raised")) /\ UNCHANGED quorums
  BY <1>1, <1>2, ModestKeeps DEF Results
<1>3. ASSUME UNCHANGED thread, NEW k \in DOMAIN quorums, NEW n \in quorums[k],
             quorums' = [quorums EXCEPT ![k] = @ \ {n}]
      PROVE  IInv'
  <2>1. Plain(t)
    BY <1>1, <1>3 DEF Plain, Serving, OthersWait, SameRequest, Types
  <2>2. PlaceOK(t)' /\ HolderOK(t)'
    BY <1>1, <1>3 DEF PlaceOK, HolderOK, Writes, Made, QuorumOf
  <2>3. UndisturbedOK(t)'
    BY <1>1, <1>3 DEF UndisturbedOK, Writes, Excused, PlaceOK
  <2> QED
    BY <1>1, <1>3, <2>1, <2>2, <2>3, PlainStep DEF ThreadOK, StartPcs
<1> QED
  BY <1>2, <1>3 DEF Remove

LEMMA PutListKeeps ==
    ASSUME IInv, NEW t \in Threads, PutList(t)
    PROVE  IInv'
<1> /\ thread[t].pc = "put" /\ thread[t].pc \in OtherPcs /\ Types
    /\ PlaceOK(t) /\ HolderOK(t) /\ UndisturbedOK(t)
  BY DEF PutList, OtherPcs, IInv, ThreadOK, Globals
<1>1. /\ UNCHANGED <<config, idsOf, up, disturbed, failures>>
      /\ Put(thread[t].q, thread[t].list) /\ Writes(thread[t])
  BY DEF PutList, lifecycle, PlaceOK
<1>2. /\ DOMAIN quorums' = DOMAIN quorums \cup {thread[t].q}
      /\ quorums'[thread[t].q] = thread[t].list
  BY <1>1 DEF Put
<1>3. /\ DOMAIN quorums \subseteq DOMAIN quorums'
      /\ \A k \in DOMAIN quorums' : quorums'[k] \subseteq UNION Lists
  BY <1>1 DEF Put, Types, PlaceOK
<1>4. CASE thread[t].kind = "add" /\ Return(t, "ok")
  <2>1. Returns(t, "ok")
    BY <1>4, ReturnReturns DEF Results
  <2>2. t \notin disturbed => Listed(t)'
    BY <1>2, <2>1 DEF Listed, Returns, SameRequest
  <2> QED
    BY <1>1, <1>3, <1>4, <2>1, <2>2, ReturnStep DEF Results
<1>5. CASE thread[t].kind = "join" /\ Goto(t, "pop")
  <2>1. Goes(t, "pop")
    BY <1>5, GotoGoes DEF OtherPcs
  <2>2. Plain(t)
    BY <1>1, <1>3, <2>1 DEF Plain, Goes, Serving
  <2>3. PlaceOK(t)'
    BY <1>5, <2>1 DEF PlaceOK, Goes, SameRequest, Writes, StartPcs, OtherPcs
  <2>4. HolderOK(t)'
    BY <1>1, <1>2, <2>1 DEF HolderOK, Goes, SameRequest, Made, QuorumOf
  <2>5. t \notin disturbed => Listed(t)'
    BY <1>2, <2>1 DEF Listed, Goes, SameRequest
  <2>6. UndisturbedOK(t)'
    BY <1>1, <2>1, <2>5
       DEF UndisturbedOK, Goes, SameRequest, Excused, Writes, InCommittee, PlaceOK
  <2> QED
    BY <1>1, <2>1, <2>2, <2>3, <2>4, <2>6, PlainStep DEF ThreadOK, Goes, StartPcs
<1> QED
  BY <1>1, <1>4, <1>5 DEF PutList, Writes

\* Intersection's second test finds an instance exactly if the first one did, and
\* the instance is one of the quorum named.
LEMMA DispatchFinds ==
    ASSUME Types, NEW o \in Objects, NEW q
    PROVE  /\ Dispatch(o, q) \in {None} \cup Halves(o)
           /\ InCommittee(o, q) => Dispatch(o, q) # None
           /\ Dispatch(o, q) # None => QuorumOf(Dispatch(o, q)) = q
<1>1. <<o, "a">> \in Containers /\ <<o, "b">> \in Containers
  BY PeerApiAssumption DEF Objects, Owners
<1>2. <<o, "a">> # None /\ <<o, "b">> # None
  BY <1>1, NoneAssumption
<1>3. Dispatch(o, q) = IF q = idsOf[o][1] THEN <<o, "a">>
                       ELSE IF q = idsOf[o][2] THEN <<o, "b">> ELSE None
  BY DEF Dispatch
<1>4. QuorumOf(<<o, "a">>) = idsOf[o][1] /\ QuorumOf(<<o, "b">>) = idsOf[o][2]
  BY DEF QuorumOf
<1> QED
  BY <1>2, <1>3, <1>4 DEF InCommittee, Halves

\* A join that goes on with other addresses, and does nothing else.
LEMMA AddressedKeeps ==
    ASSUME IInv, NEW t \in Threads, thread[t].pc \in {"pop", "ip"},
           UNCHANGED <<config, idsOf, up, quorums, disturbed, failures>>,
           NEW ips \in SUBSET Addresses, NEW pc \in {"ip", "call"},
           thread' = [thread EXCEPT ![t].ips = ips, ![t].pc = pc]
    PROVE  IInv'
<1> /\ thread[t].pc \in OtherPcs /\ Types
    /\ PlaceOK(t) /\ HolderOK(t) /\ UndisturbedOK(t) /\ thread[t] \in Request
  BY DEF OtherPcs, IInv, ThreadOK, Globals, Types
<1>1. /\ thread' \in [Threads -> Request] /\ OthersWait(t) /\ SameRequest(t)
      /\ thread'[t].pc = pc /\ thread'[t].list = thread[t].list
      /\ thread'[t].obj = thread[t].obj /\ thread'[t].by = thread[t].by
      /\ thread'[t].ret = thread[t].ret
  <2>1. thread' = [thread EXCEPT ![t] = [thread[t] EXCEPT !.ips = ips, !.pc = pc]]
    BY DEF Types
  <2>2. [thread[t] EXCEPT !.ips = ips, !.pc = pc] \in Request
    BY DEF Request, OtherPcs
  <2> QED
    BY <2>1, <2>2 DEF OthersWait, SameRequest, Types, Request
<1>2. Plain(t)
  BY <1>1 DEF Plain, Serving, Types
<1>3. PlaceOK(t)'
  BY <1>1 DEF PlaceOK, SameRequest, Writes, StartPcs, OtherPcs
<1>4. HolderOK(t)'
  BY <1>1 DEF HolderOK, SameRequest, Made, QuorumOf
<1>5. UndisturbedOK(t)'
  BY <1>1 DEF UndisturbedOK, SameRequest, Listed, Writes, InCommittee, Excused, PlaceOK
<1> QED
  BY <1>1, <1>2, <1>3, <1>4, <1>5, PlainStep DEF ThreadOK, StartPcs

LEMMA TakeAddressesKeeps ==
    ASSUME IInv, NEW t \in Threads, TakeAddresses(t)
    PROVE  IInv'
<1> DEFINE list == quorums[thread[t].q]
<1>1. /\ UNCHANGED <<config, idsOf, up, quorums, disturbed, failures>>
      /\ thread[t].pc = "pop" /\ thread[t].pc \in OtherPcs
  BY DEF TakeAddresses, lifecycle, OtherPcs
<1>2. CASE Return(t, "raised")
  BY <1>1, <1>2, ModestKeeps DEF Results
<1>3. ASSUME NEW ips \in Seen(t, list),
             thread' = [thread EXCEPT ![t].ips = ips, ![t].pc = "ip"]
      PROVE  IInv'
  <2>1. ips \subseteq list
    BY DEF Seen
  <2>2. list \subseteq Addresses
    <3>1. thread[t].q \in DOMAIN quorums => list \subseteq UNION Lists
      BY DEF IInv, Globals, Types
    <3>2. thread[t].q \in DOMAIN quorums
      BY <1>1 DEF IInv, ThreadOK, HolderOK
    <3> QED
      BY <3>1, <3>2 DEF Addresses
  <2> QED
    BY <1>1, <1>3, <2>1, <2>2, AddressedKeeps
<1> QED
  BY <1>2, <1>3 DEF TakeAddresses

LEMMA OwnAddressKeeps ==
    ASSUME IInv, NEW t \in Threads, OwnAddress(t)
    PROVE  IInv'
<1> /\ thread[t].pc = "ip" /\ thread[t].pc \in OtherPcs /\ Types
    /\ HolderOK(t) /\ thread[t] \in Request
  BY DEF OwnAddress, OtherPcs, IInv, ThreadOK, Globals, Types
<1>1. UNCHANGED <<config, idsOf, up, quorums, disturbed, failures>>
  BY DEF OwnAddress, lifecycle
<1>2. CASE config = Deleted /\ Return(t, "noKey")
  BY <1>1, <1>2, MissingKeeps
<1>3. CASE config # Deleted
  <2>1. config \in Objects
    BY <1>3, ContainerShape DEF HolderOK, Types
  <2>2. PICK own \in {None} \cup Halves(config) : own = Dispatch(config, thread[t].q)
    BY <2>1, DispatchFinds
  <2>3. own \in Addresses
    BY <2>1, <2>2, ContainerShape DEF Addresses
  <2>4. PICK ips \in SUBSET Addresses : ips = thread[t].ips \cup {own}
    BY <2>3 DEF Request
  <2>5. thread' = [thread EXCEPT ![t].ips = ips, ![t].pc = "call"]
    BY <1>3, <2>2, <2>4 DEF OwnAddress, Types
  <2> QED
    BY <1>1, <2>5, AddressedKeeps
<1> QED
  BY <1>2, <1>3 DEF OwnAddress

LEMMA CallKeeps ==
    ASSUME IInv, NEW t \in Threads, Call(t)
    PROVE  IInv'
<1> /\ thread[t].pc = "call" /\ thread[t].pc \in OtherPcs /\ Types
    /\ PlaceOK(t) /\ HolderOK(t) /\ UndisturbedOK(t) /\ thread[t] \in Request
  BY DEF Call, OtherPcs, IInv, ThreadOK, Globals, Types
<1>1. UNCHANGED <<config, idsOf, up, quorums, disturbed, failures>>
  BY DEF Call, lifecycle
<1>2. CASE config = Deleted /\ Return(t, "noKey")
  BY <1>1, <1>2, MissingKeeps
<1>3. CASE config # Deleted
  <2>1. config \in Objects /\ Made(config) /\ Halves(config) \subseteq up
    BY <1>3, ContainerShape DEF HolderOK, Types, IInv, Globals, ConfigOK
  <2>2. PICK by \in {None} \cup Halves(config) :
           /\ by = Dispatch(config, thread[t].q)
           /\ InCommittee(config, thread[t].q) => by # None
           /\ by # None => QuorumOf(by) = thread[t].q
    BY <2>1, DispatchFinds
  <2>3. by \in {None} \cup Containers /\ (by # None => by[1] = config)
    BY <2>1, <2>2, ContainerShape
  <2>4. /\ thread' \in [Threads -> Request] /\ OthersWait(t) /\ SameRequest(t)
        /\ thread'[t].pc = "run" /\ thread'[t].list = thread[t].list
        /\ thread'[t].obj = config /\ thread'[t].by = by
        /\ thread'[t].ret = thread[t].ret
    <3>1. PICK obj \in 0..Owners : obj = config
      BY <2>1, ContainerShape
    <3>2. thread' = [thread EXCEPT ![t] =
                        [thread[t] EXCEPT !.obj = obj, !.pc = "run", !.by = by]]
      BY <1>3, <2>2, <3>1 DEF Call, Types
    <3>3. [thread[t] EXCEPT !.obj = obj, !.pc = "run", !.by = by] \in Request
      BY <2>3 DEF Request, OtherPcs
    <3> QED
      BY <3>1, <3>2, <3>3 DEF OthersWait, SameRequest, Types, Request
  <2>5. Plain(t)
    BY <1>1, <2>4 DEF Plain, Serving, Types
  <2>6. PlaceOK(t)'
    BY <2>4 DEF PlaceOK, SameRequest, Writes, StartPcs, OtherPcs
  <2>7. HolderOK(t)'
    BY <1>1, <2>1, <2>2, <2>3, <2>4, ContainerShape
       DEF HolderOK, SameRequest, Made, QuorumOf, NotStarted
  <2>8. UndisturbedOK(t)'
    BY <1>1, <2>2, <2>4
       DEF UndisturbedOK, SameRequest, Listed, Writes, InCommittee, Excused, PlaceOK
  <2> QED
    BY <1>1, <2>1, <2>4, <2>5, <2>6, <2>7, <2>8, PlainStep DEF ThreadOK, StartPcs
<1> QED
  BY <1>2, <1>3 DEF Call

LEMMA RunKeeps ==
    ASSUME IInv, NEW t \in Threads, Run(t)
    PROVE  IInv'
<1> /\ thread[t].pc = "run" /\ thread[t].pc \in OtherPcs /\ Types
    /\ PlaceOK(t) /\ HolderOK(t) /\ UndisturbedOK(t)
  BY DEF Run, OtherPcs, IInv, ThreadOK, Globals
<1>1. UNCHANGED <<config, idsOf, up, quorums, disturbed, failures>>
  BY DEF Run, lifecycle, SubmitOrRead, MakeGenesis, JoinSawtooth
<1>2. PICK ret \in Results \ {"noKey", "noList"} : Return(t, ret)
  BY DEF Run, SubmitOrRead, Results
<1>3. Returns(t, ret)
  BY <1>2, ReturnReturns
<1>4. t \notin disturbed => thread[t].by # None /\ (Writes(thread[t]) => Listed(t))
  BY DEF UndisturbedOK
<1>5. Listed(t) => Listed(t)'
  BY <1>1, <1>3 DEF Listed, Returns, SameRequest
<1> QED
  BY <1>1, <1>3, <1>4, <1>5, ReturnStep
-----------------------------------------------------------------------------
(* /start, and the end of every request *)

\* __del__ spares what config or a thread refers to.
LEMMA StopSpares ==
    ASSUME NEW cfg, Stop(Unreferenced(cfg, thread')), NEW o,
           o = cfg \/ \E s \in Threads : thread'[s].obj = o
    PROVE  \A h \in Halves(o) : h \in up => h \in up'
  BY DEF Stop, Unreferenced

LEMMA StartStep ==
    ASSUME IInv, NEW t \in Threads, thread[t].pc \in StartPcs, thread'[t].pc \notin OtherPcs,
           thread' \in [Threads -> Request], OthersWait(t), SameRequest(t),
           disturbed' = disturbed,
           thread'[t].ret \in {"none", "ok"} \/ (t \notin disturbed => Excused(t)'),
           DOMAIN quorums \subseteq DOMAIN quorums',
           config = NotStarted \/ config' # NotStarted,
           \A x \in Objects : Made(x) => idsOf'[x] = idsOf[x],
           \A o \in Threads \ {t} :
               /\ thread[o].pc \in {"makeB", "store"} =>
                     idsOf'[thread[o].obj] = idsOf[thread[o].obj]
               /\ \A h \in Halves(thread[o].obj) : h \in up => h \in up',
           Types', ConfigOK', Distinct', Keyed', MissingOnlyDuringStart',
           PlaceOK(t)', HolderOK(t)'
    PROVE  IInv'
<1>1. thread[t].kind = "start" /\ Serving(t)
  BY DEF IInv, ThreadOK, PlaceOK, Serving, StartPcs
<1>2. \A o \in Threads \ {t} : PlaceOK(o)' /\ HolderOK(o)'
  BY OthersHold
<1>3. \A o \in Threads \ {t} : UndisturbedOK(o)'
  BY <1>1, OthersUndisturbed
<1>4. UndisturbedOK(t)'
  BY <1>1 DEF UndisturbedOK, SameRequest, Writes, OtherPcs, Excused
<1>5. Quiet'
  BY <1>1 DEF Quiet, IInv, Globals, OthersWait, SameRequest, Serving, Disturbs, Writes
<1> QED
  BY <1>2, <1>3, <1>4, <1>5 DEF IInv, Globals, ThreadOK

\* A start that moves on without touching the Intersections or the table.
LEMMA StartMoves ==
    ASSUME IInv, NEW t \in Threads, thread[t].pc \in StartPcs \ {"putA", "putB"},
           UNCHANGED <<config, idsOf, up, quorums, disturbed>>, failures' \in Nat,
           \/ Goes(t, "makeA") \/ Goes(t, "del")
           \/ \E ret \in Results \ {"noList"} :
                 Returns(t, ret) /\ (ret = "noKey" => config = Deleted),
           \/ thread[t].pc \in {"enter", "del"} /\ failures' = failures
           \/ failures' > 0
    PROVE  IInv'
<1> /\ Globals /\ PlaceOK(t) /\ HolderOK(t) /\ thread[t].pc \in StartPcs
  BY DEF IInv, ThreadOK
<1>1. /\ thread' \in [Threads -> Request] /\ OthersWait(t) /\ SameRequest(t)
      /\ thread'[t].obj = thread[t].obj /\ thread'[t].by = thread[t].by
      /\ thread'[t].list = thread[t].list
      /\ \/ /\ thread'[t].pc \in {"makeA", "del"} /\ thread'[t].ids = thread[t].ids
            /\ thread'[t].ret = thread[t].ret
         \/ thread'[t].pc \in {"idle", "return"}
  BY DEF Goes, Returns
<1>2. Types' /\ ConfigOK'
  BY <1>1 DEF Types, ConfigOK, Globals, Made
<1>3. Distinct'
  BY <1>1 DEF Distinct, Globals, OthersWait
<1>4. Keyed'
  BY <1>1 DEF Keyed, Globals, OthersWait
<1>5. MissingOnlyDuringStart'
  BY <1>1 DEF MissingOnlyDuringStart, Globals, OthersWait
<1>6. PlaceOK(t)'
  BY <1>1 DEF PlaceOK, SameRequest, StartPcs, OtherPcs
<1>7. HolderOK(t)'
  BY <1>1 DEF HolderOK, SameRequest, Made, QuorumOf
<1>8. t \notin disturbed => Excused(t)'
  <2>1. /\ Serving(t) /\ thread[t].ret = "none"
        /\ \/ failures' > 0
           \/ failures' = failures /\ thread[t].pc \notin {"makeA", "makeB", "store"}
    BY DEF Serving, StartPcs, PlaceOK, Types
  <2>2. thread'[t].ret # "noList"
        /\ (thread'[t].ret = "noKey" => config = Deleted)
    BY <2>1 DEF Goes, Returns
  <2> QED
    BY <2>1, <2>2, MissingIsExcused DEF Excused, Types
<1> QED
  BY <1>1, <1>2, <1>3, <1>4, <1>5, <1>6, <1>7, <1>8, StartStep DEF OtherPcs

LEMMA EnterKeeps ==
    ASSUME IInv, NEW t \in Threads, Enter(t)
    PROVE  IInv'
<1>1. UNCHANGED <<config, idsOf, up, quorums, disturbed>> /\ failures' = failures
      /\ thread[t].pc \in StartPcs \ {"putA", "putB"} /\ thread[t].pc = "enter"
  BY DEF Enter, lifecycle, StartPcs
<1>2. Goto(t, "makeA") \/ Goto(t, "del") \/ (config = Deleted /\ Return(t, "noKey"))
  BY DEF Enter
<1>3. Types /\ failures \in Nat
  BY DEF IInv, Globals, Types
<1>4. Goes(t, "makeA") \/ Goes(t, "del") \/ (config = Deleted /\ Returns(t, "noKey"))
  BY <1>2, <1>3, GotoGoes, ReturnReturns DEF StartPcs, Results
<1> QED
  BY <1>1, <1>3, <1>4, StartMoves DEF Results

LEMMA MakeFailsKeeps ==
    ASSUME IInv, NEW t \in Threads, MakeFails(t)
    PROVE  IInv'
<1>1. UNCHANGED <<config, idsOf, up, quorums, disturbed>> /\ failures' = failures + 1
      /\ thread[t].pc \in StartPcs \ {"putA", "putB"}
  BY DEF MakeFails, lifecycle, StartPcs
<1>2. Types /\ failures \in Nat
  BY DEF IInv, Globals, Types
<1>3. Returns(t, "raised")
  BY <1>2, ReturnReturns DEF MakeFails, Results
<1> QED
  BY <1>1, <1>2, <1>3, StartMoves DEF Results

LEMMA DeleteInstancesKeeps ==
    ASSUME IInv, NEW t \in Threads, DeleteInstances(t)
    PROVE  IInv'
<1> /\ Globals /\ Types /\ PlaceOK(t) /\ HolderOK(t)
    /\ thread[t].pc = "del" /\ thread[t].pc \in StartPcs
  BY DEF DeleteInstances, IInv, ThreadOK, Globals, StartPcs
<1>1. /\ UNCHANGED <<idsOf, quorums, disturbed>> /\ failures' = failures
      /\ failures \in Nat
  BY DEF DeleteInstances, Types
<1>2. CASE config = Deleted /\ Return(t, "noKey") /\ UNCHANGED <<lifecycle, config>>
  <2>1. Returns(t, "noKey") /\ up' = up
    BY <1>2, ReturnReturns DEF Results, lifecycle
  <2> QED
    BY <1>1, <1>2, <2>1, StartMoves DEF Results
<1>3. CASE config' = Deleted /\ Goto(t, "makeA") /\ Stop(Unreferenced(Deleted, thread'))
  <2>1. Goes(t, "makeA")
    BY <1>3, GotoGoes DEF StartPcs
  <2>2. Types' /\ ConfigOK' /\ Keyed'
    <3>1. Deleted \in 0..Deleted
      BY ContainerShape
    <3> QED
      BY <1>1, <1>3, <2>1, <3>1, ContainerShape DEF Types, ConfigOK, Keyed, Goes
  <2>3. Distinct'
    BY <2>1 DEF Distinct, Globals, Goes, OthersWait
  <2>4. MissingOnlyDuringStart'
    BY <2>1 DEF MissingOnlyDuringStart, Goes
  <2>5. PlaceOK(t)'
    BY <2>1 DEF PlaceOK, Goes, SameRequest, StartPcs, OtherPcs
  <2>6. HolderOK(t)'
    BY <1>1, <2>1 DEF HolderOK, Goes, SameRequest, Made, QuorumOf
  <2>7. \A o \in Threads \ {t} : \A h \in Halves(thread[o].obj) : h \in up => h \in up'
    BY <1>3, <2>1, StopSpares DEF Goes, OthersWait
  <2>8. thread'[t].ret = "none"
    BY <2>1 DEF PlaceOK, Goes
  <2> QED
    BY <1>1, <1>3, <2>1, <2>2, <2>3, <2>4, <2>5, <2>6, <2>7, <2>8, StartStep, ContainerShape
       DEF Goes, OtherPcs
<1> QED
  BY <1>2, <1>3 DEF DeleteInstances

LEMMA MakeAKeeps ==
    ASSUME IInv, NEW t \in Threads, MakeA(t)
    PROVE  IInv'
<1> /\ Globals /\ Types /\ PlaceOK(t) /\ HolderOK(t) /\ thread[t] \in Request
    /\ thread[t].pc = "makeA" /\ thread[t].pc \in StartPcs
  BY DEF MakeA, IInv, ThreadOK, Globals, Types, StartPcs
<1>1. PICK o \in Unused :
         /\ Create(<<o, "a">>)
         /\ thread' = [thread EXCEPT ![t].pc = "makeB", ![t].obj = o]
  BY DEF MakeA
<1>2. UNCHANGED <<config, idsOf, quorums, disturbed, failures>> /\ up' = up \cup {<<o, "a">>}
  BY <1>1 DEF MakeA, Create
<1>3. /\ o \in Objects /\ o \in 0..Owners /\ idsOf[o][1] = None
      /\ \A s \in Threads : thread[s].obj # o
  BY ContainerShape DEF Unused
<1>4. /\ thread' \in [Threads -> Request] /\ OthersWait(t) /\ SameRequest(t)
      /\ thread'[t].pc = "makeB" /\ thread'[t].obj = o
      /\ thread'[t].ids = thread[t].ids /\ thread'[t].by = thread[t].by
      /\ thread'[t].ret = thread[t].ret /\ thread'[t].list = thread[t].list
  <2>1. thread' = [thread EXCEPT ![t] = [thread[t] EXCEPT !.pc = "makeB", !.obj = o]]
    BY <1>1 DEF Types
  <2>2. [thread[t] EXCEPT !.pc = "makeB", !.obj = o] \in Request
    BY <1>3 DEF Request, StartPcs
  <2> QED
    BY <1>3, <2>1, <2>2 DEF OthersWait, SameRequest, Types, Request
<1>5. Types' /\ ConfigOK'
  BY <1>2, <1>4 DEF Types, ConfigOK, Globals, Made
<1>6. Distinct'
  BY <1>3, <1>4 DEF Distinct, Globals, OthersWait
<1>7. Keyed' /\ MissingOnlyDuringStart'
  BY <1>2, <1>4 DEF Keyed, MissingOnlyDuringStart, Globals, OthersWait
<1>8. PlaceOK(t)'
  BY <1>4 DEF PlaceOK, SameRequest, StartPcs, OtherPcs
<1>9. HolderOK(t)'
  BY <1>2, <1>3, <1>4 DEF HolderOK, SameRequest, Made, QuorumOf
<1>10. thread'[t].ret = "none"
  BY <1>4 DEF PlaceOK
<1> QED
  BY <1>2, <1>4, <1>5, <1>6, <1>7, <1>8, <1>9, <1>10, StartStep DEF OtherPcs

LEMMA MakeBKeeps ==
    ASSUME IInv, NEW t \in Threads, MakeB(t)
    PROVE  IInv'
<1> /\ Globals /\ Types /\ PlaceOK(t) /\ HolderOK(t)
    /\ thread[t].pc = "makeB" /\ thread[t].pc \in StartPcs
  BY DEF MakeB, IInv, ThreadOK, Globals, StartPcs
<1>1. /\ UNCHANGED <<config, idsOf, quorums, disturbed, failures>>
      /\ up' = up \cup {<<thread[t].obj, "b">>}
  BY DEF MakeB, Create
<1>2. Goes(t, "store")
  BY GotoGoes DEF MakeB, StartPcs
<1>3. Types' /\ ConfigOK'
  BY <1>1, <1>2 DEF Types, ConfigOK, Globals, Made, Goes
<1>4. Distinct'
  BY <1>2 DEF Distinct, Globals, Goes, OthersWait
<1>5. Keyed' /\ MissingOnlyDuringStart'
  BY <1>1, <1>2 DEF Keyed, MissingOnlyDuringStart, Globals, Goes, OthersWait
<1>6. PlaceOK(t)'
  BY <1>2 DEF PlaceOK, Goes, SameRequest, StartPcs, OtherPcs
<1>7. HolderOK(t)'
  BY <1>1, <1>2 DEF HolderOK, Goes, SameRequest, Made, QuorumOf, Halves
<1>8. thread'[t].ret = "none"
  BY <1>2 DEF PlaceOK, Goes
<1> QED
  BY <1>1, <1>2, <1>3, <1>4, <1>5, <1>6, <1>7, <1>8, StartStep DEF Goes, OtherPcs

\* The Intersection gets its ids in the step that puts it into config: nobody has
\* seen it before.
LEMMA StoreInstancesKeeps ==
    ASSUME IInv, NEW t \in Threads, StoreInstances(t)
    PROVE  IInv'
<1> DEFINE o == thread[t].obj
<1> /\ Globals /\ Types /\ PlaceOK(t) /\ HolderOK(t)
    /\ thread[t].pc = "store" /\ thread[t].pc \in StartPcs
  BY DEF StoreInstances, IInv, ThreadOK, Globals, StartPcs
<1>1. /\ UNCHANGED <<quorums, disturbed, failures>> /\ config' = o
      /\ idsOf' = [idsOf EXCEPT ![o] = thread[t].ids]
      /\ Stop(Unreferenced(o, thread'))
  BY DEF StoreInstances, Store
<1>2. Goes(t, "putA")
  BY GotoGoes DEF StoreInstances, StartPcs
<1>3. /\ o \in Objects /\ ~Made(o) /\ Halves(o) \subseteq up
      /\ thread[t].ids \in StartIds /\ thread[t].ids \in Ids \X Ids /\ thread[t].ids[1] # None
  BY PeerApiAssumption DEF HolderOK, PlaceOK, Made, Ids
<1>4. /\ idsOf'[o] = thread[t].ids
      /\ \A x \in Objects \ {o} : idsOf'[x] = idsOf[x]
  BY <1>1, <1>3 DEF Types, Made
<1>5. Halves(o) \subseteq up'
  BY <1>1, <1>3, StopSpares
<1>6. Types' /\ ConfigOK'
  <2>1. config' \in 0..Deleted /\ idsOf' \in [Objects -> Ids \X Ids]
    BY <1>1, <1>3, ContainerShape DEF Types
  <2> QED
    BY <1>1, <1>2, <1>3, <1>4, <1>5, <2>1 DEF Types, ConfigOK, Goes, Made
<1>7. Distinct'
  BY <1>2 DEF Distinct, Globals, Goes, OthersWait
<1>8. Keyed' /\ MissingOnlyDuringStart'
  BY <1>1, <1>2, <1>3, <1>4, ContainerShape DEF Keyed, MissingOnlyDuringStart, Goes
<1>9. PlaceOK(t)'
  BY <1>2 DEF PlaceOK, Goes, SameRequest, StartPcs, OtherPcs
<1>10. HolderOK(t)'
  <2>1. thread[t].by # None => Made(thread[t].by[1])' /\ QuorumOf(thread[t].by)' = thread[t].q
    BY <1>2, <1>3, <1>4 DEF HolderOK, Made, QuorumOf, Goes
  <2> QED
    BY <1>2, <2>1 DEF HolderOK, Goes, SameRequest
<1>11. \A x \in Objects : Made(x) => idsOf'[x] = idsOf[x]
  BY <1>3, <1>4
<1>12. ASSUME NEW s \in Threads \ {t}
       PROVE  /\ thread[s].pc \in {"makeB", "store"} =>
                    idsOf'[thread[s].obj] = idsOf[thread[s].obj]
              /\ \A h \in Halves(thread[s].obj) : h \in up => h \in up'
  <2>1. thread[s].pc \in {"makeB", "store"} => thread[s].obj \in Objects \ {o}
    BY DEF Distinct, Globals, IInv, ThreadOK, HolderOK
  <2> QED
    BY <1>1, <1>2, <1>4, <2>1, StopSpares DEF Goes, OthersWait
<1>13. thread'[t].ret = "none"
  BY <1>2 DEF PlaceOK, Goes
<1> HIDE DEF o
<1> QED
  BY <1>1, <1>2, <1>3, <1>6, <1>7, <1>8, <1>9, <1>10, <1>11, <1>12, <1>13, StartStep, ContainerShape
     DEF Goes, OtherPcs, NotStarted

LEMMA PutEmptyKeeps ==
    ASSUME IInv, NEW t \in Threads, PutEmpty(t)
    PROVE  IInv'
<1> /\ Globals /\ Types /\ PlaceOK(t) /\ HolderOK(t)
    /\ thread[t].pc \in {"putA", "putB"} /\ thread[t].pc \in StartPcs
  BY DEF PutEmpty, IInv, ThreadOK, Globals, StartPcs
<1>1. UNCHANGED <<config, idsOf, up, disturbed, failures>>
  BY DEF PutEmpty, lifecycle
<1>2. \/ thread[t].pc = "putA" /\ Put(thread[t].ids[1], {}) /\ Goes(t, "putB")
      \/ thread[t].pc = "putB" /\ Put(thread[t].ids[2], {}) /\ Returns(t, "ok")
  BY GotoGoes, ReturnReturns DEF PutEmpty, StartPcs, Results
<1>3. /\ thread' \in [Threads -> Request] /\ OthersWait(t) /\ SameRequest(t)
      /\ thread'[t].obj = thread[t].obj /\ thread'[t].by = thread[t].by
      /\ thread'[t].pc \in {"putB", "idle", "return"}
      /\ thread'[t].pc = "putB" => thread'[t].ids = thread[t].ids
      /\ thread'[t].list = thread[t].list /\ thread'[t].ret \in {"none", "ok"}
      /\ thread'[t].pc = "putB" => thread'[t].ret = "none"
      /\ DOMAIN quorums \subseteq DOMAIN quorums'
  BY <1>2 DEF Goes, Returns, Put, PlaceOK
<1>4. Types' /\ ConfigOK'
  <2>1. \A k \in DOMAIN quorums' : quorums'[k] \subseteq UNION Lists
    BY <1>2 DEF Put, Types
  <2> QED
    BY <1>1, <1>3, <2>1 DEF Types, ConfigOK, Globals, Made
<1>5. Distinct'
  BY <1>3 DEF Distinct, Globals, OthersWait
<1>6. MissingOnlyDuringStart'
  BY <1>1, <1>3 DEF MissingOnlyDuringStart, Globals, OthersWait
<1>7. Keyed'
  <2>1. CASE thread[t].pc = "putA"
    <3>1. /\ DOMAIN quorums' = DOMAIN quorums \cup {thread[t].ids[1]}
          /\ thread'[t].pc = "putB" /\ thread'[t].ids = thread[t].ids
      BY <1>2, <2>1 DEF Put, Goes
    <3> QED
      BY <1>1, <1>3, <2>1, <3>1 DEF Keyed, Globals, OthersWait
  <2>2. CASE thread[t].pc = "putB"
    <3>1. DOMAIN quorums' = DOMAIN quorums \cup {thread[t].ids[2]}
      BY <1>2, <2>2 DEF Put
    <3> QED
      BY <1>1, <1>3, <2>2, <3>1 DEF Keyed, Globals, OthersWait
  <2> QED
    BY <2>1, <2>2
<1>8. PlaceOK(t)'
  BY <1>3 DEF PlaceOK, SameRequest, StartPcs, OtherPcs
<1>9. HolderOK(t)'
  BY <1>1, <1>3 DEF HolderOK, SameRequest, Made, QuorumOf
<1> QED
  BY <1>1, <1>3, <1>4, <1>5, <1>6, <1>7, <1>8, <1>9, StartStep DEF OtherPcs

\* The containers that go with a thread's reference are nobody else's.
LEMMA AnswerKeeps ==
    ASSUME IInv, NEW t \in Threads, Answer(t)
    PROVE  IInv'
<1> /\ Globals /\ Types /\ PlaceOK(t) /\ HolderOK(t) /\ UndisturbedOK(t)
    /\ thread[t].pc = "return" /\ thread[t] \in Request
  BY DEF Answer, IInv, ThreadOK, Globals, Types
<1>1. /\ UNCHANGED <<config, idsOf, quorums, disturbed, failures>>
      /\ thread' = [thread EXCEPT ![t].pc = "idle", ![t].obj = NotStarted]
      /\ Stop(Unreferenced(config, thread'))
  BY DEF Answer
<1>2. /\ thread' \in [Threads -> Request] /\ OthersWait(t) /\ SameRequest(t)
      /\ thread'[t].pc = "idle" /\ thread'[t].obj = 0 /\ thread'[t].by = thread[t].by
      /\ thread'[t].list = thread[t].list /\ thread'[t].ret = thread[t].ret
  <2>1. PICK none \in 0..Owners : none = NotStarted /\ none = 0
    BY ContainerShape DEF NotStarted
  <2>2. thread' = [thread EXCEPT ![t] = [thread[t] EXCEPT !.pc = "idle", !.obj = none]]
    BY <1>1, <2>1 DEF Types
  <2>3. [thread[t] EXCEPT !.pc = "idle", !.obj = none] \in Request
    BY DEF Request
  <2> QED
    BY <2>1, <2>2, <2>3 DEF OthersWait, SameRequest, Types, Request
<1>3. Types'
  BY <1>1, <1>2 DEF Types
<1>4. ConfigOK'
  BY <1>1, StopSpares DEF ConfigOK, Globals, Made
<1>5. Distinct'
  <2>1. \A s \in Threads : thread[s].pc \in {"makeB", "store"} => thread[s].obj # 0
    BY MakersHaveOne
  <2> QED
    BY <1>2, <2>1 DEF Distinct, Globals, OthersWait
<1>6. Quiet'
  BY <1>1, <1>2 DEF Quiet, Globals, OthersWait, SameRequest, Serving, Disturbs, Writes
<1>7. Keyed' /\ MissingOnlyDuringStart'
  BY <1>1, <1>2 DEF Keyed, MissingOnlyDuringStart, Globals, OthersWait
<1>8. PlaceOK(t)'
  BY <1>2 DEF PlaceOK, StartPcs, OtherPcs
<1>9. HolderOK(t)'
  BY <1>1, <1>2 DEF HolderOK, SameRequest, Made, QuorumOf
<1>10. UndisturbedOK(t)'
  BY <1>1, <1>2 DEF UndisturbedOK, SameRequest, Excused, Listed, Writes
<1>11. \A o \in Threads \ {t} : \A h \in Halves(thread[o].obj) : h \in up => h \in up'
  BY <1>1, <1>2, StopSpares DEF OthersWait
<1>12. \A o \in Threads \ {t} : PlaceOK(o)' /\ HolderOK(o)'
  BY <1>1, <1>2, <1>11, OthersHold
<1>13. \A o \in Threads \ {t} : UndisturbedOK(o)'
  BY <1>1, <1>2, OthersUndisturbed DEF Serving
<1> QED
  BY <1>3, <1>4, <1>5, <1>6, <1>7, <1>8, <1>9, <1>10, <1>12, <1>13 DEF IInv, Globals, ThreadOK
-----------------------------------------------------------------------------
(* New requests *)

\* What a request is like when it arrives.
Comes(r) ==
    /\ r \in Request /\ r.obj = 0 /\ r.by = None /\ r.list \subseteq UNION Lists
    /\ \/ r.pc = "enter" /\ r.kind = "start" /\ r.ids \in StartIds /\ r.ret = "none"
       \/ /\ r.pc = "check" /\ r.kind \in {"submit", "genesis", "read", "info", "add", "join"}
          /\ r.ret = "none"
       \/ r.pc = "idA" /\ r.kind = "min" /\ r.ret = "none"
       \/ r.pc = "cut" /\ r.kind = "remove" /\ r.ret = "none"
       \/ /\ r.pc = "idle" /\ r.kind \in {"quoruminfo", "request+join"}
          /\ r.ret \in {"ok", "failed", "raised"}

LEMMA Arrivals ==
    ASSUME NEW t \in Threads, Called(t)
    PROVE  \E r : Arrive(t, r) /\ Comes(r)
<1> PICK idle \in Request :
      /\ idle = Idle
      /\ idle.kind = "none" /\ idle.q = None /\ idle.list = {} /\ idle.pc = "idle"
      /\ idle.ips = {} /\ idle.obj = 0 /\ idle.by = None /\ idle.ret = "none"
  BY IdleShape
<1>1. ASSUME NEW ids \in StartIds
      PROVE  Comes([idle EXCEPT !.kind = "start", !.ids = ids, !.pc = "enter"])
  <2>1. ids \in Ids \X Ids
    BY PeerApiAssumption DEF Ids
  <2>2. "start" \in Kinds /\ "enter" \in StartPcs
    BY DEF Kinds, StartPcs
  <2>3. [idle EXCEPT !.kind = "start", !.ids = ids, !.pc = "enter"] \in Request
    BY <2>1, <2>2 DEF Request
  <2> QED
    BY <2>3 DEF Comes, Request
<1>2. ASSUME NEW q \in Quorums, NEW kind \in {"submit", "genesis", "read", "info"}
      PROVE  Comes([idle EXCEPT !.kind = kind, !.q = q, !.pc = "check"])
  <2>1. q \in Ids /\ kind \in Kinds
    BY DEF Ids, Kinds
  <2> QED
    BY <2>1 DEF Comes, Request, OtherPcs
<1>3. ASSUME NEW q \in Quorums, NEW kind \in {"add", "join"}, NEW list \in Lists
      PROVE  Comes([idle EXCEPT !.kind = kind, !.q = q, !.list = list, !.pc = "check"])
  <2>1. q \in Ids /\ kind \in Kinds
    BY DEF Ids, Kinds
  <2>2. list \in SUBSET Addresses /\ list \subseteq UNION Lists
    BY DEF Addresses
  <2> QED
    BY <2>1, <2>2 DEF Comes, Request, OtherPcs
<1>4. /\ Comes([idle EXCEPT !.kind = "request+join", !.ret = "raised"])
      /\ \A ret \in {"ok", "failed", "raised"} :
            Comes([idle EXCEPT !.kind = "quoruminfo", !.ret = ret])
      /\ Comes([idle EXCEPT !.kind = "min", !.pc = "idA"])
      /\ Comes([idle EXCEPT !.kind = "remove", !.pc = "cut"])
  <2>1. ASSUME NEW kind \in {"quoruminfo", "request+join"}, NEW ret \in {"ok", "failed", "raised"}
        PROVE  Comes([idle EXCEPT !.kind = kind, !.ret = ret])
    <3>1. kind \in Kinds /\ ret \in Results
      BY DEF Kinds, Results
    <3> QED
      BY <3>1 DEF Comes, Request
  <2>2. ASSUME NEW kind \in {"min", "remove"}, NEW pc \in {"idA", "cut"},
               kind = "min" <=> pc = "idA"
        PROVE  Comes([idle EXCEPT !.kind = kind, !.pc = pc])
    <3>1. kind \in Kinds /\ pc \in OtherPcs
      BY DEF Kinds, OtherPcs
    <3> QED
      BY <2>2, <3>1 DEF Comes, Request
  <2>3. Comes([idle EXCEPT !.kind = "request+join", !.ret = "raised"])
    BY <2>1
  <2>4. \A ret \in {"ok", "failed", "raised"} :
            Comes([idle EXCEPT !.kind = "quoruminfo", !.ret = ret])
    BY <2>1
  <2>5. Comes([idle EXCEPT !.kind = "min", !.pc = "idA"])
    BY <2>2
  <2>6. Comes([idle EXCEPT !.kind = "remove", !.pc = "cut"])
    BY <2>2
  <2> QED
    BY <2>3, <2>4, <2>5, <2>6
<1>5. CASE StartCalled(t)
  BY <1>1, <1>5 DEF StartCalled
<1>6. CASE RequestCalled(t)
  BY <1>2, <1>3, <1>6 DEF RequestCalled, Transaction
<1>7. CASE PeerCalled(t) \/ AnsweredAtOnce(t)
  BY <1>4, <1>7 DEF PeerCalled, AnsweredAtOnce
<1> QED
  BY <1>5, <1>6, <1>7 DEF Called

LEMMA ArriveKeeps ==
    ASSUME IInv, NEW t \in Threads, NEW r, Arrive(t, r), Comes(r)
    PROVE  IInv'
<1> Globals /\ Types /\ thread[t].pc = "idle"
  BY DEF IInv, Globals, Arrive, Serving
<1>1. /\ UNCHANGED <<config, idsOf, up, quorums, failures>>
      /\ thread' = [thread EXCEPT ![t] = r]
  BY DEF Arrive, lifecycle
<1>2. /\ thread'[t] = r /\ OthersWait(t) /\ thread' \in [Threads -> Request]
  BY <1>1 DEF Types, OthersWait, Comes
<1>3. Types' /\ ConfigOK'
  BY <1>1, <1>2 DEF Types, ConfigOK, Globals, Made
<1>4. Distinct'
  <2>1. \A s \in Threads : thread[s].pc \in {"makeB", "store"} => thread[s].obj # 0
    BY MakersHaveOne
  <2> QED
    BY <1>2, <2>1 DEF Distinct, Globals, OthersWait, Comes
<1>5. Quiet'
  <2> SUFFICES ASSUME NEW s \in Threads, NEW o \in Threads, s # o, thread'[s].pc # "idle",
                      Disturbs(thread'[s], thread'[o])
               PROVE  o \in disturbed'
    BY DEF Quiet, Serving
  <2>1. CASE s = t
    BY <1>2, <2>1 DEF Arrive, OthersWait
  <2>2. CASE o = t
    BY <1>2, <2>2 DEF Arrive, OthersWait, Serving
  <2>3. CASE s # t /\ o # t
    <3>1. o \in disturbed
      BY <1>2, <2>3 DEF Globals, Quiet, Serving, OthersWait
    <3> QED
      BY <2>3, <3>1 DEF Arrive
  <2> QED
    BY <2>1, <2>2, <2>3
<1>6. Keyed' /\ MissingOnlyDuringStart'
  BY <1>1, <1>2 DEF Keyed, MissingOnlyDuringStart, Globals, OthersWait
<1>7. ThreadOK(t)'
  <2>1. PlaceOK(t)'
    BY <1>2 DEF PlaceOK, Comes, StartPcs, OtherPcs
  <2>2. HolderOK(t)'
    BY <1>2 DEF HolderOK, Comes
  <2>3. UndisturbedOK(t)'
    BY <1>2 DEF UndisturbedOK, Comes, Excused, Writes
  <2> QED
    BY <2>1, <2>2, <2>3 DEF ThreadOK
<1>8. ASSUME NEW o \in Threads \ {t}
      PROVE  ThreadOK(o)'
  <2>1. PlaceOK(o)' /\ HolderOK(o)'
    BY <1>1, <1>2, OthersHold
  <2>2. o \notin disturbed' => o \notin disturbed
    BY DEF Arrive
  <2>3. thread'[o] = thread[o] /\ UndisturbedOK(o)
    BY <1>2 DEF OthersWait, IInv, ThreadOK
  <2>4. UndisturbedOK(o)'
    BY <1>1, <2>2, <2>3 DEF UndisturbedOK, Excused, Listed, InCommittee, KeyOf
  <2> QED
    BY <2>1, <2>4 DEF ThreadOK
<1> QED
  BY <1>3, <1>4, <1>5, <1>6, <1>7, <1>8 DEF IInv, Globals
-----------------------------------------------------------------------------
(* Theorems *)

LEMMA InitIInv == AInit => IInv
<1> SUFFICES ASSUME AInit
             PROVE  IInv
  OBVIOUS
<1> PICK ids \in StartIds : idsOf = [o \in Objects |-> IF o = config THEN ids ELSE <<None, None>>]
  BY DEF AInit
<1> /\ thread = [t \in Threads |-> Idle] /\ config \in {NotStarted, Owners} /\ failures = 0
    /\ quorums = [q \in {} |-> {}] /\ (config = Owners => up = Halves(Owners))
    /\ ids \in Ids \X Ids /\ ids[1] # None
  BY PeerApiAssumption DEF AInit, LStart, Ids
<1>1. \A t \in Threads :
         /\ thread[t] \in Request /\ thread[t].pc = "idle" /\ thread[t].kind = "none"
         /\ thread[t].by = None /\ thread[t].ret = "none" /\ thread[t].list = {}
  BY IdleShape
<1>2. Types
  <2>1. config \in 0..Deleted
    BY ContainerShape
  <2>2. idsOf \in [Objects -> Ids \X Ids]
    BY DEF Ids
  <2> QED
    BY <2>1, <2>2, IdleShape DEF Types
<1>3. ConfigOK /\ Keyed /\ MissingOnlyDuringStart
  BY ContainerShape DEF ConfigOK, Keyed, MissingOnlyDuringStart, NotStarted, Made
<1>4. Distinct /\ Quiet
  BY <1>1 DEF Distinct, Quiet, Serving
<1>5. \A t \in Threads : ThreadOK(t)
  BY <1>1 DEF ThreadOK, PlaceOK, HolderOK, UndisturbedOK, Writes, StartPcs, OtherPcs, Excused
<1> QED
  BY <1>2, <1>3, <1>4, <1>5 DEF IInv, Globals

LEMMA NextIInv == IInv /\ [ANext]_avars => IInv'
<1> SUFFICES ASSUME IInv, [ANext]_avars
             PROVE  IInv'
  OBVIOUS
<1>1. ASSUME NEW t \in Threads, Called(t)
      PROVE  IInv'
  BY <1>1, Arrivals, ArriveKeeps
<1>2. ASSUME NEW t \in Threads, Serve(t)
      PROVE  IInv'
  BY <1>2, EnterKeeps, DeleteInstancesKeeps, MakeAKeeps, MakeBKeeps, MakeFailsKeeps,
     StoreInstancesKeeps, PutEmptyKeeps, CheckKeeps, ForwardKeeps, TakeIdKeeps,
     CountKeeps, RemoveKeeps, PutListKeeps, TakeAddressesKeeps, OwnAddressKeeps, CallKeeps, RunKeeps, AnswerKeeps DEF Serve
<1>3. CASE UNCHANGED avars
  <2>1. UNCHANGED <<config, idsOf, quorums, thread, disturbed, failures, up>>
    BY <1>3 DEF avars, appVars, lifecycle
  <2>2. Globals'
    BY <2>1 DEF IInv, Globals, Types, ConfigOK, Made, Distinct, Quiet, Serving, Disturbs,
       Writes, Keyed, MissingOnlyDuringStart
  <2>3. \A t \in Threads : PlaceOK(t)'
    BY <2>1 DEF IInv, ThreadOK, PlaceOK, Writes
  <2>4. \A t \in Threads : HolderOK(t)'
    BY <2>1 DEF IInv, ThreadOK, HolderOK, Made, QuorumOf
  <2>5. \A t \in Threads : UndisturbedOK(t)'
    BY <2>1 DEF IInv, ThreadOK, UndisturbedOK, Writes, Listed, Excused, InCommittee, KeyOf
  <2> QED
    BY <2>2, <2>3, <2>4, <2>5 DEF IInv, ThreadOK
<1> QED
  BY <1>1, <1>2, <1>3 DEF ANext

\* The invariant behind what follows: who holds which Intersection, and what an
\* undisturbed request may still rely on.
THEOREM Inductive == ASpec => []IInv
<1> QED
  BY InitIInv, NextIInv, PTL DEF ASpec

\* However many restarts come between a handler's test and its call, the instance
\* that executes a request is one of the quorum it names (Intersection.submit_tx).
THEOREM ExecutedWhereAsked == ASpec => []ExecutedInItsQuorum
<1>1. IInv => ExecutedInItsQuorum
  BY DEF IInv, ThreadOK, HolderOK, ExecutedInItsQuorum
<1> QED
  BY <1>1, Inductive, PTL

\* __del__ waits for the last reference: no restart stops a container in which a
\* call is running (Intersection.__del__).
THEOREM RestartsSpareCalls == ASpec => []CallsKeepTheirContainer
<1>1. IInv => CallsKeepTheirContainer
  BY DEF IInv, ThreadOK, HolderOK, CallsKeepTheirContainer
<1> QED
  BY <1>1, Inductive, PTL

\* Without a start, a /remove or a rival list, "ok" is the truth: an instance has executed the
\* request, and the list given is the one in the table (routes submit, join, add).
THEOREM OkIsTrue == ASpec => []AcknowledgedMeansDone
<1>1. IInv => AcknowledgedMeansDone
  BY DEF IInv, ThreadOK, UndisturbedOK, Listed, AcknowledgedMeansDone
<1> QED
  BY <1>1, Inductive, PTL

\* Without a start in between, app.config has what the handlers look up: unless
\* Docker failed a restart, or the app was given its Intersection without lists.
THEOREM KeysAreFound == ASpec => []KeysAreThere
<1>1. IInv => KeysAreThere
  BY DEF IInv, ThreadOK, UndisturbedOK, Excused, KeysAreThere
<1> QED
  BY <1>1, Inductive, PTL

\* The Intersection's key is missing only while a start that will store one is on
\* its way, or after a container could not be made (routes.start).
THEOREM MissingIsTemporary == ASpec => []MissingOnlyDuringStart
<1>1. IInv => MissingOnlyDuringStart
  BY DEF IInv, Globals
<1> QED
  BY <1>1, Inductive, PTL
=============================================================================
