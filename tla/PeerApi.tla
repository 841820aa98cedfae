-------------------------------- MODULE PeerApi --------------------------------
(***************************************************************************)
(* One peer's API process (src/api/routes.py) with the Intersection it     *)
(* serves (src/Intersection.py) and the containers that one holds          *)
(* (ContainerLifecycle).  The app is made for an Intersection its owner    *)
(* holds or for none.  Every request has a thread and no lock is taken: a  *)
(* handler looks the Intersection up in app.config once to test that it is *)
(* a member and again to call it, while a /start deletes it, creates two   *)
(* containers and stores another.  Containers stop when the last reference *)
(* to them goes.  Other peers' committees are external, and which entries  *)
(* a /remove deletes is NeighbourTable's subject: here it may be any.      *)
(***************************************************************************)
EXTENDS ContainerLifecycle

CONSTANTS
    Quorums,        \* the quorum ids
    StartIds,       \* the pairs <<a, b>> a /start may give
    Lists,          \* the entries, by address, of the lists an /add or /join may bring
    LeadsTo,        \* QUORUM_ID of an entry: the quorum it is forwarded to for
    Threads,        \* the threads that serve requests
    MaxStarts,      \* bound: /start requests
    MaxRequests,    \* bound: requests, /start included
    MaxFailures     \* bound: containers Docker fails to create

ASSUME PeerApiAssumption ==
    /\ None \notin Quorums /\ StartIds \subseteq Quorums \X Quorums /\ \A ids \in StartIds : ids[1] # ids[2]
    /\ Containers = (1..MaxStarts + 1) \X {"a", "b"}
    /\ \A list \in Lists : list \cap Containers = {}  \* a neighbour is another peer's
    /\ LeadsTo \in [UNION Lists -> Quorums]
    /\ MaxStarts \in Nat /\ MaxRequests \in Nat /\ MaxFailures \in Nat

VARIABLES
    config,     \* app.config[PBFT_INSTANCES]: an Intersection, by its /start
    idsOf,      \* the ids of each Intersection
    quorums,    \* app.config[QUORUMS]: the lists by their keys
    bare,       \* the keys whose entries have no DOCKER_IP, or no longer
    thread,     \* the request each thread serves, or served last
    disturbed,  \* history: the requests another one may have interfered with
    starts, requests, failures

appVars == <<config, idsOf, quorums, bare, thread, disturbed, starts, requests, failures>>
avars == <<lifecycle, appVars>>

NotStarted == 0             \* None
Owners == MaxStarts + 1     \* what create_app was given
Objects == 1..Owners
Deleted == MaxStarts + 2    \* no such key

Halves(o) == {<<o, "a">>, <<o, "b">>}

Idle == [kind |-> "none", q |-> None, ids |-> <<None, None>>, list |-> {}, ips |-> {},
         pc |-> "idle", obj |-> NotStarted, by |-> None, ret |-> "none"]

\* create_app(instances): no lists come with the owner's Intersection.
AInit ==
    /\ config \in {NotStarted, Owners}
    /\ LStart(IF config = Owners THEN Halves(Owners) ELSE {})
    /\ \E ids \in StartIds :
         idsOf = [o \in Objects |-> IF o = config THEN ids ELSE <<None, None>>]
    /\ quorums = [q \in {} |-> {}] /\ bare = {}
    /\ thread = [t \in Threads |-> Idle]
    /\ disturbed = {}
    /\ starts = 0 /\ requests = 0 /\ failures = 0
-----------------------------------------------------------------------------
(* Requests *)

Serving(t) == thread[t].pc # "idle"
Writes(r) == r.kind \in {"add", "join"}
Disturbs(r, other) ==
    \/ r.kind = "start"
    \/ r.kind = "remove" /\ Writes(other)
    \/ Writes(r) /\ Writes(other) /\ r.q = other.q

\* A request disturbs those in progress and outdates what was answered before.
Arrive(t, r) ==
    /\ ~Serving(t) /\ requests < MaxRequests
    /\ requests' = requests + 1
    /\ thread' = [thread EXCEPT ![t] = r]
    /\ disturbed' =
         (disturbed \ {t})
           \cup {o \in Threads \ {t} : Disturbs(r, thread[o])}
           \cup (IF \E o \in Threads \ {t} : Serving(o) /\ Disturbs(thread[o], r)
                 THEN {t} ELSE {})
    /\ UNCHANGED <<lifecycle, config, idsOf, quorums, bare, failures>>

StartCalled(t) ==
    /\ starts < MaxStarts /\ starts' = starts + 1
    /\ \E ids \in StartIds :
         Arrive(t, [Idle EXCEPT !.kind = "start", !.ids = ids, !.pc = "enter"])

\* A transaction names its destination quorum; its key and value do not matter.
Transaction(q) == [Idle EXCEPT !.kind = "submit", !.q = q, !.pc = "check"]

\* /submit/, /make+genesis/, /info/, and as "read" the routes that return what the
\* Intersection does: /get/, /blocks/, /user+key/, /val+key/ and /ip/.
RequestCalled(t) ==
    /\ \E q \in Quorums :
         \/ Arrive(t, Transaction(q))
         \/ \E kind \in {"genesis", "read", "info"} :
              Arrive(t, [Idle EXCEPT !.kind = kind, !.q = q, !.pc = "check"])
         \/ \E kind \in {"add", "join"}, list \in Lists :
              Arrive(t, [Idle EXCEPT !.kind = kind, !.q = q, !.list = list, !.pc = "check"])
    /\ UNCHANGED starts

\* /min+intersection/ and /remove/
PeerCalled(t) ==
    /\ \/ Arrive(t, [Idle EXCEPT !.kind = "min", !.pc = "idA"])
       \/ Arrive(t, [Idle EXCEPT !.kind = "remove", !.pc = "cut"])
    /\ UNCHANGED starts

\* /quoruminfo/ shows the table; a dict that grows under the walk over it raises.
\* /request+join posts to the route /min+intersection, which only accepts GET, and
\* indexes the response object: it raises before it asks anyone to join.
AnsweredAtOnce(t) ==
    /\ \/ \E ret \in IF DOMAIN quorums = {} THEN {"failed"} ELSE {"ok", "raised"} :
            Arrive(t, [Idle EXCEPT !.kind = "quoruminfo", !.ret = ret])
       \/ Arrive(t, [Idle EXCEPT !.kind = "request+join", !.ret = "raised"])
    /\ UNCHANGED starts

Goto(t, pc) == thread' = [thread EXCEPT ![t].pc = pc]

\* The thread has ended, or still holds the reference it has.
Return(t, ret) ==
    thread' = [thread EXCEPT ![t].ret = ret, ![t].ids = Idle.ids, ![t].ips = {},
                             ![t].pc = IF thread[t].obj = NotStarted THEN "idle" ELSE "return"]

\* The handler's locals go; __del__ stops containers no one refers to any more.
UnreferencedMutByConfig(cfg, threads) == up \ (Halves(cfg) \cup Halves(Owners))
Unreferenced(cfg, threads) ==
    up \ UNION {Halves(o) : o \in {cfg, Owners} \cup {threads[t].obj : t \in Threads}}

Answer(t) ==
    /\ thread[t].pc = "return"
    /\ thread' = [thread EXCEPT ![t].pc = "idle", ![t].obj = NotStarted]
    /\ Stop(Unreferenced(config, thread'))
    /\ UNCHANGED <<config, idsOf, quorums, bare, disturbed, starts, requests, failures>>
-----------------------------------------------------------------------------
(* /start *)

\* The test of None: after an interrupted restart the key itself is missing.
Enter(t) ==
    /\ thread[t].pc = "enter"
    /\ CASE config = Deleted -> Return(t, "noKey")
         [] config = NotStarted -> Goto(t, "makeA")
         [] OTHER -> Goto(t, "del")
    /\ UNCHANGED <<lifecycle, config, idsOf, quorums, bare, disturbed, starts, requests, failures>>

\* del app.config[PBFT_INSTANCES]: another start may have deleted it first.
DeleteInstances(t) ==
    /\ thread[t].pc = "del"
    /\ IF config = Deleted
       THEN Return(t, "noKey") /\ UNCHANGED <<lifecycle, config>>
       ELSE /\ config' = Deleted
            /\ Goto(t, "makeA")
            /\ Stop(Unreferenced(Deleted, thread'))
    /\ UNCHANGED <<idsOf, quorums, bare, disturbed, starts, requests, failures>>

\* The next Intersection: no thread makes it and config has not held it.
Unused == {o \in Objects \ {Owners} :
              idsOf[o][1] = None /\ \A t \in Threads : thread[t].obj # o}

MakeA(t) ==
    /\ thread[t].pc = "makeA"
    /\ \E o \in Unused :
         /\ \A other \in Unused : o <= other
         /\ Create(<<o, "a">>)
         /\ thread' = [thread EXCEPT ![t].pc = "makeB", ![t].obj = o]
    /\ UNCHANGED <<config, idsOf, quorums, bare, disturbed, starts, requests, failures>>

MakeB(t) ==
    /\ thread[t].pc = "makeB"
    /\ Create(<<thread[t].obj, "b">>)
    /\ Goto(t, "store")
    /\ UNCHANGED <<config, idsOf, quorums, bare, disturbed, starts, requests, failures>>

\* containers.run raises.
MakeFails(t) ==
    /\ thread[t].pc \in {"makeA", "makeB"} /\ failures < MaxFailures
    /\ failures' = failures + 1
    /\ Return(t, "raised")
    /\ UNCHANGED <<lifecycle, config, idsOf, quorums, bare, disturbed, starts, requests>>

\* What a concurrent start stored before is replaced.
StoreMutAndDelete(t) == Deleted
Store(t) == thread[t].obj

StoreInstances(t) ==
    /\ thread[t].pc = "store"
    /\ config' = Store(t)
    /\ idsOf' = [idsOf EXCEPT ![thread[t].obj] = thread[t].ids]
    /\ Goto(t, "putA")
    /\ Stop(Unreferenced(config', thread'))
    /\ UNCHANGED <<quorums, bare, disturbed, starts, requests, failures>>

Put(q, list) == quorums' = [k \in DOMAIN quorums \cup {q} |-> IF k = q THEN list ELSE quorums[k]]

\* app.config[QUORUMS][...] = []
PutEmptyMutOnlyA(t) ==
    /\ thread[t].pc = "putA"
    /\ Put(thread[t].ids[1], {}) /\ Return(t, "ok")
    /\ UNCHANGED <<lifecycle, config, idsOf, bare, disturbed, starts, requests, failures>>
PutEmpty(t) ==
    /\ thread[t].pc \in {"putA", "putB"}
    /\ IF thread[t].pc = "putA" THEN Put(thread[t].ids[1], {}) /\ Goto(t, "putB")
                                ELSE Put(thread[t].ids[2], {}) /\ Return(t, "ok")
    /\ UNCHANGED <<lifecycle, config, idsOf, bare, disturbed, starts, requests, failures>>
-----------------------------------------------------------------------------
(* The other handlers *)

InCommittee(o, q) == q \in {idsOf[o][1], idsOf[o][2]}

\* What None would answer; add and join catch only that it has no method.
Refusal(kind) ==
    CASE kind \in {"add", "join"} -> "failed"
      [] kind = "info" -> "ok"
      [] OTHER -> "raised"

AfterCheck(kind) ==
    CASE kind \in {"add", "join"} -> "put"
      [] kind = "info" -> "count"
      [] OTHER -> "call"

\* A request for another quorum is answered or forwarded; a read is either.
Stranger(t) ==
    LET kind == thread[t].kind IN
    \/ kind \in {"add", "join", "read"} /\ Return(t, "failed")
    \/ kind = "info" /\ Return(t, "ok")
    \/ kind \in {"submit", "genesis", "read"} /\ Goto(t, "forward")

\* The first look-up.  make+genesis compares the two ids in a look-up each.
Check(t) ==
    LET r == thread[t] IN
    /\ r.pc \in {"check", "checkB"}
    /\ CASE config = Deleted -> Return(t, "noKey")
         [] config = NotStarted -> Return(t, Refusal(r.kind))
         [] OTHER ->
              LET member == IF r.kind # "genesis" THEN InCommittee(config, r.q)
                            ELSE r.q = idsOf[config][IF r.pc = "check" THEN 1 ELSE 2]
              IN \/ member /\ Goto(t, AfterCheck(r.kind))
                 \/ ~member /\ r.kind = "genesis" /\ r.pc = "check" /\ Goto(t, "checkB")
                 \/ ~member /\ (r.kind # "genesis" \/ r.pc = "checkB") /\ Stranger(t)
    /\ UNCHANGED <<lifecycle, config, idsOf, quorums, bare, disturbed, starts, requests, failures>>

\* forward: without an entry for the quorum random.choice raises, and so does the
\* post to one that refuses it, as requests' ConnectionError is not the builtin one.
Forward(t) ==
    /\ thread[t].pc = "forward"
    /\ \/ /\ \E k \in DOMAIN quorums : \E n \in quorums[k] : LeadsTo[n] = thread[t].q
          /\ Return(t, "forwarded")
       \/ Return(t, "raised")
    /\ UNCHANGED <<lifecycle, config, idsOf, quorums, bare, disturbed, starts, requests, failures>>

\* min_intersection takes its two ids in a look-up each.
TakeId(t) ==
    /\ thread[t].pc \in {"idA", "idB"}
    /\ CASE config = Deleted -> Return(t, "noKey")
         [] config = NotStarted -> Return(t, "raised")
         [] OTHER ->
              thread' = IF thread[t].pc = "idA"
                        THEN [thread EXCEPT ![t].ids = <<idsOf[config][1], None>>, ![t].pc = "idB"]
                        ELSE [thread EXCEPT ![t].ids = <<@[1], idsOf[config][2]>>, ![t].pc = "count"]
    /\ UNCHANGED <<lifecycle, config, idsOf, quorums, bare, disturbed, starts, requests, failures>>

\* The list that info counts and min_intersection begins with.
KeyOf(r) == IF r.kind = "min" THEN r.ids[1] ELSE r.q

\* app.config[QUORUMS][...]: a start stores its lists last, and an owner's
\* Intersection comes without.  Of the calls min_intersection makes any may raise.
Count(t) ==
    /\ thread[t].pc = "count"
    /\ IF KeyOf(thread[t]) \notin DOMAIN quorums THEN Return(t, "noList")
       ELSE Return(t, "ok") \/ (thread[t].kind = "min" /\ Return(t, "raised"))
    /\ UNCHANGED <<lifecycle, config, idsOf, quorums, bare, disturbed, starts, requests, failures>>

\* The entries of an /add may come without container addresses, as util.py's do.
PutList(t) ==
    LET q == thread[t].q IN
    /\ thread[t].pc = "put"
    /\ Put(q, thread[t].list)
    /\ \/ thread[t].kind = "add" /\ Return(t, "ok") /\ bare' \in {bare \cup {q}, bare \ {q}}
       \/ thread[t].kind = "join" /\ Goto(t, "pop") /\ bare' = bare \ {q}
    /\ UNCHANGED <<lifecycle, config, idsOf, disturbed, starts, requests, failures>>

\* What a walk over a list may see of it: a deletion behind it hides an entry.
Seen(t, list) ==
    {list} \cup IF \E o \in Threads \ {t} : thread[o].pc = "cut"
                THEN {list \ {n} : n \in list} ELSE {}

\* join takes the addresses out of the list that is in the table by now.
TakeAddresses(t) ==
    LET q == thread[t].q IN
    /\ thread[t].pc = "pop"
    /\ IF q \in bare /\ quorums[q] # {} THEN Return(t, "raised") /\ UNCHANGED bare
       ELSE /\ \E ips \in Seen(t, quorums[q]) :
                 thread' = [thread EXCEPT ![t].ips = ips, ![t].pc = "ip"]
            /\ bare' = bare \cup {q}
    /\ UNCHANGED <<lifecycle, config, idsOf, quorums, disturbed, starts, requests, failures>>

\* Intersection's methods compare the id again, whoever tested it before.
DispatchMutElseB(o, q) == IF q = idsOf[o][1] THEN <<o, "a">> ELSE <<o, "b">>
DispatchMutOnlyA(o, q) == IF q = idsOf[o][1] THEN <<o, "a">> ELSE None
Dispatch(o, q) ==
    IF q = idsOf[o][1] THEN <<o, "a">> ELSE IF q = idsOf[o][2] THEN <<o, "b">> ELSE None

\* join looks up its own address, None when the id has gone.
OwnAddress(t) ==
    /\ thread[t].pc = "ip"
    /\ IF config = Deleted THEN Return(t, "noKey")
       ELSE thread' = [thread EXCEPT ![t].ips = @ \cup {Dispatch(config, thread[t].q)},
                                     ![t].pc = "call"]
    /\ UNCHANGED <<lifecycle, config, idsOf, quorums, bare, disturbed, starts, requests, failures>>

\* The last look-up: from here on the thread holds a reference.
Call(t) ==
    /\ thread[t].pc = "call"
    /\ IF config = Deleted THEN Return(t, "noKey")
       ELSE thread' = [thread EXCEPT ![t].obj = config, ![t].pc = "run",
                                     ![t].by = Dispatch(config, thread[t].q)]
    /\ UNCHANGED <<lifecycle, config, idsOf, quorums, bare, disturbed, starts, requests, failures>>

\* submit_tx runs a client command, the others read.  get_tx indexes what the client
\* prints, and sawtooth_api parses what curl does: either may raise.
SubmitOrRead(t) ==
    /\ thread[t].by # None /\ thread[t].kind \in {"submit", "read"}
    /\ Return(t, "ok") \/ (thread[t].kind = "read" /\ Return(t, "raised"))
    /\ UNCHANGED lifecycle

\* The instance does it.  A method that found no instance logs and returns None:
\* submit, make+genesis and join say ok all the same, /blocks/ says null, and
\* Flask makes an error of the None of the others.
Run(t) ==
    LET r == thread[t] IN
    /\ r.pc = "run"
    /\ \/ /\ r.by = None
          /\ \E ret \in IF r.kind = "read" THEN {"raised", "null"} ELSE {"ok"} : Return(t, ret)
          /\ UNCHANGED lifecycle
       \/ SubmitOrRead(t)
       \/ r.by # None /\ r.kind = "genesis" /\ Return(t, "ok") /\ MakeGenesis(r.by, {r.by}, {r.by})
       \/ r.by # None /\ r.kind = "join" /\ Return(t, "ok") /\ JoinSawtooth(r.by, r.ips)
       \/ /\ r.by # None /\ r.kind = "join" /\ Cardinality(r.ips) < 4
          /\ Return(t, "raised") /\ UNCHANGED lifecycle
    /\ UNCHANGED <<config, idsOf, quorums, bare, disturbed, starts, requests, failures>>

\* A /remove at work, and its end.
Remove(t) ==
    /\ thread[t].pc = "cut"
    /\ \/ /\ \E k \in DOMAIN quorums : \E n \in quorums[k] :
               quorums' = [quorums EXCEPT ![k] = @ \ {n}]
          /\ UNCHANGED thread
       \/ (Return(t, "ok") \/ Return(t, "raised")) /\ UNCHANGED quorums
    /\ UNCHANGED <<lifecycle, config, idsOf, bare, disturbed, starts, requests, failures>>
-----------------------------------------------------------------------------
Serve(t) ==
    \/ Enter(t) \/ DeleteInstances(t) \/ MakeA(t) \/ MakeB(t) \/ MakeFails(t)
    \/ StoreInstances(t) \/ PutEmpty(t)
    \/ Check(t) \/ Forward(t) \/ TakeId(t) \/ Count(t) \/ Remove(t)
    \/ PutList(t) \/ TakeAddresses(t) \/ OwnAddress(t) \/ Call(t) \/ Run(t)
    \/ Answer(t)

Called(t) == StartCalled(t) \/ RequestCalled(t) \/ PeerCalled(t) \/ AnsweredAtOnce(t)

ANext == \E t \in Threads : Called(t) \/ Serve(t)

ASpec == AInit /\ [][ANext]_avars
-----------------------------------------------------------------------------
(* Properties *)

QuorumOf(c) == idsOf[c[1]][IF c[2] = "a" THEN 1 ELSE 2]

\* The Intersection that is called may not be the one that was tested: still no
\* request is executed by an instance of another quorum than it names.
ExecutedInItsQuorum ==
    \A t \in Threads : thread[t].by # None => QuorumOf(thread[t].by) = thread[t].q

\* Without a start in between, a submit, genesis or join that is answered ok was
\* executed by an instance; and without a start, a /remove or another list for the
\* quorum since, the list of an add or join that is answered ok is in the table.
AcknowledgedMeansDone ==
    \A t \in Threads \ disturbed : ~Serving(t) /\ thread[t].ret = "ok" =>
        /\ thread[t].kind \in {"submit", "genesis", "join"} => thread[t].by # None
        /\ Writes(thread[t]) => quorums[thread[t].q] = thread[t].list

\* A restart does not stop a container under a call that runs in it.
CallsKeepTheirContainer ==
    \A t \in Threads : thread[t].pc = "run" /\ thread[t].by # None => thread[t].by \in up

\* No lock is taken, yet without a start in between every handler finds what it
\* looks up: the Intersection, unless Docker has failed a restart, and the lists
\* of its two quorums, unless create_app was given it and no start has come yet.
KeysAreThere ==
    \A t \in Threads \ disturbed :
        /\ thread[t].ret = "noKey" => failures > 0
        /\ thread[t].ret = "noList" => config = Owners

\* The key of the Intersection is missing only while a start is between deleting
\* and storing, unless Docker has failed: then no later start gets past its test.
MissingOnlyDuringStart ==
    config = Deleted =>
        failures > 0 \/ \E t \in Threads : thread[t].pc \in {"makeA", "makeB", "store"}
=============================================================================
