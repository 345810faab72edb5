------------------------------- MODULE MsgQueue -------------------------------
(***************************************************************************)
(* MsgQueue of src/msg_queue/msg_queue.cpp shared by threads: Senders that *)
(* Put(), Getters that Get() with or without a timeout, Requesters that    *)
(* Request() and a Responder that Get()s requests and RespondTo()s them,   *)
(* as in msg_queue_test.cpp.                                               *)
(*                                                                         *)
(* Every MsgQueue (the main one, and the response queue Request() creates  *)
(* for each request) has its queue_, its mutex and its condition variable. *)
(* A section under a mutex is one step.  Waiting on the condition variable *)
(* releases the mutex and puts the thread in waiters[q]; notify_one moves  *)
(* one waiter out, and the woken thread re-takes the mutex and re-tests    *)
(* the predicate in a later step.  A timed wait may instead time out at    *)
(* any moment, after which wait_for re-tests the predicate once.           *)
(* Spurious wakeups are left out: the predicate loop of wait/wait_for      *)
(* makes them indistinguishable from staying asleep.                       *)
(*                                                                         *)
(* A message is a tuple of its kind, its msg_id_ and what is needed of    *)
(* its unique_id_: <<"data", s, k>> (the k-th Put of sender s),           *)
(* <<"req", <<r, k>>, uid>> (the k-th Request of r), <<"resp", id>> (the   *)
(* response to the message with msg_id id) or <<"timeout">> (MSG_TIMEOUT). *)
(* The Msg a requester constructs draws its uid from GenerateUniqueId's    *)
(* counter lastUid; every other Msg's uid is only told apart from those,   *)
(* so it is the pair <<s, k>>, which no request uid equals.                *)
(*                                                                         *)
(* The Dispatcher of src/msg_dispatcher composes with it: each Actor owns  *)
(* a MsgQueue, Register() enters the actor under its name, and Post()      *)
(* Put()s into the queue of the actor registered under a name, or drops    *)
(* the message.  An actor is the DemoActor of dispatcher_test.cpp: its     *)
(* thread Registers it, Posts it a FOO and runs Handle(), which Gets with  *)
(* a timeout, answers a FOO by Posting a BAR to itself and stops on the    *)
(* first MSG_TIMEOUT.  Posters are other threads that Post FOOs to a name. *)
(***************************************************************************)
EXTENDS Naturals, Sequences, FiniteSets

CONSTANTS
  Senders, Getters, TimedGetters, Requesters, Responders,
  NumMsgs,       \* messages each sender Put()s
  NumGets,       \* Get() calls of each getter
  NumRequests,   \* Request() calls of each requester
  Actors,        \* DemoActors, each registered under its own name
  Posters,       \* threads that Post() to the dispatcher
  Names,         \* names Post() is called with: Actors and unknown ones
  NumPosts,      \* Post() calls of each poster
  NONE

ASSUME TimedGetters \subseteq Getters /\ Cardinality(Responders) <= 1
ASSUME Actors \subseteq Names

Threads    == Senders \cup Getters \cup Requesters \cup Responders
                \cup Actors \cup Posters
ReqIds     == Requesters \X (1..NumRequests)   \* msg_id_ of each Request's Msg
MaxUid     == Cardinality(Requesters) * NumRequests
UidOf(n)   == <<"uid", n>>   \* the MsgUID value n
UIDs       == {UidOf(n) : n \in 1..MaxUid}
Main       == <<"main", 0>>
ActorQ(a)  == <<"actor", a>>   \* Actor::msg_queue_
QueueIds   == {Main} \cup UIDs \cup {ActorQ(a) : a \in Actors}
TimeoutMsg == <<"timeout">>
(* A FOO <<"foo", p, k>> is the k-th Post of p (an actor's own is its 1st);  *)
(* the BAR that answers it is <<"bar", p, k>>.                              *)
DemoMsgs   == {"foo", "bar"} \X (Actors \cup Posters) \X (1..(NumPosts + 1))
DataIds    == Senders \X (1..NumMsgs)
Msgs       == ({"data"} \X Senders \X (1..NumMsgs)) \cup ({"req"} \X ReqIds \X UIDs)
                \cup ({"resp"} \X (ReqIds \cup DataIds))
                \cup DemoMsgs \cup {TimeoutMsg}

(* How many calls a thread makes. *)
Quota(t) ==
  CASE t \in Senders    -> NumMsgs
    [] t \in Getters    -> NumGets
    [] t \in Requesters -> NumRequests
    [] t \in Posters    -> NumPosts
    [] t \in Actors     -> 1
    [] OTHER            -> Cardinality(Requesters) * NumRequests
                             + Cardinality(Senders) * NumMsgs

VARIABLES
  items,     \* queue_ of each MsgQueue
  waiters,   \* threads blocked on each queue_cond_
  respMap,   \* keys of response_map_
  mapOwner,  \* holder of response_map_mutex_ across RespondTo's steps
  pc,        \* program counter of each thread
  count,     \* calls each thread has completed
  gq,        \* queue a thread is in Get() on
  gret,      \* where Get() returns to
  res,       \* message Get() returned
  nq,        \* queue a pending notify_one is for
  nafter,    \* where a thread goes after its notify_one
  putLog,    \* history: messages Put() on each queue, in order
  popLog,    \* history: Put() messages popped from each queue, in order
  registered, \* names in Dispatcher::actors_
  stopAt,    \* history: Len(putLog[gq[t]]) when t's Get() last timed out
  lastUid,   \* the static atomic counter of GenerateUniqueId
  msgUid     \* unique_id_ of the Msg a requester has constructed

vars == <<items, waiters, respMap, mapOwner, pc, count, gq, gret, res, nq,
          nafter, putLog, popLog, registered, stopAt, lastUid, msgUid>>
dispVars == <<registered, stopAt>>
uidVars  == <<lastUid, msgUid>>

(* Msg::GetUniqueId() of the Msg requester r passes to Request(). *)
Uid(r) == UidOf(msgUid[r])

(* msg_id_ of requester r's current Request (msg_queue_test.cpp 137, 143). *)
ReqId(r) == <<r, count[r] + 1>>

(* Threads whose Get() has a timeout: timed getters, and every actor's   *)
(* Get(2000) (dispatcher_test.cpp line 42).                              *)
TimedGets == TimedGetters \cup Actors

(* Msg::GetUniqueId() of a message: every Msg has one. *)
MsgUid(m) == IF m[1] = "req" THEN m[3] ELSE <<m[2], m[3]>>

(* Msg::GetMsgId() of a message the responder answers. *)
MsgId(m) == IF m[1] = "req" THEN m[2] ELSE <<m[2], m[3]>>

Init ==
  /\ items = [q \in QueueIds |-> <<>>]
  /\ waiters = [q \in QueueIds |-> {}]
  /\ respMap = {}
  /\ mapOwner = NONE
  /\ pc = [t \in Threads |-> IF Quota(t) > 0 THEN "idle" ELSE "done"]
  /\ count = [t \in Threads |-> 0]
  /\ gq = [t \in Threads |-> Main]
  /\ gret = [t \in Threads |-> "idle"]
  /\ res = [t \in Threads |-> NONE]
  /\ nq = [t \in Threads |-> Main]
  /\ nafter = [t \in Threads |-> "idle"]
  /\ putLog = [q \in QueueIds |-> <<>>]
  /\ popLog = [q \in QueueIds |-> <<>>]
  /\ registered = {}
  /\ stopAt = [t \in Threads |-> 0]
  /\ lastUid = 0
  /\ msgUid = [t \in Requesters |-> 0]

(* A thread finishes a call and goes idle, or done after its last one. *)
Finish(t) ==
  /\ count' = [count EXCEPT ![t] = @ + 1]
  /\ pc' = [pc EXCEPT ![t] = IF count[t] + 1 < Quota(t) THEN "idle" ELSE "done"]

(* Put, lines 16-20: push under queue_mutex_; notify_one comes after the *)
(* lock is released (line 22), as the thread's next step.               *)
Push(t, q, m, after) ==
  /\ items' = [items EXCEPT ![q] = Append(@, m)]
  /\ putLog' = [putLog EXCEPT ![q] = Append(@, m)]
  /\ nq' = [nq EXCEPT ![t] = q]
  /\ nafter' = [nafter EXCEPT ![t] = after]

NotifyNone(t) ==
  /\ pc[t] = "notify"
  /\ pc' = [pc EXCEPT ![t] = nafter[t]]
  /\ UNCHANGED <<items, waiters, respMap, mapOwner, count, gq, gret, res, nq,
                 nafter, putLog, popLog>>

(* queue_cond_.notify_one(): wake one waiter, if there is one. *)
Notify(t) ==
  /\ pc[t] = "notify"
  /\ \/ waiters[nq[t]] = {} /\ UNCHANGED waiters
        /\ pc' = [pc EXCEPT ![t] = nafter[t]]
     \/ \E w \in waiters[nq[t]] :
          /\ waiters' = [waiters EXCEPT ![nq[t]] = @ \ {w}]
          /\ pc' = [pc EXCEPT ![t] = nafter[t], ![w] = "woken"]
  /\ UNCHANGED <<items, respMap, mapOwner, count, gq, gret, res, nq, nafter,
                 putLog, popLog>>

(* Get() enters with a call: on queue q, returning to label ret. *)
CallGet(t, q, ret) ==
  /\ gq' = [gq EXCEPT ![t] = q]
  /\ gret' = [gret EXCEPT ![t] = ret]
  /\ pc' = [pc EXCEPT ![t] = "get"]

(* Lines 41-43: take the front message and return it. *)
PopFront(t) ==
  LET q == gq[t] IN
  /\ res' = [res EXCEPT ![t] = Head(items[q])]
  /\ items' = [items EXCEPT ![q] = Tail(@)]
  /\ popLog' = [popLog EXCEPT ![q] = Append(@, Head(items[q]))]
  /\ pc' = [pc EXCEPT ![t] = gret[t]]
  /\ UNCHANGED waiters

(* Lines 26-34, with the lock first taken or re-taken after a wakeup:    *)
(* the predicate !queue_.empty() holds and the front is taken, or the    *)
(* thread waits.                                                         *)
GetTest(t) ==
  /\ pc[t] \in {"get", "woken"}
  /\ \/ items[gq[t]] # <<>> /\ PopFront(t)
     \/ /\ items[gq[t]] = <<>>
        /\ waiters' = [waiters EXCEPT ![gq[t]] = @ \cup {t}]
        /\ pc' = [pc EXCEPT ![t] = "waiting"]
        /\ UNCHANGED <<items, res, popLog>>
  /\ UNCHANGED <<respMap, mapOwner, count, gq, gret, nq, nafter, putLog>>

GetTimeoutIgnoresPredicate(t) ==
  LET q == gq[t]
      qq == Append(items[q], TimeoutMsg)
  IN
  /\ pc[t] = "waiting" /\ t \in TimedGets
  /\ waiters' = [waiters EXCEPT ![q] = @ \ {t}]
  /\ res' = [res EXCEPT ![t] = Head(qq)]
  /\ items' = [items EXCEPT ![q] = Tail(qq)]
  /\ popLog' = IF items[q] = <<>> THEN popLog
               ELSE [popLog EXCEPT ![q] = Append(@, Head(qq))]
  /\ pc' = [pc EXCEPT ![t] = gret[t]]
  /\ UNCHANGED <<respMap, mapOwner, count, gq, gret, nq, nafter, putLog>>

GetTimeoutNoEmplace(t) ==
  LET q == gq[t] IN
  /\ pc[t] = "waiting" /\ t \in TimedGets
  /\ waiters' = [waiters EXCEPT ![q] = @ \ {t}]
  /\ \/ items[q] # <<>> /\ PopFront(t)
     \/ /\ items[q] = <<>>
        /\ res' = [res EXCEPT ![t] = NONE]
        /\ pc' = [pc EXCEPT ![t] = gret[t]]
        /\ UNCHANGED <<items, popLog>>
  /\ UNCHANGED <<respMap, mapOwner, count, gq, gret, nq, nafter, putLog>>

GetTimeoutAheadOfQueue(t) ==
  LET q == gq[t] IN
  /\ pc[t] = "waiting" /\ t \in TimedGets
  /\ waiters' = [waiters EXCEPT ![q] = @ \ {t}]
  /\ res' = [res EXCEPT ![t] = TimeoutMsg]
  /\ pc' = [pc EXCEPT ![t] = gret[t]]
  /\ UNCHANGED <<items, popLog, respMap, mapOwner, count, gq, gret, nq, nafter,
                 putLog>>

(* wait_for times out (lines 31-38): the predicate is tested once more   *)
(* under the lock; if the queue is still empty MSG_TIMEOUT is pushed and *)
(* then, as on every path, the front is popped.                          *)
GetTimeout(t) ==
  LET q == gq[t] IN
  /\ pc[t] = "waiting" /\ t \in TimedGets
  /\ waiters' = [waiters EXCEPT ![q] = @ \ {t}]
  /\ \/ items[q] # <<>> /\ PopFront(t)
     \/ /\ items[q] = <<>>
        /\ res' = [res EXCEPT ![t] = TimeoutMsg]
        /\ pc' = [pc EXCEPT ![t] = gret[t]]
        /\ UNCHANGED <<items, popLog>>
  /\ UNCHANGED <<respMap, mapOwner, count, gq, gret, nq, nafter, putLog>>

(* The end of a call: Put and Get return to their caller. *)
EndCall(t) ==
  /\ pc[t] = "finish"
  /\ Finish(t)
  /\ UNCHANGED <<items, waiters, respMap, mapOwner, gq, gret, res, nq, nafter,
                 putLog, popLog>>

(* A sender's Put (lines 16-20) of its next message. *)
SenderPut(s) ==
  /\ pc[s] = "idle"
  /\ Push(s, Main, <<"data", s, count[s] + 1>>, "finish")
  /\ pc' = [pc EXCEPT ![s] = "notify"]
  /\ UNCHANGED <<waiters, respMap, mapOwner, count, gq, gret, res, popLog>>

(* A getter calls Get (line 25), with a timeout if it is a timed getter. *)
GetterCall(g) ==
  /\ pc[g] = "idle"
  /\ CallGet(g, Main, "finish")
  /\ UNCHANGED <<items, waiters, respMap, mapOwner, count, res, nq, nafter,
                 putLog, popLog>>

ReqMsgNotAtomic(r) ==
  \/ /\ pc[r] = "idle"
     /\ msgUid' = [msgUid EXCEPT ![r] = lastUid]
     /\ pc' = [pc EXCEPT ![r] = "req_msg_store"]
     /\ UNCHANGED lastUid
  \/ /\ pc[r] = "req_msg_store"
     /\ lastUid' = msgUid[r] + 1
     /\ msgUid' = [msgUid EXCEPT ![r] = @ + 1]
     /\ pc' = [pc EXCEPT ![r] = "req_emplace"]

(* The requester constructs Msg(i) (msg_queue_test.cpp 137): Msg::Msg   *)
(* takes unique_id_ from GenerateUniqueId, an atomic ++i (msg.cpp 6-15). *)
ReqMsg(r) ==
  /\ pc[r] = "idle"
  /\ lastUid' = lastUid + 1
  /\ msgUid' = [msgUid EXCEPT ![r] = lastUid + 1]
  /\ pc' = [pc EXCEPT ![r] = "req_emplace"]

(* Request, lines 47-50: emplace a new response MsgQueue under the map   *)
(* lock.  emplace inserts only if the uid is not a key yet; the queue of  *)
(* an uid no Request has used is still empty.                             *)
ReqEmplace(r) ==
  /\ pc[r] = "req_emplace" /\ mapOwner = NONE
  /\ respMap' = respMap \cup {Uid(r)}
  /\ pc' = [pc EXCEPT ![r] = "req_put"]
  /\ UNCHANGED <<items, waiters, mapOwner, count, gq, gret, res, nq, nafter,
                 putLog, popLog>>

(* Request, line 52: Put the request into this queue. *)
ReqPut(r) ==
  /\ pc[r] = "req_put"
  /\ Push(r, Main, <<"req", ReqId(r), Uid(r)>>, "req_get")
  /\ pc' = [pc EXCEPT ![r] = "notify"]
  /\ UNCHANGED <<waiters, respMap, mapOwner, count, gq, gret, res, popLog>>

ReqGetFromMain(r) ==
  /\ pc[r] = "req_get"
  /\ CallGet(r, Main, "req_erase")
  /\ UNCHANGED <<items, waiters, respMap, mapOwner, count, res, nq, nafter,
                 putLog, popLog>>

(* Request, line 53: block in Get() on the response queue. *)
ReqGet(r) ==
  /\ pc[r] = "req_get"
  /\ CallGet(r, Uid(r), "req_erase")
  /\ UNCHANGED <<items, waiters, respMap, mapOwner, count, res, nq, nafter,
                 putLog, popLog>>

ReqEraseForgets(r) ==
  /\ pc[r] = "req_erase" /\ mapOwner = NONE
  /\ Finish(r)
  /\ UNCHANGED <<items, waiters, respMap, mapOwner, gq, gret, res, nq, nafter,
                 putLog, popLog>>

(* Request, lines 55-59: erase the response queue under the map lock and *)
(* return the response.                                                   *)
ReqErase(r) ==
  /\ pc[r] = "req_erase" /\ mapOwner = NONE
  /\ respMap' = respMap \ {Uid(r)}
  /\ Finish(r)
  /\ UNCHANGED <<items, waiters, mapOwner, gq, gret, res, nq, nafter, putLog,
                 popLog>>

(* The responder of msg_queue_test Gets the next message and answers it *)
(* with RespondTo, whether it was a Request or a one-way Put.           *)
RespGet(p) ==
  /\ pc[p] = "idle"
  /\ CallGet(p, Main, "respond")
  /\ UNCHANGED <<items, waiters, respMap, mapOwner, count, res, nq, nafter,
                 putLog, popLog>>

RespondNoNotify(p) ==
  LET uid == MsgUid(res[p]) IN
  /\ pc[p] = "respond" /\ mapOwner = NONE
  /\ \/ uid \in respMap
        /\ Push(p, uid, <<"resp", MsgId(res[p])>>, "unlock")
        /\ pc' = [pc EXCEPT ![p] = "unlock"]
        /\ mapOwner' = p
        /\ UNCHANGED count
     \/ uid \notin respMap
        /\ Finish(p)
        /\ UNCHANGED <<items, mapOwner, nq, nafter, putLog>>
  /\ UNCHANGED <<waiters, respMap, gq, gret, res, popLog>>

RespondUnlockEarly(p) ==
  LET uid == MsgUid(res[p]) IN
  /\ pc[p] = "respond" /\ mapOwner = NONE
  /\ \/ uid \in respMap
        /\ Push(p, uid, <<"resp", MsgId(res[p])>>, "unlock")
        /\ pc' = [pc EXCEPT ![p] = "notify"]
        /\ UNCHANGED count
     \/ uid \notin respMap
        /\ Finish(p)
        /\ UNCHANGED <<items, nq, nafter, putLog>>
  /\ UNCHANGED <<waiters, respMap, mapOwner, gq, gret, res, popLog>>

(* RespondTo, lines 62-66: take the map lock and, if the uid is still in *)
(* the map, Put the response into its queue.  The lock is held across    *)
(* that Put's notify_one (the "notify" step) and released in RespUnlock. *)
Respond(p) ==
  LET uid == MsgUid(res[p]) IN
  /\ pc[p] = "respond" /\ mapOwner = NONE
  /\ \/ uid \in respMap
        /\ Push(p, uid, <<"resp", MsgId(res[p])>>, "unlock")
        /\ pc' = [pc EXCEPT ![p] = "notify"]
        /\ mapOwner' = p
        /\ UNCHANGED count
     \/ uid \notin respMap
        /\ Finish(p)
        /\ UNCHANGED <<items, mapOwner, nq, nafter, putLog>>
  /\ UNCHANGED <<waiters, respMap, gq, gret, res, popLog>>

(* RespondTo, line 67: the lock_guard releases the map lock. *)
RespUnlock(p) ==
  /\ pc[p] = "unlock"
  /\ mapOwner' = NONE
  /\ Finish(p)
  /\ UNCHANGED <<items, waiters, respMap, gq, gret, res, nq, nafter, putLog,
                 popLog>>

(* Dispatcher::Post (dispatcher.cpp lines 12-17): find the actor         *)
(* registered under name and Put (actor.h line 25) into its queue, or     *)
(* drop the message when there is none.                                   *)
DispatchPut(t, name, m, after) ==
  \/ /\ name \in registered
     /\ Push(t, ActorQ(name), m, after)
     /\ pc' = [pc EXCEPT ![t] = "notify"]
  \/ /\ name \notin registered
     /\ pc' = [pc EXCEPT ![t] = after]
     /\ UNCHANGED <<items, putLog, nq, nafter>>

(* The test's main thread: Register (dispatcher.cpp lines 6-10) the      *)
(* actor under its name.  The actor pointer is never null.                *)
ActRegister(a) ==
  /\ pc[a] = "idle"
  /\ registered' = registered \cup {a}
  /\ pc' = [pc EXCEPT ![a] = "act_post"]
  /\ UNCHANGED <<items, waiters, respMap, mapOwner, count, gq, gret, res, nq,
                 nafter, putLog, popLog, stopAt>>

(* dispatcher_test.cpp line 90: Post a FOO to the actor's own name; then  *)
(* Handle() (line 91) enters its loop.                                    *)
ActPost(a) ==
  /\ pc[a] = "act_post"
  /\ DispatchPut(a, a, <<"foo", a, 1>>, "act_get")
  /\ UNCHANGED <<waiters, respMap, mapOwner, count, gq, gret, res, popLog,
                 registered, stopAt>>

(* Handle(), line 42: msg_queue_.Get(2000), while !stop_. *)
ActGet(a) ==
  /\ pc[a] = "act_get"
  /\ CallGet(a, ActorQ(a), "act_handle")
  /\ UNCHANGED <<items, waiters, respMap, mapOwner, count, res, nq, nafter,
                 putLog, popLog, registered, stopAt>>

(* Handle(), lines 43-55: on MSG_TIMEOUT set stop_ and leave the loop; on *)
(* a FOO Post the BAR that answers it to "DemoActor", the actor itself;   *)
(* on a BAR do nothing.                                                   *)
ActHandle(a) ==
  LET m == res[a] IN
  /\ pc[a] = "act_handle"
  /\ \/ m = TimeoutMsg /\ pc' = [pc EXCEPT ![a] = "done"]
        /\ UNCHANGED <<items, putLog, nq, nafter>>
     \/ m[1] = "foo" /\ DispatchPut(a, a, <<"bar", m[2], m[3]>>, "act_get")
     \/ m[1] = "bar" /\ pc' = [pc EXCEPT ![a] = "act_get"]
        /\ UNCHANGED <<items, putLog, nq, nafter>>
  /\ UNCHANGED <<waiters, respMap, mapOwner, count, gq, gret, res, popLog,
                 registered, stopAt>>

(* A poster thread Posts its next FOO to a name, known or not. *)
PosterPost(p) ==
  /\ pc[p] = "idle"
  /\ \E name \in Names : DispatchPut(p, name, <<"foo", p, count[p] + 1>>, "finish")
  /\ UNCHANGED <<waiters, respMap, mapOwner, count, gq, gret, res, popLog,
                 registered, stopAt>>

(* History: when a Get() returns MSG_TIMEOUT, how many messages had been *)
(* Put() on its queue by then.                                            *)
RecordTimeout(t) ==
  stopAt' = [stopAt EXCEPT ![t] = IF res'[t] = TimeoutMsg
                                  THEN Len(putLog[gq[t]]) ELSE @]

(* Every call of every thread has returned. *)
Terminated ==
  /\ \A t \in Threads : pc[t] = "done"
  /\ UNCHANGED vars

Step(t) ==
  \/ /\ \/ Notify(t) \/ GetTest(t) \/ EndCall(t)
        \/ t \in Senders /\ SenderPut(t)
        \/ t \in Getters /\ GetterCall(t)
        \/ t \in Requesters /\ (ReqEmplace(t) \/ ReqPut(t) \/ ReqGet(t) \/ ReqErase(t))
        \/ t \in Responders /\ (RespGet(t) \/ Respond(t) \/ RespUnlock(t))
     /\ UNCHANGED <<dispVars, uidVars>>
  \/ GetTimeout(t) /\ RecordTimeout(t) /\ UNCHANGED <<registered, uidVars>>
  \/ t \in Requesters /\ ReqMsg(t)
     /\ UNCHANGED <<items, waiters, respMap, mapOwner, count, gq, gret, res, nq,
                    nafter, putLog, popLog, dispVars>>
  \/ t \in Actors /\ (ActRegister(t) \/ ActPost(t) \/ ActGet(t) \/ ActHandle(t))
     /\ UNCHANGED uidVars
  \/ t \in Posters /\ PosterPost(t) /\ UNCHANGED uidVars

Next == (\E t \in Threads : Step(t)) \/ Terminated

(* A runnable thread is eventually scheduled, and a timed wait_for       *)
(* eventually returns: weak fairness on each thread's steps.             *)
Spec == Init /\ [][Next]_vars /\ \A t \in Threads : WF_vars(Step(t))

-----------------------------------------------------------------------------
Labels == {"idle", "done", "finish", "notify", "get", "waiting", "woken",
           "req_msg_store", "req_emplace", "req_put", "req_get", "req_erase",
           "respond", "unlock",
           "act_post", "act_get", "act_handle"}

(* Each variable has its type, a thread is in waiters[q] exactly while it *)
(* waits in Get() on q, and a Get() that has returned hands its caller a  *)
(* message: on a timeout that is the MSG_TIMEOUT Get pushed (line 37),    *)
(* never nothing.                                                         *)
TypeOK ==
  /\ items \in [QueueIds -> Seq(Msgs)]
  /\ waiters \in [QueueIds -> SUBSET Threads]
  /\ respMap \subseteq UIDs
  /\ registered \subseteq Actors
  /\ lastUid \in 0..MaxUid
  /\ msgUid \in [Requesters -> 0..MaxUid]
  /\ mapOwner \in Responders \cup {NONE}
  /\ pc \in [Threads -> Labels]
  /\ \A t \in Threads : count[t] \in 0..Quota(t)
  /\ \A t \in Threads, q \in QueueIds :
       t \in waiters[q] <=> pc[t] = "waiting" /\ gq[t] = q
  /\ \A t \in Threads :
       \/ pc[t] = "finish" /\ t \in Getters
       \/ pc[t] \in {"req_erase", "respond", "act_handle"}
       => res[t] \in Msgs

(* Every MsgQueue is a FIFO of what was Put() into it: the messages Get() *)
(* has taken out, followed by what is still queued, are exactly the       *)
(* messages Put() in, in order.  Nothing is lost, duplicated or reordered *)
(* by the interleaving of Put, Get and Get's timeout path, and a          *)
(* MSG_TIMEOUT Get pushes never stays behind for another Get to receive.  *)
QueueIsFifo ==
  \A q \in QueueIds : putLog[q] = popLog[q] \o items[q]

(* Request() returns the response RespondTo() gave to its own request,   *)
(* never another thread's request or response: the response's msg_id is   *)
(* the one derived from its own Msg's (EXPECT_EQ at msg_queue_test.cpp    *)
(* 137 and 143).  Requests are matched to response queues by unique_id_,  *)
(* so this rests on GenerateUniqueId never giving two Msgs the same uid.  *)
RequestGetsOwnResponse ==
  \A r \in Requesters : pc[r] = "req_erase" => res[r] = <<"resp", ReqId(r)>>

(* response_map_ holds exactly the response queues of the Request() calls *)
(* in progress (none leaks, none is erased early), and no thread notifies *)
(* or waits on a response MsgQueue after Request() has erased (destroyed) *)
(* it: RespondTo's Put completes under the map lock that erase needs.     *)
ResponseQueueLifetime ==
  /\ respMap = {Uid(r) : r \in {x \in Requesters :
                  pc[x] \notin {"idle", "req_msg_store", "req_emplace", "done"}}}
  /\ \A t \in Threads : pc[t] = "notify" => nq[t] \in {Main} \cup respMap
  /\ \A q \in UIDs \ respMap : waiters[q] = {}

(* A DemoActor stops only when nothing Posted to it is left unhandled:   *)
(* once Handle()'s loop has ended on MSG_TIMEOUT, it has taken every      *)
(* message Put into its queue before that Get() timed out, and every FOO  *)
(* it handled had its BAR, which it Posted to itself, handled too.  A     *)
(* Post racing the expiry of wait_for is either taken or comes after the  *)
(* timeout, and the self-Post completes before the next Get.              *)
ActorStopsDrained ==
  \A a \in Actors : pc[a] = "done" =>
    LET handled == popLog[ActorQ(a)] IN
    /\ Len(handled) = stopAt[a]
    /\ \A i \in DOMAIN handled :
         handled[i][1] = "foo" =>
           \E j \in DOMAIN handled : handled[j] = <<"bar", handled[i][2], handled[i][3]>>

(* Every thread's calls all return: no Get() sleeps through a Put() that *)
(* it could take (notify_one is called outside the lock), and every      *)
(* Request() receives its response.                                      *)
AllComplete == <>(\A t \in Threads : pc[t] = "done")

=============================================================================
