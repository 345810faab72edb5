----------------------------- MODULE TimingWheel -----------------------------
(***************************************************************************)
(* The hierarchical timing wheel of src/timing_wheel: TimerManager         *)
(* (timer_manager.cpp) and the ThreadTimer objects that use it             *)
(* (thread_timer.cpp), on the one thread that calls DetectTimerList(),     *)
(* Start() and Stop().                                                     *)
(*                                                                         *)
(* Wheel 0 has 2^WheelBits1 spokes and wheels 1 .. WheelNum-1 have         *)
(* 2^WheelBits2 (the code: 8, 6 and 5 wheels, scaled down).  GRANULARITY   *)
(* is 1 ms, so an interval is a number of ticks.  The span of the wheels,  *)
(* 2^(WheelBits1 + (WheelNum-1)*WheelBits2), is 2^32 in the code, the      *)
(* width of the uint32 interval arithmetic, and is the width here.         *)
(*                                                                         *)
(* Two clocks: now is GetCurrentMillisec(), advanced by Tick; checkTime is *)
(* check_time_, advanced one tick per iteration of DetectTimerList's loop. *)
(* The caller keeps now within MaxLag ticks of checkTime by calling        *)
(* DetectTimerList often enough.                                           *)
(*                                                                         *)
(* A TimerNode is <<t, g>>: the timer it belongs to and one of two         *)
(* generations, as a repeating timer can own its new node while its old    *)
(* one is still on the ready list.  The doubly linked spokes and the ready *)
(* list are sequences of nodes in link order.  The user callback_ of a     *)
(* firing timer may stop or start any timer, or delete its own timer.      *)
(***************************************************************************)
EXTENDS Integers, Sequences, SequencesExt, FiniteSets

CONSTANTS
  Timers,         \* ThreadTimer objects
  RepeatTimers,   \* those constructed with TIMER_REPEAT
  Intervals,      \* intervals passed to SetInterval() before Start()
  WheelBits1,     \* WHEEL_BITS1
  WheelBits2,     \* WHEEL_BITS2
  WheelNum,       \* WHEEL_NUM
  MaxTime,        \* last value of the clock explored
  MaxLag,         \* how far now may run ahead of check_time_
  DeleteAnyTime,  \* may a callback delete its timer while it holds a node?
  NULL

ASSUME RepeatTimers \subseteq Timers /\ WheelNum >= 2
ASSUME Intervals \subseteq 0..(2^(WheelBits1 + (WheelNum - 1) * WheelBits2) - 1)

Wheels   == 0..(WheelNum - 1)
WheelSize(w) == IF w = 0 THEN 2^WheelBits1 ELSE 2^WheelBits2
Width    == 2^(WheelBits1 + (WheelNum - 1) * WheelBits2)   \* 2^32
NodeIds  == Timers \X {0, 1}

VARIABLES
  now,          \* GetCurrentMillisec()
  checkTime,    \* check_time_
  spokes,       \* wheels_[w]->spokes[j]: the nodes linked on each spoke
  spokeIndex,   \* wheels_[w]->spoke_index
  ready,        \* ready_nodes_
  deadTime,     \* TimerNode::dead_time
  timerNode,    \* ThreadTimer::timer_node_
  status,       \* ThreadTimer::status_
  interval,     \* ThreadTimer::interval_
  deleted,      \* ThreadTimer objects destroyed by their own callback
  dpc,          \* "Idle", "Loop" (DetectTimerList's loop) or "Callbacks"
  loopsLeft     \* iterations of DetectTimerList's loop still to run

vars == <<now, checkTime, spokes, spokeIndex, ready, deadTime, timerNode,
          status, interval, deleted, dpc, loopsLeft>>

(* The part of the state the TimerManager and ThreadTimer members update, *)
(* as one record the operators below pass along.                          *)
St == [spokes |-> spokes, idx |-> spokeIndex, ready |-> ready,
       dead |-> deadTime, tnode |-> timerNode, status |-> status]

Spokes == UNION {{<<w, j>> : j \in 0..(WheelSize(w) - 1)} : w \in Wheels}

Placed(s) ==
  UNION {Range(s.spokes[ws[1]][ws[2]]) : ws \in Spokes} \cup Range(s.ready)

(* The thresholds of AddTimerNode: threshold k is 2^(WHEEL_BITS1 +       *)
(* (k-1)*WHEEL_BITS2).                                                   *)
Threshold(k) == 2^(WheelBits1 + (k - 1) * WheelBits2)

WheelFor(iv) ==
  IF \E k \in 0..(WheelNum - 2) : iv < Threshold(k + 1)
  THEN CHOOSE k \in 0..(WheelNum - 2) :
         iv < Threshold(k + 1) /\ \A m \in 0..(k - 1) : iv >= Threshold(m + 1)
  ELSE WheelNum - 1

SpokeForOneEarly(iv, w, si) ==
  IF w = 0 THEN (iv + si - 1) % WheelSize(0)
  ELSE (((iv - Threshold(w) + si * Threshold(w)) % Width) \div Threshold(w))
         % WheelSize(w)

SpokeForNoBase(iv, w, si) ==
  IF w = 0 THEN (iv + si) % WheelSize(0)
  ELSE (((iv + si * Threshold(w)) % Width) \div Threshold(w)) % WheelSize(w)

SpokeFor(iv, w, si) ==
  IF w = 0 THEN (iv + si) % WheelSize(0)
  ELSE (((iv - Threshold(w) + si * Threshold(w)) % Width) \div Threshold(w))
         % WheelSize(w)

(* AddTimerNode: file the node on the spoke its interval selects,        *)
(* relative to that wheel's spoke_index, at the tail of the spoke.       *)
AddTimerNode(s, ms, n) ==
  LET w == WheelFor(ms)
      j == SpokeFor(ms, w, s.idx[w])
  IN  [s EXCEPT !.spokes[w][j] = Append(@, n)]

AddToReadyNode(s, n) == [s EXCEPT !.ready = Append(@, n)]

(* Cascade(w): empty spoke spoke_index++ of wheel w, moving the nodes    *)
(* due by the clock to the ready list and re-filing the others with the  *)
(* time they have left; after the last spoke, cascade the next wheel.    *)
RECURSIVE Cascade(_, _, _)
Cascade(s, w, clock) ==
  IF w < 1 \/ w >= WheelNum THEN s
  ELSE
    LET si    == s.idx[w]
        moved == s.spokes[w][si]
        s1    == [s EXCEPT !.idx[w] = si + 1, !.spokes[w][si] = <<>>]
        refile(acc, n) ==
          IF s.dead[n] <= clock THEN AddToReadyNode(acc, n)
          ELSE AddTimerNode(acc, (s.dead[n] - clock) % Width, n)
        s2    == FoldLeft(refile, s1, moved)
    IN  IF s2.idx[w] >= WheelSize(w)
        THEN Cascade([s2 EXCEPT !.idx[w] = 0], w + 1, clock)
        ELSE s2

(* RemoveTimer: unlink the node from whatever list holds it and free it. *)
RemoveTimer(s, n) ==
  [s EXCEPT !.spokes = [w \in Wheels |-> [j \in DOMAIN @[w] |->
                          SelectSeq(@[w][j], LAMBDA m : m # n)]],
            !.ready  = SelectSeq(@, LAMBDA m : m # n),
            !.dead[n] = 0]

(* A node of t that is neither linked anywhere nor the one being fired.  *)
NewNode(s, t, firing) ==
  CHOOSE n \in {t} \X {0, 1} : n \notin Placed(s) \cup {firing}

(* AddTimer: dead_time from the clock, then AddTimerNode. *)
AddTimer(s, ms, t, firing) ==
  LET n == NewNode(s, t, firing)
  IN  [AddTimerNode([s EXCEPT !.dead[n] = now + ms], ms, n)
         EXCEPT !.tnode[t] = n]

(* ThreadTimer::Stop *)
Stop(s, t) ==
  LET s1 == [s EXCEPT !.status[t] = "USER_CANCLE"]
  IN  IF s1.tnode[t] = NULL THEN s1
      ELSE [RemoveTimer(s1, s1.tnode[t]) EXCEPT !.tnode[t] = NULL]

(* ThreadTimer::Start: Stop(), then a fresh node for interval_. *)
Start(s, t, firing) ==
  AddTimer([Stop(s, t) EXCEPT !.status[t] = "TIME_OUT"], interval[t], t, firing)

(* ThreadTimer::Callback up to callback_(): forget the node, and restart *)
(* a repeating timer.                                                    *)
CallbackKeepsNode(s, t, firing) ==
  IF t \in RepeatTimers THEN Start(s, t, firing) ELSE s

Callback(s, t, firing) ==
  LET s1 == [s EXCEPT !.tnode[t] = NULL]
  IN  IF t \in RepeatTimers THEN Start(s1, t, firing) ELSE s1

Effects == {<<"none", NULL>>, <<"delete", NULL>>}
             \cup ({"stop", "start"} \X Timers)

(* What the user's callback_ does, on the state Callback left. *)
UserCallback(s, e, firing) ==
  CASE e[1] = "stop"  -> Stop(s, e[2])
    [] e[1] = "start" -> Start(s, e[2], firing)
    [] OTHER          -> s

Assign(s) ==
  /\ spokes' = s.spokes
  /\ spokeIndex' = s.idx
  /\ ready' = s.ready
  /\ deadTime' = s.dead
  /\ timerNode' = s.tnode
  /\ status' = s.status

-----------------------------------------------------------------------------
Init ==
  /\ now = 0
  /\ checkTime = 0
  /\ spokes = [w \in Wheels |-> [j \in 0..(WheelSize(w) - 1) |-> <<>>]]
  /\ spokeIndex = [w \in Wheels |-> 0]
  /\ ready = <<>>
  /\ deadTime = [n \in NodeIds |-> 0]
  /\ timerNode = [t \in Timers |-> NULL]
  /\ status = [t \in Timers |-> "WAITING"]
  /\ interval \in [Timers -> Intervals]
  /\ deleted = {}
  /\ dpc = "Idle"
  /\ loopsLeft = 0

(* The clock advances, as far as the caller lets it run ahead. *)
Tick ==
  /\ now < MaxTime
  /\ now + 1 - checkTime <= MaxLag
  /\ now' = now + 1
  /\ UNCHANGED <<checkTime, spokes, spokeIndex, ready, deadTime, timerNode,
                 status, interval, deleted, dpc, loopsLeft>>

(* The caller, between two DetectTimerList calls: SetInterval(i) and     *)
(* Start() on a live timer.                                              *)
ClientStart(t, i) ==
  /\ dpc = "Idle" /\ t \notin deleted
  /\ interval' = [interval EXCEPT ![t] = i]
  /\ LET s == AddTimer([Stop(St, t) EXCEPT !.status[t] = "TIME_OUT"], i, t, NULL)
     IN  Assign(s)
  /\ UNCHANGED <<now, checkTime, deleted, dpc, loopsLeft>>

(* The caller's Stop() on a live timer. *)
ClientStop(t) ==
  /\ dpc = "Idle" /\ t \notin deleted
  /\ Assign(Stop(St, t))
  /\ UNCHANGED <<now, checkTime, interval, deleted, dpc, loopsLeft>>

(* The caller destroys a stopped timer: ~ThreadTimer (thread_timer.cpp,  *)
(* lines 4-5) is empty, so the TimerManager's state is left as it is.    *)
(* The caller Stop()s first; a timer destroyed while it holds a node     *)
(* dangles as one deleted by its callback does (NoDanglingNode).         *)
ClientDelete(t) ==
  /\ dpc = "Idle" /\ t \notin deleted
  /\ timerNode[t] = NULL
  /\ deleted' = deleted \cup {t}
  /\ UNCHANGED <<now, checkTime, spokes, spokeIndex, ready, deadTime,
                 timerNode, status, interval, dpc, loopsLeft>>

(* A loop count one short of the ticks elapsed. *)
LoopNumOneShort == IF now > checkTime THEN now - checkTime - 1 ELSE 0

(* DetectTimerList, line 31: the number of ticks to catch up. *)
LoopNum == IF now > checkTime THEN now - checkTime ELSE 0

DetectStart ==
  /\ dpc = "Idle"
  /\ loopsLeft' = LoopNum
  /\ dpc' = "Loop"
  /\ UNCHANGED <<now, checkTime, spokes, spokeIndex, ready, deadTime,
                 timerNode, status, interval, deleted>>

DetectStepNoWrap ==
  /\ dpc = "Loop" /\ loopsLeft > 0
  /\ LET si == spokeIndex[0]
     IN  Assign([St EXCEPT !.ready = @ \o spokes[0][si],
                           !.spokes[0][si] = <<>>,
                           !.idx[0] = si + 1])
  /\ checkTime' = checkTime + 1
  /\ loopsLeft' = loopsLeft - 1
  /\ UNCHANGED <<now, interval, deleted, dpc>>

(* One iteration of DetectTimerList's loop: the current spoke of wheel 0 *)
(* goes to the ready list, spoke_index moves on, and at the end of wheel *)
(* 0 the higher wheels cascade; then check_time_ advances.               *)
DetectStep ==
  /\ dpc = "Loop" /\ loopsLeft > 0
  /\ LET si == spokeIndex[0]
         s1 == [St EXCEPT !.ready = @ \o spokes[0][si],
                          !.spokes[0][si] = <<>>,
                          !.idx[0] = si + 1]
         s2 == IF s1.idx[0] >= WheelSize(0)
               THEN Cascade([s1 EXCEPT !.idx[0] = 0], 1, now)
               ELSE s1
     IN  Assign(s2)
  /\ checkTime' = checkTime + 1
  /\ loopsLeft' = loopsLeft - 1
  /\ UNCHANGED <<now, interval, deleted, dpc>>

DetectLoopDone ==
  /\ dpc = "Loop" /\ loopsLeft = 0
  /\ dpc' = "Callbacks"
  /\ UNCHANGED <<now, checkTime, spokes, spokeIndex, ready, deadTime,
                 timerNode, status, interval, deleted, loopsLeft>>

(* One iteration of DoTimeOutCallback: the timer's Callback() (which     *)
(* ends in the user's callback_), then on to the next node and delete    *)
(* this one.                                                             *)
FireNext(e) ==
  /\ dpc = "Callbacks" /\ ready # <<>>
  /\ LET n  == Head(ready)
         t  == n[1]
         s1 == Callback(St, t, n)
         s2 == UserCallback(s1, e, n)
     IN  /\ e[1] = "delete" => (DeleteAnyTime \/ s2.tnode[t] = NULL)
         /\ e[1] \in {"stop", "start"} => e[2] \notin deleted
         /\ Assign([s2 EXCEPT !.ready = SelectSeq(@, LAMBDA m : m # n),
                             !.dead[n] = 0])
         /\ deleted' = IF e[1] = "delete" THEN deleted \cup {t} ELSE deleted
  /\ UNCHANGED <<now, checkTime, interval, dpc, loopsLeft>>

(* The ready list is reset and DetectTimerList returns. *)
CallbacksDone ==
  /\ dpc = "Callbacks" /\ ready = <<>>
  /\ dpc' = "Idle"
  /\ UNCHANGED <<now, checkTime, spokes, spokeIndex, ready, deadTime,
                 timerNode, status, interval, deleted, loopsLeft>>

Next ==
  \/ Tick
  \/ \E t \in Timers, i \in Intervals : ClientStart(t, i)
  \/ \E t \in Timers : ClientStop(t)
  \/ \E t \in Timers : ClientDelete(t)
  \/ DetectStart \/ DetectStep \/ DetectLoopDone
  \/ \E e \in Effects : FireNext(e)
  \/ CallbacksDone

Spec == Init /\ [][Next]_vars

(* The clock keeps running, and the program calls DetectTimerList again   *)
(* and again (the loop of timer_manager_test.cpp), each call running to   *)
(* its end; the client's Start, Stop and delete are not assumed to occur. *)
FairSpec ==
  /\ Spec
  /\ WF_vars(Tick)
  /\ WF_vars(DetectStart) /\ WF_vars(DetectStep) /\ WF_vars(DetectLoopDone)
  /\ WF_vars(\E e \in Effects : FireNext(e)) /\ WF_vars(CallbacksDone)

-----------------------------------------------------------------------------
TypeOK ==
  /\ now \in 0..MaxTime /\ checkTime \in 0..now
  /\ DOMAIN spokes = Wheels
  /\ \A w \in Wheels : spokes[w] \in [0..(WheelSize(w) - 1) -> Seq(NodeIds)]
  /\ spokeIndex \in [Wheels -> Nat]
  /\ \A w \in Wheels : spokeIndex[w] < WheelSize(w)
  /\ ready \in Seq(NodeIds)
  /\ timerNode \in [Timers -> NodeIds \cup {NULL}]
  /\ status \in [Timers -> {"WAITING", "TIME_OUT", "USER_CANCLE"}]
  /\ dpc \in {"Idle", "Loop", "Callbacks"} /\ loopsLeft \in Nat

(* Every TimerNode is linked exactly once, on a spoke or the ready list,  *)
(* and the linked nodes are exactly the timer_node_ of the timers: no     *)
(* Start, Stop, Cascade re-filing or callback (which may start and stop   *)
(* timers while DoTimeOutCallback walks the ready list) loses a node,     *)
(* links one twice, or leaves one behind that its timer no longer owns.   *)
NodesAccounted ==
  /\ FoldSet(LAMBDA ws, acc : acc + Len(spokes[ws[1]][ws[2]]), Len(ready), Spokes)
       = Cardinality(Placed(St))
  /\ Placed(St) = {timerNode[t] : t \in Timers} \ {NULL}

(* No timer fires early: a node reaches the ready list, whose callbacks   *)
(* DetectTimerList runs before it returns, only once the clock has        *)
(* reached its dead_time (the test Cascade itself applies, line 87).      *)
NoEarlyFire == \A n \in Range(ready) : deadTime[n] <= now

(* No timer is left behind: once DetectTimerList has caught check_time_   *)
(* up with the clock and returned, every node still on a wheel is due no  *)
(* earlier than now.                                                      *)
NoOverdueTimer ==
  dpc = "Idle" /\ checkTime = now => \A n \in Placed(St) : deadTime[n] >= now

(* Every node on the wheel belongs to a live ThreadTimer, so the          *)
(* Callback() DoTimeOutCallback makes through node->timer is on a live    *)
(* object, as the comment at thread_timer.cpp:28 ("timer may be deleted   *)
(* in callback_()") promises for a callback that deletes its timer.       *)
NoDanglingNode == \A n \in Placed(St) : n[1] \notin deleted

(* DetectTimerList, called again and again, keeps catching check_time_   *)
(* up with the clock: its loop runs exactly the ticks elapsed (line 31),  *)
(* and no callback started or stopped on the way keeps it from returning. *)
(* With NoOverdueTimer, which holds in the states this names, every node  *)
(* whose dead_time the clock passes is fired or was stopped.              *)
CatchesUp == []<>(dpc = "Idle" /\ checkTime = now)

=============================================================================
