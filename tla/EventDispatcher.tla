--------------------------- MODULE EventDispatcher ---------------------------
(***************************************************************************)
(* Dispatcher and Subscriber of src/event_dispatcher.  subscribers_ maps a *)
(* descriptor to a std::vector of SlotHandles; a handle is its id here,    *)
(* since a slot's effect is chosen when it is called.  Post walks the      *)
(* vector with a range-for, which caches begin() and end() at the start,   *)
(* and calls each slot synchronously; a slot may itself Subscribe or       *)
(* UnSubscribe, re-entering the dispatcher in the middle of that walk.     *)
(*                                                                         *)
(* The vector's storage is modelled by its capacity and a generation that  *)
(* changes when emplace_back reallocates (libstdc++ grows a full vector of *)
(* size n to n + max(n, 1)); erase never shrinks the capacity.  An         *)
(* iterator is valid while the generation is the one it was taken from and *)
(* it points below the current size.                                       *)
(*                                                                         *)
(* A slot may Subscribe to, or UnSubscribe a handle of, another           *)
(* descriptor, and may Subscribe to the descriptor being posted while its *)
(* vector has spare capacity: emplace_back then writes past the cached    *)
(* end without moving the elements, and with libstdc++ the range-for goes  *)
(* on over the same storage up to the end it cached.  The two other cases  *)
(* are left out: emplace_back reallocating the vector being walked, and    *)
(* erase shrinking it, make the next ++it undefined behaviour.             *)
(***************************************************************************)
EXTENDS Naturals, Sequences, FiniteSets, SequencesExt, Functions

CONSTANTS Descriptors, MaxIds, NONE

Ids == 0..(MaxIds - 1)

VARIABLES
  keys,        \* descriptors with an entry in subscribers_
  subs,        \* subscribers_[d]: the ids of its SlotHandles, in order
  cap,         \* capacity of each vector
  gen,         \* storage generation of each vector
  nextId,      \* next_id_
  postD,       \* descriptor Post is walking, or NONE outside Post
  it,          \* Post's iterator, as an index into the vector
  end,         \* the end() Post cached
  buf,         \* generation the iterators were taken from
  active,      \* history: ids subscribed and not yet unsubscribed
  descOf,      \* history: the descriptor each id was subscribed to
  startActive, \* history: ids of postD active when Post began
  called       \* history: ids Post has called, in order

vars == <<keys, subs, cap, gen, nextId, postD, it, end, buf, active, descOf,
          startActive, called>>

Init ==
  /\ keys = {}
  /\ subs = [d \in Descriptors |-> <<>>]
  /\ cap = [d \in Descriptors |-> 0]
  /\ gen = [d \in Descriptors |-> 0]
  /\ nextId = 0
  /\ postD = NONE
  /\ it = 0 /\ end = 0 /\ buf = 0
  /\ active = {}
  /\ descOf = [i \in Ids |-> NONE]
  /\ startActive = {}
  /\ called = <<>>

(* Subscribe, lines 6-10: the handle takes next_id_++ and is appended to *)
(* subscribers_[descriptor], creating the entry if needed; the vector    *)
(* reallocates when it is full.                                          *)
SubscribeOp(d) ==
  /\ nextId < MaxIds
  /\ keys' = keys \cup {d}
  /\ subs' = [subs EXCEPT ![d] = Append(@, nextId)]
  /\ IF Len(subs[d]) = cap[d]
       THEN /\ cap' = [cap EXCEPT ![d] = @ + (IF @ = 0 THEN 1 ELSE @)]
            /\ gen' = [gen EXCEPT ![d] = @ + 1]
       ELSE UNCHANGED <<cap, gen>>
  /\ nextId' = nextId + 1
  /\ active' = active \cup {nextId}
  /\ descOf' = [descOf EXCEPT ![nextId] = d]

(* remove_if without the erase: the kept handles are moved to the front  *)
(* and the vector keeps its old size, its tail still holding handles.    *)
RemoveIfOnly(s, i) ==
  LET kept == Remove(s, i) IN kept \o SubSeq(s, Len(kept) + 1, Len(s))

(* The erase-remove idiom of lines 16-20 on one vector. *)
EraseRemove(s, i) == Remove(s, i)

(* UnSubscribe, lines 12-22: every vector drops the handles with that id; *)
(* capacities and storage stay.  A Subscriber's UnSubscribe (subscriber.cpp *)
(* lines 4-8) forwards here; a default-constructed one has no dispatcher   *)
(* and does nothing.                                                       *)
UnSubscribeOp(i) ==
  /\ subs' = [d \in Descriptors |-> IF d \in keys THEN EraseRemove(subs[d], i)
                                                  ELSE subs[d]]
  /\ active' = active \ {i}
  /\ UNCHANGED <<keys, cap, gen, nextId, descOf>>

PostVars == <<postD, it, end, buf, startActive, called>>

(* The caller subscribes a slot to d outside any Post. *)
Subscribe(d) ==
  /\ postD = NONE
  /\ SubscribeOp(d)
  /\ UNCHANGED PostVars

(* The caller unsubscribes one of the handles it was given. *)
UnSubscribe(i) ==
  /\ postD = NONE /\ i < nextId
  /\ UnSubscribeOp(i)
  /\ UNCHANGED PostVars

(* Post, lines 24-33: return at once when subscribers_ has no entry for *)
(* the type; otherwise take the vector and start the range-for, caching *)
(* its begin and end.                                                   *)
PostStart(d) ==
  /\ postD = NONE
  /\ d \in keys
  /\ postD' = d /\ it' = 0 /\ end' = Len(subs[d]) /\ buf' = gen[d]
  /\ startActive' = {i \in active : descOf[i] = d}
  /\ called' = <<>>
  /\ UNCHANGED <<keys, subs, cap, gen, nextId, active, descOf>>

(* What a slot may do to the dispatcher while it runs. *)
SlotEffects ==
  {<<"none">>}
  \cup {<<"sub", d>> : d \in {x \in Descriptors : x # postD \/ Len(subs[x]) < cap[x]}}
  \cup {<<"unsub", i>> : i \in {x \in 0..(nextId - 1) : descOf[x] # postD}}

(* A loop that reads the vector's size at every pass instead of the end  *)
(* the range-for cached at line 33.                                      *)
LoopEndLive == Len(subs[postD])

(* The bound of the range-for of line 33: the end() cached when it began. *)
LoopEnd == end

(* Post, line 34: call the slot *it, which runs to completion with effect *)
(* e, then ++it.  The iterator must be valid to be dereferenced.          *)
PostCall(e) ==
  LET cur == subs[postD][it + 1] IN
  /\ postD # NONE /\ it < LoopEnd
  /\ gen[postD] = buf /\ it < Len(subs[postD])
  /\ called' = Append(called, cur)
  /\ it' = it + 1
  /\ CASE e[1] = "none"  -> UNCHANGED <<keys, subs, cap, gen, nextId, active,
                                         descOf>>
       [] e[1] = "sub"   -> SubscribeOp(e[2])
       [] e[1] = "unsub" -> UnSubscribeOp(e[2])
  /\ UNCHANGED <<postD, end, buf, startActive>>

(* The range-for reaches the end it cached and Post returns. *)
PostEnd ==
  /\ postD # NONE /\ it = LoopEnd
  /\ postD' = NONE
  /\ UNCHANGED <<keys, subs, cap, gen, nextId, it, end, buf, active, descOf,
                 startActive, called>>

Next ==
  \/ \E d \in Descriptors : Subscribe(d) \/ PostStart(d)
  \/ \E i \in Ids : UnSubscribe(i)
  \/ postD # NONE /\ \E e \in SlotEffects : PostCall(e)
  \/ PostEnd

Spec == Init /\ [][Next]_vars

-----------------------------------------------------------------------------
(* The vectors hold exactly the subscriptions made and not unsubscribed, *)
(* each once, under its own descriptor and in subscription order: ids    *)
(* from next_id_++ are distinct, and UnSubscribe's erase-remove over     *)
(* every entry removes that handle and nothing else.                     *)
HandlesMatchSubscriptions ==
  \A d \in Descriptors :
    /\ ToSet(subs[d]) = {i \in active : descOf[i] = d}
    /\ IsSorted(subs[d], <)

(* Post calls each slot subscribed to the type when it began exactly once *)
(* and in subscription order, whatever the slots subscribe to or         *)
(* unsubscribe from other types while it runs; a slot that a slot        *)
(* subscribes to the same type during the Post is not called by it.      *)
PostDeliversSnapshot ==
  postD # NONE =>
    /\ IsSorted(called, <)
    /\ ToSet(called) \subseteq startActive
    /\ it = end => ToSet(called) = startActive

=============================================================================
