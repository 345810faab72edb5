--------------------------- MODULE CircularBuffer ---------------------------
(***************************************************************************)
(* CircularBuffer<T> of src/circular_buffer/circular_buffer.h.  The buffer *)
(* is a raw array of capacity_ slots obtained from the allocator; front_   *)
(* points at the oldest element or is nullptr when the buffer is empty,    *)
(* back_ at the slot the next PushBack constructs into.  Pointers are      *)
(* slot indices here, and nullptr is NULL.                                 *)
(*                                                                         *)
(* Object lifetimes are kept explicitly: live[i] counts the objects        *)
(* constructed in slot i and not yet destroyed (allocator_.construct and   *)
(* allocator_.destroy), and a destroyed or never-constructed slot holds    *)
(* GARBAGE.  The read-only members (Size, Empty, Front, Back, operator[],  *)
(* At and the iterator, which is operator[] over 0..Size()-1) are          *)
(* operators over the state.                                               *)
(***************************************************************************)
EXTENDS Integers, Sequences, FiniteSets

CONSTANTS
  Capacities,  \* capacities the buffer may be constructed with
  Values,      \* values pushed
  NULL,        \* nullptr
  GARBAGE      \* contents of a slot holding no live object

ASSUME Capacities \subseteq Nat \ {0}

VARIABLES
  capacity,    \* capacity_ (const after construction)
  slot,        \* buffer_[0 .. capacity_-1]
  live,        \* objects alive in each slot
  front,       \* front_
  back,        \* back_
  allocated    \* buffer_ is still allocated: the destructor has not run

vars == <<capacity, slot, live, front, back, allocated>>

Index == 0..(capacity - 1)

(* Constructor (lines 86-94): allocate without constructing, front_ =    *)
(* nullptr, back_ = buffer_.                                             *)
Init ==
  /\ capacity \in Capacities
  /\ slot = [i \in Index |-> GARBAGE]
  /\ live = [i \in Index |-> 0]
  /\ front = NULL
  /\ back = 0
  /\ allocated = TRUE

IncrementPastEnd(ptr, by) ==
  IF ptr + by > capacity THEN ptr + by - capacity ELSE ptr + by

(* Increment: wraps at most once. *)
Increment(ptr, by) ==
  IF ptr + by >= capacity THEN ptr + by - capacity ELSE ptr + by

Decrement(ptr, by) ==
  IF ptr >= by THEN ptr - by ELSE ptr + (capacity - by)

Empty == front = NULL

SizeFullAsEmpty ==
  IF front = NULL THEN 0
  ELSE (IF back >= front THEN back ELSE back + capacity) - front

Size ==
  IF front = NULL THEN 0
  ELSE (IF back > front THEN back ELSE back + capacity) - front

(* operator[](n): no range check. *)
Subscript(n) == slot[Increment(front, n)]

(* At(n): throws out_of_range when n >= Size(). *)
At(n) == IF n >= Size THEN "out_of_range" ELSE Subscript(n)

Front == slot[front]

Back == slot[Decrement(back, 1)]

Construct(s, l, p, v) == <<[s EXCEPT ![p] = v], [l EXCEPT ![p] = @ + 1]>>

Destroy(s, l, p) == <<[s EXCEPT ![p] = GARBAGE], [l EXCEPT ![p] = @ - 1]>>

PushBackNoDestroy(v) ==
  LET c    == Construct(slot, live, back, v)
      next == Increment(back, 1)
  IN  /\ slot' = c[1]
      /\ live' = c[2]
      /\ \/ front = NULL  /\ front' = back /\ back' = next
         \/ front = back  /\ front' = next /\ back' = next
         \/ front \notin {NULL, back} /\ back' = next /\ UNCHANGED front
      /\ UNCHANGED capacity

(* PushBack: on a full buffer (front_ == back_) the oldest element is    *)
(* destroyed and overwritten, and front_ moves on with back_.            *)
PushBack(v) ==
  LET d    == IF front # NULL /\ front = back THEN Destroy(slot, live, back)
                                              ELSE <<slot, live>>
      c    == Construct(d[1], d[2], back, v)
      next == Increment(back, 1)
  IN  /\ slot' = c[1]
      /\ live' = c[2]
      /\ \/ front = NULL  /\ front' = back /\ back' = next
         \/ front = back  /\ front' = next /\ back' = next
         \/ front \notin {NULL, back} /\ back' = next /\ UNCHANGED front
      /\ UNCHANGED capacity

PopFrontNoEmptyCheck ==
  LET d    == Destroy(slot, live, front)
  IN  /\ front # NULL
      /\ slot' = d[1]
      /\ live' = d[2]
      /\ front' = Increment(front, 1)
      /\ UNCHANGED <<capacity, back>>

(* PopFront: destroys *front_ and advances it, emptying the buffer when  *)
(* it reaches back_.  On an empty buffer it dereferences nullptr; the    *)
(* caller's precondition !Empty() is the guard.                          *)
PopFront ==
  LET d    == Destroy(slot, live, front)
      next == Increment(front, 1)
  IN  /\ front # NULL
      /\ slot' = d[1]
      /\ live' = d[2]
      /\ front' = IF next = back THEN NULL ELSE next
      /\ UNCHANGED <<capacity, back>>

(* The slots Clear's do-while loop destroys, starting at p: it destroys  *)
(* p, steps, and stops once the cursor reaches back_.                    *)
RECURSIVE ClearedFrom(_, _)
ClearedFrom(p, fuel) ==
  IF fuel = 0 THEN {}
  ELSE {p} \cup (IF Increment(p, 1) = back THEN {}
                 ELSE ClearedFrom(Increment(p, 1), fuel - 1))

(* Clear: destroys every element front_ .. back_ and sets front_ to      *)
(* nullptr; back_ stays where it is.                                     *)
Clear ==
  LET gone == IF front = NULL THEN {} ELSE ClearedFrom(front, capacity)
  IN  /\ slot' = [i \in Index |-> IF i \in gone THEN GARBAGE ELSE slot[i]]
      /\ live' = [i \in Index |-> IF i \in gone THEN live[i] - 1 ELSE live[i]]
      /\ front' = NULL
      /\ UNCHANGED <<capacity, back>>

(* ~CircularBuffer (lines 96-100): Clear(), then the array goes back to *)
(* the allocator.  Nothing runs on the buffer afterwards.                 *)
Destructor ==
  /\ allocated
  /\ Clear
  /\ allocated' = FALSE

Next ==
  \/ /\ allocated
     /\ (\E v \in Values : PushBack(v)) \/ PopFront \/ Clear
     /\ UNCHANGED allocated
  \/ Destructor

Spec == Init /\ [][Next]_vars

-----------------------------------------------------------------------------
(* The elements in FIFO order as the code hands them out: operator[] over *)
(* 0 .. Size()-1, which is also what begin() .. end() iterates.           *)
Contents == [i \in 1..Size |-> Subscript(i - 1)]

(* Every pointer stays inside the allocated array and every count is     *)
(* within the capacity.                                                  *)
TypeOK ==
  /\ capacity \in Capacities
  /\ slot \in [Index -> Values \cup {GARBAGE}]
  /\ live \in [Index -> Int]
  /\ front \in Index \cup {NULL}
  /\ back \in Index
  /\ Size \in 0..capacity
  /\ allocated \in BOOLEAN

(* The slots holding a live object are exactly the Size() slots from     *)
(* front_ on, each holding one: PushBack's overwrite of a full buffer,   *)
(* PopFront and Clear neither leak an object, destroy one twice, nor     *)
(* construct over a live one.                                            *)
LifetimesMatch ==
  \A i \in Index :
    live[i] = IF \E n \in 0..(Size - 1) : Increment(front, n) = i THEN 1 ELSE 0

(* The accessors agree with each other on every reachable buffer: Empty()*)
(* iff Size() is 0, Front() and Back() are the first and last of         *)
(* operator[] 0 .. Size()-1, and At() returns a live object for every   *)
(* index it does not reject.                                             *)
ReadsAgree ==
  /\ Empty <=> Size = 0
  /\ \A n \in 0..(Size - 1) : At(n) \in Values
  /\ Size > 0 => Front = Contents[1] /\ Back = Contents[Size]

=============================================================================
