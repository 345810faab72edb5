------------------------------ MODULE SkipList ------------------------------
(***************************************************************************)
(* The ordered index of src/skip_list/skip_list.h: one writer running      *)
(* Insert() (externally serialised, as the header's "Thread safety" note   *)
(* requires) and lock-free readers running Contains() and the Iterator     *)
(* operations, interleaved one memory access at a time.                    *)
(*                                                                         *)
(* Every forward link is one AtomicPointer slot.  The x86 build of         *)
(* atomic_pointer.h makes Release_Store a compiler barrier followed by the *)
(* store and Acquire_Load the load followed by a barrier; on x86 (TSO)     *)
(* that orders the writer's stores and the reader's loads, so each slot    *)
(* access is one atomic step here.  Node memory comes from the Arena and   *)
(* is not zeroed: the links of a fresh node hold UNINIT until the writer   *)
(* stores them, and a reader that loads UNINIT has followed garbage.       *)
(*                                                                         *)
(* The random height is a nondeterministic choice in 1..MaxHeight (the     *)
(* code's kMaxHeight, 12, scaled down); keys are a small set of integers   *)
(* compared with <, standing for the comparator.                           *)
(***************************************************************************)
EXTENDS Integers, FiniteSets, SequencesExt

CONSTANTS
  Keys,       \* keys the caller inserts (each at most once: Insert's precondition)
  Targets,    \* arguments readers pass to Contains() and Seek()
  MaxHeight,  \* kMaxHeight
  Readers,    \* reader threads
  NIL,        \* nullptr
  UNINIT      \* contents of a link slot of a freshly allocated node

ASSUME Keys \subseteq Int /\ Targets \subseteq Int /\ Keys # {}
ASSUME MaxHeight \in 1..12
ASSUME {NIL, UNINIT} \cap Int = {}

HeadNode  == 0                           \* head_, built by NewNode(0, kMaxHeight)
Node  == 0..Cardinality(Keys)        \* head_ and arena nodes in allocation order
Level == 0..(MaxHeight - 1)
Link  == Node \cup {NIL, UNINIT}

VARIABLES
  key,        \* Node::key
  height,     \* levels a node was allocated with (NewNode's height)
  next,       \* Node::next_[level]: the AtomicPointer slots
  maxHeight,  \* max_height_
  allocated,  \* number of nodes handed out by the arena (head_ excluded)
  wpc,        \* writer: "Idle", or inside Insert's linking loop
  wx,         \* writer: the node x being inserted
  wprev,      \* writer: Node* prev[kMaxHeight]
  wlevel,     \* writer: loop index i of the linking loop
  rpc,        \* reader: "Idle" or "Busy" (inside a descent)
  rop,        \* reader: the operation in progress or last completed
  rarg,       \* reader: its key argument
  rnode,      \* reader: Iterator::node_
  rx,         \* reader: local x of the descent
  rlevel,     \* reader: local level of the descent
  rres,       \* reader: result of the last operation: a key or NIL, where
              \* Contains(k) returning true is recorded as k
  rlin        \* history: answers the operation may give, one per abstract
              \* set the level-0 list held while it ran

writerVars == <<wpc, wx, wprev, wlevel>>
readerVars == <<rpc, rop, rarg, rnode, rx, rlevel, rres>>
vars == <<key, height, next, maxHeight, allocated, writerVars, readerVars, rlin>>

-----------------------------------------------------------------------------
(* The lists of the structure, read off the links.                         *)

RECURSIVE ChainFrom(_, _, _, _)
\* The nodes after x at level lvl under links nxt, at most fuel of them.
ChainFrom(nxt, x, lvl, fuel) ==
  IF fuel = 0 \/ nxt[x][lvl] \notin Node THEN <<>>
  ELSE <<nxt[x][lvl]>> \o ChainFrom(nxt, nxt[x][lvl], lvl, fuel - 1)

LevelChain(nxt, lvl) == ChainFrom(nxt, HeadNode, lvl, Cardinality(Node))

\* The keys a reader can reach on level 0: the abstract set.
KeysOf(nxt) == { key[n] : n \in ToSet(LevelChain(nxt, 0)) }

Level0Keys == KeysOf(next)

KeyOf(n) == IF n = NIL THEN NIL ELSE key[n]

MinOr(S) == IF S = {} THEN NIL ELSE Min(S)
MaxOr(S) == IF S = {} THEN NIL ELSE Max(S)

\* What each read operation answers on the ordered set S (the spec, 4.3).
\* Every answer is a key or NIL; Contains(arg) answering true is arg.
AbsAnswer(op, arg, S) ==
  CASE op = "Contains"    -> IF arg \in S THEN arg ELSE NIL
    [] op = "Seek"        -> MinOr({s \in S : s >= arg})
    [] op = "SeekToFirst" -> MinOr(S)
    [] op = "SeekToLast"  -> MaxOr(S)
    [] op = "Next"        -> MinOr({s \in S : s > arg})
    [] op = "Prev"        -> MaxOr({s \in S : s < arg})

-----------------------------------------------------------------------------
(* Helpers of the code.                                                    *)

\* Mutation: the comparison made non-strict (<= for <).
KeyIsAtOrAfterNode(k, n) == n # NIL /\ key[n] <= k

(* Node's links are AtomicPointers (atomic_pointer.h, the x86 build): rep_ *)
(* is one machine word, so each load or store of it is one indivisible    *)
(* step.  Acquire_Load and Release_Store add a compiler barrier that keeps *)
(* them in program order, and x86 keeps loads in order and stores in      *)
(* order, so the NoBarrier and the barrier forms are the same step here.  *)
LoadNext(n, l) == next[n][l]

StoreNext(n, l, v) == next' = [next EXCEPT ![n][l] = v]

\* KeyIsAfterNode(key, n): n != nullptr && compare_(n->key, key) < 0
KeyIsAfterNode(k, n) == n # NIL /\ key[n] < k

RECURSIVE FindPrevFrom(_, _, _, _)
\* FindGreaterOrEqual(key, prev) run by the writer, returning prev.  Only
\* the writer stores links, so its own descent reads a stable structure and
\* is one step.  Levels the descent does not visit keep head_, which is
\* what Insert stores in prev[i] for the levels above GetMaxHeight().
FindPrevFrom(k, x, lvl, prev) ==
  LET nx == LoadNext(x, lvl) IN
  IF KeyIsAfterNode(k, nx) THEN FindPrevFrom(k, nx, lvl, prev)
  ELSE IF lvl = 0 THEN [prev EXCEPT ![0] = x]
  ELSE FindPrevFrom(k, x, lvl - 1, [prev EXCEPT ![lvl] = x])

\* Mutation: RandomHeight's loop bound written height <= kMaxHeight.
RandomHeightsPastMax == 1..(MaxHeight + 1)

\* RandomHeight(): 1, raised with probability 1/kBranching up to kMaxHeight.
RandomHeights == 1..MaxHeight

\* Each reader with a descent in progress may linearise at the new state.
Observe ==
  rlin' = [r \in Readers |->
             IF rpc[r] = "Busy"
             THEN rlin[r] \cup {AbsAnswer(rop[r], rarg[r], KeysOf(next'))}
             ELSE rlin[r]]

-----------------------------------------------------------------------------
Init ==
  /\ key       = [n \in Node |-> NIL]
  /\ height    = [n \in Node |-> IF n = HeadNode THEN MaxHeight ELSE 0]
  /\ next      = [n \in Node |-> [l \in Level |-> IF n = HeadNode THEN NIL ELSE UNINIT]]
  /\ maxHeight = 1
  /\ allocated = 0
  /\ wpc = "Idle" /\ wx = HeadNode /\ wprev = [l \in Level |-> HeadNode] /\ wlevel = 0
  /\ rpc   = [r \in Readers |-> "Idle"]
  /\ rop   = [r \in Readers |-> "None"]
  /\ rarg  = [r \in Readers |-> NIL]
  /\ rnode = [r \in Readers |-> NIL]
  /\ rx    = [r \in Readers |-> HeadNode]
  /\ rlevel = [r \in Readers |-> 0]
  /\ rres  = [r \in Readers |-> NIL]
  /\ rlin  = [r \in Readers |-> {}]

\* Mutation: the linking loop publishes x before storing x's own links.
InsertFindPublishFirst(k) ==
  /\ wpc = "Idle"
  /\ allocated < Cardinality(Keys)
  /\ k \notin { key[n] : n \in 1..allocated }
  /\ \E h \in RandomHeights :
       LET x == allocated + 1 IN
       /\ wprev' = FindPrevFrom(k, HeadNode, maxHeight - 1, [l \in Level |-> HeadNode])
       /\ maxHeight' = IF h > maxHeight THEN h ELSE maxHeight
       /\ allocated' = x
       /\ key' = [key EXCEPT ![x] = k]
       /\ height' = [height EXCEPT ![x] = h]
       /\ wx' = x
       /\ wlevel' = 0
       /\ wpc' = "Link"
  /\ UNCHANGED <<next, readerVars, rlin>>

(* Insert(key), up to its linking loop: FindGreaterOrEqual, the duplicate  *)
(* assertion (the precondition: k was never inserted), RandomHeight, the   *)
(* relaxed store raising max_height_, and NewNode from the arena.  Of      *)
(* these only the max_height_ store is visible to readers.                 *)
InsertFind(k) ==
  /\ wpc = "Idle"
  /\ allocated < Cardinality(Keys)
  /\ k \notin { key[n] : n \in 1..allocated }
  /\ \E h \in RandomHeights :
       LET x == allocated + 1 IN
       /\ wprev' = FindPrevFrom(k, HeadNode, maxHeight - 1, [l \in Level |-> HeadNode])
       /\ maxHeight' = IF h > maxHeight THEN h ELSE maxHeight
       /\ allocated' = x
       /\ key' = [key EXCEPT ![x] = k]
       /\ height' = [height EXCEPT ![x] = h]
       /\ wx' = x
       /\ wlevel' = 0
       /\ wpc' = "SetNext"
  /\ UNCHANGED <<next, readerVars, rlin>>

\* Mutation: x's link at level i copied from prev[i]'s level-0 slot.
InsertSetNextLevelZero ==
  /\ wpc = "SetNext"
  /\ next' = [next EXCEPT ![wx][wlevel] = next[wprev[wlevel]][0]]
  /\ wpc' = "Link"
  /\ Observe
  /\ UNCHANGED <<key, height, maxHeight, allocated, wx, wprev, wlevel, readerVars>>

\* Mutation: x's link set to nullptr instead of prev[i]'s successor.
InsertSetNextNull ==
  /\ wpc = "SetNext"
  /\ next' = [next EXCEPT ![wx][wlevel] = NIL]
  /\ wpc' = "Link"
  /\ Observe
  /\ UNCHANGED <<key, height, maxHeight, allocated, wx, wprev, wlevel, readerVars>>

(* x->NoBarrier_SetNext(i, prev[i]->Nobarrier_Next(i))                    *)
InsertSetNext ==
  /\ wpc = "SetNext"
  /\ StoreNext(wx, wlevel, LoadNext(wprev[wlevel], wlevel))
  /\ wpc' = "Link"
  /\ Observe
  /\ UNCHANGED <<key, height, maxHeight, allocated, wx, wprev, wlevel, readerVars>>

(* prev[i]->SetNext(i, x): the release store publishing x at level i; the  *)
(* loop ends after level height-1.                                         *)
InsertLink ==
  /\ wpc = "Link"
  /\ StoreNext(wprev[wlevel], wlevel, wx)
  /\ IF wlevel + 1 = height[wx]
       THEN wpc' = "Idle" /\ UNCHANGED wlevel
       ELSE wpc' = "SetNext" /\ wlevel' = wlevel + 1
  /\ Observe
  /\ UNCHANGED <<key, height, maxHeight, allocated, wx, wprev, readerVars>>

-----------------------------------------------------------------------------
(* Readers.  A descent (FindGreaterOrEqual, FindLessThan, FindLast) starts *)
(* at head_ on level GetMaxHeight()-1, a relaxed load of max_height_, and  *)
(* takes one acquire load x->Next(level) per step.                         *)

Set(f, r, v) == [f EXCEPT ![r] = v]

StartDescent(r, op, arg) ==
  /\ rpc' = Set(rpc, r, "Busy")
  /\ rop' = Set(rop, r, op)
  /\ rarg' = Set(rarg, r, arg)
  /\ rx' = Set(rx, r, HeadNode)
  /\ rlevel' = Set(rlevel, r, maxHeight - 1)
  /\ rlin' = Set(rlin, r, {AbsAnswer(op, arg, Level0Keys)})
  /\ UNCHANGED <<key, height, next, maxHeight, allocated, writerVars, rnode, rres>>

\* Contains(key) and Iterator::Seek(target): FindGreaterOrEqual(key, nullptr).
CallFindGreaterOrEqual(r) ==
  /\ rpc[r] = "Idle"
  /\ \E op \in {"Contains", "Seek"}, t \in Targets : StartDescent(r, op, t)

\* Iterator::Prev(): assert(Valid()); FindLessThan(node_->key).
CallPrev(r) ==
  /\ rpc[r] = "Idle"
  /\ rnode[r] # NIL
  /\ StartDescent(r, "Prev", key[rnode[r]])

\* Iterator::SeekToLast(): FindLast().
CallSeekToLast(r) ==
  /\ rpc[r] = "Idle"
  /\ StartDescent(r, "SeekToLast", NIL)

\* Whether the descent moves right past nx instead of dropping a level.
\* FindGreaterOrEqual advances while KeyIsAfterNode(key, next); FindLessThan
\* stops when next == nullptr || next->key >= key, the same test; FindLast
\* advances while next != nullptr.
Advances(r, nx) ==
  IF rop[r] = "SeekToLast" THEN nx # NIL ELSE KeyIsAfterNode(rarg[r], nx)

\* Loaded link of the reader's current step.
Loaded(r) == LoadNext(rx[r], rlevel[r])

\* A state in which a reader is about to load an unset slot violates
\* NoUninitializedRead; the steps below load set slots only.
ReaderAdvance(r) ==
  /\ rpc[r] = "Busy"
  /\ Loaded(r) # UNINIT
  /\ Advances(r, Loaded(r))
  /\ rx' = Set(rx, r, Loaded(r))
  /\ UNCHANGED <<key, height, next, maxHeight, allocated, writerVars,
                 rpc, rop, rarg, rnode, rlevel, rres, rlin>>

\* Mutation: the descent's level-- dropped.
ReaderDescendNoDecrement(r) ==
  /\ rpc[r] = "Busy"
  /\ Loaded(r) # UNINIT
  /\ ~Advances(r, Loaded(r))
  /\ rlevel[r] > 0
  /\ rlevel' = rlevel
  /\ UNCHANGED <<key, height, next, maxHeight, allocated, writerVars,
                 rpc, rop, rarg, rnode, rx, rres, rlin>>

ReaderDescend(r) ==
  /\ rpc[r] = "Busy"
  /\ Loaded(r) # UNINIT
  /\ ~Advances(r, Loaded(r))
  /\ rlevel[r] > 0
  /\ rlevel' = Set(rlevel, r, rlevel[r] - 1)
  /\ UNCHANGED <<key, height, next, maxHeight, allocated, writerVars,
                 rpc, rop, rarg, rnode, rx, rres, rlin>>

\* Iterator::node_ = n, and the key Iterator::key() then returns.
SetPosition(r, n) ==
  /\ rnode' = Set(rnode, r, n)
  /\ rres' = Set(rres, r, KeyOf(n))

\* Level 0 reached and not advancing: FindGreaterOrEqual returns next,
\* FindLessThan and FindLast return x; Contains compares next's key with
\* Equal(), Seek stores next, Prev and SeekToLast map head_ to nullptr.
ReaderReturn(r) ==
  LET x == rx[r]  nx == Loaded(r) IN
  /\ rpc[r] = "Busy"
  /\ nx # UNINIT
  /\ ~Advances(r, nx)
  /\ rlevel[r] = 0
  /\ CASE rop[r] = "Contains" ->
            /\ rres' = Set(rres, r, IF nx # NIL /\ key[nx] = rarg[r]
                                     THEN rarg[r] ELSE NIL)
            /\ UNCHANGED rnode
       [] rop[r] = "Seek" -> SetPosition(r, nx)
       [] OTHER -> SetPosition(r, IF x = HeadNode THEN NIL ELSE x)
  /\ rpc' = Set(rpc, r, "Idle")
  /\ UNCHANGED <<key, height, next, maxHeight, allocated, writerVars,
                 rop, rarg, rx, rlevel, rlin>>

\* The single-load operations: SeekToFirst() loads head_->Next(0), Next()
\* asserts Valid() and loads node_->Next(0).
OneLoad(r, op, from) ==
  LET nx == LoadNext(from, 0) IN
  /\ rpc[r] = "Idle"
  /\ rop' = Set(rop, r, op)
  /\ rarg' = Set(rarg, r, key[from])
  /\ rlin' = Set(rlin, r, {AbsAnswer(op, key[from], Level0Keys)})
  /\ nx # UNINIT
  /\ SetPosition(r, nx)
  /\ UNCHANGED <<key, height, next, maxHeight, allocated, writerVars, rpc, rx, rlevel>>

SeekToFirst(r) == OneLoad(r, "SeekToFirst", HeadNode)

IterNext(r) == rnode[r] # NIL /\ OneLoad(r, "Next", rnode[r])

-----------------------------------------------------------------------------
Writer == (\E k \in Keys : InsertFind(k)) \/ InsertSetNext \/ InsertLink

ReaderStep(r) ==
  \/ ReaderAdvance(r) \/ ReaderDescend(r) \/ ReaderReturn(r)

Reader(r) ==
  \/ CallFindGreaterOrEqual(r) \/ CallPrev(r) \/ CallSeekToLast(r)
  \/ SeekToFirst(r) \/ IterNext(r) \/ ReaderStep(r)

Next == Writer \/ \E r \in Readers : Reader(r)

\* The writer thread and every reader thread are scheduled by the OS and
\* never block: no step of theirs waits for another thread.
Fairness ==
  /\ WF_vars(InsertSetNext \/ InsertLink)
  /\ \A r \in Readers : WF_vars(ReaderStep(r))

Spec == Init /\ [][Next]_vars /\ Fairness

-----------------------------------------------------------------------------
(* Properties.                                                             *)

TypeOK ==
  /\ key \in [Node -> Keys \cup {NIL}]
  /\ height \in [Node -> 0..MaxHeight]
  /\ next \in [Node -> [Level -> Link]]
  /\ maxHeight \in 1..MaxHeight
  /\ allocated \in 0..Cardinality(Keys)
  /\ wpc \in {"Idle", "SetNext", "Link"} /\ wx \in Node
  /\ wprev \in [Level -> Node] /\ wlevel \in Level
  /\ rpc \in [Readers -> {"Idle", "Busy"}]
  /\ rnode \in [Readers -> Node \cup {NIL}]
  /\ rx \in [Readers -> Node] /\ rlevel \in [Readers -> Level]

(* The structure invariant of the header and the spec (3): on every level  *)
(* the list reachable from head_ has strictly increasing keys, holds only  *)
(* nodes tall enough for that level, and is contained in the list one     *)
(* level down.  Insert's loop publishes a node level by level while        *)
(* readers traverse, so this must hold after every single store, not just  *)
(* after Insert returns.                                                   *)
WellFormed ==
  \A l \in Level :
    LET c == LevelChain(next, l) IN
    /\ IsSorted([i \in DOMAIN c |-> key[c[i]]], <)
    /\ \A i \in DOMAIN c : height[c[i]] > l
    /\ l > 0 => ToSet(c) \subseteq ToSet(LevelChain(next, l - 1))

(* Safe publication (Node::SetNext's comment, spec 5): whatever the        *)
(* interleaving with Insert's relaxed and release stores, no thread is     *)
(* ever about to load a link slot of a node the writer has not yet         *)
(* initialised: every list reachable from head_ ends in nullptr, the slot  *)
(* a reader's descent loads next is set, and so is the level-0 slot of     *)
(* the node an iterator rests on, which Next() loads.                      *)
NoUninitializedRead ==
  /\ \A l \in Level :
       LET c == LevelChain(next, l) IN
       next[IF c = <<>> THEN HeadNode ELSE c[Len(c)]][l] # UNINIT
  /\ \A r \in Readers :
       /\ rpc[r] = "Busy" => Loaded(r) # UNINIT
       /\ rnode[r] # NIL => next[rnode[r]][0] # UNINIT

(* Every completed read (Contains, Seek, SeekToFirst, SeekToLast, Next,    *)
(* Prev) returns what that operation returns on the set of keys linked at  *)
(* level 0 at some instant while it ran (spec 5 and 8: "consistent with    *)
(* some valid point-in-time subset of the insertions"), although the       *)
(* descent reads max_height_ and the links at different times while the   *)
(* writer stores them.                                                     *)
Linearizable ==
  \A r \in Readers :
    rpc[r] = "Idle" /\ rop[r] # "None" => rres[r] \in rlin[r]

(* Every read operation a reader starts completes, and so does every       *)
(* Insert the writer starts: no step of either waits on the other.         *)
OperationsComplete ==
  /\ \A r \in Readers : rpc[r] = "Busy" ~> rpc[r] = "Idle"
  /\ wpc # "Idle" ~> wpc = "Idle"

=============================================================================
