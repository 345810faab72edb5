# TLA+ models of the components library

This directory holds TLA+ models of the C++ components under `src/`, the TLC
configurations that check them, and `PROJECT.json`, which maps every modelling
definition to the source lines it translates and lists the hazards of the code.

## The system

`src/` is a set of independent building blocks. Each one is used on its own and
none calls another, with two exceptions. The skip list uses the arena and
AtomicPointer. The message dispatcher uses the message queue.

| Component | Source | State | Operations | Concurrency |
|---|---|---|---|---|
| SkipList | `skip_list/skip_list.h` | nodes in an arena: a key, a height and `next_[h]` links; `head_`; `max_height_` | Insert, Contains, and the Iterator's Seek, SeekToFirst, SeekToLast, Next, Prev | one writer (external mutex) and any number of lock-free readers |
| AtomicPointer | `util/atomic_pointer.h` | one pointer | Acquire_Load, Release_Store, NoBarrier_Load, NoBarrier_Store | x86 build: plain accesses with compiler barriers |
| Arena | `util/arena.h` | current block pointer, bytes remaining, blocks, memory usage | Allocate, AllocateAligned, MemoryUsage | used by the single writer; MemoryUsage is read anywhere |
| CircularBuffer | `circular_buffer/circular_buffer.h` | a raw array, `front_`, `back_` | PushBack (overwrites when full), PopFront, Clear, At, operator[], iterators, destructor | none |
| MsgQueue | `msg_queue/msg_queue.cpp` | a `std::queue` of messages under a mutex and condvar; a response map | Put, Get with timeout, Request, RespondTo | any threads |
| MsgDispatcher | `msg_dispatcher/dispatcher.cpp` | name → actor map | Register, Post | caller's thread |
| EventDispatcher | `event_dispatcher/dispatcher.cpp` | descriptor → list of (id, slot); `next_id_` | Subscribe, UnSubscribe, Post | none; slots run inside Post |
| TimingWheel | `timing_wheel/*.cpp` | 5 wheels of spokes holding timer lists; `check_time_` | AddTimer, RemoveTimer, DetectTimerList with Cascade, and ThreadTimer Start/Stop | the timer thread and callers |
| TCP socket | `tcp_socket/*` | a descriptor id | Close, move, PutMessageData, GetMessageData | none |
| LRU cache | `lru_cache/cache.h` | none | interface only | none |
| util | `util/*` | none | coding, hash, slice, logging, env helpers | none |

## The skip list (modelled)

`SkipList.tla` models one writer and a set of `Readers` running concurrently
over a single skip list.

**State.** Nodes are numbers. `HeadNode` is 0, and the arena hands out the nodes
1, 2, ... in order. The per-node fields are functions: `key`, `height`, and
`next[n][l]`. A link slot is a node, `NIL` (nullptr), or `UNINIT`. Arena memory
is not zeroed, and `NewNode` initialises only the key, so a fresh node's links
are `UNINIT` until `SetNext` writes them. `maxHeight` is `max_height_`.

The writer's local variables of `Insert` are `wpc`, `wx`, `wprev` and `wlevel`.
Each reader keeps:
- its pc, `rpc`;
- the operation and argument, `rop` and `rarg`;
- the iterator's `node_`, `rnode`;
- the descent's cursor `x`, `rx`, and its `level`, `rlevel`;
- the result, `rres`.

**Actions.**
- `InsertFind` is lines 287-311 of `Insert`, taken in one step, because only the
  writer changes the list. It covers the `FindGreaterOrEqual` descent (the `prev`
  array), `RandomHeight`, raising `max_height_`, and `NewNode`.
- The publishing loop (312-317) is two steps per level:
  - `InsertSetNext` is the relaxed store into the new node's slot (line 315);
  - `InsertLink` is the release store into the predecessor's slot (line 316).
- On the reader side, every load of a link is one step (`ReaderAdvance` or
  `ReaderDescend`). So the writer's stores interleave with a descent at every
  point the hardware allows. Under x86 TSO with compiler barriers, each load and
  store is atomic and stores become visible in program order.
- Every access to a link goes through `LoadNext` and `StoreNext`, which stand
  for `AtomicPointer`'s loads (`NoBarrier_Load`, `Acquire_Load`) and stores
  (`NoBarrier_Store`, `Release_Store`). On the x86 build these differ only by
  a compiler barrier, so they are the same single step here.
- The descent is the loop shared by `FindGreaterOrEqual`, `FindLessThan` and
  `FindLast`. `Advances` picks the loop's condition for each operation.
- `ReaderReturn` is each operation's final use of the descent's result.
- The single-load operations (`Iterator::Next`, `SeekToFirst`) are one step each.

**Abstract specification.** `OrderedSet.tla` is a set of keys that only grows.
`MC_SkipList.tla` maps the keys of the level-0 list to it, and checks
`RefinesOrderedSet`, its spec, as a temporal property.

**Linearizability.** The history variable `rlin` holds, for a busy reader, the
answers the operation may give. These are the answers the abstract set gave at
some point between the call and now. `StartDescent` seeds it, and every writer
step adds the answer for the new state.

### Runs

| Run | Config | Checks |
|---|---|---|
| `skiplist` (77,649 states) | `MC_SkipList.cfg`: keys {1,3,5}, search targets {0,3,4}, `MaxHeight` 2, one reader | `TypeOK`, `WellFormed`, `NoUninitializedRead`, `Linearizable`, `RefinesOrderedSet`, `OperationsComplete` |

**What each property says.**
- `WellFormed`: every level is sorted; a node on level l has height > l; level
  l's keys are a subset of level l-1's.
- `NoUninitializedRead`: no thread ever follows an unset link.
- `Linearizable`: every answer (Contains, the node Seek lands on, Prev's
  predecessor, SeekToLast's last node) is one the set gave during the call.
- `OperationsComplete`: every Insert and every descent finishes.

**Why the bounds are enough.**
- Three keys and the targets 0, 3 and 4 cover these cases:
  - a search below every key;
  - a search at an existing key;
  - a search between keys;
  - inserts before, between and after present nodes.
- Heights 1 and 2 let a node be taller than `max_height_`, which exercises the
  raise at line 308. They also let a reader descend across two levels while a
  node's levels are still being published one by one. A third level adds no
  new control. It would, however, take the liveness check past a few minutes.
- One reader is enough: readers never write, so each reader interacts only with
  the writer. A second reader multiplies the states without adding any
  interleaving between reader and writer.

**Fairness.**
- Weak fairness is put only on the steps that continue an operation already in
  progress: the writer's linking steps and each reader's descent steps.
- A thread that has started an operation runs it to the end, because the code
  has no locks or waits inside these loops.
- Starting a new operation is not fair. Clients call when they like.

## The circular buffer (modelled)

`CircularBuffer.tla` models `CircularBuffer<T>`.

**State.**
- Pointers are slot indices, and nullptr is `NULL`.
- `capacity` is `capacity_`. It is chosen at construction from `Capacities` and
  is then constant.
- `slot[i]` is the content of `buffer_[i]`. It is `GARBAGE` when no object lives
  there.
- `live[i]` counts the objects constructed in slot i and not yet destroyed.
- `front` and `back` are `front_` and `back_`.
- `allocated` is false once the destructor has returned the array.

**Actions.** PushBack, PopFront, Clear and the destructor are one action each.
Each is a whole member function:
- PushBack destroys the oldest element first when the buffer is full.
- Clear's do-while loop is the recursive `ClearedFrom`.
- `Destructor` is `~CircularBuffer`: it calls `Clear`, then deallocates. Nothing
  runs on the buffer afterwards. The run therefore does not check deadlock:
  after the destructor, the object really has no further steps.

PopFront on an empty buffer dereferences nullptr, so the model treats
`!Empty()` as its precondition.

**Reads.** The read-only members are operators: Size, Empty, Front, Back,
operator[] (`Subscript`) and At. The iterator is operator[] over
0..Size()-1.

**Abstract specification.** `BoundedQueue.tla` is a FIFO of at most `cap`
elements that drops its oldest element when a push finds it full.
`MC_CircularBuffer.tla` maps `Contents`, operator[] over 0..Size()-1, to it.

**Run `circular_buffer`.**
- Capacities 1 to 4 and three values. Capacity 1 is the case where full and
  empty wrap onto the same slot.
- `TypeOK`: every pointer stays in the array.
- `LifetimesMatch`: the live objects are exactly the Size() slots from front_,
  one each. After the destructor, Size() is 0, so no object is left alive. Nothing leaks, nothing is destroyed twice, and nothing is
  constructed over a live object.
- `ReadsAgree`: Empty, Size, Front, Back and At agree with each other.
- `RefinesBoundedQueue`: the buffer behaves as the abstract FIFO. The
  destructor's step empties `Contents`, which the abstract Clear allows.
- Capacity 0, which the constructor accepts, is left out. Every PushBack there
  writes past the array.

## The timing wheel (modelled)

`TimingWheel.tla` models `TimerManager` and `ThreadTimer`. They run on the one
thread that calls `DetectTimerList`, `Start` and `Stop`. Callbacks run inside
`DetectTimerList`.

**Wheels.** The code has 5 wheels: one of 256 spokes and four of 64. The run
uses 3 wheels of 2 spokes: `WheelBits1 = WheelBits2 = 1`, `WheelNum = 3`. The
thresholds and the spoke formula of `AddTimerNode` are kept with these widths.
The model's total span, 2^3, plays the role of uint32's 2^32. That is exactly
the code's span, so the `& mask` arithmetic keeps its wrap-around.

**Clocks.** `now` is `GetCurrentMillisec()`, and `Tick` advances it.
`checkTime` is `check_time_`. The constant `MaxLag` bounds how far the caller
lets `now` run ahead of `checkTime`.

**Nodes and lists.**
- A node is `<<timer, generation>>`. A repeating timer can own a new node while
  its old one is still on the ready list, so two generations are needed.
- The doubly linked spokes and the ready list are sequences in link order.
- `St` bundles the fields the member functions update.
- The member functions are operators from St to St:
  - `AddTimerNode`, `AddToReadyNode`, `RemoveTimer`, `AddTimer`;
  - `Cascade`, recursive over the wheels, which folds over a spoke's nodes;
  - `Stop`, `Start`, `Callback`.
- The actions compose them exactly as the code calls them.

**Actions.**
- `DetectTimerList` is several actions:
  - `DetectStart` computes the loop count from the clock.
  - `DetectStep` is one loop iteration, including any cascade.
  - `DetectLoopDone` ends the loop.
  - `FireNext` is one iteration of `DoTimeOutCallback`: `Callback()`, then the
    user callback, which may stop or start any timer or delete its own timer,
    then the node is freed.
  - `CallbacksDone` resets the ready list and returns.
- Between calls of `DetectTimerList`, the caller may `Start` (with any interval
  from `Intervals`) or `Stop` any timer. It may also destroy a stopped timer
  (`ClientDelete`). `~ThreadTimer` is empty, so this changes nothing but the
  timer's life.
- A started timer destroyed by its owner would leave its node dangling, as a
  callback that deletes its timer does. The caller is made to `Stop` first, so
  that `timing_wheel_delete` shows the callback path the code's comment
  allows. The other path is listed as a hazard.

**Fairness.** `timing_wheel_ontime` checks `FairSpec`. This adds weak fairness
on `Tick`, because real time keeps passing. It also adds weak fairness on each
step of `DetectTimerList`, because the program calls it again and again (the
loop of `timer_manager_test.cpp`) and each call runs to its end. The client's
`Start`, `Stop` and delete get no fairness, since nothing obliges a caller to
make them. The clock stops at `MaxTime`. Behaviours therefore end with the
clock standing still while `DetectTimerList` keeps being called.

**Runs.** All three use two timers (one repeating, one not), intervals 1, 2 and
5 (one on each wheel), and clock values up to 10. That covers two cascades of
wheel 2.

| Run | Setting | Result |
|---|---|---|
| `timing_wheel_ontime` (pass) | `MaxLag = 1`: DetectTimerList runs at every millisecond | `NodesAccounted`: every node is linked exactly once and owned by its timer. `NoEarlyFire`: nothing reaches the ready list before its `dead_time`. `NoOverdueTimer`: nothing is left on a wheel after its `dead_time`. `CatchesUp`: under `FairSpec`, `DetectTimerList` catches `check_time_` up with the clock again and again. `NoOverdueTimer` holds in those states, so every node whose `dead_time` passes is fired or was stopped. A loop count one short (`LoopNumOneShort`) would leave `check_time_` behind for good. |
| `timing_wheel_lag` (violation of `NoEarlyFire`) | the clock may be 2 ms ahead of `check_time_` | A timer started then is filed relative to `check_time_`, but its `dead_time` comes from the clock, so it fires early. `Cascade` re-files with the same mismatch. |
| `timing_wheel_delete` (violation of `NoDanglingNode`) | a callback may delete its own timer, as the comment in `ThreadTimer::Callback` allows | For a repeating timer, the node `Start()` just added outlives the timer. |

## The message queue and the message dispatcher (modelled)

`MsgQueue.tla` models `MsgQueue::Impl` in `msg_queue/msg_queue.cpp`, shared by
threads shaped like the ones in `msg_queue_test.cpp`:
- senders `Put`;
- getters `Get`, with a timeout if they are in `TimedGetters`;
- requesters call `Request`;
- one responder `Get`s every message and answers it with `RespondTo`;
- actors of `msg_dispatcher`, each with its own `MsgQueue`, and poster threads
  that `Post` to them through the `Dispatcher`.

**State.** Every `MsgQueue` has its own state: the main queue, plus the response
queue each `Request` creates.
- `items[q]` is its `queue_`.
- `waiters[q]` holds the threads blocked on its `queue_cond_`.
- `respMap` holds the keys of `response_map_`.
- `lastUid` is the static atomic counter of `GenerateUniqueId` (`msg.cpp`).
  `msgUid[r]` is the `unique_id_` of the `Msg` requester `r` constructed.
- `mapOwner` holds `response_map_mutex_` while `RespondTo` is inside its `Put`.
- `pc` is each thread's place in its calls.
- `putLog` and `popLog` are history variables. They record what was put into
  each queue and what was taken out.

**Steps.** Each critical section under a mutex is one step. A message is its
kind, its `msg_id_` and what is needed of its `unique_id_`. Payloads play no
part in the control. Only the `Msg` a requester passes to `Request` draws its
uid from the counter, because `Request` keys the response queue by it. Every
other message's uid is a value that no request uid equals, which is what the
atomic counter guarantees.

| Model | Code |
|---|---|
| `Push`, then `Notify` | `Put`: push under the lock, then `notify_one` after unlocking, as a separate step |
| `GetTest` | `Get`: take the lock, or re-take it after a wakeup, then test the predicate: pop the front, or join `waiters` |
| `GetTimeout` | the `wait_for` timeout: re-test the predicate, push `MSG_TIMEOUT` only if the queue is empty, then pop the front |
| `ReqMsg` | the test's `Msg(i)`: the constructor takes `++i` of `GenerateUniqueId`, one atomic step |
| `ReqEmplace`, `ReqPut`, `ReqGet`, `ReqErase` | lines 47-50, 52, 53 and 55-59 of `Request` |
| `Respond`, then `Notify`, then `RespUnlock` | `RespondTo`: the map lock is held across the whole response `Put` |

**The dispatcher.** `Dispatcher` (`msg_dispatcher/dispatcher.cpp`) keeps a map
from names to actors, and each `Actor` owns a `MsgQueue`. The model composes
it with the queue model:
- `registered` holds the names in `actors_`;
- `ActorQ(a)` is actor `a`'s `msg_queue_`;
- `DispatchPut` is `Post`: when the name is registered it is `Actor::Put`,
  i.e. `Push` and `Notify` on the actor's queue; otherwise the message is
  dropped;
- an actor thread is the `DemoActor` of `dispatcher_test.cpp`:
  - `ActRegister` registers it;
  - `ActPost` Posts it a FOO;
  - then `Handle`'s loop runs `ActGet` (`Get(2000)`, a timed `Get`) and
    `ActHandle`, which answers a FOO by Posting a BAR to itself, ignores a
    BAR, and stops on `MSG_TIMEOUT`;
- a poster `Post`s FOOs to any name in `Names`: the actor's name or an unknown
  one. It may do so before `Register`, or after the actor has stopped;
- `stopAt[t]` is a history variable. It records how many messages had been
  `Put` on the queue when `t`'s `Get` returned `MSG_TIMEOUT`.

`actors_` is a plain `std::map` with no lock. The test registers before any
other thread exists. In the model a poster may `Post` while the actor
registers, and the lookup sees the map either before or after the insert. A
torn read of the map during the insert is undefined behaviour and is not
modelled.

**What is left out.** Spurious wakeups are not modelled. The predicate loop
makes a spurious wakeup look the same as staying asleep.

**Fairness.** Each thread has weak fairness on its steps. The reasons:
- The OS eventually runs a runnable thread.
- A `wait_for` eventually times out.
- No mutex is held across a wait, so a blocked lock frees up.

| Run | Setting | Checks |
|---|---|---|
| `msgqueue_putget` (pass, 244,629 states, about 1 minute) | two senders with 1 message each; a timed and an untimed getter with 1 `Get` each; one `DemoActor`; one poster with 1 `Post` to the actor's name or to an unknown name | `TypeOK`: `waiters` matches the waiting threads, and a returned `Get` always holds a message. `QueueIsFifo`: every queue is exactly a FIFO of what was `Put`, and no `MSG_TIMEOUT` is left behind. `ActorStopsDrained`: when the actor has stopped, it has taken every message Posted before its `Get` timed out, and every FOO it handled had its BAR handled. `AllComplete`: every call returns, despite `notify_one` being called outside the lock, and the actor stops. |
| `msgqueue_request` (pass, 318,720 states, about 1 minute) | two requesters with 2 `Request`s each; a one-way sender; a responder that answers all 5 messages | `RequestGetsOwnResponse`: each `Request` returns the response to its own message, as the test's `EXPECT_EQ` on the `msg_id` demands. A non-atomic `++i` in `GenerateUniqueId` (the `ReqMsgNotAtomic` mutant) breaks it: two requests share a response queue. `ResponseQueueLifetime`: the map holds exactly the `Request`s in progress, and nothing notifies or waits on an erased response queue. `AllComplete`. |

**Why these bounds.** Two senders let their pushes interleave. A timed getter
next to an untimed one lets a timeout race a late `Put`. The actor and the
poster run next to them, so the state space is their product; one message per
sender and one `Get` per getter keep the run near one minute. The poster's
single `Post` can land before `Register` (dropped), while the actor waits,
while its `Get(2000)` expires, or after it has stopped. The actor's own FOO
makes `Handle` post a BAR to itself. Two requests per requester make their response queues overlap in time.
The one-way sender makes `RespondTo` meet a uid that is not in the map.

## The event dispatcher (modelled)

`EventDispatcher.tla` models `Dispatcher` and `Subscriber` in
`event_dispatcher/`. Everything runs on the caller's thread. Slots run inside
`Post`, and a slot may call back into the dispatcher.

**State.**
- `subs[d]` is `subscribers_[d]`, the ids of its handles in vector order.
- `keys` lists the entries of the map.
- `nextId` is `next_id_`.
- `cap[d]` and `gen[d]` model each vector's storage. `emplace_back` on a full
  vector reallocates, growing it from n to n + max(n, 1) as libstdc++ does, and
  starts a new generation.
- While `Post` runs, `postD`, `it`, `end` and `buf` are its range-for: the
  index, the cached `end()`, and the generation its iterators belong to.
- `active`, `descOf`, `startActive` and `called` are history variables for the
  properties.

**Actions.**
- `Subscribe` appends a handle.
- `UnSubscribe` erase-removes an id from every vector.
- `PostStart` fetches the vector and caches `end()`.
- `PostCall(e)` calls the slot at the iterator. The slot runs to completion
  with effect `e` (none, subscribe, or unsubscribe), then the iterator advances.
  The guard requires a valid iterator.
- `PostEnd` returns.
- `Post` for a type with no map entry returns at once. That path changes
  nothing, so it is a stuttering step.

**Slot effects.** A slot may subscribe to, or unsubscribe a handle of, another
event type. It may also subscribe to the type being posted while that vector
has spare capacity. `emplace_back` then writes past the cached `end()` without
moving any element. With libstdc++ the range-for goes on over the same storage
and stops at the `end()` it cached (`LoopEnd`). The other two ways of touching
the posted type are left out. `emplace_back` reallocating the vector leaves
the loop's iterator dangling, and `erase` shrinks the vector under the loop.
Either makes the next `++it` undefined behaviour. The code and its test neither
allow nor forbid this, and the test never does it. `PROJECT.json` lists both
cases as part of the `dispatcher.cpp:33` hazard.

| Run | Setting | Result |
|---|---|---|
| `eventdispatcher` (pass, 7,219 states) | 2 types, 4 ids; three subscriptions to one type leave a spare slot (capacity 4) for a same-type Subscribe inside Post | `HandlesMatchSubscriptions`: each vector holds exactly its live subscriptions, once each and in order. `PostDeliversSnapshot`: `Post` calls each slot subscribed at its start exactly once, in order, whatever the slots do to other types. A handle that a slot subscribes to the posted type is not called by that Post. A loop bounded by the live size (`LoopEndLive`) would call it. |

## The arena (modelled)

`Arena.tla` models `util/arena.h`. Only `Allocate` is defined in the
repository. `AllocateFallback`, `AllocateAligned` and `AllocateNewBlock` are
declared but not defined, so they are modelled from section 4.1 of `spec.md`
and marked `spec_modelled` in `PROJECT.json`. A request that does not fit gets
a new block of max(n, block size) and is served from its start, and that block
becomes the current one.

**State.**
- `blocks` holds the block sizes.
- `cur`, `ptr` and `remaining` are `alloc_ptr_` (a block and an offset) and
  `alloc_bytes_remaining_`.
- `usage` is `memory_usage_`.
- `allocs` is a history variable: every range handed out, and whether
  `AllocateAligned` handed it out.

**Actions.** `Allocate(n)` and `AllocateAligned(n)`, each with its fast path
and its fallback as disjuncts.

**Bounds.**
- Block size 8 and alignment 4 stand for the code's default block size and 8,
  scaled down together.
- Requests are 1, 3 and 9 bytes. 9 is larger than a block.
- `MaxBlocks = 2` is the memory the process has. The specification makes
  running out of memory fatal, so the run does not check deadlock: the
  program stops there.

| Run | Result |
|---|---|
| `arena` (pass, 22,999 states) | `AllocationsDisjoint`: ranges stay inside their blocks and never overlap. |

The run checks no property of the alignment arithmetic or of `memory_usage_`. Both are computed only by `AllocateAligned` and `AllocateNewBlock`. Their code is not in the repository, and they are modelled from the specification. A property about them would check the model's own formula against itself.

A concurrent reader of `MemoryUsage()` is not modelled. On x86 it is one
aligned load, and the specification allows it to see a stale value.

## The socket life cycle (modelled)

`Socket.tla` models the life cycle of `BaseSocket` objects in
`tcp_socket/socket.cpp` on one thread. The kernel's descriptor table is the
set `open`. `socket()` and `accept()` return the lowest free descriptor, as
POSIX requires, so a number that was closed is handed out again. `errno` is a
single variable: a failing call sets it and a successful call leaves it as it
was. On Linux, `close()` releases the descriptor even when it fails with
EINTR or EIO.

**State.**
- `life`: each object is unborn, live or dead.
- `id`: each object's `socket_id_`.
- `open`: the descriptors the kernel holds open.
- `errno`.
- `thrown`: the last operation and the exception it let escape.

**Actions.**
- `Construct(o)`: the constructors. `socket()` may fail with EMFILE. Otherwise
  the object is built, or its connect, bind or listen fails. On that failure
  the constructor calls `Close()` and throws, and the base destructor then
  closes again if the id is still valid.
- `MoveConstruct(o, p)` and `MoveAssign(p, o)`: the move constructor and move
  assignment, both of which swap ids.
- `Accept(o, p)`: `ServerSocket::Accept` on `o`, returning the `DataSocket`
  `p`. It throws `logic_error` when `o` was closed or moved. Otherwise
  `accept()` gives `p` the lowest free descriptor, or fails with EMFILE (table
  full) or EINTR. On failure `runtime_error` escapes and no descriptor is
  taken. The errno it leaves feeds a later `Close()`.
- `Close(o)`: `Close()` called by the program. `CloseOutcomes` lists the ways
  its loop can end: `close()` returns -1, or it returns 0 and `switch(errno)`
  reads whatever errno an earlier call left.
- `Destroy(o)`: the destructor, which swallows every exception.
- `IoError(o)`: a failing read or write (`PutMessageData`, lines 184-231).
  EINTR and EAGAIN are retried. EBADF throws `domain_error`, and EIO throws
  `runtime_error`. In every case the object is untouched, and the errno is
  left behind for a later `Close()`.

**Bounds.**
- Descriptors {3, 4}: enough for one number to be closed and handed out
  again while another object is live.
- Two objects, or three in `socket_user`. The third object is needed to reach
  EMFILE.
- Deadlock is not checked. The program ends once every object is destroyed.

| Run | Result |
|---|---|
| `socket_user` (pass, 5,421 states, module `ProtocolSimple`) | `NoDescriptorLeak`: every open descriptor belongs to a live object. This holds under every order of constructions, accepts, moves, user `Close()` calls and destructors. `RecvReturnsWholeMessage`: see below. |
| `socket_close` (violation) | `FdOwnedExclusively` fails once the program calls `Close()` itself. A successful `close()` falls into `switch(errno)` with errno still `"none"` and throws `close: ???`. `socket_id_` stays set to the closed number, the next `socket()` or `accept()` reuses it, and the destructor would then close the other object's socket. |

The defect is at `socket.cpp:58`. The loop leaves only when `close()` returns
-1, so a successful close reaches the errno switch. The same fall-through hides
setup errors. When connect fails, the constructor calls `Close()`, which throws
`close: ???` on the connect's stale errno, so the connect error is never
raised. In the model this is a `Construct` step whose `thrown` is `close ???`.

With `UserClose = FALSE`, which is how `server.cpp` and `client.cpp` use
sockets, `FdOwnedExclusively` holds. The constructor's own `Close()` never
leaves a live object behind, and the destructor swallows what it throws.

### ProtocolSimple

`ProtocolSimple.tla` extends `Socket` with the message layer of
`protocol_simple.cpp`. Sending and receiving are pure functions of what
crosses the wire, so they are operators that return the set of possible
outcomes. The run's state machine is `Socket`'s.

- `PutLoop` and `PutMessageData` model the write loop of `socket.cpp`
  (177-236). Each `write()` moves 1 up to the rest of the buffer. EINTR and
  EAGAIN retry the same write. Any other error throws with a prefix written.
- `SendMessage` is `PutMessageData(url)`, then `PutMessageData(message)`, then
  `PutMessageClose`. An exception skips the rest.
- `std::string` is a record of its characters and its capacity. `Resize` and
  `Reserve` follow libstdc++: a request beyond the capacity allocates
  max(n, 2 * capacity).
- `SizerOpen` is `StringSizer`'s constructor, including the 4096 given to an
  empty string (`DefaultCap`, scaled to 2). `RecvLoop` is one pass of
  `RecvMessage`'s loop plus the rest of the loop: the read, the
  `reserve(capacity * 2)` (`Regrow`), and the sizer's destructor resizing to
  `data_read`.
- `GetMessageData` lives in `socket.tpp`, which is not in the repository. It is
  modelled as one `read()` of 1 up to `size` bytes. It returns 0 at the end of
  the stream, and also when asked for 0 bytes.

`RecvReturnsWholeMessage` checks every url and message of up to
`MaxPayload = 4` bytes, every split of them into writes and reads, and starting
capacities {0, 2, 3, 5}. Capacity 0 is what an empty copy-on-write string
reports; the others stand for the short-string capacity (15 in libstdc++),
scaled down. Neither side looks at the bytes it moves, so payloads made of
distinct bytes stand for all payloads. RecvMessage returns exactly the bytes
written: the whole url and message when SendMessage returned, and the prefix
written when it threw. When the string is full, the next read is asked for 0
bytes and ends the loop. Only the doubling at line 63 keeps that from cutting
a long message short. The check quantifies over the live objects holding a
descriptor, because ProtocolSimple is used through such a socket. The set of
exchanges is a constant, which TLC computes once.

The protocol has no length field or terminator. A sender that throws partway
leaves a truncated message that the receiver cannot tell from a whole one.
This is listed as a hazard.

Not modelled: the loops of `client.cpp` and `server.cpp`, which only chain
these calls. The server's loop has no try/catch, so one client that leaves
before reading the reply ends the server: its `write()` fails with `EPIPE` or
`ECONNRESET`, or raises `SIGPIPE`. This is listed as a hazard; checking it
needs a run of its own, with both loops composed. Also not modelled: addresses; `PutMessageClose`'s `shutdown()`.

## util (partly modelled)

`Util.tla` models `DoWriteStringToFile` and `ReadFileToString`, and checks the pure helpers of
`util/` against reference definitions.

**DoWriteStringToFile** (`env.cpp` 34-64) is reached through
`WriteStringToFile` and `WriteStringToFileSync`. The Env implementation is not
in the repository, so each Env call succeeds or fails nondeterministically.
`NewWritableFile` truncates an existing file, as `env_test.cpp` checks.

- `pc` walks the function's steps: `NewWritableFile`, `AppendData`, `Sync`
  (only when `should_sync`), `Close`, `Free` (`delete file`) and, after an
  error, `DeleteFile`.
- `s` is the Status: `"ok"`, or the step whose error it holds.
- `fs` abstracts the file: whether it exists, its data and whether it was
  synced. The data of call c is `Content(c)`, two fragments named by the call.
  A failed Append leaves a prefix of it: none or one fragment.
- `fails` is a history of the steps that failed.
- The program makes up to `MaxCalls = 3` calls on one file name. A later call
  can then fail after an earlier one succeeded. The calls are bounded, so the
  run does not check deadlock.

**ReadFileToString** (`env.cpp` 66-89) may be called between two write calls.
It reads into the same string each time, as `env_test.cpp` does at line 191.
- `ReadOpen` is `data->clear()` (`Clear`) and `NewSequentialFile`. The open
  fails when the file is missing, and may fail anyway.
- `ReadFragment` is one pass of the loop. `Read` returns the next fragment, or
  an empty one at the end of the file, which ends the loop with ok. A failed
  Read breaks out before appending.
- `rdata` is the caller's string and `rs` the status returned. `rpos` is how
  far the SequentialFile has read. `rafter` is a history variable: the number
  of write calls made before the last read began.

**ConsumeDecimalNumber** (`logging.cpp` 42-75) is the RECURSIVE operator
`DigitLoop`. It keeps the code's overflow test before `value * 10 + digit`, and
computes modulo 2^W. W is 7, so the largest value is 127, 127 / 10 is 12, and
the last digit is 7. Inputs are every sequence of up to 4 character codes from
'/', '0', '1', '2', '7', '8', '9' and ':'. '/' and ':' sit on either side of the
digits. The inputs include 127, 128, 129, 120 and 1270, which reach both halves
of the overflow test. The reference `ReferenceConsume` takes the longest digit
prefix and the number it denotes, in unbounded arithmetic.

**Slice** (`slice.h`) is the sequence of its bytes. `Memcmp` compares the
bytes as unsigned char, as `memcmp` does. `Compare`, `StartWith`, `SliceEq`
(`operator==`) and `RemovePrefix` follow the code. `ConsumeDecimalNumber` uses
`RemovePrefix`.

**AppendEscapedStringTo / EscapeString** (`logging.cpp` 16-40) take a `char`
that may be signed or unsigned; the platform chooses. Where char is signed, a
byte of 128-255 is negative. `UIntDigits` is the `& 0xff` of line 24.
`HexDigits`, `Pad2` and `Truncated` are what `snprintf(buf, 10, "\\x%02x")`
does: hex digits, padded to two, cut to nine characters.

Bytes for both checks are {0, 31, 32, 65, 126, 127, 128, 255}: both edges of
the printable range and of the signed range. Slices are up to 2 bytes long.

| Run | Result |
|---|---|
| `util` (pass, 2,402 states) | `StatusIsFirstFailure`: the returned status is the first failing step's error. A later Sync or Close never overwrites it. `OkMeansWholeFile`: an ok result means the file holds all of that call's data, closed, and synced if asked. `FailedWriteLeavesNoFile`: an error after the file was created leaves no file behind, unless `DeleteFile` failed; see below. `ReadBackMatchesWrite`: a read after an ok write returns exactly that write's data. After a failed Read the string holds a prefix of the file, and after a failed open it is empty. This needs the `clear()` of line 67, because the string is reused. `DecimalMatchesReference`: the parser agrees with the reference on every input. `SliceOrderIsLexicographic`: `Compare` has the sign of the lexicographic order on unsigned bytes, with a proper prefix first; `StartWith` and `==` agree with prefix and equality. `EscapeIsBytewise`: with either signedness of char, each printable byte is kept and each other byte becomes `\x` and two lower-case hex digits. |

`DeleteFile`'s own status is ignored (line 51). `FailedWriteLeavesNoFile`
checks what that allows. After an error from Append, Sync or Close, the file is
gone, unless `DeleteFile` itself failed. Only then does a file remain, holding a
prefix of this call's data. Only then can a later `ReadFileToString` return ok
after a failed write. A `DeleteFile` failure is recorded in `fails`. An error
from `NewWritableFile` leaves the previous file untouched, so that case is
excluded. The mutant `AfterFreeNoUnlink` skips `DeleteFile` after an error, and
it breaks the property.

The pure operators do not depend on the file model's state. Their three
properties are therefore guarded by `BeforeAnyCall`, so they are evaluated
once, in the initial state, and not again in every state.

Not modelled:
- `AppendNumberTo`, a single `snprintf`.
- `hash.h`, which holds only a declaration.
- `coding.h`. Its inline code is `DecodeFixed32/64`, a `memcpy` of the host's
  bytes, and the one-byte fast path of `GetVarint32Ptr`. Every other case goes
  to `GetVarint32PtrFallback`, which is not in the repository.

## Not modelled

The model checks the x86 memory-model build. On other targets the
`std::atomic` branch of `atomic_pointer.h` does not compile: line 59 reads
`retun`.

A `Post` that reaches an actor after its `Handle` loop has stopped stays in
its queue for good. The code promises nothing about such a message, so no
property claims it is handled.

Left out of the components marked partly modelled:
- the timing wheel:
  - `ThreadTimer::Init`, which can change `type_` on a started timer. The
    model fixes each timer's type through `RepeatTimers`.
  - `~TimerManager`, which frees the wheels and their nodes while live
    `ThreadTimer`s still hold `timer_node_`.
  - `Dump`, which only prints.
- the event dispatcher: a nested `Post` from a slot, and a slot whose
  `Subscribe` reallocates, or whose `UnSubscribe` erases from, the vector being
  posted. The last two are undefined behaviour.

Not to be modelled:
- the LRU cache: the repository holds only its interface;
- hashing and encoding: pure data transformations with no control a property
  distinguishes.
