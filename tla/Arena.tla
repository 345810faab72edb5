-------------------------------- MODULE Arena --------------------------------
(***************************************************************************)
(* Arena of src/util/arena.h: a bump allocator over blocks.  Only          *)
(* Allocate's fast path is in the header; AllocateFallback,                *)
(* AllocateAligned and AllocateNewBlock are not in the repository and are  *)
(* modelled from section 4.1 of the specification: a request that does   *)
(* not fit gets a new block of max(n, block size) and is served from its  *)
(* start, and that block becomes the current one.                          *)
(*                                                                         *)
(* An address is <<block, offset>>.  Blocks come from the system allocator *)
(* aligned to at least Align, so an address is aligned when its offset is. *)
(* BlockSize and Align stand for the code's default block size and         *)
(* max(pointer size, 8), scaled down together.                             *)
(***************************************************************************)
EXTENDS Naturals, Sequences, FiniteSets, SequencesExt

CONSTANTS BlockSize, Align, Sizes, MaxBlocks

ASSUME Sizes \subseteq Nat \ {0} /\ Align > 0 /\ BlockSize % Align = 0

VARIABLES
  blocks,     \* blocks_: the size of each block, in allocation order
  cur,        \* the block alloc_ptr_ points into (0 before the first)
  ptr,        \* alloc_ptr_ as an offset into block cur
  remaining,  \* alloc_bytes_remaining_
  usage,      \* memory_usage_
  allocs      \* history: <<block, offset, bytes, aligned?>> handed out

vars == <<blocks, cur, ptr, remaining, usage, allocs>>

(* Arena(): alloc_ptr_ = nullptr, nothing remaining, no blocks. *)
Init ==
  /\ blocks = <<>>
  /\ cur = 0 /\ ptr = 0 /\ remaining = 0
  /\ usage = 0
  /\ allocs = {}

(* MemoryUsage(), lines 20-22: a relaxed load of memory_usage_. *)
MemoryUsage == usage

Larger(a, b) == IF a >= b THEN a ELSE b

(* AllocateNewBlock(size): a new block, counted in memory_usage_. *)
NewBlockUsage(n) == usage + Larger(n, BlockSize)

(* AllocateFallback(n): serve n bytes from the start of a new block of  *)
(* max(n, BlockSize) bytes, which becomes the current block.            *)
AllocateFallback(n, aligned) ==
  LET size == Larger(n, BlockSize) IN
  /\ Len(blocks) < MaxBlocks
  /\ blocks' = Append(blocks, size)
  /\ usage' = NewBlockUsage(n)
  /\ cur' = Len(blocks) + 1
  /\ ptr' = n
  /\ remaining' = size - n
  /\ allocs' = allocs \cup {<<Len(blocks) + 1, 0, n, aligned>>}

AllocateNoDecrement(n) ==
  \/ /\ n <= remaining
     /\ ptr' = ptr + n
     /\ allocs' = allocs \cup {<<cur, ptr, n, FALSE>>}
     /\ UNCHANGED <<blocks, cur, remaining, usage>>
  \/ n > remaining /\ AllocateFallback(n, FALSE)

(* Allocate, lines 39-49: bump alloc_ptr_ when the request fits in what *)
(* remains, else fall back to a new block.                               *)
Allocate(n) ==
  \/ /\ n <= remaining
     /\ ptr' = ptr + n
     /\ remaining' = remaining - n
     /\ allocs' = allocs \cup {<<cur, ptr, n, FALSE>>}
     /\ UNCHANGED <<blocks, cur, usage>>
  \/ n > remaining /\ AllocateFallback(n, FALSE)

(* Padding that AllocateAligned puts before the result. *)
Slop(p) == IF p % Align = 0 THEN 0 ELSE Align - (p % Align)

(* AllocateAligned(n): pad alloc_ptr_ up to the alignment if the padded *)
(* request fits, else fall back (a new block starts aligned).           *)
AllocateAligned(n) ==
  LET needed == n + Slop(ptr) IN
  \/ /\ needed <= remaining
     /\ ptr' = ptr + needed
     /\ remaining' = remaining - needed
     /\ allocs' = allocs \cup {<<cur, ptr + Slop(ptr), n, TRUE>>}
     /\ UNCHANGED <<blocks, cur, usage>>
  \/ needed > remaining /\ AllocateFallback(n, TRUE)

Next == \E n \in Sizes : Allocate(n) \/ AllocateAligned(n)

Spec == Init /\ [][Next]_vars

-----------------------------------------------------------------------------
(* Every range handed out lies inside its block, and no two overlap: the *)
(* bump pointer and alloc_bytes_remaining_ move together on every path,  *)
(* and a fallback never serves from memory already given out.            *)
AllocationsDisjoint ==
  /\ \A a \in allocs : a[1] \in 1..Len(blocks) /\ a[2] + a[3] <= blocks[a[1]]
  /\ \A a, b \in allocs :
       a # b /\ a[1] = b[1] => a[2] + a[3] <= b[2] \/ b[2] + b[3] <= a[2]

=============================================================================
