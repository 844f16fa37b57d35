----------------------------- MODULE KernelHeap -----------------------------
(***************************************************************************)
(* The kernel heap: src/memory/heap/heap.c behind the wrappers of kheap.c. *)
(* The heap is an array of equal blocks described by a table of one entry  *)
(* per block.  An allocation is a run of blocks whose entries say "taken,  *)
(* more follow" except the last, which says "taken, last".                 *)
(*                                                                         *)
(* Every call runs to completion with interrupts disabled, so a call is    *)
(* one step here; HeapLoops splits the calls into their loop iterations    *)
(* and implements this module.  kMalloc, kZalloc and kFree add only the    *)
(* fixed heap argument and the zeroing of the caller's own bytes.          *)
(***************************************************************************)
EXTENDS Integers, FiniteSetsExt

CONSTANTS
  HEAP_BLOCK_SIZE_BYTES,  \* 4096 in config.h
  HEAP_SIZE_IN_BYTES,     \* 104857600 in config.h
  HEAP_START_ADDR,        \* 0x1000000 in config.h
  SIZE_MOD,               \* size_t arithmetic is modulo 2^32
  Requests,               \* byte counts callers pass to kMalloc and kZalloc
  StrayAddrs              \* addresses callers pass to kFree that are not
                          \* multiples of the block size

(* KheapInit passes CreateHeap a size that is a multiple of the block      *)
(* size, so its -EINVARG path is never taken; NULL is not a heap address.  *)
ASSUME HeapAssumption ==
  /\ HEAP_BLOCK_SIZE_BYTES \in Nat \ {0}
  /\ HEAP_SIZE_IN_BYTES \in Nat
  /\ HEAP_SIZE_IN_BYTES % HEAP_BLOCK_SIZE_BYTES = 0
  /\ HEAP_START_ADDR \in Nat \ {0}
  /\ HEAP_START_ADDR % HEAP_BLOCK_SIZE_BYTES = 0
  /\ SIZE_MOD \in Nat \ {0}
  /\ Requests \subseteq 0 .. SIZE_MOD - 1
  /\ \A x \in StrayAddrs : x \in Nat /\ x % HEAP_BLOCK_SIZE_BYTES # 0

VARIABLES
  entries,  \* heap->table.entries
  live,     \* the allocations callers hold: first block, number of blocks
  ret       \* the last call: its name, its argument and its result

vars == <<entries, live, ret>>

-----------------------------------------------------------------------------
(* heap->table.total and the values of a table entry (heap.h).             *)
Total == HEAP_SIZE_IN_BYTES \div HEAP_BLOCK_SIZE_BYTES
Blocks == 0 .. Total - 1

ENTRY_FREE == 0        \* HEAP_BLOCK_TABLE_ENTRY_FREE
ENTRY_HAS_NEXT == 129  \* HEAP_BLOCK_TABLE_ENTRY_TAKEN | HEAP_BLOCK_HAS_NEXT
ENTRY_IS_LAST == 65    \* HEAP_BLOCK_TABLE_ENTRY_TAKEN | HEAP_BLOCK_IS_LAST

NULL == 0
EINVARG == 1

Allocation(s, n) == [start |-> s, blocks |-> n]
Call(name, arg, val) == [call |-> name, arg |-> arg, val |-> val]
AddrOf(block) == HEAP_START_ADDR + block * HEAP_BLOCK_SIZE_BYTES
BlockOf(addr) == (addr - HEAP_START_ADDR) \div HEAP_BLOCK_SIZE_BYTES

-----------------------------------------------------------------------------
(* Bytes rounded up to blocks.  The sum wraps at SIZE_MOD: a request       *)
(* within one block of the largest size_t rounds to no block at all.       *)
BlocksToAllocate(bytes) ==
  LET over == bytes % HEAP_BLOCK_SIZE_BYTES
      rounded == IF over = 0 THEN bytes
                 ELSE (bytes + (HEAP_BLOCK_SIZE_BYTES - over)) % SIZE_MOD
  IN  rounded \div HEAP_BLOCK_SIZE_BYTES

(* The starts of n free neighbours, and of the free run that reaches the   *)
(* end of the table.                                                       *)
FreeRuns(t, n) ==
  {s \in Blocks : s + n <= Total /\ \A k \in s .. s + n - 1 : t[k] = ENTRY_FREE}
TrailingRuns(t) ==
  {s \in Blocks : \A k \in s .. Total - 1 : t[k] = ENTRY_FREE}

(* Mutants: a run accepted one free block early, and a scan that stops one *)
(* entry before the end of the table.                                      *)
SearchAcceptsEarly(t, n) ==
  LET runs == {s \in Blocks : s + n <= Total /\ \A k \in s .. s + n - 2 : t[k] = ENTRY_FREE}
  IN  IF runs = {} THEN -1 ELSE Min(runs)
SearchSkipsLast(t, n) ==
  LET runs == {s \in FreeRuns(t, n) : s + n < Total}
  IN  IF runs = {} THEN -1 ELSE Min(runs)

(* First fit.  The loop returns early when its run of free blocks reaches  *)
(* n; the return after the loop hands out the start of whatever free run   *)
(* was open at the end of the table, however short it is, and -1 only      *)
(* when the last block is taken.  A count of 0 never matches.              *)
searchForContiguousBlocks(t, n) ==
  IF n > 0 /\ FreeRuns(t, n) # {} THEN Min(FreeRuns(t, n))
  ELSE IF TrailingRuns(t) # {} THEN Min(TrailingRuns(t))
  ELSE -1

(* Mutant: the last entry is written without its "last" flag.              *)
MarkWithoutLast(t, si, n) ==
  [i \in Blocks |-> IF i = si + n - 1 THEN 1
                    ELSE IF i \in si .. si + n - 2 THEN ENTRY_HAS_NEXT
                    ELSE t[i]]

(* Entries past the end of the table are written too; nothing reads them.  *)
UpdateHeapTableOfAllocation(t, si, n) ==
  [i \in Blocks |-> IF i = si + n - 1 THEN ENTRY_IS_LAST
                    ELSE IF i \in si .. si + n - 2 THEN ENTRY_HAS_NEXT
                    ELSE t[i]]

(* Mutant: the store after the loop, which clears the last entry, is lost. *)
ClearKeepsLast(t, si) ==
  LET lasts == {i \in Blocks : i >= si /\ t[i] = ENTRY_IS_LAST}
      upto == IF lasts = {} THEN Total - 1 ELSE Min(lasts) - 1
  IN  [i \in Blocks |-> IF i \in si .. upto THEN ENTRY_FREE ELSE t[i]]

(* The entries HeapFree clears: from si through the first "last" entry, or *)
(* through the end of the table when there is none.                        *)
ClearFrom(t, si) ==
  LET lasts == {i \in Blocks : i >= si /\ t[i] = ENTRY_IS_LAST}
      upto == IF lasts = {} THEN Total - 1 ELSE Min(lasts)
  IN  [i \in Blocks |-> IF i \in si .. upto THEN ENTRY_FREE ELSE t[i]]

-----------------------------------------------------------------------------
(* KheapInit: CreateHeap and InitializeHeapTable.                          *)
Init ==
  /\ entries = [i \in Blocks |-> ENTRY_FREE]
  /\ live = {}
  /\ ret = Call("CreateHeap", 0, 0)

(* HeapMalloc when a start is found.  A request of no blocks while the     *)
(* whole heap is free makes the store loop of UpdateHeapTableOfAllocation  *)
(* run through all of memory: the call does not return, so it is no step.  *)
HeapMalloc(bytes) ==
  LET n == BlocksToAllocate(bytes)
      si == searchForContiguousBlocks(entries, n)
  IN  /\ si # -1
      /\ n > 0 \/ si > 0
      /\ entries' = UpdateHeapTableOfAllocation(entries, si, n)
      /\ live' = live \cup {Allocation(si, n)}
      /\ ret' = Call("HeapMalloc", bytes, AddrOf(si))

HeapMallocFails(bytes) ==
  /\ searchForContiguousBlocks(entries, BlocksToAllocate(bytes)) = -1
  /\ ret' = Call("HeapMalloc", bytes, NULL)
  /\ UNCHANGED <<entries, live>>

(* HeapFree of the address HeapMalloc returned for allocation a.           *)
HeapFree(a) ==
  LET addr == AddrOf(a.start)
  IN  /\ addr % HEAP_BLOCK_SIZE_BYTES = 0
      /\ entries' = ClearFrom(entries, BlockOf(addr))
      /\ live' = live \ {a}
      /\ ret' = Call("HeapFree", addr, 0)

HeapFreeRejects(addr) ==
  /\ addr % HEAP_BLOCK_SIZE_BYTES # 0
  /\ ret' = Call("HeapFree", addr, -EINVARG)
  /\ UNCHANGED <<entries, live>>

Next ==
  \/ \E bytes \in Requests : HeapMalloc(bytes) \/ HeapMallocFails(bytes)
  \/ \E a \in live : HeapFree(a)
  \/ \E addr \in StrayAddrs : HeapFreeRejects(addr)

Spec == Init /\ [][Next]_vars

-----------------------------------------------------------------------------
RunOf(a) == a.start .. a.start + a.blocks - 1
LastOf(a) == a.start + a.blocks - 1

(* Every request rounds to at least one block.                             *)
NonZeroRequests == \A bytes \in Requests : BlocksToAllocate(bytes) > 0

(* Types of the table, the allocations callers hold and the last call.     *)
TypeOK ==
  /\ entries \in [Blocks -> {ENTRY_FREE, ENTRY_HAS_NEXT, ENTRY_IS_LAST}]
  /\ live \subseteq [start : Blocks, blocks : Nat]
  /\ ret \in [call : {"CreateHeap", "HeapMalloc", "HeapFree"}, arg : Nat, val : Int]

(* No two allocations that callers of HeapMalloc hold share a block, the   *)
(* blocks past the end of the heap included.                               *)
LiveDisjoint ==
  \A a, b \in live : a # b => RunOf(a) \cap RunOf(b) = {}

(* The table says exactly what callers hold: HeapMalloc and HeapFree keep  *)
(* an entry free if and only if no caller holds its block, and mark the    *)
(* last block of each allocation and no other as the last.                 *)
TableMatchesLive ==
  \A i \in Blocks :
    /\ entries[i] = ENTRY_FREE <=> \A a \in live : i \notin RunOf(a)
    /\ entries[i] = ENTRY_IS_LAST <=> \E a \in live : i = LastOf(a)

(* heap.h says HeapMalloc allocates the required number of bytes: every    *)
(* block of an allocation is then a block of the heap.                     *)
AllocationsInsideHeap ==
  \A a \in live : RunOf(a) \subseteq Blocks

(* The last call as HeapContract sees it.                                  *)
ContractAnswer ==
  CASE ret.call = "CreateHeap" -> [op |-> "none", n |-> 0, ok |-> TRUE]
    [] ret.call = "HeapMalloc" ->
         [op |-> "malloc", n |-> BlocksToAllocate(ret.arg), ok |-> ret.val # NULL]
    [] OTHER -> [op |-> "free", n |-> 0, ok |-> ret.val = 0]

Contract == INSTANCE HeapContract WITH
  Counts <- {BlocksToAllocate(bytes) : bytes \in Requests},
  answer <- ContractAnswer

(* HeapMalloc and HeapFree behave as HeapContract allows, step by step: a  *)
(* grant touches no block a caller holds, HeapMalloc returns NULL only     *)
(* when no run of the requested length is unused, and HeapFree ends        *)
(* exactly the allocation it was given.                                    *)
ImplementsContract == Contract!Spec
=============================================================================
