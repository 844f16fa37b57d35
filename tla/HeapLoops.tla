----------------------------- MODULE HeapLoops ------------------------------
(***************************************************************************)
(* heap.c one loop iteration at a time.  KernelHeap states what the search *)
(* of a free run, the marking of an allocation and the clearing of one     *)
(* compute; here they are the loops of the source, which read and write    *)
(* the table entry by entry, and are shown to implement KernelHeap.        *)
(*                                                                         *)
(* A request of no blocks is left out: its marking loop need not end.      *)
(***************************************************************************)
EXTENDS KernelHeap

ASSUME LoopAssumption == NonZeroRequests

VARIABLES
  pc,       \* the loop being executed, or "idle" between calls
  i,        \* the loop variable
  st,       \* bs of the search, stIndex of the marking, si of HeapFree
  bc,       \* the length of the run of free blocks the search is in
  arg,      \* HeapMalloc's argument, the bytes requested
  held,     \* HeapFree's argument, as the allocation at that address
  settled   \* the table as the last completed call left it

loopVars == <<entries, live, ret, pc, i, st, bc, arg, held, settled>>

n == BlocksToAllocate(arg)

Nothing == Allocation(0, 0)

(* A store to the table; one past its end changes no entry.                *)
Store(k, v) == entries' = [j \in Blocks |-> IF j = k THEN v ELSE entries[j]]

-----------------------------------------------------------------------------
LoopInit ==
  /\ Init
  /\ pc = "idle" /\ i = 0 /\ st = -1 /\ bc = 0 /\ arg = 0
  /\ held = Nothing
  /\ settled = entries

(* The locals go out of scope when a call returns.                         *)
Return ==
  /\ pc' = "idle" /\ i' = 0 /\ st' = -1 /\ bc' = 0 /\ arg' = 0
  /\ held' = Nothing
  /\ settled' = entries'

MallocCall(bytes) ==
  /\ pc = "idle"
  /\ pc' = "scan" /\ i' = 0 /\ st' = -1 /\ bc' = 0 /\ arg' = bytes
  /\ UNCHANGED <<entries, live, ret, held, settled>>

(* Mutants: the counter is not reset by a taken block; the marking goes on *)
(* from the loop variable of the search instead of the start of the run.   *)
ScanTakenKeepsCount ==
  /\ pc = "scan" /\ i < Total /\ entries[i] # ENTRY_FREE
  /\ i' = i + 1
  /\ UNCHANGED <<entries, live, ret, pc, st, bc, arg, held, settled>>
ScanFreeMarksFromEnd ==
  /\ pc = "scan" /\ i < Total /\ entries[i] = ENTRY_FREE
  /\ st' = IF bc = 0 THEN i ELSE st
  /\ bc' = bc + 1
  /\ IF bc + 1 = n THEN pc' = "mark" /\ i' = i
                   ELSE pc' = "scan" /\ i' = i + 1
  /\ UNCHANGED <<entries, live, ret, arg, held, settled>>

ScanFree ==
  /\ pc = "scan" /\ i < Total /\ entries[i] = ENTRY_FREE
  /\ st' = IF bc = 0 THEN i ELSE st
  /\ bc' = bc + 1
  /\ IF bc + 1 = n THEN pc' = "mark" /\ i' = st'
                   ELSE pc' = "scan" /\ i' = i + 1
  /\ UNCHANGED <<entries, live, ret, arg, held, settled>>

ScanTaken ==
  /\ pc = "scan" /\ i < Total /\ entries[i] # ENTRY_FREE
  /\ st' = -1 /\ bc' = 0 /\ i' = i + 1
  /\ UNCHANGED <<entries, live, ret, pc, arg, held, settled>>

(* The return after the loop: -1, or the run still open at the end.        *)
ScanEndsEmpty ==
  /\ pc = "scan" /\ i = Total /\ st = -1
  /\ ret' = Call("HeapMalloc", arg, NULL)
  /\ UNCHANGED <<entries, live>>
  /\ Return

ScanEndsOpen ==
  /\ pc = "scan" /\ i = Total /\ st # -1
  /\ pc' = "mark" /\ i' = st
  /\ UNCHANGED <<entries, live, ret, st, bc, arg, held, settled>>

MarkNext ==
  /\ pc = "mark" /\ i < st + n - 1
  /\ Store(i, ENTRY_HAS_NEXT)
  /\ i' = i + 1
  /\ UNCHANGED <<live, ret, pc, st, bc, arg, held, settled>>

(* Mutant: the last entry is written without its "last" flag.              *)
MarkLastUnflagged ==
  /\ pc = "mark" /\ i = st + n - 1
  /\ Store(i, 1)
  /\ live' = live \cup {Allocation(st, n)}
  /\ ret' = Call("HeapMalloc", arg, AddrOf(st))
  /\ Return

MarkLast ==
  /\ pc = "mark" /\ i = st + n - 1
  /\ Store(i, ENTRY_IS_LAST)
  /\ live' = live \cup {Allocation(st, n)}
  /\ ret' = Call("HeapMalloc", arg, AddrOf(st))
  /\ Return

FreeCall(a) ==
  LET addr == AddrOf(a.start)
  IN  /\ pc = "idle"
      /\ addr % HEAP_BLOCK_SIZE_BYTES = 0
      /\ pc' = "clear" /\ i' = BlockOf(addr) /\ st' = BlockOf(addr) /\ held' = a
      /\ UNCHANGED <<entries, live, ret, bc, arg, settled>>

FreeReturns ==
  /\ live' = live \ {held}
  /\ ret' = Call("HeapFree", AddrOf(held.start), 0)
  /\ Return

(* Mutant: the loop variable of HeapFree does not advance.                 *)
ClearStalls ==
  /\ pc = "clear" /\ i < Total /\ entries[i] # ENTRY_IS_LAST
  /\ Store(i, ENTRY_FREE)
  /\ UNCHANGED <<live, ret, pc, i, st, bc, arg, held, settled>>

ClearNext ==
  /\ pc = "clear" /\ i < Total /\ entries[i] # ENTRY_IS_LAST
  /\ Store(i, ENTRY_FREE)
  /\ i' = i + 1
  /\ UNCHANGED <<live, ret, pc, st, bc, arg, held, settled>>

(* last = i when the loop breaks, last = si when it runs off the table.    *)
ClearFoundLast ==
  /\ pc = "clear" /\ i < Total /\ entries[i] = ENTRY_IS_LAST
  /\ Store(i, ENTRY_FREE)
  /\ FreeReturns

ClearRanOff ==
  /\ pc = "clear" /\ i = Total
  /\ Store(st, ENTRY_FREE)
  /\ FreeReturns

FreeRejected(addr) ==
  /\ pc = "idle"
  /\ HeapFreeRejects(addr)
  /\ UNCHANGED <<pc, i, st, bc, arg, held, settled>>

Iteration ==
  \/ ScanFree \/ ScanTaken \/ ScanEndsEmpty \/ ScanEndsOpen
  \/ MarkNext \/ MarkLast
  \/ ClearNext \/ ClearFoundLast \/ ClearRanOff

LoopNext ==
  \/ \E bytes \in Requests : MallocCall(bytes)
  \/ \E a \in live : FreeCall(a)
  \/ \E addr \in StrayAddrs : FreeRejected(addr)
  \/ Iteration

(* A call that has begun is executed to its end: interrupts are off.       *)
LoopSpec == LoopInit /\ [][LoopNext]_loopVars /\ WF_loopVars(Iteration)

-----------------------------------------------------------------------------
(* Types of the table and of the locals of the running call.               *)
LoopTypeOK ==
  /\ entries \in [Blocks -> {ENTRY_FREE, ENTRY_HAS_NEXT, ENTRY_IS_LAST}]
  /\ settled \in [Blocks -> {ENTRY_FREE, ENTRY_HAS_NEXT, ENTRY_IS_LAST}]
  /\ live \subseteq [start : Blocks, blocks : Nat]
  /\ pc \in {"idle", "scan", "mark", "clear"}
  /\ i \in Nat /\ bc \in Nat /\ st \in Int
  /\ pc \in {"scan", "mark"} => arg \in Requests
  /\ pc = "clear" => held \in live

(* What the search knows: the bc blocks before i are free, the one before  *)
(* them is not, and no run that is long enough starts before them.         *)
ScanInv ==
  pc = "scan" =>
    /\ entries = settled
    /\ bc <= i /\ bc < n /\ i <= Total
    /\ st = IF bc = 0 THEN -1 ELSE i - bc
    /\ \A k \in Blocks : i - bc <= k /\ k < i => settled[k] = ENTRY_FREE
    /\ i - bc > 0 => settled[i - bc - 1] # ENTRY_FREE
    /\ \A s \in FreeRuns(settled, n) : i - bc <= s

(* The marking overwrites, from the start the search found, free entries.  *)
MarkInv ==
  pc = "mark" =>
    /\ st = searchForContiguousBlocks(settled, n) /\ st \in Blocks
    /\ st <= i /\ i <= st + n - 1
    /\ entries = [k \in Blocks |-> IF st <= k /\ k < i THEN ENTRY_HAS_NEXT ELSE settled[k]]

(* The clearing has met no "last" entry yet.                               *)
ClearInv ==
  pc = "clear" =>
    /\ AddrOf(held.start) % HEAP_BLOCK_SIZE_BYTES = 0
    /\ st = BlockOf(AddrOf(held.start)) /\ st \in Blocks
    /\ st <= i /\ i <= Total
    /\ \A k \in Blocks : st <= k /\ k < i => settled[k] # ENTRY_IS_LAST
    /\ entries = [k \in Blocks |-> IF st <= k /\ k < i THEN ENTRY_FREE ELSE settled[k]]

(* The loops of HeapMalloc and HeapFree keep their loop invariants.        *)
LoopInv == ScanInv /\ MarkInv /\ ClearInv /\ (pc = "idle" => entries = settled)

Heap == INSTANCE KernelHeap WITH entries <- settled

(* The loops compute what KernelHeap says: searchForContiguousBlocks finds *)
(* the first fit, and HeapFree clears up to the first "last" entry.        *)
ImplementsKernelHeap == Heap!Spec

(* Every call of HeapMalloc and HeapFree returns.                          *)
CallsReturn == pc # "idle" ~> pc = "idle"
=============================================================================
