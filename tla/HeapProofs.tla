----------------------------- MODULE HeapProofs -----------------------------
(***************************************************************************)
(* Proofs about the kernel heap for every heap size, block size and set of *)
(* requests that round to at least one block: first of the atomic calls of *)
(* KernelHeap, then of the loops of heap.c in HeapLoops.                   *)
(*                                                                         *)
(* The inductive invariant of the calls is the table's agreement with the  *)
(* allocations callers hold together with their disjointness: each is      *)
(* needed to preserve the other.  The one delicate point is a run that     *)
(* HeapMalloc hands out past the end of the table, where no entry records  *)
(* it; such a run always covers the last block, whose entry does.          *)
(*                                                                         *)
(* The loops compute what the calls say: the inductive invariant is the    *)
(* loop invariants of HeapLoops with their types.                          *)
(***************************************************************************)
EXTENDS HeapLoops, WellFoundedInduction, TLAPS

-----------------------------------------------------------------------------
(* A nonempty set of naturals has a least element.                         *)
LEMMA LeastNat ==
  ASSUME NEW S \in SUBSET Nat, S # {}
  PROVE  \E x \in S : \A y \in S : x <= y
<1> DEFINE R == OpToRel(<, Nat)
<1>1. PICK x \in S : \A y \in S : ~ (<<y, x>> \in R)
  <2>1. IsWellFoundedOn(R, Nat)
    BY NatLessThanWellFounded
  <2> HIDE DEF R
  <2>2. QED
    BY <2>1, WFMin
<1>2. ASSUME NEW y \in S
      PROVE  x <= y
  <2>1. <<y, x>> \in Nat \X Nat
    OBVIOUS
  <2>2. ~ (y < x)
    BY <2>1, <1>1 DEF OpToRel
  <2>3. QED
    BY <2>2
<1>3. QED
  BY <1>2

(* What Min returns for the sets of blocks it is applied to.               *)
LEMMA MinOfNats ==
  ASSUME NEW S \in SUBSET Nat, S # {}
  PROVE  Min(S) \in S /\ \A y \in S : Min(S) <= y
<1>1. \E x \in S : \A y \in S : x <= y
  BY LeastNat
<1>2. QED
  BY <1>1 DEF Min

(* The table has a natural number of entries.                              *)
LEMMA TotalIsNat == Total \in Nat
BY HeapAssumption DEF Total

(* Block numbers are naturals below Total.                                 *)
LEMMA BlocksAreNats ==
  /\ Blocks \in SUBSET Nat
  /\ \A j \in Nat : j \in Blocks <=> j < Total
BY TotalIsNat DEF Blocks

(* HeapFree computes from an address the block HeapMalloc made it from.    *)
LEMMA BlockOfAddr ==
  ASSUME NEW j \in Nat
  PROVE  BlockOf(AddrOf(j)) = j
<1>1. HEAP_BLOCK_SIZE_BYTES \in Nat \ {0} /\ HEAP_START_ADDR \in Nat
  BY HeapAssumption
<1>2. (j * HEAP_BLOCK_SIZE_BYTES) \div HEAP_BLOCK_SIZE_BYTES = j
  BY <1>1
<1>3. AddrOf(j) - HEAP_START_ADDR = j * HEAP_BLOCK_SIZE_BYTES
  <2>1. j * HEAP_BLOCK_SIZE_BYTES \in Nat
    BY <1>1
  <2>2. QED
    BY <1>1, <2>1 DEF AddrOf
<1>4. QED
  BY <1>2, <1>3 DEF BlockOf

(* A block count is a natural number.                                      *)
LEMMA BlockCount ==
  ASSUME NEW bytes \in Requests
  PROVE  bytes \in Nat /\ BlocksToAllocate(bytes) \in Nat
<1> DEFINE B == HEAP_BLOCK_SIZE_BYTES
           over == bytes % B
           rounded == IF over = 0 THEN bytes ELSE (bytes + (B - over)) % SIZE_MOD
<1>1. B \in Nat \ {0} /\ SIZE_MOD \in Nat \ {0} /\ bytes \in Nat
  BY HeapAssumption
<1>2. over \in Nat
  BY <1>1
<1>3. bytes + (B - over) \in Int
  BY <1>1, <1>2
<1>4. rounded \in Nat
  BY <1>1, <1>2, <1>3
<1> HIDE DEF rounded
<1>5. rounded \div B \in Nat
  BY <1>1, <1>4
<1>6. QED
  BY <1>1, <1>5 DEF BlocksToAllocate, rounded

-----------------------------------------------------------------------------
Entry == {ENTRY_FREE, ENTRY_HAS_NEXT, ENTRY_IS_LAST}

(* The search returns -1 only when nothing fits.  Any other result starts  *)
(* a run that is free as far as the table goes, and a run that leaves the  *)
(* table begins in a free stretch that reaches the last entry.             *)
LEMMA SearchResult ==
  ASSUME NEW t \in [Blocks -> Entry], NEW count \in Nat \ {0},
         NEW si, si = searchForContiguousBlocks(t, count)
  PROVE  /\ si = -1 => FreeRuns(t, count) = {}
         /\ si # -1 => /\ si \in Blocks
                       /\ \A k \in Blocks : si <= k /\ k < si + count => t[k] = ENTRY_FREE
                       /\ Total <= si + count => t[Total - 1] = ENTRY_FREE
<1>1. FreeRuns(t, count) \in SUBSET Nat /\ TrailingRuns(t) \in SUBSET Nat
  BY BlocksAreNats DEF FreeRuns, TrailingRuns
<1>2. CASE FreeRuns(t, count) # {}
  <2>1. si \in FreeRuns(t, count)
    BY <1>1, <1>2, MinOfNats DEF searchForContiguousBlocks
  <2>2. /\ si \in Blocks /\ si + count <= Total
        /\ \A k \in si .. si + count - 1 : t[k] = ENTRY_FREE
    BY <2>1 DEF FreeRuns
  <2>3. si \in Nat
    BY <2>2, BlocksAreNats
  <2>4. QED
    BY <2>2, <2>3, TotalIsNat, BlocksAreNats
<1>3. CASE FreeRuns(t, count) = {} /\ TrailingRuns(t) # {}
  <2>1. si \in TrailingRuns(t)
    BY <1>1, <1>3, MinOfNats DEF searchForContiguousBlocks
  <2>2. si \in Blocks /\ \A k \in si .. Total - 1 : t[k] = ENTRY_FREE
    BY <2>1 DEF TrailingRuns
  <2>3. si \in Nat
    BY <2>2, BlocksAreNats
  <2>4. QED
    BY <1>3, <2>2, <2>3, TotalIsNat, BlocksAreNats
<1>4. CASE FreeRuns(t, count) = {} /\ TrailingRuns(t) = {}
  BY <1>4 DEF searchForContiguousBlocks
<1>5. QED
  BY <1>2, <1>3, <1>4

-----------------------------------------------------------------------------
(* No caller holds an allocation of no blocks.                             *)
HeldNonEmpty == \A a \in live : a.blocks > 0

(* The inductive invariant.                                                *)
IInv == TypeOK /\ HeldNonEmpty /\ LiveDisjoint /\ TableMatchesLive

(* The types of an allocation a caller holds.                              *)
LEMMA HeldTypes ==
  ASSUME IInv, NEW a \in live
  PROVE  /\ a.start \in Blocks /\ a.start \in Nat
         /\ a.blocks \in Nat \ {0}
         /\ LastOf(a) \in RunOf(a)
<1>1. a \in [start : Blocks, blocks : Nat]
  BY DEF IInv, TypeOK
<1>2. a.start \in Blocks /\ a.blocks \in Nat
  BY <1>1
<1>3. a.blocks > 0
  BY DEF IInv, HeldNonEmpty
<1>4. a.start \in Nat
  BY <1>2, BlocksAreNats
<1>5. QED
  BY <1>2, <1>3, <1>4 DEF LastOf, RunOf

(* The run HeapMalloc hands out touches no allocation a caller holds.      *)
LEMMA NewRunUnused ==
  ASSUME IInv, NEW count \in Nat \ {0}, NEW si,
         si = searchForContiguousBlocks(entries, count), si # -1,
         NEW a \in live
  PROVE  RunOf(a) \cap (si .. si + count - 1) = {}
<1>1. entries \in [Blocks -> Entry] /\ a.start \in Blocks /\ a.blocks \in Nat
  BY HeldTypes DEF IInv, TypeOK, Entry
<1>2. /\ si \in Blocks
      /\ \A k \in Blocks : si <= k /\ k < si + count => entries[k] = ENTRY_FREE
      /\ Total <= si + count => entries[Total - 1] = ENTRY_FREE
  BY <1>1, SearchResult
<1>3. /\ si \in Nat /\ a.start \in Nat /\ Total \in Nat
      /\ \A j \in Nat : j \in Blocks <=> j < Total
  BY <1>1, <1>2, BlocksAreNats, TotalIsNat
<1>4. SUFFICES ASSUME NEW x \in RunOf(a), x \in si .. si + count - 1
               PROVE  FALSE
  OBVIOUS
<1>5. x \in Nat /\ a.start <= x /\ x < a.start + a.blocks
  BY <1>1, <1>3 DEF RunOf
<1>6. \A j \in Blocks : j \in RunOf(a) => entries[j] # ENTRY_FREE
  BY DEF IInv, TableMatchesLive
<1>7. CASE x < Total
  BY <1>2, <1>3, <1>4, <1>5, <1>6, <1>7
<1>8. CASE Total <= x
  <2>1. Total - 1 \in RunOf(a) /\ Total - 1 \in Blocks
    BY <1>1, <1>3, <1>5, <1>8 DEF RunOf
  <2>2. Total <= si + count
    BY <1>3, <1>4, <1>8
  <2>3. QED
    BY <1>2, <1>6, <2>1, <2>2
<1>9. QED
  BY <1>3, <1>5, <1>7, <1>8

(* HeapFree clears the entries of the allocation it is given, no others.   *)
LEMMA ClearsExactly ==
  ASSUME IInv, NEW a \in live
  PROVE  ClearFrom(entries, a.start) =
           [j \in Blocks |-> IF j \in RunOf(a) THEN ENTRY_FREE ELSE entries[j]]
<1> DEFINE lasts == {j \in Blocks : j >= a.start /\ entries[j] = ENTRY_IS_LAST}
           upto == IF lasts = {} THEN Total - 1 ELSE Min(lasts)
<1>1. /\ a.start \in Nat /\ a.blocks \in Nat \ {0} /\ Total \in Nat
      /\ a.start \in Blocks
      /\ \A j \in Nat : j \in Blocks <=> j < Total
  BY HeldTypes, BlocksAreNats, TotalIsNat
<1>2. lasts \in SUBSET Nat
  BY BlocksAreNats
<1>3. LastOf(a) \in Nat /\ a.start <= LastOf(a)
  BY <1>1 DEF LastOf
<1>4. ASSUME NEW j \in lasts
      PROVE  LastOf(a) <= j
  <2>1. PICK b \in live : j = LastOf(b)
    BY DEF IInv, TableMatchesLive
  <2>2. b.start \in Nat /\ b.blocks \in Nat \ {0}
    BY HeldTypes
  <2>3. j \in RunOf(b)
    BY <2>1, <2>2 DEF RunOf, LastOf
  <2>4. CASE b = a
    BY <1>2, <1>3, <2>1, <2>4
  <2>5. CASE b # a
    <3>1. j \notin RunOf(a)
      BY <2>3, <2>5 DEF IInv, LiveDisjoint
    <3>2. j \in Nat /\ a.start <= j
      BY <1>1, <1>2
    <3>3. QED
      BY <1>1, <3>1, <3>2 DEF RunOf, LastOf
  <2>6. QED
    BY <2>4, <2>5
<1>5. ASSUME NEW j \in Blocks
      PROVE  j \in a.start .. upto <=> j \in RunOf(a)
  <2>1. j \in Nat /\ j < Total
    BY BlocksAreNats
  <2>2. CASE LastOf(a) \in Blocks
    <3>1. entries[LastOf(a)] = ENTRY_IS_LAST
      BY <2>2 DEF IInv, TableMatchesLive
    <3>2. LastOf(a) \in lasts
      BY <1>1, <1>3, <2>2, <3>1
    <3>3. Min(lasts) = LastOf(a)
      <4>1. Min(lasts) \in lasts /\ Min(lasts) <= LastOf(a)
        <5> HIDE DEF lasts
        <5> QED
          BY <1>2, <3>2, MinOfNats
      <4>2. LastOf(a) <= Min(lasts)
        BY <1>4, <4>1
      <4>3. Min(lasts) \in Nat
        <5> HIDE DEF lasts
        <5> QED
          BY <1>2, <4>1
      <4>4. QED
        BY <1>3, <4>1, <4>2, <4>3
    <3>4. QED
      BY <1>1, <2>1, <3>2, <3>3 DEF RunOf, LastOf
  <2>3. CASE LastOf(a) \notin Blocks
    <3>1. lasts = {}
      BY <1>1, <1>2, <1>3, <1>4, <2>3
    <3>2. QED
      BY <1>1, <1>3, <2>1, <2>3, <3>1 DEF RunOf, LastOf
  <2>4. QED
    BY <2>2, <2>3
<1>6. QED
  BY <1>5 DEF ClearFrom

-----------------------------------------------------------------------------
(* KheapInit establishes the invariant.                                    *)
LEMMA InitInv == Init => IInv
<1> SUFFICES ASSUME Init
             PROVE  IInv
  OBVIOUS
<1>1. TypeOK
  BY DEF Init, TypeOK, Call
<1>2. HeldNonEmpty /\ LiveDisjoint
  BY DEF Init, HeldNonEmpty, LiveDisjoint
<1>3. TableMatchesLive
  BY DEF Init, TableMatchesLive, ENTRY_FREE, ENTRY_IS_LAST
<1>4. QED
  BY <1>1, <1>2, <1>3 DEF IInv

(* A successful HeapMalloc preserves the invariant.                        *)
LEMMA MallocInv ==
  ASSUME NonZeroRequests, IInv, NEW bytes \in Requests, HeapMalloc(bytes)
  PROVE  IInv'
<1> DEFINE count == BlocksToAllocate(bytes)
           si == searchForContiguousBlocks(entries, count)
           new == Allocation(si, count)
<1>1. count \in Nat \ {0} /\ bytes \in Nat
  BY BlockCount DEF NonZeroRequests
<1>2. /\ si # -1
      /\ entries' = UpdateHeapTableOfAllocation(entries, si, count)
      /\ live' = live \cup {new}
      /\ ret' = Call("HeapMalloc", bytes, AddrOf(si))
  BY DEF HeapMalloc
<1> HIDE DEF count, si
<1>3. entries \in [Blocks -> Entry]
  BY DEF IInv, TypeOK, Entry
<1>4. si \in Blocks /\ si \in Nat
  <2>1. si \in Blocks
    BY <1>1, <1>2, <1>3, SearchResult DEF si
  <2>2. QED
    BY <2>1, BlocksAreNats
<1>5. \A a \in live : RunOf(a) \cap RunOf(new) = {}
  <2>1. RunOf(new) = si .. si + count - 1
    BY DEF RunOf, Allocation
  <2>2. QED
    BY <1>1, <1>2, <2>1, NewRunUnused DEF si
<1>6. new.start = si /\ new.blocks = count /\ new \in [start : Blocks, blocks : Nat]
  BY <1>1, <1>4 DEF Allocation
<1>7. RunOf(new) = si .. si + count - 1 /\ LastOf(new) = si + count - 1
  BY <1>6 DEF RunOf, LastOf
<1> HIDE DEF new
<1>8. TypeOK'
  <2>1. entries' \in [Blocks -> Entry]
    BY <1>2, <1>3 DEF UpdateHeapTableOfAllocation, Entry
  <2>2. live' \subseteq [start : Blocks, blocks : Nat]
    BY <1>2, <1>6 DEF IInv, TypeOK
  <2>3. AddrOf(si) \in Int
    BY <1>4, HeapAssumption DEF AddrOf
  <2>4. ret' \in [call : {"CreateHeap", "HeapMalloc", "HeapFree"}, arg : Nat, val : Int]
    BY <1>1, <1>2, <2>3 DEF Call
  <2>5. QED
    BY <2>1, <2>2, <2>4 DEF TypeOK, Entry
<1>9. HeldNonEmpty'
  BY <1>1, <1>2, <1>6 DEF IInv, HeldNonEmpty
<1>10. LiveDisjoint'
  BY <1>2, <1>5 DEF IInv, LiveDisjoint, RunOf
<1>11. TableMatchesLive'
  <2> SUFFICES ASSUME NEW j \in Blocks
               PROVE  /\ entries'[j] = ENTRY_FREE <=> \A a \in live' : j \notin RunOf(a)
                      /\ entries'[j] = ENTRY_IS_LAST <=> \E a \in live' : j = LastOf(a)
    BY DEF TableMatchesLive, RunOf, LastOf
  <2>1. entries'[j] = IF j = si + count - 1 THEN ENTRY_IS_LAST
                      ELSE IF j \in si .. si + count - 2 THEN ENTRY_HAS_NEXT
                      ELSE entries[j]
    BY <1>2 DEF UpdateHeapTableOfAllocation
  <2>2. j \in Nat
    BY BlocksAreNats
  <2>3. /\ entries[j] = ENTRY_FREE <=> \A a \in live : j \notin RunOf(a)
        /\ entries[j] = ENTRY_IS_LAST <=> \E a \in live : j = LastOf(a)
    BY DEF IInv, TableMatchesLive
  <2>4. \A a \in live : LastOf(a) \in RunOf(a)
    BY HeldTypes
  <2>5. CASE j = LastOf(new)
    <3>1. j \in RunOf(new)
      BY <1>1, <1>4, <1>7, <2>5
    <3>2. entries'[j] = ENTRY_IS_LAST
      BY <1>7, <2>1, <2>5
    <3>3. QED
      BY <1>2, <2>5, <3>1, <3>2 DEF ENTRY_FREE, ENTRY_IS_LAST
  <2>6. CASE j \in RunOf(new) /\ j # LastOf(new)
    <3>1. j \in si .. si + count - 2
      BY <1>1, <1>4, <1>7, <2>2, <2>6
    <3>2. entries'[j] = ENTRY_HAS_NEXT
      BY <1>7, <2>1, <2>6, <3>1
    <3>3. \A a \in live' : j # LastOf(a)
      BY <1>2, <1>5, <2>4, <2>6
    <3>4. QED
      BY <1>2, <2>6, <3>2, <3>3 DEF ENTRY_FREE, ENTRY_IS_LAST, ENTRY_HAS_NEXT
  <2>7. CASE j \notin RunOf(new)
    <3>1. j # si + count - 1 /\ j \notin si .. si + count - 2
      BY <1>1, <1>4, <1>7, <2>2, <2>7
    <3>2. entries'[j] = entries[j] /\ j # LastOf(new)
      BY <1>7, <2>1, <3>1
    <3>3. QED
      BY <1>2, <2>3, <2>7, <3>2
  <2>8. QED
    BY <2>5, <2>6, <2>7
<1>12. QED
  BY <1>8, <1>9, <1>10, <1>11 DEF IInv

(* HeapFree of an allocation a caller holds preserves the invariant.       *)
LEMMA FreeInv ==
  ASSUME IInv, NEW a \in live, HeapFree(a)
  PROVE  IInv'
<1>1. a.start \in Nat
  BY HeldTypes
<1>2. /\ entries' = [j \in Blocks |-> IF j \in RunOf(a) THEN ENTRY_FREE ELSE entries[j]]
      /\ live' = live \ {a}
      /\ ret' = Call("HeapFree", AddrOf(a.start), 0)
  BY <1>1, BlockOfAddr, ClearsExactly DEF HeapFree
<1>3. TypeOK'
  <2>1. AddrOf(a.start) \in Nat
    BY <1>1, HeapAssumption DEF AddrOf
  <2>2. ret' \in [call : {"CreateHeap", "HeapMalloc", "HeapFree"}, arg : Nat, val : Int]
    BY <1>2, <2>1 DEF Call
  <2>3. QED
    BY <1>2, <2>2 DEF IInv, TypeOK
<1>4. HeldNonEmpty' /\ LiveDisjoint'
  BY <1>2 DEF IInv, HeldNonEmpty, LiveDisjoint, RunOf
<1>5. TableMatchesLive'
  <2> SUFFICES ASSUME NEW j \in Blocks
               PROVE  /\ entries'[j] = ENTRY_FREE <=> \A b \in live' : j \notin RunOf(b)
                      /\ entries'[j] = ENTRY_IS_LAST <=> \E b \in live' : j = LastOf(b)
    BY DEF TableMatchesLive, RunOf, LastOf
  <2>1. entries'[j] = IF j \in RunOf(a) THEN ENTRY_FREE ELSE entries[j]
    BY <1>2
  <2>2. /\ entries[j] = ENTRY_FREE <=> \A b \in live : j \notin RunOf(b)
        /\ entries[j] = ENTRY_IS_LAST <=> \E b \in live : j = LastOf(b)
    BY DEF IInv, TableMatchesLive
  <2>3. \A b \in live : LastOf(b) \in RunOf(b)
    BY HeldTypes
  <2>4. \A b \in live' : RunOf(a) \cap RunOf(b) = {}
    BY <1>2 DEF IInv, LiveDisjoint
  <2>5. QED
    BY <1>2, <2>1, <2>2, <2>3, <2>4 DEF ENTRY_FREE, ENTRY_IS_LAST
<1>6. QED
  BY <1>3, <1>4, <1>5 DEF IInv

(* A call that leaves the table alone preserves the invariant.             *)
LEMMA RefusalInv ==
  ASSUME IInv, UNCHANGED <<entries, live>>,
         ret' \in [call : {"CreateHeap", "HeapMalloc", "HeapFree"}, arg : Nat, val : Int]
  PROVE  IInv'
BY DEF IInv, TypeOK, HeldNonEmpty, LiveDisjoint, TableMatchesLive, RunOf, LastOf

(* Every step preserves the invariant.                                     *)
LEMMA NextInv ==
  ASSUME NonZeroRequests, IInv, [Next]_vars
  PROVE  IInv'
<1>1. ASSUME NEW bytes \in Requests, HeapMalloc(bytes)
      PROVE  IInv'
  BY <1>1, MallocInv
<1>2. ASSUME NEW bytes \in Requests, HeapMallocFails(bytes)
      PROVE  IInv'
  BY <1>2, BlockCount, RefusalInv DEF HeapMallocFails, Call, NULL
<1>3. ASSUME NEW a \in live, HeapFree(a)
      PROVE  IInv'
  BY <1>3, FreeInv
<1>4. ASSUME NEW addr \in StrayAddrs, HeapFreeRejects(addr)
      PROVE  IInv'
  BY <1>4, HeapAssumption, RefusalInv DEF HeapFreeRejects, Call, EINVARG
<1>5. CASE UNCHANGED vars
  BY <1>5, RefusalInv DEF vars, IInv, TypeOK
<1>6. QED
  BY <1>1, <1>2, <1>3, <1>4, <1>5 DEF Next

(* Every reachable state satisfies the inductive invariant.                *)
LEMMA Invariance ==
  ASSUME NonZeroRequests
  PROVE  Spec => []IInv
<1>1. Init => IInv
  BY InitInv
<1>2. IInv /\ [Next]_vars => IInv'
  BY NextInv
<1>3. QED
  BY <1>1, <1>2, PTL DEF Spec

(* The table, the allocations and the answers of HeapMalloc and HeapFree   *)
(* always have their types.                                                *)
THEOREM TypeCorrect ==
  ASSUME NonZeroRequests
  PROVE  Spec => []TypeOK
<1>1. IInv => TypeOK
  BY DEF IInv
<1>2. QED
  BY <1>1, Invariance, PTL

(* HeapMalloc never hands out a block that another caller holds.           *)
THEOREM AllocationsNeverOverlap ==
  ASSUME NonZeroRequests
  PROVE  Spec => []LiveDisjoint
<1>1. IInv => LiveDisjoint
  BY DEF IInv
<1>2. QED
  BY <1>1, Invariance, PTL

(* The heap table always says exactly which blocks callers hold and where  *)
(* each allocation ends.                                                   *)
THEOREM TableIsExact ==
  ASSUME NonZeroRequests
  PROVE  Spec => []TableMatchesLive
<1>1. IInv => TableMatchesLive
  BY DEF IInv
<1>2. QED
  BY <1>1, Invariance, PTL

-----------------------------------------------------------------------------
(* The names HeapContract gives to runs are the names used here.           *)
LEMMA ContractRuns ==
  /\ Contract!Blocks = Blocks
  /\ \A a : Contract!RunOf(a) = RunOf(a)
BY DEF Contract!Blocks, Blocks, Contract!RunOf, RunOf

(* A successful HeapMalloc is a grant of the contract.                     *)
LEMMA MallocGrants ==
  ASSUME NonZeroRequests, IInv, NEW bytes \in Requests, HeapMalloc(bytes)
  PROVE  Contract!Grant(BlocksToAllocate(bytes))
<1> DEFINE count == BlocksToAllocate(bytes)
           si == searchForContiguousBlocks(entries, count)
<1>1. count \in Nat \ {0}
  BY BlockCount DEF NonZeroRequests
<1>2. /\ si # -1
      /\ live' = live \cup {Allocation(si, count)}
      /\ ret' = Call("HeapMalloc", bytes, AddrOf(si))
  BY DEF HeapMalloc
<1> HIDE DEF count, si
<1>3. entries \in [Blocks -> Entry]
  BY DEF IInv, TypeOK, Entry
<1>4. si \in Blocks /\ si \in Nat
  <2>1. si \in Blocks
    BY <1>1, <1>2, <1>3, SearchResult DEF si
  <2>2. QED
    BY <2>1, BlocksAreNats
<1>5. Contract!Unused(si .. si + count - 1)
  BY <1>1, <1>2, NewRunUnused, ContractRuns DEF Contract!Unused, si
<1>6. AddrOf(si) # NULL
  <2>1. si * HEAP_BLOCK_SIZE_BYTES \in Nat /\ HEAP_START_ADDR \in Nat \ {0}
    BY <1>4, HeapAssumption
  <2>2. QED
    BY <2>1 DEF AddrOf, NULL
<1>7. ContractAnswer' = Contract!Answer("malloc", count, TRUE)
  BY <1>2, <1>6 DEF ContractAnswer, Contract!Answer, Call, count
<1>8. QED
  BY <1>2, <1>4, <1>5, <1>7, ContractRuns DEF Contract!Grant, Allocation, count

(* A HeapMalloc that returns NULL is a refusal the contract allows.        *)
LEMMA NullRefuses ==
  ASSUME NonZeroRequests, IInv, NEW bytes \in Requests, HeapMallocFails(bytes)
  PROVE  Contract!Refuse(BlocksToAllocate(bytes))
<1> DEFINE count == BlocksToAllocate(bytes)
<1>1. count \in Nat \ {0}
  BY BlockCount DEF NonZeroRequests
<1>2. /\ searchForContiguousBlocks(entries, count) = -1
      /\ ret' = Call("HeapMalloc", bytes, NULL)
      /\ UNCHANGED live
  BY DEF HeapMallocFails
<1> HIDE DEF count
<1>3. FreeRuns(entries, count) = {}
  BY <1>1, <1>2, SearchResult DEF IInv, TypeOK, Entry
<1>4. ASSUME NEW s \in 0 .. Total - count, Contract!Unused(s .. s + count - 1)
      PROVE  FALSE
  <2>1. s \in Nat /\ s + count <= Total /\ s \in Blocks
    BY <1>1, <1>4, TotalIsNat, BlocksAreNats
  <2>2. ASSUME NEW k \in s .. s + count - 1
        PROVE  entries[k] = ENTRY_FREE
    <3>1. k \in Blocks
      BY <1>1, <2>1, TotalIsNat, BlocksAreNats
    <3>2. \A a \in live : k \notin RunOf(a)
      BY <1>4, ContractRuns DEF Contract!Unused
    <3>3. QED
      BY <3>1, <3>2 DEF IInv, TableMatchesLive
  <2>3. s \in FreeRuns(entries, count)
    BY <2>1, <2>2 DEF FreeRuns
  <2>4. QED
    BY <1>3, <2>3
<1>5. ContractAnswer' = Contract!Answer("malloc", count, FALSE)
  BY <1>2 DEF ContractAnswer, Contract!Answer, Call, count
<1>6. QED
  BY <1>2, <1>4, <1>5 DEF Contract!Refuse, count

(* HeapMalloc and HeapFree implement the contract: no caller is given a    *)
(* block another one holds, NULL means that nothing fits, and HeapFree     *)
(* ends the allocation it is given and no other.                           *)
THEOREM HeapImplementsContract ==
  ASSUME NonZeroRequests
  PROVE  Spec => ImplementsContract
<1>1. Init => Contract!Init
  BY DEF Init, Contract!Init, Contract!Answer, ContractAnswer, Call
<1>2. ASSUME IInv, [Next]_vars
      PROVE  [Contract!Next]_(Contract!vars)
  <2>1. ASSUME NEW bytes \in Requests, HeapMalloc(bytes)
        PROVE  Contract!Next
    BY <1>2, <2>1, MallocGrants DEF Contract!Next
  <2>2. ASSUME NEW bytes \in Requests, HeapMallocFails(bytes)
        PROVE  Contract!Next
    BY <1>2, <2>2, NullRefuses DEF Contract!Next
  <2>3. ASSUME NEW a \in live, HeapFree(a)
        PROVE  Contract!Next
    <3>1. ContractAnswer' = Contract!Answer("free", 0, TRUE)
      BY <2>3 DEF HeapFree, ContractAnswer, Contract!Answer, Call
    <3>2. Contract!Release(a)
      BY <2>3, <3>1 DEF HeapFree, Contract!Release
    <3>3. QED
      BY <3>2 DEF Contract!Next
  <2>4. ASSUME NEW addr \in StrayAddrs, HeapFreeRejects(addr)
        PROVE  Contract!Next
    <3>1. ContractAnswer' = Contract!Answer("free", 0, FALSE)
      <4>1. ret' = Call("HeapFree", addr, -EINVARG) /\ -EINVARG # 0
        BY <2>4 DEF HeapFreeRejects, EINVARG
      <4>2. ret'.call = "HeapFree" /\ ~ (ret'.val = 0)
        BY <4>1 DEF Call
      <4>3. (ret'.val = 0) = FALSE
        BY <4>2
      <4>4. QED
        BY <4>2, <4>3 DEF ContractAnswer, Contract!Answer
    <3>2. QED
      BY <2>4, <3>1 DEF HeapFreeRejects, Contract!RejectFree, Contract!Next
  <2>5. CASE UNCHANGED vars
    BY <2>5 DEF vars, Contract!vars, ContractAnswer
  <2>6. QED
    BY <1>2, <2>1, <2>2, <2>3, <2>4, <2>5 DEF Next
<1>3. QED
  BY <1>1, <1>2, Invariance, PTL DEF Spec, ImplementsContract, Contract!Spec

-----------------------------------------------------------------------------
(* The loops.                                                              *)
LoopIInv == LoopTypeOK /\ LoopInv

(* The number of blocks asked for is a positive number.                    *)
LEMMA CountPositive ==
  ASSUME LoopTypeOK, pc \in {"scan", "mark"}
  PROVE  n \in Nat \ {0} /\ arg \in Requests
BY BlockCount, LoopAssumption DEF LoopTypeOK, NonZeroRequests, n

(* The least member of a set of blocks is what Min returns.                *)
LEMMA MinIs ==
  ASSUME NEW S \in SUBSET Nat, NEW m \in S, \A y \in S : m <= y
  PROVE  S # {} /\ Min(S) = m
<1>1. Min(S) \in S /\ Min(S) <= m
  BY MinOfNats
<1>2. m <= Min(S) /\ Min(S) \in Nat /\ m \in Nat
  BY <1>1
<1>3. QED
  BY <1>1, <1>2

-----------------------------------------------------------------------------
(* The search returns early with the first fit.                            *)
LEMMA FoundFirstFit ==
  ASSUME LoopTypeOK, ScanInv, pc = "scan", i < Total, entries[i] = ENTRY_FREE,
         bc + 1 = n
  PROVE  searchForContiguousBlocks(settled, n) = i - bc /\ i - bc \in Blocks
<1>1. n \in Nat \ {0} /\ i \in Nat /\ bc \in Nat /\ bc <= i /\ Total \in Nat
  BY CountPositive, TotalIsNat DEF LoopTypeOK, ScanInv
<1>2. /\ entries = settled
      /\ \A k \in Blocks : i - bc <= k /\ k < i => settled[k] = ENTRY_FREE
      /\ \A s \in FreeRuns(settled, n) : i - bc <= s
  BY DEF ScanInv
<1>3. i - bc \in Nat /\ i - bc \in Blocks /\ i \in Blocks
  BY <1>1, BlocksAreNats
<1>4. ASSUME NEW k \in i - bc .. i - bc + n - 1
      PROVE  settled[k] = ENTRY_FREE
  <2>1. k \in Nat /\ i - bc <= k /\ k <= i
    BY <1>1, <1>3
  <2>2. k \in Blocks
    BY <1>1, <2>1, BlocksAreNats
  <2>3. CASE k = i
    BY <1>2, <2>3
  <2>4. CASE k < i
    BY <1>2, <2>1, <2>2, <2>4
  <2>5. QED
    BY <1>1, <2>1, <2>3, <2>4
<1>5. i - bc \in FreeRuns(settled, n)
  <2>1. i - bc + n <= Total
    BY <1>1
  <2>2. QED
    BY <1>3, <1>4, <2>1 DEF FreeRuns
<1>6. FreeRuns(settled, n) \in SUBSET Nat
  BY BlocksAreNats DEF FreeRuns
<1>7. FreeRuns(settled, n) # {} /\ Min(FreeRuns(settled, n)) = i - bc
  BY <1>2, <1>5, <1>6, MinIs
<1>8. QED
  BY <1>1, <1>3, <1>7 DEF searchForContiguousBlocks

(* The search that reaches the end of the table has found no fit; it       *)
(* returns the start of the free run that ends there, or -1.               *)
LEMMA FoundAtEnd ==
  ASSUME LoopTypeOK, ScanInv, pc = "scan", i = Total
  PROVE  searchForContiguousBlocks(settled, n) = st /\ (st # -1 => st \in Blocks)
<1>1. n \in Nat \ {0} /\ bc \in Nat /\ bc <= Total /\ bc < n /\ Total \in Nat
  BY CountPositive, TotalIsNat DEF LoopTypeOK, ScanInv
<1>2. /\ st = IF bc = 0 THEN -1 ELSE Total - bc
      /\ \A k \in Blocks : Total - bc <= k /\ k < Total => settled[k] = ENTRY_FREE
      /\ Total - bc > 0 => settled[Total - bc - 1] # ENTRY_FREE
      /\ \A s \in FreeRuns(settled, n) : Total - bc <= s
  BY DEF ScanInv
<1>3. FreeRuns(settled, n) = {}
  <2> SUFFICES ASSUME NEW s \in FreeRuns(settled, n)
               PROVE  FALSE
    OBVIOUS
  <2>1. s \in Nat /\ s + n <= Total /\ Total - bc <= s
    BY <1>2, BlocksAreNats DEF FreeRuns
  <2>2. QED
    BY <1>1, <2>1
<1>4. TrailingRuns(settled) \in SUBSET Nat
  BY BlocksAreNats DEF TrailingRuns
<1>5. ASSUME NEW s \in TrailingRuns(settled)
      PROVE  Total - bc <= s /\ bc # 0
  <2>1. s \in Nat /\ s < Total /\ \A k \in s .. Total - 1 : settled[k] = ENTRY_FREE
    BY BlocksAreNats DEF TrailingRuns
  <2>2. SUFFICES ASSUME s < Total - bc
                 PROVE  FALSE
    BY <1>1, <2>1
  <2>3. Total - bc - 1 \in s .. Total - 1
    BY <1>1, <2>1, <2>2
  <2>4. QED
    BY <1>1, <1>2, <2>1, <2>2, <2>3
<1>6. CASE bc = 0
  <2>1. TrailingRuns(settled) = {}
    BY <1>5, <1>6
  <2>2. QED
    BY <1>2, <1>3, <1>6, <2>1 DEF searchForContiguousBlocks
<1>7. CASE bc # 0
  <2>1. Total - bc \in Nat /\ Total - bc \in Blocks
    BY <1>1, <1>7, BlocksAreNats
  <2>2. Total - bc \in TrailingRuns(settled)
    <3>1. ASSUME NEW k \in Total - bc .. Total - 1
          PROVE  settled[k] = ENTRY_FREE
      BY <1>1, <1>2, <2>1, BlocksAreNats
    <3>2. QED
      BY <2>1, <3>1 DEF TrailingRuns
  <2>3. TrailingRuns(settled) # {} /\ Min(TrailingRuns(settled)) = Total - bc
    BY <1>4, <1>5, <2>2, MinIs
  <2>4. QED
    BY <1>2, <1>3, <1>7, <2>1, <2>3 DEF searchForContiguousBlocks
<1>8. QED
  BY <1>6, <1>7

(* HeapFree's loop ends with the entries ClearFrom clears.                 *)
LEMMA ClearedAsStated ==
  ASSUME LoopTypeOK, ClearInv, pc = "clear",
         \/ i < Total /\ entries[i] = ENTRY_IS_LAST /\ Store(i, ENTRY_FREE)
         \/ i = Total /\ Store(st, ENTRY_FREE)
  PROVE  entries' = ClearFrom(settled, st)
<1> DEFINE lasts == {k \in Blocks : k >= st /\ settled[k] = ENTRY_IS_LAST}
<1>1. /\ st \in Blocks /\ st \in Nat /\ i \in Nat /\ st <= i /\ Total \in Nat
      /\ \A k \in Blocks : st <= k /\ k < i => settled[k] # ENTRY_IS_LAST
      /\ entries = [k \in Blocks |-> IF st <= k /\ k < i THEN ENTRY_FREE ELSE settled[k]]
  BY BlocksAreNats, TotalIsNat DEF LoopTypeOK, ClearInv
<1>2. lasts \in SUBSET Nat
  BY BlocksAreNats
<1>3. CASE i < Total /\ entries[i] = ENTRY_IS_LAST /\ Store(i, ENTRY_FREE)
  <2>1. i \in Blocks /\ settled[i] = ENTRY_IS_LAST
    BY <1>1, <1>3, BlocksAreNats
  <2>2. i \in lasts /\ \A k \in lasts : i <= k
    BY <1>1, <1>2, <2>1
  <2>3. lasts # {} /\ Min(lasts) = i
    <3> HIDE DEF lasts
    <3> QED
      BY <1>2, <2>2, MinIs
  <2>4. entries' = [k \in Blocks |-> IF k \in st .. i THEN ENTRY_FREE ELSE settled[k]]
    <3>1. ASSUME NEW k \in Blocks
          PROVE  (k = i \/ (st <= k /\ k < i)) <=> k \in st .. i
      BY <1>1, BlocksAreNats
    <3>2. entries' = [k \in Blocks |-> IF k = i THEN ENTRY_FREE ELSE entries[k]]
      BY <1>3 DEF Store
    <3>3. QED
      BY <1>1, <3>1, <3>2
  <2>5. QED
    BY <2>3, <2>4 DEF ClearFrom
<1>4. CASE i = Total /\ Store(st, ENTRY_FREE)
  <2>1. lasts = {}
    BY <1>1, <1>4, BlocksAreNats
  <2>2. entries' = [k \in Blocks |-> IF k \in st .. Total - 1 THEN ENTRY_FREE ELSE settled[k]]
    <3>1. ASSUME NEW k \in Blocks
          PROVE  (k = st \/ (st <= k /\ k < i)) <=> k \in st .. Total - 1
      BY <1>1, <1>4, BlocksAreNats
    <3>2. entries' = [k \in Blocks |-> IF k = st THEN ENTRY_FREE ELSE entries[k]]
      BY <1>4 DEF Store
    <3>3. QED
      BY <1>1, <3>1, <3>2
  <2>3. QED
    BY <2>1, <2>2 DEF ClearFrom
<1>5. QED
  BY <1>3, <1>4

(* The marking loop ends with the table UpdateHeapTableOfAllocation gives. *)
LEMMA MarkedAsStated ==
  ASSUME LoopTypeOK, MarkInv, pc = "mark", i = st + n - 1, Store(i, ENTRY_IS_LAST)
  PROVE  entries' = UpdateHeapTableOfAllocation(settled, st, n)
<1>1. /\ st \in Nat /\ n \in Nat \ {0} /\ i \in Nat
      /\ entries = [k \in Blocks |-> IF st <= k /\ k < i THEN ENTRY_HAS_NEXT ELSE settled[k]]
  BY CountPositive, BlocksAreNats DEF LoopTypeOK, MarkInv
<1>2. entries' = [k \in Blocks |-> IF k = i THEN ENTRY_IS_LAST ELSE entries[k]]
  BY DEF Store
<1>3. ASSUME NEW k \in Blocks
      PROVE  k # i => ((st <= k /\ k < i) <=> k \in st .. st + n - 2)
  BY <1>1, BlocksAreNats
<1>4. QED
  BY <1>1, <1>2, <1>3 DEF UpdateHeapTableOfAllocation

-----------------------------------------------------------------------------
(* The loop invariants hold before the first call.                         *)
LEMMA LoopInitInv == LoopInit => LoopIInv
BY DEF LoopInit, Init, LoopIInv, LoopTypeOK, LoopInv, ScanInv, MarkInv, ClearInv

(* A call that returns leaves the loop invariants true.                    *)
LEMMA ReturnInv ==
  ASSUME Return,
         entries' \in [Blocks -> {ENTRY_FREE, ENTRY_HAS_NEXT, ENTRY_IS_LAST}],
         live' \subseteq [start : Blocks, blocks : Nat]
  PROVE  LoopIInv'
BY DEF Return, LoopIInv, LoopTypeOK, LoopInv, ScanInv, MarkInv, ClearInv

(* A store of a legal value keeps the type of the table.                   *)
LEMMA StoreType ==
  ASSUME LoopTypeOK, NEW k, NEW v \in {ENTRY_FREE, ENTRY_HAS_NEXT, ENTRY_IS_LAST},
         Store(k, v)
  PROVE  entries' \in [Blocks -> {ENTRY_FREE, ENTRY_HAS_NEXT, ENTRY_IS_LAST}]
BY DEF Store, LoopTypeOK

(* A search begins with nothing examined.                                  *)
LEMMA MallocCallInv ==
  ASSUME LoopIInv, NEW bytes \in Requests, MallocCall(bytes)
  PROVE  LoopIInv'
<1>1. n' \in Nat \ {0}
  BY BlockCount, LoopAssumption DEF MallocCall, n, NonZeroRequests
<1>2. LoopTypeOK'
  BY DEF MallocCall, LoopIInv, LoopTypeOK
<1>3. ScanInv'
  <2>1. \A s \in FreeRuns(settled, n') : 0 <= s
    BY BlocksAreNats DEF FreeRuns
  <2>2. \A k \in Blocks : ~ (0 <= k /\ k < 0)
    BY BlocksAreNats
  <2>3. QED
    BY <1>1, <2>1, <2>2, TotalIsNat DEF MallocCall, LoopIInv, LoopInv, ScanInv, FreeRuns, n
<1>4. QED
  BY <1>2, <1>3 DEF MallocCall, LoopIInv, LoopInv, MarkInv, ClearInv

(* A free block lengthens the run, or completes it.                        *)
LEMMA ScanFreeInv ==
  ASSUME LoopIInv, ScanFree
  PROVE  LoopIInv'
<1>1. /\ LoopTypeOK /\ ScanInv /\ pc = "scan" /\ i < Total
      /\ entries[i] = ENTRY_FREE
  BY DEF LoopIInv, LoopInv, ScanFree
<1>2. /\ n \in Nat \ {0} /\ i \in Nat /\ bc \in Nat /\ bc <= i /\ bc < n
      /\ Total \in Nat /\ entries = settled
      /\ st = IF bc = 0 THEN -1 ELSE i - bc
      /\ \A k \in Blocks : i - bc <= k /\ k < i => settled[k] = ENTRY_FREE
      /\ i - bc > 0 => settled[i - bc - 1] # ENTRY_FREE
      /\ \A s \in FreeRuns(settled, n) : i - bc <= s
  BY <1>1, CountPositive, TotalIsNat DEF LoopTypeOK, ScanInv
<1>3. /\ st' = i - bc /\ bc' = bc + 1 /\ n' = n
      /\ UNCHANGED <<entries, live, ret, arg, held, settled>>
  BY <1>2 DEF ScanFree, n
<1>4. CASE bc + 1 = n
  <2>1. pc' = "mark" /\ i' = i - bc
    BY <1>3, <1>4 DEF ScanFree
  <2>2. searchForContiguousBlocks(settled, n) = i - bc /\ i - bc \in Blocks
    BY <1>1, <1>4, FoundFirstFit
  <2>3. LoopTypeOK'
    BY <1>1, <1>2, <1>3, <2>1 DEF LoopTypeOK
  <2>4. MarkInv'
    <3>1. \A k \in Blocks : ~ (i - bc <= k /\ k < i - bc)
      BY <1>2, BlocksAreNats
    <3>2. entries = [k \in Blocks |-> IF i - bc <= k /\ k < i - bc THEN ENTRY_HAS_NEXT
                                      ELSE settled[k]]
      BY <1>1, <1>2, <3>1 DEF LoopTypeOK
    <3>3. searchForContiguousBlocks(settled, n)' = searchForContiguousBlocks(settled, n)
      BY <1>3
    <3>4. QED
      BY <1>2, <1>3, <2>1, <2>2, <3>2, <3>3 DEF MarkInv
  <2>5. QED
    BY <2>1, <2>3, <2>4 DEF LoopIInv, LoopInv, ScanInv, ClearInv
<1>5. CASE bc + 1 # n
  <2>1. pc' = "scan" /\ i' = i + 1
    BY <1>5 DEF ScanFree
  <2>2. LoopTypeOK'
    BY <1>1, <1>2, <1>3, <2>1 DEF LoopTypeOK
  <2>3. ScanInv'
    <3>1. i' - bc' = i - bc /\ FreeRuns(settled, n)' = FreeRuns(settled, n)
      BY <1>2, <1>3, <2>1 DEF FreeRuns
    <3>2. \A k \in Blocks : i - bc <= k /\ k < i + 1 => settled[k] = ENTRY_FREE
      BY <1>1, <1>2, BlocksAreNats
    <3>3. QED
      BY <1>1, <1>2, <1>3, <1>5, <2>1, <3>1, <3>2 DEF ScanInv
  <2>4. QED
    BY <2>1, <2>2, <2>3 DEF LoopIInv, LoopInv, MarkInv, ClearInv
<1>6. QED
  BY <1>4, <1>5

(* A taken block ends the run; no fit can start before or inside it.       *)
LEMMA ScanTakenInv ==
  ASSUME LoopIInv, ScanTaken
  PROVE  LoopIInv'
<1>1. /\ LoopTypeOK /\ ScanInv /\ pc = "scan" /\ i < Total
      /\ entries[i] # ENTRY_FREE
  BY DEF LoopIInv, LoopInv, ScanTaken
<1>2. /\ n \in Nat \ {0} /\ i \in Nat /\ bc \in Nat /\ bc <= i /\ bc < n
      /\ Total \in Nat /\ entries = settled
      /\ \A s \in FreeRuns(settled, n) : i - bc <= s
  BY <1>1, CountPositive, TotalIsNat DEF LoopTypeOK, ScanInv
<1>3. /\ st' = -1 /\ bc' = 0 /\ i' = i + 1 /\ n' = n /\ pc' = "scan"
      /\ UNCHANGED <<entries, live, ret, arg, held, settled>>
  BY <1>1 DEF ScanTaken, n
<1>4. LoopTypeOK'
  BY <1>1, <1>2, <1>3 DEF LoopTypeOK
<1>5. ASSUME NEW s \in FreeRuns(settled, n)
      PROVE  i + 1 <= s
  <2>1. s \in Nat /\ i - bc <= s /\ \A k \in s .. s + n - 1 : settled[k] = ENTRY_FREE
    BY <1>2, BlocksAreNats DEF FreeRuns
  <2>2. i \notin s .. s + n - 1
    BY <1>1, <1>2, <2>1
  <2>3. QED
    BY <1>2, <2>1, <2>2
<1>6. ScanInv'
  <2>1. FreeRuns(settled, n)' = FreeRuns(settled, n)
    BY <1>3 DEF FreeRuns
  <2>2. \A k \in Blocks : ~ (i + 1 <= k /\ k < i + 1)
    BY <1>2, BlocksAreNats
  <2>3. i' - bc' = i + 1 /\ i' - bc' - 1 = i
    BY <1>2, <1>3
  <2>4. QED
    BY <1>1, <1>2, <1>3, <1>5, <2>1, <2>2, <2>3 DEF ScanInv
<1>7. QED
  BY <1>3, <1>4, <1>6 DEF LoopIInv, LoopInv, MarkInv, ClearInv

(* The search that ends in an open run hands its start to the marking.     *)
LEMMA ScanEndsOpenInv ==
  ASSUME LoopIInv, ScanEndsOpen
  PROVE  LoopIInv'
<1>1. LoopTypeOK /\ ScanInv /\ pc = "scan" /\ i = Total /\ st # -1
  BY DEF LoopIInv, LoopInv, ScanEndsOpen
<1>2. /\ searchForContiguousBlocks(settled, n) = st /\ st \in Blocks /\ st \in Nat
      /\ n \in Nat \ {0} /\ entries = settled
  BY <1>1, FoundAtEnd, CountPositive, BlocksAreNats DEF ScanInv
<1>3. /\ pc' = "mark" /\ i' = st /\ n' = n
      /\ UNCHANGED <<entries, live, ret, st, bc, arg, held, settled>>
  BY DEF ScanEndsOpen, n
<1>4. LoopTypeOK'
  BY <1>1, <1>2, <1>3 DEF LoopTypeOK
<1>5. MarkInv'
  <2>1. \A k \in Blocks : ~ (st <= k /\ k < st)
    BY <1>2, BlocksAreNats
  <2>2. entries = [k \in Blocks |-> IF st <= k /\ k < st THEN ENTRY_HAS_NEXT ELSE settled[k]]
    BY <1>1, <1>2, <2>1 DEF LoopTypeOK
  <2>3. searchForContiguousBlocks(settled, n)' = searchForContiguousBlocks(settled, n)
    BY <1>3
  <2>4. QED
    BY <1>2, <1>3, <2>2, <2>3 DEF MarkInv
<1>6. QED
  BY <1>3, <1>4, <1>5 DEF LoopIInv, LoopInv, ScanInv, ClearInv

(* Marking one more block.                                                 *)
LEMMA MarkNextInv ==
  ASSUME LoopIInv, MarkNext
  PROVE  LoopIInv'
<1>1. LoopTypeOK /\ MarkInv /\ pc = "mark" /\ i < st + n - 1
  BY DEF LoopIInv, LoopInv, MarkNext
<1>2. /\ st \in Blocks /\ st \in Nat /\ n \in Nat \ {0} /\ i \in Nat /\ st <= i
      /\ entries = [k \in Blocks |-> IF st <= k /\ k < i THEN ENTRY_HAS_NEXT ELSE settled[k]]
      /\ st = searchForContiguousBlocks(settled, n)
  BY <1>1, CountPositive, BlocksAreNats DEF LoopTypeOK, MarkInv
<1>3. /\ i' = i + 1 /\ n' = n /\ pc' = "mark" /\ Store(i, ENTRY_HAS_NEXT)
      /\ UNCHANGED <<live, ret, st, bc, arg, held, settled>>
  BY <1>1 DEF MarkNext, n
<1>4. LoopTypeOK'
  BY <1>1, <1>2, <1>3, StoreType DEF LoopTypeOK
<1>5. MarkInv'
  <2>1. \A k \in Blocks : (k = i \/ (st <= k /\ k < i)) <=> (st <= k /\ k < i + 1)
    BY <1>2, BlocksAreNats
  <2>2. entries' = [k \in Blocks |-> IF k = i THEN ENTRY_HAS_NEXT ELSE entries[k]]
    BY <1>3 DEF Store
  <2>3. entries' = [k \in Blocks |-> IF st <= k /\ k < i + 1 THEN ENTRY_HAS_NEXT ELSE settled[k]]
    BY <1>2, <2>1, <2>2
  <2>4. searchForContiguousBlocks(settled, n)' = searchForContiguousBlocks(settled, n)
    BY <1>3
  <2>5. st <= i + 1 /\ i + 1 <= st + n - 1
    BY <1>1, <1>2
  <2>6. QED
    BY <1>2, <1>3, <2>3, <2>4, <2>5 DEF MarkInv
<1>6. QED
  BY <1>3, <1>4, <1>5 DEF LoopIInv, LoopInv, ScanInv, ClearInv

(* HeapFree starts at the first block of the allocation.                   *)
LEMMA FreeCallInv ==
  ASSUME LoopIInv, NEW a \in live, FreeCall(a)
  PROVE  LoopIInv'
<1>1. a.start \in Blocks /\ a.start \in Nat
  <2>1. a \in [start : Blocks, blocks : Nat]
    BY DEF LoopIInv, LoopTypeOK
  <2>2. QED
    BY <2>1, BlocksAreNats
<1>2. BlockOf(AddrOf(a.start)) = a.start
  BY <1>1, BlockOfAddr
<1>3. /\ pc' = "clear" /\ i' = a.start /\ st' = a.start /\ held' = a
      /\ AddrOf(a.start) % HEAP_BLOCK_SIZE_BYTES = 0
      /\ entries = settled
      /\ UNCHANGED <<entries, live, ret, bc, arg, settled>>
  BY <1>2 DEF FreeCall, LoopIInv, LoopInv
<1>4. LoopTypeOK'
  BY <1>1, <1>3 DEF LoopIInv, LoopTypeOK
<1>5. ClearInv'
  <2>1. \A k \in Blocks : ~ (a.start <= k /\ k < a.start)
    BY <1>1, BlocksAreNats
  <2>2. entries = [k \in Blocks |-> IF a.start <= k /\ k < a.start THEN ENTRY_FREE
                                    ELSE settled[k]]
    BY <1>3, <2>1 DEF LoopIInv, LoopTypeOK
  <2>3. a.start <= Total
    BY <1>1, BlocksAreNats, TotalIsNat
  <2>4. BlockOf(AddrOf(held.start))' = a.start /\ AddrOf(held.start)' = AddrOf(a.start)
    BY <1>2, <1>3
  <2>5. QED
    BY <1>1, <1>3, <2>1, <2>2, <2>3, <2>4 DEF ClearInv
<1>6. QED
  BY <1>3, <1>4, <1>5 DEF LoopIInv, LoopInv, ScanInv, MarkInv

(* Clearing one more block.                                                *)
LEMMA ClearNextInv ==
  ASSUME LoopIInv, ClearNext
  PROVE  LoopIInv'
<1>1. LoopTypeOK /\ ClearInv /\ pc = "clear" /\ i < Total /\ entries[i] # ENTRY_IS_LAST
  BY DEF LoopIInv, LoopInv, ClearNext
<1>2. /\ st \in Blocks /\ st \in Nat /\ i \in Nat /\ st <= i /\ Total \in Nat
      /\ AddrOf(held.start) % HEAP_BLOCK_SIZE_BYTES = 0
      /\ st = BlockOf(AddrOf(held.start))
      /\ \A k \in Blocks : st <= k /\ k < i => settled[k] # ENTRY_IS_LAST
      /\ entries = [k \in Blocks |-> IF st <= k /\ k < i THEN ENTRY_FREE ELSE settled[k]]
  BY <1>1, BlocksAreNats, TotalIsNat DEF LoopTypeOK, ClearInv
<1>3. /\ i' = i + 1 /\ pc' = "clear" /\ Store(i, ENTRY_FREE)
      /\ UNCHANGED <<live, ret, st, bc, arg, held, settled>>
  BY <1>1 DEF ClearNext
<1>4. LoopTypeOK'
  BY <1>1, <1>2, <1>3, StoreType DEF LoopTypeOK
<1>5. ClearInv'
  <2>1. \A k \in Blocks : (k = i \/ (st <= k /\ k < i)) <=> (st <= k /\ k < i + 1)
    BY <1>2, BlocksAreNats
  <2>2. entries' = [k \in Blocks |-> IF k = i THEN ENTRY_FREE ELSE entries[k]]
    BY <1>3 DEF Store
  <2>3. entries' = [k \in Blocks |-> IF st <= k /\ k < i + 1 THEN ENTRY_FREE ELSE settled[k]]
    BY <1>2, <2>1, <2>2
  <2>4. settled[i] # ENTRY_IS_LAST
    BY <1>1, <1>2, BlocksAreNats
  <2>5. \A k \in Blocks : st <= k /\ k < i + 1 => settled[k] # ENTRY_IS_LAST
    BY <1>2, <2>1, <2>4
  <2>6. st <= i + 1 /\ i + 1 <= Total
    BY <1>1, <1>2
  <2>7. AddrOf(held.start)' = AddrOf(held.start)
        /\ BlockOf(AddrOf(held.start))' = BlockOf(AddrOf(held.start))
    BY <1>3
  <2>8. QED
    BY <1>2, <1>3, <2>3, <2>5, <2>6, <2>7 DEF ClearInv
<1>6. QED
  BY <1>3, <1>4, <1>5 DEF LoopIInv, LoopInv, ScanInv, MarkInv

(* Every step keeps the loop invariants.                                   *)
LEMMA LoopNextInv ==
  ASSUME LoopIInv, [LoopNext]_loopVars
  PROVE  LoopIInv'
<1>1. LoopTypeOK
  BY DEF LoopIInv
<1>2. CASE ScanEndsEmpty
  BY <1>1, <1>2, ReturnInv DEF ScanEndsEmpty, LoopTypeOK
<1>3. CASE MarkLast
  <2>1. entries' \in [Blocks -> {ENTRY_FREE, ENTRY_HAS_NEXT, ENTRY_IS_LAST}]
    BY <1>1, <1>3, StoreType DEF MarkLast
  <2>2. st \in Blocks /\ n \in Nat
    BY <1>1, <1>3, CountPositive DEF MarkLast, LoopIInv, LoopInv, MarkInv
  <2>3. live' \subseteq [start : Blocks, blocks : Nat]
    BY <1>1, <1>3, <2>2 DEF MarkLast, LoopTypeOK, Allocation
  <2>4. QED
    BY <1>3, <2>1, <2>3, ReturnInv DEF MarkLast
<1>4. CASE ClearFoundLast \/ ClearRanOff
  <2>1. entries' \in [Blocks -> {ENTRY_FREE, ENTRY_HAS_NEXT, ENTRY_IS_LAST}]
    BY <1>1, <1>4, StoreType DEF ClearFoundLast, ClearRanOff
  <2>2. live' \subseteq [start : Blocks, blocks : Nat] /\ Return
    BY <1>1, <1>4 DEF ClearFoundLast, ClearRanOff, FreeReturns, LoopTypeOK
  <2>3. QED
    BY <2>1, <2>2, ReturnInv
<1>5. ASSUME NEW addr \in StrayAddrs, FreeRejected(addr)
      PROVE  LoopIInv'
  BY <1>5 DEF FreeRejected, HeapFreeRejects, LoopIInv, LoopTypeOK, LoopInv,
              ScanInv, MarkInv, ClearInv
<1>6. CASE UNCHANGED loopVars
  BY <1>6 DEF loopVars, LoopIInv, LoopTypeOK, LoopInv, ScanInv, MarkInv, ClearInv, n
<1>7. QED
  BY <1>2, <1>3, <1>4, <1>5, <1>6, MallocCallInv, FreeCallInv, ScanFreeInv,
     ScanTakenInv, ScanEndsOpenInv, MarkNextInv, ClearNextInv
  DEF LoopNext, Iteration

(* Every reachable state satisfies the inductive invariant.                *)
LEMMA LoopInvariance == LoopSpec => []LoopIInv
<1>1. LoopIInv /\ [LoopNext]_loopVars => LoopIInv'
  BY LoopNextInv
<1>2. QED
  BY <1>1, LoopInitInv, PTL DEF LoopSpec

(* The table, the counters of the loops and their arguments keep their     *)
(* types, between any two iterations.                                      *)
THEOREM LoopTypesCorrect == LoopSpec => []LoopTypeOK
BY LoopInvariance, PTL DEF LoopIInv

(* The loop invariants of HeapMalloc and HeapFree hold in every state.     *)
THEOREM LoopsKeepInvariants == LoopSpec => []LoopInv
BY LoopInvariance, PTL DEF LoopIInv

-----------------------------------------------------------------------------
(* The instance of KernelHeap speaks of the same heap.                     *)
LEMMA SameHeap ==
  /\ Heap!Blocks = Blocks
  /\ Heap!ENTRY_FREE = ENTRY_FREE
  /\ \A bytes : Heap!BlocksToAllocate(bytes) = BlocksToAllocate(bytes)
  /\ \A t, m : Heap!searchForContiguousBlocks(t, m) = searchForContiguousBlocks(t, m)
  /\ \A t, s, m : Heap!UpdateHeapTableOfAllocation(t, s, m)
                    = UpdateHeapTableOfAllocation(t, s, m)
  /\ \A t, s : Heap!ClearFrom(t, s) = ClearFrom(t, s)
  /\ \A b : Heap!AddrOf(b) = AddrOf(b)
  /\ \A a : Heap!BlockOf(a) = BlockOf(a)
<1>1. /\ Heap!Blocks = Blocks /\ Heap!Total = Total
      /\ Heap!ENTRY_FREE = ENTRY_FREE
      /\ Heap!ENTRY_IS_LAST = ENTRY_IS_LAST
      /\ Heap!ENTRY_HAS_NEXT = ENTRY_HAS_NEXT
  BY DEF Heap!Blocks, Blocks, Heap!Total, Total, Heap!ENTRY_FREE, ENTRY_FREE,
         Heap!ENTRY_IS_LAST, ENTRY_IS_LAST, Heap!ENTRY_HAS_NEXT, ENTRY_HAS_NEXT
<1>2. ASSUME NEW bytes
      PROVE  Heap!BlocksToAllocate(bytes) = BlocksToAllocate(bytes)
  BY DEF Heap!BlocksToAllocate, BlocksToAllocate
<1>3. ASSUME NEW t, NEW m
      PROVE  Heap!searchForContiguousBlocks(t, m) = searchForContiguousBlocks(t, m)
  <2>1. Heap!FreeRuns(t, m) = FreeRuns(t, m)
    BY <1>1 DEF Heap!FreeRuns, FreeRuns
  <2>2. Heap!TrailingRuns(t) = TrailingRuns(t)
    BY <1>1 DEF Heap!TrailingRuns, TrailingRuns
  <2>3. QED
    BY <2>1, <2>2 DEF Heap!searchForContiguousBlocks, searchForContiguousBlocks,
                      Heap!Min, Min
<1>4. ASSUME NEW t, NEW s, NEW m
      PROVE  Heap!UpdateHeapTableOfAllocation(t, s, m) = UpdateHeapTableOfAllocation(t, s, m)
  BY <1>1 DEF Heap!UpdateHeapTableOfAllocation, UpdateHeapTableOfAllocation
<1>5. ASSUME NEW t, NEW s
      PROVE  Heap!ClearFrom(t, s) = ClearFrom(t, s)
  BY <1>1 DEF Heap!ClearFrom, ClearFrom, Heap!Min, Min
<1>6. ASSUME NEW b
      PROVE  Heap!AddrOf(b) = AddrOf(b) /\ Heap!BlockOf(b) = BlockOf(b)
  BY DEF Heap!AddrOf, AddrOf, Heap!BlockOf, BlockOf
<1>7. QED
  BY <1>1, <1>2, <1>3, <1>4, <1>5, <1>6

(* The loops implement KernelHeap: the search is first fit with the open   *)
(* run at the end as its fallback, and HeapFree clears one allocation.     *)
THEOREM LoopsImplementHeap == LoopSpec => ImplementsKernelHeap
<1>1. LoopInit => Heap!Init
  BY SameHeap DEF LoopInit, Init, Heap!Init, Call, Heap!Call
<1>2. ASSUME LoopIInv, [LoopNext]_loopVars
      PROVE  [Heap!Next]_(Heap!vars)
  <2>1. LoopTypeOK /\ ScanInv /\ MarkInv /\ ClearInv
    BY <1>2 DEF LoopIInv, LoopInv
  <2>2. CASE ScanEndsEmpty
    <3>1. arg \in Requests /\ searchForContiguousBlocks(settled, n) = -1 /\ entries = settled
      BY <2>1, <2>2, FoundAtEnd, CountPositive DEF ScanEndsEmpty, ScanInv
    <3>2. Heap!HeapMallocFails(arg)
      BY <2>2, <3>1, SameHeap
      DEF ScanEndsEmpty, Return, Heap!HeapMallocFails, Call, Heap!Call, NULL, Heap!NULL, n
    <3>3. QED
      BY <3>1, <3>2 DEF Heap!Next
  <2>3. CASE MarkLast
    <3>1. /\ arg \in Requests /\ n \in Nat \ {0} /\ st \in Nat
          /\ searchForContiguousBlocks(settled, n) = st
      BY <2>1, <2>3, CountPositive, BlocksAreNats DEF MarkLast, MarkInv
    <3>2. settled' = UpdateHeapTableOfAllocation(settled, st, n)
      BY <2>1, <2>3, MarkedAsStated DEF MarkLast, Return
    <3>3. Heap!HeapMalloc(arg)
      BY <2>3, <3>1, <3>2, SameHeap
      DEF MarkLast, Heap!HeapMalloc, Call, Heap!Call, Allocation, Heap!Allocation, n
    <3>4. QED
      BY <3>1, <3>3 DEF Heap!Next
  <2>4. CASE ClearFoundLast \/ ClearRanOff
    <3>1. /\ pc = "clear" /\ held \in live
          /\ st = BlockOf(AddrOf(held.start))
          /\ AddrOf(held.start) % HEAP_BLOCK_SIZE_BYTES = 0
      BY <2>1, <2>4 DEF ClearFoundLast, ClearRanOff, LoopTypeOK, ClearInv
    <3>2. settled' = ClearFrom(settled, st)
      BY <2>1, <2>4, ClearedAsStated DEF ClearFoundLast, ClearRanOff, FreeReturns, Return
    <3>3. /\ live' = live \ {held}
          /\ ret' = Call("HeapFree", AddrOf(held.start), 0)
      BY <2>4 DEF ClearFoundLast, ClearRanOff, FreeReturns
    <3>4. Heap!HeapFree(held)
      BY <3>1, <3>2, <3>3, SameHeap DEF Heap!HeapFree, Call, Heap!Call
    <3>5. QED
      BY <3>1, <3>4 DEF Heap!Next
  <2>5. ASSUME NEW addr \in StrayAddrs, FreeRejected(addr)
        PROVE  Heap!Next
    <3>1. Heap!HeapFreeRejects(addr)
      BY <2>5 DEF FreeRejected, HeapFreeRejects, Heap!HeapFreeRejects, Call, Heap!Call,
                  EINVARG, Heap!EINVARG
    <3>2. QED
      BY <3>1 DEF Heap!Next
  <2>6. CASE UNCHANGED <<live, ret, settled>>
    BY <2>6 DEF Heap!vars
  <2>7. QED
    BY <1>2, <2>2, <2>3, <2>4, <2>5, <2>6
    DEF LoopNext, Iteration, loopVars, MallocCall, FreeCall, ScanFree, ScanTaken,
        ScanEndsOpen, MarkNext, ClearNext
<1>3. QED
  BY <1>1, <1>2, LoopInvariance, PTL DEF LoopSpec, ImplementsKernelHeap, Heap!Spec
=============================================================================
