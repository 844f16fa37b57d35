-------------------------- MODULE FileTableProofs ---------------------------
(***************************************************************************)
(* The descriptor table of file.c and the structures behind its handles,   *)
(* for every number of handles and blocks, every root directory and every  *)
(* set of paths and offsets.                                               *)
(*                                                                         *)
(* What a handle leads to is read through three pointers in memory that    *)
(* fopen allocated first fit and that fclose gives back.  The inductive    *)
(* invariant says what the pointers cannot: that the four blocks are       *)
(* different and in use, that no two handles share one, that a descriptor  *)
(* carries its own handle, and that the copied entry is one of the root    *)
(* directory.                                                              *)
(***************************************************************************)
EXTENDS FileTable, FiniteSetTheorems, TLAPS

Names == {root_directory[k].name : k \in 1 .. Len(root_directory)} \cup {NOTHING}
Blocks == [ptr : Memory \cup {NULL}, num : (0 .. POS_MOD - 1) \cup Handles, name : Names]

(* The blocks behind a descriptor in memory m.                             *)
Priv(m, d) == m[d].ptr
ItemAt(m, d) == m[Priv(m, d)].ptr
Copy(m, d) == m[ItemAt(m, d)].ptr
Behind(m, d) == {d, Priv(m, d), ItemAt(m, d), Copy(m, d)}

Different(m, d) ==
  /\ d # Priv(m, d) /\ d # ItemAt(m, d) /\ d # Copy(m, d)
  /\ Priv(m, d) # ItemAt(m, d) /\ Priv(m, d) # Copy(m, d) /\ ItemAt(m, d) # Copy(m, d)

(* The last block holds the name and the size of an entry of the root.     *)
IsEntry(block) ==
  \E k \in Listed : /\ block.name = root_directory[k].name
                    /\ block.num = root_directory[k].filesize

Linked(m, t, d) ==
  /\ Behind(m, d) \subseteq t
  /\ Different(m, d)
  /\ m[Priv(m, d)].num \in 0 .. POS_MOD - 1
  /\ IsEntry(m[Copy(m, d)])

FTypes ==
  /\ file_descriptors \in [Handles -> Memory \cup {NULL}]
  /\ mem \in [Memory -> Blocks]
  /\ taken \subseteq Memory
  /\ ret.val \in Int

FInv ==
  /\ FTypes
  /\ \A fd \in OpenHandles :
       /\ Linked(mem, taken, file_descriptors[fd])
       /\ mem[file_descriptors[fd]].num = fd
  /\ \A fd, g \in OpenHandles :
       fd # g => Behind(mem, file_descriptors[fd]) \cap Behind(mem, file_descriptors[g]) = {}

-----------------------------------------------------------------------------
(* A non-empty set of natural numbers has a least element, since < is well *)
(* founded on them.                                                        *)
Less == OpToRel(<, Nat)

LEMMA LessWellFounded == IsWellFoundedOn(Less, Nat)
BY NatLessThanWellFounded DEF Less

LEMMA LessPairs == \A a, b \in Nat : a < b => <<a, b>> \in Less
BY DEF Less, OpToRel

LEMMA LeastElement ==
  ASSUME NEW S \in SUBSET Nat, S # {}
  PROVE  Min(S) \in S /\ \A y \in S : Min(S) <= y
<1>1. PICK x \in S : \A y \in S : ~ (<<y, x>> \in Less)
  BY LessWellFounded, WFMin
<1>2. ASSUME NEW y \in S PROVE x <= y
  <2>1. x \in Nat /\ y \in Nat /\ ~ (<<y, x>> \in Less)
    BY <1>1
  <2>2. ~ (y < x)
    BY <2>1, LessPairs
  <2>3. QED
    BY <2>1, <2>2
<1>3. QED
  BY <1>2 DEF Min

(* Sizes of the constant sets.                                             *)
LEMMA Sizes ==
  /\ MAX_FILE_DESCRIPTORS \in Nat \ {0} /\ HEAP_BLOCKS \in Nat /\ POS_MOD \in Nat \ {0}
  /\ Handles \subseteq Nat \ {0} /\ Memory \subseteq Nat \ {0}
  /\ IsFiniteSet(Memory) /\ NULL = 0 /\ NULL \notin Memory /\ NULL \notin Handles
  /\ Len(root_directory) \in Nat
<1>1. /\ MAX_FILE_DESCRIPTORS \in Nat \ {0} /\ HEAP_BLOCKS \in Nat /\ POS_MOD \in Nat \ {0}
      /\ Len(root_directory) \in Nat
  BY FileAssumption
<1>2. Handles \subseteq Nat \ {0} /\ Memory \subseteq Nat \ {0}
  BY <1>1 DEF Handles, Memory
<1>3. IsFiniteSet(Memory)
  BY <1>1, FS_Interval DEF Memory
<1>4. QED
  BY <1>1, <1>2, <1>3 DEF NULL

(* The free blocks are finitely many.                                      *)
LEMMA FreeFinite ==
  ASSUME FTypes
  PROVE  /\ IsFiniteSet(Free) /\ Cardinality(Free) \in Nat /\ Free \subseteq Memory
         /\ Free \subseteq Nat /\ Free \cap taken = {}
<1>1. Free \subseteq Memory /\ Free \cap taken = {}
  BY DEF Free
<1>2. IsFiniteSet(Free)
  BY <1>1, Sizes, FS_Subset
<1>3. QED
  BY <1>1, <1>2, Sizes, FS_CardinalityType

(* First fit: the places of the free blocks count them, so that there is   *)
(* exactly one k-th block for every k up to their number.                  *)
Below(b) == {c \in Free : c < b}

LEMMA PlaceRange ==
  ASSUME FTypes, NEW b \in Free
  PROVE  /\ IsFiniteSet(Below(b)) /\ Cardinality(Below(b)) \in Nat
         /\ Place(b) = Cardinality(Below(b)) + 1
         /\ Place(b) \in 1 .. Cardinality(Free)
<1>1. /\ IsFiniteSet(Free) /\ Cardinality(Free) \in Nat /\ Free \subseteq Nat
  BY FreeFinite
<1>2. IsFiniteSet(Free \ {b}) /\ Cardinality(Free \ {b}) = Cardinality(Free) - 1
  BY <1>1, FS_RemoveElement
<1>3. Below(b) \subseteq Free \ {b}
  BY <1>1 DEF Below
<1>4. IsFiniteSet(Below(b)) /\ Cardinality(Below(b)) <= Cardinality(Free) - 1
  BY <1>2, <1>3, FS_Subset
<1>5. Cardinality(Below(b)) \in Nat
  BY <1>4, FS_CardinalityType
<1>6. Place(b) = Cardinality(Below(b)) + 1
  BY DEF Place, Below
<1>7. QED
  BY <1>1, <1>4, <1>5, <1>6

LEMMA PlaceGrows ==
  ASSUME FTypes, NEW b \in Free, NEW c \in Free, b < c
  PROVE  Place(b) < Place(c)
<1>1. /\ IsFiniteSet(Below(b)) /\ Cardinality(Below(b)) \in Nat
      /\ Place(b) = Cardinality(Below(b)) + 1
      /\ IsFiniteSet(Below(c)) /\ Cardinality(Below(c)) \in Nat
      /\ Place(c) = Cardinality(Below(c)) + 1
      /\ Free \subseteq Nat
  BY PlaceRange, FreeFinite
<1>2. b \notin Below(b) /\ Below(b) \cup {b} \subseteq Below(c)
  <2>1. b \in Nat /\ c \in Nat /\ \A x \in Free : x \in Nat
    BY <1>1
  <2>2. b \notin Below(b) /\ b \in Below(c)
    BY <2>1 DEF Below
  <2>3. ASSUME NEW x \in Below(b) PROVE x \in Below(c)
    BY <2>1 DEF Below
  <2>4. QED
    BY <2>2, <2>3
<1>3. Cardinality(Below(b) \cup {b}) = Cardinality(Below(b)) + 1
  BY <1>1, <1>2, FS_AddElement
<1>4. Cardinality(Below(b) \cup {b}) <= Cardinality(Below(c))
  BY <1>1, <1>2, FS_Subset
<1>5. QED
  BY <1>1, <1>3, <1>4

LEMMA PlaceInjective ==
  ASSUME FTypes, NEW b \in Free, NEW c \in Free, Place(b) = Place(c)
  PROVE  b = c
<1>1. b \in Nat /\ c \in Nat /\ Place(b) \in Nat /\ Place(c) \in Nat
  BY FreeFinite, PlaceRange
<1>2. CASE b < c
  BY <1>1, <1>2, PlaceGrows
<1>3. CASE c < b
  BY <1>1, <1>3, PlaceGrows
<1>4. QED
  BY <1>1, <1>2, <1>3

(* kZalloc finds its k-th block.                                           *)
LEMMA NthBlock ==
  ASSUME FTypes, NEW k \in 1 .. Cardinality(Free)
  PROVE  Nth(k) \in Free /\ Place(Nth(k)) = k
<1> DEFINE n == Cardinality(Free)
           f == [b \in Free |-> Place(b)]
<1>1. IsFiniteSet(Free) /\ n \in Nat
  BY FreeFinite
<1>2. IsFiniteSet(1 .. n) /\ Cardinality(1 .. n) = n
  BY <1>1, FS_Interval
<1>3. f \in [Free -> 1 .. n] /\ \A b, c \in Free : f[b] = f[c] => b = c
  BY PlaceRange, PlaceInjective
<1>4. f \in Injection(Free, 1 .. n)
  BY <1>3 DEF Injection, IsInjective
<1>5. f \in Surjection(Free, 1 .. n)
  BY <1>1, <1>2, <1>4, FS_Injection
<1>6. \E b \in Free : f[b] = k
  BY <1>5 DEF Surjection
<1>7. \E b \in Free : Place(b) = k
  BY <1>6
<1>8. QED
  BY <1>7 DEF Nth

-----------------------------------------------------------------------------
(* Zeroing new blocks leaves the blocks in use alone.                      *)
LEMMA ZeroedKeeps ==
  ASSUME FTypes, NEW last
  PROVE  /\ ZeroedTo(last) \in [Memory -> Blocks]
         /\ \A b \in taken : ZeroedTo(last)[b] = mem[b]
<1>1. Zeroed \in Blocks
  BY Sizes DEF Zeroed, Block, Blocks, Names
<1>2. mem \in [Memory -> Blocks] /\ taken \subseteq Memory
  BY DEF FTypes
<1>3. NewBlocks(1, last) \cap taken = {}
  BY DEF NewBlocks, Free
<1>4. ZeroedTo(last) = [b \in Memory |-> IF b \in NewBlocks(1, last) THEN Zeroed ELSE mem[b]]
  BY DEF ZeroedTo
<1> HIDE DEF Zeroed, Blocks, NewBlocks
<1>5. ZeroedTo(last) \in [Memory -> Blocks]
  BY <1>1, <1>2, <1>4
<1>6. \A b \in taken : ZeroedTo(last)[b] = mem[b]
  BY <1>2, <1>3, <1>4
<1>7. QED
  BY <1>5, <1>6

(* How many blocks a path takes on its way.                                *)
LEMMA PathNumbers ==
  ASSUME NEW path \in Paths
  PROVE  /\ FirstBlock(path) \in Nat \ {0} /\ LastBlock(path) \in Nat
         /\ LastBlock(path) = FirstBlock(path) + ItemBlocks(path)
         /\ FindItem(path.parts[1]) # {} => ItemBlocks(path) \in {2, 4}
<1>1. Len(path.parts) \in Nat
  BY FileAssumption
<1>2. ItemBlocks(path) \in {0, 2, 4}
  BY DEF ItemBlocks
<1>3. FindItem(path.parts[1]) # {} => ItemBlocks(path) \in {2, 4}
  BY DEF ItemBlocks
<1>4. QED
  BY <1>1, <1>2, <1>3 DEF FirstBlock, LastBlock, PathBlocks

(* The search stays within the entries of the directory.                   *)
LEMMA FoundIsListed ==
  ASSUME NEW name, NEW k \in FindItem(name)
  PROVE  k \in Listed /\ root_directory[k].name = name
<1> DEFINE len == Len(root_directory)
           all == 1 .. len
<1>0. len \in Nat
  BY Sizes
<1> HIDE DEF len
<1>1. IsFiniteSet(all) /\ Cardinality(all) = len
  BY <1>0, FS_Interval
<1>2. {j \in all : ~ root_directory[j].deleted} \in SUBSET all
  OBVIOUS
<1>3. TotalItems <= len /\ TotalItems \in Nat
  BY <1>1, <1>2, FS_Subset, FS_CardinalityType DEF TotalItems, len
<1>4. QED
  BY <1>0, <1>3 DEF FindItem, Listed, len

(* A structure keeps its blocks, its file and, but for what is stored in   *)
(* the private block, its position when memory n agrees with m on them.    *)
AgreeBehind(m, n, d) ==
  /\ \A b \in Behind(m, d) :
       /\ n[b].ptr = m[b].ptr /\ n[b].name = m[b].name
       /\ b # Priv(m, d) => n[b].num = m[b].num
  /\ n[Priv(m, d)].num \in 0 .. POS_MOD - 1

LEMMA ChainKept ==
  ASSUME NEW m, NEW n, NEW t, NEW u, NEW d, Linked(m, t, d),
         Behind(m, d) \subseteq u, AgreeBehind(m, n, d)
  PROVE  /\ Priv(n, d) = Priv(m, d) /\ ItemAt(n, d) = ItemAt(m, d) /\ Copy(n, d) = Copy(m, d)
         /\ Behind(n, d) = Behind(m, d)
         /\ Linked(n, u, d)
         /\ n[d].num = m[d].num
         /\ n[Copy(n, d)].name = m[Copy(m, d)].name
         /\ n[Copy(n, d)].num = m[Copy(m, d)].num
<1>1. Priv(n, d) = Priv(m, d)
  BY DEF Priv, Behind, AgreeBehind
<1>2. ItemAt(n, d) = ItemAt(m, d)
  BY <1>1 DEF ItemAt, Behind, AgreeBehind
<1>3. Copy(n, d) = Copy(m, d)
  BY <1>2 DEF Copy, Behind, AgreeBehind
<1>4. Behind(n, d) = Behind(m, d) /\ Different(m, d) /\ Different(n, d)
  BY <1>1, <1>2, <1>3 DEF Behind, Different, Linked
<1>5. d # Priv(m, d) /\ Copy(m, d) # Priv(m, d)
  BY <1>4 DEF Different
<1>6. n[d].num = m[d].num
  BY <1>5 DEF Behind, AgreeBehind
<1>7. n[Copy(n, d)].name = m[Copy(m, d)].name /\ n[Copy(n, d)].num = m[Copy(m, d)].num
  BY <1>3, <1>5 DEF Behind, AgreeBehind
<1>8. IsEntry(n[Copy(n, d)])
  BY <1>7 DEF Linked, IsEntry
<1>9. QED
  BY <1>1, <1>2, <1>3, <1>4, <1>6, <1>7, <1>8 DEF Linked, AgreeBehind

-----------------------------------------------------------------------------
(* What the handles stand for.                                             *)
View(m, d) == [file |-> m[Copy(m, d)].name, pos |-> m[Priv(m, d)].num]
Opened == [fd \in OpenHandles |-> View(mem, file_descriptors[fd])]

(* An open handle, in the words of the invariant.                          *)
LEMMA OpenHandle ==
  ASSUME FInv, NEW fd \in OpenHandles
  PROVE  /\ fd \in Handles /\ file_descriptors[fd] # NULL
         /\ file_descriptors[fd] \in taken /\ taken \subseteq Memory
         /\ Linked(mem, taken, file_descriptors[fd])
         /\ mem[file_descriptors[fd]].num = fd
         /\ PrivateOf(fd) = Priv(mem, file_descriptors[fd])
         /\ ItemOf(fd) = ItemAt(mem, file_descriptors[fd])
         /\ EntryOf(fd) = Copy(mem, file_descriptors[fd])
         /\ OwnedBy(fd) = Behind(mem, file_descriptors[fd])
         /\ OwnedBy(fd) \subseteq taken
<1>1. fd \in Handles /\ file_descriptors[fd] # NULL
  BY DEF OpenHandles, FreeSlots
<1>2. /\ Linked(mem, taken, file_descriptors[fd]) /\ mem[file_descriptors[fd]].num = fd
      /\ taken \subseteq Memory
  BY DEF FInv, FTypes
<1>3. /\ PrivateOf(fd) = Priv(mem, file_descriptors[fd])
      /\ ItemOf(fd) = ItemAt(mem, file_descriptors[fd])
      /\ EntryOf(fd) = Copy(mem, file_descriptors[fd])
  BY DEF PrivateOf, ItemOf, EntryOf, Priv, ItemAt, Copy
<1>4. OwnedBy(fd) = Behind(mem, file_descriptors[fd])
  BY <1>3 DEF OwnedBy, Behind
<1>5. Behind(mem, file_descriptors[fd]) \subseteq taken
      /\ file_descriptors[fd] \in Behind(mem, file_descriptors[fd])
  BY <1>2 DEF Linked, Behind
<1>6. QED
  BY <1>1, <1>2, <1>3, <1>4, <1>5

(* A handle whose blocks a step neither frees nor writes.                  *)
LEMMA BlocksKept ==
  ASSUME FInv, NEW fd \in OpenHandles, OwnedBy(fd) \subseteq taken',
         \A b \in OwnedBy(fd) : mem'[b] = mem[b]
  PROVE  /\ Behind(mem', file_descriptors[fd]) = Behind(mem, file_descriptors[fd])
         /\ Linked(mem', taken', file_descriptors[fd])
         /\ mem'[file_descriptors[fd]].num = fd
         /\ View(mem', file_descriptors[fd]) = View(mem, file_descriptors[fd])
<1> DEFINE d == file_descriptors[fd]
<1>1. Linked(mem, taken, d) /\ mem[d].num = fd /\ OwnedBy(fd) = Behind(mem, d)
  BY OpenHandle
<1>2. /\ d \in OwnedBy(fd) /\ Priv(mem, d) \in OwnedBy(fd) /\ Copy(mem, d) \in OwnedBy(fd)
      /\ mem[Priv(mem, d)].num \in 0 .. POS_MOD - 1
  BY <1>1 DEF Linked, Behind
<1> HIDE DEF d
<1>3. Behind(mem, d) \subseteq taken' /\ AgreeBehind(mem, mem', d)
  BY <1>1, <1>2 DEF AgreeBehind
<1>4. /\ Priv(mem', d) = Priv(mem, d) /\ Behind(mem', d) = Behind(mem, d)
      /\ Linked(mem', taken', d) /\ mem'[d].num = mem[d].num
      /\ Copy(mem', d) = Copy(mem, d)
  BY <1>1, <1>3, ChainKept
<1>5. View(mem', d) = View(mem, d)
  BY <1>2, <1>4 DEF View
<1>6. QED
  BY <1>1, <1>4, <1>5 DEF d

(* The blocks behind the handles.                                          *)
Owned == UNION {OwnedBy(fd) : fd \in OpenHandles}

(* A step that leaves the table and the blocks behind its handles alone    *)
(* keeps the invariant and what every handle stands for.                   *)
LEMMA HandlesKept ==
  ASSUME FInv, FTypes', file_descriptors' = file_descriptors, taken \subseteq taken',
         \A b \in taken : mem'[b] = mem[b]
  PROVE  FInv' /\ Opened' = Opened /\ Owned' = Owned
<1>1. OpenHandles' = OpenHandles
  BY DEF OpenHandles, FreeSlots
<1>2. ASSUME NEW fd \in OpenHandles
      PROVE  /\ Behind(mem', file_descriptors'[fd]) = Behind(mem, file_descriptors[fd])
             /\ Linked(mem', taken', file_descriptors'[fd])
             /\ mem'[file_descriptors'[fd]].num = fd
             /\ View(mem', file_descriptors'[fd]) = View(mem, file_descriptors[fd])
  <2>1. OwnedBy(fd) \subseteq taken
    BY <1>2, OpenHandle
  <2>2. OwnedBy(fd) \subseteq taken' /\ \A b \in OwnedBy(fd) : mem'[b] = mem[b]
    BY <2>1
  <2>3. QED
    BY <1>2, <2>2, BlocksKept
<1>3. FInv'
  <2>1. \A fd \in OpenHandles' : /\ Linked(mem', taken', file_descriptors'[fd])
                                 /\ mem'[file_descriptors'[fd]].num = fd
    BY <1>1, <1>2
  <2>2. \A fd, g \in OpenHandles' : fd # g =>
          Behind(mem', file_descriptors'[fd]) \cap Behind(mem', file_descriptors'[g]) = {}
    <3>1. \A fd, g \in OpenHandles : fd # g =>
            Behind(mem, file_descriptors[fd]) \cap Behind(mem, file_descriptors[g]) = {}
      BY DEF FInv
    <3>2. \A fd \in OpenHandles :
            Behind(mem', file_descriptors'[fd]) = Behind(mem, file_descriptors[fd])
      BY <1>2
    <3>3. QED
      BY <1>1, <3>1, <3>2
  <2>3. QED
    BY <2>1, <2>2 DEF FInv
<1>4. Opened' = Opened
  BY <1>1, <1>2 DEF Opened
<1>5. \A fd \in OpenHandles : OwnedBy(fd)' = OwnedBy(fd)
  <2> SUFFICES ASSUME NEW fd \in OpenHandles PROVE OwnedBy(fd)' = OwnedBy(fd)
    OBVIOUS
  <2>1. OwnedBy(fd)' = Behind(mem', file_descriptors'[fd])
    BY DEF OwnedBy, Behind, PrivateOf, ItemOf, EntryOf, Priv, ItemAt, Copy
  <2>2. QED
    BY <1>2, <2>1, OpenHandle
<1>6. QED
  BY <1>1, <1>3, <1>4, <1>5 DEF Owned

-----------------------------------------------------------------------------
(* fopen that fails only takes blocks that no handle has.                  *)
LEMMA FailedOpen ==
  ASSUME FInv, NEW last, NEW new \in SUBSET Free, mem' = ZeroedTo(last), taken' = taken \cup new,
         ret' = Answer("fopen", 0, NOTHING), UNCHANGED file_descriptors
  PROVE  FInv' /\ Opened' = Opened
<1>1. FTypes
  BY DEF FInv
<1>2. ZeroedTo(last) \in [Memory -> Blocks] /\ \A b \in taken : ZeroedTo(last)[b] = mem[b]
  BY <1>1, ZeroedKeeps
<1>3. Free \subseteq Memory
  BY DEF Free
<1>4. ret'.val \in Int
  BY DEF Answer
<1>5. FTypes'
  BY <1>1, <1>2, <1>3, <1>4 DEF FTypes
<1>6. QED
  BY <1>2, <1>5, HandlesKept

LEMMA FopenFailures ==
  ASSUME FInv, NEW path \in Paths, NEW mode,
         \/ fopen_refused(path, mode)
         \/ fopen_not_found(path)
         \/ fopen_no_descriptor(path)
  PROVE  FInv' /\ Opened' = Opened /\ ret' = Answer("fopen", 0, NOTHING)
<1>1. CASE fopen_refused(path, mode)
  <2>1. taken' = taken \cup {} /\ {} \in SUBSET Free
    BY <1>1 DEF fopen_refused
  <2>2. QED
    BY <1>1, <2>1, FailedOpen DEF fopen_refused
<1>2. CASE fopen_not_found(path)
  <2>1. NewBlocks(FirstBlock(path), LastBlock(path)) \in SUBSET Free
    BY DEF NewBlocks
  <2>2. QED
    BY <1>2, <2>1, FailedOpen DEF fopen_not_found
<1>3. CASE fopen_no_descriptor(path)
  <2>1. NewBlocks(FirstBlock(path), LastBlock(path)) \in SUBSET Free
    BY DEF NewBlocks
  <2>2. QED
    BY <1>3, <2>1, FailedOpen DEF fopen_no_descriptor
<1>4. QED
  BY <1>1, <1>2, <1>3

(* A call that stores nothing.                                             *)
LEMMA QuietCall ==
  ASSUME FInv, UNCHANGED <<file_descriptors, mem, taken>>, ret'.val \in Int
  PROVE  FInv' /\ Opened' = Opened /\ Lost' = Lost
<1>1. FTypes'
  BY DEF FInv, FTypes
<1>2. FInv' /\ Opened' = Opened /\ Owned' = Owned
  BY <1>1, HandlesKept
<1>3. Lost' = taken' \ Owned' /\ Lost = taken \ Owned
  BY DEF Lost, Owned
<1>4. QED
  BY <1>2, <1>3

(* A handle that file_get_descriptor answers is open.                      *)
LEMMA DescriptorIsOpen ==
  ASSUME NEW fd, file_get_descriptor(fd) # NULL
  PROVE  fd \in OpenHandles
BY DEF file_get_descriptor, OpenHandles, FreeSlots
-----------------------------------------------------------------------------
(* Handle fd leads through the same blocks after a step as before.         *)
Same(fd) ==
  /\ file_descriptors'[fd] = file_descriptors[fd]
  /\ Behind(mem', file_descriptors[fd]) = Behind(mem, file_descriptors[fd])
  /\ Linked(mem', taken', file_descriptors[fd])
  /\ mem'[file_descriptors[fd]].num = fd

(* The invariant after a step that opens nothing.                          *)
LEMMA SameKeepsInv ==
  ASSUME FInv, FTypes', OpenHandles' \subseteq OpenHandles, \A fd \in OpenHandles' : Same(fd)
  PROVE  FInv' /\ \A fd \in OpenHandles' : OwnedBy(fd)' = OwnedBy(fd)
<1>1. \A fd \in OpenHandles' :
        /\ Linked(mem', taken', file_descriptors'[fd]) /\ mem'[file_descriptors'[fd]].num = fd
        /\ Behind(mem', file_descriptors'[fd]) = Behind(mem, file_descriptors[fd])
  BY DEF Same
<1>2. \A fd, g \in OpenHandles : fd # g =>
        Behind(mem, file_descriptors[fd]) \cap Behind(mem, file_descriptors[g]) = {}
  BY DEF FInv
<1>3. \A fd, g \in OpenHandles' : fd # g =>
        Behind(mem', file_descriptors'[fd]) \cap Behind(mem', file_descriptors'[g]) = {}
  <2> SUFFICES ASSUME NEW fd \in OpenHandles', NEW g \in OpenHandles', fd # g
               PROVE  Behind(mem', file_descriptors'[fd]) \cap Behind(mem', file_descriptors'[g]) = {}
    OBVIOUS
  <2>1. fd \in OpenHandles /\ g \in OpenHandles
    OBVIOUS
  <2>2. QED
    BY <1>1, <1>2, <2>1
<1>4. FInv'
  BY <1>1, <1>3 DEF FInv
<1>5. ASSUME NEW fd \in OpenHandles' PROVE OwnedBy(fd)' = OwnedBy(fd)
  <2>1. OwnedBy(fd)' = Behind(mem', file_descriptors'[fd])
    BY DEF OwnedBy, Behind, PrivateOf, ItemOf, EntryOf, Priv, ItemAt, Copy
  <2>2. fd \in OpenHandles
    OBVIOUS
  <2>3. OwnedBy(fd) = Behind(mem, file_descriptors[fd])
    BY <2>2, OpenHandle
  <2>4. QED
    BY <1>1, <2>1, <2>3
<1>6. QED
  BY <1>4, <1>5

(* The blocks of two handles are apart.                                    *)
LEMMA Apart ==
  ASSUME FInv, NEW fd \in OpenHandles, NEW g \in OpenHandles, fd # g
  PROVE  OwnedBy(fd) \cap OwnedBy(g) = {}
<1>1. Behind(mem, file_descriptors[fd]) \cap Behind(mem, file_descriptors[g]) = {}
  BY DEF FInv
<1>2. QED
  BY <1>1, OpenHandle

(* fat16_seek stores a position in the private block of its own handle.    *)
LEMMA Moved ==
  ASSUME FInv, NEW fd \in OpenHandles, NEW v \in 0 .. POS_MOD - 1,
         mem' = [mem EXCEPT ![PrivateOf(fd)].num = v], ret'.val \in Int,
         UNCHANGED <<file_descriptors, taken>>
  PROVE  FInv' /\ Opened' = [Opened EXCEPT ![fd].pos = v] /\ Lost' = Lost
<1> DEFINE d == file_descriptors[fd]
           p == Priv(mem, d)
<1>1. /\ Linked(mem, taken, d) /\ mem[d].num = fd /\ OwnedBy(fd) = Behind(mem, d)
      /\ PrivateOf(fd) = p /\ OwnedBy(fd) \subseteq taken /\ p \in OwnedBy(fd)
  BY OpenHandle DEF Behind
<1>2. mem \in [Memory -> Blocks] /\ taken \subseteq Memory /\ p \in Memory
  BY <1>1 DEF FInv, FTypes
<1>3. /\ mem[p] \in Blocks
      /\ mem' = [mem EXCEPT ![p] = [mem[p] EXCEPT !.num = v]]
  BY <1>1, <1>2
<1>4. /\ [mem[p] EXCEPT !.num = v] \in Blocks
      /\ [mem[p] EXCEPT !.num = v].num = v
      /\ [mem[p] EXCEPT !.num = v].ptr = mem[p].ptr
      /\ [mem[p] EXCEPT !.num = v].name = mem[p].name
  BY <1>3 DEF Blocks
<1>5. /\ mem' \in [Memory -> Blocks] /\ mem'[p].num = v /\ mem'[p].ptr = mem[p].ptr
      /\ mem'[p].name = mem[p].name /\ \A b \in Memory \ {p} : mem'[b] = mem[b]
  BY <1>2, <1>3, <1>4
<1>6. FTypes'
  BY <1>5 DEF FInv, FTypes
<1>7. OpenHandles' = OpenHandles
  BY DEF OpenHandles, FreeSlots
<1> HIDE DEF d
<1>8. AgreeBehind(mem, mem', d)
  BY <1>1, <1>2, <1>5 DEF AgreeBehind
<1>9. Behind(mem, d) \subseteq taken'
  BY <1>1
<1>10. /\ Priv(mem', d) = p /\ Behind(mem', d) = Behind(mem, d)
       /\ Linked(mem', taken', d) /\ mem'[d].num = mem[d].num
       /\ Copy(mem', d) = Copy(mem, d)
  <2>1. Linked(mem, taken, d)
    BY <1>1
  <2>2. QED
    BY ONLY <2>1, <1>8, <1>9, ChainKept
<1>11. Same(fd) /\ View(mem', d) = [View(mem, d) EXCEPT !.pos = v]
  <2>1. Same(fd)
    BY <1>1, <1>10 DEF Same, d
  <2>2. Copy(mem, d) \in Memory /\ Copy(mem, d) # p
    BY <1>1, <1>2 DEF Linked, Behind, Different
  <2>3. View(mem', d) = [file |-> mem[Copy(mem, d)].name, pos |-> v]
    BY <1>5, <1>10, <2>2 DEF View
  <2>4. View(mem, d) = [file |-> mem[Copy(mem, d)].name, pos |-> mem[p].num]
    BY DEF View
  <2>5. QED
    BY <2>1, <2>3, <2>4
<1>12. ASSUME NEW g \in OpenHandles, g # fd
       PROVE  Same(g) /\ View(mem', file_descriptors[g]) = View(mem, file_descriptors[g])
  <2>1. p \notin OwnedBy(g)
    BY <1>1, <1>12, Apart
  <2>2. OwnedBy(g) \subseteq taken' /\ \A b \in OwnedBy(g) : mem'[b] = mem[b]
    BY <1>2, <1>5, <1>12, <2>1, OpenHandle
  <2>3. QED
    BY <1>12, <2>2, BlocksKept DEF Same
<1>13. FInv' /\ \A g \in OpenHandles' : OwnedBy(g)' = OwnedBy(g)
  <2>1. \A g \in OpenHandles' : Same(g)
    BY <1>7, <1>11, <1>12
  <2>2. QED
    BY <1>6, <1>7, <2>1, SameKeepsInv
<1>14. Opened' = [Opened EXCEPT ![fd].pos = v]
  <2>1. Opened' = [g \in OpenHandles |-> View(mem', file_descriptors[g])]
    BY <1>7 DEF Opened
  <2>2. [Opened EXCEPT ![fd].pos = v] =
          [g \in OpenHandles |-> IF g = fd THEN [View(mem, d) EXCEPT !.pos = v]
                                 ELSE View(mem, file_descriptors[g])]
    BY DEF Opened, d
  <2>3. \A g \in OpenHandles :
          View(mem', file_descriptors[g]) = IF g = fd THEN [View(mem, d) EXCEPT !.pos = v]
                                            ELSE View(mem, file_descriptors[g])
    BY <1>11, <1>12 DEF d
  <2>4. QED
    BY <2>1, <2>2, <2>3
<1>15. Lost' = Lost
  BY <1>7, <1>13 DEF Lost
<1>16. QED
  BY <1>13, <1>14, <1>15

(* fclose gives back what is behind its handle, clears the slot of that    *)
(* handle and no other.                                                    *)
LEMMA Closed ==
  ASSUME FInv, NEW fd, fclose(fd)
  PROVE  /\ fd \in OpenHandles
         /\ FInv' /\ Opened' = [g \in OpenHandles \ {fd} |-> Opened[g]] /\ Lost' = Lost
<1>1. fd \in OpenHandles
  BY DescriptorIsOpen DEF fclose
<1>2. /\ mem[file_descriptors[fd]].num = fd /\ fd \in Handles
      /\ OwnedBy(fd) \subseteq taken /\ taken \subseteq Memory
  BY <1>1, OpenHandle
<1>3. /\ taken' = taken \ OwnedBy(fd) /\ mem' = mem
      /\ file_descriptors' = [file_descriptors EXCEPT ![fd] = NULL]
  BY <1>2 DEF fclose, OwnedBy
<1>4. file_descriptors \in [Handles -> Memory \cup {NULL}] /\ mem \in [Memory -> Blocks]
  BY DEF FInv, FTypes
<1>5. ret'.val \in Int
  BY DEF fclose, Answer
<1>6. FTypes'
  BY <1>2, <1>3, <1>4, <1>5 DEF FTypes
<1>7. OpenHandles' = OpenHandles \ {fd}
  BY <1>2, <1>3, <1>4 DEF OpenHandles, FreeSlots
<1>8. ASSUME NEW g \in OpenHandles \ {fd}
      PROVE  Same(g) /\ View(mem', file_descriptors'[g]) = View(mem, file_descriptors[g])
  <2>1. OwnedBy(fd) \cap OwnedBy(g) = {} /\ OwnedBy(g) \subseteq taken /\ g \in Handles
    BY <1>1, Apart, OpenHandle
  <2>2. OwnedBy(g) \subseteq taken' /\ \A b \in OwnedBy(g) : mem'[b] = mem[b]
    BY <1>3, <2>1
  <2>3. file_descriptors'[g] = file_descriptors[g]
    BY <1>3, <1>4, <2>1
  <2>4. QED
    BY <2>2, <2>3, BlocksKept DEF Same
<1>9. FInv' /\ \A g \in OpenHandles' : OwnedBy(g)' = OwnedBy(g)
  BY <1>6, <1>7, <1>8, SameKeepsInv
<1>10. Opened' = [g \in OpenHandles \ {fd} |-> Opened[g]]
  BY <1>7, <1>8 DEF Opened
<1>11. Lost' = Lost
  <2>1. \A b : b \in Lost <=> b \in taken /\ \A g \in OpenHandles : b \notin OwnedBy(g)
    BY DEF Lost
  <2>2. \A b : b \in Lost' <=> b \in taken' /\ \A g \in OpenHandles' : b \notin OwnedBy(g)
    BY <1>9 DEF Lost
  <2>3. \A b : b \in Lost' <=> b \in Lost
    BY <1>1, <1>3, <1>7, <2>1, <2>2
  <2>4. QED
    BY <2>3
<1>12. QED
  BY <1>1, <1>9, <1>10, <1>11
-----------------------------------------------------------------------------
(* Four different free blocks that now hold the structures of a file, and  *)
(* the slot that leads to them.                                            *)
Laid(k, fd, descriptor, private, item, copy) ==
  /\ mem' \in [Memory -> Blocks]
  /\ mem'[descriptor] = Block(private, fd, NOTHING)
  /\ mem'[private] = Block(item, 0, NOTHING)
  /\ mem'[item] = Block(copy, 0, NOTHING)
  /\ mem'[copy] = Block(NULL, root_directory[k].filesize, root_directory[k].name)
  /\ \A b \in taken : mem'[b] = mem[b]

FourFree(descriptor, private, item, copy) ==
  /\ {descriptor, private, item, copy} \subseteq Free
  /\ descriptor # private /\ descriptor # item /\ descriptor # copy
  /\ private # item /\ private # copy /\ item # copy

(* The blocks fopen ends up with are four: they are found at four places.  *)
LEMMA FourBlocks ==
  ASSUME FTypes, NEW path \in Paths, NEW k \in FindItem(path.parts[1]),
         Cardinality(Free) > LastBlock(path)
  PROVE  /\ FourFree(Nth(LastBlock(path) + 1), Nth(FirstBlock(path)),
                     Nth(FirstBlock(path) + 1), Nth(LastBlock(path)))
         /\ {Nth(LastBlock(path) + 1), Nth(FirstBlock(path)), Nth(FirstBlock(path) + 1),
             Nth(LastBlock(path))} \subseteq NewBlocks(1, LastBlock(path) + 1)
<1> DEFINE F == FirstBlock(path)
           L == LastBlock(path)
           n == Cardinality(Free)
<1>1. /\ F \in Nat \ {0} /\ L \in Nat /\ n \in Nat /\ n > L
      /\ L = F + 2 \/ L = F + 4
  BY PathNumbers, FreeFinite
<1> HIDE DEF F, L, n
<1>2. F \in 1 .. n /\ F + 1 \in 1 .. n /\ L \in 1 .. n /\ L + 1 \in 1 .. n
  BY <1>1
<1>3. /\ Nth(F) \in Free /\ Place(Nth(F)) = F
      /\ Nth(F + 1) \in Free /\ Place(Nth(F + 1)) = F + 1
      /\ Nth(L) \in Free /\ Place(Nth(L)) = L
      /\ Nth(L + 1) \in Free /\ Place(Nth(L + 1)) = L + 1
  BY <1>2, NthBlock DEF n
<1>4. F # F + 1 /\ F # L /\ F # L + 1 /\ F + 1 # L /\ F + 1 # L + 1 /\ L # L + 1
  BY <1>1
<1>5. FourFree(Nth(L + 1), Nth(F), Nth(F + 1), Nth(L))
  BY <1>3, <1>4 DEF FourFree
<1>6. F \in 1 .. L + 1 /\ F + 1 \in 1 .. L + 1 /\ L \in 1 .. L + 1 /\ L + 1 \in 1 .. L + 1
  BY <1>1
<1>7. {Nth(L + 1), Nth(F), Nth(F + 1), Nth(L)} \subseteq NewBlocks(1, L + 1)
  BY <1>3, <1>6 DEF NewBlocks
<1>8. QED
  BY <1>5, <1>7 DEF F, L

(* fopen lays out its structures in them.                                  *)
LEMMA Layout ==
  ASSUME FTypes, NEW last, NEW k \in Listed, NEW fd \in Handles,
         NEW descriptor, NEW private, NEW item, NEW copy,
         FourFree(descriptor, private, item, copy),
         mem' = [ZeroedTo(last) EXCEPT
                   ![descriptor] = Block(private, fd, NOTHING),
                   ![private] = Block(item, 0, NOTHING),
                   ![item] = Block(copy, 0, NOTHING),
                   ![copy] = Block(NULL, root_directory[k].filesize, root_directory[k].name)]
  PROVE  Laid(k, fd, descriptor, private, item, copy)
<1> DEFINE z == ZeroedTo(last)
           B1 == Block(private, fd, NOTHING)
           B2 == Block(item, 0, NOTHING)
           B3 == Block(copy, 0, NOTHING)
           B4 == Block(NULL, root_directory[k].filesize, root_directory[k].name)
<1>1. /\ descriptor \in Memory /\ private \in Memory /\ item \in Memory /\ copy \in Memory
      /\ descriptor \notin taken /\ private \notin taken /\ item \notin taken /\ copy \notin taken
      /\ descriptor # private /\ descriptor # item /\ descriptor # copy
      /\ private # item /\ private # copy /\ item # copy
  BY DEF FourFree, Free
<1>2. z \in [Memory -> Blocks] /\ \A b \in taken : z[b] = mem[b]
  BY ZeroedKeeps
<1>3. k \in 1 .. Len(root_directory)
  BY DEF Listed
<1>4. root_directory[k].filesize \in 0 .. POS_MOD - 1 /\ root_directory[k].name \in Names
  BY <1>3, FileAssumption DEF Names
<1>5. 0 \in 0 .. POS_MOD - 1 /\ NOTHING \in Names
  BY Sizes DEF Names
<1>6. B1 \in Blocks /\ B2 \in Blocks /\ B3 \in Blocks /\ B4 \in Blocks
  BY <1>1, <1>4, <1>5 DEF Blocks, Block
<1>7. taken \subseteq Memory
  BY DEF FTypes
<1> HIDE DEF z, B1, B2, B3, B4
<1>8. mem' = [z EXCEPT ![descriptor] = B1, ![private] = B2, ![item] = B3, ![copy] = B4]
  BY DEF z, B1, B2, B3, B4
<1>9. mem' \in [Memory -> Blocks]
  BY ONLY <1>1, <1>2, <1>6, <1>8
<1>10. mem'[descriptor] = B1 /\ mem'[private] = B2 /\ mem'[item] = B3 /\ mem'[copy] = B4
  BY ONLY <1>1, <1>2, <1>8
<1>11. \A b \in taken : mem'[b] = mem[b]
  BY ONLY <1>1, <1>2, <1>7, <1>8
<1>12. QED
  BY <1>9, <1>10, <1>11 DEF Laid, B1, B2, B3, B4

(* The new handle leads to the four blocks, and stands for the start of    *)
(* the file.                                                               *)
LEMMA NewHandle ==
  ASSUME NEW k \in Listed, NEW fd \in Handles, NEW descriptor, NEW private, NEW item, NEW copy,
         FourFree(descriptor, private, item, copy),
         Laid(k, fd, descriptor, private, item, copy),
         {descriptor, private, item, copy} \subseteq taken'
  PROVE  /\ Behind(mem', descriptor) = {descriptor, private, item, copy}
         /\ Linked(mem', taken', descriptor)
         /\ mem'[descriptor].num = fd
         /\ View(mem', descriptor) = [file |-> root_directory[k].name, pos |-> 0]
<1>1. /\ mem'[descriptor].ptr = private /\ mem'[descriptor].num = fd
      /\ mem'[private].ptr = item /\ mem'[private].num = 0
      /\ mem'[item].ptr = copy
      /\ mem'[copy].num = root_directory[k].filesize
      /\ mem'[copy].name = root_directory[k].name
  BY DEF Laid, Block
<1>2. Priv(mem', descriptor) = private
  BY <1>1 DEF Priv
<1>3. ItemAt(mem', descriptor) = item
  BY <1>1, <1>2 DEF ItemAt
<1>4. Copy(mem', descriptor) = copy
  BY <1>1, <1>3 DEF Copy
<1>5. Behind(mem', descriptor) = {descriptor, private, item, copy}
  BY <1>2, <1>3, <1>4 DEF Behind
<1>6. Different(mem', descriptor)
  BY <1>2, <1>3, <1>4 DEF Different, FourFree
<1>7. mem'[Priv(mem', descriptor)].num \in 0 .. POS_MOD - 1
  BY <1>1, <1>2, Sizes
<1>8. IsEntry(mem'[Copy(mem', descriptor)])
  BY <1>1, <1>4 DEF IsEntry
<1>9. Linked(mem', taken', descriptor)
  BY <1>5, <1>6, <1>7, <1>8 DEF Linked
<1>10. View(mem', descriptor) = [file |-> root_directory[k].name, pos |-> 0]
  BY <1>1, <1>2, <1>4 DEF View
<1>11. QED
  BY <1>1, <1>5, <1>9, <1>10

(* fopen of an entry of the root directory.                                *)
OpensAs(k, fd) ==
  /\ Opened' = [g \in OpenHandles \cup {fd} |->
                  IF g = fd THEN [file |-> root_directory[k].name, pos |-> 0] ELSE Opened[g]]
  /\ ret' = Answer("fopen", fd, NOTHING)

LEMMA FileOpened ==
  ASSUME FInv, NEW path \in Paths, fopen(path)
  PROVE  FInv' /\ \E k \in Listed, fd \in Handles \ OpenHandles : OpensAs(k, fd)
<1> DEFINE descriptor == Nth(LastBlock(path) + 1)
           private == Nth(FirstBlock(path))
           item == Nth(FirstBlock(path) + 1)
           copy == Nth(LastBlock(path))
           fd == Min(FreeSlots)
           four == {descriptor, private, item, copy}
<1>1. FTypes
  BY DEF FInv
<1>2. PICK k \in FindItem(path.parts[1]) :
        /\ taken' = taken \cup NewBlocks(1, LastBlock(path) + 1)
        /\ mem' = [ZeroedTo(LastBlock(path) + 1) EXCEPT
                     ![descriptor] = Block(private, fd, NOTHING),
                     ![private] = Block(item, 0, NOTHING),
                     ![item] = Block(copy, 0, NOTHING),
                     ![copy] = Block(NULL, root_directory[k].filesize, root_directory[k].name)]
        /\ file_descriptors' = [file_descriptors EXCEPT ![fd] = descriptor]
        /\ ret' = Answer("fopen", fd, NOTHING)
  BY DEF fopen
<1>3. k \in Listed
  BY FoundIsListed
<1>4. fd \in FreeSlots
  <2>1. FreeSlots # {} /\ FreeSlots \subseteq Nat
    BY Sizes DEF fopen, FreeSlots
  <2>2. QED
    BY <2>1, LeastElement
<1> HIDE DEF fd
<1>5. fd \in Handles /\ fd \notin OpenHandles /\ fd \in Int
  BY <1>4, Sizes DEF FreeSlots, OpenHandles
<1>6. FourFree(descriptor, private, item, copy) /\ four \subseteq NewBlocks(1, LastBlock(path) + 1)
  BY <1>1, FourBlocks DEF fopen
<1> HIDE DEF descriptor, private, item, copy
<1>7. Laid(k, fd, descriptor, private, item, copy)
  BY <1>1, <1>2, <1>3, <1>5, <1>6, Layout
<1>8. /\ taken \subseteq taken' /\ four \subseteq taken' /\ taken' \subseteq Memory
      /\ four \cap taken = {} /\ four \subseteq Memory
  BY <1>1, <1>2, <1>6 DEF NewBlocks, Free, FTypes, FourFree
<1>9. /\ Behind(mem', descriptor) = four /\ Linked(mem', taken', descriptor)
      /\ mem'[descriptor].num = fd
      /\ View(mem', descriptor) = [file |-> root_directory[k].name, pos |-> 0]
  <2>1. four \subseteq taken'
    BY <1>8
  <2> HIDE DEF four
  <2>2. QED
    BY ONLY <1>3, <1>5, <1>6, <1>7, <2>1, NewHandle DEF four
<1>10. /\ mem' \in [Memory -> Blocks] /\ \A b \in taken : mem'[b] = mem[b]
  BY <1>7 DEF Laid
<1>11. /\ file_descriptors' \in [Handles -> Memory \cup {NULL}]
       /\ file_descriptors'[fd] = descriptor
       /\ \A g \in Handles \ {fd} : file_descriptors'[g] = file_descriptors[g]
  BY <1>1, <1>2, <1>5, <1>8 DEF FTypes
<1>12. FTypes'
  BY <1>2, <1>5, <1>8, <1>10, <1>11 DEF FTypes, Answer
<1>13. OpenHandles' = OpenHandles \cup {fd}
  <2>1. descriptor # NULL
    BY <1>8, Sizes
  <2>2. QED
    BY <1>5, <1>11, <2>1 DEF OpenHandles, FreeSlots
<1>14. ASSUME NEW g \in OpenHandles
       PROVE  /\ g # fd /\ file_descriptors'[g] = file_descriptors[g]
              /\ Behind(mem', file_descriptors[g]) = Behind(mem, file_descriptors[g])
              /\ Behind(mem, file_descriptors[g]) \subseteq taken
              /\ Linked(mem', taken', file_descriptors[g])
              /\ mem'[file_descriptors[g]].num = g
              /\ View(mem', file_descriptors[g]) = View(mem, file_descriptors[g])
  <2>1. g # fd /\ file_descriptors'[g] = file_descriptors[g]
    BY <1>5, <1>11, OpenHandle
  <2>2. OwnedBy(g) \subseteq taken /\ OwnedBy(g) = Behind(mem, file_descriptors[g])
    BY OpenHandle
  <2>3. OwnedBy(g) \subseteq taken' /\ \A b \in OwnedBy(g) : mem'[b] = mem[b]
    BY <1>8, <1>10, <2>2
  <2>4. QED
    BY <2>1, <2>2, <2>3, BlocksKept
<1>15. FInv'
  <2>1. ASSUME NEW g \in OpenHandles'
        PROVE  Linked(mem', taken', file_descriptors'[g]) /\ mem'[file_descriptors'[g]].num = g
    BY <1>9, <1>11, <1>13, <1>14
  <2>2. ASSUME NEW g \in OpenHandles', NEW h \in OpenHandles', g # h
        PROVE  Behind(mem', file_descriptors'[g]) \cap Behind(mem', file_descriptors'[h]) = {}
    <3>1. CASE g = fd \/ h = fd
      <4>1. ASSUME NEW e \in OpenHandles
            PROVE  Behind(mem', file_descriptors'[e]) \cap Behind(mem', file_descriptors'[fd]) = {}
        <5>1. Behind(mem', file_descriptors'[e]) \subseteq taken
          BY <1>14
        <5>2. Behind(mem', file_descriptors'[fd]) = four
          BY <1>9, <1>11
        <5>3. QED
          BY <5>1, <5>2, <1>8
      <4>2. QED
        BY <1>13, <2>2, <3>1, <4>1
    <3>2. CASE g # fd /\ h # fd
      <4>1. g \in OpenHandles /\ h \in OpenHandles
        BY <1>13, <3>2
      <4>2. Behind(mem, file_descriptors[g]) \cap Behind(mem, file_descriptors[h]) = {}
        BY <2>2, <4>1 DEF FInv
      <4>3. QED
        BY <1>14, <4>1, <4>2
    <3>3. QED
      BY <3>1, <3>2
  <2>3. QED
    BY <1>12, <2>1, <2>2 DEF FInv
<1>16. OpensAs(k, fd)
  <2>1. Opened' = [g \in OpenHandles \cup {fd} |-> View(mem', file_descriptors'[g])]
    BY <1>13 DEF Opened
  <2>2. \A g \in OpenHandles \cup {fd} :
          View(mem', file_descriptors'[g]) =
            IF g = fd THEN [file |-> root_directory[k].name, pos |-> 0] ELSE Opened[g]
    BY <1>9, <1>11, <1>14 DEF Opened
  <2>3. QED
    BY <1>2, <2>1, <2>2 DEF OpensAs
<1>17. QED
  BY <1>3, <1>5, <1>15, <1>16

-----------------------------------------------------------------------------
(* The refinement mapping of Promise, and that it is what the handles      *)
(* stand for in the words of the invariant.                                *)
Image == [fd \in OpenHandles |-> [file |-> mem[EntryOf(fd)].name, pos |-> mem[PrivateOf(fd)].num]]
SizeTable ==
  [name \in {root_directory[k].name : k \in Listed} |->
     root_directory[CHOOSE k \in Listed : root_directory[k].name = name].filesize]

LEMMA ImageIs == Image = Opened /\ Image' = Opened'
<1>1. \A fd \in OpenHandles :
        [file |-> mem[EntryOf(fd)].name, pos |-> mem[PrivateOf(fd)].num]
          = View(mem, file_descriptors[fd])
  BY DEF EntryOf, ItemOf, PrivateOf, View, Copy, ItemAt, Priv
<1>2. Image = Opened
  BY <1>1 DEF Image, Opened
<1>3. \A fd \in OpenHandles' :
        [file |-> mem'[EntryOf(fd)'].name, pos |-> mem'[PrivateOf(fd)'].num]
          = View(mem', file_descriptors'[fd])
  BY DEF EntryOf, ItemOf, PrivateOf, View, Copy, ItemAt, Priv
<1>4. Image' = Opened'
  BY <1>3 DEF Image, Opened
<1>5. QED
  BY <1>2, <1>4

(* The size of a file is the one its entry gives: names are different.     *)
LEMMA SizeOfEntry ==
  ASSUME NEW k \in Listed
  PROVE  root_directory[k].name \in DOMAIN SizeTable
         /\ SizeTable[root_directory[k].name] = root_directory[k].filesize
<1> DEFINE j == CHOOSE l \in Listed : root_directory[l].name = root_directory[k].name
<1>1. j \in Listed /\ root_directory[j].name = root_directory[k].name
  OBVIOUS
<1>2. j \in 1 .. Len(root_directory) /\ k \in 1 .. Len(root_directory)
  BY <1>1 DEF Listed
<1>3. j = k
  BY <1>1, <1>2, FileAssumption
<1>4. SizeTable[root_directory[k].name] = root_directory[j].filesize
  BY DEF SizeTable
<1>5. QED
  BY <1>3, <1>4 DEF SizeTable

(* What is behind an open handle.                                          *)
LEMMA BehindHandle ==
  ASSUME FInv, NEW fd \in OpenHandles
  PROVE  /\ fd \in DOMAIN Opened
         /\ Opened[fd].file = mem[EntryOf(fd)].name /\ Opened[fd].pos = mem[PrivateOf(fd)].num
         /\ mem[EntryOf(fd)].num = SizeTable[Opened[fd].file]
         /\ mem[EntryOf(fd)].num \in 0 .. POS_MOD - 1
         /\ mem[PrivateOf(fd)].num \in 0 .. POS_MOD - 1
<1>1. /\ Linked(mem, taken, file_descriptors[fd])
      /\ PrivateOf(fd) = Priv(mem, file_descriptors[fd])
      /\ EntryOf(fd) = Copy(mem, file_descriptors[fd])
  BY OpenHandle
<1>2. /\ fd \in DOMAIN Opened
      /\ Opened[fd].file = mem[EntryOf(fd)].name /\ Opened[fd].pos = mem[PrivateOf(fd)].num
  BY <1>1 DEF Opened, View
<1>3. PICK k \in Listed : /\ mem[EntryOf(fd)].name = root_directory[k].name
                          /\ mem[EntryOf(fd)].num = root_directory[k].filesize
  BY <1>1 DEF Linked, IsEntry
<1>4. k \in 1 .. Len(root_directory)
  BY DEF Listed
<1>5. QED
  BY <1>1, <1>2, <1>3, <1>4, SizeOfEntry, FileAssumption DEF Linked

-----------------------------------------------------------------------------
(* The actions of the abstract specification, in the terms of the mapping. *)
LEMMA AbstractFails ==
  ASSUME Opened' = Opened,
         \E c \in {"fread", "fseek", "fstat", "fclose"}, e \in 1 .. 8 :
           ret' = Answer(c, -e, NOTHING)
  PROVE  Promise!Fails
<1>1. ret' \in Promise!Errors
  BY DEF Promise!Errors, Promise!Answer, Answer
<1>2. Image' = Image
  BY ImageIs
<1>3. QED
  BY <1>1, <1>2 DEF Promise!Fails, Image

LEMMA AbstractOpenFails ==
  ASSUME Opened' = Opened, ret' = Answer("fopen", 0, NOTHING)
  PROVE  Promise!OpenFails
<1>1. Image' = Image
  BY ImageIs
<1>2. QED
  BY <1>1 DEF Promise!OpenFails, Promise!Answer, Answer, Image

LEMMA AbstractOpen ==
  ASSUME NEW k \in Listed, NEW fd \in Handles \ OpenHandles, OpensAs(k, fd)
  PROVE  Promise!Open(fd, root_directory[k].name)
<1>1. Image' = [g \in DOMAIN Image \cup {fd} |->
                  IF g = fd THEN [file |-> root_directory[k].name, pos |-> 0] ELSE Image[g]]
      /\ fd \notin DOMAIN Image
  BY ImageIs DEF OpensAs, Opened
<1>2. ret' = Promise!Answer("fopen", fd, NOTHING)
  BY DEF OpensAs, Promise!Answer, Answer
<1>3. QED
  BY <1>1, <1>2 DEF Promise!Open, Image

LEMMA AbstractClose ==
  ASSUME NEW fd \in OpenHandles, Opened' = [g \in OpenHandles \ {fd} |-> Opened[g]],
         ret' = Answer("fclose", 0, NOTHING)
  PROVE  Promise!Close(fd)
<1>1. Image' = [g \in DOMAIN Image \ {fd} |-> Image[g]]
  BY ImageIs DEF Opened
<1>2. ret' = Promise!Answer("fclose", 0, NOTHING)
  BY DEF Promise!Answer, Answer
<1>3. QED
  BY <1>1, <1>2 DEF Promise!Close, Image

LEMMA AbstractRead ==
  ASSUME NEW fd \in OpenHandles, Opened' = Opened,
         ret' = Answer("fread", Opened[fd].pos, Opened[fd].file)
  PROVE  Promise!Read(fd)
<1>1. Image' = Image
  BY ImageIs
<1>2. ret' = Promise!Answer("fread", Image[fd].pos, Image[fd].file)
  BY ImageIs DEF Promise!Answer, Answer
<1>3. QED
  BY <1>1, <1>2 DEF Promise!Read, Image

LEMMA AbstractStat ==
  ASSUME NEW fd \in OpenHandles, Opened' = Opened,
         ret' = Answer("fstat", SizeTable[Opened[fd].file], NOTHING)
  PROVE  Promise!Stat(fd)
<1>1. Image' = Image
  BY ImageIs
<1>2. ret' = Promise!Answer("fstat", SizeTable[Image[fd].file], NOTHING)
  BY ImageIs DEF Promise!Answer, Answer
<1>3. QED
  BY <1>1, <1>2 DEF Promise!Stat, Image, SizeTable

LEMMA AbstractSeek ==
  ASSUME NEW fd \in OpenHandles, NEW offset,
         offset % POS_MOD < SizeTable[Opened[fd].file],
         NEW p \in {offset % POS_MOD, (Opened[fd].pos + offset) % POS_MOD},
         Opened' = [Opened EXCEPT ![fd].pos = p],
         ret' = Answer("fseek", 0, NOTHING)
  PROVE  Promise!Seek(fd, offset)
<1>1. /\ offset % POS_MOD < SizeTable[Image[fd].file]
      /\ p \in {offset % POS_MOD, (Image[fd].pos + offset) % POS_MOD}
      /\ Image' = [Image EXCEPT ![fd].pos = p]
  BY ImageIs
<1>2. ret' = Promise!Answer("fseek", 0, NOTHING)
  BY DEF Promise!Answer, Answer
<1>3. QED
  BY <1>1, <1>2 DEF Promise!Seek, Image, SizeTable

-----------------------------------------------------------------------------
(* Adding a number that was reduced first.                                 *)
LEMMA Quotient ==
  ASSUME NEW b \in Int, NEW m \in Nat \ {0}
  PROVE  b % m \in 0 .. m - 1 /\ \E q \in Int : b = m * q + (b % m)
<1>1. b = m * (b \div m) + (b % m) /\ b \div m \in Int /\ b % m \in 0 .. m - 1
  OBVIOUS
<1>2. QED
  BY <1>1

LEMMA OneRemainder ==
  ASSUME NEW q \in Int, NEW p \in Int, NEW m \in Nat \ {0},
         NEW r \in 0 .. m - 1, NEW s \in 0 .. m - 1, m * q + r = m * p + s
  PROVE  r = s
<1>1. m * (q - p) = s - r
  OBVIOUS
<1>2. q - p < 1
  <2> SUFFICES ASSUME q - p >= 1 PROVE FALSE
    OBVIOUS
  <2>1. m * (q - p) >= m
    OBVIOUS
  <2>2. QED
    BY <1>1, <2>1
<1>3. q - p > -1
  <2> SUFFICES ASSUME q - p <= -1 PROVE FALSE
    OBVIOUS
  <2>1. m * (q - p) <= -m
    OBVIOUS
  <2>2. QED
    BY <1>1, <2>1
<1>4. q = p
  BY <1>2, <1>3
<1>5. QED
  BY <1>4

LEMMA AddReduced ==
  ASSUME NEW a \in Int, NEW b \in Int, NEW m \in Nat \ {0}
  PROVE  (a + (b % m)) % m = (a + b) % m
<1> DEFINE c == b % m
           e == a + c
           f == a + b
           r == e % m
           s == f % m
<1>1. PICK q \in Int : c \in 0 .. m - 1 /\ b = m * q + c
  BY Quotient
<1>2. e \in Int /\ f \in Int
  BY <1>1
<1> HIDE DEF c, e, f
<1>3. PICK x \in Int : r \in 0 .. m - 1 /\ e = m * x + r
  BY <1>2, Quotient
<1>4. PICK y \in Int : s \in 0 .. m - 1 /\ f = m * y + s
  BY <1>2, Quotient
<1> HIDE DEF r, s
<1>5. f = e + m * q
  BY <1>1, <1>2 DEF e, f
<1>6. m * (x + q) + r = m * y + s
  BY <1>3, <1>4, <1>5
<1>7. r = s
  BY <1>3, <1>4, <1>6, OneRemainder
<1>8. QED
  BY <1>7 DEF c, e, f, r, s

-----------------------------------------------------------------------------
LEMMA InitInv == Init => FInv
<1> SUFFICES ASSUME Init PROVE FInv
  OBVIOUS
<1>1. Zeroed \in Blocks
  BY Sizes DEF Zeroed, Block, Blocks, Names
<1>2. FTypes
  BY <1>1, Sizes DEF Init, FTypes, Answer
<1>3. OpenHandles = {}
  BY DEF Init, OpenHandles, FreeSlots
<1>4. QED
  BY <1>2, <1>3 DEF FInv

(* What every step does: the invariant stays, the handles move as the      *)
(* abstract specification allows, and nothing but fopen loses a block.     *)
Good == FInv' /\ Promise!Next /\ (ret'.call # "fopen" => Lost' = Lost)

LEMMA OpenStep ==
  ASSUME FInv, NEW path \in Paths,
         \/ \E mode \in {"r", "w"} : fopen_refused(path, mode)
         \/ fopen_not_found(path)
         \/ fopen(path)
         \/ fopen_no_descriptor(path)
  PROVE  Good
<1>1. CASE fopen(path)
  <2>1. FInv'
    BY <1>1, FileOpened
  <2>2. PICK k \in Listed, fd \in Handles \ OpenHandles : OpensAs(k, fd)
    BY <1>1, FileOpened
  <2>3. Promise!Open(fd, root_directory[k].name)
    BY <2>2, AbstractOpen
  <2>4. root_directory[k].name \in Promise!Files
    BY SizeOfEntry DEF Promise!Files, SizeTable
  <2>5. Promise!Next
    BY <2>3, <2>4 DEF Promise!Next
  <2>6. ret'.call = "fopen"
    BY <2>2 DEF OpensAs, Answer
  <2>7. QED
    BY <2>1, <2>5, <2>6 DEF Good
<1>2. CASE ~ fopen(path)
  <2>1. FInv' /\ Opened' = Opened /\ ret' = Answer("fopen", 0, NOTHING)
    BY <1>2, FopenFailures
  <2>2. Promise!OpenFails
    BY <2>1, AbstractOpenFails
  <2>3. ret'.call = "fopen"
    BY <2>1 DEF Answer
  <2>4. QED
    BY <2>1, <2>2, <2>3 DEF Good, Promise!Next
<1>3. QED
  BY <1>1, <1>2

LEMMA RefusedStep ==
  ASSUME FInv, NEW fd, NEW size, NEW offset, NEW whence,
         BadHandle(fd) \/ fread_refused(fd, size) \/ fseek_refused(fd, offset, whence)
  PROVE  Good
<1>1. UNCHANGED <<file_descriptors, mem, taken>>
  BY DEF BadHandle, fread_refused, fseek_refused
<1>2. PICK c \in {"fread", "fseek", "fstat", "fclose"}, e \in 1 .. 8 : ret' = Answer(c, -e, NOTHING)
  <2>1. CASE BadHandle(fd)
    BY <2>1 DEF BadHandle, EIO
  <2>2. CASE fread_refused(fd, size)
    BY <2>2 DEF fread_refused, EINVARG
  <2>3. CASE fseek_refused(fd, offset, whence)
    <3>1. ret' = Answer("fseek", -EIO, NOTHING) \/ ret' = Answer("fseek", -EUNIMP, NOTHING)
      BY <2>3 DEF fseek_refused
    <3>2. QED
      BY <3>1 DEF EIO, EUNIMP
  <2>4. QED
    BY <2>1, <2>2, <2>3
<1>3. ret'.val \in Int
  BY <1>2 DEF Answer
<1>4. FInv' /\ Opened' = Opened /\ Lost' = Lost
  BY <1>1, <1>3, QuietCall
<1>5. Promise!Fails
  BY <1>2, <1>4, AbstractFails
<1>6. QED
  BY <1>4, <1>5 DEF Good, Promise!Next

LEMMA HandleStep ==
  ASSUME FInv, NEW fd, fread(fd) \/ fstat(fd) \/ fclose(fd)
  PROVE  Good
<1>1. fd \in OpenHandles
  BY DescriptorIsOpen DEF fread, fstat, fclose
<1>2. /\ Opened[fd].file = mem[EntryOf(fd)].name /\ Opened[fd].pos = mem[PrivateOf(fd)].num
      /\ mem[EntryOf(fd)].num = SizeTable[Opened[fd].file]
      /\ mem[EntryOf(fd)].num \in 0 .. POS_MOD - 1
      /\ mem[PrivateOf(fd)].num \in 0 .. POS_MOD - 1
  BY <1>1, BehindHandle
<1>3. fd \in DOMAIN Image
  BY <1>1 DEF Image
<1>4. SUFFICES /\ FInv' /\ Lost' = Lost
               /\ Promise!Read(fd) \/ Promise!Stat(fd) \/ Promise!Close(fd)
  BY <1>3 DEF Good, Promise!Next, Image
<1>5. CASE fread(fd)
  <2>1. ret' = Answer("fread", Opened[fd].pos, Opened[fd].file)
    BY <1>2, <1>5 DEF fread
  <2>2. UNCHANGED <<file_descriptors, mem, taken>> /\ ret'.val \in Int
    BY <1>2, <1>5 DEF fread, Answer
  <2>3. FInv' /\ Opened' = Opened /\ Lost' = Lost
    BY <2>2, QuietCall
  <2>4. QED
    BY <1>1, <2>1, <2>3, AbstractRead
<1>6. CASE fstat(fd)
  <2>1. ret' = Answer("fstat", SizeTable[Opened[fd].file], NOTHING)
    BY <1>2, <1>6 DEF fstat
  <2>2. UNCHANGED <<file_descriptors, mem, taken>> /\ ret'.val \in Int
    BY <1>2, <1>6 DEF fstat, Answer
  <2>3. FInv' /\ Opened' = Opened /\ Lost' = Lost
    BY <2>2, QuietCall
  <2>4. QED
    BY <1>1, <2>1, <2>3, AbstractStat
<1>7. CASE fclose(fd)
  <2>1. FInv' /\ Opened' = [g \in OpenHandles \ {fd} |-> Opened[g]] /\ Lost' = Lost
    BY <1>7, Closed
  <2>2. ret' = Answer("fclose", 0, NOTHING)
    BY <1>7 DEF fclose
  <2>3. QED
    BY <1>1, <2>1, <2>2, AbstractClose
<1>8. QED
  BY <1>5, <1>6, <1>7

LEMMA SeekStep ==
  ASSUME FInv, NEW fd, NEW offset \in Offsets, NEW whence, fseek(fd, offset, whence)
  PROVE  Good
<1>1. fd \in OpenHandles
  BY DescriptorIsOpen DEF fseek
<1>2. /\ Opened[fd].pos = mem[PrivateOf(fd)].num
      /\ mem[EntryOf(fd)].num = SizeTable[Opened[fd].file]
      /\ mem[EntryOf(fd)].num \in 0 .. POS_MOD - 1
      /\ mem[PrivateOf(fd)].num \in 0 .. POS_MOD - 1
  BY <1>1, BehindHandle
<1> DEFINE v == IF whence = "SET" THEN offset % POS_MOD
                ELSE (mem[PrivateOf(fd)].num + (offset % POS_MOD)) % POS_MOD
<1>3. offset \in Int /\ POS_MOD \in Nat \ {0}
  BY FileAssumption
<1>4. /\ mem' = [mem EXCEPT ![PrivateOf(fd)].num = v]
      /\ offset % POS_MOD < mem[EntryOf(fd)].num
      /\ ret' = Answer("fseek", 0, NOTHING) /\ UNCHANGED <<file_descriptors, taken>>
  BY DEF fseek
<1>5. offset % POS_MOD \in 0 .. POS_MOD - 1 /\ v \in 0 .. POS_MOD - 1
  <2>1. offset % POS_MOD \in 0 .. POS_MOD - 1
    BY <1>3, Quotient
  <2>2. mem[PrivateOf(fd)].num + (offset % POS_MOD) \in Int
    BY <1>2, <2>1
  <2>3. (mem[PrivateOf(fd)].num + (offset % POS_MOD)) % POS_MOD \in 0 .. POS_MOD - 1
    BY <1>3, <2>2, Quotient
  <2>4. QED
    BY <2>1, <2>3
<1>6. v \in {offset % POS_MOD, (Opened[fd].pos + offset) % POS_MOD}
  <2>1. mem[PrivateOf(fd)].num \in Int
    BY <1>2
  <2>2. (mem[PrivateOf(fd)].num + (offset % POS_MOD)) % POS_MOD =
          (mem[PrivateOf(fd)].num + offset) % POS_MOD
    BY <1>3, <2>1, AddReduced
  <2>3. QED
    BY <1>2, <2>2
<1>7. ret'.val \in Int
  BY <1>4 DEF Answer
<1> HIDE DEF v
<1>8. FInv' /\ Opened' = [Opened EXCEPT ![fd].pos = v] /\ Lost' = Lost
  BY <1>1, <1>4, <1>5, <1>7, Moved
<1>9. offset % POS_MOD < SizeTable[Opened[fd].file]
  BY <1>2, <1>4
<1>10. Promise!Seek(fd, offset)
  BY <1>1, <1>4, <1>6, <1>8, <1>9, AbstractSeek
<1>11. fd \in DOMAIN Image
  BY <1>1 DEF Image
<1>12. QED
  BY <1>8, <1>10, <1>11 DEF Good, Promise!Next, Image

LEMMA NextGood == FInv /\ Next => Good
<1> SUFFICES ASSUME FInv, Next PROVE Good
  OBVIOUS
<1>1. CASE \E path \in Paths :
             \/ \E mode \in {"r", "w"} : fopen_refused(path, mode)
             \/ fopen_not_found(path) \/ fopen(path) \/ fopen_no_descriptor(path)
  BY <1>1, OpenStep
<1>2. CASE \E fd \in Handles \cup {0, MAX_FILE_DESCRIPTORS + 1} :
             \/ BadHandle(fd)
             \/ \E size \in {0, 1} : fread_refused(fd, size)
             \/ fread(fd)
             \/ fstat(fd)
             \/ \E offset \in Offsets, whence \in {"SET", "CUR", "END"} :
                  fseek(fd, offset, whence) \/ fseek_refused(fd, offset, whence)
             \/ fclose(fd)
  <2> PICK fd \in Handles \cup {0, MAX_FILE_DESCRIPTORS + 1} :
             \/ BadHandle(fd)
             \/ \E size \in {0, 1} : fread_refused(fd, size)
             \/ fread(fd)
             \/ fstat(fd)
             \/ \E offset \in Offsets, whence \in {"SET", "CUR", "END"} :
                  fseek(fd, offset, whence) \/ fseek_refused(fd, offset, whence)
             \/ fclose(fd)
    BY <1>2
  <2>1. CASE BadHandle(fd)
    BY <2>1, RefusedStep
  <2>2. CASE \E size \in {0, 1} : fread_refused(fd, size)
    BY <2>2, RefusedStep
  <2>3. CASE \E offset \in Offsets, whence \in {"SET", "CUR", "END"} :
               fseek(fd, offset, whence) \/ fseek_refused(fd, offset, whence)
    BY <2>3, RefusedStep, SeekStep
  <2>4. CASE fread(fd) \/ fstat(fd) \/ fclose(fd)
    BY <2>4, HandleStep
  <2>5. QED
    BY <2>1, <2>2, <2>3, <2>4
<1>3. QED
  BY <1>1, <1>2 DEF Next

LEMMA StutterGood == FInv /\ UNCHANGED vars => FInv' /\ Lost' = Lost /\ UNCHANGED Promise!vars
<1> SUFFICES ASSUME FInv, UNCHANGED vars PROVE FInv' /\ Lost' = Lost /\ UNCHANGED Promise!vars
  OBVIOUS
<1>1. UNCHANGED <<file_descriptors, mem, taken>> /\ ret' = ret /\ ret'.val \in Int
  BY DEF vars, FInv, FTypes
<1>2. FInv' /\ Opened' = Opened /\ Lost' = Lost
  BY <1>1, QuietCall
<1>3. Image' = Image
  BY <1>2, ImageIs
<1>4. QED
  BY <1>1, <1>2, <1>3 DEF Promise!vars, Image

-----------------------------------------------------------------------------
LEMMA InvAlways == Spec => []FInv
<1>1. FInv /\ [Next]_vars => FInv'
  BY NextGood, StutterGood DEF Good
<1>2. QED
  BY <1>1, InitInv, PTL DEF Spec

(* The table of file.c holds blocks of the heap, and every pointer and     *)
(* number in the structures of fat16.c has its type, after any calls of    *)
(* fopen, fread, fseek, fstat and fclose.                                  *)
THEOREM TypesCorrect == Spec => []TypeOK
<1>1. FInv => TypeOK
  <2> SUFFICES ASSUME FInv PROVE TypeOK
    OBVIOUS
  <2>1. FTypes
    BY DEF FInv
  <2>2. ASSUME NEW b \in Memory
        PROVE  mem[b].ptr \in Memory \cup {NULL} /\ mem[b].num \in (0 .. POS_MOD - 1) \cup Handles
    <3>1. mem[b] \in Blocks
      BY <2>1 DEF FTypes
    <3>2. QED
      BY <3>1 DEF Blocks
  <2>3. QED
    BY <2>1, <2>2 DEF TypeOK, FTypes
<1>2. QED
  BY <1>1, InvAlways, PTL

(* Four different blocks are four.                                         *)
LEMMA CountFour ==
  ASSUME NEW a, NEW b, NEW c, NEW d, a # b, a # c, a # d, b # c, b # d, c # d
  PROVE  Cardinality({a, b, c, d}) = 4
<1>1. IsFiniteSet({a}) /\ Cardinality({a}) = 1
  BY FS_Singleton
<1>2. IsFiniteSet({a} \cup {b}) /\ Cardinality({a} \cup {b}) = 2
  BY <1>1, FS_AddElement
<1>3. IsFiniteSet(({a} \cup {b}) \cup {c}) /\ Cardinality(({a} \cup {b}) \cup {c}) = 3
  BY <1>2, FS_AddElement
<1>4. Cardinality((({a} \cup {b}) \cup {c}) \cup {d}) = 4
  BY <1>3, FS_AddElement
<1>5. {a, b, c, d} = (({a} \cup {b}) \cup {c}) \cup {d}
  OBVIOUS
<1>6. QED
  BY <1>4, <1>5

(* Every handle that fopen returned has four allocated blocks of its own   *)
(* behind it until fclose: the descriptor of file.c and the three          *)
(* structures of fat16.c.  No call on another handle, no failing fopen and *)
(* no reuse of freed blocks takes one away or makes two handles share one. *)
THEOREM BlocksOwned == Spec => []HandlesOwnTheirBlocks
<1>1. FInv => HandlesOwnTheirBlocks
  <2> SUFFICES ASSUME FInv, NEW fd \in OpenHandles
               PROVE  /\ OwnedBy(fd) \subseteq taken /\ Cardinality(OwnedBy(fd)) = 4
                      /\ mem[file_descriptors[fd]].num = fd
                      /\ \A g \in OpenHandles \ {fd} : OwnedBy(fd) \cap OwnedBy(g) = {}
    BY DEF HandlesOwnTheirBlocks
  <2>1. /\ OwnedBy(fd) \subseteq taken /\ mem[file_descriptors[fd]].num = fd
        /\ OwnedBy(fd) = Behind(mem, file_descriptors[fd])
        /\ Different(mem, file_descriptors[fd])
    BY OpenHandle DEF Linked
  <2>2. Cardinality(OwnedBy(fd)) = 4
    <3> DEFINE d == file_descriptors[fd]
               p == Priv(mem, d)
               i == ItemAt(mem, d)
               c == Copy(mem, d)
    <3>1. d # p /\ d # i /\ d # c /\ p # i /\ p # c /\ i # c
      BY <2>1 DEF Different
    <3>2. OwnedBy(fd) = {d, p, i, c}
      BY <2>1 DEF Behind
    <3> HIDE DEF d, p, i, c
    <3>3. Cardinality({d, p, i, c}) = 4
      BY <3>1, CountFour, Zenon
    <3>4. QED
      BY <3>2, <3>3
  <2>3. QED
    BY <2>1, <2>2, Apart
<1>2. QED
  BY <1>1, InvAlways, PTL

(* Only fopen leaves blocks behind that nothing points to: fclose gives    *)
(* back all four of its handle, and no other call changes what is lost.    *)
THEOREM OnlyOpenLoses == Spec => OnlyOpenLosesBlocks
<1>1. FInv /\ [Next]_vars => [ret'.call # "fopen" => Lost' = Lost]_vars
  BY NextGood, StutterGood DEF Good
<1>2. QED
  BY <1>1, InvAlways, PTL DEF Spec, OnlyOpenLosesBlocks

(* The functions of file.c implement handles on files as OpenFiles states  *)
(* them: every answer of fread, fstat and fseek is about the file and the  *)
(* position of its own handle, though all of it is kept in blocks that are *)
(* freed and handed out again.                                             *)
THEOREM HandlesImplemented == Spec => ImplementsOpenFiles
<1>1. Init => Promise!Init
  <2> SUFFICES ASSUME Init PROVE Promise!Init
    OBVIOUS
  <2>1. OpenHandles = {}
    BY DEF Init, OpenHandles, FreeSlots
  <2>2. Image = << >>
    BY <2>1 DEF Image
  <2>3. ret = Promise!Answer("none", 0, NOTHING)
    BY DEF Init, Answer, Promise!Answer
  <2>4. QED
    BY <2>2, <2>3 DEF Promise!Init, Image
<1>2. FInv /\ [Next]_vars => [Promise!Next]_(Promise!vars)
  BY NextGood, StutterGood DEF Good
<1>3. QED
  BY <1>1, <1>2, InvAlways, PTL DEF Spec, ImplementsOpenFiles, Promise!Spec
=============================================================================
