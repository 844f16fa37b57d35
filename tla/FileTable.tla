----------------------------- MODULE FileTable ------------------------------
(***************************************************************************)
(* Files: the descriptor table of file.c over the open, seek, stat and     *)
(* close functions of fat16.c, with the structures they allocate in the    *)
(* blocks of the kernel heap.  A call runs with interrupts disabled and is *)
(* one step.  Blocks are handed out first fit and keep what they held when *)
(* they are freed, so a pointer that outlives its block reads what the     *)
(* next owner put there.                                                   *)
(*                                                                         *)
(* Each structure of an open file fits one block and holds one pointer and *)
(* one number that matter.  Paths are well formed: fopen of another path   *)
(* releases a null path and reads through address 0.                       *)
(***************************************************************************)
EXTENDS Integers, Sequences, FiniteSetsExt

CONSTANTS
  MAX_FILE_DESCRIPTORS,   \* PEACHOS_MAX_FILE_DESCRIPTORS, 512
  HEAP_BLOCKS,            \* blocks the heap has for files
  root_directory,         \* the entries of the root directory, as on the disk
  Paths,                  \* drive and parts of the paths callers pass
  Offsets,                \* what callers pass to fseek
  POS_MOD,                \* fat_file_descriptor.pos is modulo 2^32
  NOTHING

Handles == 1 .. MAX_FILE_DESCRIPTORS
Memory == 1 .. HEAP_BLOCKS
NULL == 0
EINVARG == 1
EIO == 2
EUNIMP == 7

ASSUME FileAssumption ==
  /\ MAX_FILE_DESCRIPTORS \in Nat \ {0} /\ HEAP_BLOCKS \in Nat /\ POS_MOD \in Nat \ {0}
  /\ Len(root_directory) \in Nat
  /\ \A k, l \in 1 .. Len(root_directory) :
       /\ root_directory[k].filesize \in 0 .. POS_MOD - 1
       /\ k # l => root_directory[k].name # root_directory[l].name
  /\ \A path \in Paths : path.drive \in 0 .. 9 /\ Len(path.parts) \in Nat
  /\ Offsets \subseteq Int

VARIABLES
  file_descriptors,   \* the table: a pointer to a file_descriptor for each handle
  mem,                \* what the blocks hold
  taken,              \* the blocks in use
  ret                 \* the last call and its answer

vars == <<file_descriptors, mem, taken, ret>>

-----------------------------------------------------------------------------
(* A block: file_descriptor holds privateInfo and its index, fat's         *)
(* descriptor the item and the position, fat_item the copied directory     *)
(* entry, and that entry the file's size and name.                         *)
Block(ptr, num, name) == [ptr |-> ptr, num |-> num, name |-> name]
Zeroed == Block(NULL, 0, NOTHING)

Answer(call, val, file) == [call |-> call, val |-> val, file |-> file]

(* First fit, when nothing is freed in between: the k-th block kZalloc     *)
(* finds has k - 1 free ones before it.                                    *)
Free == Memory \ taken
Place(b) == Cardinality({c \in Free : c < b}) + 1
NewBlocks(first, last) == {b \in Free : Place(b) \in first .. last}
Nth(k) == CHOOSE b \in Free : Place(b) = k

(* The memory after kZalloc zeroed that many blocks, or as many as are     *)
(* free.  What a path puts into its blocks, and fat16_open into those that *)
(* fopen then loses, is not followed.                                      *)
ZeroedTo(last) ==
  LET new == NewBlocks(1, last)
  IN  [b \in Memory |-> IF b \in new THEN Zeroed ELSE mem[b]]

(* path_root, and a string and a path_part for every part.                 *)
PathBlocks(path) == 1 + 2 * Len(path.parts)

(* fat16_get_total_items_for_directory does not count deleted entries, but *)
(* the search looks at that many entries, deleted ones included.           *)
TotalItems == Cardinality({k \in 1 .. Len(root_directory) : ~ root_directory[k].deleted})
FindItem(name) ==
  {k \in 1 .. TotalItems : ~ root_directory[k].deleted /\ root_directory[k].name = name}

(* The item fat16_open makes for the first part of a path: fat_item and    *)
(* the copy of the entry, and for a subdirectory also the loaded directory *)
(* and its entries, which the copy then replaces.                          *)
ItemBlocks(path) ==
  IF \E k \in FindItem(path.parts[1]) : root_directory[k].subdirectory THEN 4
  ELSE IF FindItem(path.parts[1]) # {} THEN 2 ELSE 0

(* The block after the path's that fat16_open has for its descriptor, and  *)
(* the last one it takes while there are free ones.                        *)
FirstBlock(path) == PathBlocks(path) + 1
LastBlock(path) == FirstBlock(path) + ItemBlocks(path)

FreeSlots == {fd \in Handles : file_descriptors[fd] = NULL}

(* The allocations of pathparser_parse, whose answers it does not look at, *)
(* succeed.  Behind the last part it takes a string and frees it at once,  *)
(* so that fat16_open always has a block for its descriptor.               *)
ParserHasRoom(path) == Cardinality(Free) > PathBlocks(path)

-----------------------------------------------------------------------------
(* fs_init.                                                                *)
Init ==
  /\ file_descriptors = [fd \in Handles |-> NULL]
  /\ mem = [b \in Memory |-> Zeroed]
  /\ taken = {}
  /\ ret = Answer("none", 0, NOTHING)

(* fopen without a part, on a drive that is not there, or with a mode that *)
(* is not "r": what was allocated is the path, and it is freed.            *)
fopen_refused(path, mode) ==
  /\ ParserHasRoom(path)
  /\ path.parts = << >> \/ path.drive # 0 \/ mode # "r"
  /\ mem' = ZeroedTo(PathBlocks(path) + 1)
  /\ ret' = Answer("fopen", 0, NOTHING)
  /\ UNCHANGED <<file_descriptors, taken>>

(* fat16_open finds nothing.  Its descriptor stays allocated, and so does  *)
(* what there was memory for of the item of the first part when the path   *)
(* goes on: every item is marked as a file.                                *)
fopen_not_found(path) ==
  /\ path.parts # << >> /\ path.drive = 0
  /\ ParserHasRoom(path)
  /\ FindItem(path.parts[1]) = {} \/ Len(path.parts) > 1
  /\ taken' = taken \cup NewBlocks(FirstBlock(path), LastBlock(path))
  /\ mem' = ZeroedTo(LastBlock(path))
  /\ ret' = Answer("fopen", 0, NOTHING)
  /\ UNCHANGED file_descriptors

(* fopen of an entry of the root directory.  The path is not freed.        *)
fopen(path) ==
  /\ Len(path.parts) = 1 /\ path.drive = 0
  /\ ParserHasRoom(path)
  /\ FreeSlots # {} /\ Cardinality(Free) > LastBlock(path)
  /\ \E k \in FindItem(path.parts[1]) :
       LET descriptor == Nth(LastBlock(path) + 1)
           private == Nth(FirstBlock(path))
           item == Nth(FirstBlock(path) + 1)
           copy == Nth(LastBlock(path))
           fd == Min(FreeSlots)
       IN  /\ taken' = taken \cup NewBlocks(1, LastBlock(path) + 1)
           /\ mem' = [ZeroedTo(LastBlock(path) + 1) EXCEPT
                ![descriptor] = Block(private, fd, NOTHING),
                ![private] = Block(item, 0, NOTHING),
                ![item] = Block(copy, 0, NOTHING),
                ![copy] = Block(NULL, root_directory[k].filesize, root_directory[k].name)]
           /\ file_descriptors' = [file_descriptors EXCEPT ![fd] = descriptor]
           /\ ret' = Answer("fopen", fd, NOTHING)

(* The memory ends in fat16_open or in file_new_descriptor, or no slot is  *)
(* free: what fat16 allocated stays so.  Only the item itself is tested    *)
(* for; an item whose copy of the entry found no block is returned with a  *)
(* null pointer, but then there is none for a file_descriptor either.      *)
fopen_no_descriptor(path) ==
  /\ Len(path.parts) = 1 /\ path.drive = 0
  /\ ParserHasRoom(path)
  /\ FindItem(path.parts[1]) # {}
  /\ FreeSlots = {} \/ Cardinality(Free) <= LastBlock(path)
  /\ taken' = taken \cup NewBlocks(FirstBlock(path), LastBlock(path))
  /\ mem' = ZeroedTo(LastBlock(path))
  /\ ret' = Answer("fopen", 0, NOTHING)
  /\ UNCHANGED file_descriptors

-----------------------------------------------------------------------------
(* file_get_descriptor of any number; NULL when it is not open.            *)
file_get_descriptor(fd) == IF fd \in Handles THEN file_descriptors[fd] ELSE NULL

(* What a handle leads to.                                                 *)
PrivateOf(fd) == mem[file_descriptors[fd]].ptr
ItemOf(fd) == mem[PrivateOf(fd)].ptr
EntryOf(fd) == mem[ItemOf(fd)].ptr

(* fseek, fstat and fclose of a handle that is not open.                   *)
BadHandle(fd) ==
  /\ file_get_descriptor(fd) = NULL
  /\ ret' \in {Answer(c, -EIO, NOTHING) : c \in {"fseek", "fstat", "fclose"}}
  /\ UNCHANGED <<file_descriptors, mem, taken>>

fread_refused(fd, size) ==
  /\ size = 0 \/ file_get_descriptor(fd) = NULL
  /\ ret' = Answer("fread", -EINVARG, NOTHING)
  /\ UNCHANGED <<file_descriptors, mem, taken>>

(* fread does not move the position; Fat16Read has what it reads.          *)
fread(fd) ==
  /\ file_get_descriptor(fd) # NULL
  /\ ret' = Answer("fread", mem[PrivateOf(fd)].num, mem[EntryOf(fd)].name)
  /\ UNCHANGED <<file_descriptors, mem, taken>>

fstat(fd) ==
  /\ file_get_descriptor(fd) # NULL
  /\ ret' = Answer("fstat", mem[EntryOf(fd)].num, NOTHING)
  /\ UNCHANGED <<file_descriptors, mem, taken>>

(* Mutant: a relative offset is not reduced to the width of the position.  *)
fseek_wide(fd, offset, whence) ==
  LET private == mem[PrivateOf(fd)]
      off == offset % POS_MOD
  IN  /\ file_get_descriptor(fd) # NULL
      /\ off < mem[EntryOf(fd)].num
      /\ whence \in {"SET", "CUR"}
      /\ mem' = [mem EXCEPT ![PrivateOf(fd)].num =
                   IF whence = "SET" THEN off ELSE private.num + off]
      /\ ret' = Answer("fseek", 0, NOTHING)
      /\ UNCHANGED <<file_descriptors, taken>>

(* Mutant: the offset is not compared with the size.                       *)
fseek_unchecked(fd, offset, whence) ==
  LET pos == mem[PrivateOf(fd)].num
      off == offset % POS_MOD
  IN  /\ file_get_descriptor(fd) # NULL
      /\ whence \in {"SET", "CUR"}
      /\ mem' = [mem EXCEPT ![PrivateOf(fd)].num =
                   IF whence = "SET" THEN off ELSE (pos + off) % POS_MOD]
      /\ ret' = Answer("fseek", 0, NOTHING)
      /\ UNCHANGED <<file_descriptors, taken>>

(* fat16_seek.  The offset is compared with the size as an unsigned        *)
(* number; a relative one is added to the position without a comparison.   *)
fseek(fd, offset, whence) ==
  LET pos == mem[PrivateOf(fd)].num
      off == offset % POS_MOD
  IN  /\ file_get_descriptor(fd) # NULL
      /\ off < mem[EntryOf(fd)].num
      /\ whence \in {"SET", "CUR"}
      /\ mem' = [mem EXCEPT ![PrivateOf(fd)].num =
                   IF whence = "SET" THEN off ELSE (pos + off) % POS_MOD]
      /\ ret' = Answer("fseek", 0, NOTHING)
      /\ UNCHANGED <<file_descriptors, taken>>

fseek_refused(fd, offset, whence) ==
  LET past == offset % POS_MOD >= mem[EntryOf(fd)].num
  IN  /\ file_get_descriptor(fd) # NULL
      /\ past \/ whence = "END"
      /\ ret' = Answer("fseek", IF past THEN -EIO ELSE -EUNIMP, NOTHING)
      /\ UNCHANGED <<file_descriptors, mem, taken>>

(* Mutant: the slot of a closed handle is not cleared.                     *)
fclose_keeps_slot(fd) ==
  /\ file_get_descriptor(fd) # NULL
  /\ taken' = taken \ {EntryOf(fd), ItemOf(fd), PrivateOf(fd), file_descriptors[fd]}
  /\ ret' = Answer("fclose", 0, NOTHING)
  /\ UNCHANGED <<file_descriptors, mem>>

(* Mutant: fat16_close frees its descriptor and not the item.              *)
fclose_keeps_item(fd) ==
  /\ file_get_descriptor(fd) # NULL
  /\ taken' = taken \ {PrivateOf(fd), file_descriptors[fd]}
  /\ file_descriptors' = [file_descriptors EXCEPT ![mem[file_descriptors[fd]].num] = NULL]
  /\ ret' = Answer("fclose", 0, NOTHING)
  /\ UNCHANGED mem

(* fat16_close and file_free_descriptor.                                   *)
fclose(fd) ==
  /\ file_get_descriptor(fd) # NULL
  /\ taken' = taken \ {EntryOf(fd), ItemOf(fd), PrivateOf(fd), file_descriptors[fd]}
  /\ file_descriptors' = [file_descriptors EXCEPT ![mem[file_descriptors[fd]].num] = NULL]
  /\ ret' = Answer("fclose", 0, NOTHING)
  /\ UNCHANGED mem

Next ==
  \/ \E path \in Paths :
       \/ \E mode \in {"r", "w"} : fopen_refused(path, mode)
       \/ fopen_not_found(path)
       \/ fopen(path)
       \/ fopen_no_descriptor(path)
  \/ \E fd \in Handles \cup {0, MAX_FILE_DESCRIPTORS + 1} :
       \/ BadHandle(fd)
       \/ \E size \in {0, 1} : fread_refused(fd, size)
       \/ fread(fd)
       \/ fstat(fd)
       \/ \E offset \in Offsets, whence \in {"SET", "CUR", "END"} :
            fseek(fd, offset, whence) \/ fseek_refused(fd, offset, whence)
       \/ fclose(fd)

Spec == Init /\ [][Next]_vars

-----------------------------------------------------------------------------
OpenHandles == Handles \ FreeSlots
OwnedBy(fd) == {file_descriptors[fd], PrivateOf(fd), ItemOf(fd), EntryOf(fd)}
Lost == taken \ UNION {OwnedBy(fd) : fd \in OpenHandles}

(* Types of the table, the blocks and the last answer.                     *)
TypeOK ==
  /\ file_descriptors \in [Handles -> Memory \cup {NULL}]
  /\ \A b \in Memory : mem[b].ptr \in Memory \cup {NULL} /\ mem[b].num \in 0 .. POS_MOD - 1 \cup Handles
  /\ taken \subseteq Memory
  /\ ret.val \in Int

(* The four structures behind a handle that fopen returned are allocated,  *)
(* are four, and belong to no other handle, until fclose; the handle is    *)
(* the one its descriptor carries.                                         *)
HandlesOwnTheirBlocks ==
  \A fd \in OpenHandles :
    /\ OwnedBy(fd) \subseteq taken /\ Cardinality(OwnedBy(fd)) = 4
    /\ mem[file_descriptors[fd]].num = fd
    /\ \A g \in OpenHandles \ {fd} : OwnedBy(fd) \cap OwnedBy(g) = {}

(* Blocks that no handle leads to any more are lost, and only a call of    *)
(* fopen loses one: fclose returns everything that is behind its handle.   *)
OnlyOpenLosesBlocks == [][ret'.call # "fopen" => Lost' = Lost]_vars

Listed == {k \in 1 .. Len(root_directory) : ~ root_directory[k].deleted}

Promise == INSTANCE OpenFiles WITH
  SizeOf <- [name \in {root_directory[k].name : k \in Listed} |->
               root_directory[CHOOSE k \in Listed : root_directory[k].name = name].filesize],
  open <- [fd \in OpenHandles |-> [file |-> mem[EntryOf(fd)].name, pos |-> mem[PrivateOf(fd)].num]],
  answer <- ret

(* fopen, fread, fseek, fstat and fclose behave as handles on files: each  *)
(* keeps its own file and position whatever is opened, moved or closed     *)
(* besides.                                                                *)
ImplementsOpenFiles == Promise!Spec
=============================================================================
