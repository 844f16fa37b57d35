------------------------------- MODULE Paging -------------------------------
(***************************************************************************)
(* The page tables of paging.c as values.  An address space is a directory *)
(* of page tables; an entry is a physical page address with its flags.     *)
(* Addresses are numbers, and every operator splits them the way the       *)
(* source does.                                                            *)
(***************************************************************************)
EXTENDS Integers

CONSTANTS
  PAGE_SIZE_IN_BYTES,            \* 4096
  PAGE_TABLE_ENTRIES_PER_TABLE   \* 1024

ASSUME PagingAssumption ==
  PAGE_SIZE_IN_BYTES \in Nat \ {0} /\ PAGE_TABLE_ENTRIES_PER_TABLE \in Nat \ {0}

Indexes == 0 .. PAGE_TABLE_ENTRIES_PER_TABLE - 1
TableSpan == PAGE_TABLE_ENTRIES_PER_TABLE * PAGE_SIZE_IN_BYTES

(* PAGING_IS_PRESENT, PAGING_IS_WRITEABLE and PAGING_ACCESS_FROM_ALL.      *)
Flags == SUBSET {"P", "W", "U"}
Entry(phy, flags) == [phy |-> phy, flags |-> flags]
Entries == [phy : Nat, flags : Flags]
Spaces == [Indexes -> [Indexes -> Entries]]

Aligned(addr) == addr % PAGE_SIZE_IN_BYTES = 0

-----------------------------------------------------------------------------
(* A linear map of the whole address space.                                *)
paging_new_4gb(flags) ==
  [d \in Indexes |-> [i \in Indexes |->
     Entry(d * TableSpan + i * PAGE_SIZE_IN_BYTES, flags)]]

(* The indexes paging_set computes.                                        *)
PageDirectoryIndex(virt) == virt \div TableSpan
PageTableIndex(virt) == (virt % TableSpan) \div PAGE_SIZE_IN_BYTES

(* paging_set of a page-aligned address.                                   *)
paging_set(space, virt, entry) ==
  [space EXCEPT ![PageDirectoryIndex(virt)][PageTableIndex(virt)] = entry]

paging_map(space, virt, phy, flags) ==
  IF Aligned(virt) /\ Aligned(phy) THEN paging_set(space, virt, Entry(phy, flags))
  ELSE space

(* The loop of paging_map_range: page after page from virt on, unless the  *)
(* first one is refused.                                                   *)
paging_map_range(space, virt, phy, count, flags) ==
  LET mapped == [k \in 0 .. count |-> [v |-> virt + k * PAGE_SIZE_IN_BYTES,
                                       p |-> phy + k * PAGE_SIZE_IN_BYTES]]
      pages[k \in 0 .. count] ==
        IF k = 0 THEN space
        ELSE paging_map(pages[k - 1], mapped[k - 1].v, mapped[k - 1].p, flags)
  IN  pages[count]

(* Mutant: the count of pages is one short.                                *)
paging_map_to_short(space, virt, phy, phy_end, flags) ==
  paging_map_range(space, virt, phy, (phy_end - phy) \div PAGE_SIZE_IN_BYTES - 1, flags)

paging_map_to(space, virt, phy, phy_end, flags) ==
  IF Aligned(virt) /\ Aligned(phy) /\ Aligned(phy_end)
  THEN paging_map_range(space, virt, phy, (phy_end - phy) \div PAGE_SIZE_IN_BYTES, flags)
  ELSE space

paging_align_addres(ptr) ==
  IF Aligned(ptr) THEN ptr
  ELSE ptr + (PAGE_SIZE_IN_BYTES - (ptr % PAGE_SIZE_IN_BYTES))

(* paging_get takes the table index from paging_get_indexes, which is the  *)
(* offset within the page and not the number of the page.                  *)
paging_get_indexes(virt) == [directory |-> virt \div TableSpan,
                             table |-> virt % PAGE_SIZE_IN_BYTES]
paging_get(space, virt) ==
  space[paging_get_indexes(virt).directory][paging_get_indexes(virt).table]

(* The entry the processor uses for an address (hardware).                 *)
Translate(space, virt) == space[PageDirectoryIndex(virt)][PageTableIndex(virt)]
=============================================================================
