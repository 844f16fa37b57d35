--------------------------- MODULE ProcessesProofs --------------------------
(***************************************************************************)
(* Address spaces of the processes, for every page size, table size, heap  *)
(* and program: what a program can write, where it finds itself, and what  *)
(* copy_string_from_task reads.                                            *)
(*                                                                         *)
(* An entry of a page directory is seen through the number of the page it  *)
(* translates.  The inductive invariant says of every entry of a task what *)
(* it holds: the pages of the program, those of the stack, and everywhere  *)
(* else an entry that does not let the program write; but for the page     *)
(* that copy_string_from_task maps between its two switches.  The entry    *)
(* that it saves is another one than the one it replaces (paging_get), and *)
(* is harmless only because the heap shares no page table with a program.  *)
(***************************************************************************)
EXTENDS Processes, WellFoundedInduction, SequenceTheorems, TLAPS

P == PAGE_SIZE_IN_BYTES
N == PAGE_TABLE_ENTRIES_PER_TABLE

Pages(bytes) == Rounded(bytes) \div P
First(addr) == addr \div P
PageOf(d, j) == d * N + j
ProgramPages(n) ==
  First(PROGRAM_VIRTUAL_ADDRESS) .. First(PROGRAM_VIRTUAL_ADDRESS) + Pages(n) - 1
StackPages ==
  First(STACK_VIRTUAL_ADDRESS_END) .. First(STACK_VIRTUAL_ADDRESS_END) + Pages(STACK_SIZE) - 1

Process == [struct : HeapPages, ptr : HeapPages, size : FileSizes, stack : HeapPages]
PageEntry == [phy : Int, flags : Flags]
Space == [Indexes -> [Indexes -> PageEntry]]

(* The entry of page w holds what process_map_memory gave it for process   *)
(* p, or does not let the program write.                                   *)
Regular(p, w, entry) ==
  /\ w \in ProgramPages(p.size) =>
       entry = Entry(p.ptr + (w - First(PROGRAM_VIRTUAL_ADDRESS)) * P, ALL)
  /\ w \in StackPages =>
       entry = Entry(p.stack + (w - First(STACK_VIRTUAL_ADDRESS_END)) * P, ALL)
  /\ w \notin ProgramPages(p.size) /\ w \notin StackPages => entry.flags = {"P", "U"}

Copying == pc \in {"copy", "restore"}
Temporary(s, d, j) ==
  Copying /\ s = current_task /\ PageOf(d, j) = First(tmp)

SpacesInv ==
  /\ spaces[KERNEL] = paging_new_4gb(ALL)
  /\ \A s \in Loaded : \A d, j \in Indexes :
       IF Temporary(s, d, j) THEN spaces[s][d][j] = Entry(tmp, ALL)
       ELSE Regular(processes[s], PageOf(d, j), spaces[s][d][j])

HeapInv ==
  /\ \A s \in Loaded : Owned(s) \subseteq taken
  /\ \A s, r \in Loaded : s # r => Owned(s) \cap Owned(r) = {}
  /\ Copying =>
       /\ tmp \in HeapPages /\ \A s \in Loaded : tmp \notin Owned(s)
       /\ old_entry \in PageEntry /\ old_entry.flags = {"P", "U"}

SwitchInv ==
  /\ current_directory = cr3
  /\ cr3 = IF pc \in {"user", "copy"} THEN current_task ELSE KERNEL
  /\ pc # "boot" => current_task # NONE
  /\ current_task # NONE => tasks # << >>

CopyInv ==
  /\ pc \in {"restore", "done"} =>
       /\ wrote.to = tmp
       /\ arg = PROGRAM_VIRTUAL_ADDRESS => wrote.from = processes[current_task].ptr
  /\ pc = "done" => got = tmp

AInv ==
  /\ processes \in [Slots -> Process \cup {NONE}]
  /\ TypeOK /\ SpacesInv /\ HeapInv /\ SwitchInv /\ CopyInv

-----------------------------------------------------------------------------
(* Arithmetic of pages.                                                    *)
LEMMA Sizes ==
  /\ P \in Nat /\ P > 0 /\ N \in Nat /\ N > 0
  /\ N * P \in Nat /\ N * P > 0 /\ TableSpan = N * P /\ Indexes = 0 .. N - 1
<1>1. P \in Nat /\ P > 0 /\ N \in Nat /\ N > 0
  BY PagingAssumption DEF P, N
<1>2. ASSUME NEW a \in Nat, NEW b \in Nat, a > 0, b > 0 PROVE a * b \in Nat /\ a * b > 0
  BY <1>2
<1>3. QED
  BY <1>1, <1>2 DEF TableSpan, Indexes, P, N

LEMMA Product == ASSUME NEW a \in Nat, NEW b \in Nat PROVE a * b \in Nat
OBVIOUS

LEMMA Grows ==
  ASSUME NEW a \in Nat, NEW b \in Nat, NEW c \in Nat, a <= b
  PROVE  a * c <= b * c
OBVIOUS

LEMMA Sum == ASSUME NEW a \in Int, NEW b \in Int, NEW c \in Int
             PROVE  (a + b) * c = a * c + b * c /\ (a - b) * c = a * c - b * c
OBVIOUS

LEMMA Divide ==
  ASSUME NEW n \in Nat, NEW w \in Nat, w > 0
  PROVE  /\ n \div w \in Nat /\ n % w \in 0 .. w - 1
         /\ n = (n \div w) * w + (n % w)
OBVIOUS

(* Quotient and remainder are unique.                                      *)
LEMMA DivideUnique ==
  ASSUME NEW q \in Nat, NEW w \in Nat, w > 0, NEW c \in Nat, c < w
  PROVE  q * w + c \in Nat /\ (q * w + c) \div w = q /\ (q * w + c) % w = c
<1> DEFINE n == q * w + c
<1>1. q * w \in Nat /\ n \in Nat
  BY Product
<1>2. /\ n \div w \in Nat /\ n % w \in 0 .. w - 1
      /\ n = (n \div w) * w + (n % w)
  BY <1>1, Divide
<1> DEFINE x == n \div w y == n % w
<1> HIDE DEF x, y
<1>3. x \in Nat /\ y \in 0 .. w - 1 /\ q * w + c = x * w + y
  BY <1>2 DEF x, y
<1>4. CASE x < q
  <2>1. (x + 1) * w <= q * w /\ (x + 1) * w = x * w + w /\ x * w \in Nat
    <3>1. x + 1 \in Nat /\ x + 1 <= q /\ 1 * w = w
      BY <1>3, <1>4
    <3>2. QED
      BY <1>3, <3>1, Grows, Sum, Product
  <2>2. QED
    BY <1>1, <1>3, <2>1
<1>5. CASE q < x
  <2>1. (q + 1) * w <= x * w /\ (q + 1) * w = q * w + w /\ x * w \in Nat
    <3>1. q + 1 \in Nat /\ q + 1 <= x /\ 1 * w = w
      BY <1>3, <1>5
    <3>2. QED
      BY <1>3, <3>1, Grows, Sum, Product
  <2>2. QED
    BY <1>1, <1>3, <2>1
<1>6. CASE x = q
  BY <1>1, <1>3, <1>6 DEF x, y
<1>7. QED
  BY <1>3, <1>4, <1>5, <1>6

LEMMA DivideGrows ==
  ASSUME NEW a \in Nat, NEW b \in Nat, NEW w \in Nat, w > 0, a <= b
  PROVE  a \div w <= b \div w
<1> DEFINE x == a \div w y == b \div w
<1>1. /\ x \in Nat /\ a % w \in 0 .. w - 1 /\ a = x * w + (a % w)
      /\ y \in Nat /\ b % w \in 0 .. w - 1 /\ b = y * w + (b % w)
  BY Divide
<1> HIDE DEF x, y
<1>2. x * w \in Nat /\ y * w \in Nat
  BY <1>1, Product
<1>3. CASE y < x
  <2>1. (y + 1) * w <= x * w /\ (y + 1) * w = y * w + w
    <3>1. y + 1 \in Nat /\ y + 1 <= x /\ 1 * w = w
      BY <1>1, <1>3
    <3>2. QED
      BY <1>1, <3>1, Grows, Sum
  <2>2. QED
    BY <1>1, <1>2, <2>1
<1>4. CASE x <= y
  BY <1>4 DEF x, y
<1>5. QED
  BY <1>1, <1>3, <1>4

-----------------------------------------------------------------------------
(* The indexes of a page's address are quotient and remainder of its       *)
(* number.                                                                 *)
LEMMA IndexOfPage ==
  ASSUME NEW w \in Nat
  PROVE  /\ PageDirectoryIndex(w * P) = w \div N /\ PageTableIndex(w * P) = w % N
         /\ w \div N \in Nat /\ w % N \in Indexes /\ (w \div N) * N + (w % N) = w
<1> DEFINE q == w \div N r == w % N
<1>1. q \in Nat /\ r \in 0 .. N - 1 /\ w = q * N + r
  BY Sizes, Divide
<1> HIDE DEF q, r
<1>2. w * P = q * (N * P) + r * P
  <2>1. (q * N + r) * P = (q * N) * P + r * P
    BY <1>1, Sizes, Product, Sum
  <2>2. (q * N) * P = q * (N * P)
    BY <1>1, Sizes
  <2>3. QED
    BY <1>1, <2>1, <2>2
<1>3. r * P \in 0 .. N * P - 1
  <2>1. r * P <= (N - 1) * P /\ (N - 1) * P = N * P - P /\ r * P \in Nat
    <3>1. r \in Nat /\ N - 1 \in Nat /\ r <= N - 1 /\ 1 * P = P
      BY <1>1, Sizes
    <3>2. QED
      BY <3>1, Sizes, Grows, Sum, Product
  <2>2. QED
    BY <2>1, Sizes
<1>4. (w * P) \div (N * P) = q /\ (w * P) % (N * P) = r * P
  <2> DEFINE span == N * P c == r * P
  <2>1. span \in Nat /\ span > 0 /\ c \in Nat /\ c < span
    BY <1>3, Sizes
  <2> HIDE DEF span, c
  <2>2. (q * span + c) \div span = q /\ (q * span + c) % span = c
    BY <1>1, <2>1, DivideUnique
  <2>3. QED
    BY <1>2, <2>2 DEF span, c
<1>5. (r * P) \div P = r
  <2>1. r * P = r * P + 0 /\ r \in Nat
    BY <1>1, <1>3, Sizes
  <2>2. (r * P + 0) \div P = r
    BY <2>1, Sizes, DivideUnique
  <2>3. QED
    BY <2>1, <2>2
<1>6. QED
  BY <1>1, <1>4, <1>5, Sizes DEF PageDirectoryIndex, PageTableIndex, P, N, q, r

LEMMA PageOfIndex ==
  ASSUME NEW d \in Indexes, NEW j \in Indexes
  PROVE  PageOf(d, j) \in Nat /\ PageOf(d, j) \div N = d /\ PageOf(d, j) % N = j
<1>1. d \in Nat /\ j \in Nat /\ j < N
  BY Sizes
<1>2. QED
  BY <1>1, Sizes, DivideUnique DEF PageOf

(* An aligned address is that of its page.                                 *)
LEMMA AlignedPage ==
  ASSUME NEW a \in Nat, Aligned(a)
  PROVE  First(a) \in Nat /\ a = First(a) * P
<1>1. a % P = 0 /\ a \div P \in Nat /\ a = (a \div P) * P + (a % P)
  BY Sizes, Divide DEF Aligned, P
<1>2. (a \div P) * P \in Nat
  BY <1>1, Sizes, Product
<1>3. QED
  BY <1>1, <1>2 DEF First

LEMMA PageIsAligned ==
  ASSUME NEW w \in Nat
  PROVE  w * P \in Nat /\ Aligned(w * P) /\ First(w * P) = w
<1>1. w * P = w * P + 0 /\ w * P \in Nat
  BY Sizes, Product
<1>2. (w * P) % P = 0 /\ (w * P) \div P = w
  <2>1. (w * P + 0) % P = 0 /\ (w * P + 0) \div P = w
    BY Sizes, DivideUnique
  <2>2. QED
    BY <1>1, <2>1
<1>3. QED
  BY <1>1, <1>2 DEF Aligned, First, P

-----------------------------------------------------------------------------
(* Sizes rounded to pages.                                                 *)
LEMMA RoundedPages ==
  ASSUME NEW n \in Nat, n > 0
  PROVE  /\ Pages(n) \in Nat /\ Pages(n) >= 1 /\ Rounded(n) = Pages(n) * P
         /\ (Pages(n) - 1) * P < n
<1> DEFINE q == n \div P r == n % P
<1>1. q \in Nat /\ r \in Nat /\ r < P /\ n = q * P + r /\ q * P \in Nat
  BY Sizes, Divide, Product
<1>2. Rounded(n) = IF r = 0 THEN n ELSE n + (P - r)
  BY DEF Rounded, paging_align_addres, Aligned, P
<1> HIDE DEF q, r
<1>3. CASE r = 0
  <2>1. Rounded(n) = q * P
    BY <1>1, <1>2, <1>3
  <2>2. Pages(n) = q
    BY <1>1, <2>1, PageIsAligned DEF Pages, First
  <2>3. q >= 1
    <3>1. q # 0
      BY <1>1, <1>3, Sizes
    <3>2. QED
      BY <1>1, <3>1
  <2>4. (q - 1) * P = q * P - 1 * P /\ 1 * P = P
    BY <1>1, Sizes, Sum
  <2>5. QED
    BY <1>1, <1>3, <2>1, <2>2, <2>3, <2>4, Sizes
<1>4. CASE r # 0
  <2>1. q + 1 \in Nat /\ (q + 1) * P = q * P + 1 * P /\ 1 * P = P /\ (q + 1) - 1 = q
    BY <1>1, Sizes, Sum
  <2>2. Rounded(n) = (q + 1) * P
    BY <1>1, <1>2, <1>4, <2>1, Sizes
  <2>3. Pages(n) = q + 1
    BY <2>1, <2>2, PageIsAligned DEF Pages, First
  <2>4. q * P < n
    BY <1>1, <1>4
  <2>5. QED
    BY <1>1, <2>1, <2>2, <2>3, <2>4
<1>5. QED
  BY <1>3, <1>4

(* From an aligned address on, the end of a block rounds as its size does. *)
LEMMA RoundedEnd ==
  ASSUME NEW a \in Nat, Aligned(a), NEW n \in Nat, n > 0
  PROVE  /\ Aligned(paging_align_addres(a + n))
         /\ (paging_align_addres(a + n) - a) \div P = Pages(n)
<1> DEFINE f == First(a) q == n \div P r == n % P
<1>1. f \in Nat /\ a = f * P
  BY AlignedPage
<1>2. q \in Nat /\ r \in Nat /\ r < P /\ n = q * P + r /\ q * P \in Nat
  BY Sizes, Divide, Product
<1>3. Rounded(n) = IF r = 0 THEN n ELSE n + (P - r)
  BY DEF Rounded, paging_align_addres, Aligned, P
<1> HIDE DEF f, q, r
<1>4. a + n = (f + q) * P + r
  BY <1>1, <1>2, Sum, Sizes
<1>5. (a + n) % P = r
  BY <1>1, <1>2, <1>4, DivideUnique, Sizes
<1>6. paging_align_addres(a + n) = a + Rounded(n)
  <2>1. paging_align_addres(a + n) = IF r = 0 THEN a + n ELSE (a + n) + (P - r)
    BY <1>5 DEF paging_align_addres, Aligned, P
  <2>2. QED
    BY <1>2, <1>3, <2>1, Sizes
<1> DEFINE m == Pages(n)
<1>7. m \in Nat /\ Rounded(n) = m * P /\ m * P \in Nat
  BY RoundedPages, PageIsAligned
<1> HIDE DEF m
<1>8. paging_align_addres(a + n) = (f + m) * P
  BY <1>1, <1>6, <1>7, Sum, Sizes
<1>9. (a + m * P) - a = m * P
  BY <1>7
<1>10. QED
  <2>1. f + m \in Nat
    BY <1>1, <1>7
  <2>2. Aligned((f + m) * P) /\ First(m * P) = m
    BY <1>7, <2>1, PageIsAligned
  <2>3. QED
    BY <1>6, <1>7, <1>8, <1>9, <2>2 DEF First, m

-----------------------------------------------------------------------------
(* Where program, stack and heap lie.                                      *)
LEMMA Constants ==
  /\ PROGRAM_VIRTUAL_ADDRESS \in Nat /\ Aligned(PROGRAM_VIRTUAL_ADDRESS)
  /\ STACK_VIRTUAL_ADDRESS_END \in Nat /\ Aligned(STACK_VIRTUAL_ADDRESS_END)
  /\ STACK_SIZE \in Nat /\ STACK_SIZE > 0 /\ STRUCT_SIZE \in Nat /\ STRUCT_SIZE > 0
  /\ STACK_VIRTUAL_ADDRESS_END + STACK_SIZE <= PROGRAM_VIRTUAL_ADDRESS
  /\ \A n \in FileSizes : n \in Nat /\ n > 0
  /\ \A a \in HeapPages : a \in Nat /\ Aligned(a)
BY ProcessAssumption

LEMMA HeapPage ==
  ASSUME NEW a \in HeapPages
  PROVE  /\ First(a) \in Nat /\ a = First(a) * P
         /\ PageDirectoryIndex(a) = First(a) \div N /\ PageDirectoryIndex(a) \in Indexes
         /\ PageTableIndex(a) = First(a) % N /\ PageTableIndex(a) \in Indexes
         /\ paging_get_indexes(a) = [directory |-> PageDirectoryIndex(a), table |-> 0]
         /\ 0 \in Indexes
<1>1. First(a) \in Nat /\ a = First(a) * P
  BY Constants, AlignedPage
<1>2. PageDirectoryIndex(a) \in Indexes
  BY ProcessAssumption DEF PageDirectoryIndex
<1>3. paging_get_indexes(a) = [directory |-> PageDirectoryIndex(a), table |-> 0]
  <2>1. a % PAGE_SIZE_IN_BYTES = 0
    BY Constants DEF Aligned
  <2>2. QED
    BY <2>1 DEF paging_get_indexes, PageDirectoryIndex
<1>4. 0 \in Indexes
  BY Sizes
<1>5. QED
  BY <1>1, <1>2, <1>3, <1>4, IndexOfPage

(* Pages of a program or of a stack, seen from a heap page.                *)
LEMMA Layout ==
  ASSUME NEW n \in FileSizes, NEW a \in HeapPages
  PROVE  /\ \A w \in ProgramPages(n) \cup StackPages :
              w \in Nat /\ w \div N \in Indexes /\ w \div N < PageDirectoryIndex(a)
         /\ ProgramPages(n) \cap StackPages = {}
<1> DEFINE f == First(PROGRAM_VIRTUAL_ADDRESS) s == First(STACK_VIRTUAL_ADDRESS_END)
           m == Pages(n) k == Pages(STACK_SIZE)
           top == (PROGRAM_VIRTUAL_ADDRESS + n) \div (N * P)
<1>1. /\ f \in Nat /\ PROGRAM_VIRTUAL_ADDRESS = f * P
      /\ s \in Nat /\ STACK_VIRTUAL_ADDRESS_END = s * P
  BY Constants, AlignedPage
<1>2. m \in Nat /\ m >= 1 /\ (m - 1) * P < n /\ n \in Nat
  BY Constants, RoundedPages
<1>3. k \in Nat /\ k >= 1 /\ STACK_SIZE = k * P
  <2>1. Rounded(STACK_SIZE) = STACK_SIZE
    BY ProcessAssumption DEF Rounded, paging_align_addres
  <2>2. QED
    BY <2>1, Constants, RoundedPages
<1>4. top < PageDirectoryIndex(a) /\ PageDirectoryIndex(a) \in Indexes
  <2>1. PageDirectoryIndex(PROGRAM_VIRTUAL_ADDRESS + n) = top
    BY Sizes DEF PageDirectoryIndex
  <2>2. QED
    BY <2>1, ProcessAssumption, HeapPage
<1>5. top \in Nat
  <2> DEFINE x == PROGRAM_VIRTUAL_ADDRESS + n span == N * P
  <2>1. x \in Nat /\ span \in Nat /\ span > 0
    BY Constants, Sizes
  <2> HIDE DEF x, span
  <2>2. x \div span \in Nat
    BY <2>1, Divide
  <2>3. QED
    BY <2>2 DEF x, span
<1> HIDE DEF f, s, m, k, top
<1>6. ASSUME NEW w \in Nat, w <= f + m - 1
      PROVE  w \div N \in Indexes /\ w \div N < PageDirectoryIndex(a)
  <2>1. w * P <= (f + (m - 1)) * P
    <3>1. m - 1 \in Nat /\ f + (m - 1) \in Nat /\ w <= f + (m - 1)
      BY <1>1, <1>2, <1>6
    <3>2. QED
      BY <3>1, Grows, Sizes
  <2>2. (f + (m - 1)) * P = f * P + (m - 1) * P
    <3>1. m - 1 \in Int /\ f \in Int
      BY <1>1, <1>2
    <3>2. QED
      BY <3>1, Sum, Sizes
  <2>3. w * P \in Nat /\ w * P <= PROGRAM_VIRTUAL_ADDRESS + n
    <3> DEFINE x == w * P y == (f + (m - 1)) * P z == f * P u == (m - 1) * P
    <3>1. x \in Nat /\ z \in Nat /\ u \in Int
      <4>1. m - 1 \in Nat
        BY <1>2
      <4>2. QED
        BY <4>1, <1>1, <1>2, Sizes, Product
    <3>2. x <= y /\ y = z + u /\ u < n
      BY <1>2, <2>1, <2>2
    <3> HIDE DEF x, y, z, u
    <3>3. x <= z + n
      BY <3>1, <3>2, <1>2
    <3>4. QED
      BY <3>1, <3>3, <1>1 DEF x, z
  <2>4. (w * P) \div (N * P) <= top
    <3> DEFINE x == w * P y == PROGRAM_VIRTUAL_ADDRESS + n span == N * P
    <3>1. x \in Nat /\ y \in Nat /\ x <= y /\ span \in Nat /\ span > 0
      BY <2>3, <1>2, Constants, Sizes
    <3> HIDE DEF x, y, span
    <3>2. x \div span <= y \div span
      BY <3>1, DivideGrows
    <3>3. QED
      BY <3>2 DEF x, y, span, top
  <2>5. w \div N = (w * P) \div (N * P) /\ w \div N \in Nat
    BY IndexOfPage, Sizes DEF PageDirectoryIndex
  <2>6. QED
    <3> DEFINE x == w \div N y == PageDirectoryIndex(a)
    <3>1. x \in Nat /\ x <= top /\ y \in 0 .. N - 1 /\ top < y
      BY <1>4, <2>4, <2>5, Sizes
    <3> HIDE DEF x, y
    <3>2. x \in 0 .. N - 1 /\ x < y
      BY <1>5, <3>1, Sizes
    <3>3. QED
      BY <3>2, Sizes DEF x, y
<1>7. s + k <= f
  <2>1. (s + k) * P = s * P + k * P
    BY <1>1, <1>3, Sum, Sizes
  <2>2. (s + k) * P <= f * P
    BY <1>1, <1>3, <2>1, Constants
  <2>3. CASE f < s + k
    <3>1. (f + 1) * P <= (s + k) * P
      <4>1. f + 1 \in Nat /\ s + k \in Nat /\ f + 1 <= s + k
        BY <1>1, <1>3, <2>3
      <4>2. QED
        BY <4>1, Grows, Sizes
    <3>2. (f + 1) * P = f * P + 1 * P /\ 1 * P = P
      BY <1>1, Sum, Sizes
    <3> DEFINE x == f * P y == (s + k) * P
    <3>3. x \in Nat /\ y \in Nat
      <4>1. s + k \in Nat
        BY <1>1, <1>3
      <4>2. QED
        BY <4>1, <1>1, Sizes, Product
    <3>4. y <= x /\ x + P <= y
      BY <2>2, <3>1, <3>2
    <3> HIDE DEF x, y
    <3>5. QED
      BY <3>3, <3>4, Sizes
  <2>4. QED
    BY <1>1, <1>3, <2>3
<1>8. ProgramPages(n) = f .. f + m - 1 /\ StackPages = s .. s + k - 1
  BY DEF ProgramPages, StackPages, f, s, m, k
<1>9. \A w \in (f .. f + m - 1) \cup (s .. s + k - 1) : w \in Nat /\ w <= f + m - 1
  BY <1>1, <1>2, <1>3, <1>7
<1>10. (f .. f + m - 1) \cap (s .. s + k - 1) = {}
  BY <1>1, <1>2, <1>3, <1>7
<1>11. QED
  BY <1>6, <1>8, <1>9, <1>10

-----------------------------------------------------------------------------
(* Address spaces by the number of the page.                               *)
LEMMA IndexesOf ==
  ASSUME NEW w \in Nat, NEW d \in Indexes, NEW j \in Indexes
  PROVE  (d = w \div N /\ j = w % N) <=> PageOf(d, j) = w
<1>1. PageOf(w \div N, w % N) = w
  BY IndexOfPage DEF PageOf
<1>2. PageOf(d, j) \div N = d /\ PageOf(d, j) % N = j
  BY PageOfIndex
<1>3. QED
  BY <1>1, <1>2

(* What paging_set leaves at every page.                                   *)
LEMMA SetPage ==
  ASSUME NEW space \in Space, NEW w \in Nat, w \div N \in Indexes,
         NEW entry \in PageEntry
  PROVE  paging_set(space, w * P, entry)
           = [d \in Indexes |-> [j \in Indexes |->
                IF PageOf(d, j) = w THEN entry ELSE space[d][j]]]
<1> DEFINE x == w \div N y == w % N
<1>1. PageDirectoryIndex(w * P) = x /\ PageTableIndex(w * P) = y /\ x \in Indexes /\ y \in Indexes
  BY IndexOfPage
<1>2. \A d, j \in Indexes : (d = x /\ j = y) <=> PageOf(d, j) = w
  BY IndexesOf
<1> HIDE DEF x, y
<1>3. paging_set(space, w * P, entry) = [space EXCEPT ![x][y] = entry]
  BY <1>1 DEF paging_set
<1>4. [space EXCEPT ![x][y] = entry]
        = [d \in Indexes |-> [j \in Indexes |-> IF d = x /\ j = y THEN entry ELSE space[d][j]]]
  BY <1>1 DEF Space
<1>5. QED
  BY <1>2, <1>3, <1>4

(* The address space with count pages from page v on mapped to the pages   *)
(* from phy on.                                                            *)
Covered(space, v, phy, count, flags) ==
  [d \in Indexes |-> [j \in Indexes |->
     IF PageOf(d, j) \in v .. v + count - 1 THEN Entry(phy + (PageOf(d, j) - v) * P, flags)
     ELSE space[d][j]]]

LEMMA CoveredType ==
  ASSUME NEW space \in Space, NEW v \in Nat, NEW phy \in Nat, NEW count \in Nat,
         NEW flags \in Flags
  PROVE  Covered(space, v, phy, count, flags) \in Space
<1>1. ASSUME NEW d \in Indexes, NEW j \in Indexes
      PROVE  Entry(phy + (PageOf(d, j) - v) * P, flags) \in PageEntry
  <2>1. PageOf(d, j) \in Nat
    BY PageOfIndex
  <2> DEFINE x == PageOf(d, j)
  <2> HIDE DEF x
  <2>2. phy + (x - v) * P \in Int
    BY <2>1, Sizes DEF x
  <2>3. QED
    BY <2>2 DEF Entry, PageEntry, x
<1>2. QED
  BY <1>1 DEF Covered, Space

(* One turn of the loop of paging_map_range.                               *)
LEMMA CoveredNext ==
  ASSUME NEW space \in Space, NEW v \in Nat, NEW phy \in Nat, NEW k \in Nat,
         Aligned(phy), NEW flags \in Flags, (v + k) \div N \in Indexes
  PROVE  paging_map(Covered(space, v, phy, k, flags), v * P + k * P, phy + k * P, flags)
           = Covered(space, v, phy, k + 1, flags)
<1> DEFINE c == Covered(space, v, phy, k, flags) e == Entry(phy + k * P, flags)
<1>1. v + k \in Nat /\ v * P + k * P = (v + k) * P
  BY Sum, Sizes
<1>2. Aligned(v * P + k * P)
  BY <1>1, PageIsAligned
<1>3. Aligned(phy + k * P) /\ phy + k * P \in Nat
  <2>1. First(phy) \in Nat /\ phy = First(phy) * P
    BY AlignedPage
  <2> DEFINE f == First(phy)
  <2> HIDE DEF f
  <2>2. f + k \in Nat /\ f * P + k * P = (f + k) * P
    BY <2>1, Sum, Sizes DEF f
  <2>3. QED
    BY <2>1, <2>2, PageIsAligned DEF f
<1>4. c \in Space /\ e \in PageEntry
  BY <1>3, CoveredType DEF Entry, PageEntry
<1> HIDE DEF c, e
<1>5. paging_map(c, v * P + k * P, phy + k * P, flags) = paging_set(c, (v + k) * P, e)
  BY <1>1, <1>2, <1>3 DEF paging_map, e
<1>6. paging_set(c, (v + k) * P, e) = [d \in Indexes |-> [j \in Indexes |->
         IF PageOf(d, j) = v + k THEN e ELSE c[d][j]]]
  BY <1>1, <1>4, SetPage
<1>7. ASSUME NEW d \in Indexes, NEW j \in Indexes
      PROVE  (IF PageOf(d, j) = v + k THEN e ELSE c[d][j])
               = IF PageOf(d, j) \in v .. v + (k + 1) - 1
                 THEN Entry(phy + (PageOf(d, j) - v) * P, flags) ELSE space[d][j]
  <2> DEFINE w == PageOf(d, j)
  <2>1. w \in Nat
    BY PageOfIndex
  <2>2. c[d][j] = IF w \in v .. v + k - 1 THEN Entry(phy + (w - v) * P, flags) ELSE space[d][j]
    BY Zenon DEF c, Covered
  <2> HIDE DEF w
  <2>3. CASE w = v + k
    <3>1. w - v = k /\ w \in v .. v + (k + 1) - 1
      BY <2>1, <2>3
    <3>2. QED
      BY <2>3, <3>1, Zenon DEF e, w
  <2>4. CASE w # v + k
    <3>1. w \in v .. v + (k + 1) - 1 <=> w \in v .. v + k - 1
      BY <2>1, <2>4
    <3>2. QED
      BY <2>2, <2>4, <3>1, Zenon DEF w
  <2>5. QED
    BY <2>3, <2>4
<1> DEFINE Old(d, j) == IF PageOf(d, j) = v + k THEN e ELSE c[d][j]
           New(d, j) == IF PageOf(d, j) \in v .. v + (k + 1) - 1
                        THEN Entry(phy + (PageOf(d, j) - v) * P, flags) ELSE space[d][j]
<1>8. \A d, j \in Indexes : Old(d, j) = New(d, j)
  BY <1>7
<1>9. paging_set(c, (v + k) * P, e) = [d \in Indexes |-> [j \in Indexes |-> Old(d, j)]]
  BY <1>6
<1>10. Covered(space, v, phy, k + 1, flags) = [d \in Indexes |-> [j \in Indexes |-> New(d, j)]]
  BY DEF Covered
<1> HIDE DEF Old, New
<1>11. QED
  BY <1>5, <1>8, <1>9, <1>10 DEF c

LEMMA LeastOf ==
  ASSUME NEW S, S \subseteq Nat, S # {}
  PROVE  \E x \in S : \A y \in S : x <= y
<1> DEFINE R == OpToRel(<, Nat)
<1>1. IsWellFoundedOn(R, Nat)
  BY NatLessThanWellFounded
<1> HIDE DEF R
<1>2. PICK x \in S : \A y \in S : ~ (<<y, x>> \in R)
  BY <1>1, WFMin
<1>3. ASSUME NEW y \in S PROVE x <= y
  <2>1. <<y, x>> \in Nat \X Nat
    OBVIOUS
  <2>2. ~ (y < x)
    BY <1>2, <2>1 DEF R, OpToRel
  <2>3. QED
    BY <2>2
<1>4. QED
  BY <1>3

(* What the loop of paging_map_range computes.                             *)
LEMMA MapRange ==
  ASSUME NEW space \in Space, NEW v \in Nat, NEW phy \in Nat, NEW count \in Nat,
         Aligned(phy), NEW flags \in Flags, \A w \in v .. v + count - 1 : w \div N \in Indexes
  PROVE  paging_map_range(space, v * P, phy, count, flags) = Covered(space, v, phy, count, flags)
<1> DEFINE mapped == [k \in 0 .. count |-> [v |-> v * P + k * PAGE_SIZE_IN_BYTES,
                                            p |-> phy + k * PAGE_SIZE_IN_BYTES]]
           Loop(f) == [k \in 0 .. count |-> IF k = 0 THEN space
             ELSE paging_map(f[k - 1], mapped[k - 1].v, mapped[k - 1].p, flags)]
           pages == CHOOSE f : f = Loop(f)
           cover == [k \in 0 .. count |-> Covered(space, v, phy, k, flags)]
<1>1. paging_map_range(space, v * P, phy, count, flags) = pages[count]
  BY DEF paging_map_range
<1>2. ASSUME NEW k \in 1 .. count, NEW f, f[k - 1] = Covered(space, v, phy, k - 1, flags)
      PROVE  Loop(f)[k] = Covered(space, v, phy, k, flags)
  <2>1. k - 1 \in Nat /\ k - 1 \in 0 .. count /\ k # 0 /\ k \in 0 .. count /\ (k - 1) + 1 = k
    OBVIOUS
  <2>2. v + (k - 1) \in v .. v + count - 1
    OBVIOUS
  <2>3. Loop(f)[k] = paging_map(f[k - 1], v * P + (k - 1) * P, phy + (k - 1) * P, flags)
    BY <2>1 DEF P
  <2> DEFINE i == k - 1
  <2>4. i \in Nat /\ (v + i) \div N \in Indexes /\ i + 1 = k
    BY <2>1, <2>2
  <2> HIDE DEF i
  <2>5. paging_map(Covered(space, v, phy, i, flags), v * P + i * P, phy + i * P, flags)
          = Covered(space, v, phy, i + 1, flags)
    BY <2>4, CoveredNext
  <2> HIDE DEF Loop
  <2>6. QED
    BY <1>2, <2>3, <2>4, <2>5 DEF i
<1>3. Covered(space, v, phy, 0, flags) = space
  <2>1. ASSUME NEW d \in Indexes, NEW j \in Indexes
        PROVE  ~ (PageOf(d, j) \in v .. v + 0 - 1)
    <3> DEFINE w == PageOf(d, j)
    <3>1. w \in Nat
      BY PageOfIndex
    <3> HIDE DEF w
    <3>2. ~ (w \in v .. v + 0 - 1)
      BY <3>1
    <3>3. QED
      BY <3>2 DEF w
  <2>2. Covered(space, v, phy, 0, flags) = [d \in Indexes |-> [j \in Indexes |-> space[d][j]]]
    BY <2>1 DEF Covered
  <2>3. QED
    BY <2>2 DEF Space
<1>4. cover = Loop(cover)
  <2>1. ASSUME NEW k \in 0 .. count PROVE cover[k] = Loop(cover)[k]
    <3>1. CASE k = 0
      BY <1>3, <3>1
    <3>2. CASE k # 0
      <4>1. k \in 1 .. count /\ k - 1 \in 0 .. count
        BY <3>2
      <4>2. cover[k - 1] = Covered(space, v, phy, k - 1, flags)
        BY <4>1
      <4>3. Loop(cover)[k] = Covered(space, v, phy, k, flags)
        BY <1>2, <4>1, <4>2
      <4>4. QED
        BY <4>3
    <3>3. QED
      BY <3>1, <3>2
  <2>2. cover = [k \in 0 .. count |-> cover[k]] /\ Loop(cover) = [k \in 0 .. count |-> Loop(cover)[k]]
    OBVIOUS
  <2>3. QED
    BY <2>1, <2>2
<1>5. pages = Loop(pages)
  <2> HIDE DEF cover, Loop
  <2>1. QED
    BY <1>4, Zenon
<1>6. pages[0] = space
  <2> HIDE DEF pages
  <2>1. Loop(pages)[0] = space
    OBVIOUS
  <2> HIDE DEF Loop
  <2>2. QED
    BY <1>5, <2>1
<1> DEFINE wrong == {k \in 0 .. count : pages[k] # Covered(space, v, phy, k, flags)}
<1> HIDE DEF pages
<1>7. ASSUME wrong # {} PROVE FALSE
  <2>1. PICK k \in wrong : \A i \in wrong : k <= i
    <3>1. wrong \subseteq Nat
      OBVIOUS
    <3> HIDE DEF wrong
    <3>2. QED
      BY <1>7, <3>1, LeastOf
  <2>2. k # 0
    BY <1>3, <1>6, <2>1
  <2>3. k \in 1 .. count /\ k - 1 \in 0 .. count /\ ~ (k <= k - 1)
    <3>1. k \in 0 .. count
      BY <2>1
    <3>2. QED
      BY <2>2, <3>1
  <2>4. pages[k - 1] = Covered(space, v, phy, k - 1, flags)
    BY <2>1, <2>3
  <2>5. Loop(pages)[k] = Covered(space, v, phy, k, flags)
    BY <1>2, <2>3, <2>4
  <2>6. QED
    BY <1>5, <2>1, <2>5
<1>8. QED
  BY <1>1, <1>7

-----------------------------------------------------------------------------
(* The linear map.                                                         *)
LEMMA LinearType ==
  ASSUME NEW flags \in Flags
  PROVE  /\ paging_new_4gb(flags) \in Space
         /\ \A d, j \in Indexes : paging_new_4gb(flags)[d][j].flags = flags
<1>1. ASSUME NEW d \in Indexes, NEW j \in Indexes
      PROVE  d * TableSpan + j * PAGE_SIZE_IN_BYTES \in Int
  <2>1. d \in Nat /\ j \in Nat
    BY Sizes
  <2>2. d * TableSpan \in Nat /\ j * P \in Nat
    BY <2>1, Sizes, Product
  <2>3. QED
    BY <2>2 DEF P
<1> DEFINE A(d, j) == d * TableSpan + j * PAGE_SIZE_IN_BYTES
<1>2. paging_new_4gb(flags) = [d \in Indexes |-> [j \in Indexes |-> Entry(A(d, j), flags)]]
  BY DEF paging_new_4gb
<1>3. \A d, j \in Indexes : A(d, j) \in Int
  BY <1>1
<1> HIDE DEF A
<1>4. QED
  BY <1>2, <1>3 DEF Space, PageEntry, Entry

(* The kernel finds a heap page under its own address.                     *)
LEMMA LinearPage ==
  ASSUME NEW a \in HeapPages, NEW flags
  PROVE  Translate(paging_new_4gb(flags), a).phy = a
<1> DEFINE d == PageDirectoryIndex(a) j == PageTableIndex(a) w == First(a)
<1>1. /\ d \in Indexes /\ j \in Indexes /\ w \in Nat /\ a = w * P
      /\ d = w \div N /\ j = w % N
  BY HeapPage
<1>2. w = d * N + j
  BY <1>1, IndexOfPage
<1> HIDE DEF d, j, w
<1>3. d * (N * P) + j * P = w * P
  <2>1. d \in Nat /\ j \in Nat
    BY <1>1, Sizes
  <2>2. (d * N + j) * P = (d * N) * P + j * P
    BY <2>1, Sizes, Product, Sum
  <2>3. (d * N) * P = d * (N * P)
    BY <2>1, Sizes
  <2>4. QED
    BY <1>2, <2>2, <2>3
<1>4. Translate(paging_new_4gb(flags), a) = Entry(d * TableSpan + j * PAGE_SIZE_IN_BYTES, flags)
  BY <1>1, Zenon DEF Translate, paging_new_4gb, d, j
<1>5. d * TableSpan + j * PAGE_SIZE_IN_BYTES = a
  BY <1>1, <1>3, Sizes DEF P
<1>6. QED
  BY <1>4, <1>5 DEF Entry

-----------------------------------------------------------------------------
(* What process_map_memory builds.                                         *)
LEMMA MapTo ==
  ASSUME NEW space \in Space, NEW virt \in Nat, Aligned(virt), NEW a \in HeapPages,
         NEW n \in Nat, n > 0,
         \A w \in First(virt) .. First(virt) + Pages(n) - 1 : w \div N \in Indexes
  PROVE  paging_map_to(space, virt, a, paging_align_addres(a + n), ALL)
           = Covered(space, First(virt), a, Pages(n), ALL)
<1>1. a \in Nat /\ Aligned(a)
  BY Constants
<1>2. /\ Aligned(paging_align_addres(a + n))
      /\ (paging_align_addres(a + n) - a) \div P = Pages(n)
  BY <1>1, RoundedEnd
<1>3. First(virt) \in Nat /\ virt = First(virt) * P
  BY AlignedPage
<1>4. Pages(n) \in Nat /\ ALL \in Flags
  BY RoundedPages DEF ALL, Flags
<1>5. paging_map_to(space, virt, a, paging_align_addres(a + n), ALL)
        = paging_map_range(space, virt, a, Pages(n), ALL)
  BY <1>1, <1>2 DEF paging_map_to, P
<1>6. paging_map_range(space, First(virt) * P, a, Pages(n), ALL)
        = Covered(space, First(virt), a, Pages(n), ALL)
  BY <1>1, <1>3, <1>4, MapRange
<1>7. QED
  BY <1>3, <1>5, <1>6

LEMMA MapMemory ==
  ASSUME NEW p \in Process
  PROVE  /\ process_map_memory(p) \in Space
         /\ \A d, j \in Indexes : Regular(p, PageOf(d, j), process_map_memory(p)[d][j])
<1> DEFINE linear == paging_new_4gb({"P", "U"})
           f == First(PROGRAM_VIRTUAL_ADDRESS) g == First(STACK_VIRTUAL_ADDRESS_END)
           program == Covered(linear, f, p.ptr, Pages(p.size), ALL)
           both == Covered(program, g, p.stack, Pages(STACK_SIZE), ALL)
<1>1. p.ptr \in HeapPages /\ p.stack \in HeapPages /\ p.size \in FileSizes
  BY DEF Process
<1>2. linear \in Space /\ \A d, j \in Indexes : linear[d][j].flags = {"P", "U"}
  BY LinearType DEF Flags
<1>3. p.ptr \in Nat /\ p.stack \in Nat /\ p.size \in Nat /\ p.size > 0
  BY <1>1, Constants
<1>4. /\ Pages(p.size) \in Nat /\ Pages(STACK_SIZE) \in Nat /\ f \in Nat /\ g \in Nat
      /\ ALL \in Flags
  BY <1>3, Constants, RoundedPages, AlignedPage DEF ALL, Flags
<1>5. /\ \A w \in ProgramPages(p.size) \cup StackPages : w \div N \in Indexes
      /\ ProgramPages(p.size) \cap StackPages = {}
  BY <1>1, Layout
<1> HIDE DEF linear
<1>6. program \in Space
  BY <1>2, <1>3, <1>4, CoveredType
<1>7. both \in Space
  <2> HIDE DEF program
  <2>1. QED
    BY <1>3, <1>4, <1>6, CoveredType
<1>8. paging_map_to(linear, PROGRAM_VIRTUAL_ADDRESS, p.ptr,
                    paging_align_addres(p.ptr + p.size), ALL) = program
  BY <1>1, <1>2, <1>3, <1>5, Constants, MapTo DEF ProgramPages
<1>9. paging_map_to(program, STACK_VIRTUAL_ADDRESS_END, p.stack,
                    paging_align_addres(p.stack + STACK_SIZE), ALL) = both
  <2> HIDE DEF program
  <2>1. QED
    BY <1>1, <1>5, <1>6, Constants, MapTo DEF StackPages
<1>10. process_map_memory(p) = both
  BY <1>8, <1>9, Zenon DEF process_map_memory, linear
<1>11. ASSUME NEW d \in Indexes, NEW j \in Indexes
       PROVE  Regular(p, PageOf(d, j), both[d][j])
  <2> DEFINE w == PageOf(d, j)
  <2>1. program[d][j] = IF w \in ProgramPages(p.size) THEN Entry(p.ptr + (w - f) * P, ALL)
                        ELSE linear[d][j]
    BY Zenon DEF Covered, ProgramPages
  <2> HIDE DEF program
  <2>2. both[d][j] = IF w \in StackPages THEN Entry(p.stack + (w - g) * P, ALL)
                     ELSE program[d][j]
    BY Zenon DEF Covered, StackPages
  <2> HIDE DEF both, w
  <2>3. w \in ProgramPages(p.size) => both[d][j] = Entry(p.ptr + (w - f) * P, ALL)
    BY <1>5, <2>1, <2>2, Zenon
  <2>4. w \in StackPages => both[d][j] = Entry(p.stack + (w - g) * P, ALL)
    BY <2>2, Zenon
  <2>5. w \notin ProgramPages(p.size) /\ w \notin StackPages => both[d][j].flags = {"P", "U"}
    BY <1>2, <2>1, <2>2, Zenon
  <2>6. QED
    BY <2>3, <2>4, <2>5, Zenon DEF Regular, w
<1>12. QED
  BY <1>7, <1>10, <1>11

-----------------------------------------------------------------------------
(* The heap's runs of pages.                                               *)
LEMMA RunStarts ==
  ASSUME NEW a \in HeapPages, NEW n \in Nat, n > 0
  PROVE  a \in Run(a, n)
<1>1. Pages(n) \in Nat /\ Pages(n) >= 1
  BY RoundedPages
<1>2. 0 \in 0 .. Pages(n) - 1 /\ a + 0 * PAGE_SIZE_IN_BYTES = a
  BY <1>1, Constants, Sizes DEF P
<1>3. QED
  BY <1>2, Zenon DEF Run, Pages, P

(* A run is made of pages, those of it past the end of the heap included.  *)
LEMMA RunPages ==
  ASSUME NEW a \in HeapPages, NEW n \in Nat, n > 0, NEW b \in Run(a, n)
  PROVE  b \in Nat /\ Aligned(b)
<1>1. Pages(n) \in Nat
  BY RoundedPages
<1>2. PICK k \in 0 .. Pages(n) - 1 : b = a + k * P
  BY Zenon DEF Run, Pages, P
<1>3. k \in Nat
  BY <1>1
<1>4. First(a) \in Nat /\ a = First(a) * P
  BY HeapPage
<1>5. b = (First(a) + k) * P /\ First(a) + k \in Nat
  BY <1>2, <1>3, <1>4, Sum, Sizes
<1>6. QED
  BY <1>5, PageIsAligned, Product, Sizes

LEMMA FreeSlot ==
  ASSUME process_get_free_slot # NONE
  PROVE  process_get_free_slot \in Slots /\ processes[process_get_free_slot] = NONE
<1> DEFINE free == {s \in Slots : processes[s] = NONE}
<1>1. free # {}
  BY DEF process_get_free_slot
<1>2. \E s \in free : \A r \in free : s <= r
  <2>1. free \subseteq Nat
    BY ProcessAssumption DEF Slots
  <2> HIDE DEF free
  <2>2. QED
    BY <1>1, <2>1, LeastOf
<1>3. process_get_free_slot \in free
  <2>1. process_get_free_slot = CHOOSE s \in free : \A r \in free : s <= r
    BY <1>1 DEF process_get_free_slot
  <2> HIDE DEF free
  <2>2. QED
    BY <1>2, <2>1
<1>4. QED
  BY <1>3

(* A loaded process has a record, a page directory of its own and pages.   *)
LEMMA LoadedProcess ==
  ASSUME AInv, NEW s \in Loaded
  PROVE  /\ s \in Slots /\ s # KERNEL /\ s # NONE
         /\ processes[s] \in Process /\ spaces[s] \in Space
<1>1. s \in Slots /\ processes[s] # NONE /\ processes[s] \in Process
  BY DEF AInv, Loaded
<1>2. s \in DOMAIN spaces
  BY DEF AInv, TypeOK
<1>3. spaces[s] \in Space
  BY <1>2 DEF AInv, TypeOK, Space, PageEntry
<1>4. QED
  BY <1>1, <1>3, ProcessAssumption

LEMMA CurrentLoaded ==
  ASSUME AInv, pc # "boot"
  PROVE  current_task \in Loaded
BY DEF AInv, TypeOK, SwitchInv

LEMMA InitInv == Init => AInv
<1> SUFFICES ASSUME Init PROVE AInv
  OBVIOUS
<1>1. Loaded = {}
  BY DEF Init, Loaded
<1>2. processes \in [Slots -> Process \cup {NONE}]
  BY DEF Init
<1>3. paging_new_4gb(ALL) \in Space
  BY LinearType DEF ALL, Flags
<1>4. spaces[KERNEL] = paging_new_4gb(ALL) /\ DOMAIN spaces = {KERNEL}
  BY DEF Init
<1>5. TypeOK
  <2>1. \A d \in DOMAIN spaces : spaces[d] \in [Indexes -> [Indexes -> [phy : Int, flags : Flags]]]
    BY <1>3, <1>4 DEF Space, PageEntry
  <2>2. tasks \in Seq(Loaded)
    BY DEF Init
  <2>3. QED
    BY <1>1, <1>4, <2>1, <2>2 DEF Init, TypeOK
<1>6. SpacesInv /\ HeapInv
  BY <1>1, <1>4 DEF Init, SpacesInv, HeapInv, Copying
<1>7. SwitchInv /\ CopyInv
  BY DEF Init, SwitchInv, CopyInv
<1>8. QED
  BY <1>2, <1>5, <1>6, <1>7 DEF AInv

-----------------------------------------------------------------------------
(* Steps that leave the memory and the system call alone.                  *)
LEMMA SameMemory ==
  ASSUME AInv, UNCHANGED <<processes, spaces>>
  PROVE  /\ Loaded' = Loaded /\ processes' \in [Slots -> Process \cup {NONE}]
         /\ \A s : Owned(s)' = Owned(s)
BY DEF AInv, Loaded, Owned

LEMMA FailsInv ==
  ASSUME AInv, NEW n \in FileSizes, process_load_fails(n)
  PROVE  AInv'
<1>1. /\ UNCHANGED <<processes, spaces, tasks, current_process, current_task, cr3,
                     current_directory, pc, locals>>
      /\ pc = "boot"
  BY DEF process_load_fails
<1>2. taken \subseteq taken' /\ \A a \in taken' : a \in Nat /\ Aligned(a)
  <2>1. \A a \in taken : a \in Nat /\ Aligned(a)
    BY DEF AInv, TypeOK
  <2>2. PICK struct \in kZalloc(STRUCT_SIZE, taken) :
          \/ taken' = taken \cup Run(struct, STRUCT_SIZE)
          \/ \E ptr \in kZalloc(n, taken \cup Run(struct, STRUCT_SIZE)) :
               taken' = taken \cup Run(struct, STRUCT_SIZE) \cup Run(ptr, n)
    BY Zenon DEF process_load_fails
  <2>3. \A a \in HeapPages : \A b \in Run(a, STRUCT_SIZE) : b \in Nat /\ Aligned(b)
    BY Constants, RunPages
  <2>4. \A a \in HeapPages : \A b \in Run(a, n) : b \in Nat /\ Aligned(b)
    BY Constants, RunPages
  <2>5. QED
    BY <2>1, <2>2, <2>3, <2>4 DEF kZalloc
<1>3. Loaded' = Loaded /\ processes' \in [Slots -> Process \cup {NONE}]
      /\ \A s : Owned(s)' = Owned(s)
  BY <1>1, SameMemory
<1>4. TypeOK'
  BY <1>1, <1>2, <1>3 DEF AInv, TypeOK, locals
<1>5. SpacesInv'
  <2>1. ~ Copying'
    BY <1>1 DEF Copying
  <2>2. QED
    BY <1>1, <1>3, <2>1 DEF AInv, SpacesInv, Temporary, Copying, locals, Regular, ProgramPages, StackPages
<1>6. HeapInv' /\ SwitchInv' /\ CopyInv'
  BY <1>1, <1>2, <1>3 DEF AInv, HeapInv, SwitchInv, CopyInv, Copying, locals
<1>7. QED
  BY <1>3, <1>4, <1>5, <1>6 DEF AInv

LEMMA StutterInv ==
  ASSUME AInv, UNCHANGED vars
  PROVE  AInv'
<1>1. UNCHANGED <<processes, spaces, taken, tasks, current_process, current_task, cr3,
                  current_directory, pc, arg, tmp, old_entry, wrote, got>>
  BY DEF vars, mem, locals
<1>2. Loaded' = Loaded /\ processes' \in [Slots -> Process \cup {NONE}]
      /\ \A s : Owned(s)' = Owned(s)
  BY <1>1, SameMemory
<1>3. TypeOK'
  BY <1>1, <1>2 DEF AInv, TypeOK
<1>4. SpacesInv'
  BY <1>1, <1>2 DEF AInv, SpacesInv, Temporary, Copying
<1>5. HeapInv' /\ SwitchInv' /\ CopyInv'
  BY <1>1, <1>2 DEF AInv, HeapInv, SwitchInv, CopyInv, Copying
<1>6. QED
  BY <1>2, <1>3, <1>4, <1>5 DEF AInv

(* Steps of the kernel outside copy_string_from_task's two switches leave  *)
(* the address spaces and the heap in order.                               *)
LEMMA CalmInv ==
  ASSUME AInv, UNCHANGED mem, ~ Copying, ~ Copying'
  PROVE  /\ Loaded' = Loaded /\ processes' \in [Slots -> Process \cup {NONE}]
         /\ SpacesInv' /\ HeapInv'
         /\ {cr3', current_directory'} \subseteq DOMAIN spaces
            /\ current_task' \in Loaded \cup {NONE}
            /\ pc' \in {"boot", "user", "kernel", "copy", "restore", "done"}
            /\ arg' \in UserAddrs \cup {NONE} /\ tmp' \in HeapPages \cup {NONE}
            => TypeOK'
<1>1. UNCHANGED <<processes, spaces, taken, tasks, current_process>>
  BY DEF mem
<1>2. Loaded' = Loaded /\ processes' \in [Slots -> Process \cup {NONE}]
      /\ \A s : Owned(s)' = Owned(s)
  BY <1>1, SameMemory
<1>3. SpacesInv'
  BY <1>1, <1>2 DEF AInv, SpacesInv, Temporary
<1>4. HeapInv'
  BY <1>1, <1>2 DEF AInv, HeapInv
<1>5. QED
  BY <1>1, <1>2, <1>3, <1>4 DEF AInv, TypeOK

LEMMA RunFirstInv ==
  ASSUME AInv, task_run_first_ever_task
  PROVE  AInv'
<1>1. tasks \in Seq(Loaded) /\ tasks # << >>
  BY DEF AInv, TypeOK, SwitchInv, task_run_first_ever_task
<1>2. tasks[1] \in Loaded
  BY <1>1
<1>3. tasks[1] \in DOMAIN spaces /\ tasks[1] # NONE
  BY <1>2, LoadedProcess DEF AInv, TypeOK
<1>4. /\ pc = "boot" /\ pc' = "user" /\ UNCHANGED mem /\ UNCHANGED locals
      /\ current_task' = tasks[1] /\ cr3' = tasks[1] /\ current_directory' = tasks[1]
  BY DEF task_run_first_ever_task, paging_switch
<1>5. ~ Copying /\ ~ Copying'
  BY <1>4 DEF Copying
<1>6. Loaded' = Loaded /\ processes' \in [Slots -> Process \cup {NONE}] /\ SpacesInv' /\ HeapInv'
  BY <1>4, <1>5, CalmInv
<1>7. TypeOK'
  BY <1>2, <1>3, <1>4, <1>5, CalmInv DEF AInv, TypeOK, locals
<1>8. SwitchInv' /\ CopyInv'
  BY <1>1, <1>3, <1>4 DEF SwitchInv, CopyInv, mem
<1>9. QED
  BY <1>6, <1>7, <1>8 DEF AInv

LEMMA EnterInv ==
  ASSUME AInv, EnterKernel
  PROVE  AInv'
<1>1. /\ pc = "user" /\ pc' = "kernel" /\ UNCHANGED mem /\ UNCHANGED locals
      /\ current_task' = current_task /\ cr3' = KERNEL /\ current_directory' = KERNEL
  BY DEF EnterKernel, paging_switch
<1>2. ~ Copying /\ ~ Copying'
  BY <1>1 DEF Copying
<1>3. Loaded' = Loaded /\ processes' \in [Slots -> Process \cup {NONE}] /\ SpacesInv' /\ HeapInv'
  BY <1>1, <1>2, CalmInv
<1>4. TypeOK'
  BY <1>1, <1>2, CalmInv DEF AInv, TypeOK, locals
<1>5. SwitchInv' /\ CopyInv'
  BY <1>1 DEF AInv, SwitchInv, CopyInv, mem
<1>6. QED
  BY <1>3, <1>4, <1>5 DEF AInv

LEMMA StackItemInv ==
  ASSUME AInv, NEW virt \in UserAddrs, task_get_stack_item(virt)
  PROVE  AInv'
<1>1. /\ pc = "kernel" /\ UNCHANGED <<mem, current_task, pc, tmp, old_entry, wrote, got>>
      /\ arg' = virt /\ cr3' = KERNEL /\ current_directory' = KERNEL
  BY DEF task_get_stack_item, paging_switch
<1>2. UNCHANGED mem /\ ~ Copying /\ ~ Copying'
  BY <1>1 DEF Copying
<1>3. Loaded' = Loaded /\ processes' \in [Slots -> Process \cup {NONE}] /\ SpacesInv' /\ HeapInv'
  BY <1>2, CalmInv
<1>4. TypeOK'
  BY <1>1, <1>2, CalmInv DEF AInv, TypeOK
<1>5. SwitchInv' /\ CopyInv'
  BY <1>1 DEF AInv, SwitchInv, CopyInv, mem
<1>6. QED
  BY <1>3, <1>4, <1>5 DEF AInv

LEMMA NoMemoryInv ==
  ASSUME AInv, copy_string_no_memory
  PROVE  AInv'
<1>1. /\ pc = "kernel" /\ arg' = NONE
      /\ UNCHANGED <<mem, current_task, cr3, current_directory, pc, tmp, old_entry, wrote, got>>
  BY DEF copy_string_no_memory
<1>2. UNCHANGED mem /\ ~ Copying /\ ~ Copying'
  BY <1>1 DEF Copying
<1>3. Loaded' = Loaded /\ processes' \in [Slots -> Process \cup {NONE}] /\ SpacesInv' /\ HeapInv'
  BY <1>2, CalmInv
<1>4. TypeOK'
  BY <1>1, <1>2, CalmInv DEF AInv, TypeOK
<1>5. SwitchInv' /\ CopyInv'
  BY <1>1 DEF AInv, SwitchInv, CopyInv, mem
<1>6. QED
  BY <1>3, <1>4, <1>5 DEF AInv

LEMMA LeaveInv ==
  ASSUME AInv, LeaveKernel
  PROVE  AInv'
<1>1. /\ pc \in {"kernel", "done"} /\ pc' = "user" /\ UNCHANGED mem /\ current_task' = current_task
      /\ cr3' = current_task /\ current_directory' = current_task
      /\ arg' = NONE /\ tmp' = NONE
  BY DEF LeaveKernel, paging_switch
<1>2. ~ Copying /\ ~ Copying'
  BY <1>1 DEF Copying
<1>3. Loaded' = Loaded /\ processes' \in [Slots -> Process \cup {NONE}] /\ SpacesInv' /\ HeapInv'
  BY <1>1, <1>2, CalmInv
<1>4. current_task \in Loaded /\ current_task \in DOMAIN spaces
  BY <1>1, CurrentLoaded DEF AInv, TypeOK
<1>5. TypeOK'
  BY <1>1, <1>2, <1>4, CalmInv
<1>6. SwitchInv' /\ CopyInv'
  BY <1>1 DEF AInv, SwitchInv, CopyInv, mem
<1>7. QED
  BY <1>3, <1>5, <1>6 DEF AInv

-----------------------------------------------------------------------------
(* A load: the new process gets pages nobody has and an address space      *)
(* built from nothing; the others keep theirs.                             *)
LEMMA LoadInv ==
  ASSUME AInv, NEW n \in FileSizes, process_load_switch(n)
  PROVE  AInv'
<1>0. PICK slot : slot = process_get_free_slot
  OBVIOUS
<1>1. slot # NONE /\ slot \in Slots /\ processes[slot] = NONE
  BY <1>0, FreeSlot DEF process_load_switch
<1>2. slot \notin Loaded /\ slot # KERNEL
  BY <1>1, ProcessAssumption DEF Loaded
<1>3. /\ pc = "boot" /\ tasks' = Append(tasks, slot)
      /\ current_task' = IF tasks = << >> THEN slot ELSE current_task
      /\ current_process' = slot
      /\ UNCHANGED <<cr3, current_directory, pc, arg, tmp, old_entry, wrote, got>>
  BY <1>0 DEF process_load_switch, locals
<1> DEFINE Granted(s, struct, ptr, stack) ==
             /\ taken' = taken \cup Run(struct, STRUCT_SIZE) \cup Run(ptr, n) \cup Run(stack, STACK_SIZE)
             /\ processes' = [processes EXCEPT ![s] = process(struct, ptr, n, stack)]
             /\ spaces' = [d \in DOMAIN spaces \cup {s} |->
                  IF d = s THEN process_map_memory(process(struct, ptr, n, stack)) ELSE spaces[d]]
<1>4. \E struct \in kZalloc(STRUCT_SIZE, taken) : \E ptr \in kZalloc(n, taken \cup Run(struct, STRUCT_SIZE)) :
        \E stack \in kZalloc(STACK_SIZE, taken \cup Run(struct, STRUCT_SIZE) \cup Run(ptr, n)) :
          Granted(process_get_free_slot, struct, ptr, stack)
  BY Zenon DEF process_load_switch
<1>5. PICK struct \in kZalloc(STRUCT_SIZE, taken) : \E ptr \in kZalloc(n, taken \cup Run(struct, STRUCT_SIZE)) :
        \E stack \in kZalloc(STACK_SIZE, taken \cup Run(struct, STRUCT_SIZE) \cup Run(ptr, n)) :
          Granted(slot, struct, ptr, stack)
  <2> HIDE DEF Granted
  <2>1. QED
    BY <1>0, <1>4
<1>51. PICK ptr \in kZalloc(n, taken \cup Run(struct, STRUCT_SIZE)) :
        \E stack \in kZalloc(STACK_SIZE, taken \cup Run(struct, STRUCT_SIZE) \cup Run(ptr, n)) :
          Granted(slot, struct, ptr, stack)
  BY <1>5, Zenon
<1>6. PICK stack \in kZalloc(STACK_SIZE, taken \cup Run(struct, STRUCT_SIZE) \cup Run(ptr, n)) :
        Granted(slot, struct, ptr, stack)
  BY <1>51, Zenon
<1> DEFINE p == process(struct, ptr, n, stack)
<1>7. p \in Process /\ p.ptr = ptr /\ p.size = n /\ p.stack = stack /\ p # NONE
  <2>1. struct \in HeapPages /\ ptr \in HeapPages /\ stack \in HeapPages
    BY DEF kZalloc
  <2>2. p \in Process /\ p.ptr = ptr /\ p.size = n /\ p.stack = stack
    BY <2>1 DEF process, Process
  <2>3. QED
    BY <2>2, ProcessAssumption DEF Process
<1>8. DOMAIN spaces = Loaded \cup {KERNEL} /\ tasks \in Seq(Loaded)
  BY DEF AInv, TypeOK
<1>9. /\ struct \in HeapPages /\ ptr \in HeapPages /\ stack \in HeapPages
      /\ Run(ptr, n) \cap taken = {} /\ Run(stack, STACK_SIZE) \cap taken = {}
  BY DEF kZalloc
<1> HIDE DEF p
<1>10. /\ processes' \in [Slots -> Process \cup {NONE}]
       /\ processes'[slot] = p /\ \A s \in Loaded : processes'[s] = processes[s]
       /\ Loaded' = Loaded \cup {slot}
  <2>1. processes' = [processes EXCEPT ![slot] = p] /\ processes \in [Slots -> Process \cup {NONE}]
    BY <1>6 DEF p, AInv
  <2>2. QED
    BY <1>1, <1>2, <1>7, <2>1 DEF Loaded
<1>11. /\ DOMAIN spaces' = Loaded' \cup {KERNEL} /\ spaces'[slot] = process_map_memory(p)
       /\ spaces'[KERNEL] = spaces[KERNEL] /\ \A s \in Loaded : spaces'[s] = spaces[s]
  <2>1. spaces' = [d \in DOMAIN spaces \cup {slot} |->
                     IF d = slot THEN process_map_memory(p) ELSE spaces[d]]
    BY <1>6 DEF p
  <2>2. QED
    BY <1>2, <1>8, <1>10, <2>1
<1>12. /\ Owned(slot)' = Run(ptr, n) \cup Run(stack, STACK_SIZE)
       /\ \A s \in Loaded : Owned(s)' = Owned(s)
       /\ taken' = taken \cup Run(struct, STRUCT_SIZE) \cup Owned(slot)'
  <2>1. Owned(slot)' = Run(ptr, n) \cup Run(stack, STACK_SIZE)
    BY <1>7, <1>10 DEF Owned
  <2>2. \A s \in Loaded : Owned(s)' = Owned(s)
    BY <1>10 DEF Owned
  <2>3. QED
    BY <1>6, <2>1, <2>2
<1>13. TypeOK'
  <2>1. \A s \in Loaded' : processes'[s] \in Process
    BY <1>7, <1>10, LoadedProcess
  <2>2. \A d \in DOMAIN spaces' :
          spaces'[d] \in [Indexes -> [Indexes -> [phy : Int, flags : Flags]]]
    <3>1. process_map_memory(p) \in Space
      BY <1>7, MapMemory
    <3>2. QED
      BY <1>8, <1>10, <1>11, <3>1 DEF AInv, TypeOK, Space, PageEntry
  <2>3. \A a \in taken' : a \in Nat /\ Aligned(a)
    <3>1. \A a \in taken : a \in Nat /\ Aligned(a)
      BY DEF AInv, TypeOK
    <3>2. /\ \A b \in Run(struct, STRUCT_SIZE) : b \in Nat /\ Aligned(b)
          /\ \A b \in Run(ptr, n) : b \in Nat /\ Aligned(b)
          /\ \A b \in Run(stack, STACK_SIZE) : b \in Nat /\ Aligned(b)
      BY <1>9, Constants, RunPages
    <3>3. QED
      BY <1>6, <3>1, <3>2
  <2>4. tasks' \in Seq(Loaded')
    <3>1. tasks \in Seq(Loaded') /\ slot \in Loaded'
      BY <1>8, <1>10
    <3>2. QED
      BY <1>3, <3>1
  <2>5. QED
    BY <1>3, <1>10, <1>11, <2>1, <2>2, <2>3, <2>4 DEF AInv, TypeOK, Process
<1>14. SpacesInv'
  <2>1. ~ Copying /\ ~ Copying'
    BY <1>3 DEF Copying
  <2>2. ASSUME NEW s \in Loaded', NEW d \in Indexes, NEW j \in Indexes
        PROVE  Regular(processes'[s], PageOf(d, j), spaces'[s][d][j])
    <3>1. CASE s = slot
      BY <1>7, <1>10, <1>11, <3>1, MapMemory
    <3>2. CASE s \in Loaded
      BY <1>10, <1>11, <2>1, <3>2 DEF AInv, SpacesInv, Temporary
    <3>3. QED
      BY <1>10, <3>1, <3>2
  <2>3. QED
    BY <1>11, <2>1, <2>2 DEF AInv, SpacesInv, Temporary
<1>15. HeapInv'
  <2>1. ~ Copying'
    BY <1>3 DEF Copying
  <2>2. \A s \in Loaded : Owned(s) \subseteq taken
    BY DEF AInv, HeapInv
  <2>3. \A s \in Loaded' : Owned(s)' \subseteq taken'
    BY <1>10, <1>12, <2>2
  <2>4. \A s \in Loaded : Owned(s)' \cap Owned(slot)' = {}
    BY <1>9, <1>12, <2>2
  <2>5. \A s, r \in Loaded' : s # r => Owned(s)' \cap Owned(r)' = {}
    BY <1>10, <1>12, <2>4 DEF AInv, HeapInv
  <2>6. QED
    BY <2>1, <2>3, <2>5 DEF HeapInv
<1>16. SwitchInv' /\ CopyInv'
  <2>1. tasks' # << >>
    BY <1>3, <1>8
  <2>2. QED
    BY <1>3, <2>1 DEF AInv, SwitchInv, CopyInv
<1>17. QED
  BY <1>10, <1>13, <1>14, <1>15, <1>16 DEF AInv

-----------------------------------------------------------------------------
(* copy_string_from_task.                                                  *)

(* Neither program nor stack has a page in a table of the heap's.          *)
LEMMA HeapTablesApart ==
  ASSUME NEW n \in FileSizes, NEW a \in HeapPages, NEW j \in Indexes
  PROVE  LET w == PageOf(PageDirectoryIndex(a), j)
         IN  w \notin ProgramPages(n) /\ w \notin StackPages
<1> DEFINE x == PageDirectoryIndex(a) w == PageOf(x, j)
<1>1. x \in Indexes
  BY HeapPage
<1>2. w \div N = x
  BY <1>1, PageOfIndex
<1>3. ASSUME w \in ProgramPages(n) \cup StackPages PROVE FALSE
  <2>1. w \div N < x
    BY <1>3, Layout
  <2>2. x \in Int
    BY <1>1, Sizes
  <2> HIDE DEF x, w
  <2>3. QED
    BY <1>2, <2>1, <2>2
<1>4. QED
  BY <1>3

LEMMA HeapPageApart ==
  ASSUME NEW n \in FileSizes, NEW a \in HeapPages
  PROVE  First(a) \notin ProgramPages(n) /\ First(a) \notin StackPages
<1>1. PageOf(PageDirectoryIndex(a), PageTableIndex(a)) = First(a) /\ PageTableIndex(a) \in Indexes
  BY HeapPage, IndexesOf
<1>2. QED
  BY <1>1, HeapTablesApart

(* One entry of the running task's address space changes.                  *)
LEMMA SetEntry ==
  ASSUME NEW space \in Space, NEW a \in HeapPages, NEW entry \in PageEntry
  PROVE  /\ paging_set(space, a, entry) \in Space
         /\ \A d, j \in Indexes : paging_set(space, a, entry)[d][j]
              = IF PageOf(d, j) = First(a) THEN entry ELSE space[d][j]
<1>1. First(a) \in Nat /\ a = First(a) * P /\ First(a) \div N \in Indexes
  BY HeapPage
<1>2. paging_set(space, First(a) * P, entry)
        = [d \in Indexes |-> [j \in Indexes |->
             IF PageOf(d, j) = First(a) THEN entry ELSE space[d][j]]]
  BY <1>1, SetPage
<1>3. QED
  BY <1>1, <1>2 DEF Space

(* The page is mapped; what paging_get saved cannot be written through.    *)
LEMMA CopyMapInv ==
  ASSUME AInv, NEW page \in kZalloc(PAGE_SIZE_IN_BYTES, taken), copy_string_map(page)
  PROVE  AInv'
<1>1. /\ pc = "kernel" /\ pc' = "copy" /\ tmp' = page /\ taken' = taken \cup {page}
      /\ old_entry' = paging_get(spaces[current_task], page)
      /\ spaces' = [spaces EXCEPT ![current_task] = paging_map(@, page, page, ALL)]
      /\ cr3' = current_task /\ current_directory' = current_task
      /\ UNCHANGED <<processes, tasks, current_process, current_task, arg, wrote, got>>
  BY DEF copy_string_map, paging_switch
<1>2. page \in HeapPages /\ page \notin taken
  <2>1. page \in HeapPages /\ Run(page, PAGE_SIZE_IN_BYTES) \cap taken = {}
    BY DEF kZalloc
  <2>2. page \in Run(page, PAGE_SIZE_IN_BYTES)
    BY <2>1, Sizes, RunStarts DEF P
  <2>3. QED
    BY <2>1, <2>2
<1>3. PICK task : task = current_task
  OBVIOUS
<1>4. /\ task \in Loaded /\ task # NONE /\ task # KERNEL
      /\ processes[task] \in Process /\ spaces[task] \in Space
  BY <1>1, <1>3, CurrentLoaded, LoadedProcess
<1>5. DOMAIN spaces = Loaded \cup {KERNEL}
  BY DEF AInv, TypeOK
<1> DEFINE mapped == paging_set(spaces[task], page, Entry(page, ALL))
<1>6. /\ mapped \in Space
      /\ \A d, j \in Indexes : mapped[d][j]
           = IF PageOf(d, j) = First(page) THEN Entry(page, ALL) ELSE spaces[task][d][j]
  <2>1. Entry(page, ALL) \in PageEntry
    BY <1>2, Constants DEF Entry, PageEntry, ALL, Flags
  <2>2. QED
    BY <1>2, <1>4, <2>1, SetEntry
<1>7. paging_map(spaces[task], page, page, ALL) = mapped
  BY <1>2, Constants DEF paging_map
<1>8. PICK new : new = mapped
  OBVIOUS
<1>9. /\ DOMAIN spaces' = DOMAIN spaces /\ spaces'[task] = new
      /\ \A d \in DOMAIN spaces : d # task => spaces'[d] = spaces[d]
  <2> HIDE DEF mapped
  <2>1. spaces' = [spaces EXCEPT ![task] = new]
    BY <1>1, <1>3, <1>7, <1>8
  <2>2. QED
    BY <1>4, <1>5, <2>1
<1>10. /\ new \in Space
       /\ \A d, j \in Indexes : new[d][j]
            = IF PageOf(d, j) = First(page) THEN Entry(page, ALL) ELSE spaces[task][d][j]
  BY <1>6, <1>8
<1> HIDE DEF mapped
<1>11. \A s \in Loaded, d, j \in Indexes : Regular(processes[s], PageOf(d, j), spaces[s][d][j])
  BY <1>1 DEF AInv, SpacesInv, Temporary, Copying
<1>12. old_entry' \in PageEntry /\ old_entry'.flags = {"P", "U"}
  <2> DEFINE x == PageDirectoryIndex(page)
  <2>1. /\ x \in Indexes /\ 0 \in Indexes
        /\ paging_get_indexes(page) = [directory |-> x, table |-> 0]
    BY <1>2, HeapPage
  <2>2. PageOf(x, 0) \notin ProgramPages(processes[task].size) /\ PageOf(x, 0) \notin StackPages
    <3>1. processes[task].size \in FileSizes
      BY <1>4 DEF Process
    <3>2. QED
      BY <1>2, <2>1, <3>1, HeapTablesApart
  <2> HIDE DEF x
  <2>3. old_entry' = spaces[task][x][0]
    BY <1>1, <1>3, <2>1 DEF paging_get
  <2>4. Regular(processes[task], PageOf(x, 0), spaces[task][x][0])
    BY <1>4, <1>11, <2>1
  <2>5. spaces[task][x][0] \in PageEntry
    BY <1>4, <2>1 DEF Space
  <2>6. QED
    BY <2>2, <2>3, <2>4, <2>5 DEF Regular
<1>13. Loaded' = Loaded /\ processes' \in [Slots -> Process \cup {NONE}]
       /\ \A s : Owned(s)' = Owned(s)
  BY <1>1 DEF AInv, Loaded, Owned
<1>14. TypeOK'
  <2>1. \A d \in DOMAIN spaces' :
          spaces'[d] \in [Indexes -> [Indexes -> [phy : Int, flags : Flags]]]
    BY <1>5, <1>9, <1>10 DEF AInv, TypeOK, Space, PageEntry
  <2>2. QED
    BY <1>1, <1>2, <1>3, <1>4, <1>5, <1>9, <1>13, <2>1, Constants DEF AInv, TypeOK
<1>15. SpacesInv'
  <2>1. spaces'[KERNEL] = paging_new_4gb(ALL)
    BY <1>4, <1>5, <1>9 DEF AInv, SpacesInv
  <2>2. \A s : \A d, j \in Indexes :
          Temporary(s, d, j)' <=> s = task /\ PageOf(d, j) = First(page)
    BY <1>1, <1>3 DEF Temporary, Copying
  <2>3. ASSUME NEW s \in Loaded, NEW d \in Indexes, NEW j \in Indexes
        PROVE  IF s = task /\ PageOf(d, j) = First(page) THEN spaces'[s][d][j] = Entry(page, ALL)
               ELSE Regular(processes[s], PageOf(d, j), spaces'[s][d][j])
    BY <1>5, <1>9, <1>10, <1>11
  <2>4. QED
    BY <1>1, <1>13, <2>1, <2>2, <2>3 DEF SpacesInv
<1>16. HeapInv'
  BY <1>1, <1>2, <1>12, <1>13 DEF AInv, HeapInv
<1>17. SwitchInv' /\ CopyInv'
  BY <1>1 DEF AInv, SwitchInv, CopyInv
<1>18. QED
  BY <1>13, <1>14, <1>15, <1>16, <1>17 DEF AInv

(* Every page of a program or of a stack is translated as it was mapped,   *)
(* while the temporary page is in place too.                               *)
LEMMA PageInPlace ==
  ASSUME AInv, NEW s \in Loaded, NEW w \in ProgramPages(processes[s].size) \cup StackPages
  PROVE  w \in Nat /\ Regular(processes[s], w, Translate(spaces[s], w * P))
<1> DEFINE p == processes[s] d == w \div N j == w % N
<1>1. p \in Process /\ p.ptr \in HeapPages /\ p.size \in FileSizes
  BY LoadedProcess DEF Process
<1>2. w \in Nat /\ d \in Indexes
  BY <1>1, Layout
<1>3. j \in Indexes /\ PageOf(d, j) = w
  BY <1>2, IndexOfPage DEF PageOf
<1>4. Translate(spaces[s], w * P) = spaces[s][d][j]
  BY <1>2, IndexOfPage DEF Translate
<1>5. ~ Temporary(s, d, j)
  <2>1. Copying => tmp \in HeapPages
    BY DEF AInv, TypeOK, HeapInv
  <2>2. QED
    BY <1>1, <1>3, <2>1, HeapPageApart DEF Temporary
<1> HIDE DEF d, j
<1>6. QED
  BY <1>2, <1>3, <1>4, <1>5 DEF AInv, SpacesInv

(* A block of n bytes mapped from page f on: its k-th page.                *)
LEMMA PageOfBlock ==
  ASSUME NEW virt \in Nat, Aligned(virt), NEW n \in Nat, n > 0, NEW k \in 0 .. Pages(n) - 1
  PROVE  /\ First(virt) + k \in First(virt) .. First(virt) + Pages(n) - 1
         /\ virt + k * P = (First(virt) + k) * P /\ (First(virt) + k) - First(virt) = k
<1> DEFINE f == First(virt) m == Pages(n)
<1>1. f \in Nat /\ virt = f * P /\ m \in Nat /\ m >= 1
  BY AlignedPage, RoundedPages
<1> HIDE DEF f, m
<1>2. k \in Nat /\ k <= m - 1
  BY <1>1 DEF m
<1>3. f + k \in f .. f + m - 1 /\ (f + k) - f = k
  BY <1>1, <1>2
<1>4. f * P + k * P = (f + k) * P
  BY <1>1, <1>2, Sum, Sizes
<1>5. QED
  BY <1>1, <1>3, <1>4 DEF f, m

LEMMA InPlace == AInv => ProgramInPlace
<1> SUFFICES ASSUME AInv, NEW s \in Loaded
             PROVE  /\ \A k \in 0 .. Pages(processes[s].size) - 1 :
                         Translate(spaces[s], PROGRAM_VIRTUAL_ADDRESS + k * P)
                           = Entry(processes[s].ptr + k * P, ALL)
                    /\ \A k \in 0 .. Pages(STACK_SIZE) - 1 :
                         Translate(spaces[s], STACK_VIRTUAL_ADDRESS_END + k * P)
                           = Entry(processes[s].stack + k * P, ALL)
  BY Zenon DEF ProgramInPlace, Pages, P
<1>1. processes[s].size \in Nat /\ processes[s].size > 0
  BY LoadedProcess, Constants DEF Process
<1>2. ASSUME NEW k \in 0 .. Pages(processes[s].size) - 1
      PROVE  Translate(spaces[s], PROGRAM_VIRTUAL_ADDRESS + k * P)
               = Entry(processes[s].ptr + k * P, ALL)
  <2> DEFINE f == First(PROGRAM_VIRTUAL_ADDRESS)
  <2>1. /\ f + k \in ProgramPages(processes[s].size)
        /\ PROGRAM_VIRTUAL_ADDRESS + k * P = (f + k) * P /\ (f + k) - f = k
    BY <1>1, Constants, PageOfBlock DEF ProgramPages
  <2>2. Regular(processes[s], f + k, Translate(spaces[s], (f + k) * P))
    BY <2>1, PageInPlace
  <2>3. QED
    BY <2>1, <2>2, Zenon DEF Regular
<1>3. ASSUME NEW k \in 0 .. Pages(STACK_SIZE) - 1
      PROVE  Translate(spaces[s], STACK_VIRTUAL_ADDRESS_END + k * P)
               = Entry(processes[s].stack + k * P, ALL)
  <2> DEFINE f == First(STACK_VIRTUAL_ADDRESS_END)
  <2>1. /\ f + k \in StackPages
        /\ STACK_VIRTUAL_ADDRESS_END + k * P = (f + k) * P /\ (f + k) - f = k
    BY Constants, PageOfBlock DEF StackPages
  <2>2. Regular(processes[s], f + k, Translate(spaces[s], (f + k) * P))
    BY <2>1, PageInPlace
  <2>3. QED
    BY <2>1, <2>2, Zenon DEF Regular
<1>4. QED
  BY <1>2, <1>3

LEMMA CopyInInv ==
  ASSUME AInv, copy_string_in
  PROVE  AInv'
<1>1. /\ pc = "copy" /\ pc' = "restore"
      /\ wrote' = [from |-> Translate(spaces[cr3], arg).phy, to |-> Translate(spaces[cr3], tmp).phy]
      /\ cr3' = KERNEL /\ current_directory' = KERNEL
      /\ UNCHANGED <<processes, spaces, taken, tasks, current_process, current_task, arg, tmp,
                     old_entry, got>>
  BY DEF copy_string_in, paging_switch, mem
<1>2. Copying /\ cr3 = current_task /\ current_task \in Loaded /\ tmp \in HeapPages
  BY <1>1, CurrentLoaded DEF AInv, SwitchInv, HeapInv, TypeOK, Copying
<1>3. wrote'.to = tmp
  <2> DEFINE d == PageDirectoryIndex(tmp) j == PageTableIndex(tmp)
  <2>1. d \in Indexes /\ j \in Indexes /\ PageOf(d, j) = First(tmp)
    BY <1>2, HeapPage, IndexesOf
  <2>2. Temporary(current_task, d, j)
    BY <1>2, <2>1 DEF Temporary
  <2> HIDE DEF d, j
  <2>3. spaces[current_task][d][j] = Entry(tmp, ALL)
    BY <1>2, <2>1, <2>2 DEF AInv, SpacesInv
  <2>4. QED
    BY <1>1, <1>2, <2>3 DEF Translate, Entry, d, j
<1>4. arg = PROGRAM_VIRTUAL_ADDRESS => wrote'.from = processes[current_task].ptr
  <2>1. Translate(spaces[current_task], PROGRAM_VIRTUAL_ADDRESS)
          = Entry(processes[current_task].ptr, ALL)
    <3>1. /\ processes[current_task].size \in Nat /\ processes[current_task].size > 0
          /\ processes[current_task].ptr \in Nat
      BY <1>2, LoadedProcess, Constants DEF Process
    <3>2. /\ 0 \in 0 .. Pages(processes[current_task].size) - 1
          /\ PROGRAM_VIRTUAL_ADDRESS + 0 * PAGE_SIZE_IN_BYTES = PROGRAM_VIRTUAL_ADDRESS
          /\ processes[current_task].ptr + 0 * PAGE_SIZE_IN_BYTES = processes[current_task].ptr
      <4>1. Pages(processes[current_task].size) \in Nat /\ Pages(processes[current_task].size) >= 1
        BY <3>1, RoundedPages
      <4>2. 0 * PAGE_SIZE_IN_BYTES = 0
        BY Sizes DEF P
      <4>3. QED
        BY <3>1, <4>1, <4>2, Constants
    <3>3. ProgramInPlace
      BY InPlace
    <3>4. QED
      BY <1>2, <3>2, <3>3, Zenon DEF ProgramInPlace, Pages, P
  <2>2. QED
    BY <1>1, <1>2, <2>1 DEF Entry
<1>5. Loaded' = Loaded /\ processes' \in [Slots -> Process \cup {NONE}]
      /\ \A s : Owned(s)' = Owned(s)
  BY <1>1, SameMemory
<1>6. TypeOK'
  BY <1>1, <1>5 DEF AInv, TypeOK
<1>7. SpacesInv'
  BY <1>1, <1>5 DEF AInv, SpacesInv, Temporary, Copying
<1>8. HeapInv'
  BY <1>1, <1>5 DEF AInv, HeapInv, Copying
<1>9. SwitchInv' /\ CopyInv'
  BY <1>1, <1>3, <1>4 DEF AInv, SwitchInv, CopyInv
<1>10. QED
  BY <1>5, <1>6, <1>7, <1>8, <1>9 DEF AInv

(* The entry that goes back is not the one that was replaced, but it does  *)
(* not let the program write, and the page is neither program nor stack.   *)
LEMMA CopyOutInv ==
  ASSUME AInv, copy_string_out
  PROVE  AInv'
<1>1. /\ pc = "restore" /\ pc' = "done"
      /\ spaces' = [spaces EXCEPT ![current_task] = paging_set(@, tmp, old_entry)]
      /\ got' = Translate(spaces[cr3], tmp).phy /\ taken' = taken \ {tmp}
      /\ UNCHANGED <<processes, tasks, current_process, current_task, cr3, current_directory,
                     arg, tmp, old_entry, wrote>>
  BY DEF copy_string_out
<1>2. /\ Copying /\ cr3 = KERNEL /\ tmp \in HeapPages
      /\ \A s \in Loaded : tmp \notin Owned(s)
      /\ old_entry \in PageEntry /\ old_entry.flags = {"P", "U"}
  BY <1>1 DEF AInv, SwitchInv, HeapInv, TypeOK, Copying
<1>3. PICK task, page, entry : task = current_task /\ page = tmp /\ entry = old_entry
  OBVIOUS
<1>4. /\ task \in Loaded /\ task # NONE /\ task # KERNEL
      /\ processes[task] \in Process /\ spaces[task] \in Space
  BY <1>1, <1>3, CurrentLoaded, LoadedProcess
<1>5. DOMAIN spaces = Loaded \cup {KERNEL}
  BY DEF AInv, TypeOK
<1>6. PICK new : new = paging_set(spaces[task], page, entry)
  OBVIOUS
<1>7. /\ new \in Space
      /\ \A d, j \in Indexes : new[d][j]
           = IF PageOf(d, j) = First(page) THEN entry ELSE spaces[task][d][j]
  BY <1>2, <1>3, <1>4, <1>6, SetEntry
<1>8. /\ DOMAIN spaces' = DOMAIN spaces /\ spaces'[task] = new
      /\ \A d \in DOMAIN spaces : d # task => spaces'[d] = spaces[d]
  <2>1. spaces' = [spaces EXCEPT ![task] = new]
    BY <1>1, <1>3, <1>6
  <2>2. QED
    BY <1>4, <1>5, <2>1
<1>9. \A s \in Loaded, d, j \in Indexes :
        s # task \/ PageOf(d, j) # First(page) => Regular(processes[s], PageOf(d, j), spaces[s][d][j])
  BY <1>3 DEF AInv, SpacesInv, Temporary
<1>10. Regular(processes[task], First(page), entry)
  <2>1. processes[task].size \in FileSizes
    BY <1>4 DEF Process
  <2>2. First(page) \notin ProgramPages(processes[task].size) /\ First(page) \notin StackPages
    BY <1>2, <1>3, <2>1, HeapPageApart
  <2>3. QED
    BY <1>2, <1>3, <2>2 DEF Regular
<1>11. Loaded' = Loaded /\ processes' \in [Slots -> Process \cup {NONE}]
       /\ \A s : Owned(s)' = Owned(s)
  BY <1>1 DEF AInv, Loaded, Owned
<1>12. got' = tmp
  BY <1>1, <1>2, LinearPage DEF AInv, SpacesInv
<1>13. TypeOK'
  <2>1. \A d \in DOMAIN spaces' :
          spaces'[d] \in [Indexes -> [Indexes -> [phy : Int, flags : Flags]]]
    BY <1>5, <1>7, <1>8 DEF AInv, TypeOK, Space, PageEntry
  <2>2. QED
    BY <1>1, <1>2, <1>5, <1>8, <1>11, <2>1 DEF AInv, TypeOK
<1>14. SpacesInv'
  <2>1. spaces'[KERNEL] = paging_new_4gb(ALL)
    BY <1>4, <1>5, <1>8 DEF AInv, SpacesInv
  <2>2. \A s : \A d, j \in Indexes : ~ Temporary(s, d, j)'
    BY <1>1 DEF Temporary, Copying
  <2>3. ASSUME NEW s \in Loaded, NEW d \in Indexes, NEW j \in Indexes
        PROVE  Regular(processes[s], PageOf(d, j), spaces'[s][d][j])
    BY <1>5, <1>7, <1>8, <1>9, <1>10
  <2>4. QED
    BY <1>1, <1>11, <2>1, <2>2, <2>3 DEF SpacesInv
<1>15. HeapInv'
  BY <1>1, <1>2, <1>11 DEF AInv, HeapInv, Copying
<1>16. SwitchInv' /\ CopyInv'
  BY <1>1, <1>12 DEF AInv, SwitchInv, CopyInv
<1>17. QED
  BY <1>11, <1>13, <1>14, <1>15, <1>16 DEF AInv

LEMMA NextInv ==
  ASSUME AInv, [Next]_vars
  PROVE  AInv'
<1>1. CASE \E n \in FileSizes : process_load_switch(n) \/ process_load_fails(n)
  BY <1>1, LoadInv, FailsInv
<1>2. CASE process_load_refused
  BY <1>2, StutterInv DEF process_load_refused
<1>3. CASE task_run_first_ever_task
  BY <1>3, RunFirstInv
<1>4. CASE EnterKernel
  BY <1>4, EnterInv
<1>5. CASE \E virt \in UserAddrs : task_get_stack_item(virt)
  BY <1>5, StackItemInv
<1>6. CASE \E page \in kZalloc(PAGE_SIZE_IN_BYTES, taken) : copy_string_map(page)
  BY <1>6, CopyMapInv
<1>7. CASE copy_string_no_memory
  BY <1>7, NoMemoryInv
<1>8. CASE copy_string_in
  BY <1>8, CopyInInv
<1>9. CASE copy_string_out
  BY <1>9, CopyOutInv
<1>10. CASE LeaveKernel
  BY <1>10, LeaveInv
<1>11. CASE UNCHANGED vars
  BY <1>11, StutterInv
<1>12. QED
  BY <1>1, <1>2, <1>3, <1>4, <1>5, <1>6, <1>7, <1>8, <1>9, <1>10, <1>11 DEF Next

LEMMA SpecInv == Spec => []AInv
BY InitInv, NextInv, PTL DEF Spec

-----------------------------------------------------------------------------
(* What the entries of a running program let it write.                     *)
LEMMA RunOf ==
  ASSUME NEW a \in HeapPages, NEW n \in Nat, n > 0, NEW f \in Nat, NEW w \in f .. f + Pages(n) - 1
  PROVE  a + (w - f) * P \in Run(a, n)
<1> DEFINE m == Pages(n) k == w - f
<1>1. m \in Nat
  BY RoundedPages
<1> HIDE DEF m
<1>2. k \in 0 .. m - 1
  BY <1>1 DEF m
<1> HIDE DEF k
<1>3. a + k * P \in Run(a, n)
  BY <1>2, Zenon DEF Run, Pages, P, m
<1>4. QED
  BY <1>3 DEF k

LEMMA EntryParts ==
  ASSUME NEW phy, NEW flags
  PROVE  Entry(phy, flags).phy = phy /\ Entry(phy, flags).flags = flags
BY DEF Entry

LEMMA WritableOwned ==
  ASSUME AInv, pc = "user", NEW s \in Loaded
  PROVE  Writable(s) \subseteq Owned(s)
<1>1. SUFFICES ASSUME NEW d \in Indexes, NEW j \in Indexes, "W" \in spaces[s][d][j].flags
               PROVE  spaces[s][d][j].phy \in Owned(s)
  BY DEF Writable
<1> DEFINE p == processes[s] w == PageOf(d, j) e == spaces[s][d][j]
           f == First(PROGRAM_VIRTUAL_ADDRESS) g == First(STACK_VIRTUAL_ADDRESS_END)
<1>2. /\ p.ptr \in HeapPages /\ p.stack \in HeapPages
      /\ p.size \in Nat /\ p.size > 0 /\ f \in Nat /\ g \in Nat
  BY LoadedProcess, Constants, AlignedPage DEF Process
<1>3. Regular(p, w, e)
  BY DEF AInv, SpacesInv, Temporary, Copying
<1>4. w \in ProgramPages(p.size) \/ w \in StackPages
  BY <1>1, <1>3 DEF Regular
<1>5. CASE w \in ProgramPages(p.size)
  <2>1. e.phy = p.ptr + (w - f) * P
    <3>1. e = Entry(p.ptr + (w - f) * P, ALL)
      BY <1>3, <1>5, Zenon DEF Regular
    <3>2. QED
      BY <3>1, EntryParts
  <2>2. p.ptr + (w - f) * P \in Run(p.ptr, p.size)
    BY <1>2, <1>5, RunOf DEF ProgramPages
  <2>3. QED
    BY <2>1, <2>2 DEF Owned
<1>6. CASE w \in StackPages
  <2>1. e.phy = p.stack + (w - g) * P
    <3>1. e = Entry(p.stack + (w - g) * P, ALL)
      BY <1>3, <1>6, Zenon DEF Regular
    <3>2. QED
      BY <3>1, EntryParts
  <2>2. p.stack + (w - g) * P \in Run(p.stack, STACK_SIZE)
    BY <1>2, <1>6, Constants, RunOf DEF StackPages
  <2>3. QED
    BY <2>1, <2>2 DEF Owned
<1>7. QED
  BY <1>4, <1>5, <1>6

LEMMA Isolated == AInv => Isolation
<1> SUFFICES ASSUME AInv, pc = "user", NEW s \in Loaded
             PROVE  /\ Writable(cr3) \subseteq Owned(current_task)
                    /\ Writable(s) \subseteq Owned(s) \cap taken
                    /\ \A r \in Loaded \ {s} : Writable(s) \cap Writable(r) = {}
  BY CurrentLoaded DEF Isolation
<1>1. \A r \in Loaded : Writable(r) \subseteq Owned(r)
  BY WritableOwned
<1>2. Owned(s) \subseteq taken /\ \A r \in Loaded \ {s} : Owned(s) \cap Owned(r) = {}
  BY DEF AInv, HeapInv
<1>3. cr3 = current_task /\ current_task \in Loaded
  BY CurrentLoaded DEF AInv, SwitchInv
<1> HIDE DEF Writable, Owned
<1>4. QED
  BY <1>1, <1>2, <1>3

-----------------------------------------------------------------------------
(* In every reachable state of process.c, task.c and paging.c a process's  *)
(* structure, program and stack begin at pages of the heap, there is one   *)
(* page directory for each process and one for the kernel, and the task    *)
(* list, the current task and the processor's register name such.          *)
THEOREM TablesAreTyped == Spec => []TypeOK
<1>1. AInv => TypeOK
  BY DEF AInv
<1>2. QED
  BY <1>1, SpecInv, PTL

(* No program can write a page of the kernel, of another process or of the *)
(* free heap: what process_map_memory mapped writable is its own, and      *)
(* copy_string_from_task leaves no page of the heap writable behind it.    *)
THEOREM ProgramsAreIsolated == Spec => []Isolation
BY Isolated, SpecInv, PTL

(* The pages process_map_memory gave a program and its stack stay where    *)
(* they are, writable, through every later load and every system call.     *)
THEOREM ProgramsStayInPlace == Spec => []ProgramInPlace
BY InPlace, SpecInv, PTL

(* copy_string_from_task hands over what it read: the page written under   *)
(* the task's directory is the page read under the kernel's, and what was  *)
(* read is the program's own memory when the address was.                  *)
THEOREM CopiesArrive == Spec => []CopyArrives
<1>1. AInv => CopyArrives
  BY DEF AInv, CopyInv, CopyArrives
<1>2. QED
  BY <1>1, SpecInv, PTL
=============================================================================
