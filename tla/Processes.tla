----------------------------- MODULE Processes ------------------------------
(***************************************************************************)
(* Processes, their tasks and their address spaces: process.c, task.c,     *)
(* paging.c and the way in and out of the kernel in idt.c and kernel.c.    *)
(*                                                                         *)
(* The kernel runs with interrupts disabled from the entry to the return,  *)
(* so its steps interleave with nothing; they are separate steps where the *)
(* loaded page directory decides what memory they touch.  Heap memory is   *)
(* what HeapContract grants: any run of unused pages that begins in the    *)
(* heap, one that reaches past its end included.  The page tables and the  *)
(* task structures are heap memory too, and never run out here.            *)
(***************************************************************************)
EXTENDS Paging, Sequences

CONSTANTS
  HEAP_ADDRESS,         \* PEACHOS_HEAP_ADDRESS
  HEAP_BLOCKS,          \* pages of the heap
  MAX_PROCESSES,        \* PEACHOS_MAX_PROCESSES, 12 in config.h
  FileSizes,            \* sizes of the programs on the disk
  PROGRAM_VIRTUAL_ADDRESS,
  STACK_VIRTUAL_ADDRESS_END,
  STACK_SIZE,           \* PEACHOS_USER_PROGRAM_STACK_SIZE
  STRUCT_SIZE,          \* sizeof(struct process), two pages
  UserAddrs,            \* addresses programs pass to the kernel
  LoadFails,            \* whether reading a program can fail
  SecondLoads,          \* processes loaded besides the one of kernel_main
  KERNEL, NONE          \* the kernel's page directory; no process, no task

Slots == 0 .. MAX_PROCESSES - 1
HeapPages == {HEAP_ADDRESS + k * PAGE_SIZE_IN_BYTES : k \in 0 .. HEAP_BLOCKS - 1}

ASSUME ProcessAssumption ==
  /\ \A a \in HeapPages : a \in Nat /\ Aligned(a) /\ a \div TableSpan \in Indexes
  /\ FileSizes \subseteq Nat \ {0} /\ STRUCT_SIZE \in Nat \ {0}
  /\ {PROGRAM_VIRTUAL_ADDRESS, STACK_VIRTUAL_ADDRESS_END, STACK_SIZE} \subseteq Nat
  /\ Aligned(PROGRAM_VIRTUAL_ADDRESS) /\ Aligned(STACK_VIRTUAL_ADDRESS_END)
  /\ Aligned(STACK_SIZE) /\ STACK_SIZE > 0
  /\ STACK_VIRTUAL_ADDRESS_END + STACK_SIZE <= PROGRAM_VIRTUAL_ADDRESS
  /\ \A a \in HeapPages, n \in FileSizes :
       PageDirectoryIndex(PROGRAM_VIRTUAL_ADDRESS + n) < PageDirectoryIndex(a)
  /\ MAX_PROCESSES \in Nat /\ SecondLoads \in Nat /\ LoadFails \in BOOLEAN
  /\ KERNEL \notin Slots /\ NONE \notin Slots \cup HeapPages
  /\ NONE \notin [struct : HeapPages, ptr : HeapPages, size : FileSizes, stack : HeapPages]

VARIABLES
  processes,          \* process table: slot -> process or NONE
  spaces,             \* the page directory of the kernel and of each task
  taken,              \* heap pages in use
  tasks,              \* the task list, in order
  current_process, current_task,
  cr3,                \* the page directory the processor uses
  current_directory,  \* what paging.c believes it to be
  pc,                 \* where the kernel is; "user" when a program runs
  arg, tmp, old_entry,   \* locals of the system call
  wrote, got             \* the pages the two copies of a print went through

mem == <<processes, spaces, taken, tasks, current_process>>
locals == <<arg, tmp, old_entry, wrote, got>>
vars == <<mem, current_task, cr3, current_directory, pc, locals>>

Rounded(bytes) == paging_align_addres(bytes)
Run(first, bytes) ==
  {first + k * PAGE_SIZE_IN_BYTES : k \in 0 .. Rounded(bytes) \div PAGE_SIZE_IN_BYTES - 1}

(* Mutant: the address is that of the block after the run's first.         *)
kZallocNextBlock(bytes, t) ==
  {a + PAGE_SIZE_IN_BYTES : a \in {b \in HeapPages : Run(b, bytes) \cap t = {}}}

(* What kZalloc may return for a request while the pages of t are in use.  *)
(* A run at the end of the heap that is too short is granted all the same, *)
(* and reaches past it.                                                    *)
kZalloc(bytes, t) == {a \in HeapPages : Run(a, bytes) \cap t = {}}

process(struct, ptr, size, stack) ==
  [struct |-> struct, ptr |-> ptr, size |-> size, stack |-> stack]
Loaded == {s \in Slots : processes[s] # NONE}
Owned(s) == Run(processes[s].ptr, processes[s].size) \cup Run(processes[s].stack, STACK_SIZE)

ALL == {"P", "W", "U"}

-----------------------------------------------------------------------------
(* paging_switch: the processor's register, then paging.c's copy of it.    *)
paging_switch(d) == cr3' = d /\ current_directory' = d

(* kernel_main up to its first process_load_switch.                        *)
Init ==
  /\ processes = [s \in Slots |-> NONE]
  /\ spaces = [d \in {KERNEL} |-> paging_new_4gb(ALL)]
  /\ taken = {} /\ tasks = << >>
  /\ current_process = NONE /\ current_task = NONE
  /\ cr3 = KERNEL /\ current_directory = KERNEL
  /\ pc = "boot"
  /\ arg = NONE /\ tmp = NONE /\ old_entry = NONE /\ wrote = NONE /\ got = NONE

process_get_free_slot ==
  LET free == {s \in Slots : processes[s] = NONE}
  IN  IF free = {} THEN NONE ELSE CHOOSE s \in free : \A r \in free : s <= r

(* process_map_memory into the linear, read-only map of task_init.         *)
process_map_memory(p) ==
  LET linear == paging_new_4gb({"P", "U"})
      program == paging_map_to(linear, PROGRAM_VIRTUAL_ADDRESS, p.ptr,
                               paging_align_addres(p.ptr + p.size), ALL)
  IN  paging_map_to(program, STACK_VIRTUAL_ADDRESS_END, p.stack,
                    paging_align_addres(p.stack + STACK_SIZE), ALL)

(* process_load_switch of a file of size n: memory for the structure, the  *)
(* program and the stack, in that order.                                   *)
process_load_switch(n) ==
  LET slot == process_get_free_slot
  IN  /\ pc = "boot" /\ Len(tasks) <= SecondLoads
      /\ slot # NONE
      /\ \E struct \in kZalloc(STRUCT_SIZE, taken) :
         LET t1 == taken \cup Run(struct, STRUCT_SIZE)
         IN  \E ptr \in kZalloc(n, t1) :
             LET t2 == t1 \cup Run(ptr, n)
             IN  \E stack \in kZalloc(STACK_SIZE, t2) :
                 LET p == process(struct, ptr, n, stack)
                 IN  /\ taken' = t2 \cup Run(stack, STACK_SIZE)
                     /\ processes' = [processes EXCEPT ![slot] = p]
                     /\ spaces' = [d \in DOMAIN spaces \cup {slot} |->
                          IF d = slot THEN process_map_memory(p) ELSE spaces[d]]
      /\ tasks' = Append(tasks, slot)
      /\ current_task' = IF tasks = << >> THEN slot ELSE current_task
      /\ current_process' = slot
      /\ UNCHANGED <<cr3, current_directory, pc, locals>>

(* A load that fails, for a caller that goes on (kernel_main panics when   *)
(* its only load fails): the file cannot be opened, its data or its stack  *)
(* finds no memory, or it cannot be read.  What was allocated stays so.    *)
process_load_fails(n) ==
  /\ pc = "boot" /\ LoadFails
  /\ process_get_free_slot # NONE
  /\ \E struct \in kZalloc(STRUCT_SIZE, taken) :
     LET t1 == taken \cup Run(struct, STRUCT_SIZE)
     IN  \/ taken' = t1
         \/ \E ptr \in kZalloc(n, t1) : taken' = t1 \cup Run(ptr, n)
  /\ UNCHANGED <<processes, spaces, tasks, current_process, current_task, cr3,
                 current_directory, pc, locals>>

(* A load refused outright: no free slot, or no memory for the structure.  *)
process_load_refused ==
  /\ pc = "boot" /\ LoadFails
  /\ process_get_free_slot = NONE \/ kZalloc(STRUCT_SIZE, taken) = {}
  /\ UNCHANGED vars

(* The first task on the list is the one that runs, whichever process was  *)
(* switched to.                                                            *)
task_run_first_ever_task ==
  /\ pc = "boot" /\ current_task # NONE
  /\ current_task' = tasks[1]
  /\ paging_switch(tasks[1])
  /\ pc' = "user"
  /\ UNCHANGED <<mem, locals>>

-----------------------------------------------------------------------------
(* The entry of isr80h_handler and interrupt_handler: kernel_page and      *)
(* task_current_save_state.                                                *)
EnterKernel ==
  /\ pc = "user"
  /\ paging_switch(KERNEL)
  /\ pc' = "kernel"
  /\ UNCHANGED <<mem, current_task, locals>>

(* The stack of the running task is read with its own directory loaded,    *)
(* and the kernel's is loaded again: task_page_task and kernel_page.       *)
task_get_stack_item(virt) ==
  /\ pc = "kernel"
  /\ paging_switch(KERNEL)
  /\ arg' = virt
  /\ UNCHANGED <<mem, current_task, pc, tmp, old_entry, wrote, got>>

(* Mutant: the temporary page is not mapped into the task.                 *)
copy_string_map_not(page) ==
  /\ pc = "kernel" /\ arg # NONE
  /\ tmp' = page /\ taken' = taken \cup {page}
  /\ old_entry' = paging_get(spaces[current_task], page)
  /\ paging_switch(current_task)
  /\ pc' = "copy"
  /\ UNCHANGED <<spaces, processes, tasks, current_process, current_task, arg, wrote, got>>

(* copy_string_from_task of isr80h_commad1_print up to its paging_switch.  *)
copy_string_map(page) ==
  /\ pc = "kernel" /\ arg # NONE
  /\ tmp' = page /\ taken' = taken \cup {page}
  /\ old_entry' = paging_get(spaces[current_task], page)
  /\ spaces' = [spaces EXCEPT ![current_task] = paging_map(@, page, page, ALL)]
  /\ paging_switch(current_task)
  /\ pc' = "copy"
  /\ UNCHANGED <<processes, tasks, current_process, current_task, arg, wrote, got>>

(* kZalloc finds no memory: -ENOMEM, and isr80h_commad1_print goes on.     *)
copy_string_no_memory ==
  /\ pc = "kernel" /\ arg # NONE
  /\ kZalloc(PAGE_SIZE_IN_BYTES, taken) = {}
  /\ arg' = NONE
  /\ UNCHANGED <<mem, current_task, cr3, current_directory, pc, tmp, old_entry, wrote, got>>

(* strncpy(tmp, virtual, max) under the task's directory.                  *)
copy_string_in ==
  /\ pc = "copy"
  /\ wrote' = [from |-> Translate(spaces[cr3], arg).phy, to |-> Translate(spaces[cr3], tmp).phy]
  /\ paging_switch(KERNEL)
  /\ pc' = "restore"
  /\ UNCHANGED <<mem, current_task, arg, tmp, old_entry, got>>

(* Mutant: the old entry is written where it was read.                     *)
copy_string_out_same ==
  /\ pc = "restore"
  /\ got' = Translate(spaces[cr3], tmp).phy
  /\ taken' = taken \ {tmp}
  /\ spaces' = [spaces EXCEPT ![current_task] =
       [@ EXCEPT ![paging_get_indexes(tmp).directory][paging_get_indexes(tmp).table] = old_entry]]
  /\ pc' = "done"
  /\ UNCHANGED <<processes, tasks, current_process, current_task, cr3, current_directory,
                 arg, tmp, old_entry, wrote>>

(* The old entry goes back, and the string goes to the caller's buffer.    *)
copy_string_out ==
  /\ pc = "restore"
  /\ spaces' = [spaces EXCEPT ![current_task] = paging_set(@, tmp, old_entry)]
  /\ got' = Translate(spaces[cr3], tmp).phy
  /\ taken' = taken \ {tmp}
  /\ pc' = "done"
  /\ UNCHANGED <<processes, tasks, current_process, current_task, cr3, current_directory,
                 arg, tmp, old_entry, wrote>>

(* task_page and the return to the program.                                *)
LeaveKernel ==
  /\ pc \in {"kernel", "done"}
  /\ paging_switch(current_task)
  /\ pc' = "user"
  /\ arg' = NONE /\ tmp' = NONE /\ old_entry' = NONE /\ wrote' = NONE /\ got' = NONE
  /\ UNCHANGED <<mem, current_task>>

Next ==
  \/ \E n \in FileSizes : process_load_switch(n) \/ process_load_fails(n)
  \/ process_load_refused
  \/ task_run_first_ever_task
  \/ EnterKernel
  \/ \E virt \in UserAddrs : task_get_stack_item(virt)
  \/ \E page \in kZalloc(PAGE_SIZE_IN_BYTES, taken) : copy_string_map(page)
  \/ copy_string_no_memory
  \/ copy_string_in
  \/ copy_string_out
  \/ LeaveKernel

Spec == Init /\ [][Next]_vars
-----------------------------------------------------------------------------
(* Types of the process table, the heap and the running system call.       *)
TypeOK ==
  /\ \A s \in Loaded :
       processes[s] \in [struct : HeapPages, ptr : HeapPages, size : FileSizes, stack : HeapPages]
  /\ \A d \in DOMAIN spaces : spaces[d] \in [Indexes -> [Indexes -> [phy : Int, flags : Flags]]]
  /\ DOMAIN spaces = Loaded \cup {KERNEL}
  /\ \A a \in taken : a \in Nat /\ Aligned(a)
  /\ tasks \in Seq(Loaded)
  /\ {cr3, current_directory} \subseteq DOMAIN spaces
  /\ {current_process, current_task} \subseteq Loaded \cup {NONE}
  /\ pc \in {"boot", "user", "kernel", "copy", "restore", "done"}
  /\ arg \in UserAddrs \cup {NONE} /\ tmp \in HeapPages \cup {NONE}

Writable(s) ==
  {spaces[s][w[1]][w[2]].phy : w \in
     {x \in Indexes \X Indexes : "W" \in spaces[s][x[1]][x[2]].flags}}

(* While a program runs, paging.c's mappings let it write the pages of its *)
(* own program and stack and no others: none that is free, the kernel's or *)
(* another process's.  That is so of every program's page directory, and   *)
(* the one the processor uses is the running task's.                       *)
Isolation ==
  pc = "user" =>
    /\ Writable(cr3) \subseteq Owned(current_task)
    /\ \A s \in Loaded :
         /\ Writable(s) \subseteq Owned(s) \cap taken
         /\ \A r \in Loaded \ {s} : Writable(s) \cap Writable(r) = {}

(* A program finds itself at PROGRAM_VIRTUAL_ADDRESS and its stack below,  *)
(* page by page and writable, whatever the kernel mapped since.            *)
ProgramInPlace ==
  \A s \in Loaded :
    LET p == processes[s]
        There(virt, phy, bytes) ==
          \A k \in 0 .. Rounded(bytes) \div PAGE_SIZE_IN_BYTES - 1 :
            Translate(spaces[s], virt + k * PAGE_SIZE_IN_BYTES)
              = Entry(phy + k * PAGE_SIZE_IN_BYTES, ALL)
    IN  /\ There(PROGRAM_VIRTUAL_ADDRESS, p.ptr, p.size)
        /\ There(STACK_VIRTUAL_ADDRESS_END, p.stack, STACK_SIZE)

(* copy_string_from_task: what was written to the temporary page under the *)
(* task's directory is what is read from it under the kernel's, and it is  *)
(* the running program's own memory when the program passed such.          *)
CopyArrives ==
  pc = "done" =>
    /\ got = wrote.to /\ got = tmp
    /\ arg = PROGRAM_VIRTUAL_ADDRESS => wrote.from = processes[current_task].ptr

(* task.c says the heap is shared by kernel and task because of linear     *)
(* page mapping: a program's view of a heap page is that page.             *)
HeapIsLinear ==
  pc = "user" => \A s \in Loaded, a \in HeapPages : Translate(spaces[s], a).phy = a
=============================================================================
