------------------------------ MODULE TaskList ------------------------------
(***************************************************************************)
(* The doubly linked list of tasks of task.c: task_new appends a task,     *)
(* task_free unlinks one and returns its memory, and the memory of a freed *)
(* task is handed out again to later ones while the list may still point   *)
(* to it.                                                                  *)
(*                                                                         *)
(* Both calls run with interrupts disabled and are one step each.  The     *)
(* heap does not run out: a failing kZalloc sends task_free a null task    *)
(* and leaves the kernel reading through address 0.                        *)
(***************************************************************************)
EXTENDS Integers, Sequences

CONSTANTS
  Tasks,      \* the addresses kZalloc has for a struct task
  NULL,
  JUNK,       \* what memory holds that was never written
  HeadFreed   \* whether task_free is also given the first of several tasks

ASSUME TaskAssumption ==
  NULL \notin Tasks /\ JUNK \notin Tasks \cup {NULL} /\ HeadFreed \in BOOLEAN

VARIABLES
  next, prev,        \* the links in the memory of each task
  task_list_head, task_list_tail,
  current_task,
  order              \* the tasks that exist, the oldest first

vars == <<next, prev, task_list_head, task_list_tail, current_task, order>>

Pointers == Tasks \cup {NULL}
Memory == Pointers \cup {JUNK}
Live == {order[k] : k \in 1 .. Len(order)}

-----------------------------------------------------------------------------
(* A store through a pointer, into the memory of whatever task is there.   *)
Set(f, task, val) == [f EXCEPT ![task] = val]

Init ==
  /\ next = [t \in Tasks |-> JUNK] /\ prev = [t \in Tasks |-> JUNK]
  /\ task_list_head = NULL /\ task_list_tail = NULL
  /\ current_task = NULL
  /\ order = << >>

(* kZalloc gives task_new memory no task lives in, and task_init zeroes    *)
(* it; then the first task becomes the whole list and the current one ...  *)
task_new_first(task) ==
  /\ task \notin Live
  /\ task_list_head = NULL
  /\ next' = Set(next, task, NULL) /\ prev' = Set(prev, task, NULL)
  /\ task_list_head' = task /\ task_list_tail' = task /\ current_task' = task
  /\ order' = Append(order, task)

(* Mutants: the memory of the new task is not zeroed; the new task does    *)
(* not learn which task is before it.                                      *)
task_new_unzeroed(task) ==
  /\ task \notin Live
  /\ task_list_head # NULL
  /\ next' = Set(next, task_list_tail, task)
  /\ prev' = Set(prev, task, task_list_tail)
  /\ task_list_tail' = task
  /\ order' = Append(order, task)
  /\ UNCHANGED <<task_list_head, current_task>>
task_new_unlinked(task) ==
  /\ task \notin Live
  /\ task_list_head # NULL
  /\ next' = Set(Set(next, task, NULL), task_list_tail, task)
  /\ prev' = Set(prev, task, NULL)
  /\ task_list_tail' = task
  /\ order' = Append(order, task)
  /\ UNCHANGED <<task_list_head, current_task>>

(* ... and a later one goes behind the tail.                               *)
task_new(task) ==
  /\ task \notin Live
  /\ task_list_head # NULL
  /\ next' = Set(Set(next, task, NULL), task_list_tail, task)
  /\ prev' = Set(prev, task, task_list_tail)
  /\ task_list_tail' = task
  /\ order' = Append(order, task)
  /\ UNCHANGED <<task_list_head, current_task>>

(* Round robin: the task after the current one, the first after the last.  *)
task_get_next(nxt, head) == IF nxt[current_task] = NULL THEN head ELSE nxt[current_task]

(* Mutants: the current task may stay at a task that is gone; removing the *)
(* last task does not move the tail.                                       *)
task_list_remove_running(task) ==
  /\ next' = IF prev[task] = NULL THEN next ELSE Set(next, prev[task], next[task])
  /\ prev' = IF prev[task] = NULL \/ next'[task] = NULL THEN prev
             ELSE Set(prev, next'[task], prev[task])
  /\ task_list_head' = IF task = task_list_head THEN next'[task] ELSE task_list_head
  /\ task_list_tail' = IF task = task_list_tail THEN prev'[task] ELSE task_list_tail
  /\ UNCHANGED current_task
task_list_remove_tail(task) ==
  /\ next' = IF prev[task] = NULL THEN next ELSE Set(next, prev[task], next[task])
  /\ prev' = IF prev[task] = NULL \/ next'[task] = NULL THEN prev
             ELSE Set(prev, next'[task], prev[task])
  /\ task_list_head' = IF task = task_list_head THEN next'[task] ELSE task_list_head
  /\ UNCHANGED task_list_tail
  /\ current_task' = IF task = current_task
                     THEN task_get_next(next', task_list_head') ELSE current_task

(* The links are only mended when there is a task before the removed one:  *)
(* removing the first leaves the second pointing back at freed memory.     *)
task_list_remove(task) ==
  /\ next' = IF prev[task] = NULL THEN next ELSE Set(next, prev[task], next[task])
  /\ prev' = IF prev[task] = NULL \/ next'[task] = NULL THEN prev
             ELSE Set(prev, next'[task], prev[task])
  /\ task_list_head' = IF task = task_list_head THEN next'[task] ELSE task_list_head
  /\ task_list_tail' = IF task = task_list_tail THEN prev'[task] ELSE task_list_tail
  /\ current_task' = IF task = current_task
                     THEN task_get_next(next', task_list_head') ELSE current_task

(* The tasks that are left when the k-th goes.                             *)
Without(k) == [j \in 1 .. Len(order) - 1 |-> IF j < k THEN order[j] ELSE order[j + 1]]

(* task_free of the k-th task.  Its address space and its memory go back   *)
(* to the heap, which leaves what they hold alone.                         *)
task_free(k) ==
  /\ HeadFreed \/ Len(order) = 1 \/ k > 1
  /\ task_list_remove(order[k])
  /\ order' = Without(k)

(* task_switch, as the kernel does it when it returns to a task.           *)
task_switch(task) ==
  /\ current_task' = task
  /\ UNCHANGED <<next, prev, task_list_head, task_list_tail, order>>

Next ==
  \/ \E task \in Tasks : task_new_first(task) \/ task_new(task)
  \/ \E k \in 1 .. Len(order) : task_free(k)
  \/ \E task \in Live : task_switch(task)

Spec == Init /\ [][Next]_vars

-----------------------------------------------------------------------------
Shape ==
  /\ next \in [Tasks -> Memory] /\ prev \in [Tasks -> Memory]
  /\ {task_list_head, task_list_tail, current_task} \subseteq Pointers
  /\ order \in Seq(Tasks)

(* Types of the links and of the list's three pointers: the links of a     *)
(* task that exists were written by task_new, never left as kZalloc found  *)
(* them.                                                                   *)
TypeOK == Shape /\ \A t \in Live : {next[t], prev[t]} \subseteq Pointers

(* From task_list_head the next links visit every task task_new made and   *)
(* task_free did not end, in the order they were made, and stop at         *)
(* task_list_tail.                                                         *)
ForwardChain ==
  /\ order = << >> => task_list_head = NULL
  /\ order # << >> =>
       /\ task_list_head = order[1]
       /\ task_list_tail = order[Len(order)]
       /\ next[task_list_tail] = NULL
  /\ \A k \in 1 .. Len(order) - 1 : next[order[k]] = order[k + 1]

(* task.h calls prev the previous task in the linked list: the prev link   *)
(* of every task names the one before it, and no task is before the first. *)
BackwardChain ==
  /\ order # << >> => prev[order[1]] = NULL
  /\ \A k \in 1 .. Len(order) - 1 : prev[order[k + 1]] = order[k]

(* The current task is one that exists, unless there is none: what         *)
(* task_list_remove keeps by moving on when it removes the current task.   *)
CurrentExists ==
  IF order = << >> THEN current_task = NULL ELSE current_task \in Live
=============================================================================
