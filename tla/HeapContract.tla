---------------------------- MODULE HeapContract ----------------------------
(***************************************************************************)
(* What the kernel heap promises its callers, with no table and no         *)
(* addresses: the allocations handed out and not yet returned are runs of  *)
(* blocks that never share a block.  A request for n blocks is answered    *)
(* with a run no live allocation touches, or refused; it is refused only   *)
(* when the heap holds no n neighbouring blocks that are all unused.       *)
(*                                                                         *)
(* The promise does not say that a run ends inside the heap: heap.c does   *)
(* not guarantee it (see AllocationsInsideHeap in KernelHeap).             *)
(***************************************************************************)
EXTENDS Integers

CONSTANTS
  Total,    \* number of blocks the heap manages
  Counts    \* numbers of blocks callers ask for

VARIABLES
  live,     \* the allocations handed out and not freed
  answer    \* the last answer: the operation, the blocks asked for, success

vars == <<live, answer>>

Blocks == 0 .. Total - 1

Answer(op, n, ok) == [op |-> op, n |-> n, ok |-> ok]

(* The blocks an allocation stands for.                                    *)
RunOf(a) == a.start .. a.start + a.blocks - 1

Unused(run) == \A a \in live : RunOf(a) \cap run = {}

Init ==
  /\ live = {}
  /\ answer = Answer("none", 0, TRUE)

Grant(n) ==
  /\ \E s \in Blocks :
       /\ Unused(s .. s + n - 1)
       /\ live' = live \cup {[start |-> s, blocks |-> n]}
  /\ answer' = Answer("malloc", n, TRUE)

Refuse(n) ==
  /\ \A s \in 0 .. Total - n : ~ Unused(s .. s + n - 1)
  /\ answer' = Answer("malloc", n, FALSE)
  /\ UNCHANGED live

Release(a) ==
  /\ live' = live \ {a}
  /\ answer' = Answer("free", 0, TRUE)

RejectFree ==
  /\ answer' = Answer("free", 0, FALSE)
  /\ UNCHANGED live

Next ==
  \/ \E n \in Counts : Grant(n) \/ Refuse(n)
  \/ \E a \in live : Release(a)
  \/ RejectFree

Spec == Init /\ [][Next]_vars
=============================================================================
