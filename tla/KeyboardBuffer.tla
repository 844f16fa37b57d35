--------------------------- MODULE KeyboardBuffer ---------------------------
(***************************************************************************)
(* From a key stroke to the program: the PS/2 controller's port, the       *)
(* interrupt handler of classicPs2.c, and the ring buffer of keyboard.c    *)
(* that lives in the process.                                              *)
(*                                                                         *)
(* Every gate of the IDT is an interrupt gate and no handler enables       *)
(* interrupts, so an interrupt and a system call are one step each, and    *)
(* they interleave freely.  Interrupts are first enabled by the return to  *)
(* the first task, after kernel_main has loaded the only process: the      *)
(* early returns of keyboard_push and keyboard_pop for a missing process   *)
(* are never taken, and both reach the same process.                       *)
(***************************************************************************)
EXTENDS Integers, Sequences

CONSTANTS
  BUFFER_SIZE,       \* PEACHOS_KEYBOARD_BUFFER_SIZE, 1024 in config.h
  INT_MOD,           \* head and tail are ints that wrap at 2^32
  TABLE_SIZE,        \* number of entries of keyboard_scan_set_one
  scan_set_one,      \* keyboard_scan_set_one
  PastTable,         \* what the byte after the table may hold
  KEY_RELEASED,      \* scancodes from this one on have the released bit set
  Scancodes,         \* the codes the keyboard sends
  PORT_BOUND,        \* codes the controller holds back
  MaxUnread,         \* keys a user types ahead of the program at most
  MinErase           \* unread keys there are when keyboard_backspace is called

Chars == {scan_set_one[s] : s \in 0 .. TABLE_SIZE - 1} \cup PastTable
Keys == Chars \ {0}

ASSUME KeyboardAssumption ==
  /\ BUFFER_SIZE \in Nat \ {0}
  /\ INT_MOD \in Nat /\ BUFFER_SIZE < INT_MOD
  /\ INT_MOD % BUFFER_SIZE = 0
  /\ TABLE_SIZE \in Nat \ {0} /\ TABLE_SIZE < KEY_RELEASED
  /\ Chars \subseteq Nat /\ PastTable # {}
  /\ Scancodes \subseteq Nat
  /\ KEY_RELEASED \in Nat /\ PORT_BOUND \in Nat \ {0}
  /\ MaxUnread \in Nat \ {0}
  /\ MinErase \in Nat \ {0}

VARIABLES
  port,     \* the codes waiting at KEYBOARD_INPUT_PORT
  buffer,   \* process->keyboard.buffer
  head,     \* process->keyboard.head
  tail,     \* process->keyboard.tail
  popped    \* what keyboard_pop last returned to the program

vars == <<port, buffer, head, tail, popped>>

Slots == 0 .. BUFFER_SIZE - 1
Unread == (tail - head) % INT_MOD

-----------------------------------------------------------------------------
(* The guard lets the index one past the table through: what is read there *)
(* is whatever the linker placed after it.                                 *)
classic_keyboard_scancode_to_char(scancode) ==
  IF scancode > TABLE_SIZE THEN {0}
  ELSE IF scancode = TABLE_SIZE THEN PastTable
  ELSE {scan_set_one[scancode]}

(* The character an interrupt pushes; 0 when it pushes none.               *)
CharOf(scancode) ==
  IF scancode >= KEY_RELEASED THEN {0} ELSE classic_keyboard_scancode_to_char(scancode)

(* Mutant: the index of the next free slot wraps one slot late.            *)
TailIndexLate(t) == t % (BUFFER_SIZE + 1)

keyboard_get_tail_index(t) == t % BUFFER_SIZE

(* The handler reads the port twice and drops the second answer: a second  *)
(* code that is already waiting is lost.                                   *)
AfterHandler == SubSeq(port, 3, Len(port))

-----------------------------------------------------------------------------
(* A process buffer is zeroed by process_init.                             *)
Init ==
  /\ port = << >>
  /\ buffer = [s \in Slots |-> 0]
  /\ head = 0 /\ tail = 0
  /\ popped = 0

(* The keyboard sends a code (hardware).                                   *)
KeyStroke(scancode) ==
  /\ Len(port) < PORT_BOUND
  /\ port' = Append(port, scancode)
  /\ UNCHANGED <<buffer, head, tail, popped>>

(* The store and the increment of keyboard_push.                           *)
keyboard_push(c) ==
  /\ buffer' = [buffer EXCEPT ![keyboard_get_tail_index(tail)] = c]
  /\ tail' = (tail + 1) % INT_MOD

(* classic_keyboard_handle_interrupt, for a key with a character and for   *)
(* a release, a key without one or a code past the table.                  *)
InterruptPushes(c) ==
  /\ port # << >>
  /\ c \in CharOf(Head(port)) /\ c # 0
  /\ Unread < MaxUnread
  /\ keyboard_push(c)
  /\ port' = AfterHandler
  /\ UNCHANGED <<head, popped>>

InterruptIgnored ==
  /\ port # << >>
  /\ 0 \in CharOf(Head(port))
  /\ port' = AfterHandler
  /\ UNCHANGED <<buffer, head, tail, popped>>

(* Mutants: the slot that was read is not cleared; the slot is cleared and *)
(* the head stays on it; an empty buffer is answered with an error code.   *)
keyboard_pop_keeps ==
  LET real_index == head % BUFFER_SIZE
  IN  /\ buffer[real_index] # 0
      /\ popped' = buffer[real_index]
      /\ head' = (head + 1) % INT_MOD
      /\ UNCHANGED <<port, buffer, tail>>
keyboard_pop_stays ==
  LET real_index == head % BUFFER_SIZE
  IN  /\ buffer[real_index] # 0
      /\ popped' = buffer[real_index]
      /\ buffer' = [buffer EXCEPT ![real_index] = 0]
      /\ UNCHANGED <<port, head, tail>>
keyboard_pop_error ==
  /\ buffer[head % BUFFER_SIZE] = 0
  /\ popped' = -1
  /\ UNCHANGED <<port, buffer, head, tail>>

(* isr80h_command2_getkey: keyboard_pop with a key under the head ...      *)
keyboard_pop ==
  LET real_index == head % BUFFER_SIZE
  IN  /\ buffer[real_index] # 0
      /\ popped' = buffer[real_index]
      /\ buffer' = [buffer EXCEPT ![real_index] = 0]
      /\ head' = (head + 1) % INT_MOD
      /\ UNCHANGED <<port, tail>>

(* ... and with nothing to pop.                                            *)
keyboard_pop_nothing ==
  /\ buffer[head % BUFFER_SIZE] = 0
  /\ popped' = 0
  /\ UNCHANGED <<port, buffer, head, tail>>

(* No code calls keyboard_backspace yet; the header offers it.  It checks  *)
(* nothing, so its caller must know that there is an unread key.           *)
keyboard_backspace ==
  /\ Unread >= MinErase
  /\ tail' = (tail - 1) % INT_MOD
  /\ buffer' = [buffer EXCEPT ![keyboard_get_tail_index(tail')] = 0]
  /\ UNCHANGED <<port, head, popped>>

Next ==
  \/ \E scancode \in Scancodes : KeyStroke(scancode)
  \/ \E c \in Keys : InterruptPushes(c)
  \/ InterruptIgnored
  \/ keyboard_pop
  \/ keyboard_pop_nothing
  \/ keyboard_backspace

(* The program (blank.asm) asks for keys in an endless loop.               *)
Spec == Init /\ [][Next]_vars /\ WF_vars(keyboard_pop)

-----------------------------------------------------------------------------
(* Types of the ring buffer and of the port.                               *)
TypeOK ==
  /\ port \in Seq(Scancodes) /\ Len(port) <= PORT_BOUND
  /\ buffer \in [Slots -> Keys \cup {0}]
  /\ head \in 0 .. INT_MOD - 1 /\ tail \in 0 .. INT_MOD - 1
  /\ popped \in Keys \cup {0}

(* keyboard.c takes an empty slot under the head to mean that there is     *)
(* nothing to pop: no key is then left in the buffer.                      *)
NothingToPop ==
  buffer[head % BUFFER_SIZE] = 0 => \A s \in Slots : buffer[s] = 0

(* The slots from the head on are filled up to the tail and no further,    *)
(* whatever the wrapping of the counters keyboard_push and keyboard_pop    *)
(* advance.                                                                *)
FilledFromHead ==
  /\ Unread <= MaxUnread
  /\ \A k \in Slots : buffer[(head + k) % BUFFER_SIZE] # 0 <=> k < Unread

Queue == INSTANCE KeyQueue WITH
  Capacity <- MaxUnread,
  queue <- [k \in 1 .. Unread |-> buffer[(head + k - 1) % BUFFER_SIZE]],
  answer <- popped

(* keyboard_push, keyboard_pop and keyboard_backspace implement a queue:   *)
(* keys are read once each and in the order they were pushed.              *)
ImplementsQueue == Queue!Spec

(* A key that keyboard_push stored is read, unless it is erased first.     *)
EveryKeyIsRead ==
  \A h \in 0 .. INT_MOD - 1 :
    head = h /\ tail # h ~> head # h \/ tail = h
=============================================================================
