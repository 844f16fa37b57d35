---------------------------- MODULE KernelSystem ----------------------------
(***************************************************************************)
(* The running system, from the key stroke to the screen: the boot         *)
(* sequence, the program blank instruction by instruction, the entries to  *)
(* the kernel with the registers they save and restore, the interrupt      *)
(* controller, the keyboard and the terminal.                              *)
(*                                                                         *)
(* A timer or keyboard interrupt can arrive between any two instructions   *)
(* of the program and at no other time: every gate is an interrupt gate.   *)
(* An entry takes three steps, the processor's and the wrapper's pushes,   *)
(* the handler, and the return; only the keyboard moves in between.        *)
(***************************************************************************)
EXTENDS Boot

CONSTANTS
  BUFFER_SIZE, INT_MOD, TABLE_SIZE, scan_set_one, PastTable, KEY_RELEASED,
  Scancodes, PORT_BOUND   \* of KeyboardBuffer

VARIABLES
  port, buffer, head, tail,   \* of KeyboardBuffer
  cpu,          \* the registers of the program
  user_stack,   \* the two words at the top of its stack
  frame,        \* struct interrupt_frame: what the entry pushed
  vector,       \* the number the kernel was entered with
  saved_esp,    \* task->registers.esp
  temp_res,     \* what a system call answers
  in_service    \* an interrupt the controller waits to hear the end of

keyVars == <<port, buffer, head, tail>>
userVars == <<cpu, user_stack>>
trapVars == <<frame, vector, saved_esp, temp_res, in_service>>
systemVars == <<terminal, bootVars, keyVars, userVars, trapVars>>

Keyboard == INSTANCE KeyboardBuffer WITH
  MaxUnread <- BUFFER_SIZE, MinErase <- 1, popped <- temp_res

TIMER == 32
KEYBOARD == 33
SYSTEM_CALL == 128

(* The stack grows down from the word behind it, which is never written.   *)
STACK_START == 2

(* The table of classicPs2.c has the codes of backspace and of glyphs, and *)
(* no new line; the byte behind it is 0 or the start of the keyboard's     *)
(* name.  What panic prints is one line, shorter than the screen is wide,  *)
(* with a new line at its end.                                             *)
ASSUME SystemAssumption ==
  /\ BUFFER_SIZE \in Nat \ {0}
  /\ INT_MOD \in Nat /\ BUFFER_SIZE < INT_MOD
  /\ INT_MOD % BUFFER_SIZE = 0
  /\ TABLE_SIZE \in Nat \ {0} /\ TABLE_SIZE < KEY_RELEASED
  /\ Scancodes \subseteq Nat /\ PastTable # {}
  /\ KEY_RELEASED \in Nat /\ PORT_BOUND \in Nat \ {0}
  /\ Keyboard!Chars \subseteq 0 .. 255
  /\ Keyboard!Keys \subseteq Glyphs \cup {BACKSPACE}
  /\ PanicMessage \in Seq(Glyphs \cup {NEWLINE}) /\ Len(PanicMessage) <= VGA_WIDTH
  /\ \A k \in 1 .. Len(PanicMessage) - 1 : PanicMessage[k] # NEWLINE

NoFrame == [ip |-> 0, eax |-> 0, zf |-> FALSE, esp |-> STACK_START]

SystemInit ==
  /\ BootInit
  /\ port = << >> /\ buffer = [s \in 0 .. BUFFER_SIZE - 1 |-> 0] /\ head = 0 /\ tail = 0
  /\ cpu = NoFrame
  /\ user_stack = [w \in 0 .. STACK_START |-> 0]
  /\ frame = NoFrame /\ vector = 0 /\ saved_esp = STACK_START /\ temp_res = 0
  /\ in_service = FALSE

-----------------------------------------------------------------------------
(* The instructions of blank.asm by position: loop begins at 1 and getkey  *)
(* at 7.                                                                   *)
LOOP == 1
GETKEY == 7

KernelCall == BootCalls /\ UNCHANGED <<keyVars, userVars, trapVars>>

(* task_return with the registers task_init gave the task; iretd turns     *)
(* interrupts on.                                                          *)
task_run_first_ever_task ==
  /\ Call("task_run_first_ever_task")
  /\ cpu' = [cpu EXCEPT !.ip = LOOP]
  /\ UNCHANGED <<terminal, volume, filesystems, disk, live, isr80h_commands, callback,
                 keyVars, user_stack, trapVars>>

(* The endless loop of panic.                                              *)
Halted == phase = "panic" /\ UNCHANGED systemVars

At(position) == phase = "user" /\ cpu.ip = position

(* An instruction that touches the program's registers only.               *)
Computes(registers) ==
  /\ cpu' = registers
  /\ UNCHANGED <<terminal, bootVars, keyVars, user_stack, trapVars>>

Goto(position) == [cpu EXCEPT !.ip = position]

(* An instruction that pushes a word and goes on elsewhere.                *)
Pushes(word, position) ==
  /\ user_stack' = [user_stack EXCEPT ![cpu.esp - 1] = word]
  /\ cpu' = [cpu EXCEPT !.esp = @ - 1, !.ip = position]
  /\ UNCHANGED <<terminal, bootVars, keyVars, trapVars>>

(* cli and pushad of a wrapper, behind what the processor pushes.          *)
Enter(number, position) ==
  /\ phase' = "handler"
  /\ vector' = number
  /\ frame' = [cpu EXCEPT !.ip = position]
  /\ UNCHANGED <<terminal, volume, filesystems, disk, live, isr80h_commands, callback,
                 keyVars, userVars, saved_esp, temp_res>>

Int80 == phase = "user" /\ Enter(SYSTEM_CALL, cpu.ip + 1) /\ UNCHANGED in_service

call_getkey == At(1) /\ Pushes(2, GETKEY)
push_eax == At(2) /\ Pushes(cpu.eax, 3)
mov_eax_3 == At(3) /\ Computes([Goto(4) EXCEPT !.eax = SYSTEM_COMMAND3_PUTCHAR])
int_putchar == At(4) /\ Int80
(* Mutant: the program leaves the argument on its stack.                   *)
add_esp_4_not == At(5) /\ Computes(Goto(6))
add_esp_4 == At(5) /\ Computes([Goto(6) EXCEPT !.esp = @ + 1])
jmp_loop == At(6) /\ Computes(Goto(LOOP))
mov_eax_2 == At(7) /\ Computes([Goto(8) EXCEPT !.eax = SYSTEM_COMMAND2_GETKEY])
int_getkey == At(8) /\ Int80
cmp_eax_0 == At(9) /\ Computes([Goto(10) EXCEPT !.zf = (cpu.eax = 0)])
je_getkey == At(10) /\ Computes(Goto(IF cpu.zf THEN GETKEY ELSE 11))
(* The program's message is written here and read by nobody.               *)
mov_message_al == At(11) /\ Computes(Goto(12))
ret == At(12) /\ Computes([Goto(user_stack[cpu.esp]) EXCEPT !.esp = @ + 1])

Instruction ==
  \/ call_getkey \/ push_eax \/ mov_eax_3 \/ int_putchar \/ add_esp_4 \/ jmp_loop
  \/ mov_eax_2 \/ int_getkey \/ cmp_eax_0 \/ je_getkey \/ mov_message_al \/ ret

-----------------------------------------------------------------------------
(* The controller interrupts the program when no interrupt is in service.  *)
Interrupt(number) ==
  /\ phase = "user" /\ ~ in_service
  /\ in_service' = TRUE
  /\ Enter(number, cpu.ip)

KeyboardInterrupt == port # << >> /\ Interrupt(KEYBOARD)
TimerInterrupt == Interrupt(TIMER)

(* Of the saved registers only the stack pointer is ever read; eax is not  *)
(* among them.                                                             *)
task_save_state == saved_esp' = frame.esp

task_get_stack_item(index) == user_stack[saved_esp' + index]

(* Mutant: the end of the interrupt is reported only by registered         *)
(* handlers.                                                               *)
interrupt_handler_quiet ==
  /\ phase = "handler" /\ vector # SYSTEM_CALL
  /\ phase' = "return"
  /\ IF vector = KEYBOARD /\ callback # NULL
     THEN /\ task_save_state
          /\ (\E c \in Keyboard!Keys : Keyboard!InterruptPushes(c)) \/ Keyboard!InterruptIgnored
          /\ in_service' = FALSE
     ELSE UNCHANGED <<keyVars, saved_esp, temp_res, in_service>>
  /\ UNCHANGED <<terminal, volume, filesystems, disk, live, isr80h_commands, callback,
                 userVars, frame, vector>>

(* Only the keyboard's vector has a callback; the report to the controller *)
(* follows it.                                                             *)
interrupt_handler ==
  /\ phase = "handler" /\ vector # SYSTEM_CALL
  /\ phase' = "return"
  /\ IF vector = KEYBOARD /\ callback # NULL
     THEN /\ task_save_state
          /\ (\E c \in Keyboard!Keys : Keyboard!InterruptPushes(c)) \/ Keyboard!InterruptIgnored
     ELSE UNCHANGED <<keyVars, saved_esp, temp_res>>
  /\ in_service' = FALSE
  /\ UNCHANGED <<terminal, volume, filesystems, disk, live, isr80h_commands, callback,
                 userVars, frame, vector>>

isr80h_command2_getkey ==
  /\ Keyboard!keyboard_pop \/ Keyboard!keyboard_pop_nothing
  /\ UNCHANGED terminal

(* The argument is read at the stack pointer the entry saved, and is cut   *)
(* to a char.                                                              *)
isr80h_command3_putchar ==
  /\ terminal' = terminal_writechar(terminal, task_get_stack_item(0) % 256)
  /\ temp_res' = 0
  /\ UNCHANGED keyVars

(* A number without a command is answered with 0.  The program uses        *)
(* neither sum nor print.                                                  *)
isr80h_handle_command(command) ==
  LET command_func == IF command \in DOMAIN isr80h_commands THEN isr80h_commands[command] ELSE NULL
  IN  CASE command_func = "getkey" -> isr80h_command2_getkey
        [] command_func = "putchar" -> isr80h_command3_putchar
        [] OTHER -> temp_res' = 0 /\ UNCHANGED <<terminal, keyVars>>

(* Mutant: the task's registers are not saved.                             *)
isr80h_handler_unsaved ==
  /\ phase = "handler" /\ vector = SYSTEM_CALL
  /\ phase' = "return"
  /\ saved_esp' = saved_esp
  /\ isr80h_handle_command(frame.eax)
  /\ UNCHANGED <<volume, filesystems, disk, live, isr80h_commands, callback,
                 userVars, frame, vector, in_service>>

isr80h_handler ==
  /\ phase = "handler" /\ vector = SYSTEM_CALL
  /\ phase' = "return"
  /\ task_save_state
  /\ isr80h_handle_command(frame.eax)
  /\ UNCHANGED <<volume, filesystems, disk, live, isr80h_commands, callback,
                 userVars, frame, vector, in_service>>

(* popad and iretd take the frame off the kernel's stack; a system call    *)
(* then has its answer in eax.  The memory for the answer is reserved two  *)
(* bytes short, but nothing runs between the store and the load.           *)
Leave ==
  /\ phase = "return" /\ phase' = "user"
  /\ cpu' = IF vector = SYSTEM_CALL THEN [frame EXCEPT !.eax = temp_res] ELSE frame
  /\ frame' = NoFrame /\ vector' = 0
  /\ UNCHANGED <<terminal, volume, filesystems, disk, live, isr80h_commands, callback,
                 keyVars, user_stack, saved_esp, temp_res, in_service>>

-----------------------------------------------------------------------------
(* The registers the program has, or will have again.                      *)
Registers == IF phase = "user" THEN cpu ELSE frame

NonZero(c) == IF c = 0 THEN << >> ELSE <<c>>

(* The key the program has been given and has not written yet: the answer  *)
(* of getkey on its way back, then eax, then the word on the stack.        *)
Carried ==
  IF phase = "handler" /\ vector = SYSTEM_CALL
  THEN IF frame.eax = SYSTEM_COMMAND3_PUTCHAR THEN <<user_stack[frame.esp]>> ELSE << >>
  ELSE IF phase = "return" /\ vector = SYSTEM_CALL
  THEN IF frame.eax = SYSTEM_COMMAND2_GETKEY THEN NonZero(temp_res) ELSE << >>
  ELSE IF Registers.ip \in {2, 9, 10, 11, 12} THEN NonZero(Registers.eax)
  ELSE IF Registers.ip \in {3, 4} THEN <<user_stack[Registers.esp]>>
  ELSE << >>

Unread == [k \in 1 .. (tail - head) % INT_MOD |-> buffer[(head + k - 1) % BUFFER_SIZE]]
Pending == Carried \o Unread

(* A user types no further ahead than the buffer and the modelled memory   *)
(* of the screen reach.                                                    *)
KeyStroke(scancode) ==
  /\ Len(Unread) + Len(port) < BUFFER_SIZE
  /\ Cursor(terminal) + Len(Pending) + Len(port) < CELLS
  /\ Keyboard!KeyStroke(scancode)
  /\ UNCHANGED <<terminal, bootVars, userVars, frame, vector, saved_esp, in_service>>

SystemNext ==
  \/ KernelCall \/ task_run_first_ever_task \/ Halted
  \/ Instruction
  \/ KeyboardInterrupt \/ TimerInterrupt
  \/ interrupt_handler \/ isr80h_handler \/ Leave
  \/ \E scancode \in Scancodes : KeyStroke(scancode)

(* The kernel runs without interruption.  The program and the interrupts   *)
(* disable each other, but iretd completes before the next interrupt is    *)
(* taken and interrupts are far apart, so that both keep happening.        *)
SystemFairness ==
  /\ WF_systemVars(KernelCall) /\ WF_systemVars(task_run_first_ever_task)
  /\ WF_systemVars(interrupt_handler) /\ WF_systemVars(isr80h_handler) /\ WF_systemVars(Leave)
  /\ SF_systemVars(Instruction) /\ SF_systemVars(KeyboardInterrupt)

SystemSpec == SystemInit /\ [][SystemNext]_systemVars /\ SystemFairness

-----------------------------------------------------------------------------
Started == phase \in {"user", "handler", "return"}

(* Types of the program's and the kernel's registers, its stack pointer    *)
(* within the stack whatever the entries restored, and of the tables the   *)
(* boot sequence fills.                                                    *)
SystemTypeOK ==
  /\ TerminalTypeOK
  /\ phase \in DOMAIN kernel_main \cup Resolving \cup {"user", "handler", "return", "panic"}
  /\ \A r \in {cpu, frame} :
       /\ r.ip \in 0 .. 12 /\ r.esp \in 0 .. STACK_START /\ r.zf \in BOOLEAN
       /\ r.eax \in Keyboard!Keys \cup {0, SYSTEM_COMMAND2_GETKEY, SYSTEM_COMMAND3_PUTCHAR}
  /\ DOMAIN user_stack = 0 .. STACK_START /\ user_stack[STACK_START] = 0
  /\ saved_esp \in 0 .. STACK_START
  /\ temp_res \in Keyboard!Keys \cup {0}
  /\ vector \in {0, TIMER, KEYBOARD, SYSTEM_CALL} /\ in_service \in BOOLEAN

(* Once terminal_initialize has run, the screen is blank from the cursor   *)
(* on, after panic's message and after any sequence of echoed keys.        *)
ScreenInOrder == phase # "terminal_initialize" => BlankAhead

(* Which status the boot sequence and the program stand for.               *)
Status == IF phase = "panic" THEN "failed" ELSE IF Started THEN "running" ELSE "starting"

Echoing == INSTANCE Echo WITH
  Keys <- Keyboard!Keys, Width <- VGA_WIDTH, Capacity <- CELLS, Space <- SPACE,
  Message <- PanicMessage, EraseKey <- BACKSPACE, LineFeed <- NEWLINE,
  status <- Status, pending <- Pending, text <- Text

(* The program, interrupted anywhere, shows the keys keyboard_push stored  *)
(* in their order and once each: interrupt_handler, isr80h_handler and     *)
(* their wrappers lose and invent nothing.                                 *)
ImplementsEcho == Echoing!Spec

(* A key that was pushed is popped by getkey, and a key the program        *)
(* carries is written by putchar.                                          *)
EveryKeyIsShown ==
  /\ \A h \in 0 .. INT_MOD - 1 : head = h /\ tail # h ~> head # h
  /\ Carried # << >> ~> Carried = << >>

(* Unless the kernel has stopped, the keyboard's port is emptied, and the  *)
(* key of the code at its front is stored by keyboard_push, also when it   *)
(* was sent while the kernel started.  A code behind the front may be      *)
(* thrown away by the second insb of classic_keyboard_handle_interrupt.    *)
FirstCodeIsStored ==
  /\ port # << >> ~> port = << >> \/ phase = "panic"
  /\ \A t \in 0 .. INT_MOD - 1 :
       port # << >> /\ 0 \notin Keyboard!CharOf(Head(port)) /\ tail = t
         ~> tail # t \/ phase = "panic"

=============================================================================
