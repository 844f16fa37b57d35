-------------------------------- MODULE Boot --------------------------------
(***************************************************************************)
(* Starting the kernel: the calls of kernel_main that set up what the rest *)
(* of the system relies on.  Interrupts are off until the first task runs, *)
(* so each call is one step, but for fat16_resolve, which is taken apart   *)
(* at the calls that may fail.  The descriptor tables, the heap and paging *)
(* are set up by calls whose state belongs to other modules; the steps     *)
(* here are those that connect components: the file system is registered   *)
(* and mounted, the commands and the keyboard's handler are entered in     *)
(* their tables, and the first program is loaded.                          *)
(***************************************************************************)
EXTENDS Terminal

CONSTANTS
  MAX_FILESYSTEMS,   \* PEACHOS_MAX_FILESYSTEMS, 12
  MAX_COMMANDS,      \* PEACHOS_MAX_ISR80H_COMMANDS, 1024
  PanicMessage,      \* what kernel_main prints when the program is missing
  NULL

VARIABLES
  phase,              \* the call kernel_main makes next, and what follows it
  volume,             \* what is on the disk, and which call for it fails
  filesystems,        \* the table of known file systems
  disk,               \* the only disk, with the root directory's total
  live,               \* fat16_resolve's heap blocks that are not freed
  isr80h_commands,    \* the table of system calls
  callback            \* callback_functions[ISR_KEYBOARD_INTERRUPT]

bootVars == <<phase, volume, filesystems, disk, live, isr80h_commands, callback>>

SYSTEM_COMMAND0_SUM == 0
SYSTEM_COMMAND1_PRINT == 1
SYSTEM_COMMAND2_GETKEY == 2
SYSTEM_COMMAND3_PUTCHAR == 3

ASSUME BootAssumption ==
  /\ MAX_FILESYSTEMS \in Nat \ {0}
  /\ MAX_COMMANDS \in Nat /\ MAX_COMMANDS > SYSTEM_COMMAND3_PUTCHAR
  /\ NULL # "fat16" /\ NULL # "fat_private"

-----------------------------------------------------------------------------

(* The order of the calls: what follows each of them.                      *)
kernel_main ==
  [terminal_initialize |-> "fs_init",
   fs_init |-> "disk_search_and_init",
   disk_search_and_init |-> "isr80h_register_commands",
   isr80h_register_commands |-> "keyboard_init",
   keyboard_init |-> "process_load_switch",
   process_load_switch |-> "task_run_first_ever_task",
   task_run_first_ever_task |-> "user"]

Call(name) == phase = name /\ phase' = kernel_main[name]

(* The calls of fat16_resolve that answer with an error, but for that of a *)
(* foreign signature.  The disk driver in src/ reports none of its own;    *)
(* the code is ready for one that does.                                    *)
Faults == {"diskSteamerNew", "header", "total_items", "kZalloc", "seek", "read"}
Volumes == [signature : BOOLEAN, program : BOOLEAN, fault : Faults \cup {NULL}]

NoDisk == [filesystem |-> NULL, fs_private |-> NULL, total |-> 0]

(* Static storage is zero, the screen shows what the BIOS left.            *)
BootInit ==
  /\ phase = "terminal_initialize"
  /\ volume \in Volumes
  /\ filesystems = [i \in 1 .. MAX_FILESYSTEMS |-> NULL]
  /\ disk = NoDisk
  /\ live = {}
  /\ isr80h_commands = [i \in 0 .. MAX_COMMANDS - 1 |-> NULL]
  /\ callback = NULL
  /\ terminal = [video_mem |-> [k \in Cells |-> BEHIND], terminal_row |-> 0, terminal_col |-> 0]

StartTerminal ==
  /\ Call("terminal_initialize")
  /\ terminal' = terminal_initialize
  /\ UNCHANGED <<volume, filesystems, disk, live, isr80h_commands, callback>>

(* fs_insert_filesystem with the first free slot of the cleared table.     *)
fs_init ==
  /\ Call("fs_init")
  /\ filesystems' = [i \in 1 .. MAX_FILESYSTEMS |-> IF i = 1 THEN "fat16" ELSE NULL]
  /\ UNCHANGED <<terminal, volume, disk, live, isr80h_commands, callback>>

-----------------------------------------------------------------------------
(* What fat_private points to, and the steps of fat16_resolve.             *)
Streams == {"cluster_read_stream", "fat_read_stream", "directory_stream"}
Mounted == Streams \cup {"fat_private", "root_directory"}
Resolving == {"fat16_init_private", "read_header", "fat16_get_root_directory", "out"}

Resolve(from, to) ==
  /\ phase = from /\ phase' = to
  /\ UNCHANGED <<terminal, volume, filesystems, isr80h_commands, callback>>

Allocate(blocks) == live' = live \cup blocks

(* fs_resolve asks the file systems of the table; there is only one, whose *)
(* resolve comes next.                                                     *)
fs_resolve ==
  IF \E i \in 1 .. MAX_FILESYSTEMS : filesystems[i] # NULL
  THEN "fat16_init_private" ELSE kernel_main["disk_search_and_init"]

disk_search_and_init ==
  /\ Resolve("disk_search_and_init", fs_resolve)
  /\ disk' = NoDisk
  /\ UNCHANGED live

(* fat_private and its streams are made and entered in the disk before     *)
(* anything is known of the volume.  Whether there are streams is not      *)
(* tested: a disk without one has no header stream either.                 *)
fat16_init_private ==
  /\ Resolve("fat16_init_private", "read_header")
  /\ Allocate({"fat_private"} \cup (IF volume.fault = "diskSteamerNew" THEN {} ELSE Streams))
  /\ disk' = [disk EXCEPT !.fs_private = "fat_private"]

(* The stream of its own through which fat16_resolve reads the header.     *)
NoStream ==
  /\ volume.fault = "diskSteamerNew"
  /\ Resolve("read_header", "out")
  /\ UNCHANGED <<disk, live>>

HeaderRefused ==
  /\ volume.fault # "diskSteamerNew"
  /\ volume.fault = "header" \/ ~ volume.signature
  /\ Resolve("read_header", "out")
  /\ Allocate({"stream"})
  /\ UNCHANGED disk

HeaderKnown ==
  /\ volume.fault \notin {"diskSteamerNew", "header"} /\ volume.signature
  /\ Resolve("read_header", "fat16_get_root_directory")
  /\ Allocate({"stream"})
  /\ UNCHANGED disk

(* What fat16_get_total_items_for_directory answers: the entries, which    *)
(* the program's is one of, or an error that is taken for their number.    *)
TotalItems == IF volume.fault = "total_items" THEN -1 ELSE IF volume.program THEN 1 ELSE 0

(* fat16_get_root_directory: no memory, or a buffer that could not be read *)
(* and is not freed ...                                                    *)
RootDirectoryFails ==
  /\ volume.fault \in {"kZalloc", "seek", "read"}
  /\ Resolve("fat16_get_root_directory", "out")
  /\ Allocate(IF volume.fault = "kZalloc" THEN {} ELSE {"root_directory"})
  /\ UNCHANGED disk

(* ... or the directory, and with it the file system of the disk.  The     *)
(* header's stream is closed.                                              *)
RootDirectoryRead ==
  /\ volume.fault \notin {"kZalloc", "seek", "read"}
  /\ Resolve("fat16_get_root_directory", kernel_main["disk_search_and_init"])
  /\ live' = (live \cup {"root_directory"}) \ {"stream"}
  /\ disk' = [disk EXCEPT !.filesystem = "fat16", !.total = TotalItems]

(* Mutant: a volume that is refused stays entered in the disk.             *)
out_keeps ==
  /\ Resolve("out", kernel_main["disk_search_and_init"])
  /\ live' = live \ {"fat_private", "stream"}
  /\ UNCHANGED disk

(* The error exit of fat16_resolve gives back fat_private but not its      *)
(* three streams, and the header's stream if there is one.                 *)
out ==
  /\ Resolve("out", kernel_main["disk_search_and_init"])
  /\ live' = live \ {"fat_private", "stream"}
  /\ disk' = [disk EXCEPT !.fs_private = NULL]

fat16_resolve ==
  \/ fat16_init_private \/ NoStream \/ HeaderRefused \/ HeaderKnown
  \/ RootDirectoryFails \/ RootDirectoryRead \/ out

-----------------------------------------------------------------------------
(* The numbers are within the table and each is entered once, so neither   *)
(* panic of isr80h_register_command is reached.                            *)
isr80h_register_command(table, command_id, func) == [table EXCEPT ![command_id] = func]

isr80h_register_commands ==
  LET with_sum == isr80h_register_command(isr80h_commands, SYSTEM_COMMAND0_SUM, "sum")
      with_print == isr80h_register_command(with_sum, SYSTEM_COMMAND1_PRINT, "print")
      with_getkey == isr80h_register_command(with_print, SYSTEM_COMMAND2_GETKEY, "getkey")
  IN  /\ Call("isr80h_register_commands")
      /\ isr80h_commands' =
           isr80h_register_command(with_getkey, SYSTEM_COMMAND3_PUTCHAR, "putchar")
      /\ UNCHANGED <<terminal, volume, filesystems, disk, live, callback>>

register_interrupt_callback_function(func) == callback' = func

(* The port is enabled as well.                                            *)
classic_keyboard_init ==
  register_interrupt_callback_function("classic_keyboard_handle_interrupt")

(* keyboard_insert lists the only keyboard and calls its init function.    *)
keyboard_init ==
  /\ Call("keyboard_init")
  /\ classic_keyboard_init
  /\ UNCHANGED <<terminal, volume, filesystems, disk, live, isr80h_commands>>

(* fopen answers 0 when no file system is mounted or the program is not    *)
(* among the entries of the root directory it looks at.                    *)
Loadable == disk.filesystem # NULL /\ disk.total > 0

process_load_switch ==
  /\ Call("process_load_switch")
  /\ Loadable
  /\ UNCHANGED <<terminal, volume, filesystems, disk, live, isr80h_commands, callback>>

panic ==
  /\ phase = "process_load_switch"
  /\ ~ Loadable
  /\ phase' = "panic"
  /\ terminal' = print(terminal, PanicMessage)
  /\ UNCHANGED <<volume, filesystems, disk, live, isr80h_commands, callback>>

BootCalls ==
  \/ StartTerminal \/ fs_init \/ disk_search_and_init \/ fat16_resolve
  \/ isr80h_register_commands \/ keyboard_init
  \/ process_load_switch \/ panic

-----------------------------------------------------------------------------
(* At every step of fat16_resolve the disk points to allocated memory or   *)
(* to none, and has a file system only with all that its functions read.   *)
(* Once fat16_resolve has returned, by whichever exit, fs_private is set   *)
(* only for a mounted volume and the header's stream is closed.            *)
MountedOrClean ==
  /\ disk.fs_private # NULL => "fat_private" \in live
  /\ disk.filesystem # NULL => disk.fs_private # NULL /\ Mounted \subseteq live
  /\ phase \notin Resolving =>
       /\ disk.fs_private # NULL => disk.filesystem # NULL
       /\ "fat_private" \in live => disk.fs_private # NULL
       /\ "stream" \notin live
=============================================================================
