---------------------------- MODULE HostProcess ----------------------------
(***************************************************************************)
(* A process of the host that runs the guest: main of main.c and of        *)
(* mainstatic.c, init_memory_map, loader_enter, the system call dispatcher *)
(* and the thunks of the host's functions, around the loading of modules.  *)
(*                                                                         *)
(* The process is one thread.  Code of the host and code of the guest take *)
(* turns in it, and each has its own idea of the FS register: the C        *)
(* library finds its thread there, the guest its task.  Once it is started *)
(* the guest is as free as it may be: it makes system calls, switches      *)
(* tasks, calls the host, loads modules and runs into CLI.                 *)
(*                                                                         *)
(* A step ends where the start may fail or FS changes.  mmap, malloc and   *)
(* PhysFS are external.  Left out: the wording of messages, where drives   *)
(* lead, and what system calls do to files (Vfs and HostFs).               *)
(*                                                                         *)
(* An operator Mut<Op>_<Bug> is <Op> with a bug it must not have, used to  *)
(* test that the properties notice.                                        *)
(***************************************************************************)
EXTENDS Loader

CONSTANTS
  CommandLines,  \* what the user may type: [help, errors, specs]
  Pages,         \* of the address space, numbered
  FixedArea,     \* the pages at SYS_FIXED_AREA_START
  KernelArea,    \* those from kernel_start_address
  Image,         \* those of the program itself
  FlatArea       \* those at FLAT_START

\* The program is linked to a place of its own (elf64-x86-64.ld).
ASSUME Layout ==
  /\ Pages \subseteq Nat
  /\ LET areas == <<FixedArea, KernelArea, Image, FlatArea>> IN
     \A i, j \in 1 .. 4 : areas[i] # {} /\ areas[i] \subseteq Pages /\ (i # j => areas[i] \cap areas[j] = {})
ASSUME NullIsNoStatus == NULL \notin {-1, 0, 1}

Letter == {"C", "D"}

VARIABLES
  at,           \* the function that main is in
  cmd,          \* its command line, less the drives it has dealt with
  area,         \* the pages of each area, "refused" those the host does not give
  kernel_base,  \* where main believes the kernel's area to be, or NULL
  drives,       \* the letters of the drives that vfs_init was called for
  status,       \* what the process ended with, or NULL
  fs,           \* the FS register: "libc", a task, or NULL
  host_fs,      \* the values vsyscall.c keeps, host_fs NULL before it is saved
  emulated_fs,
  inside,       \* what the guest has called or run into: [fn, num, task]
  cur_task      \* history: the task that the guest has made its own, or NULL

boot == <<cmd, area, kernel_base, drives>>
regs == <<fs, host_fs, emulated_fs, inside, cur_task>>
procVars == <<vars, at, boot, status, regs>>

\* What the guest can be inside of.
Call(fn, num, task) == [fn |-> fn, num |-> num, task |-> task]
Inside(fn) == Call(fn, NULL, NULL)
Nothing == Inside("nothing")

Runtime == {"InitRuntime3", "RuntimeLoadCompiler", "RuntimeStartOS"}
Within(fn) == at # "ended" /\ inside.fn = fn
Guest == at \in {"InitRuntime", "_VKSTART64"} \cup Runtime /\ inside = Nothing

ProcInit ==
  /\ Init
  /\ at = "init_memory_map" /\ cmd \in CommandLines
  /\ \E refused \in SUBSET (FixedArea \cup KernelArea) :
       area = [refused |-> refused, host |-> Image, kernel |-> {}, flat |-> {}, fixed |-> {}]
  /\ kernel_base = NULL /\ drives = {} /\ status = NULL
  /\ fs = "libc" /\ host_fs = NULL /\ emulated_fs = NULL /\ inside = Nothing /\ cur_task = NULL

exit(code) == at' = "ended" /\ status' = code

-----------------------------------------------------------------------------
(***************************************************************************)
(* init_memory_map.                                                        *)
(***************************************************************************)
Free == Pages \ UNION {area[a] : a \in DOMAIN area}

\* mmap without MAP_FIXED: the place asked for if it is free, otherwise, as Linux
\* searches for MAP_32BIT, one above it.
Mmap(hint) ==
  IF hint \subseteq Free THEN {hint}
  ELSE {p \in SUBSET Free : Cardinality(p) = Cardinality(hint) /\ Min(p) > Min(hint)}

Goes(to) == at' = to /\ UNCHANGED status
Map(name, p) == area' = [area EXCEPT ![name] = p]

\* The static program asks for no area of the kernel.
MutKernelMapped_Anywhere(p) == TRUE
KernelMapped(p) == ~(Min(p) > Min(KernelArea))

MapKernel ==
  /\ at = "init_memory_map"
  /\ IF stage = "inject" THEN Goes("map flat") /\ UNCHANGED <<area, kernel_base>>
     ELSE \E p \in Mmap(KernelArea) :
            IF KernelMapped(p) THEN Goes("map flat") /\ Map("kernel", p) /\ kernel_base' = KernelArea
            ELSE exit(-1) /\ UNCHANGED <<area, kernel_base>>
  /\ UNCHANGED <<vars, cmd, drives, regs>>

\* MAP_FIXED: the area takes the place of what was there.
MapFlat ==
  /\ at = "map flat"
  /\ Goes("map fixed") /\ Map("flat", FlatArea)
  /\ UNCHANGED <<vars, cmd, kernel_base, drives, regs>>

MapFixed ==
  /\ at = "map fixed"
  /\ \E p \in Mmap(FixedArea) :
       IF p = FixedArea THEN Goes("arg_parse") /\ Map("fixed", p)
       ELSE exit(-1) /\ UNCHANGED area
  /\ UNCHANGED <<vars, cmd, kernel_base, drives, regs>>

\* Any of them when the host has no memory left.
MmapFails ==
  /\ at \in {"map flat", "map fixed"} \/ (at = "init_memory_map" /\ stage # "inject")
  /\ exit(-1) /\ UNCHANGED <<vars, boot, regs>>

-----------------------------------------------------------------------------
(***************************************************************************)
(* main.                                                                   *)
(***************************************************************************)
\* The first memory that is asked of malloc is for the argument table.
arg_parse ==
  /\ at = "arg_parse"
  /\ \E p \in Free : area' = [area EXCEPT !.host = @ \cup {p}]
  /\ IF cmd.help THEN exit(0) ELSE IF cmd.errors THEN exit(1) ELSE Goes("drives")
  /\ UNCHANGED <<vars, cmd, kernel_base, drives, regs>>

InitDrive ==
  /\ at = "drives" /\ cmd.specs # <<>>
  /\ cmd' = [cmd EXCEPT !.specs = Tail(@)]
  /\ LET spec == Head(cmd.specs) IN
     IF spec.syntax /\ spec.let \in Letter
     THEN drives' = drives \cup {spec.let} /\ UNCHANGED <<at, status>>
     ELSE exit(-1) /\ UNCHANGED drives
  /\ UNCHANGED <<vars, area, kernel_base, regs>>

\* The drives that were not named exist, but lead nowhere.
InitOtherDrives ==
  /\ at = "drives" /\ cmd.specs = <<>>
  /\ drives' = Letter
  /\ Goes(IF stage = "inject" THEN "install_trap_handlers" ELSE "load_kernel")
  /\ UNCHANGED <<vars, cmd, area, kernel_base, regs>>

\* The file is there, or not.
LoadKernelFile ==
  /\ at = "load_kernel"
  /\ \/ load_kernel /\ UNCHANGED <<at, status>>
     \/ AtEnd /\ Goes("install_trap_handlers") /\ UNCHANGED vars
     \/ load.src = 1 /\ exit(-1) /\ UNCHANGED vars
  /\ UNCHANGED <<boot, regs>>

\* sigaction fails for one of the signals, or FS is saved after all of them.
install_trap_handlers ==
  /\ at = "install_trap_handlers"
  /\ \/ exit(1) /\ UNCHANGED host_fs
     \/ /\ host_fs' = fs
        /\ Goes(IF stage = "inject" THEN "InitRuntime" ELSE "loader_enter")
  /\ UNCHANGED <<vars, boot, fs, emulated_fs, inside, cur_task>>

\* main does not look at what loader_enter returns.
EnterGuest ==
  /\ at = "loader_enter" /\ loader_enter
  /\ IF stage' = "failed" THEN exit(0) ELSE Goes("InitRuntime")
  /\ UNCHANGED <<boot, regs>>

-----------------------------------------------------------------------------
(***************************************************************************)
(* What the guest asks of the host.                                        *)
(***************************************************************************)
\* vsyscall_dispatcher begins with the host's FS.  The first call is InitRuntime's,
\* for the size of memory; then _VKSTART64 makes Adam the task.
VSys(num, t) == Call("vsyscall_dispatcher", num, t)
Calls ==
  CASE at = "InitRuntime"    -> {VSys("MEMSIZE", NULL)}
    [] at = "_VKSTART64"     -> {VSys("SETFS", Adam)}
    [] at = "RuntimeStartOS" -> {VSys(num, NULL) : num \in {"STAT", "EXIT"}}
                                \cup (IF stage = "load" THEN {} ELSE {VSys("SETFS", t) : t \in Task})
    [] OTHER                 -> {VSys("STAT", NULL)}

VSysCall ==
  /\ Guest
  /\ inside' \in Calls
  /\ fs' = host_fs
  /\ UNCHANGED <<vars, at, boot, status, host_fs, emulated_fs, cur_task>>

SETFS(call) == IF call.num = "SETFS" THEN call.task ELSE emulated_fs
MutRestoreFs_Old(call) == emulated_fs
RestoreFs(call) == SETFS(call)

VSysCallReturns ==
  /\ Within("vsyscall_dispatcher") /\ inside.num # "EXIT"
  /\ emulated_fs' = SETFS(inside) /\ fs' = RestoreFs(inside)
  /\ cur_task' = IF inside.num = "SETFS" THEN inside.task ELSE cur_task
  /\ at' = CASE at = "InitRuntime" -> "_VKSTART64"
             [] at = "_VKSTART64" -> "InitRuntime3"
             [] OTHER -> at
  /\ inside' = Nothing
  /\ UNCHANGED <<vars, boot, status, host_fs>>

VSysCallExits ==
  /\ Within("vsyscall_dispatcher") /\ inside.num = "EXIT"
  /\ exit(0) /\ UNCHANGED <<vars, boot, regs>>

\* The thunks save registers, but leave FS alone.
HostFunctions ==
  CASE at = "InitRuntime3" -> IF stage = "load" THEN {} ELSE {"HostInjectStaticallyLinkedSymbols"}
    [] at = "RuntimeLoadCompiler" -> {"HostGetEnv"}
    [] at = "RuntimeStartOS" -> {"HostGetEnv", "HostGetLocalTime"}
    [] OTHER -> {}

Thunk ==
  /\ Guest
  /\ \E f \in HostFunctions : inside' = Inside(f)
  /\ UNCHANGED <<vars, at, boot, status, fs, host_fs, emulated_fs, cur_task>>

ThunkReturns ==
  /\ Within("HostGetEnv") \/ Within("HostGetLocalTime")
  /\ inside' = Nothing
  /\ UNCHANGED <<vars, at, boot, status, fs, host_fs, emulated_fs, cur_task>>

\* HostInjectStaticallyLinkedSymbols calls back into the guest, for the hash table
\* of the task in FS; in the dynamic program it does nothing.
Injecting == Within("HostInjectStaticallyLinkedSymbols")
InjectSymbol ==
  /\ Injecting /\ fs \in Task /\ inject_extra_symbols(fs)
  /\ UNCHANGED <<at, boot, status, regs>>

InjectReturns ==
  /\ Injecting /\ (Injected \/ (stage = "up" /\ UNCHANGED vars))
  /\ inside' = Nothing /\ Goes("RuntimeLoadCompiler")
  /\ UNCHANGED <<boot, fs, host_fs, emulated_fs, cur_task>>

\* handler: CLI becomes NOP and the guest goes on; anything else is the end.
Trap ==
  /\ Guest
  /\ inside' = Inside("handler")
  /\ UNCHANGED <<vars, at, boot, status, fs, host_fs, emulated_fs, cur_task>>

HandlerReturns ==
  /\ Within("handler")
  /\ inside' = Nothing
  /\ UNCHANGED <<vars, at, boot, status, fs, host_fs, emulated_fs, cur_task>>

bugcheck ==
  /\ Within("handler")
  /\ exit(-1) /\ UNCHANGED <<vars, boot, regs>>

-----------------------------------------------------------------------------
(***************************************************************************)
(* The guest.                                                              *)
(***************************************************************************)
\* LoadKernel, and later Load of whatever task runs; either is in FS.
GuestLoads ==
  /\ Guest /\ at \in Runtime
  /\ \/ LoadPass1
     \/ /\ at # "InitRuntime3" /\ fs \in Task
        /\ \E m \in IF at = "RuntimeLoadCompiler" THEN {Compiler} ELSE Module : Load(fs, m)
  /\ UNCHANGED <<at, boot, status, regs>>

\* The compiler is loaded, linked in, or nowhere to be found.
RuntimeStartOS ==
  /\ Guest /\ at = "RuntimeLoadCompiler" /\ stage = "up"
  /\ Goes("RuntimeStartOS")
  /\ UNCHANGED <<vars, boot, regs>>

Start ==
  \/ MapKernel \/ MapFlat \/ MapFixed \/ MmapFails
  \/ arg_parse \/ InitDrive \/ InitOtherDrives
  \/ LoadKernelFile \/ install_trap_handlers \/ EnterGuest

Next ==
  \/ Start
  \/ VSysCall \/ VSysCallReturns \/ VSysCallExits
  \/ Thunk \/ ThunkReturns \/ InjectSymbol \/ InjectReturns
  \/ Trap \/ HandlerReturns \/ bugcheck
  \/ GuestLoads \/ RuntimeStartOS

Spec == ProcInit /\ [][Next]_procVars

-----------------------------------------------------------------------------
(***************************************************************************)
(* Properties.                                                             *)
(***************************************************************************)
ProcTypeOK ==
  /\ TypeOK
  /\ area \in [{"refused", "host", "kernel", "flat", "fixed"} -> SUBSET Pages]
  /\ drives \subseteq Letter /\ status \in {NULL, -1, 0, 1}
  /\ (status = NULL) = (at # "ended")
  /\ fs \in {"libc", NULL} \cup Task /\ emulated_fs \in {NULL} \cup Task
  /\ cur_task \in Task \cup {NULL}

\* The guest runs in no process whose start has failed, whatever the command line
\* was: the memory of the host and the areas of the guest stay apart although mmap
\* gives another place than asked for when that one is taken, and MAP_FIXED does
\* not ask; each area is where the code takes it to be; both drives are there
\* ("Ensure both drives are initialized to prevent a crash", loader.c:125); and
\* so is the way back to the host.
GuestIsReady ==
  /\ \A a, b \in DOMAIN area : a # b => area[a] \cap area[b] = {}
  /\ Guest => /\ area.flat = FlatArea /\ area.fixed = FixedArea
              /\ kernel_base # NULL => area.kernel = kernel_base
              /\ drives = Letter /\ host_fs = "libc" /\ status = NULL

\* Whenever code of the guest runs, also when the host calls it back, FS is the
\* task the guest has made its own: neither system calls nor traps nor thunks
\* lose it, and what is loaded goes to the hash table of that task.
FsIsCurTask ==
  /\ at \in Runtime /\ (inside = Nothing \/ Injecting) => fs = cur_task
  /\ stage = "load" /\ at \in Runtime => load.task = cur_task

\* "past this point, Fs/Gs will be clobbered so we should not use glibc functions"
\* (loader.c:210): what the guest calls of the C library runs under the host's FS.
LibcUnderHostFs ==
  inside.fn \in {"vsyscall_dispatcher", "HostGetEnv", "HostGetLocalTime"} =>
    fs = host_fs
=============================================================================
