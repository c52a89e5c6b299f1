------------------------------- MODULE Loader -------------------------------
(***************************************************************************)
(* Binding the names of .BIN modules: load_kernel.c and symtable.c of the  *)
(* host program, and LoadKernel and Load of the guest (KLoad.HC).          *)
(*                                                                         *)
(* A module is its patch table, a sequence of entries.  An import entry    *)
(* with a name starts a group: the entries without a name that follow are  *)
(* other uses of the same name.  An import whose name nobody exports yet   *)
(* is noted in the hash table of the task that loads, to be bound by the   *)
(* export.  The kernel's table is read twice, by load_kernel, which binds  *)
(* the functions of the host, and by LoadKernel.  The static program has   *)
(* no kernel to load: bin2elf.py makes objects of the kernel and the       *)
(* compiler, the linker binds them, and inject_extra_symbols tells the     *)
(* guest what they export.                                                 *)
(*                                                                         *)
(* A load is atomic for the guest (it does not yield); the model takes an  *)
(* entry a step, and one absolute address an entry (IET_ABS_ADDR lists     *)
(* several).  Not modelled: how wide a patched field is, whether it is     *)
(* relative, the file, and the code IET_MAIN calls (it may Load again).    *)
(*                                                                         *)
(* An operator Mut<Op>_<Bug> is <Op> with a bug it must not have, used to  *)
(* test that the properties notice.                                        *)
(***************************************************************************)
EXTENDS Integers, Sequences, SequencesExt, FiniteSetsExt

CONSTANTS
  Kernel,      \* the kernel's module
  Module,      \* the modules that Load may load, each once
  Adam, User,  \* two tasks; the table of User is followed by Adam's
  Compiler,    \* the compiler's module, one of them
  PatchTable,  \* of each module: entries [etype, name, val]
  BigAddend16, \* the absolute addresses in 16-bit code with a big addend: <<module, k>>
  HostAPI,     \* the address of each function of the host
  Jit,         \* the address of each thunk for a function compiled later
  Entries,     \* the symbols loader_enter asks for
  NULL

Task == {Adam, User}
NoName == ""
EType == {"export", "import", "abs_addr", "heap", "main"}
Modules == Module \cup {Kernel}
Slot == UNION {{m} \X DOMAIN PatchTable[m] : m \in Modules}

ASSUME Constants ==
  /\ "linker" \notin Task
  /\ NULL \notin Task \cup {"linker"} \cup [name : STRING, address : Nat]
  /\ \A m \in Modules : PatchTable[m] \in Seq([etype : EType, name : STRING, val : Nat])

\* What the readers of patch tables take for granted: what starts with the name
\* of an import goes on with other uses of it and, unharmed, IET_MAIN, and there
\* are no others; the kernel has no heap globals.
Unnamed(m, k) == k \in DOMAIN PatchTable[m] /\ PatchTable[m][k].name = NoName
Heads(m, k) ==
  k \in DOMAIN PatchTable[m] /\ PatchTable[m][k].etype = "import" /\ PatchTable[m][k].name # NoName
InGroup(m, k, j) == j > k /\ \A i \in k + 1 .. j : Unnamed(m, i)
ASSUME PatchTables ==
  \A m \in Modules : \A k \in DOMAIN PatchTable[m] :
    LET e == PatchTable[m][k] IN
    /\ e.etype = "export" => e.name # NoName
    /\ e.etype = "import" => Heads(m, k) \/ \E h \in 1 .. k - 1 : Heads(m, h) /\ InGroup(m, h, k)
    /\ Heads(m, k) => \A j \in DOMAIN PatchTable[m] :
                        InGroup(m, k, j) => PatchTable[m][j].etype \in {"import", "main"}
    /\ m = Kernel => e.etype # "heap"

\* The address of nothing is 0, in a patched field as in these tables.
ASSUME Addresses ==
  /\ \A m \in Modules : \A k \in DOMAIN PatchTable[m] :
       PatchTable[m][k].etype \in {"export", "heap"} => PatchTable[m][k].val # 0
  /\ \A n \in DOMAIN HostAPI : HostAPI[n] \in Nat \ {0}
  /\ \A n \in DOMAIN Jit : Jit[n] \in Nat \ {0}

\* What the linker accepts: what one object imports, one of them or a thunk
\* defines, and none twice.
Static == {Kernel, Compiler}
ExportsIn(m) == {PatchTable[m][k] : k \in {i \in DOMAIN PatchTable[m] :
                                             PatchTable[m][i].etype = "export"}}
Thunks == DOMAIN HostAPI \cup DOMAIN Jit
ASSUME Links ==
  LET defined == UNION {ExportsIn(m) : m \in Static} IN
  /\ Compiler \in Module
  /\ \A e, f \in defined : e.name = f.name => e = f
  /\ \A m \in Static : \A k \in DOMAIN PatchTable[m] :
       LET e == PatchTable[m][k] IN
       /\ e.etype # "heap"
       /\ e.etype = "import" /\ e.name # NoName =>
            (e.name \in Thunks) # (\E f \in defined : f.name = e.name)

VARIABLES
  stage,    \* "load_kernel", "failed", "inject", "load" or "up"
  load,     \* what is loaded: [module, task, src], src an index of its patch table
  table,    \* hash_table of each task, the newest entry first
  slot,     \* the address bound at each import, 0 as long as there is none
  relocs,   \* how often each absolute address of a module was relocated
  syms,     \* the list of symtable.c
  toInject, \* what is left of the export table of a static program
  loaded    \* history: what has loaded a module, a task or "linker", or NULL

vars == <<stage, load, table, slot, relocs, syms, toInject, loaded>>

Import(x) == PatchTable[x[1]][x[2]].etype = "import"
AbsAddr(x) == PatchTable[x[1]][x[2]].etype = "abs_addr"

\* The name of an import is that of its group.
NameAt(x) ==
  PatchTable[x[1]][Max({j \in 1 .. x[2] : PatchTable[x[1]][j].name # NoName})].name

-----------------------------------------------------------------------------
(***************************************************************************)
(* bin2elf.py and the linker.                                              *)
(***************************************************************************)
\* make_object: a relocation by the symbol of its import, which an object or a
\* thunk (make_import_thunks) defines.
LinkedTo(name) ==
  IF name \in DOMAIN HostAPI THEN HostAPI[name]
  ELSE IF name \in DOMAIN Jit THEN Jit[name]
  ELSE (CHOOSE e \in UNION {ExportsIn(m) : m \in Static} : e.name = name).val

make_object ==
  [x \in Slot |-> IF x[1] \in Static /\ Import(x) THEN LinkedTo(NameAt(x)) ELSE 0]

\* The linker relocates what make_object appends: not the nonsense in 16-bit code.
append_reloc == {x \in Slot : x[1] \in Static /\ AbsAddr(x) /\ x \notin BigAddend16}

\* write_export_table: what every object exports, but its main routine.
write_export_table == UNION {ExportsIn(m) : m \in Static}

-----------------------------------------------------------------------------
Dynamic ==
  /\ stage = "load_kernel"
  /\ slot = [x \in Slot |-> 0]
  /\ relocs = [x \in Slot |-> 0]
  /\ loaded = [m \in Modules |-> NULL]
  /\ toInject = {}

Linked ==
  /\ stage = "inject"
  /\ slot = make_object
  /\ relocs = [x \in Slot |-> IF x \in append_reloc THEN 1 ELSE 0]
  /\ loaded = [m \in Modules |-> IF m \in Static THEN "linker" ELSE NULL]
  /\ toInject = write_export_table

Init ==
  /\ Dynamic \/ Linked
  /\ load = [module |-> Kernel, task |-> Adam, src |-> 1]
  /\ table = [t \in Task |-> <<>>]
  /\ syms = <<>>

-----------------------------------------------------------------------------
(***************************************************************************)
(* symtable.c                                                              *)
(***************************************************************************)
\* The symbol goes before the first that is not above it, unless that one has
\* the very same address.
NotAbove(sl, address) == {i \in DOMAIN sl : address >= sl[i].address}
MutPlaceOf_AfterIt(sl, address) ==
  IF NotAbove(sl, address) = {} THEN Len(sl) + 1 ELSE Min(NotAbove(sl, address)) + 1
PlaceOf(sl, address) ==
  IF NotAbove(sl, address) = {} THEN Len(sl) + 1 ELSE Min(NotAbove(sl, address))

addsym(name, address) ==
  syms' = IF \E i \in DOMAIN syms : i = PlaceOf(syms, address) /\ syms[i].address = address
          THEN syms
          ELSE InsertAt(syms, PlaceOf(syms, address), [name |-> name, address |-> address])

findsym(name) == \E i \in DOMAIN syms : syms[i].name = name

\* The first symbol that is not above the address, to name it in a backtrace.
lookupsym(address) ==
  IF NotAbove(syms, address) = {} THEN NULL ELSE syms[Min(NotAbove(syms, address))]

-----------------------------------------------------------------------------
(***************************************************************************)
(* Imports.                                                                *)
(***************************************************************************)
\* Where the group that starts at k ends, and the slots it binds.
MutAfterGroup_IgnoresNames(m, k) == Len(PatchTable[m]) + 1
AfterGroup(m, k) ==
  Min({j \in k + 1 .. Len(PatchTable[m]) + 1 : ~Unnamed(m, j)})
MutGroup_HeadOnly(m, k) == {<<m, k>>}
Group(m, k) == {<<m, j>> : j \in {i \in k .. AfterGroup(m, k) - 1 :
                                    PatchTable[m][i].etype = "import"}}

Bind(xs, val) == [x \in Slot |-> IF x \in xs THEN val ELSE slot[x]]

\* HashFind without HTT_IMPORT_SYS_SYM: the newest export of the task's table,
\* then of its parent's.
ExportsOf(t, name) ==
  {i \in DOMAIN table[t] : table[t][i].type = "export" /\ table[t][i].name = name}
HashFind(t, name) ==
  IF ExportsOf(t, name) # {} THEN table[t][Min(ExportsOf(t, name))].val
  ELSE IF ExportsOf(Adam, name) # {} THEN table[Adam][Min(ExportsOf(Adam, name))].val
  ELSE NULL

HashAdd(t, entries) == [table EXCEPT ![t] = entries \o @]

\* LoadOneImport: the group is bound, or noted as one to bind later.
LoadOneImport(t, m, k) ==
  LET name == PatchTable[m][k].name
      tmpex == HashFind(t, name)
  IN  IF tmpex # NULL THEN slot' = Bind(Group(m, k), tmpex) /\ UNCHANGED table
      ELSE /\ table' = HashAdd(t, <<[type |-> "import", name |-> name, val |-> 0,
                                     module |-> m, entry |-> k]>>)
           /\ UNCHANGED slot

\* SysSymImportsResolve, for an export that is added now: all that waits for it
\* in this table is bound to it and need not wait any longer.
Waiting(t, name) ==
  {i \in DOMAIN table[t] : table[t][i].type = "import" /\ table[t][i].name = name}
MutDone_StaysImport(entry) == entry
Done(entry) == [entry EXCEPT !.type = "invalid"]

SysSymImportsResolve(t, name, val) ==
  LET woken == Waiting(t, name)
      new   == [type |-> "export", name |-> name, val |-> val, module |-> NULL, entry |-> 0]
  IN  /\ slot' = Bind(UNION {Group(table[t][i].module, table[t][i].entry) : i \in woken}, val)
      /\ table' = [table EXCEPT ![t] =
           <<new>> \o [i \in DOMAIN @ |-> IF i \in woken THEN Done(@[i]) ELSE @[i]]]

-----------------------------------------------------------------------------
(***************************************************************************)
(* load_kernel.c, and what it hands over to.                               *)
(***************************************************************************)
AtEnd == load.src > Len(PatchTable[load.module])
At(etype) == ~AtEnd /\ PatchTable[load.module][load.src].etype = etype
This == PatchTable[load.module][load.src]
GoTo(src) == load' = [load EXCEPT !.src = src]
Skip == GoTo(load.src + 1)
MutSkipGroup_One == GoTo(load.src + 1)
SkipGroup == GoTo(AfterGroup(load.module, load.src))
Relocate == relocs' = [relocs EXCEPT ![<<load.module, load.src>>] = @ + 1]

KernelExport ==
  /\ stage = "load_kernel" /\ At("export")
  /\ addsym(This.name, This.val)
  /\ Skip /\ UNCHANGED <<stage, table, slot, relocs, toInject, loaded>>

KernelImport ==
  /\ stage = "load_kernel" /\ At("import")
  /\ slot' = IF This.name \in DOMAIN HostAPI
             THEN Bind(Group(Kernel, load.src), HostAPI[This.name]) ELSE slot
  /\ SkipGroup /\ UNCHANGED <<stage, table, relocs, syms, toInject, loaded>>

KernelAbsAddr ==
  /\ stage = "load_kernel" /\ At("abs_addr")
  /\ Relocate
  /\ Skip /\ UNCHANGED <<stage, table, slot, syms, toInject, loaded>>

KernelMain ==
  /\ stage = "load_kernel" /\ At("main")
  /\ Skip /\ UNCHANGED <<stage, table, slot, relocs, syms, toInject, loaded>>

\* loader_enter: without its entry points the program ends; with them the guest
\* starts, and reads the kernel's table again (LoadKernel).
loader_enter ==
  /\ stage = "load_kernel" /\ AtEnd
  /\ stage' = IF \A name \in Entries : findsym(name) THEN "load" ELSE "failed"
  /\ GoTo(1) /\ UNCHANGED <<table, slot, relocs, syms, toInject, loaded>>

\* The static program: inject_extra_symbols reads the export table and calls
\* HashAddSysSym.
inject_extra_symbols(t) ==
  /\ stage = "inject"
  /\ \E e \in toInject :
       /\ SysSymImportsResolve(t, e.name, e.val)
       /\ toInject' = toInject \ {e}
  /\ UNCHANGED <<stage, load, relocs, syms, loaded>>

Injected ==
  /\ stage = "inject" /\ toInject = {}
  /\ stage' = "up" /\ UNCHANGED <<load, table, slot, relocs, syms, toInject, loaded>>

-----------------------------------------------------------------------------
(***************************************************************************)
(* LoadPass1, from LoadKernel or Load.                                     *)
(***************************************************************************)
Load(t, m) ==
  /\ stage = "up" /\ loaded[m] = NULL
  /\ stage' = "load" /\ load' = [module |-> m, task |-> t, src |-> 1]
  /\ UNCHANGED <<table, slot, relocs, syms, toInject, loaded>>

LoadExport ==
  /\ stage = "load" /\ At("export")
  /\ addsym(This.name, This.val)
  /\ SysSymImportsResolve(load.task, This.name, This.val)
  /\ Skip /\ UNCHANGED <<stage, relocs, toInject, loaded>>

LoadImport ==
  /\ stage = "load" /\ At("import")
  /\ LoadOneImport(load.task, load.module, load.src)
  /\ SkipGroup /\ UNCHANGED <<stage, relocs, syms, toInject, loaded>>

\* LoadKernel passes LDF_NO_ABSS: load_kernel has relocated the kernel.
MutNoAbss_Never(m) == FALSE
NoAbss(m) == m = Kernel
LoadAbsAddr ==
  /\ stage = "load" /\ At("abs_addr")
  /\ IF NoAbss(load.module) THEN UNCHANGED relocs ELSE Relocate
  /\ Skip /\ UNCHANGED <<stage, table, slot, syms, toInject, loaded>>

\* A global on the heap is exported if it has a name, but resolves nothing.
LoadHeap ==
  /\ stage = "load" /\ At("heap")
  /\ table' = IF This.name = NoName THEN table
              ELSE HashAdd(load.task, <<[type |-> "export", name |-> This.name,
                     val |-> This.val, module |-> load.module, entry |-> load.src]>>)
  /\ Skip /\ UNCHANGED <<stage, slot, relocs, syms, toInject, loaded>>

LoadMain ==
  /\ stage = "load" /\ At("main")
  /\ Skip /\ UNCHANGED <<stage, table, slot, relocs, syms, toInject, loaded>>

LoadEnd ==
  /\ stage = "load" /\ AtEnd
  /\ stage' = "up" /\ loaded' = [loaded EXCEPT ![load.module] = load.task]
  /\ UNCHANGED <<load, table, slot, relocs, syms, toInject>>

load_kernel == KernelExport \/ KernelImport \/ KernelAbsAddr \/ KernelMain
LoadPass1 == LoadExport \/ LoadImport \/ LoadAbsAddr \/ LoadHeap \/ LoadMain \/ LoadEnd

-----------------------------------------------------------------------------
(***************************************************************************)
(* Properties.                                                             *)
(***************************************************************************)
\* What has been read of a module by LoadPass1, and by which task.
Read(x) == \/ loaded[x[1]] # NULL
           \/ stage = "load" /\ load.module = x[1] /\ x[2] < load.src
ReadBy(m) == IF loaded[m] # NULL THEN loaded[m] ELSE load.task

\* An address that a name may stand for: a module read so far exports it with
\* that address, or it is one of a function of the host or a thunk.
Exported(name, val) ==
  \/ \E y \in Slot : /\ Read(y) /\ PatchTable[y[1]][y[2]].etype \in {"export", "heap"}
                    /\ PatchTable[y[1]][y[2]].name = name /\ PatchTable[y[1]][y[2]].val = val
  \/ name \in DOMAIN HostAPI /\ HostAPI[name] = val
  \/ name \in DOMAIN Jit /\ Jit[name] = val

\* Types: every entry that waits in a hash table is the head of an import group.
TypeOK ==
  /\ stage \in {"load_kernel", "inject", "load", "up", "failed"}
  /\ load.module \in Modules /\ load.task \in Task /\ load.src \in Nat \ {0}
  /\ slot \in [Slot -> Nat]
  /\ loaded \in [Modules -> Task \cup {"linker", NULL}]
  /\ \A t \in Task : \A i \in DOMAIN table[t] :
       LET e == table[t][i] IN
       e.type = "import" => /\ PatchTable[e.module][e.entry].etype = "import"
                            /\ PatchTable[e.module][e.entry].name = e.name
                            /\ e.name # NoName

\* Nothing is forgotten: an import that was read is bound, or its group still
\* waits in the hash table of the task that read it.  A second use of a name, or
\* a second module that waits for it, is what a loader loses.
NoneForgotten ==
  \A x \in Slot : Import(x) /\ Read(x) /\ slot[x] = 0 =>
    \E i \in DOMAIN table[ReadBy(x[1])] :
      LET e == table[ReadBy(x[1])][i]
      IN  e.type = "import" /\ x \in Group(e.module, e.entry)

\* An import is bound to an address that its own name was exported with.
BoundByName == \A x \in Slot : slot[x] # 0 => Exported(NameAt(x), slot[x])

\* Code that runs keeps what it calls: a bound import is not bound again by a
\* later export of the name, unless it was bound to the host.
BoundForGood ==
  [][\A x \in Slot : slot[x] # 0 /\ slot'[x] # slot[x] => NameAt(x) \in DOMAIN HostAPI]_vars

\* No absolute address is relocated twice, although two readers see the kernel's
\* patch table and the linker has relocated those of static modules; and what a
\* task has loaded has each of them relocated.  (Of a static module the linker
\* leaves out what make_object ignores.)
RelocatedOnce ==
  \A x \in Slot :
    /\ relocs[x] <= 1
    /\ AbsAddr(x) /\ loaded[x[1]] \in Task => relocs[x] = 1

\* A backtrace names an address after the nearest export below it: the list
\* descends, so that the first symbol found is the nearest of all that the
\* modules loaded so far export.
ExportAddresses ==
  {PatchTable[x[1]][x[2]].val : x \in
     {y \in Slot : /\ PatchTable[y[1]][y[2]].etype = "export"
                  /\ \/ Read(y) /\ loaded[y[1]] # "linker"
                     \/ stage = "load_kernel" /\ y[1] = Kernel /\ y[2] < load.src}}
NearestSymbol ==
  \A a \in ExportAddresses : LET sym == lookupsym(a) IN sym # NULL /\ sym.address = a
=============================================================================
