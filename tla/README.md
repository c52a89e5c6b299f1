# TLA+ models of templeos-loader

templeos-loader runs the TempleOS kernel (HolyCRT, the part of it that is
needed) as a process of the host. A loader in C reads the kernel image, binds
its names to functions of the host and jumps into it; a second program has the
image linked in. From there on the guest manages memory, tasks, drives, files and
modules itself, and asks the host through numbered system calls. These modules
state what the guest's allocator, its tasks and jobs, its drives and their file
systems, its module loader and the process around it promise, check it on small
instances with TLC, and prove parts of it for every instance with TLAPS.

    tlc -config mempag_two_chunks.cfg MCMemPag     # any cfg with the module of PROJECT.json
    tlapm MemPag_proofs.tla                        # and each other *_proofs, and SeqLemmas

`PROJECT.json` lists the runs with their modules, the lines of the source that
every definition stands for, the hazards with the properties that cover them,
and for every property a mutation of the model that TLC finds to break it.

## 1. Inventory

| component | source | state | operations | hard behaviour | what makes it correct |
|---|---|---|---|---|---|
| page pool, heap controls | `Mem/*.HC`, `VKStart64.HC` | free lists by exact size and by class, `mem_free_lst`, queue of blocks and counters of each heap control, `last_mergable` | `BlkPoolAdd`, `MemPagAlloc/Free`, `MemPagTaskAlloc/Free`, `MAlloc`, `Free`, `HeapCtrlInit/Del` | sizes rounded up and down, splits, merges, long histories, exhaustion | no page shared or lost; a block is as large as asked for; counters agree |
| vfs.c | `vfs.c` | table of cluster numbers per drive, open directory lists | `vfs_stat`, `vfs_statclus`, `vfs_opendir/readdir`, `vfs_unlink`, file read and write, mkdir | the host changes files between calls; table limit; aliases of a path | a number is for good and leads back to its path |
| HOSTFS and directories of the guest | `BlkDev/FileSysHostFS.HC`, `DskDirB`, `DskStrB`, `DskDirContext`, `DskFind`, `DskCopy` | `Fs->cur_dv`, `Fs->cur_dir`, directory contexts, recursion | `Cd`, `FileFind`, `FilesFind`, `Del`, read, write, mkdir | every system call is a moment at which files come and go; searches move the task's own directory | the task comes back to where it was; entries name what they are numbered; deletion hits only what was asked for; operations end |
| tasks and scheduler | `Sched.HC`, `KTask.HC` | ring of tasks, task flags, parent, pop-up and child links | `Yield`, `Spawn`, `Kill`, `Exit`, `TaskEnd` | tasks end while others point at them or wait for them | ring and links sound; the killed end |
| jobs | `Job.HC` | queues `next_waiting`, `next_done` of each task, flags of each job | `TaskExe`, `JobsHndlr`, `JobRunOne`, `JobResGet`, `PopUp`, `Adam`, `TaskWait`, `TaskText`, `TaskMsg` | wake-ups, suspended masters, kills with jobs in flight | one owner per job, no dangling pointer, nobody sleeps over work or is forgotten |
| modules and symbols | `load_kernel.c`, `symtable.c`, `mainstatic.c`, `bin2elf.py`, `KLoad.HC`, `KHashA.HC` | patch tables, hash table of each task, bound imports, symbol list | `load_kernel`, `LoadKernel`, `Load`, `HashAddSysSym`, `addsym`, `lookupsym` | names come in any order; two readers of one table; two programs | every import bound once, by its name, or waiting; no address relocated twice |
| process start, system calls | `main.c`, `mainstatic.c`, `memory_map.c`, `loader.c`, `vsyscall.c`, `thunk.h`, `host.c`, `InitRuntime.HC` | mapped areas, drives, FS register and its two saved values | `main`, `init_memory_map`, `loader_enter`, dispatcher, thunks, trap handler | mmap gives another place; every step may fail; two owners of FS | the guest is entered only when all is ready; FS is the guest's task while the guest runs |
| drives, block devices | `BlkDev/DskDrv.HC`, `DskBlkDev.HC`, `DskBlk.HC`, `DskAddDev.HC` | locks with owner, lock forwarding, drive table, initialised devices | `DrvLock/Unlock`, `BlkDevLock/Unlock`, `BlkDevInit`, `BlkDevAdd/Del`, `DrvsRelease`, `BlkRead` | two locks and yields between, nested locking, owners that die, mounting under use | who works on a drive has it; locks are passed on; the dead hold nothing |
| disk cache | `BlkDev/DskCache.HC` | LRU queue and hash | add, find, invalidate | stale blocks of what was mounted before | a hit is what the drive has |
| RedSea | `FileSysRedSea.HC`, `DskClus.HC` | bitmap, free list, directories | format, allocate, free, write, delete, make directory | an operation in several locks, kills between, full disk, growing directories | free list and bitmap agree; no cluster in two files; files are whole |
| FAT32 | `FileSysFAT.HC` | FAT chains | the same | the same | the same |
| CFile, shared images | `DskCFile.HC` | buffers, reference count | open, close, block read and write | shared buffer grown or freed | no use after free |
| messages, keyboard, mouse | `SerialDev/*.HC` | FIFOs, message jobs, input filters | `ScanMsg`, `GetMsg`, `PostMsg` | several readers, tasks that die | in order, none lost or twice |
| multicore | `MultiProc.HC` | job queues of cores | `JobQue`, `SpawnQue`, locks | real parallelism | not reached: the start of other cores is commented out |
| libraries | `Str*.HC`, `KMath*.HC`, `KDate.HC`, `Compress.HC`, `QSort.HC`, ... | none shared | functions | edges of numbers and buffers | reference definitions |

How they interact. `main` maps memory (`memory_map.c`), reads the command line,
makes the drives (`vfs_init`), loads the kernel (`load_kernel.c`), and enters it
(`loader_enter`). `InitRuntime` gives the page pool its memory, makes Adam the
first task (a system call puts him into FS), reads the kernel's patch table again
(`LoadKernel`) or has the host inject the symbols that are linked in, loads the
compiler and starts the rest. A task asks another through its job queue, a pop-up
is a child that serves one job while its parent is suspended, and the scheduler
passes the one CPU round the ring of tasks. Every task has heap controls, which
draw blocks from the pool and return them when the task is deleted. A file
function locks the drive and its device and goes through the drive's driver: on a
HOSTFS drive each step is a `VSysCall` into `vfs.c`, and other programs of the
host change the same files; on a RAM disk or an image, RedSea reads and writes
blocks, those of an image through the cache and a file on a HOSTFS drive. `Load`
reads a module with these file functions and enters its names in the hash table
of the task, whose parent's table is searched after its own.

## 2. Modules

| module | stands for | state | notes |
|---|---|---|---|
| `PagePool` | what the allocator promises | memory given, blocks owned | abstract specification |
| `MemPag` | `MemPag.HC`, `BlkPool.HC`, `HeapCtrl.HC`, block half of `MAllocFree.HC` | `next` (all lists in one function from list heads), counters, `last_mergable` | one action per operation; implements `PagePool` |
| `Vfs` | `vfs.c` | `tree` (the host's files), `assignments` | `PHYSFS_*` is external |
| `HostFs` | `Cd`, `Name2DirClus`, `DirContextNew/Del`, `FileFind`, `FilesFind`, `Del` over `Vfs` | program counter, directory, context, and the locals of the functions that call each other | extends `Vfs` |
| `Tasks` | `Sched.HC`, `KTask.HC` | ring, flags, links | |
| `Jobs` | `Job.HC` | queues, jobs, stack of calls of each task | extends `Tasks` |
| `Loader` | `load_kernel.c`, `symtable.c`, `KLoad.HC`, `mainstatic.c` and what `bin2elf.py` links | stage, hash tables, slots, symbol list | patch tables are constants |
| `HostProcess` | `main.c`, `mainstatic.c`, `memory_map.c`, `loader.c`, `vsyscall.c`, thunks, `InitRuntime.HC` | function of `main`, areas, drives, status, FS and its copies, what the guest is inside of | extends `Loader`: the two are composed |
| `BlkDev` | `DskDrv.HC`, `DskBlkDev.HC`, `DskAddDev.HC`, `DskBlk.HC`, `DskCache.HC`, `DrvsRelease` in `TaskEnd` | ring, locks, mounted drives, cache, stack of calls of each task | |
| `RedSeaClus` | runs of clusters | none | constants and their assumption |
| `RedSeaSpace` | bitmap and free list: `RedSeaFreeLstBuild`, `RedSeaFreeClus`, `RedSeaAllocClus` | `space`, and what a client holds | the contract of a client; `RedSea` implements it |
| `RedSea` | `FileSysRedSea.HC`: write, delete, make directory | directories and contents of clusters, what each task is in the middle of | a step a lock |
| `MemPag_proofs`, `RedSeaSpace_proofs`, `RedSea_proofs`, `HostProcess_proofs`, `Jobs_proofs`, `BlkDev_proofs`, `HostFs_proofs` | | | theorems and their proofs; `HostProcess_proofs` has those of `Loader`, `RedSea_proofs` is an instance of `RedSeaSpace_proofs` |
| `SeqLemmas` | | | lemmas about the sequence operators the models use, cited by the proofs |
| `MC*` | instances for TLC | | |

Grain. In `MemPag` each operation is a step: the code holds the pool's lock with
interrupts off; only `HeapCtrlDel` takes the lock once per block. In `HostFs` a
system call is a step (STATCLUS and the STAT that follows are one: the pair finds
what the last call alone would have found). In `Tasks` and `Jobs` what a task
does between two `Yield`s is one step or a few; with one CPU nobody sees the
state between them. In `BlkDev` a step is what one function of the stack does
until it locks, calls or yields; the running task keeps the CPU until a `Yield`.
In `RedSea` a step is what is done under one lock of the drive: the locks
themselves are `BlkDev`'s. In `Loader` an entry of a patch table is a step, and in
`HostProcess` a step ends where the start may fail or FS changes.

`Mut<Op>_<Bug>` operators are the mutations named in `PROJECT.json`; no
specification uses them.

## 3. What the runs show

**`mempag_two_chunks`** (80 000 states): two heap controls, two runs of memory
that touch, four pages. Big and little `MAlloc`s, merges, `Free`s and deletions in
every order. No page is in two blocks (`BlksDisjoint`), none is lost
(`NoPagLost`), the counters of what is in use, of the pool and of each heap control,
are the numbers of pages they stand for (`UsedCounted`),
a merge never meets a freed block (`QueuesSound`), and each step is one of
`PagePool` or none (`ImplementsPagePool`). Four pages are enough for a split with a rest, a
merge across the border of the runs, and both kinds of free list; with two heap
controls one can be given what the other freed. Heap controls are symmetric. The
pool's `alloced_u8s`, what it was given, does not start at 0: `InitRuntime.HC:208` sets
it to the mapped memory ("coorect? incorrect? who knows?") before `BlkPoolAdd` adds to
it. The model starts it at `AllocedAtStart`, any number, and no property speaks of it.

**`mempag_classes`** (2 800 states): one heap control, eleven pages and a small table, so that
sizes fall into several classes of `free_pag_hash2`: nobody gets less than asked
for (`AllocEnough`). `HashSize`, `ExtraPags` and `NClass` are 3, 1 and 7 for 256,
16 and 55: what matters is that some requests are below, at and above the border,
and that the extra pages are less than the border.

**`mempag_hosted_boot`** (finding): the memory the hosted start-up hands over
overlaps.

**`hostfs_find`** (860 000 states): a task calls `Cd` and recursive `FilesFind` in
a tree of two directories, a name of which exists in both, while anybody creates
and removes files and directories between any two system calls. The list agrees
with the numbers (`EntriesAgree`), search and path walk are in the directory they
take themselves to be in (`OnItsWay`), what was there all the time is found
(`StableListed`), and numbers never change their meaning (`ClusStable`).
`MaxAssignments` is the number of spellings the instance has, so the table just
does not overflow; `MaxDepth` bounds only the length of the path the task builds
by calling `Cd`.

**`hostfs_del`** (139 000 states): `Del` of everything, of a name, and of a name on another drive,
with and without directories. It removes only what its mask names
(`DelOnlyMatching`), the task comes back to its drive and directory, or above if
that was removed (`CurDirRestored`), and every operation ends although the tree
changes under it (`Terminates`, under weak fairness of the task's own steps: a
system call returns and the task is scheduled again; nobody else is assumed to do
anything).

**`jobs_safety`** (561 000 states): Adam, a user's task and two that they start;
four jobs; stacks of up to four calls. Tasks ask Adam, ask and poll, pop up, kill each
other, exit and finish in every order. The ring is exactly the valid tasks and no
link leads out of it (`RingSound`), a job is in one place and not freed
(`JobOneOwner`), the master's pointer to it is good (`NoDangling`), and a
suspended master has somebody who will wake or kill it (`WillWake`).
`CHECK_DEADLOCK` is off because the hosted guest may really stop: when every task
waits, the idle task executes STI, which a process may not, and the program ends
(`mode = "idle"`).

**`jobs_liveness`** (7 200 states): three tasks, five jobs. The killed end
(`KilledDies`), queued jobs are served or die with their server (`JobsServed`).
Fairness: the CPU does not stop (`WF(Next)`), and the code of a job returns in the
end, at whatever depth of the stack (`SF` of `JobDone` for each task but the
user's). The scheduler's own order, the ring, gives every ready task its turn, so
nothing is assumed about it. A user's task may run for ever.

**`startup`** (121 000 states): either program from the first line of `main`. mmap may
refuse any page of low memory, the command line may ask for help, have errors, or
name drives in any way; then the kernel, a compiler and three modules import and
export each other's names, with two exports of one address, groups of several
uses, a main routine inside a group, heap globals with and without a name, and a
second export of names already bound; two tasks load them in every order while the
guest makes system calls, switches tasks, calls the host and runs into CLI. The
guest runs only in a process that is ready for it (`GuestIsReady`), under its own
task (`FsIsCurTask`). No use of a name is forgotten (`NoneForgotten`), each is
bound to its own name (`BoundByName`) and for good (`BoundForGood`). No absolute
address is relocated twice, by two readers of a patch table or by one after the linker,
and of what a task has loaded each is relocated (`RelocatedOnce`). That is not claimed
of the static program's modules: `bin2elf.py:148-151` ignores "nonsense relocations in
16-bit code" (`BigAddend16`), one of which is in the instance. A backtrace finds the
nearest symbol (`NearestSymbol`). Processes end, also when `sigaction` fails
(`CHECK_DEADLOCK FALSE`).

**`blkdev`** (380 000 states): three tasks, and either two of them share an image that the
third's directory holds, or two share a RAM disk (`MCUses`). They find, read one or
two blocks through a cache of one, mount one of two images (one is no RedSea
image), unmount, and kill each other anywhere, also while initialising. Who works
on a directory of the host, or on a mounted image that no more than two tasks use, has
it locked (`HeldAtWork`), what is read of a mounted image is
of it (`ReadsMounted`), a task that is gone holds no lock of a drive
(`DeadHoldNothing`), and a lock is granted to who waits for it (`LockGranted`).
Fairness: the program goes on (`WF(Next)`), and no task computes for ever without a
`Yield` (`SF(Wait)`), without which all other tasks would stop, as nothing preempts
them. No fairness is assumed of the locks: the ring gives them turn by turn. The
crash of the program is an action (`Crash`), hence `CHECK_DEADLOCK FALSE`.

**`blkdev_remount`** (finding): blocks of the image that was mounted before.

**`redsea`** (142 000 states): two tasks on a drive of six clusters, the bitmap's among
them: one makes a directory of one or two clusters, puts a file into it and removes it, both write the same
name in the root and in a directory, with one, two and no clusters, and remove them.
A directory has four slots in the model for eight, so that it grows. Writes are cut
in four, and a task may be killed between them; after a kill the free list is built
anew. The bitmap has what can be reached, is in hand, or was cut off
(`SpaceSound`); directories are what their readers take for granted (`DirsSound`);
a file has all of what one task wrote as that file (`FilesWhole`); and every step
is one a client of `RedSeaSpace` may take (`ImplementsSpace`). A full disk ends the
program (`Throw`), hence `CHECK_DEADLOCK FALSE`.

**`redsea_mkdir`** (finding): the last write of `MkDir` goes to a file of another
task.

### Known divergences

Beside the runs there are seven configurations that show where the code does not do
what a comment says of it, each by a violated property:

| cfg (module) | property | what happens |
|---|---|---|
| `mempag_larger` (`MCMemPag`) | `LargerBlockIsFound` | `MemPag.HC:48-49` "lets search for a freed larger size block": the search begins at `++i` (51) and passes over the smallest of the larger blocks; an allocation fails although a block fits |
| `hostfs_clus_zero` (`MCHostFs`) | `FoundInCurDir` | `vfs.c:13` reserves cluster 0 for "none"; `HostFsFileFind` (44-55) takes it for the root, so that `FileFind` in a removed directory finds the entry of the root |
| `hostfs_table_full` (`MCHostFs`) | `EntriesAgree` | `get_node_by_path` (`vfs.c:43-55`) does not check `MAX_ASSIGNMENTS` and writes behind the table; the number leads nowhere |
| `blkdev_reformat` (`MCBlkDev`) | `ExclusiveAccess` | `DskDrv.HC:2` "Make this task have exclusive access": `RedSeaFmt` unlocks a drive that its caller had locked (`FileSysRedSea.HC:148`) |
| `blkdev_deadlock` (`MCBlkDev`) | `NoDeadlock` | `DskDrv.HC:21` "Prevent deadlock": an image is valid (`DskAddDev.HC:48`) before it shares the lock of its drive (172); a task that mounts it and two that use it wait for each other |
| `blkdev_three_users` (`MCBlkDev`) | `HeldOnceMounted` | `DskDrv.HC:2` again, of images once they are mounted: one of three tasks that use an image initialises it anew (the drive is valid before its device is initialised, `DskAddDev.HC:48`), the mount of another fails and removes the drive under it (`DrvDel`, `DskDrv.HC:69-76`), and a second mount succeeds while it is still at work, without the lock |
| `startup_fs` (`MCHostProcess`) | `LibcUnderHostFs` | `loader.c:210` "past this point [...] we should not use glibc functions", `host.c:21` "FIXME: FS register handling": the thunks call the C library under the guest's FS |

### Bounds and restrictions

| bound | where | why it is enough |
|---|---|---|
| `NPags`, `HeapCtrl`, `Requests` | `MemPag` | see above; the theorems have none of them |
| `Places`, `MaxDepth` | `HostFs` | a name in two directories, one level of recursion and its way back |
| `MaxAssignments` | `HostFs` | not filled in the runs, filled in `hostfs_table_full.cfg` |
| `Job`, `Task` | `Jobs` | addresses; a `TaskExe` or `Spawn` without a free one does not happen. Dead tasks keep their address (jiffies stand still in the hosted guest, so `TaskKillDying` never frees them) |
| `MaxCalls` | `Jobs` | a job within a job within a job |
| `PopUpMasters` | `Jobs` | every task but Adam: `Kill` refuses Adam, so a pop-up of Adam that is killed leaves Adam suspended for ever |
| `Servers` | `Jobs` | only Adam, which is never killed, is asked with `JobResGet`, which would poll a freed job otherwise; see the hazards |
| each module loaded once | `Loader` | a second load of the same table is a third module with the same names |
| one address in an absolute entry | `Loader` | the readers relocate all addresses of an entry in one loop or skip them all; an entry of two is two entries |
| `PatchTables` | `Loader` | what the readers of a patch table take for granted about it |
| `Pages`, `CommandLines` | `HostProcess` | each area one page, with one above and one between that mmap can answer with; every way an argument can be wrong; the theorems have neither |
| `Uses` | `BlkDev` | who works on which drive is chosen at the start: two that share it and one that only runs, loads or kills |
| `Blks`, `CacheBlks` | `BlkDev` | one block less in the cache than there are, so that it is full |
| `MaxBlk`, `Ops`, `Slots` | `RedSea` | room for two directories, one that has grown, and a file too many |
| directories in the root only | `RedSea` | one level of a path that vanishes |

## 4. What is proved

### The allocator (`MemPag_proofs`)

For every number of pages, of heap controls, of classes, for all requests and all
runs of memory at start-up:

| theorem | property |
|---|---|
| `TypeCorrect` | `TypeOK` |
| `NoOverlap` | `BlksDisjoint` |
| `NothingLost` | `NoPagLost` |
| `FiledBySize` | `ListsBySize`: a free block is on a list its size belongs to |
| `EnoughPags` | `AllocEnough` |
| `QueuesAreSound` | `QueuesSound` |
| `Refinement` | `ImplementsPagePool` |
| `MemoryIsCounted` | `UsedCounted` |

Assumptions: `ChunksDisjoint`, that the runs of memory given at start-up do not
overlap (this is what the hosted start-up violates; each theorem names it);
`SizeAssumption`, that sizes and addresses are in range and `ExtraPags` is below
`HashSize`; and `BsrAssumption`, the facts about powers of two and the highest set
bit that need induction over numbers. TLC evaluates the last two in every run.

The argument. None of the properties is inductive alone. `BlksDisjoint` says
nothing of pages outside all blocks, from which a wrong merge could take;
`NoPagLost` alone would allow a page to be counted twice. The invariant `IInv`
says instead that the lists *tile* the pages given so far: they share no page
(`ListInv`), and cover exactly `GivenPags` (`Tiles`). Every operation is made of two
moves: taking a block off a list removes its pages from the account
(`RemoveTiles`), linking a block of unaccounted pages adds them
(`InsertTiles`); a split is `ShrinkTiles`, a merge two removals and one insertion
(`MergeTiles`). `AllocTiles` states what `MemPagAlloc` leaves behind and hands out,
and is used by both kinds of `MAlloc`. That a block is filed by its size is part
of `ListInv`, since `AllocEnough` needs it. `NoneOwnsNothing` says that a heap
control that does not exist has an empty queue. `QueuesSound` needs one more
invariant, `MergeTargets`: `last_mergable` is always a block of the queue that no
`Free` returns. The refinement follows step by step: what an allocation takes is
owned by nobody (`TakenUnowned`), because the tiling says that its pages were in a
free block only. For the counters the same fact, with the queues sharing no page
(`OwnersDisjoint`), turns a sum of sizes into the number of pages in a set:
`UsedCounted` compares counters with such numbers, a block taken adds its pages to
what its owner had (`CountedGrow`, merged or not), a block freed removes them
(`CountedShrink`).

### The clusters of a RedSea drive (`RedSeaSpace_proofs`)

For a drive of any size and any client that gives back only what it holds:
`SpaceIsSound`, that no cluster is in two runs, the set bits are those of the runs
handed out, and the free list, once it is built, has the clear bits, each in one
run. It rests on one theorem an operation: what `RedSeaFreeLstBuild` makes of any
bitmap is exactly its clear bits in runs that do not meet (`BuildIsClear`: the run
that a clear bit is in begins at the lowest and ends at the highest that is reached
without a gap, and each of these is the smallest of a set of numbers);
`RedSeaFreeClus` keeps list and bitmap in step whichever neighbour it joins
(`FreeClusKeeps`); `RedSeaAllocClus` hands out what was clear (`AllocClusKeeps`);
and what is given back under one lock, one run after the other in any order, is
all of it given back (`FreedAllKeeps`, by the number of runs). The only assumption is
`DriveAssumption`.

### Files and directories of a RedSea drive (`RedSea_proofs`)

For a drive of any size, any number of slots in a cluster, any tasks and whatever each of them may
do, with kills between any two locks:

| theorem | property | as long as |
|---|---|---|
| `DriveTypes` | `TypeOK` | directories are one's own (`OwnDirs`) |
| `DriveSpace` | `SpaceSound` | the same |
| `DriveDirs` | `DirsSound` | the same |
| `DriveFiles` | `FilesWhole` | the same |
| `DriveImplements` | `ImplementsSpace` | the same |

`OwnDirs` says of the operations what nothing in the code sees to: but for the
directory there is at first, which all may fill and nobody removes, the task that makes
a directory is the only one that works in it or removes it, and no file of the root is
called as a directory. It is a hypothesis of the theorems and not an assumption of the
model: `redsea_mkdir` shows what happens without it. TLC evaluates it for the operations
of `redsea` (`MCOpsAreOwn`). It leaves what is hard: tasks that write and remove the
same names in the root and in the first directory, both of which move as they grow.

The invariant looks at the drive through *claims*. A directory claims its run, an entry
of a file the clusters of the file, a task those it has allocated and not yet entered, a
cut-off run its own (`Claims`); `SpaceOk` says that no two claims meet and that the
bitmap has what is claimed and no more. None of the properties is inductive without it,
nor without

- `DirsOk`: each directory has a run and in its first cluster a record that fits the
  run (`RecOk`: entries of different names, a free slot for the end, directories in the
  root only, no run for an empty file);
- `MakersOk`: a directory whose record is still all zero is being made by its task, or
  that task was killed; so whoever works in a directory finds it made (`WorkerIs`, which
  is where `OwnDirs` is used);
- `FilesOk`, which is `FilesWhole`, and `StepOk`: what a task has written is still there
  when it enters it, and who makes a directory finds it in the root when it writes the
  "." of it.

The steps are cut into moves that each change claims in one way: `StayKeeps`,
`TakeKeeps` and `DropKeeps` (what a task has in hand), `WriteKeeps` and `FillKeeps` (its
clusters and no others), `RemoveKeeps`, `EnterKeeps` and `MoveKeeps` (a directory).
Replacing an entry is a removal and an entering, growth of a directory a move and an
entering; that the disk after both is the one the code leaves is `MovedAndEntered`.

For the refinement each move also says what becomes of the runs that are held
(`SameHeld`, `RemoveLess`, `TakeHeld`, `MoveTakes`). No two claims have the same run, so
a claim given up is a run given up (`HeldPass`), and the runs a removed directory cuts off
stay held. Every step leaves the space alone, gives back runs that were held, takes one
that was not, or forgets the list (`SpaceStep`), and each of these is a step of
`RedSeaSpace` (`StepOfSpace`).

Assumptions: those of the space, and `RedSeaAssumption`: a cluster has more than three
slots, and there is room for the boot block's directory and the first one.

### The process and its modules (`HostProcess_proofs`)

For every command line, every answer of mmap, any modules with any patch tables, and
every behaviour of the guest:

| theorem | property |
|---|---|
| `StartIsSound` | `GuestIsReady` |
| `FsIsKept` | `FsIsCurTask` |
| `TypeCorrect` | `ProcTypeOK` |
| `NothingIsForgotten` | `NoneForgotten` |
| `ImportsAreBoundByName` | `BoundByName` |
| `ModulesAreRelocatedOnce` | `RelocatedOnce` |
| `BacktracesNameExports` | `NearestSymbol` |
| `BindingsStay` | `BoundForGood` |

`GuestIsReady` speaks of the guest alone; what makes it inductive is what each stage
of the start leaves behind for the next ones: `Placed` (which areas are mapped when
`main` is in which function, all of them apart) and `Ready` (drives, the host's FS,
no exit status). One lemma a step shows that mmap's answer is where the code then
takes it to be: what was asked for was free, or it lies above, which
`init_memory_map` refuses. `FsIsKept` adds `FsInv`: the value that the dispatcher puts
back into FS is the guest's task, from the first system call of `_VKSTART64` on, or the
task a `SETFS` in progress names.

The loader's part is proved of `LoaderNext` and carried over by
`LoadingIsSound`, since every step of the process is one of the loader or leaves it
alone. `Base` says where a reader can be (only at the first entry of a group when it
chooses what to do with it, `AtBoundary`) and that the list of symbols descends
(`Sorted`). `Sound` is what `BoundByName`, `NoneForgotten` and `BoundForGood` need of
each other: an entry of a table that waits stands for a use that was read and is not
bound (`TableSound`), what was not read is bound to nothing, or to the host by the
static program (`Unread`, `Prelinked`), and what was read is bound or remembered
(`Remembered`). Every step that binds is cut to the same shape, a set of uses to
bind, entries that come and entries that go (`BindsWell`, `NotesWell`, `WakesWell`), and
`SoundStep` proves that shape once. `Relocs` says which absolute addresses have been
relocated, once each: those the linker was given, and those a reader has passed, which is
all of a module that is loaded; `LoadKernel` reads the kernel's table after `load_kernel`
without relocating. `Named` is that every
export read has its symbol, from which the sorted list gives `NearestSymbol`.

Assumptions: `Layout` (the program is linked to a place of its own), `NullIsNoStatus`,
and of the patch tables what their readers take for granted: `Constants`, `PatchTables`
(a group begins with a name; an entry's kind has its fields), `Addresses`, `Links`
(what the static program's linker bound is a function of the host or an export of the
kernel). TLC evaluates them in `startup`.

### Tasks and jobs (`Jobs_proofs`)

For any number of tasks and jobs and any depth of jobs within jobs:

| theorem | property |
|---|---|
| `TypeCorrect` | `TypeOK` |
| `RingIsSound` | `RingSound` |
| `JobHasOneOwner` | `JobOneOwner` |
| `JobsDoNotDangle` (`OnlyAdamServes`) | `NoDangling` |
| `SleepersAreWoken` (`OnlyAdamServes`) | `WillWake` |

`JobOneOwner` counts places; its inductive form `OneHolder` says that the three kinds
of places, queues of the waiting, queues of the done and stacks, have no job in common
and none twice, and that what is in one is allocated. `AskedOfServer` (a job in a queue
has the queue's task for server), `StacksSound` (what is below what on a stack),
`AdamSafe` and `PopUpIsChild` are what the ring and the ending of tasks need of it.

`MInv` is for those that wait. While a task is between `TaskExe` and the result, the job
is allocated, its own, not to be freed on completion, and its server is Adam or the
pop-up of the master (`Masters`); the call that waits is
the last of its stack (`AskedIsTop`); what is in a task's queue of the done was asked
by that task (`DoneIsMasters`); the running task is not suspended, nor are those that have
ended (`Sleepers`). All this holds where only Adam, whom
nobody can kill, is asked for results, and Adam does not pop up: `OnlyAdamServes`, a
hypothesis of the theorems and not an assumption of the model. Without it the code has
no such property: a task that polls `JobResGet` of a server that was killed reads a
job that was freed with it (`Job.HC:210`, among the hazards), and a pop-up of Adam's
that is killed leaves Adam asleep. All the callers in the kernel ask Adam or pop up.

### Drives and the cache (`BlkDev_proofs`)

For any number of tasks, drives and images, any size of the cache and runs of blocks of
any length, whatever the tasks work on:

| theorem | property |
|---|---|
| `TypeCorrect` | `TypeOK` |
| `MountedImagesAreRead` | `ReadsMounted` |
| `TheDeadHoldNothing` | `DeadHoldNothing` |
| `FormattedDisksAreHeld` | `HeldAtWork`, of the directories of the host and of a RAM disk that is being formatted |

`ReadsMounted` is about the moment BlkRead hands over what it read, and everything
before it must be known to be in order. `IInv` has

- `CodeInv`: the stack of a task is one the code can have made: which call stands on
  which other, at which stage (`Calls`), of which kind of drive (`FrameOK`); so that a
  mount is `BlkDevAdd`, `BlkDevInit` and at most one thing after the other on top of
  them, and a buffer has the blocks asked for when it is handed over;
- `MountInv`: the progress of each mount. It is the only one of its drive, and begins
  where the device is not initialised; from `opened` on the file that is open is the
  one the drive was mounted with, and when `DskCacheInvalidate` is through, the cache
  has no other's blocks of the letter. The latter stays: whoever uses the drive before
  the mount has ended reads the same file by then (`KeepsOpen`). So both hold when
  `BlkDevAdd` forwards the lock, which is how the property tells a mounted image;
- `HandInv`: what was read is handed over before another task has its turn or can kill
  the reader; therefore nobody unmounts in between;
- `HostInv`, the lock of a directory of the host is had from `work` to `unlock_dv`:
  only its owner gives it back, and no nested call is about a directory that is
  already locked;
- `LockInv` (locks are forwarded one step, from an image to its directory, so that
  `Root` of `Root` is `Root`), `RingInv`, `DeviceInv`, and `DeadHoldNothing` itself: what
  a task can still hold when `TaskEnd` removes it is not the lock of a mounted drive,
  nor one forwarded from a mounted drive, as those are mounted too.

`RamInv` is for RAM disks, on top of `IInv`. A task that formats one has it locked from
`work` to the end, although `RedSeaFmt` gives the CPU away between the blocks it writes
and calls `RedSeaInit`, which reads through `BlkRead` and so may initialise the device
anew. What its calls rely on is that they find the lock taken, so that they do not unlock
it (`UnderFmt`), and that the boot block is there, which only a task that has the lock
takes away, so that none of them formats a second time and unlocks at its end (`RamLock`);
and that the drive stays: no mount of a RAM disk fails, and nobody unmounts one in use
(`RamFrame`).

Each action has a lemma `<Action>Keeps`; those on stacks go through one of `BecomeStep`,
`CallStep`, `ReturnStep` and their counterparts of `BlkDevInit`, those that mount or
unmount through `DriveStep`, those of a dying task through `QuietKeeps`.
`DskCacheAddIs` and `DskCacheInvalidate2Is` say what the two loops over the cache do.
The assumption is `DevicesAssumption`: an image lies on a directory of the host, block
numbers are naturals with 0 among them, the cache has at least one block.

### Files of the host (`HostFs_proofs`)

For any tree, any number of drives, any arguments of the operations and anything that
others do to the files between two system calls:

| theorem | property | as long as |
|---|---|---|
| `TypeCorrect` | `TypeOK` | |
| `OnlyMatchesGo` | `DelOnlyMatching` | |
| `EntriesLeadBack` | `EntriesAgree` | no table has run over (`TablesHold`) |
| `SearchIsOnItsWay` | `OnItsWay` | the same |
| `StableIsListed` | `StableListed` | the same |
| `TaskComesBack` | `CurDirRestored` | no table ever runs over |
| `NumbersAreForGood` | `ClusStable` | the same |
| `RoomEnough` | no table ever runs over | it has two elements for every place |
| `LargeTablesAreSafe` | the five above | the same |

`TablesHold` says that no path was written behind the table of its drive, which
`get_node_by_path` does when the table is full. It is no assumption of the model:
`hostfs_table_full.cfg` shows what happens without it. `RoomEnough` says when it cannot
happen. A place has two spellings at most, with a slash before it and without
(`SpelledAlike`); no spelling is in a table twice (`Distinct`); so the elements of a
table that is full and one more spelling would be more than there are (a pigeon hole,
`FewSpellings`). The code's 10000 elements are enough while the names that ever exist on
a drive are no more than 5000. The bound is not sharp: a task that never spells the
places of the root without a slash needs one element for each of them, as in
`hostfs_find`.

The invariant has a part that needs no condition, `OwnInv`, and one under `TablesHold`,
`Numbered`. `OwnInv` follows the control: who has called `Cd` with what still to go
(`CdSound`), in what state each operation is where (`Control`), that the directories a
search has open are each in the one before (`FramesSound`), that a directory of the
host stays while something is in it (`TreeSound`), and that what is in a table is the
spelling of a place, at the index its number says (`TableSound`). `Numbered` is

- `WalkSound`: `Name2DirClus` has a number of the directory that it has come to, or has
  lost its way, and then nothing that stays is below the directory it looks for;
- `ResSound`: each entry's number is in the table, with the entry's path;
- `RestoreSound`: the `Cd` back of `DirContextDel` does not fail while the directory is
  there all the time;
- `SearchCovers`: each place that has been there all the time and that the search wants
  is in the list, or ahead of it: a name still to be read of one of the open directories
  leads to it, or the `Cd` in progress does (`Ahead`). At the end nothing is ahead, which
  is `StableListed`.

`Anchored` carries all that: a place that stays keeps the directories above it in place,
since the host removes a directory only when it is empty, so every lookup on the way to
it succeeds (`OnTheWay`) whatever else comes and goes. `LookupIs` says what one lookup
finds and records, `RecordKeeps` that a table only gains elements; each action has a
lemma `<Action>Keeps`. A step of anybody asks `vfs.c` for one path at most, which leads
to a place (`StepRecords`): this is all that `NumbersAreForGood` and `RoomEnough` use of
the actions.

Assumptions: the sizes are positive; a place is a sequence of names that are no
directions (`.`, `..`, `~` or empty), and what it is in is a place (`PlacesAssumption`);
arguments are sequences of such names, `..` and `*` (`ArgsAssumption`); `NULL` is none of
the other values. TLC evaluates them in the runs of `MCHostFs`.

### Only model-checked

- `HeldAtWork` of images: it holds of two users and not of three (`blkdev_three_users`),
  and of two because of the order in which they have their turns: the one that waits for
  the lock has had its turn before the one that mounts has another. What holds of any
  number of tasks and in any order is proved.
- `RedSea` where a task removes a directory that another makes or works in: there
  `FilesWhole` does not hold (`redsea_mkdir`).
- All liveness (`Terminates`, `KilledDies`, `JobsServed`, `LockGranted`): ENABLED and
  fairness are beyond this prover.

## 5. Not modelled, and why

- ATA, ATAPI, partitions, ports, interrupts, keyboard and mouse: a hosted process
  has none; the first port instruction ends it.
- Several cores: never started.
- FAT32: the hosted program mounts no such drive.
- The libraries (text, numbers, dates, compression, sorting): no shared state, so a
  unit test reaches them; some are candidates for pure operators.
- Contents of files on the host: no property of the directory layer depends on
  them; on RedSea a cluster has the file's name and who wrote it.
- `CFile`, `TaskText`, `TaskMsg` and messages, the chunks inside a block of the heap,
  lazily bound imports: not yet; their hazards are listed in `PROJECT.json`.
- The large headers (`KernelA.HH`, ...) are declarations: the model maps the
  classes whose fields it has.
- Overflow of addresses and counters: the guest's are 64 bits wide.

## 6. Plan

Done: the page pool, `Vfs` and `HostFs`, `Tasks` and `Jobs`, all with proofs,
`Loader` and `HostProcess` with proofs, `BlkDev` with the cache and proofs,
`RedSeaSpace` and `RedSea` with proofs. Each safety property that a run checks is a
theorem, but for the part of `HeldAtWork` about images, which is not so of more than two
users.

Next, in this order:

1. What is left of `SpaceSound` and `DirsSound` of `RedSea` when directories are
   shared.
2. `HeldAtWork` of an image with two users: an invariant about the order of turns.
3. `CFile`: shared images with their reference count, on top of `BlkDev`.
4. `Messages`: `TaskText`, `TaskMsg`, input filters, `ScanMsg` and the FIFOs, on top
   of `Tasks`.
5. `Heap`: the chunks inside a block over `PagePool`; `FileRead` and `FileWrite` of
   HOSTFS.
