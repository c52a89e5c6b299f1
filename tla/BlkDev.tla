------------------------------- MODULE BlkDev -------------------------------
(***************************************************************************)
(* Drives and block devices (BlkDev/DskDrv.HC, DskBlkDev.HC, DskAddDev.HC, *)
(* DskBlk.HC), the disk cache (DskCache.HC) and how tasks that use them    *)
(* wait for one another, are killed, mount images and take them away.      *)
(*                                                                         *)
(* A task runs until it calls Yield; then the next task of the ring does   *)
(* (Sched.HC).  LOCKED and owning_task change together, so that an owner   *)
(* stands for both, and SEMA_DSK_CACHE, held where nothing yields, is left *)
(* out.  What a task is in the middle of is a stack of calls: Find is any  *)
(* operation that locks a drive, reads a block of it and unlocks what it   *)
(* locked (Name2DirClus, RedSeaFileFind, RedSeaValidate without the lock); *)
(* the others have the code's names.                                       *)
(*                                                                         *)
(* The devices the hosted program has: the two directories of the host, a  *)
(* RAM disk, and images, files on a HOSTFS drive opened for reading.  Each *)
(* has one drive, so that a drive stands for both.  Of what an image holds *)
(* a block says which file it is of.  Not modelled: ATA and ATAPI (port    *)
(* I/O ends the process), partitions, blocks outside the drive.            *)
(*                                                                         *)
(* An operator Mut<Op>_<Bug> is <Op> with a bug it must not have, used to  *)
(* test that the properties notice.                                        *)
(***************************************************************************)
EXTENDS Integers, Sequences, SequencesExt, FiniteSets, FiniteSetsExt

CONSTANTS
  Task, Adam,        \* the tasks at first; the first of the ring, never killed
  Drv, Type,         \* the drive letters; "RAM", "ISO" (an image), "HOSTFS"
  FileDrv,           \* of an image: the drive its file is on
  Files, IsRedSea,   \* the files an image may be in; those that are RedSea images
  Uses,              \* what the tasks may work on: of each task, drives
  Blks,              \* the numbers of the blocks that are read
  CacheBlks,         \* how many blocks the cache has
  NULL

ASSUME DevicesAssumption ==
  /\ Type \in [Drv -> {"RAM", "ISO", "HOSTFS"}]
  /\ FileDrv \in [Drv -> Drv \cup {NULL}]
  /\ \A d \in Drv : IF Type[d] = "ISO" THEN FileDrv[d] \in Drv /\ Type[FileDrv[d]] = "HOSTFS"
                                      ELSE FileDrv[d] = NULL
  /\ NULL \notin Task \cup Drv \cup Files /\ Adam \in Task /\ IsRedSea \subseteq Files
  /\ IsFiniteSet(Task) /\ Uses \subseteq [Task -> SUBSET Drv]
  /\ Blks \subseteq Nat /\ 0 \in Blks /\ CacheBlks \in Nat \ {0}

VARIABLES
  uses,       \* one of Uses, for good
  Fs,         \* the running task, or NULL once the program has crashed
  ring,       \* the tasks in the order of next_task
  killed,     \* TASKf_KILL_TASK
  mounted,    \* the drives with DRV_SIGNATURE_VAL
  bd_owner, dv_owner,
  lock_fwding,
  flags,      \* the devices with BDF_INITIALIZED
  name,       \* file_dsk_name
  file_dsk,   \* the file that is open, or NULL
  boot,       \* the RAM disks that have a boot block
  root,       \* the file whose boot block RedSeaInit has read, of each image
  cache,      \* the cached blocks, next to be reused first
  code        \* the calls each task is in, innermost last

tasks == <<uses, Fs, ring, killed>>
locks == <<bd_owner, dv_owner, lock_fwding>>
devices == <<mounted, flags, name, file_dsk, boot, root>>
vars == <<tasks, locks, devices, cache, code>>

Cached(dv) == Type[dv] = "ISO"   \* BDF_READ_CACHE, of the devices with blocks

\* The device whose lock is taken: an image uses that of the drive it lies on.
Root(dv) == IF lock_fwding[dv] # NULL THEN lock_fwding[dv] ELSE dv

NoBuf == [b \in {} |-> NULL]
Frame(op, dv, at, blks) ==
  [op |-> op, dv |-> dv, at |-> at, blks |-> blks, buf |-> NoBuf, ok |-> TRUE, unlock |-> FALSE]
Find(dv) == Frame("Find", dv, "lock_bd", {0})
BlkRead(dv, blks) == Frame("BlkRead", dv, "lock_bd", blks)
RedSeaInit(dv) == Frame("RedSeaInit", dv, "lock_bd", {0})
RedSeaFmt(dv) == Frame("RedSeaFmt", dv, "lock_bd", {})
DskCacheInvalidate(dv) == Frame("DskCacheInvalidate", dv, "lock_bd", {})
BlkDevInit(dv) == Frame("BlkDevInit", dv, "start", {})
BlkDevAdd(dv) == Frame("BlkDevAdd", dv, "added", {})

EmptyBlk == [dv |-> NULL, blk |-> 0, body |-> NULL]

\* After BlkDevsInitHostFS; a RAM disk may lie where it lay before, formatted.
Init ==
  /\ uses \in Uses
  /\ ring \in {s \in [1 .. Cardinality(Task) -> Task] : ToSet(s) = Task /\ s[1] = Adam}
  /\ Fs = Adam
  /\ killed = {}
  /\ mounted = {d \in Drv : Type[d] = "HOSTFS"}
  /\ bd_owner = [d \in Drv |-> NULL] /\ dv_owner = bd_owner /\ lock_fwding = bd_owner
  /\ flags = {}
  /\ name = bd_owner /\ file_dsk = bd_owner /\ root = bd_owner
  /\ boot \in SUBSET {d \in Drv : Type[d] = "RAM"}
  /\ cache = [i \in 1 .. CacheBlks |-> EmptyBlk]
  /\ code = [t \in Task |-> <<>>]

-----------------------------------------------------------------------------
(***************************************************************************)
(* The running task, its calls, and Yield.                                 *)
(***************************************************************************)
PlaceIn(r, t) == CHOOSE i \in DOMAIN r : r[i] = t
NextIn(r, t) == r[(PlaceIn(r, t) % Len(r)) + 1]
Yield == Fs' = NextIn(ring, Fs)

Alive == Fs # NULL /\ Fs \notin killed
Idle == Alive /\ code[Fs] = <<>>
Top == Last(code[Fs])
At(ops, at) == Alive /\ code[Fs] # <<>> /\ Top.op \in ops /\ Top.at = at

Become(frame) == code' = [code EXCEPT ![Fs] = Append(Front(@), frame)]
GoTo(at) == Become([Top EXCEPT !.at = at])
CallThen(frame, at) ==
  code' = [code EXCEPT ![Fs] = Front(@) \o <<[Top EXCEPT !.at = at], frame>>]

\* What was read, and whether the call succeeded, goes to the caller.
ReturnWith(ok) ==
  code' = [code EXCEPT ![Fs] =
    IF Len(@) = 1 THEN <<>>
    ELSE LET caller == @[Len(@) - 1] IN
         Append(SubSeq(@, 1, Len(@) - 2), [caller EXCEPT !.buf = Top.buf, !.ok = ok])]
Return == ReturnWith(TRUE)

\* An idle task uses a drive that Let2Drv finds, changes to it (Drv calls
\* BlkDevInit without the lock), or waits.
Runs == {x .. y : x \in Blks, y \in Blks} \ {{}}
Start ==
  /\ Idle
  /\ \E dv \in uses[Fs] \cap mounted : \E frame \in
       {Find(dv)} \cup (IF Type[dv] = "HOSTFS" THEN {} ELSE
          {BlkDevInit(dv)} \cup (IF Cached(dv) THEN {BlkRead(dv, r) : r \in Runs} ELSE {})) :
         code' = [code EXCEPT ![Fs] = <<frame>>]
  /\ UNCHANGED <<tasks, locks, devices, cache>>

Wait ==
  /\ Idle /\ Yield
  /\ UNCHANGED <<uses, ring, killed, locks, devices, cache, code>>

-----------------------------------------------------------------------------
(***************************************************************************)
(* DrvLock and DrvUnlock.                                                  *)
(***************************************************************************)
Locking == {"Find", "BlkRead", "RedSeaInit", "RedSeaFmt", "DskCacheInvalidate"}
Body(op) == IF op \in {"BlkRead", "DskCacheInvalidate"} THEN "init" ELSE "work"

Free(owner) == owner \in {NULL, Fs}

LockBlkDev ==
  /\ At(Locking, "lock_bd")
  /\ IF Free(bd_owner[Root(Top.dv)])
     THEN /\ bd_owner' = [bd_owner EXCEPT ![Root(Top.dv)] = Fs]
          /\ GoTo("lock_dv") /\ UNCHANGED Fs
     ELSE Yield /\ UNCHANGED <<bd_owner, code>>
  /\ UNCHANGED <<uses, ring, killed, dv_owner, lock_fwding, devices, cache>>

LockDrv ==
  /\ At(Locking, "lock_dv")
  /\ IF Free(dv_owner[Top.dv])
     THEN /\ dv_owner' = [dv_owner EXCEPT ![Top.dv] = Fs]
          /\ Become([Top EXCEPT !.at = Body(Top.op), !.unlock = (dv_owner[Top.dv] = NULL)])
          /\ UNCHANGED Fs
     ELSE Yield /\ UNCHANGED <<dv_owner, code>>
  /\ UNCHANGED <<uses, ring, killed, bd_owner, lock_fwding, devices, cache>>

\* Most callers unlock if they locked; RedSeaFmt always does.
MutUnlocks_Always(frame) == dv_owner[frame.dv] = Fs
MutUnlocks_Never(frame) == FALSE
Unlocks(frame) == dv_owner[frame.dv] = Fs /\ (frame.unlock \/ frame.op = "RedSeaFmt")

\* The device goes first, and both times the next task has its turn.
UnlockBlkDev ==
  /\ At(Locking, "unlock")
  /\ IF ~Unlocks(Top) THEN Return /\ UNCHANGED <<Fs, bd_owner>>
     ELSE /\ GoTo("unlock_dv")
          /\ IF bd_owner[Root(Top.dv)] = Fs
             THEN bd_owner' = [bd_owner EXCEPT ![Root(Top.dv)] = NULL] /\ Yield
             ELSE UNCHANGED <<Fs, bd_owner>>
  /\ UNCHANGED <<uses, ring, killed, dv_owner, lock_fwding, devices, cache>>

UnlockDrv ==
  /\ At(Locking, "unlock_dv")
  /\ dv_owner' = [dv_owner EXCEPT ![Top.dv] = NULL]
  /\ Return /\ Yield
  /\ UNCHANGED <<uses, ring, killed, bd_owner, lock_fwding, devices, cache>>

-----------------------------------------------------------------------------
(***************************************************************************)
(* The disk cache.                                                         *)
(***************************************************************************)
InCache(dv, blk) == {i \in DOMAIN cache : cache[i].dv = dv /\ cache[i].blk = blk}

\* One block: in the place it has, or else in the place of the oldest; either
\* way it is now the youngest.
Add1(c, entry) ==
  LET has == {i \in DOMAIN c : c[i].dv = entry.dv /\ c[i].blk = entry.blk}
  IN  Append(RemoveAt(c, IF has = {} THEN 1 ELSE Min(has)), entry)

\* The blocks from the first to the last of blks, in this order.
DskCacheAdd(dv, body, blks) ==
  LET added[b \in blks] ==
        Add1(IF b - 1 \in blks THEN added[b - 1] ELSE cache, [dv |-> dv, blk |-> b, body |-> body])
  IN  IF blks = {} THEN cache ELSE added[Max(blks)]

MutDskCacheInvalidate2_Nothing(dv) == cache
MutDskCacheInvalidate2_Loses(dv) == SelectSeq(cache, LAMBDA c : c.dv # dv)
\* From the youngest to the oldest: what is the drive's becomes empty, and the youngest.
DskCacheInvalidate2(dv) ==
  LET left[i \in 1 .. Len(cache) + 1] ==
        IF i > Len(cache) THEN cache
        ELSE IF left[i + 1][i].dv = dv THEN Append(RemoveAt(left[i + 1], i), EmptyBlk)
        ELSE left[i + 1]
  IN  left[1]

\* RCache: leading and trailing blocks come from the cache; what lies between
\* the first and the last that it does not have is left to read.
LeftToRead(dv, blks) ==
  LET missing == {b \in blks : InCache(dv, b) = {}}
  IN  IF missing = {} THEN {} ELSE Min(missing) .. Max(missing)
FromCache(dv, b) == cache[Min(InCache(dv, b))].body

-----------------------------------------------------------------------------
(***************************************************************************)
(* BlkRead, DskCacheInvalidate, and operations of a file system.           *)
(***************************************************************************)
CallInit ==
  /\ At({"BlkRead", "DskCacheInvalidate"}, "init")
  /\ CallThen(BlkDevInit(Top.dv), "work")
  /\ UNCHANGED <<tasks, locks, devices, cache>>

\* FBlkRead of a file that is not open ends the program.
Left == IF Cached(Top.dv) THEN LeftToRead(Top.dv, Top.blks) ELSE {}
Crash ==
  /\ At({"BlkRead"}, "work") /\ Left # {} /\ file_dsk[Top.dv] = NULL
  /\ Fs' = NULL
  /\ UNCHANGED <<uses, ring, killed, locks, devices, cache, code>>

Read ==
  /\ At({"BlkRead"}, "work") /\ (Left # {} => file_dsk[Top.dv] # NULL)
  /\ cache' = DskCacheAdd(Top.dv, file_dsk[Top.dv], Left)
  /\ Become([Top EXCEPT !.at = "unlock", !.buf =
       IF Cached(Top.dv)
       THEN [b \in Top.blks |-> IF b \in Left THEN file_dsk[Top.dv] ELSE FromCache(Top.dv, b)]
       ELSE NoBuf])
  /\ UNCHANGED <<tasks, locks, devices>>

Invalidate ==
  /\ At({"DskCacheInvalidate"}, "work")
  /\ cache' = IF Cached(Top.dv) THEN DskCacheInvalidate2(Top.dv) ELSE cache
  /\ GoTo("unlock")
  /\ UNCHANGED <<tasks, locks, devices>>

FsReads ==
  /\ At({"Find", "RedSeaInit"}, "work")
  /\ IF Type[Top.dv] = "HOSTFS" THEN GoTo("unlock")
     ELSE CallThen(BlkRead(Top.dv, {0}), IF Top.op = "Find" THEN "unlock" ELSE "read")
  /\ UNCHANGED <<tasks, locks, devices, cache>>

\* dv->root_clus, data_area and size are those of the boot block that was read.
TakeRoot ==
  /\ At({"RedSeaInit"}, "read")
  /\ root' = IF Cached(Top.dv) THEN [root EXCEPT ![Top.dv] = Top.buf[0]] ELSE root
  /\ GoTo("unlock")
  /\ UNCHANGED <<tasks, locks, mounted, flags, name, file_dsk, boot, cache>>

\* BlkWriteZero yields after it has written, and the drive is still locked.
FmtZero ==
  /\ At({"RedSeaFmt"}, "work")
  /\ boot' = boot \ {Top.dv} /\ GoTo("zeroed") /\ Yield
  /\ UNCHANGED <<uses, ring, killed, locks, mounted, flags, name, file_dsk, root, cache>>

FmtBoot ==
  /\ At({"RedSeaFmt"}, "zeroed")
  /\ boot' = boot \cup {Top.dv} /\ CallThen(RedSeaInit(Top.dv), "unlock")
  /\ UNCHANGED <<tasks, locks, mounted, flags, name, file_dsk, root, cache>>

-----------------------------------------------------------------------------
(***************************************************************************)
(* BlkDevInit: when a device is mounted, and at its next use after a task  *)
(* that had it locked was killed.                                          *)
(***************************************************************************)
InitStart ==
  /\ At({"BlkDevInit"}, "start")
  /\ IF Top.dv \in flags THEN Return ELSE GoTo(Type[Top.dv])
  /\ flags' = flags \cup {Top.dv}
  /\ UNCHANGED <<tasks, locks, mounted, name, file_dsk, boot, root, cache>>

\* A RAM disk: RedSeaValidate, then RedSeaInit or RedSeaFmt.
InitRAM ==
  /\ \/ At({"BlkDevInit"}, "RAM") /\ CallThen(BlkRead(Top.dv, {0}), "validate_ram")
     \/ At({"BlkDevInit"}, "validate_ram")
        /\ CallThen(IF Top.dv \in boot THEN RedSeaInit(Top.dv) ELSE RedSeaFmt(Top.dv), "end")
  /\ UNCHANGED <<tasks, locks, devices, cache>>

\* An image: FileFind and FOpen look its file up on the drive that has it, which
\* may meanwhile be gone from there.
InitISO ==
  /\ \/ At({"BlkDevInit"}, "ISO")
        /\ CallThen(Find(FileDrv[Top.dv]), "found") /\ UNCHANGED file_dsk
     \/ /\ At({"BlkDevInit"}, "found") /\ UNCHANGED file_dsk
        /\ ReturnWith(FALSE) \/ CallThen(Find(FileDrv[Top.dv]), "opened")
     \/ /\ At({"BlkDevInit"}, "opened")
        /\ file_dsk' = [file_dsk EXCEPT ![Top.dv] = name[Top.dv]]
        /\ CallThen(BlkRead(Top.dv, {0}), "validate")
     \/ /\ At({"BlkDevInit"}, "validate") /\ UNCHANGED file_dsk
        /\ IF Top.buf[0] \in IsRedSea
           THEN CallThen(RedSeaInit(Top.dv), "drop") ELSE ReturnWith(FALSE)
     \/ /\ At({"BlkDevInit"}, "drop") /\ UNCHANGED file_dsk
        /\ CallThen(DskCacheInvalidate(Top.dv), "end")
  /\ UNCHANGED <<tasks, locks, mounted, flags, name, boot, root, cache>>

InitEnd ==
  /\ At({"BlkDevInit"}, "end") /\ Return
  /\ UNCHANGED <<tasks, locks, devices, cache>>

-----------------------------------------------------------------------------
(***************************************************************************)
(* Mounting and unmounting.                                                *)
(***************************************************************************)
\* What is left of a drive and its device: DrvMakeFreeSlot, BlkDevNextFreeSlot,
\* DrvDel and BlkDevDel clear them, and not what the cache has of the drive.
Cleared(dv) ==
  /\ flags' = flags \ {dv}
  /\ file_dsk' = [file_dsk EXCEPT ![dv] = NULL] /\ root' = [root EXCEPT ![dv] = NULL]
  /\ bd_owner' = [bd_owner EXCEPT ![dv] = NULL] /\ dv_owner' = [dv_owner EXCEPT ![dv] = NULL]

\* BlkDevAdd makes the drive valid, has its device initialised, and only then
\* lets it share the lock of the other.
Mount ==
  /\ Idle
  /\ \E dv \in uses[Fs] \ mounted :
       /\ \E f \in IF Type[dv] = "ISO" THEN Files ELSE {NULL} : name' = [name EXCEPT ![dv] = f]
       /\ Cleared(dv) /\ lock_fwding' = [lock_fwding EXCEPT ![dv] = NULL]
       /\ mounted' = mounted \cup {dv}
       /\ code' = [code EXCEPT ![Fs] = <<BlkDevAdd(dv), BlkDevInit(dv)>>]
  /\ UNCHANGED <<tasks, boot, cache>>

MountEnd ==
  /\ At({"BlkDevAdd"}, "added") /\ Return
  /\ IF Top.ok
     THEN /\ lock_fwding' = [lock_fwding EXCEPT ![Top.dv] = FileDrv[Top.dv]]
          /\ UNCHANGED <<bd_owner, dv_owner, devices>>
     ELSE /\ Cleared(Top.dv) /\ mounted' = mounted \ {Top.dv}
          /\ UNCHANGED <<lock_fwding, name, boot>>
  /\ UNCHANGED <<tasks, cache>>

\* BlkDevDel, of an image or RAM disk that no task is using.
InUse(dv) == \E t \in ToSet(ring) : \E i \in DOMAIN code[t] : code[t][i].dv = dv
Unmount ==
  /\ Idle
  /\ \E dv \in uses[Fs] \cap mounted :
       /\ Type[dv] # "HOSTFS" /\ ~InUse(dv)
       /\ Cleared(dv) /\ mounted' = mounted \ {dv}
       /\ lock_fwding' = [lock_fwding EXCEPT ![dv] = NULL]
       /\ name' = [name EXCEPT ![dv] = NULL]
  /\ UNCHANGED <<tasks, boot, cache, code>>

-----------------------------------------------------------------------------
(***************************************************************************)
(* Kill, and what the scheduler does with a task that is killed: TaskEnd,  *)
(* anew each time it is the task's turn, as DrvUnlock and BlkDevUnlock     *)
(* yield and a killed task does not get back to where it was.              *)
(***************************************************************************)
Kill ==
  /\ Idle
  /\ \E t \in ToSet(ring) \ ({Fs, Adam} \cup killed) : killed' = killed \cup {t}
  /\ UNCHANGED <<uses, Fs, ring, locks, devices, cache, code>>

Dying == Fs \in killed
MutOwned_None == {}
Owned == {d \in mounted : dv_owner[d] = Fs}
OwnedBds == {d \in mounted : bd_owner[d] = Fs /\ bd_owner[Root(d)] = Fs}

Reset(dv) == flags \ {dv}

\* DrvUnlock(dv,TRUE): the device, and at the next turn the drive.
DrvsRelease ==
  /\ Dying /\ \E dv \in Owned :
       IF bd_owner[Root(dv)] = Fs
       THEN /\ bd_owner' = [bd_owner EXCEPT ![Root(dv)] = NULL]
            /\ flags' = Reset(Root(dv)) /\ UNCHANGED dv_owner
       ELSE dv_owner' = [dv_owner EXCEPT ![dv] = NULL] /\ UNCHANGED <<bd_owner, flags>>
  /\ Yield
  /\ UNCHANGED <<uses, ring, killed, lock_fwding, mounted, name, file_dsk, boot, root, cache, code>>

BlkDevsRelease ==
  /\ Dying /\ Owned = {} /\ \E b \in OwnedBds :
       bd_owner' = [bd_owner EXCEPT ![Root(b)] = NULL] /\ flags' = Reset(Root(b))
  /\ Yield
  /\ UNCHANGED <<uses, ring, killed, dv_owner, lock_fwding, mounted, name, file_dsk, boot, root,
                 cache, code>>

TaskEnd ==
  /\ Dying /\ Owned = {} /\ OwnedBds = {}
  /\ ring' = RemoveAt(ring, PlaceIn(ring, Fs))
  /\ code' = [code EXCEPT ![Fs] = <<>>]
  /\ Fs' = NextIn(ring, Fs)
  /\ UNCHANGED <<uses, killed, locks, devices, cache>>

Next ==
  \/ Start \/ Wait \/ LockBlkDev \/ LockDrv \/ UnlockBlkDev \/ UnlockDrv
  \/ CallInit \/ Crash \/ Read \/ Invalidate \/ FsReads \/ TakeRoot \/ FmtZero \/ FmtBoot
  \/ InitStart \/ InitRAM \/ InitISO \/ InitEnd \/ Mount \/ MountEnd \/ Unmount
  \/ Kill \/ DrvsRelease \/ BlkDevsRelease \/ TaskEnd

\* The program goes on, and no task goes on for ever without a Yield: all others
\* would stop.
Spec == Init /\ [][Next]_vars /\ WF_vars(Next) /\ SF_vars(Wait)

-----------------------------------------------------------------------------
(***************************************************************************)
(* Properties.                                                             *)
(***************************************************************************)
\* Types, and the operations' stages.
TypeOK ==
  /\ Fs \in Task \cup {NULL} /\ killed \subseteq Task \ {Adam}
  /\ ToSet(ring) \subseteq Task /\ (Fs # NULL => Fs \in ToSet(ring))
  /\ {bd_owner, dv_owner} \subseteq [Drv -> Task \cup {NULL}]
  /\ lock_fwding \in [Drv -> Drv \cup {NULL}]
  /\ mounted \cup flags \cup boot \subseteq Drv
  /\ {name, file_dsk, root} \subseteq [Drv -> Files \cup {NULL}]
  /\ Len(cache) = CacheBlks
  /\ \A t \in Task : \A i \in DOMAIN code[t] : code[t][i].dv \in Drv

\* "Make this task have exclusive access to drv & BlkDev" (DskDrv.HC): a task that
\* has locked a drive and is at work on it still has it, whatever the calls it
\* made have locked and unlocked.
AtWork == {"init", "work", "read", "zeroed", "unlock"}
WorksOn(t) == {f \in ToSet(code[t]) : f.op \in Locking /\ f.at \in AtWork}
ExclusiveAccess ==
  \A t \in ToSet(ring) \ killed : \A f \in WorksOn(t) : dv_owner[f.dv] = t

\* It is so of a directory of the host, of an image once it is mounted, and of a RAM
\* disk while it is being formatted.  The others: a mount that fails removes the
\* drive from under a task that uses it already, and RedSeaFmt takes the lock of the
\* operation that found a RAM disk half formatted, the task that did it killed.
\* And of three tasks that work on an image one may initialise it anew while the mount
\* of another fails and a second one succeeds: HeldOnceMounted is not so of these.
Mounted(dv) == Type[dv] = "HOSTFS" \/ lock_fwding[dv] # NULL
SharedByTwo(dv) == Cardinality({t \in Task : dv \in uses[t]}) <= 2
HeldOnceMounted ==
  \A t \in ToSet(ring) \ killed : \A f \in WorksOn(t) :
    Mounted(f.dv) => dv_owner[f.dv] = t
HeldAtWork ==
  \A t \in ToSet(ring) \ killed : \A f \in WorksOn(t) :
    \/ Type[f.dv] = "HOSTFS" \/ f.op = "RedSeaFmt"
    \/ Mounted(f.dv) /\ SharedByTwo(f.dv)
    => dv_owner[f.dv] = t

\* "Read blk cnt from Drv to buf" (BlkRead): what is handed over is of the file the
\* image is in.
HandsOver == Alive /\ code[Fs] # <<>> /\ Top.op = "BlkRead" /\ Top.at = "unlock"
ReadsDrv == HandsOver => \A b \in DOMAIN Top.buf : Top.buf[b] = name[Top.dv]

\* It is, once the image is mounted and the cache has forgotten what was mounted at
\* the letter before, whoever was killed in between.
ReadsMounted ==
  HandsOver /\ Mounted(Top.dv) =>
    \A b \in DOMAIN Top.buf : Top.buf[b] = name[Top.dv]

\* The yields of the unlocks "prevent deadlock" (DskDrv.HC, DskBlkDev.HC): no circle of
\* tasks each of which waits for a lock another one has, although initialisation
\* looks up files under the lock of the device.
WaitsFor(t) ==
  IF t \notin ToSet(ring) \ killed \/ code[t] = <<>> THEN {}
  ELSE LET f == Last(code[t]) IN
       (CASE f.at = "lock_bd" -> {bd_owner[Root(f.dv)]}
          [] f.at = "lock_dv" -> {dv_owner[f.dv]}
          [] OTHER -> {}) \ {NULL, t}
NoDeadlock ==
  \A ts \in SUBSET Task : ts = {} \/ \E t \in ts : WaitsFor(t) \cap ts = {}

\* "When task dies, release all owned drvs" (DrvsRelease), and devices, of those others
\* can wait for.
DeadHoldNothing ==
  \A t \in Task \ ToSet(ring) : \A d \in mounted : t \notin {bd_owner[Root(d)], dv_owner[d]}

\* A task that waits for a lock gets on, or is killed, unless the program has
\* crashed: every unlock gives the CPU to the next task of the ring, so that none
\* takes a lock again and again while another waits.
LockGranted ==
  \A t \in Task : WaitsFor(t) # {} ~> WaitsFor(t) = {} \/ t \in killed \/ Fs = NULL
=============================================================================
