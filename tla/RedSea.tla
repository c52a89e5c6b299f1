-------------------------------- MODULE RedSea --------------------------------
(***************************************************************************)
(* Files and directories of a RedSea drive (BlkDev/FileSysRedSea.HC, with  *)
(* DirMk, Name2DirClus and Del): what several tasks do to the directories  *)
(* when each of RedSeaFilesDel, RedSeaAllocClus, BlkWrite and RedSeaDirNew *)
(* locks the drive for itself, and a task may be killed between two.       *)
(*                                                                         *)
(* A directory is the record in its first cluster: its size (that of its   *)
(* entry "."), the entries, how many slots have a deleted one.  Which slot *)
(* an entry is in is left out.  A cluster of a file has the name of the    *)
(* file and who wrote it.  There are directories in the root only.         *)
(*                                                                         *)
(* A throw ends the hosted program (Panic).  Left out: compression, dates, *)
(* the names HOSTFS and FAT32 share with this driver (CFileNameTo, masks,  *)
(* of which the set of names they match is kept), FilesFind (it reads).    *)
(*                                                                         *)
(* An operator Mut<Op>_<Bug> is <Op> with a bug it must not have, used to  *)
(* test that the properties notice.                                        *)
(***************************************************************************)
EXTENDS RedSeaClus, FiniteSets, SequencesExt

CONSTANTS
  Task, Name,
  Ops,     \* what each task may do: [op, dir, names, blks, del_dir]
  Slots,   \* BLK_SIZE/CDIR_SIZE; the code has 8
  FirstDir,  \* the directory there is at first
  NULL     \* of an operation: the root directory

\* The boot block's directory and the first one have a cluster each.
ASSUME RedSeaAssumption ==
  /\ Slots \in Nat /\ Slots > 3 /\ FirstDir \in Name /\ NULL \notin Name
  /\ DataArea + 2 < MaxBlk

VARIABLES
  space,      \* RedSeaSpace
  disk,       \* what is in each cluster
  root_clus,  \* of the drive and its boot block
  call,       \* what each task is in the middle of
  orphans,    \* history: the runs of what was removed with its directory, and of
              \* what was about to be entered when a task was killed
  up          \* FALSE once something was thrown

vars == <<space, disk, root_clus, call, orphans, up>>

-----------------------------------------------------------------------------
(***************************************************************************)
(* What is on the drive.                                                   *)
(***************************************************************************)
Data(name, task) == [type |-> "file", name |-> name, by |-> task]
Dir(blks, ents, deleted) == [type |-> "dir", blks |-> blks, ents |-> ents, deleted |-> deleted]
Empty == [type |-> "none"]
Entry(name, dir, run) == [name |-> name, dir |-> dir, run |-> run]

IsDir(c) == disk[c].type = "dir"
Found(c, name) == {e \in disk[c].ents : e.name = name}
FoundDirs(name) == {e \in Found(root_clus, name) : e.dir}

\* Name2DirClus, 0 if the directory is not there.
Name2DirClus(dir) ==
  IF dir = NULL THEN root_clus
  ELSE IF FoundDirs(dir) = {} THEN 0 ELSE (CHOOSE e \in FoundDirs(dir) : TRUE).run.start

RunOf(c) == [start |-> c, size |-> disk[c].blks]
RunsIn(c) == {e.run : e \in {x \in disk[c].ents : x.run.size > 0}}
SubDirs == {e.run.start : e \in {x \in disk[root_clus].ents : x.dir}}
Reachable == {RunOf(root_clus)} \cup RunsIn(root_clus)
               \cup UNION {RunsIn(c) : c \in {d \in SubDirs : IsDir(d)}}

\* What a task has allocated and not yet entered in a directory.
InFlight == {call[t].run : t \in {u \in Task : call[u].at \in {"write", "enter"}
                                               /\ call[u].run.size > 0}}
Held == Reachable \cup InFlight \cup orphans

Space == INSTANCE RedSeaSpace WITH held <- Held

MutFill_LastLeftOut(c, blks, content) == [k \in c .. c + blks - 2 |-> content]
Fill(c, blks, content) == [k \in c .. c + blks - 1 |-> content]
Write(contents) == [c \in DOMAIN disk |-> IF c \in DOMAIN contents THEN contents[c] ELSE disk[c]]
\* A directory, at a cluster: its first cluster stands for it, the others are zero.
FillDir(c, blks, d) == [k \in c .. c + blks - 1 |-> IF k = c THEN d ELSE Empty]
WriteDir(c, d) == Write(FillDir(c, d.blks, d))

-----------------------------------------------------------------------------
\* After RedSeaFmt, and RedSeaMkDir of one directory.
Idle == [at |-> "idle", op |-> "none", run |-> EmptyRun]
Dead == [Idle EXCEPT !.at = "dead"]

Init ==
  LET run == [start |-> DataArea + 2, size |-> 1]
  IN  /\ root_clus = DataArea + 1
      /\ space = [used |-> DataArea .. DataArea + 2, built |-> FALSE, free |-> {}]
      /\ disk = [c \in Clus |->
                   CASE c = root_clus -> Dir(1, {Entry(FirstDir, TRUE, run)}, 0)
                     [] c = run.start -> Dir(1, {}, 0)
                     [] OTHER -> Empty]
      /\ call = [t \in Task |-> Idle]
      /\ orphans = {}
      /\ up = TRUE

-----------------------------------------------------------------------------
(***************************************************************************)
(* The operations, a lock at a time.                                       *)
(***************************************************************************)
At(t, at) == up /\ call[t].at = at
The(t) == call[t].op
Name2Write(t) == CHOOSE n \in The(t).names : TRUE
GoTo(t, at) == call' = [call EXCEPT ![t].at = at]
Done(t) == call' = [call EXCEPT ![t] = Idle]

\* DirMk looks whether there is such a directory already.
Start(t) ==
  /\ At(t, "idle")
  /\ \E op \in Ops[t] :
       /\ Name2DirClus(op.dir) # 0
       /\ op.op = "mkdir" => \A n \in op.names : FoundDirs(n) = {}
       /\ call' = [call EXCEPT ![t] = [Idle EXCEPT !.at = "del", !.op = op]]
  /\ UNCHANGED <<space, disk, root_clus, orphans, up>>

MutFreedAll_None(runs) == {space}
FreedAll(runs) == Space!FreedAll(space, runs)

\* RedSeaFilesDel: of Del with its mask, of RedSeaFileWrite with the name and
\* without directories.  What a directory has in it is not freed.
RedSeaFilesDel(t) ==
  /\ At(t, "del")
  /\ LET c == Name2DirClus(The(t).dir)
         del == {e \in disk[c].ents : /\ e.name \in The(t).names
                                      /\ e.dir => The(t).op = "del" /\ The(t).del_dir}
     IN  /\ disk' = [disk EXCEPT ![c].ents = @ \ del, ![c].deleted = @ + Cardinality(del)]
         /\ space' \in FreedAll({e.run : e \in del})
         /\ orphans' = orphans \cup UNION {RunsIn(e.run.start) : e \in {x \in del : x.dir}}
  /\ IF The(t).op = "del" THEN Done(t) ELSE GoTo(t, "alloc")
  /\ UNCHANGED <<root_clus, up>>

ClusAlloc(t) ==
  /\ At(t, "alloc")
  /\ IF The(t).blks = 0
     THEN GoTo(t, "write") /\ UNCHANGED space
     ELSE \E r \in Space!RedSeaAllocClus(space, The(t).blks) :
            /\ space' = r.space
            /\ call' = [call EXCEPT ![t].at = "write",
                          ![t].run = [start |-> r.first, size |-> The(t).blks]]
  /\ UNCHANGED <<disk, root_clus, orphans, up>>

\* A new directory is all zero at first, in all its clusters, its size as well.
BlkWrite(t) ==
  /\ At(t, "write")
  /\ LET run == call[t].run IN
     disk' = Write(IF The(t).op = "mkdir" THEN FillDir(run.start, run.size, Dir(0, {}, 0))
                   ELSE Fill(run.start, run.size, Data(Name2Write(t), t)))
  /\ GoTo(t, "enter")
  /\ UNCHANGED <<space, root_clus, orphans, up>>

\* RedSeaDirNew, where an entry has the name already: its clusters go back and
\* the new entry is the only one of the name.  Where none has it: the first slot
\* with a deleted entry, or the end, and a directory that would not have room for
\* the end moves to a longer run.
Slot0 == 2   \* "." and ".." have the first two slots
Used(d) == Slot0 + Cardinality(d.ents) + d.deleted
MutRoom_OffByOne(d) == Used(d) < d.blks * Slots
Room(d) == Used(d) + 1 < d.blks * Slots
MutEntered_AlwaysDeleted(d, entry) ==
  [d EXCEPT !.ents = @ \cup {entry}, !.deleted = @ - 1]
Entered(d, entry) == [d EXCEPT !.ents = @ \cup {entry},
                               !.deleted = IF @ > 0 THEN @ - 1 ELSE @]
NewEntry(t) == Entry(Name2Write(t), The(t).op = "mkdir", call[t].run)

RedSeaDirNew(t) ==
  /\ At(t, "enter")
  /\ LET c == Name2DirClus(The(t).dir)
         d == disk[c]
         entry == NewEntry(t)
         old == Found(c, entry.name)
     IN  \/ /\ old # {}
            /\ \E e \in old :
                 /\ disk' = [disk EXCEPT ![c].ents = (@ \ {e}) \cup {entry}]
                 /\ space' \in Space!RedSeaFreeClus(space, e.run)
                 /\ orphans' = orphans \cup IF e.dir THEN RunsIn(e.run.start) ELSE {}
            /\ UNCHANGED root_clus
         \/ /\ old = {} /\ Room(d)
            /\ disk' = [disk EXCEPT ![c] = Entered(@, entry)]
            /\ UNCHANGED <<space, root_clus, orphans>>
         \/ /\ old = {} /\ ~Room(d)
            /\ \E s \in Space!RedSeaFreeClus(space, RunOf(c)) :
               \E r \in Space!RedSeaAllocClus(s, d.blks + 1) :
                 LET moved == [Entered(d, entry) EXCEPT !.blks = @ + 1]
                     run == [start |-> r.first, size |-> d.blks + 1]
                     self == CHOOSE e \in FoundDirs(The(t).dir) : TRUE
                 IN  /\ space' = r.space
                     /\ IF c = root_clus
                        THEN root_clus' = r.first /\ disk' = WriteDir(r.first, moved)
                        ELSE /\ disk' = [WriteDir(r.first, moved) EXCEPT ![root_clus].ents =
                                           (@ \ {self}) \cup {[self EXCEPT !.run = run]}]
                             /\ UNCHANGED root_clus
            /\ UNCHANGED orphans
  /\ IF The(t).op = "mkdir" THEN GoTo(t, "fill") ELSE Done(t)
  /\ UNCHANGED up

\* RedSeaMkDir writes "." and ".." into the new directory last of all, in a
\* write of its first cluster only.
MkDirEnd(t) ==
  /\ At(t, "fill")
  /\ disk' = [disk EXCEPT ![call[t].run.start] = Dir(call[t].run.size, {}, 0)]
  /\ Done(t)
  /\ UNCHANGED <<space, root_clus, orphans, up>>

\* RedSeaAllocClus throws when there is no run that is long enough.
Throw(t) ==
  /\ \/ At(t, "alloc") /\ The(t).blks > 0 /\ Space!RedSeaAllocClus(space, The(t).blks) = {}
     \/ /\ At(t, "enter")
        /\ LET c == Name2DirClus(The(t).dir) IN
           /\ Found(c, Name2Write(t)) = {} /\ ~Room(disk[c])
           /\ \E s \in Space!RedSeaFreeClus(space, RunOf(c)) :
                Space!RedSeaAllocClus(s, disk[c].blks + 1) = {}
  /\ up' = FALSE
  /\ UNCHANGED <<space, disk, root_clus, call, orphans>>

\* A task is killed where it waits for a lock.  What it had locked is initialised
\* again (BlkDevInit), and RedSeaInit forgets the free list.
Kill(t) ==
  /\ up /\ call[t].at \notin {"idle", "dead"}
  /\ call' = [call EXCEPT ![t] = Dead]
  /\ orphans' = orphans \cup IF call[t].run \in InFlight THEN {call[t].run} ELSE {}
  /\ UNCHANGED <<space, disk, root_clus, up>>

RedSeaInit ==
  /\ up /\ \E t \in Task : call[t].at = "dead"
  /\ space' = Space!Forgotten(space)
  /\ UNCHANGED <<disk, root_clus, call, orphans, up>>

Next ==
  \/ RedSeaInit
  \/ \E t \in Task : \/ Start(t) \/ RedSeaFilesDel(t) \/ ClusAlloc(t) \/ BlkWrite(t)
                     \/ RedSeaDirNew(t) \/ MkDirEnd(t) \/ Throw(t) \/ Kill(t)

Spec == Init /\ [][Next]_vars

-----------------------------------------------------------------------------
(***************************************************************************)
(* Nothing in the code keeps a task from removing a directory that another *)
(* makes or works in (MCRedSea's MkDirOps).  Tasks that do not do that:    *)
(* but for FirstDir, who makes a directory is the only one that works in   *)
(* it or removes it, and no file of the root is called as one.             *)
(***************************************************************************)
Made(t) == UNION {op.names : op \in {o \in Ops[t] : o.op = "mkdir"}}
DirNames == {FirstDir} \cup UNION {Made(t) : t \in Task}
OwnDirs ==
  /\ \A t \in Task : \A op \in Ops[t] :
       /\ op.op \in {"mkdir", "write", "del"} /\ op.dir \in Name \cup {NULL}
       /\ op.names \subseteq Name /\ op.blks \in Nat
       /\ op.dir \in DirNames => op.dir \in Made(t) \cup {FirstDir}
       /\ op.op # "del" => op.names # {}
       /\ op.op = "mkdir" => op.dir = NULL /\ op.blks > 0 /\ FirstDir \notin op.names
       /\ op.op = "write" /\ op.dir = NULL => op.names \cap DirNames = {}
       /\ op.op = "del" /\ op.dir = NULL /\ op.del_dir => op.names \cap DirNames \subseteq Made(t)
  /\ \A t, u \in Task : t # u => Made(t) \cap Made(u) = {}

-----------------------------------------------------------------------------
(***************************************************************************)
(* Properties.                                                             *)
(***************************************************************************)
DirClus == {root_clus} \cup SubDirs

\* Types, and where a task is in its operation.
TypeOK ==
  /\ disk \in [Clus -> [type : {"none"}] \cup [type : {"file"}, name : Name, by : Task]
                 \cup [type : {"dir"}, blks : Nat, deleted : Nat,
                       ents : SUBSET [name : Name, dir : BOOLEAN, run : Run]]]
  /\ root_clus \in Clus /\ orphans \subseteq Run /\ up \in BOOLEAN
  /\ \A t \in Task :
       /\ call[t].at \in {"idle", "del", "alloc", "write", "enter", "fill", "dead"}
       /\ call[t].run \in Run

\* The set bits of the bitmap are those of what can be reached, of what tasks have
\* in hand, and of what a kill or the removal of a directory has cut off, and the
\* free list has the others: nothing else is lost, nothing is in two files,
\* although a file is written in four steps and others write between them.
SpaceSound == Space!Sound

\* Files and directories give back what they have, once: the drive is a client of
\* RedSeaSpace.
ImplementsSpace == Space!Spec

\* What the code takes for granted of a directory it reads: it is one, as long as
\* its entry says (or it is still being made, or who made it was killed), has a
\* slot left for the end after the last entry, and one entry of each name.
DirsSound ==
  \A c \in DirClus :
    /\ IsDir(c)
    /\ LET d == disk[c] IN
       /\ d.blks > 0 => Used(d) < d.blks * Slots
       /\ d.blks = 0 => c # root_clus /\ d.ents = {}
       /\ \A e, f \in d.ents : e.name = f.name => e = f
       /\ \A e \in d.ents : e.dir => disk[e.run.start].blks \in {0, e.run.size}

\* "Read whole file from disk" (FileRead): the clusters of an entry have what one
\* task wrote as that file, all of it, whatever was written, removed and moved
\* since.  It is so as long as nobody removes a directory that is being made.
FilesWhole ==
  \A c \in DirClus : \A e \in {x \in disk[c].ents : ~x.dir} :
    \E t \in Task : \A k \in Of(e.run) : disk[k] = Data(e.name, t)
=============================================================================
