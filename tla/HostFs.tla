------------------------------- MODULE HostFs -------------------------------
(***************************************************************************)
(* The guest's files on a HOSTFS drive: Cd, FileFind, FilesFind and Del    *)
(* of BlkDev/ with the HostFs functions they call, over the loader's       *)
(* vfs.c.                                                                  *)
(*                                                                         *)
(* One task of the guest runs these functions.  Each VSysCall is a step of *)
(* it (STATCLUS and the STAT that follows are one step: what the pair      *)
(* finds is what its last call would have found alone).  Between two       *)
(* steps the host's programs create and remove files; other tasks of the   *)
(* guest, which run whenever DrvUnlock yields, do so as well, and ask      *)
(* about paths.                                                            *)
(*                                                                         *)
(* An operator Mut<Op>_<Bug> is <Op> with a bug it must not have, used to  *)
(* test that the properties notice.                                        *)
(***************************************************************************)
EXTENDS Vfs

CONSTANTS
  Ops,       \* the operations the task calls, of "cd", "file", "find", "del"
  Args,      \* their arguments: [dv, abs, names]
  Recurse,   \* the values of FUF_RECURSE the task uses
  DelDir,    \* the values of Del's del_dir the task uses
  MaxDepth   \* bound: the task calls Cd only while its path stays this short

VARIABLES
  pc,        \* where the task is
  cur_dv,    \* Fs->cur_dv
  cur_dir,   \* Fs->cur_dir, a sequence of names
  ctx,       \* the operation and its CDirContext, or NULL
  cd,        \* the locals of Cd, or NULL
  walk,      \* the locals of Name2DirClus, or NULL
  frames,    \* the directories HostFsFilesFind (or Del) has open, innermost last
  victim,    \* the path HostFsFilesDel is about to unlink, or NULL
  res,       \* the entries FilesFind has collected
  stable     \* history: the places that are as they were when the operation began

guest == <<pc, cur_dv, cur_dir, ctx, cd, walk, frames, victim, res>>
vars  == <<tree, assignments, pc, cur_dv, cur_dir, ctx, cd, walk, frames, victim,
           res, stable>>

AllPlaces == Drive \X (Places \cup {<<>>})
RootClus == 0

\* The locals of the functions that the task is in.
Word == Names \cup {"..", "*"} \cup UNION {Range(arg.names) : arg \in Args}
CdLocals == [todo : Seq(Word), at : Seq(Names), ok : BOOLEAN,
             ret : {"user", "dir", "mask", "sub", "up", "restore"}]
WalkLocals == [todo : Seq(Names), clus : Number]
Context == [op : {"cd", "file", "find", "del"}, flag : BOOLEAN, mask : Word,
            searched : {NULL} \cup (Drive \X Seq(Names)),
            old_dv : Drive, old_dir : Seq(Names)]

\* Of the names that Cd treats as directions only ".." is modelled.
ASSUME ArgsAssumption ==
  /\ \A arg \in Args :
       /\ arg.dv \in Drive \cup {NULL} /\ arg.abs \in BOOLEAN
       /\ arg.names \in Seq(Range(arg.names)) /\ arg.names # <<>>
       /\ Range(arg.names) \cap {"", ".", "~"} = {}
  /\ Recurse \subseteq BOOLEAN /\ DelDir \subseteq BOOLEAN /\ MaxDepth \in Nat
ASSUME NullAssumption ==
  /\ NULL \notin CdLocals /\ NULL \notin WalkLocals /\ NULL \notin Context
  /\ NULL \notin Drive /\ NULL \notin Seq(Names \cup {""})
  /\ NULL \notin Drive \X Seq(Names)

Init ==
  /\ VfsInit
  /\ pc = "idle" /\ cur_dv = 0 /\ cur_dir = <<>>
  /\ ctx = NULL /\ cd = NULL /\ walk = NULL /\ victim = NULL
  /\ frames = <<>> /\ res = {} /\ stable = AllPlaces

-----------------------------------------------------------------------------
(***************************************************************************)
(* Everybody else.                                                         *)
(***************************************************************************)
OtherCreate(dv, p, kind) ==
  /\ Create(dv, p, kind)
  /\ stable' = IF pc = "idle" THEN stable ELSE stable \ {<<dv, p>>}
  /\ UNCHANGED <<assignments, guest>>

OtherRemove(dv, p) ==
  /\ Removable(dv, p) /\ Delete(dv, p)
  /\ stable' = IF pc = "idle" THEN stable ELSE stable \ {<<dv, p>>}
  /\ UNCHANGED <<assignments, guest>>

-----------------------------------------------------------------------------
(***************************************************************************)
(* HostFsFileFind: a name in the directory of a number.                    *)
(***************************************************************************)
AbsPath(clus, name) ==
  IF clus = RootClus THEN <<"", name>>
  ELSE LET dir == vfs_statclus(clus, cur_dv)
       IN  IF dir = NULL THEN NULL ELSE InDir(dir, name)

\* The number of the entry, or 0 when there is none (or it is no directory).
HostFsFileFind(clus, name, just_dirs) ==
  LET path == AbsPath(clus, name) IN
  IF /\ path # NULL /\ Exists(cur_dv, Place(path))
     /\ just_dirs => IsDir(cur_dv, Place(path))
  THEN ClusOf(path, cur_dv) ELSE 0

\* vfs_stat gives what exists a number, even if it is not what was looked for.
Stats(clus, name) ==
  LET path == AbsPath(clus, name) IN
  assignments' = IF path # NULL /\ Exists(cur_dv, Place(path))
                 THEN get_node_by_path(path, cur_dv) ELSE assignments

-----------------------------------------------------------------------------
(***************************************************************************)
(* Cd.  at is new_cur_dir; ret says who called.                            *)
(***************************************************************************)
CdCall(names, from, ret) ==
  /\ cd' = [todo |-> names, at |-> from, ok |-> TRUE, ret |-> ret]
  /\ pc' = "cd"

\* Cd("..") takes the last name off; the root has none.
MutUp_Name(dir) == Append(dir, "..")
Up(dir) == IF dir = <<>> THEN dir ELSE Front(dir)

CdUp ==
  /\ pc = "cd" /\ cd.todo # <<>> /\ Head(cd.todo) = ".."
  /\ cd' = [cd EXCEPT !.todo = Tail(@), !.at = Up(@)]
  /\ UNCHANGED <<vfsVars, pc, cur_dv, cur_dir, ctx, walk, frames, victim, res, stable>>

\* A name is looked up in the directory new_cur_dir, which Name2DirClus walks to.
CdName ==
  /\ pc = "cd" /\ cd.todo # <<>> /\ Head(cd.todo) # ".."
  /\ walk' = [todo |-> cd.at, clus |-> RootClus]
  /\ pc' = "walk"
  /\ UNCHANGED <<vfsVars, cur_dv, cur_dir, ctx, cd, frames, victim, res, stable>>

\* Name2DirClus: the next directory of the path; 0 when it is not there.
MutWalkOn_Past0(clus) == [todo |-> Tail(walk.todo), clus |-> clus]
WalkOn(clus) == [todo |-> IF clus = 0 THEN <<>> ELSE Tail(walk.todo), clus |-> clus]

Name2DirClus ==
  /\ pc = "walk" /\ walk.todo # <<>>
  /\ walk' = WalkOn(HostFsFileFind(walk.clus, Head(walk.todo), TRUE))
  /\ Stats(walk.clus, Head(walk.todo))
  /\ UNCHANGED <<tree, pc, cur_dv, cur_dir, ctx, cd, frames, victim, res, stable>>

HostFsCd ==
  /\ pc = "walk" /\ walk.todo = <<>> /\ cd # NULL
  /\ LET name == Head(cd.todo) IN
     /\ cd' = IF HostFsFileFind(walk.clus, name, TRUE) # 0
              THEN [cd EXCEPT !.todo = Tail(@), !.at = Append(@, name)]
              ELSE [cd EXCEPT !.todo = <<>>, !.ok = FALSE]
     /\ Stats(walk.clus, name)
  /\ pc' = "cd" /\ walk' = NULL
  /\ UNCHANGED <<tree, cur_dv, cur_dir, ctx, frames, victim, res, stable>>

\* The end of a Cd: however far it came, that is the current directory.
CdReturns(ret) ==
  /\ pc = "cd" /\ cd.todo = <<>> /\ cd.ret = ret
  /\ UNCHANGED <<vfsVars, victim>>

-----------------------------------------------------------------------------
(***************************************************************************)
(* An operation: DirContextNew changes to the directory of its argument,   *)
(* DirContextDel back.                                                     *)
(***************************************************************************)
Begin(op, arg, flag) ==
  /\ pc = "idle"
  /\ LET other == arg.dv \notin {NULL, cur_dv}
         from  == IF other \/ arg.abs THEN <<>> ELSE cur_dir
     IN  /\ cur_dv' = IF other THEN arg.dv ELSE cur_dv
         /\ cur_dir' = from
         /\ IF op = "cd" THEN CdCall(arg.names, from, "user")
                         ELSE CdCall(Front(arg.names), from, "dir")
  /\ ctx' = [op |-> op, flag |-> flag, mask |-> Last(arg.names), searched |-> NULL,
             old_dv |-> cur_dv, old_dir |-> cur_dir]
  /\ UNCHANGED <<vfsVars, walk, frames, victim, res, stable>>

\* DirContextDel: Drv goes to the root of the drive, Cd from there.
MutDirContextDel_NoCd ==
  /\ cur_dv' = ctx.old_dv /\ cur_dir' = <<>>
  /\ CdCall(<<>>, <<>>, "restore")
DirContextDel ==
  /\ cur_dv' = ctx.old_dv /\ cur_dir' = <<>>
  /\ CdCall(ctx.old_dir, <<>>, "restore")

\* OPENDIR takes the names the directory has at this moment.
Opened(dir) == [dir |-> dir, left |-> {Last(q) : q \in Children(cur_dv, dir)}]

Search(mask) ==
  /\ cur_dir' = cd.at /\ cd' = NULL
  /\ frames' = <<Opened(cd.at)>>
  /\ ctx' = [ctx EXCEPT !.mask = mask, !.searched = <<cur_dv, cd.at>>]
  /\ pc' = "read"
  /\ UNCHANGED <<cur_dv, walk, res, stable>>

UserCdEnds ==
  /\ CdReturns("user")
  /\ cur_dir' = cd.at /\ cd' = NULL /\ ctx' = NULL /\ pc' = "idle"
  /\ stable' = AllPlaces
  /\ UNCHANGED <<cur_dv, walk, frames, res>>

\* DirContextNew is in the directory.  FileFind looks for the mask in it;
\* FilesFind next tries whether the mask is a directory itself, Del does not.
FileDirReached ==
  /\ CdReturns("dir") /\ cd.ok /\ ctx.op = "file"
  /\ cur_dir' = cd.at /\ cd' = NULL
  /\ walk' = [todo |-> cd.at, clus |-> RootClus] /\ pc' = "walk"
  /\ UNCHANGED <<cur_dv, ctx, frames, res, stable>>

FindDirReached ==
  /\ CdReturns("dir") /\ cd.ok /\ ctx.op = "find"
  /\ cur_dir' = cd.at
  /\ CdCall(<<ctx.mask>>, cd.at, "mask")
  /\ UNCHANGED <<cur_dv, ctx, walk, frames, res, stable>>

DelDirReached ==
  CdReturns("dir") /\ cd.ok /\ ctx.op = "del" /\ Search(ctx.mask)

DirMissing ==
  /\ CdReturns("dir") /\ ~cd.ok
  /\ DirContextDel
  /\ UNCHANGED <<ctx, walk, frames, res, stable>>

MaskTried == CdReturns("mask") /\ Search(IF cd.ok THEN "*" ELSE ctx.mask)

Restored ==
  /\ CdReturns("restore")
  /\ cur_dir' = cd.at /\ cd' = NULL /\ ctx' = NULL /\ res' = {} /\ pc' = "idle"
  /\ stable' = AllPlaces
  /\ UNCHANGED <<cur_dv, walk, frames>>

-----------------------------------------------------------------------------
(***************************************************************************)
(* FileFind: one entry, under the name it has in the current directory.    *)
(***************************************************************************)
Entry(name, clus) == [dv |-> cur_dv, full_name |-> Append(cur_dir, name), clus |-> clus]

FileFind ==
  /\ pc = "walk" /\ walk.todo = <<>> /\ cd = NULL
  /\ LET clus == HostFsFileFind(walk.clus, ctx.mask, FALSE)
     IN  res' = IF clus = 0 THEN {} ELSE {Entry(ctx.mask, clus)}
  /\ Stats(walk.clus, ctx.mask)
  /\ walk' = NULL
  /\ DirContextDel
  /\ UNCHANGED <<tree, ctx, frames, victim, stable>>

-----------------------------------------------------------------------------
(***************************************************************************)
(* FilesFind and Del: READDIR, which stats each name of the list.          *)
(***************************************************************************)
Top == Last(frames)
FilesFindMatch(name) == ctx.mask \in {"*", name}
MutReadName_AllRead(name) == frames' = [frames EXCEPT ![Len(frames)].left = {}]
MutReadName_Again(name) == UNCHANGED frames
ReadName(name) == frames' = [frames EXCEPT ![Len(frames)].left = @ \ {name}]
MutNamePath_OfRoot(name) == InDir(DirPath(<<>>), name)
NamePath(name) == InDir(DirPath(Top.dir), name)
StatName(name) == vfs_stat(NamePath(name), cur_dv)
NameIsDir(name) == IsDir(cur_dv, Place(NamePath(name)))
Reading(name) == pc = "read" /\ frames # <<>> /\ name \in Top.left

\* The file disappeared in the mean-time.
ReadGone(name) ==
  /\ Reading(name) /\ ~Exists(cur_dv, Place(NamePath(name)))
  /\ ReadName(name)
  /\ UNCHANGED <<vfsVars, pc, cur_dv, cur_dir, ctx, cd, walk, victim, res, stable>>

\* HostFsFilesFind lists what the mask matches and, when it recurses, every
\* directory.
FindListed(name) ==
  /\ Reading(name) /\ ctx.op = "find" /\ StatName(name) /\ ReadName(name)
  /\ ~(ctx.flag /\ NameIsDir(name))
  /\ res' = IF FilesFindMatch(name)
            THEN res \cup {Entry(name, ClusOf(NamePath(name), cur_dv))} ELSE res
  /\ UNCHANGED <<tree, pc, cur_dv, cur_dir, ctx, cd, walk, victim, stable>>

FindRecurses(name) ==
  /\ Reading(name) /\ ctx.op = "find" /\ StatName(name) /\ ReadName(name)
  /\ ctx.flag /\ NameIsDir(name)
  /\ res' = res \cup {Entry(name, ClusOf(NamePath(name), cur_dv))}
  /\ CdCall(<<name>>, cur_dir, "sub")
  /\ UNCHANGED <<tree, cur_dv, cur_dir, ctx, walk, victim, stable>>

SubReached ==
  /\ CdReturns("sub")
  /\ cur_dir' = cd.at /\ cd' = NULL /\ pc' = "read"
  /\ frames' = IF cd.ok THEN Append(frames, Opened(cd.at)) ELSE frames
  /\ UNCHANGED <<cur_dv, ctx, walk, res, stable>>

SubDone ==
  /\ pc = "read" /\ Len(frames) > 1 /\ Top.left = {}
  /\ frames' = Front(frames)
  /\ CdCall(<<"..">>, cur_dir, "up")
  /\ UNCHANGED <<vfsVars, cur_dv, cur_dir, ctx, walk, victim, res, stable>>

BackUp ==
  /\ CdReturns("up")
  /\ cur_dir' = cd.at /\ cd' = NULL /\ pc' = "read"
  /\ UNCHANGED <<cur_dv, ctx, walk, frames, res, stable>>

SearchDone ==
  /\ pc = "read" /\ Len(frames) = 1 /\ Top.left = {}
  /\ frames' = <<>>
  /\ DirContextDel
  /\ UNCHANGED <<vfsVars, ctx, walk, victim, res, stable>>

\* HostFsFilesDel: what the mask matches goes, but directories only with del_dir.
DelKept(name) ==
  /\ Reading(name) /\ ctx.op = "del" /\ StatName(name) /\ ReadName(name)
  /\ ~FilesFindMatch(name) \/ (NameIsDir(name) /\ ~ctx.flag)
  /\ UNCHANGED <<tree, pc, cur_dv, cur_dir, ctx, cd, walk, victim, res, stable>>

DelMatches(name) ==
  /\ Reading(name) /\ ctx.op = "del" /\ StatName(name) /\ ReadName(name)
  /\ FilesFindMatch(name) /\ (NameIsDir(name) => ctx.flag)
  /\ victim' = NamePath(name) /\ pc' = "unlink"
  /\ UNCHANGED <<tree, cur_dv, cur_dir, ctx, cd, walk, res, stable>>

Unlink ==
  /\ pc = "unlink"
  /\ LET p == Place(victim) IN
     IF Removable(cur_dv, p)
     THEN Delete(cur_dv, p) /\ stable' = stable \ {<<cur_dv, p>>}
     ELSE UNCHANGED <<tree, stable>>
  /\ victim' = NULL /\ pc' = "read"
  /\ UNCHANGED <<assignments, cur_dv, cur_dir, ctx, cd, walk, frames, res>>

-----------------------------------------------------------------------------
Others ==
  \E dv \in Drive, p \in Places :
    OtherRemove(dv, p) \/ \E kind \in {"file", "dir"} : OtherCreate(dv, p, kind)

Call ==
  \E arg \in Args :
    \/ /\ "cd" \in Ops /\ Len(cur_dir) + Len(arg.names) <= MaxDepth
       /\ Begin("cd", arg, FALSE)
    \/ "file" \in Ops /\ Begin("file", arg, FALSE)
    \/ "find" \in Ops /\ \E flag \in Recurse : Begin("find", arg, flag)
    \/ "del" \in Ops /\ \E flag \in DelDir : Begin("del", arg, flag)

Read ==
  \E name \in Names :
    \/ ReadGone(name) \/ FindListed(name) \/ FindRecurses(name)
    \/ DelKept(name) \/ DelMatches(name)

Guest ==
  \/ CdUp \/ CdName \/ Name2DirClus \/ HostFsCd
  \/ UserCdEnds \/ FileDirReached \/ FindDirReached \/ DelDirReached
  \/ DirMissing \/ MaskTried \/ Restored
  \/ FileFind \/ Read \/ SubReached \/ SubDone \/ BackUp \/ SearchDone \/ Unlink

Next == Others \/ Call \/ Guest

\* The task goes on with what it began; nobody else need ever do anything.
Spec == Init /\ [][Next]_vars /\ WF_vars(Guest)

-----------------------------------------------------------------------------
(***************************************************************************)
(* Properties.                                                             *)
(***************************************************************************)
\* cur_dir is made of names that were looked up, never of "..", and is no longer
\* than the arguments and the depth of the tree can make it (Cd, DirNameAbs); the
\* locals exist exactly while their function runs.
IsDirName(dir) ==
  /\ dir \in Seq(Names)
  /\ \/ Len(dir) <= MaxDepth \/ dir \in Places
     \/ \E arg \in Args : Len(dir) <= MaxDepth + Len(arg.names)

TypeOK ==
  /\ tree \in [Drive -> [Places -> {"none", "file", "dir"}]]
  /\ assignments \in [Slots -> Node \cup {NULL}]
  /\ pc \in {"idle", "cd", "walk", "read", "unlink"}
  /\ cur_dv \in Drive /\ IsDirName(cur_dir)
  /\ ctx \in Context \cup {NULL} /\ (pc = "idle") = (ctx = NULL)
  /\ cd \in CdLocals \cup {NULL} /\ (pc = "cd" => cd # NULL)
  /\ cd # NULL => pc \in {"cd", "walk"} /\ IsDirName(cd.at)
  /\ walk \in WalkLocals \cup {NULL} /\ (pc = "walk") = (walk # NULL)
  /\ victim \in Seq(Names \cup {""}) \cup {NULL} /\ (pc = "unlink") = (victim # NULL)
  /\ frames \in Seq([dir : Seq(Names), left : SUBSET Names])
  /\ pc \in {"read", "unlink"} => frames # <<>>
  /\ res \subseteq [dv : Drive, full_name : Seq(Names), clus : Number]
  /\ stable \subseteq AllPlaces

\* The number of an entry that FilesFind returns leads back to the file the
\* entry names, whatever Cd's the search made on the way and whoever created
\* and removed files meanwhile: HostFsFilesFind takes the number from READDIR
\* and the name from the current directory.
PathOf(clus, dv) ==
  LET node == get_node_by_clus(clus, dv) IN IF node = NULL THEN NULL ELSE Place(node.path)

EntriesAgree ==
  ctx # NULL /\ ctx.op = "find" => \A e \in res : PathOf(e.clus, e.dv) = e.full_name

\* The comment at vfs.c:13 reserves 0 for "none".  FileFind then returns, for a
\* name in the current directory, nothing but the entry of that directory.
FoundInCurDir ==
  ctx # NULL /\ ctx.op = "file" => \A e \in res : PathOf(e.clus, e.dv) = e.full_name

\* The search is where it takes itself to be.  Between its Cd(name) and its
\* Cd("..") HostFsFilesFind is in the directory it has open, each inside the one
\* before; and Name2DirClus is on its path, as long as the number is not 0, by
\* whatever spelling vfs.c first met it.
OnItsWay ==
  /\ pc \in {"read", "unlink"} => cur_dir = Top.dir
  /\ \A i \in 2 .. Len(frames) : Front(frames[i].dir) = frames[i - 1].dir
  /\ walk # NULL /\ walk.clus # 0 =>
       LET dir == IF cd # NULL THEN cd.at ELSE cur_dir
       IN  PathOf(walk.clus, cur_dv) \o walk.todo = dir

\* What was there, unchanged, from the call of FilesFind to the end of its
\* search is in the list, if the mask matches it and the search reaches it.
Wanted(dv, p) ==
  LET dir == ctx.searched[2]
      in  == Front(p) = dir
      deep == ctx.flag /\ Len(p) > Len(dir) /\ SubSeq(p, 1, Len(dir)) = dir
  IN  /\ dv = ctx.searched[1]
      /\ Exists(dv, p) /\ <<dv, p>> \in stable
      /\ (in \/ deep) /\ (FilesFindMatch(Last(p)) \/ (ctx.flag /\ IsDir(dv, p)))

Searched == pc = "cd" /\ cd.ret = "restore" /\ ctx.op = "find" /\ ctx.searched # NULL

StableListed ==
  Searched => \A dv \in Drive, p \in Places :
    Wanted(dv, p) => \E e \in res : e.dv = dv /\ e.full_name = p

\* FileFind, FilesFind and Del leave the task where it was: on its drive, in
\* its directory if that existed all the time, otherwise in a directory above.
CurDirRestored ==
  [][pc = "cd" /\ pc' = "idle" /\ cd.ret = "restore" =>
       /\ cur_dv' = ctx.old_dv /\ IsPrefix(cur_dir', ctx.old_dir)
       /\ (IsDir(ctx.old_dv, ctx.old_dir) /\ <<ctx.old_dv, ctx.old_dir>> \in stable) =>
            cur_dir' = ctx.old_dir]_vars

\* Del removes only what the mask matches in the directory it was called for,
\* although it unlinks by the path that a later look at the list has given.
DelOnlyMatching ==
  [][tree' # tree /\ pc = "unlink" /\ pc' = "read" =>
       \A dv \in Drive, p \in Places : tree'[dv][p] # tree[dv][p] =>
         /\ dv = ctx.searched[1] /\ Front(p) = ctx.searched[2] /\ FilesFindMatch(Last(p))]_vars

\* The number of a directory is for good: TempleOS keeps it (vfs.c:16).
ClusStable ==
  [][\A dv \in Drive, s \in 1 .. MaxAssignments :
       LET node == get_node_by_clus(s, dv)
       IN  node # NULL => get_node_by_clus(s, dv)' = node]_vars

\* Every operation comes to its end, also while the tree under it changes.
Terminates == pc # "idle" ~> pc = "idle"
=============================================================================
