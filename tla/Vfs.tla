-------------------------------- MODULE Vfs --------------------------------
(***************************************************************************)
(* The loader's file system layer (vfs.c) on top of the host's files.      *)
(*                                                                         *)
(* TempleOS refers to directories by cluster number; vfs.c emulates them   *)
(* with a table of the paths it has been asked about.  The guest has only  *)
(* a path or a number, and between two calls the host may create and       *)
(* remove files.  What PhysFS does is external: it is modelled by what     *)
(* vfs.c relies on, one directory tree per drive.  The overlay of a        *)
(* read-only directory by a writable one and the contents of files are     *)
(* left out.                                                               *)
(*                                                                         *)
(* An operator Mut<Op>_<Bug> is <Op> with a bug it must not have, used to  *)
(* test that the properties notice.                                        *)
(***************************************************************************)
EXTENDS Integers, Sequences, SequencesExt, FiniteSets, Functions

CONSTANTS
  NumDrives,       \* NUM_DRIVES
  MaxAssignments,  \* MAX_ASSIGNMENTS
  Places,          \* the files and directories the host may have, but the root
  NULL

Drive == 0 .. NumDrives - 1
ClusMin == 1
Number == 0 .. ClusMin + MaxAssignments

\* A place is the sequence of the names that lead to it, and what it is in is a
\* place as well.  No file has a name that Cd treats as a direction.
Names == UNION {Range(p) : p \in Places}

ASSUME SizesAssumption == NumDrives \in Nat \ {0} /\ MaxAssignments \in Nat \ {0}
ASSUME PlacesAssumption ==
  /\ \A p \in Places : p \in Seq(Range(p)) /\ p # <<>>
  /\ \A p \in Places : \A k \in 1 .. Len(p) : SubSeq(p, 1, k) \in Places
  /\ Names \cap {"", ".", "..", "~"} = {}

\* A path is the sequence of the names that slashes separate, so "/" is <<"">>
\* and "//a" is <<"", "a">>.  PhysFS skips empty names, of which the paths of the
\* guest have one at most, the first: two spellings name the same place.
Place(path) == IF path # <<>> /\ Head(path) = "" THEN Tail(path) ELSE path

\* An element of the table of cluster numbers.
Node == [path : Seq(Names \cup {""}), clus : Number]
ASSUME NodeAssumption == NULL \notin Node

\* A directory of the guest as it spells it (Fs->cur_dir), and a name in it.
DirPath(dir)     == IF dir = <<>> THEN <<"">> ELSE dir
InDir(path, name) == Append(path, name)

VARIABLES
  tree,         \* tree[dv][p]: what the host has at place p of drive dv
  assignments   \* clus_assignment of every drive, one array after the other

vfsVars == <<tree, assignments>>

\* Where assignments[dv][i] is in memory.  One element more than the array has
\* stands for what the linker put behind it.
Slot(dv, i) == dv * MaxAssignments + i
Slots == 0 .. NumDrives * MaxAssignments

Exists(dv, p) == p = <<>> \/ (p \in Places /\ tree[dv][p] # "none")
IsDir(dv, p)  == p = <<>> \/ (p \in Places /\ tree[dv][p] = "dir")
Children(dv, p) == {q \in Places : Exists(dv, q) /\ Front(q) = p}

VfsInit ==
  /\ tree \in [Drive -> [Places -> {"none"}]]
  /\ assignments = [s \in Slots |-> NULL]

-----------------------------------------------------------------------------
(***************************************************************************)
(* The table of cluster numbers.                                           *)
(***************************************************************************)
\* The element get_node_by_path stops at: the one with the path, the first
\* empty one, or the one behind the last.
MutNodeIndex_ByLastName(path, dv) ==
  CHOOSE i \in 0 .. MaxAssignments :
    LET Stops(j) == \/ j = MaxAssignments
                    \/ assignments[Slot(dv, j)] = NULL
                    \/ Last(assignments[Slot(dv, j)].path) = Last(path)
    IN  Stops(i) /\ \A j \in 0 .. i - 1 : ~Stops(j)
MutNodeIndex_ReusesStale(path, dv) ==
  CHOOSE i \in 0 .. MaxAssignments :
    LET Stops(j) == \/ j = MaxAssignments
                    \/ assignments[Slot(dv, j)] = NULL
                    \/ assignments[Slot(dv, j)].path = path
                    \/ ~Exists(dv, Place(assignments[Slot(dv, j)].path))
    IN  Stops(i) /\ \A j \in 0 .. i - 1 : ~Stops(j)
NodeIndex(path, dv) ==
  CHOOSE i \in 0 .. MaxAssignments :
    LET Stops(j) == \/ j = MaxAssignments
                    \/ assignments[Slot(dv, j)] = NULL
                    \/ assignments[Slot(dv, j)].path = path
    IN  Stops(i) /\ \A j \in 0 .. i - 1 : ~Stops(j)

Known(path, dv) ==
  LET i == NodeIndex(path, dv)
      node == assignments[Slot(dv, i)]
  IN  i < MaxAssignments /\ node # NULL /\ node.path = path

\* get_node_by_path: the table afterwards, with the path in it ...
get_node_by_path(path, dv) ==
  LET i == NodeIndex(path, dv) IN
  IF Known(path, dv) THEN assignments
  ELSE [assignments EXCEPT ![Slot(dv, i)] = [path |-> path, clus |-> ClusMin + i]]

\* ... and the number the path has in it.
ClusOf(path, dv) == get_node_by_path(path, dv)[Slot(dv, NodeIndex(path, dv))].clus

\* get_node_by_clus: the element of the number, or NULL.
get_node_by_clus(clus, dv) ==
  LET i == clus - ClusMin IN
  IF i \in 0 .. MaxAssignments - 1 THEN assignments[Slot(dv, i)] ELSE NULL

\* vfs_statclus: the path of a directory or file known by its number, or NULL.
vfs_statclus(clus, dv) ==
  LET node == get_node_by_clus(clus, dv) IN
  IF node # NULL /\ Exists(dv, Place(node.path)) THEN node.path ELSE NULL

\* vfs_stat succeeds on what exists, and gives it a number.
vfs_stat(path, dv) == Exists(dv, Place(path)) /\ assignments' = get_node_by_path(path, dv)

\* No path has been written behind the table of its drive.
TablesHold == \A s \in Slots :
  assignments[s] # NULL => assignments[s].clus < ClusMin + MaxAssignments

-----------------------------------------------------------------------------
(***************************************************************************)
(* Changes to the host's files.                                            *)
(***************************************************************************)
Create(dv, p, kind) ==
  /\ p \in Places
  /\ ~Exists(dv, p) /\ IsDir(dv, Front(p))
  /\ tree' = [tree EXCEPT ![dv][p] = kind]

\* vfs_unlink: a directory goes only when it is empty.
Removable(dv, p) == p \in Places /\ Exists(dv, p) /\ Children(dv, p) = {}
Delete(dv, p) == tree' = [tree EXCEPT ![dv][p] = "none"]
=============================================================================
