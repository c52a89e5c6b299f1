------------------------------ MODULE MCRedSea ------------------------------
\* RedSea with two tasks that write, remove and read the same files.
EXTENDS RedSea

CONSTANTS t1, t2, x, y, sub, m

Op(op, dir, names, blks, del_dir) ==
  [op |-> op, dir |-> dir, names |-> names, blks |-> blks, del_dir |-> del_dir]

\* t1 makes a directory and puts a file into it; both write x, in the root and in sub.
MCOps ==
  t1 :> {Op("mkdir", NULL, {m}, 1, FALSE), Op("mkdir", NULL, {m}, 2, FALSE), Op("write", m, {x}, 1, FALSE),
         Op("write", NULL, {x}, 1, FALSE), Op("del", NULL, {m}, 0, TRUE),
         Op("write", sub, {x}, 2, FALSE)}
  @@ t2 :> {Op("write", NULL, {x}, 2, FALSE), Op("write", sub, {x}, 1, FALSE),
            Op("write", sub, {y}, 0, FALSE), Op("del", sub, {x, y}, 0, FALSE)}

ASSUME MCOpsAreOwn == Ops = MCOps => OwnDirs

\* One makes a directory, the other removes it and writes a file.
MkDirOps ==
  t1 :> {Op("mkdir", NULL, {m}, 1, FALSE)}
  @@ t2 :> {Op("del", NULL, {m}, 0, TRUE), Op("write", NULL, {x}, 1, FALSE)}
=============================================================================
