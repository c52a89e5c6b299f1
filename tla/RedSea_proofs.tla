----------------------------- MODULE RedSea_proofs -----------------------------
(***************************************************************************)
(* Proofs about RedSea, for any drive, tasks and operations, as long as a  *)
(* directory is made, used and removed by one task (OwnDirs): whatever the *)
(* tasks write, remove and make, and wherever they are killed, a cluster   *)
(* is in one file or directory, or none, and then it is free; directories  *)
(* are as the code takes them for; a file has what was written as it.      *)
(***************************************************************************)
EXTENDS RedSea, SeqLemmas, FiniteSetTheorems, TLAPS

\* What is proved of a drive and its client.
SP == INSTANCE RedSeaSpace_proofs WITH held <- Held

-----------------------------------------------------------------------------
(***************************************************************************)
(* The drive's space.                                                      *)
(***************************************************************************)
SpaceType == [used : SUBSET Clus, built : BOOLEAN, free : SUBSET Run]
ListIsClear(sp) == Space!ListIsClear(sp)

LEMMA SameClus ==
  /\ SP!Clus = Clus /\ Space!Clus = Clus /\ SP!Run = Run /\ Space!Run = Run
  /\ SP!SpaceType = SpaceType
  /\ SP!EmptyRun = EmptyRun /\ Space!EmptyRun = EmptyRun
  BY DEF SP!Clus, Clus, Space!Clus, SP!Run, Space!Run, Run, INVALID_CLUS, SP!INVALID_CLUS, Space!INVALID_CLUS,
     SP!SpaceType, SpaceType, SP!EmptyRun, Space!EmptyRun, EmptyRun

LEMMA SameOf ==
  ASSUME NEW r, NEW q
  PROVE  SP!Of(r) = Of(r) /\ Space!Of(r) = Of(r)
         /\ (SP!Disjoint(r, q) <=> Disjoint(r, q)) /\ (Space!Disjoint(r, q) <=> Disjoint(r, q))
  BY DEF SP!Of, Space!Of, Of, SP!Disjoint, Space!Disjoint, Disjoint

LEMMA SameClear ==
  ASSUME NEW sp PROVE SP!ListIsClear(sp) <=> ListIsClear(sp)
  BY Zenon DEF ListIsClear, SP!ListIsClear, Space!ListIsClear, SP!Clus, Space!Clus, SP!Of, Space!Of,
     SP!Disjoint, Space!Disjoint

LEMMA SameFreed ==
  ASSUME NEW sp, NEW runs PROVE SP!FreedAll(sp, runs) = Space!FreedAll(sp, runs)
  BY Zenon DEF SP!FreedAll, Space!FreedAll, SP!RedSeaFreeClus, Space!RedSeaFreeClus, SP!Listed, Space!Listed,
     SP!Added, Space!Added, SP!Before, Space!Before, SP!After, Space!After, SP!Join, Space!Join,
     SP!RedSeaFreeLstBuild, Space!RedSeaFreeLstBuild, SP!ClearRun, Space!ClearRun,
     SP!Clus, Space!Clus, SP!Run, Space!Run, SP!INVALID_CLUS, Space!INVALID_CLUS, SP!Of, Space!Of

LEMMA SameFree ==
  ASSUME NEW sp, NEW run PROVE SP!RedSeaFreeClus(sp, run) = Space!RedSeaFreeClus(sp, run)
  BY Zenon DEF SP!RedSeaFreeClus, Space!RedSeaFreeClus, SP!Listed, Space!Listed,
     SP!Added, Space!Added, SP!Before, Space!Before, SP!After, Space!After, SP!Join, Space!Join,
     SP!RedSeaFreeLstBuild, Space!RedSeaFreeLstBuild, SP!ClearRun, Space!ClearRun,
     SP!Clus, Space!Clus, SP!Run, Space!Run, SP!INVALID_CLUS, Space!INVALID_CLUS, SP!Of, Space!Of

LEMMA SameAlloc ==
  ASSUME NEW sp, NEW n PROVE SP!RedSeaAllocClus(sp, n) = Space!RedSeaAllocClus(sp, n)
  BY Zenon DEF SP!RedSeaAllocClus, Space!RedSeaAllocClus, SP!Best, Space!Best, SP!Fits, Space!Fits,
     SP!Taken, Space!Taken, SP!Rest, Space!Rest, SP!Listed, Space!Listed,
     SP!RedSeaFreeLstBuild, Space!RedSeaFreeLstBuild, SP!ClearRun, Space!ClearRun,
     SP!Clus, Space!Clus, SP!Run, Space!Run, SP!INVALID_CLUS, Space!INVALID_CLUS, SP!Of, Space!Of

LEMMA FreedAll_ ==
  ASSUME NEW sp \in SpaceType, ListIsClear(sp), NEW runs \in SUBSET Run, IsFiniteSet(runs),
         \A r \in runs : Of(r) \subseteq sp.used, \A r, q \in runs : r = q \/ Disjoint(r, q),
         NEW s \in Space!FreedAll(sp, runs)
  PROVE  s \in SpaceType /\ ListIsClear(s) /\ s.used = sp.used \ UNION {Of(r) : r \in runs}
<1>1. sp \in SP!SpaceType /\ SP!ListIsClear(sp) /\ runs \in SUBSET SP!Run
  BY SameClus, SameClear
<1>2. /\ \A r \in runs : SP!Of(r) \subseteq sp.used
      /\ \A r, q \in runs : r = q \/ SP!Disjoint(r, q)
  BY SameOf
<1>3. s \in SP!FreedAll(sp, runs)
  BY SameFreed
<1>0. SP!IsFiniteSet(runs)
  BY Zenon DEF SP!IsFiniteSet, IsFiniteSet
<1>4. s \in SP!SpaceType /\ SP!ListIsClear(s) /\ s.used = sp.used \ UNION {SP!Of(r) : r \in runs}
  BY <1>0, <1>1, <1>2, <1>3, SP!FreedAllKeeps, DriveAssumption
<1>5. UNION {SP!Of(r) : r \in runs} = UNION {Of(r) : r \in runs}
  BY SameOf
<1> QED BY <1>4, <1>5, SameClus, SameClear

LEMMA Alloc_ ==
  ASSUME NEW sp \in SpaceType, ListIsClear(sp), NEW cnt \in Nat \ {0},
         NEW res \in Space!RedSeaAllocClus(sp, cnt)
  PROVE  LET run == [start |-> res.first, size |-> cnt]
         IN  /\ run \in Run /\ Of(run) \subseteq Clus \ sp.used
             /\ res.space \in SpaceType /\ ListIsClear(res.space)
             /\ res.space.used = sp.used \cup Of(run)
<1> DEFINE run == [start |-> res.first, size |-> cnt]
<1>1. sp \in SP!SpaceType /\ SP!ListIsClear(sp) /\ res \in SP!RedSeaAllocClus(sp, cnt)
  BY SameClus, SameClear, SameAlloc
<1>2. /\ run \in SP!Run /\ SP!Of(run) \subseteq SP!Clus \ sp.used
      /\ res.space \in SP!SpaceType /\ SP!ListIsClear(res.space)
      /\ res.space.used = sp.used \cup SP!Of(run)
  BY <1>1, SP!AllocClusKeeps, DriveAssumption
<1> HIDE DEF run
<1>3. SP!Of(run) = Of(run)
  BY SameOf
<1>4. /\ run \in Run /\ Of(run) \subseteq Clus \ sp.used
      /\ res.space \in SpaceType /\ ListIsClear(res.space)
      /\ res.space.used = sp.used \cup Of(run)
  BY <1>2, <1>3, SameClus, SameClear
<1> QED BY <1>4 DEF run

LEMMA FreedFew_ ==
  ASSUME NEW sp, NEW run
  PROVE  Space!FreedAll(sp, {}) = {sp} /\ Space!FreedAll(sp, {run}) = Space!RedSeaFreeClus(sp, run)
  BY Zenon, SP!FreedFew, SameFreed, SameFree, DriveAssumption

LEMMA Free_ ==
  ASSUME NEW sp \in SpaceType, ListIsClear(sp), NEW run \in Run, Of(run) \subseteq sp.used,
         NEW s \in Space!RedSeaFreeClus(sp, run)
  PROVE  s \in SpaceType /\ ListIsClear(s) /\ s.used = sp.used \ Of(run)
<1>1. IsFiniteSet({run}) /\ s \in Space!FreedAll(sp, {run})
  BY FS_Singleton, FreedFew_
<1>2. s \in SpaceType /\ ListIsClear(s) /\ s.used = sp.used \ UNION {Of(r) : r \in {run}}
  BY <1>1, FreedAll_
<1> QED BY <1>2

LEMMA Forgotten_ ==
  ASSUME NEW sp \in SpaceType
  PROVE  /\ Space!Forgotten(sp) \in SpaceType /\ ListIsClear(Space!Forgotten(sp))
         /\ Space!Forgotten(sp).used = sp.used
  BY DEF Space!Forgotten, SpaceType, ListIsClear, Space!ListIsClear

\* A run, and one without a cluster.
LEMMA RunIs ==
  ASSUME NEW r \in Run
  PROVE  /\ r.start \in Int /\ r.size \in Nat
         /\ r = [start |-> r.start, size |-> r.size]
         /\ \A k : k \in Of(r) <=> k \in Int /\ r.start <= k /\ k < r.start + r.size
         /\ r.size = 0 => Of(r) = {}
         /\ r.size > 0 => r.start \in Of(r)
<1>1. Clus \subseteq Int
  BY DriveAssumption DEF Clus
<1>2. r.start \in Int /\ r.size \in Nat /\ r = [start |-> r.start, size |-> r.size]
  <2>1. r.start \in Clus \cup {INVALID_CLUS} /\ r.size \in 0 .. MaxBlk
    BY Zenon DEF Run
  <2>2. r = [start |-> r.start, size |-> r.size]
    BY Zenon DEF Run
  <2>3. INVALID_CLUS \in Int
    BY DEF INVALID_CLUS
  <2>4. r.size \in Nat
    BY <2>1, DriveAssumption
  <2> QED BY <1>1, <2>1, <2>2, <2>3, <2>4
<1>3. \A k : k \in Of(r) <=> k \in Int /\ r.start <= k /\ k < r.start + r.size
  BY <1>2 DEF Of
<1>4. r.size = 0 => Of(r) = {}
  BY <1>2, <1>3
<1>5. r.size > 0 => r.start \in Of(r)
  BY <1>2, <1>3
<1> QED BY <1>2, <1>3, <1>4, <1>5

LEMMA EmptyIs == EmptyRun \in Run /\ EmptyRun.size = 0 /\ Of(EmptyRun) = {}
<1>1. EmptyRun \in Run /\ EmptyRun.size = 0
  BY DriveAssumption DEF EmptyRun, Run
<1> QED BY <1>1, RunIs

LEMMA RunsFinite_ == ASSUME NEW runs \in SUBSET Run PROVE IsFiniteSet(runs)
<1>1. SP!IsFiniteSet(SP!Run)
  BY SP!RunsFinite, DriveAssumption
<1>2. IsFiniteSet(SP!Run)
  BY <1>1, Zenon DEF SP!IsFiniteSet, IsFiniteSet
<1> QED BY <1>2, SameClus, FS_Subset

-----------------------------------------------------------------------------
(***************************************************************************)
(* The inductive invariant, of a disk dk with its root directory at rc, of *)
(* the calls cl, the orphans or and the space sp: a step that moves a      *)
(* directory and enters a file is two of them for the proof.               *)
(***************************************************************************)
EntryType == [name : Name, dir : BOOLEAN, run : Run]
DirType == [type : {"dir"}, blks : Nat, deleted : Nat, ents : SUBSET EntryType]
DiskType == [Clus -> [type : {"none"}] \cup [type : {"file"}, name : Name, by : Task] \cup DirType]

\* A directory: its name, or NULL, and where it is.
Home(dir, run) == [dir |-> dir, run |-> run]
RootHome(dk, rc) == Home(NULL, [start |-> rc, size |-> dk[rc].blks])
SubHomes(ents) == {Home(e.name, e.run) : e \in {f \in ents : f.dir}}
Homes(dk, rc) == {RootHome(dk, rc)} \cup SubHomes(dk[rc].ents)
RecOf(dk, h) == dk[h.run.start]
FilesIn(ents) == {e \in ents : ~e.dir}

\* A directory's record, for a directory named d that has size clusters.
RecOk(d, size, r) ==
  /\ r \in DirType /\ IsFiniteSet(r.ents)
  /\ r.blks \in {0, size}
  /\ r.blks > 0 => Used(r) < r.blks * Slots
  /\ r.blks = 0 => r.ents = {}
  /\ \A e, f \in r.ents : e.name = f.name => e = f
  /\ \A e \in r.ents : /\ e.dir <=> d = NULL /\ e.name \in DirNames
                       /\ e.dir => e.run.size > 0
                       /\ e.run.size = 0 => e.run = EmptyRun
DirsOk(dk, rc) ==
  /\ dk[rc].blks > 0
  /\ \A h \in Homes(dk, rc) : h.run \in Run /\ h.run.size > 0 /\ RecOk(h.dir, h.run.size, RecOf(dk, h))
  /\ \E h \in Homes(dk, rc) : h.dir = FirstDir

\* A directory without its own size is one that is being made, or that whoever made
\* it was killed before it was written.
Making(c, run) == c.at = "dead" \/ (c.at = "fill" /\ c.run = run)
MakersOk(dk, rc, cl) ==
  \A h \in Homes(dk, rc) :
    RecOf(dk, h).blks = 0 => \E t \in Task : h.dir \in Made(t) /\ Making(cl[t], h.run)

\* A file has what a task wrote.
Whole(dk, e) == \E t \in Task : \A k \in Of(e.run) : dk[k] = Data(e.name, t)
FilesOk(dk, rc) == \A h \in Homes(dk, rc) : \A e \in FilesIn(RecOf(dk, h).ents) : Whole(dk, e)

\* Where a task is in its operation, and what it has done.
NameOf(op) == CHOOSE n \in op.names : TRUE
Written(dk, c, t) ==
  IF c.op.op = "mkdir" THEN dk[c.run.start] = Dir(0, {}, 0)
  ELSE \A k \in Of(c.run) : dk[k] = Data(NameOf(c.op), t)
Working(c) == c.at \in {"del", "alloc", "write", "enter", "fill"}
CallOk(c) ==
  /\ c = [at |-> c.at, op |-> c.op, run |-> c.run]
  /\ c.at \in {"idle", "dead"} \/ Working(c)
  /\ c.run \in Run
  /\ c.at \in {"idle", "del", "alloc", "dead"} => c.run = EmptyRun
  /\ c.run.size = 0 => c.run = EmptyRun
StepOk(dk, rc, c, t) ==
  /\ Working(c) =>
       /\ c.op \in Ops[t]
       /\ \E h \in Homes(dk, rc) : h.dir = c.op.dir
       /\ c.op.op = "del" => c.at = "del"
       /\ c.op.op = "mkdir" /\ c.at # "fill" => \A e \in dk[rc].ents : e.name \notin c.op.names
  /\ c.at \in {"write", "enter", "fill"} => c.run.size = c.op.blks
  /\ c.at = "enter" => Written(dk, c, t)
  /\ c.at = "fill" => /\ c.op.op = "mkdir" /\ Written(dk, c, t)
                      /\ Entry(NameOf(c.op), TRUE, c.run) \in dk[rc].ents

\* Who has which clusters.
Claim(what, dir, name, run) == [what |-> what, dir |-> dir, name |-> name, run |-> run]
DirClaim(h) == Claim("dir", h.dir, NULL, h.run)
FileClaim(h, e) == Claim("file", h.dir, e.name, e.run)
TaskClaim(t, run) == Claim("task", NULL, t, run)
OrphanClaim(run) == Claim("orphan", NULL, NULL, run)
FileClaims(dk, h) == {FileClaim(h, e) : e \in FilesIn(RecOf(dk, h).ents)}
Claims(dk, rc, cl, or) ==
  {DirClaim(h) : h \in Homes(dk, rc)}
  \cup (UNION {FileClaims(dk, h) : h \in Homes(dk, rc)})
  \cup {TaskClaim(t, cl[t].run) : t \in {u \in Task : cl[u].at \in {"write", "enter"}}}
  \cup {OrphanClaim(run) : run \in or}
ClaimedBy(claims) == UNION {Of(a.run) : a \in claims}
Apart(claims) == \A a, b \in claims : a = b \/ Disjoint(a.run, b.run)
SpaceOk(claims, sp) ==
  /\ sp \in SpaceType /\ ListIsClear(sp)
  /\ sp.used = {DataArea} \cup ClaimedBy(claims)
  /\ DataArea \notin ClaimedBy(claims) /\ Apart(claims)

Good(dk, rc, cl, or, sp) ==
  /\ dk \in DiskType /\ rc \in Clus
  /\ or \subseteq Run /\ \A run \in or : run.size > 0
  /\ DOMAIN cl = Task /\ cl = [t \in Task |-> cl[t]] /\ \A t \in Task : CallOk(cl[t]) /\ StepOk(dk, rc, cl[t], t)
  /\ DirsOk(dk, rc) /\ MakersOk(dk, rc, cl) /\ FilesOk(dk, rc)
  /\ SpaceOk(Claims(dk, rc, cl, or), sp)
IInv == up \in BOOLEAN /\ Good(disk, root_clus, call, orphans, space)

-----------------------------------------------------------------------------
(***************************************************************************)
(* Directories and claims.                                                 *)
(***************************************************************************)
LEMMA HomeFields ==
  ASSUME NEW d, NEW run
  PROVE  Home(d, run).dir = d /\ Home(d, run).run = run
  BY DEF Home

LEMMA SubHomeIn ==
  ASSUME NEW dk, NEW rc, NEW e \in dk[rc].ents, e.dir
  PROVE  Home(e.name, e.run) \in Homes(dk, rc)
  BY DEF Homes, SubHomes

LEMMA SubHomeFrom ==
  ASSUME NEW dk, NEW rc, NEW h \in Homes(dk, rc), h # RootHome(dk, rc)
  PROVE  \E e \in dk[rc].ents : e.dir /\ h = Home(e.name, e.run)
  BY DEF Homes, SubHomes

LEMMA HomeCases ==
  ASSUME NEW dk, NEW rc, NEW h
  PROVE  h \in Homes(dk, rc) <=>
           h = RootHome(dk, rc) \/ \E e \in dk[rc].ents : e.dir /\ h = Home(e.name, e.run)
  BY Zenon DEF Homes, SubHomes

LEMMA RootFields ==
  ASSUME NEW dk, NEW rc
  PROVE  /\ RootHome(dk, rc) \in Homes(dk, rc) /\ RootHome(dk, rc).dir = NULL
         /\ RootHome(dk, rc).run.start = rc /\ RootHome(dk, rc).run.size = dk[rc].blks
<1>1. RootHome(dk, rc).dir = NULL /\ RootHome(dk, rc).run = [start |-> rc, size |-> dk[rc].blks]
  BY HomeFields DEF RootHome
<1> QED BY <1>1 DEF Homes

\* The claims by kind, which tell them apart.
LEMMA ClaimFields ==
  /\ \A h : DirClaim(h).run = h.run
  /\ \A h, e : FileClaim(h, e).run = e.run
  /\ \A t, run : TaskClaim(t, run).run = run
  /\ \A run : OrphanClaim(run).run = run
  BY DEF DirClaim, FileClaim, TaskClaim, OrphanClaim, Claim

LEMMA KindsDiffer ==
  /\ \A g, h, e : DirClaim(g) # FileClaim(h, e)
  /\ \A g, t, run : DirClaim(g) # TaskClaim(t, run)
  /\ \A g, run : DirClaim(g) # OrphanClaim(run)
  /\ \A h, e, t, run : FileClaim(h, e) # TaskClaim(t, run)
  /\ \A h, e, run : FileClaim(h, e) # OrphanClaim(run)
  /\ \A t, run, run2 : TaskClaim(t, run) # OrphanClaim(run2)
<1>1. /\ \A h : DirClaim(h).what = "dir"
      /\ \A h, e : FileClaim(h, e).what = "file"
      /\ \A t, run : TaskClaim(t, run).what = "task"
      /\ \A run : OrphanClaim(run).what = "orphan"
  BY DEF DirClaim, FileClaim, TaskClaim, OrphanClaim, Claim
<1> QED BY <1>1

LEMMA SameClaim ==
  /\ \A h, g : DirClaim(h) = DirClaim(g) => h.dir = g.dir /\ h.run = g.run
  /\ \A h, g, e, f : FileClaim(h, e) = FileClaim(g, f) =>
       h.dir = g.dir /\ e.name = f.name /\ e.run = f.run
  /\ \A t, u, run, run2 : TaskClaim(t, run) = TaskClaim(u, run2) => t = u /\ run = run2
  /\ \A run, run2 : OrphanClaim(run) = OrphanClaim(run2) => run = run2
<1>1. \A h : DirClaim(h).dir = h.dir /\ DirClaim(h).run = h.run
  BY DEF DirClaim, Claim
<1>2. \A h, e : /\ FileClaim(h, e).dir = h.dir /\ FileClaim(h, e).name = e.name
                /\ FileClaim(h, e).run = e.run
  BY DEF FileClaim, Claim
<1>3. \A t, run : TaskClaim(t, run).name = t /\ TaskClaim(t, run).run = run
  BY DEF TaskClaim, Claim
<1>4. \A run : OrphanClaim(run).run = run
  BY DEF OrphanClaim, Claim
<1>5. ASSUME NEW h, NEW g, DirClaim(h) = DirClaim(g) PROVE h.dir = g.dir /\ h.run = g.run
  BY <1>1, <1>5
<1>6. ASSUME NEW h, NEW g, NEW e, NEW f, FileClaim(h, e) = FileClaim(g, f)
      PROVE  h.dir = g.dir /\ e.name = f.name /\ e.run = f.run
  BY <1>2, <1>6
<1>7. ASSUME NEW t, NEW u, NEW run, NEW run2, TaskClaim(t, run) = TaskClaim(u, run2)
      PROVE  t = u /\ run = run2
  BY <1>3, <1>7
<1>8. ASSUME NEW run, NEW run2, OrphanClaim(run) = OrphanClaim(run2) PROVE run = run2
  BY <1>4, <1>8
<1> QED BY <1>5, <1>6, <1>7, <1>8

LEMMA SameFileClaim ==
  ASSUME NEW h, NEW g, NEW e, NEW f, FileClaim(h, e) = FileClaim(g, f)
  PROVE  h.dir = g.dir /\ e.name = f.name /\ e.run = f.run
  BY SameClaim

LEMMA ClaimCases ==
  ASSUME NEW dk, NEW rc, NEW cl, NEW or, NEW x
  PROVE  x \in Claims(dk, rc, cl, or) <=>
           \/ \E h \in Homes(dk, rc) : x = DirClaim(h)
           \/ \E h \in Homes(dk, rc) : \E e \in FilesIn(RecOf(dk, h).ents) : x = FileClaim(h, e)
           \/ \E t \in Task : cl[t].at \in {"write", "enter"} /\ x = TaskClaim(t, cl[t].run)
           \/ \E run \in or : x = OrphanClaim(run)
<1> DEFINE D == {DirClaim(h) : h \in Homes(dk, rc)}
           F == UNION {FileClaims(dk, h) : h \in Homes(dk, rc)}
           T == {TaskClaim(t, cl[t].run) : t \in {u \in Task : cl[u].at \in {"write", "enter"}}}
           O == {OrphanClaim(run) : run \in or}
<1>1. x \in D <=> \E h \in Homes(dk, rc) : x = DirClaim(h)
  BY Zenon
<1>2. x \in F <=> \E h \in Homes(dk, rc) : \E e \in FilesIn(RecOf(dk, h).ents) : x = FileClaim(h, e)
  <2>1. x \in F <=> \E h \in Homes(dk, rc) : x \in FileClaims(dk, h)
    BY Zenon
  <2>2. \A h : x \in FileClaims(dk, h) <=> \E e \in FilesIn(RecOf(dk, h).ents) : x = FileClaim(h, e)
    BY Zenon DEF FileClaims
  <2> QED BY Zenon, <2>1, <2>2
<1>3. x \in T <=> \E t \in Task : cl[t].at \in {"write", "enter"} /\ x = TaskClaim(t, cl[t].run)
  <2>1. \A t : t \in {u \in Task : cl[u].at \in {"write", "enter"}} <=> t \in Task /\ cl[t].at \in {"write", "enter"}
    BY Zenon
  <2> QED BY Zenon, <2>1
<1>4. x \in O <=> \E run \in or : x = OrphanClaim(run)
  BY Zenon
<1>5. Claims(dk, rc, cl, or) = D \cup F \cup T \cup O
  BY Zenon DEF Claims
<1> HIDE DEF D, F, T, O
<1> QED BY <1>1, <1>2, <1>3, <1>4, <1>5

IsClaim(dk, rc, cl, or, x) ==
  \/ \E h \in Homes(dk, rc) : x = DirClaim(h)
  \/ \E h \in Homes(dk, rc) : \E e \in FilesIn(RecOf(dk, h).ents) : x = FileClaim(h, e)
  \/ \E t \in Task : cl[t].at \in {"write", "enter"} /\ x = TaskClaim(t, cl[t].run)
  \/ \E run \in or : x = OrphanClaim(run)

LEMMA ClaimFrom ==
  ASSUME NEW dk, NEW rc, NEW cl, NEW or, NEW x \in Claims(dk, rc, cl, or)
  PROVE  IsClaim(dk, rc, cl, or, x)
  BY ClaimCases DEF IsClaim

\* The same, one kind at a time.
LEMMA DirClaimIn ==
  ASSUME NEW dk, NEW rc, NEW cl, NEW or, NEW h \in Homes(dk, rc)
  PROVE  DirClaim(h) \in Claims(dk, rc, cl, or)
  BY DEF Claims

LEMMA FileClaimIn ==
  ASSUME NEW dk, NEW rc, NEW cl, NEW or, NEW h \in Homes(dk, rc), NEW e \in FilesIn(RecOf(dk, h).ents)
  PROVE  FileClaim(h, e) \in Claims(dk, rc, cl, or)
<1>1. FileClaim(h, e) \in FileClaims(dk, h)
  BY Zenon DEF FileClaims
<1> QED BY <1>1 DEF Claims

LEMMA TaskClaimIn ==
  ASSUME NEW dk, NEW rc, NEW cl, NEW or, NEW t \in Task, cl[t].at \in {"write", "enter"}
  PROVE  TaskClaim(t, cl[t].run) \in Claims(dk, rc, cl, or)
  BY DEF Claims

LEMMA OrphanClaimIn ==
  ASSUME NEW dk, NEW rc, NEW cl, NEW or, NEW run \in or
  PROVE  OrphanClaim(run) \in Claims(dk, rc, cl, or)
  BY DEF Claims

LEMMA InClaimed ==
  ASSUME NEW claims, NEW k
  PROVE  k \in ClaimedBy(claims) <=> \E a \in claims : k \in Of(a.run)
  BY DEF ClaimedBy

\* Claims that are given up, and claims that take their place or clusters that are free.
LEMMA Reclaimed ==
  ASSUME NEW claims, NEW gone \in SUBSET claims, NEW new, Apart(claims),
         \A a, b \in new : a = b \/ Disjoint(a.run, b.run),
         \A a \in new : \A k \in Of(a.run) : k \in ClaimedBy(gone) \/ k \notin ClaimedBy(claims)
  PROVE  LET now == (claims \ gone) \cup new
         IN  /\ Apart(now)
             /\ \A k : k \in ClaimedBy(now) <=>
                   \/ k \in ClaimedBy(claims) /\ k \notin ClaimedBy(gone)
                   \/ k \in ClaimedBy(new)
<1> DEFINE now == (claims \ gone) \cup new
<1>1. \A a, b \in claims : a = b \/ \A k : ~(k \in Of(a.run) /\ k \in Of(b.run))
  BY Zenon DEF Apart, Disjoint
<1>2. ASSUME NEW a \in claims \ gone, NEW k \in Of(a.run) PROVE k \in ClaimedBy(claims) /\ k \notin ClaimedBy(gone)
  <2>1. k \in ClaimedBy(claims)
    BY Zenon, InClaimed
  <2>2. ASSUME NEW b \in gone, k \in Of(b.run) PROVE FALSE
    BY Zenon, <1>1, <2>2
  <2> QED BY <2>1, <2>2, InClaimed
<1>3. ASSUME NEW a \in claims \ gone, NEW b \in new, NEW k, k \in Of(a.run), k \in Of(b.run) PROVE FALSE
  BY Zenon, <1>2, <1>3
<1>4. ASSUME NEW a \in now, NEW b \in now, a # b PROVE Disjoint(a.run, b.run)
  <2>1. \A k : ~(k \in Of(a.run) /\ k \in Of(b.run))
    BY Zenon, <1>1, <1>3, <1>4 DEF Disjoint
  <2> QED BY Zenon, <2>1 DEF Disjoint
<1>5. Apart(now)
  BY Zenon, <1>4 DEF Apart
<1>6. ASSUME NEW k, k \in ClaimedBy(now)
      PROVE  (k \in ClaimedBy(claims) /\ k \notin ClaimedBy(gone)) \/ k \in ClaimedBy(new)
  <2>1. PICK a \in now : k \in Of(a.run)
    BY Zenon, <1>6, InClaimed
  <2>2. CASE a \in claims \ gone
    BY Zenon, <1>2, <2>1, <2>2
  <2>3. CASE a \in new
    BY Zenon, <2>1, <2>3, InClaimed
  <2> QED BY <2>2, <2>3
<1>7. ASSUME NEW k, k \in ClaimedBy(claims), k \notin ClaimedBy(gone) PROVE k \in ClaimedBy(now)
  <2>1. PICK a \in claims : k \in Of(a.run)
    BY Zenon, <1>7, InClaimed
  <2>2. a \notin gone
    BY Zenon, <1>7, <2>1, InClaimed
  <2> QED BY Zenon, <2>1, <2>2, InClaimed
<1>8. ASSUME NEW k, k \in ClaimedBy(new) PROVE k \in ClaimedBy(now)
  BY Zenon, <1>8, InClaimed
<1> HIDE DEF now
<1>9. \A k : k \in ClaimedBy(now) <=>
          \/ k \in ClaimedBy(claims) /\ k \notin ClaimedBy(gone)
          \/ k \in ClaimedBy(new)
  BY Zenon, <1>6, <1>7, <1>8
<1> QED BY <1>5, <1>9 DEF now

\* ... of a drive whose space changes alike.
LEMMA SpaceKeeps ==
  ASSUME NEW claims, NEW gone \in SUBSET claims, NEW new, NEW sp, SpaceOk(claims, sp),
         \A a, b \in new : a = b \/ Disjoint(a.run, b.run),
         \A a \in new : \A k \in Of(a.run) : k \in ClaimedBy(gone) \/ (k \in Clus /\ k \notin sp.used),
         NEW sp2 \in SpaceType, ListIsClear(sp2),
         \A k : k \in sp2.used <=>
           (k \in sp.used /\ k \notin ClaimedBy(gone)) \/ k \in ClaimedBy(new)
  PROVE  SpaceOk((claims \ gone) \cup new, sp2)
<1> DEFINE now == (claims \ gone) \cup new
<1>1. /\ sp.used = {DataArea} \cup ClaimedBy(claims)
      /\ DataArea \notin ClaimedBy(claims) /\ Apart(claims)
  BY DEF SpaceOk
<1>2. \A a \in new : \A k \in Of(a.run) : k \in ClaimedBy(gone) \/ k \notin ClaimedBy(claims)
  BY <1>1
<1> HIDE DEF now
<1>3. /\ Apart(now)
      /\ \A k : k \in ClaimedBy(now) <=>
            \/ k \in ClaimedBy(claims) /\ k \notin ClaimedBy(gone)
            \/ k \in ClaimedBy(new)
  BY Zenon, <1>1, <1>2, Reclaimed DEF now
<1>4. \A k : k \in ClaimedBy(gone) => k \in ClaimedBy(claims)
  BY Zenon DEF ClaimedBy
<1>5. DataArea \notin ClaimedBy(new)
  <2>1. ASSUME NEW a \in new, DataArea \in Of(a.run) PROVE FALSE
    BY <2>1, <1>1, <1>4
  <2> QED BY Zenon, <2>1 DEF ClaimedBy
<1>6. DataArea \notin ClaimedBy(now)
  BY <1>1, <1>3, <1>5
<1>7. \A k : k \in sp2.used <=> k = DataArea \/ k \in ClaimedBy(now)
  BY <1>1, <1>3, <1>4
<1>8. sp2.used = {DataArea} \cup ClaimedBy(now)
  BY <1>7
<1>9. SpaceOk(now, sp2)
  BY <1>3, <1>6, <1>8 DEF SpaceOk
<1> QED BY <1>9 DEF now

-----------------------------------------------------------------------------
(***************************************************************************)
(* What the invariant says of a directory, a file and a task's clusters.   *)
(***************************************************************************)
LEMMA ClaimedAre ==
  ASSUME NEW claims, NEW sp, SpaceOk(claims, sp), NEW a \in claims
  PROVE  /\ Of(a.run) \subseteq sp.used /\ Of(a.run) \subseteq Clus /\ DataArea \notin Of(a.run)
         /\ \A b \in claims : a = b \/ \A k : ~(k \in Of(a.run) /\ k \in Of(b.run))
<1>1. /\ sp.used = {DataArea} \cup ClaimedBy(claims) /\ DataArea \notin ClaimedBy(claims)
      /\ sp.used \subseteq Clus
  BY DEF SpaceOk, SpaceType
<1>2. \A k \in Of(a.run) : k \in ClaimedBy(claims)
  BY Zenon, InClaimed
<1>3. \A x, y \in claims : x = y \/ \A k : ~(k \in Of(x.run) /\ k \in Of(y.run))
  BY Zenon DEF SpaceOk, Apart, Disjoint
<1> QED BY <1>1, <1>2, <1>3

LEMMA HomeIs ==
  ASSUME NEW dk, NEW rc, NEW cl, NEW or, NEW sp, Good(dk, rc, cl, or, sp), NEW h \in Homes(dk, rc)
  PROVE  /\ h = Home(h.dir, h.run) /\ h.run \in Run /\ h.run.size > 0 /\ h.run.size \in Nat
         /\ RecOk(h.dir, h.run.size, RecOf(dk, h))
         /\ h.run.start \in Of(h.run) /\ h.run.start \in Clus
         /\ Of(h.run) \subseteq sp.used /\ Of(h.run) \subseteq Clus
         /\ DirClaim(h) \in Claims(dk, rc, cl, or)
<1>1. h.run \in Run /\ h.run.size > 0 /\ RecOk(h.dir, h.run.size, RecOf(dk, h))
  BY Zenon DEF Good, DirsOk
<1>2. h = Home(h.dir, h.run)
  <2>0. ASSUME NEW d, NEW run, h = Home(d, run) PROVE h = Home(h.dir, h.run)
    BY Zenon, <2>0, HomeFields
  <2>1. CASE h = RootHome(dk, rc)
    BY <2>0, <2>1 DEF RootHome
  <2>2. CASE h # RootHome(dk, rc)
    BY <2>0, <2>2, SubHomeFrom
  <2> QED BY <2>1, <2>2
<1>3. DirClaim(h) \in Claims(dk, rc, cl, or) /\ DirClaim(h).run = h.run
  BY Zenon, DirClaimIn, ClaimFields
<1>4. SpaceOk(Claims(dk, rc, cl, or), sp)
  BY Zenon DEF Good
<1>5. Of(h.run) \subseteq sp.used /\ Of(h.run) \subseteq Clus
  BY Zenon, <1>3, <1>4, ClaimedAre
<1>6. h.run.start \in Of(h.run) /\ h.run.size \in Nat
  BY <1>1, RunIs
<1> QED BY <1>1, <1>2, <1>3, <1>5, <1>6

\* An entry of the root directory.
LEMMA RootEntry ==
  ASSUME NEW dk, NEW rc, NEW cl, NEW or, NEW sp, Good(dk, rc, cl, or, sp), NEW e \in dk[rc].ents
  PROVE  /\ e \in EntryType /\ e.name # NULL
         /\ e.dir <=> e.name \in DirNames
         /\ e.dir => Home(e.name, e.run) \in Homes(dk, rc)
         /\ \A f \in dk[rc].ents : e.name = f.name => e = f
<1>1. RecOk(NULL, RootHome(dk, rc).run.size, dk[rc])
  <2> DEFINE h == RootHome(dk, rc)
  <2>1. h \in Homes(dk, rc) /\ h.dir = NULL /\ h.run.start = rc
    BY RootFields
  <2> HIDE DEF h
  <2>2. RecOk(h.dir, h.run.size, RecOf(dk, h))
    BY Zenon, <2>1, HomeIs
  <2> QED BY <2>1, <2>2 DEF RecOf, h
<1>2. dk[rc].ents \subseteq EntryType
  BY <1>1 DEF RecOk, DirType
<1>3. e \in EntryType /\ e.name \in Name
  BY Zenon, <1>2 DEF EntryType
<1>4. e.dir => Home(e.name, e.run) \in Homes(dk, rc)
  BY Zenon, SubHomeIn
<1>5. e.dir <=> e.name \in DirNames
  BY Zenon, <1>1 DEF RecOk
<1>6. \A f \in dk[rc].ents : e.name = f.name => e = f
  BY Zenon, <1>1 DEF RecOk
<1> QED BY <1>3, <1>4, <1>5, <1>6, RedSeaAssumption

LEMMA OtherHome ==
  ASSUME NEW dk, NEW rc, NEW cl, NEW or, NEW sp, Good(dk, rc, cl, or, sp),
         NEW h \in Homes(dk, rc), h # RootHome(dk, rc)
  PROVE  h.dir \in DirNames /\ h.dir # NULL /\ Entry(h.dir, TRUE, h.run) \in dk[rc].ents
<1>1. PICK e \in dk[rc].ents : e.dir /\ h = Home(e.name, e.run)
  BY SubHomeFrom
<1>2. e \in EntryType /\ e.name # NULL /\ e.name \in DirNames
  BY Zenon, <1>1, RootEntry
<1>3. h.dir = e.name /\ h.run = e.run
  BY <1>1, HomeFields
<1>4. e = Entry(e.name, TRUE, e.run)
  BY <1>1, <1>2 DEF EntryType, Entry
<1> QED BY <1>2, <1>3, <1>4

LEMMA RootIs ==
  ASSUME NEW dk, NEW rc, NEW cl, NEW or, NEW sp, Good(dk, rc, cl, or, sp),
         NEW h \in Homes(dk, rc), h.dir = NULL
  PROVE  h = RootHome(dk, rc) /\ h.run.start = rc /\ RecOf(dk, h) = dk[rc]
<1>1. h = RootHome(dk, rc)
  BY Zenon, OtherHome
<1>2. RootHome(dk, rc).run.start = rc
  BY Zenon, RootFields
<1> QED BY <1>1, <1>2 DEF RecOf

LEMMA SubIs ==
  ASSUME NEW dk, NEW rc, NEW cl, NEW or, NEW sp, Good(dk, rc, cl, or, sp),
         NEW h \in Homes(dk, rc), h.dir # NULL
  PROVE  h # RootHome(dk, rc) /\ h.dir \in DirNames /\ Entry(h.dir, TRUE, h.run) \in dk[rc].ents
<1>1. h # RootHome(dk, rc)
  <2>1. RootHome(dk, rc).dir = NULL
    BY Zenon, RootFields
  <2> QED BY <2>1
<1>2. h.dir \in DirNames /\ Entry(h.dir, TRUE, h.run) \in dk[rc].ents
  BY Zenon, <1>1, OtherHome
<1> QED BY <1>1, <1>2

LEMMA HomesDiffer ==
  ASSUME NEW dk, NEW rc, NEW cl, NEW or, NEW sp, Good(dk, rc, cl, or, sp),
         NEW h \in Homes(dk, rc), NEW g \in Homes(dk, rc), g # h
  PROVE  g.dir # h.dir /\ \A k : ~(k \in Of(h.run) /\ k \in Of(g.run))
<1>1. ASSUME g.dir = h.dir PROVE FALSE
  <2>1. CASE g.dir = NULL
    <3>1. h.dir = NULL
      BY <1>1, <2>1
    <3>2. h = RootHome(dk, rc) /\ g = RootHome(dk, rc)
      BY Zenon, <2>1, <3>1, RootIs
    <3> QED BY <3>2
  <2>2. CASE g.dir # NULL
    <3>1. Entry(g.dir, TRUE, g.run) \in dk[rc].ents /\ Entry(h.dir, TRUE, h.run) \in dk[rc].ents
      BY Zenon, <1>1, <2>2, SubIs
    <3>2. /\ Entry(g.dir, TRUE, g.run).name = g.dir /\ Entry(h.dir, TRUE, h.run).name = h.dir
          /\ Entry(g.dir, TRUE, g.run).run = g.run /\ Entry(h.dir, TRUE, h.run).run = h.run
      BY DEF Entry
    <3>3. Entry(g.dir, TRUE, g.run) = Entry(h.dir, TRUE, h.run)
      BY Zenon, <1>1, <3>1, <3>2, RootEntry
    <3>4. g.run = h.run
      BY Zenon, <3>2, <3>3
    <3>5. h = Home(h.dir, h.run) /\ g = Home(g.dir, g.run)
      BY Zenon, HomeIs
    <3> QED BY <1>1, <3>4, <3>5
  <2> QED BY <2>1, <2>2
<1>2. DirClaim(h) \in Claims(dk, rc, cl, or) /\ DirClaim(g) \in Claims(dk, rc, cl, or)
  BY Zenon, DirClaimIn
<1>3. DirClaim(h).run = h.run /\ DirClaim(g).run = g.run
  BY Zenon, ClaimFields
<1>4. DirClaim(h) # DirClaim(g)
  BY Zenon, <1>1, SameClaim
<1>5. SpaceOk(Claims(dk, rc, cl, or), sp)
  BY Zenon DEF Good
<1>6. \A k : ~(k \in Of(h.run) /\ k \in Of(g.run))
  BY Zenon, <1>2, <1>3, <1>4, <1>5, ClaimedAre
<1> QED BY <1>1, <1>6

\* The clusters of a file are not those of a directory, nor those of a task that
\* writes.
LEMMA FileIs ==
  ASSUME NEW dk, NEW rc, NEW cl, NEW or, NEW sp, Good(dk, rc, cl, or, sp),
         NEW h \in Homes(dk, rc), NEW e \in FilesIn(RecOf(dk, h).ents)
  PROVE  /\ e \in EntryType /\ ~e.dir /\ e.run \in Run
         /\ FileClaim(h, e) \in Claims(dk, rc, cl, or) /\ Of(e.run) \subseteq sp.used
         /\ \A g \in Homes(dk, rc) : \A k : ~(k \in Of(g.run) /\ k \in Of(e.run))
<1>1. e \in RecOf(dk, h).ents /\ ~e.dir
  BY DEF FilesIn
<1>2. RecOf(dk, h) \in DirType
  BY Zenon, HomeIs DEF RecOk
<1>3. e \in EntryType /\ e.run \in Run
  BY <1>1, <1>2 DEF DirType, EntryType
<1>4. FileClaim(h, e) \in Claims(dk, rc, cl, or) /\ FileClaim(h, e).run = e.run
  BY Zenon, FileClaimIn, ClaimFields
<1>5. SpaceOk(Claims(dk, rc, cl, or), sp)
  BY Zenon DEF Good
<1>6. Of(e.run) \subseteq sp.used
  BY Zenon, <1>4, <1>5, ClaimedAre
<1>7. ASSUME NEW g \in Homes(dk, rc) PROVE \A k : ~(k \in Of(g.run) /\ k \in Of(e.run))
  <2>1. DirClaim(g) \in Claims(dk, rc, cl, or) /\ DirClaim(g).run = g.run
    BY Zenon, HomeIs, ClaimFields
  <2>2. DirClaim(g) # FileClaim(h, e)
    BY Zenon, KindsDiffer
  <2> QED BY Zenon, <1>4, <1>5, <2>1, <2>2, ClaimedAre
<1> QED BY <1>1, <1>3, <1>4, <1>6, <1>7

LEMMA TaskIs ==
  ASSUME NEW dk, NEW rc, NEW cl, NEW or, NEW sp, Good(dk, rc, cl, or, sp),
         NEW t \in Task, cl[t].at \in {"write", "enter"}
  PROVE  /\ TaskClaim(t, cl[t].run) \in Claims(dk, rc, cl, or) /\ Of(cl[t].run) \subseteq sp.used
         /\ \A h \in Homes(dk, rc) : \A k : ~(k \in Of(h.run) /\ k \in Of(cl[t].run))
         /\ \A h \in Homes(dk, rc) : \A e \in FilesIn(RecOf(dk, h).ents) :
              \A k : ~(k \in Of(e.run) /\ k \in Of(cl[t].run))
         /\ \A u \in Task : u # t /\ cl[u].at \in {"write", "enter"} =>
              \A k : ~(k \in Of(cl[u].run) /\ k \in Of(cl[t].run))
<1> DEFINE C == Claims(dk, rc, cl, or)
<1>1. TaskClaim(t, cl[t].run) \in C /\ TaskClaim(t, cl[t].run).run = cl[t].run
  BY TaskClaimIn, ClaimFields
<1>2. SpaceOk(C, sp)
  BY Zenon DEF Good
<1> HIDE DEF C
<1>3. Of(cl[t].run) \subseteq sp.used
  BY Zenon, <1>1, <1>2, ClaimedAre
<1>4. ASSUME NEW h \in Homes(dk, rc) PROVE \A k : ~(k \in Of(h.run) /\ k \in Of(cl[t].run))
  <2>1. DirClaim(h) \in C /\ DirClaim(h).run = h.run /\ DirClaim(h) # TaskClaim(t, cl[t].run)
    BY HomeIs, ClaimFields, KindsDiffer DEF C
  <2> QED BY Zenon, <1>1, <1>2, <2>1, ClaimedAre
<1>5. ASSUME NEW h \in Homes(dk, rc), NEW e \in FilesIn(RecOf(dk, h).ents)
      PROVE  \A k : ~(k \in Of(e.run) /\ k \in Of(cl[t].run))
  <2>1. FileClaim(h, e) \in C /\ FileClaim(h, e).run = e.run /\ FileClaim(h, e) # TaskClaim(t, cl[t].run)
    BY FileIs, ClaimFields, KindsDiffer DEF C
  <2> QED BY Zenon, <1>1, <1>2, <2>1, ClaimedAre
<1>6. ASSUME NEW u \in Task, u # t, cl[u].at \in {"write", "enter"}
      PROVE  \A k : ~(k \in Of(cl[u].run) /\ k \in Of(cl[t].run))
  <2>1. TaskClaim(u, cl[u].run) \in C /\ TaskClaim(u, cl[u].run).run = cl[u].run
    BY <1>6, TaskClaimIn, ClaimFields DEF C
  <2>2. TaskClaim(u, cl[u].run) # TaskClaim(t, cl[t].run)
    BY <1>6, SameClaim
  <2> QED BY Zenon, <1>1, <1>2, <2>1, <2>2, ClaimedAre
<1> QED BY <1>1, <1>3, <1>4, <1>5, <1>6 DEF C

\* An entry, of a file or a directory, and its clusters.
EntryClaim(h, e) == IF e.dir THEN DirClaim(Home(e.name, e.run)) ELSE FileClaim(h, e)

LEMMA EntryIs ==
  ASSUME NEW dk, NEW rc, NEW cl, NEW or, NEW sp, Good(dk, rc, cl, or, sp),
         NEW h \in Homes(dk, rc), NEW e \in RecOf(dk, h).ents
  PROVE  /\ e \in EntryType /\ e.run \in Run
         /\ e.dir => h.dir = NULL /\ e.name \in DirNames /\ e \in dk[rc].ents
                     /\ Home(e.name, e.run) \in Homes(dk, rc)
         /\ ~e.dir => e \in FilesIn(RecOf(dk, h).ents)
         /\ EntryClaim(h, e) \in Claims(dk, rc, cl, or) /\ EntryClaim(h, e).run = e.run
         /\ Of(e.run) \subseteq sp.used
         /\ \A f \in RecOf(dk, h).ents : e.name = f.name => e = f
<1>1. RecOk(h.dir, h.run.size, RecOf(dk, h))
  BY Zenon, HomeIs
<1>2. e \in EntryType /\ e.run \in Run /\ e.dir \in BOOLEAN
  BY <1>1 DEF RecOk, DirType, EntryType
<1>3. e.dir => h.dir = NULL /\ e.name \in DirNames
  BY <1>1 DEF RecOk
<1>4. \A f \in RecOf(dk, h).ents : e.name = f.name => e = f
  BY <1>1 DEF RecOk
<1>5. e.dir => e \in dk[rc].ents
  <2>1. e.dir => RecOf(dk, h) = dk[rc]
    BY Zenon, <1>3, RootIs
  <2> QED BY <2>1
<1>6. e.dir => Home(e.name, e.run) \in Homes(dk, rc)
  BY Zenon, <1>5, SubHomeIn
<1>7. ~e.dir => e \in FilesIn(RecOf(dk, h).ents)
  BY DEF FilesIn
<1>8. EntryClaim(h, e) \in Claims(dk, rc, cl, or) /\ EntryClaim(h, e).run = e.run
  <2>1. CASE e.dir
    <3>1. EntryClaim(h, e) = DirClaim(Home(e.name, e.run)) /\ Home(e.name, e.run).run = e.run
      BY <2>1, HomeFields DEF EntryClaim
    <3>2. DirClaim(Home(e.name, e.run)).run = Home(e.name, e.run).run
      BY Zenon, ClaimFields
    <3>3. DirClaim(Home(e.name, e.run)) \in Claims(dk, rc, cl, or)
      BY Zenon, <1>6, <2>1, DirClaimIn
    <3> QED BY <3>1, <3>2, <3>3
  <2>2. CASE ~e.dir
    <3>1. EntryClaim(h, e) = FileClaim(h, e)
      BY <2>2 DEF EntryClaim
    <3>2. FileClaim(h, e).run = e.run
      BY Zenon, ClaimFields
    <3>3. FileClaim(h, e) \in Claims(dk, rc, cl, or)
      BY Zenon, <1>7, <2>2, FileClaimIn
    <3> QED BY <3>1, <3>2, <3>3
  <2> QED BY <1>2, <2>1, <2>2
<1>9. SpaceOk(Claims(dk, rc, cl, or), sp)
  BY Zenon DEF Good
<1>10. Of(e.run) \subseteq sp.used
  BY <1>8, <1>9, ClaimedAre
<1> QED BY <1>2, <1>3, <1>4, <1>5, <1>6, <1>7, <1>8, <1>10

LEMMA DirEntryIs ==
  ASSUME NEW dk, NEW rc, NEW cl, NEW or, NEW sp, Good(dk, rc, cl, or, sp),
         NEW h \in Homes(dk, rc), NEW e \in RecOf(dk, h).ents, e.dir
  PROVE  /\ h.dir = NULL /\ e.name \in DirNames /\ e \in dk[rc].ents
         /\ Home(e.name, e.run) \in Homes(dk, rc)
  BY EntryIs

LEMMA OneOfName ==
  ASSUME NEW dk, NEW rc, NEW cl, NEW or, NEW sp, Good(dk, rc, cl, or, sp),
         NEW h \in Homes(dk, rc), NEW e \in RecOf(dk, h).ents, NEW f \in RecOf(dk, h).ents, e.name = f.name
  PROVE  e = f
<1>1. RecOk(h.dir, h.run.size, RecOf(dk, h))
  BY Zenon, HomeIs
<1> QED BY Zenon, <1>1 DEF RecOk

LEMMA EntriesApart ==
  ASSUME NEW dk, NEW rc, NEW cl, NEW or, NEW sp, Good(dk, rc, cl, or, sp),
         NEW h \in Homes(dk, rc), NEW e \in RecOf(dk, h).ents,
         NEW g \in Homes(dk, rc), NEW f \in RecOf(dk, g).ents,
         h # g \/ e # f
  PROVE  \A k : ~(k \in Of(e.run) /\ k \in Of(f.run))
<1>1. /\ EntryClaim(h, e) \in Claims(dk, rc, cl, or) /\ EntryClaim(h, e).run = e.run
      /\ EntryClaim(g, f) \in Claims(dk, rc, cl, or) /\ EntryClaim(g, f).run = f.run
  BY EntryIs
<1>2. EntryClaim(h, e) # EntryClaim(g, f)
  <2>1. h # g => h.dir # g.dir
    BY Zenon, HomesDiffer
  <2>2. /\ e.dir => h.dir = NULL
        /\ f.dir => g.dir = NULL
        /\ h = g /\ e.name = f.name => e = f
        /\ e.dir \in BOOLEAN /\ f.dir \in BOOLEAN
    BY EntryIs DEF EntryType
  <2>3. CASE e.dir /\ f.dir
    <3>1. h = g /\ e.name # f.name
      BY <2>1, <2>2, <2>3
    <3>2. EntryClaim(h, e) = DirClaim(Home(e.name, e.run)) /\ EntryClaim(g, f) = DirClaim(Home(f.name, f.run))
      BY <2>3 DEF EntryClaim
    <3>3. Home(e.name, e.run).dir = e.name /\ Home(f.name, f.run).dir = f.name
      BY HomeFields
    <3>4. DirClaim(Home(e.name, e.run)) # DirClaim(Home(f.name, f.run))
      BY <3>1, <3>3, SameClaim
    <3> QED BY <3>2, <3>4
  <2>4. CASE ~e.dir /\ ~f.dir
    <3>1. EntryClaim(h, e) = FileClaim(h, e) /\ EntryClaim(g, f) = FileClaim(g, f)
      BY <2>4 DEF EntryClaim
    <3>2. FileClaim(h, e) # FileClaim(g, f)
      BY <2>1, <2>2, SameClaim
    <3> QED BY <3>1, <3>2
  <2>5. CASE e.dir /\ ~f.dir
    <3>1. EntryClaim(h, e) = DirClaim(Home(e.name, e.run)) /\ EntryClaim(g, f) = FileClaim(g, f)
      BY <2>5 DEF EntryClaim
    <3>2. DirClaim(Home(e.name, e.run)) # FileClaim(g, f)
      BY Zenon, KindsDiffer
    <3> QED BY <3>1, <3>2
  <2>6. CASE ~e.dir /\ f.dir
    <3>1. EntryClaim(h, e) = FileClaim(h, e) /\ EntryClaim(g, f) = DirClaim(Home(f.name, f.run))
      BY <2>6 DEF EntryClaim
    <3>2. DirClaim(Home(f.name, f.run)) # FileClaim(h, e)
      BY Zenon, KindsDiffer
    <3> QED BY <3>1, <3>2
  <2> QED BY <2>2, <2>3, <2>4, <2>5, <2>6
<1>3. SpaceOk(Claims(dk, rc, cl, or), sp)
  BY Zenon DEF Good
<1> QED BY <1>1, <1>2, <1>3, ClaimedAre

-----------------------------------------------------------------------------
(***************************************************************************)
(* The runs that are held: those of the claims that have a block.          *)
(***************************************************************************)
HeldOf(claims) == {x.run : x \in {y \in claims : y.run.size > 0}}

LEMMA InHeldOf ==
  ASSUME NEW claims, NEW r
  PROVE  r \in HeldOf(claims) <=> \E x \in claims : x.run = r /\ r.size > 0
  BY DEF HeldOf

HeldBy(dk, rc, cl, or) == HeldOf(Claims(dk, rc, cl, or))
SameHeld(dk, rc, cl, or, dk2, cl2, or2) == HeldBy(dk2, rc, cl2, or2) = HeldBy(dk, rc, cl, or)

LEMMA ClaimRuns ==
  ASSUME NEW dk, NEW rc, NEW cl, NEW or, NEW sp, Good(dk, rc, cl, or, sp), NEW x \in Claims(dk, rc, cl, or)
  PROVE  x.run \in Run
<1>1. IsClaim(dk, rc, cl, or, x)
  BY Zenon, ClaimFrom
<1>2. ASSUME NEW h \in Homes(dk, rc), x = DirClaim(h) PROVE x.run \in Run
  <2>1. DirClaim(h).run = h.run /\ h.run \in Run
    BY Zenon, ClaimFields, HomeIs
  <2> QED BY <1>2, <2>1
<1>3. ASSUME NEW h \in Homes(dk, rc), NEW e \in FilesIn(RecOf(dk, h).ents), x = FileClaim(h, e)
      PROVE  x.run \in Run
  <2>1. e \in RecOf(dk, h).ents
    BY DEF FilesIn
  <2>2. FileClaim(h, e).run = e.run /\ e.run \in Run
    BY <2>1, ClaimFields, EntryIs
  <2> QED BY <1>3, <2>2
<1>4. ASSUME NEW t \in Task, x = TaskClaim(t, cl[t].run) PROVE x.run \in Run
  <2>1. CallOk(cl[t]) /\ TaskClaim(t, cl[t].run).run = cl[t].run
    BY ClaimFields DEF Good
  <2> QED BY <1>4, <2>1 DEF CallOk
<1>5. ASSUME NEW run \in or, x = OrphanClaim(run) PROVE x.run \in Run
  <2>1. OrphanClaim(run).run = run /\ run \in Run
    BY ClaimFields DEF Good
  <2> QED BY <1>5, <2>1
<1> QED BY Zenon, <1>1, <1>2, <1>3, <1>4, <1>5 DEF IsClaim

LEMMA HeldOfOne ==
  ASSUME NEW x, NEW r
  PROVE  r \in HeldOf({x}) <=> x.run = r /\ r.size > 0
  BY InHeldOf

\* No other claim has the run of one that is given up.
LEMMA HeldPass ==
  ASSUME NEW dk, NEW rc, NEW cl, NEW or, NEW sp, Good(dk, rc, cl, or, sp),
         NEW gone \in SUBSET Claims(dk, rc, cl, or), NEW new, NEW r
  PROVE  r \in HeldOf((Claims(dk, rc, cl, or) \ gone) \cup new) <=>
           (r \in HeldBy(dk, rc, cl, or) /\ r \notin HeldOf(gone)) \/ r \in HeldOf(new)
<1> DEFINE C == Claims(dk, rc, cl, or)
<1>1. SpaceOk(C, sp)
  BY Zenon DEF Good
<1>2. \A x \in C : x.run \in Run
  BY Zenon, ClaimRuns
<1>3. r \in HeldBy(dk, rc, cl, or) <=> \E x \in C : x.run = r /\ r.size > 0
  BY Zenon, InHeldOf DEF HeldBy
<1> HIDE DEF C
<1>4. ASSUME NEW x \in C, NEW y \in C, x.run = r, y.run = r, r.size > 0 PROVE x = y
  <2>1. r.start \in Of(r)
    BY <1>2, <1>4, RunIs
  <2> QED BY Zenon, <1>1, <1>4, <2>1, ClaimedAre
<1>5. r \in HeldOf((C \ gone) \cup new) <=> \E x \in (C \ gone) \cup new : x.run = r /\ r.size > 0
  BY Zenon, InHeldOf
<1>6. /\ r \in HeldOf(gone) <=> \E x \in gone : x.run = r /\ r.size > 0
      /\ r \in HeldOf(new) <=> \E x \in new : x.run = r /\ r.size > 0
  BY Zenon, InHeldOf
<1>7. \A x \in gone : x \in C
  BY DEF C
<1>8. r \in HeldOf((C \ gone) \cup new) <=>
        (r \in HeldBy(dk, rc, cl, or) /\ r \notin HeldOf(gone)) \/ r \in HeldOf(new)
  <2>1. ASSUME NEW x \in (C \ gone) \cup new, x.run = r, r.size > 0
        PROVE  (r \in HeldBy(dk, rc, cl, or) /\ r \notin HeldOf(gone)) \/ r \in HeldOf(new)
    BY Zenon, <1>3, <1>4, <1>6, <1>7, <2>1
  <2>2. ASSUME r \in HeldBy(dk, rc, cl, or), r \notin HeldOf(gone)
        PROVE  \E x \in (C \ gone) \cup new : x.run = r /\ r.size > 0
    <3>1. PICK x \in C : x.run = r /\ r.size > 0
      BY <1>3, <2>2
    <3> QED BY <1>6, <2>2, <3>1
  <2>3. ASSUME r \in HeldOf(new) PROVE \E x \in (C \ gone) \cup new : x.run = r /\ r.size > 0
    BY <1>6, <2>3
  <2> QED BY Zenon, <1>5, <2>1, <2>2, <2>3
<1> QED BY <1>8 DEF C

LEMMA HandedOver ==
  ASSUME NEW dk, NEW rc, NEW cl, NEW or, NEW sp, Good(dk, rc, cl, or, sp),
         NEW gone \in SUBSET Claims(dk, rc, cl, or), NEW new, \A r : r \in HeldOf(new) <=> r \in HeldOf(gone)
  PROVE  HeldOf((Claims(dk, rc, cl, or) \ gone) \cup new) = HeldBy(dk, rc, cl, or)
<1> DEFINE C == Claims(dk, rc, cl, or)
           now == (C \ gone) \cup new
<1>1. \A r : r \in HeldOf(now) <=> (r \in HeldBy(dk, rc, cl, or) /\ r \notin HeldOf(gone)) \/ r \in HeldOf(new)
  BY Zenon, HeldPass
<1>2. \A r : r \in HeldOf(gone) => r \in HeldBy(dk, rc, cl, or)
  BY Zenon, InHeldOf DEF HeldBy
<1> HIDE DEF now
<1>3. HeldOf(now) = HeldBy(dk, rc, cl, or)
  <2>1. \A r : r \in HeldOf(now) <=> r \in HeldBy(dk, rc, cl, or)
    BY <1>1, <1>2
  <2> QED BY <2>1
<1> QED BY <1>3 DEF now

\* The run of an entry is held, unless it is a file without a block.
LEMMA EntryHeld ==
  ASSUME NEW dk, NEW rc, NEW cl, NEW or, NEW sp, Good(dk, rc, cl, or, sp),
         NEW h \in Homes(dk, rc), NEW e \in RecOf(dk, h).ents
  PROVE  (e.run.size > 0 /\ e.run \in HeldBy(dk, rc, cl, or)) \/ e.run = EmptyRun
<1>1. EntryClaim(h, e) \in Claims(dk, rc, cl, or) /\ EntryClaim(h, e).run = e.run /\ e.run \in Run
  BY EntryIs
<1>2. CASE e.run.size > 0
  BY Zenon, <1>1, <1>2, InHeldOf DEF HeldBy
<1>3. CASE e.run.size = 0
  <2>1. RecOk(h.dir, h.run.size, RecOf(dk, h))
    BY Zenon, HomeIs
  <2> QED BY <1>3, <2>1 DEF RecOk
<1> QED BY <1>1, <1>2, <1>3, RunIs

-----------------------------------------------------------------------------
(***************************************************************************)
(* What a step leaves as it is.                                            *)
(***************************************************************************)
LEMMA StepFrame ==
  ASSUME NEW dk, NEW rc, NEW dk2, NEW rc2, NEW c, NEW t \in Task, StepOk(dk, rc, c, t),
         Working(c) => \E h \in Homes(dk2, rc2) : h.dir = c.op.dir,
         Working(c) /\ c.op.op = "mkdir" /\ c.at # "fill" =>
           \A e \in dk2[rc2].ents : e.name \notin c.op.names,
         c.at = "enter" => /\ c.op.op = "mkdir" => dk2[c.run.start] = dk[c.run.start]
                           /\ \A k \in Of(c.run) : dk2[k] = dk[k],
         c.at = "fill" => /\ dk2[c.run.start] = dk[c.run.start]
                          /\ Entry(NameOf(c.op), TRUE, c.run) \in dk2[rc2].ents
  PROVE  StepOk(dk2, rc2, c, t)
<1>1. c.at \in {"enter", "fill"} => Working(c)
  BY DEF Working
<1>2. c.at = "enter" => Written(dk2, c, t)
  <2>1. c.at = "enter" => Written(dk, c, t)
    BY Zenon DEF StepOk
  <2> QED BY <2>1 DEF Written
<1>3. c.at = "fill" => c.op.op = "mkdir" /\ Written(dk2, c, t)
  <2>1. c.at = "fill" => c.op.op = "mkdir" /\ Written(dk, c, t)
    BY Zenon DEF StepOk
  <2> QED BY <2>1 DEF Written
<1> QED BY Zenon, <1>2, <1>3 DEF StepOk

\* The record of a directory is written anew, where it is.
IsUpdate(dk, h, nr, dk2) ==
  /\ RecOk(h.dir, h.run.size, nr) /\ nr.blks > 0
  /\ dk2[h.run.start] = nr /\ \A k \in Clus : k \notin Of(h.run) => dk2[k] = dk[k]
SameContent(dk, rc, cl, dk2) ==
  /\ \A g \in Homes(dk, rc) : \A e \in FilesIn(RecOf(dk, g).ents) : \A k \in Of(e.run) : dk2[k] = dk[k]
  /\ \A t \in Task : cl[t].at \in {"write", "enter"} => \A k \in Of(cl[t].run) : dk2[k] = dk[k]
Updated(dk, rc, h, nr, dk2) ==
  /\ h.dir = NULL => dk2[rc] = nr /\ Homes(dk2, rc) = {h} \cup SubHomes(nr.ents)
  /\ h.dir # NULL => dk2[rc] = dk[rc] /\ Homes(dk2, rc) = Homes(dk, rc)
  /\ h \in Homes(dk2, rc) /\ RecOf(dk2, h) = nr
  /\ \A g \in Homes(dk, rc) : g # h => RecOf(dk2, g) = RecOf(dk, g)

LEMMA UpdateFrame ==
  ASSUME NEW dk, NEW rc, NEW cl, NEW or, NEW sp, Good(dk, rc, cl, or, sp),
         NEW h \in Homes(dk, rc), NEW nr, NEW dk2, IsUpdate(dk, h, nr, dk2)
  PROVE  Updated(dk, rc, h, nr, dk2) /\ SameContent(dk, rc, cl, dk2)
<1> USE DEF IsUpdate
<1>0. sp.used \subseteq Clus
  BY DEF Good, SpaceOk, SpaceType
<1>1. ASSUME NEW g \in Homes(dk, rc), g # h PROVE RecOf(dk2, g) = RecOf(dk, g)
  <2>1. g.run.start \in Of(g.run) /\ g.run.start \in Clus
    BY Zenon, HomeIs
  <2>2. g.run.start \notin Of(h.run)
    BY Zenon, <1>1, <2>1, HomesDiffer
  <2> QED BY <2>1, <2>2 DEF RecOf
<1>2. RecOf(dk2, h) = nr
  BY DEF RecOf
<1>3. ASSUME NEW g \in Homes(dk, rc), NEW e \in FilesIn(RecOf(dk, g).ents), NEW k \in Of(e.run)
      PROVE  dk2[k] = dk[k]
  <2>1. k \in Clus /\ k \notin Of(h.run)
    BY Zenon, <1>0, FileIs
  <2> QED BY <2>1
<1>4. ASSUME NEW t \in Task, cl[t].at \in {"write", "enter"}, NEW k \in Of(cl[t].run)
      PROVE  dk2[k] = dk[k]
  <2>1. k \in Clus /\ k \notin Of(h.run)
    BY Zenon, <1>0, <1>4, TaskIs
  <2> QED BY <2>1
<1>5. ASSUME h.dir = NULL
      PROVE  h \in Homes(dk2, rc) /\ dk2[rc] = nr /\ Homes(dk2, rc) = {h} \cup SubHomes(nr.ents)
  <2>0. h = Home(h.dir, h.run)
    BY Zenon, HomeIs
  <2>1. h = RootHome(dk, rc) /\ h.run.start = rc /\ h = Home(NULL, h.run) /\ dk2[rc] = nr
    BY <1>5, <2>0, RootIs
  <2>2. h.run.size = dk[rc].blks
    BY <2>1, RootFields
  <2>3. nr.blks = h.run.size
    BY HomeIs DEF RecOk
  <2>4. RootHome(dk2, rc) = h
    BY <2>1, <2>2, <2>3 DEF RootHome
  <2>5. Homes(dk2, rc) = {h} \cup SubHomes(nr.ents)
    BY <2>1, <2>4 DEF Homes
  <2> QED BY <2>1, <2>5
<1>6. ASSUME h.dir # NULL
      PROVE  h \in Homes(dk2, rc) /\ dk2[rc] = dk[rc] /\ Homes(dk2, rc) = Homes(dk, rc)
  <2> DEFINE r == RootHome(dk, rc)
  <2>1. r \in Homes(dk, rc) /\ r # h /\ r.run.start = rc
    BY <1>6, RootFields
  <2> HIDE DEF r
  <2>2. dk2[rc] = dk[rc]
    BY <1>1, <2>1 DEF RecOf
  <2>3. Homes(dk2, rc) = Homes(dk, rc)
    BY <2>2 DEF Homes, RootHome
  <2> QED BY <2>2, <2>3, HomeIs
<1>7. Updated(dk, rc, h, nr, dk2)
  BY <1>1, <1>2, <1>5, <1>6 DEF Updated
<1>8. SameContent(dk, rc, cl, dk2)
  BY Zenon, <1>3, <1>4 DEF SameContent
<1> QED BY <1>7, <1>8

-----------------------------------------------------------------------------
(***************************************************************************)
(* Entries are removed from a directory, and with those of directories all *)
(* that was in them.                                                       *)
(***************************************************************************)
Removal(dk, rc, cl, h, del, nr, dk2) ==
  /\ h \in Homes(dk, rc) /\ RecOf(dk, h).blks > 0 /\ del \subseteq RecOf(dk, h).ents
  /\ nr \in DirType /\ nr.ents = RecOf(dk, h).ents \ del
  /\ nr.blks = RecOf(dk, h).blks /\ Used(nr) < nr.blks * Slots
  /\ dk2 = [dk EXCEPT ![h.run.start] = nr]
  /\ \A e \in del : e.dir =>
       /\ e.name # FirstDir
       /\ \A t \in Task : Working(cl[t]) => cl[t].op.dir # e.name
       /\ \A t \in Task : cl[t].at = "fill" => NameOf(cl[t].op) # e.name

LEMMA RemovalRec ==
  ASSUME NEW dk, NEW rc, NEW cl, NEW or, NEW sp, Good(dk, rc, cl, or, sp),
         NEW h, NEW del, NEW nr, NEW dk2, Removal(dk, rc, cl, h, del, nr, dk2)
  PROVE  h \in Homes(dk, rc) /\ dk2 \in DiskType /\ IsUpdate(dk, h, nr, dk2)
<1>1. /\ h \in Homes(dk, rc) /\ RecOf(dk, h).blks > 0
      /\ nr \in DirType /\ nr.ents = RecOf(dk, h).ents \ del
      /\ nr.blks = RecOf(dk, h).blks /\ Used(nr) < nr.blks * Slots
      /\ dk2 = [dk EXCEPT ![h.run.start] = nr]
  BY DEF Removal
<1>2. RecOk(h.dir, h.run.size, RecOf(dk, h)) /\ h.run.start \in Clus /\ h.run.start \in Of(h.run)
  BY Zenon, <1>1, HomeIs
<1>3. IsFiniteSet(nr.ents)
  <2>1. IsFiniteSet(RecOf(dk, h).ents)
    BY Zenon, <1>2 DEF RecOk
  <2>2. IsFiniteSet(RecOf(dk, h).ents \ del)
    BY Zenon, <2>1, FS_Difference
  <2> QED BY <1>1, <2>2
<1>4. RecOk(h.dir, h.run.size, nr)
  BY <1>1, <1>2, <1>3 DEF RecOk
<1>5. dk \in DiskType
  BY Zenon DEF Good
<1>6. dk2 \in DiskType
  BY <1>1, <1>2, <1>5 DEF DiskType
<1>7. dk2[h.run.start] = nr /\ \A k \in Clus : k \notin Of(h.run) => dk2[k] = dk[k]
  BY <1>1, <1>2, <1>5 DEF DiskType
<1>8. IsUpdate(dk, h, nr, dk2)
  BY <1>1, <1>2, <1>4, <1>7 DEF IsUpdate, RecOk
<1> QED BY <1>1, <1>6, <1>8

LEMMA InSubHomes ==
  ASSUME NEW ents, NEW g
  PROVE  g \in SubHomes(ents) <=> \E e \in ents : e.dir /\ g = Home(e.name, e.run)
  BY DEF SubHomes

Remains(dk, rc, del, dk2) ==
  \A g : g \in Homes(dk2, rc) <=> g \in Homes(dk, rc) /\ \A e \in del : e.dir => g.dir # e.name

LEMMA RemovalHomes ==
  ASSUME NEW dk, NEW rc, NEW cl, NEW or, NEW sp, Good(dk, rc, cl, or, sp),
         NEW h, NEW del, NEW nr, NEW dk2, Removal(dk, rc, cl, h, del, nr, dk2)
  PROVE  Remains(dk, rc, del, dk2)
<1> SUFFICES ASSUME NEW g
             PROVE  g \in Homes(dk2, rc) <=>
                      g \in Homes(dk, rc) /\ \A e \in del : e.dir => g.dir # e.name
  BY Zenon DEF Remains
<1>1. h \in Homes(dk, rc) /\ dk2 \in DiskType /\ IsUpdate(dk, h, nr, dk2)
  BY Zenon, RemovalRec
<1>0. Updated(dk, rc, h, nr, dk2)
  BY Zenon, <1>1, UpdateFrame
<1>2. /\ h.dir = NULL => dk2[rc] = nr /\ Homes(dk2, rc) = {h} \cup SubHomes(nr.ents)
      /\ h.dir # NULL => Homes(dk2, rc) = Homes(dk, rc)
  BY Zenon, <1>0 DEF Updated
<1>3. del \subseteq RecOf(dk, h).ents /\ nr.ents = RecOf(dk, h).ents \ del
  BY DEF Removal
<1>4. \A e \in RecOf(dk, h).ents : e.dir => h.dir = NULL
  BY Zenon, <1>1, HomeIs DEF RecOk
<1>5. CASE h.dir # NULL
  BY <1>2, <1>3, <1>4, <1>5
<1>6. CASE h.dir = NULL
  <2>1. RecOf(dk, h) = dk[rc] /\ h = RootHome(dk, rc)
    BY Zenon, <1>1, <1>6, RootIs
  <2>2. g \in Homes(dk2, rc) <=> g = h \/ \E e \in dk[rc].ents \ del : e.dir /\ g = Home(e.name, e.run)
    BY <1>2, <1>3, <1>6, <2>1, InSubHomes
  <2>3. g = h => g \in Homes(dk, rc) /\ \A e \in del : e.dir => g.dir # e.name
    <3>1. \A e \in del : e.name # NULL
      BY Zenon, <1>3, <2>1, RootEntry
    <3> QED BY <1>1, <1>6, <3>1
  <2>4. ASSUME NEW e \in dk[rc].ents \ del, e.dir, g = Home(e.name, e.run)
        PROVE  g \in Homes(dk, rc) /\ \A f \in del : f.dir => g.dir # f.name
    <3>1. g \in Homes(dk, rc)
      BY <2>4, SubHomeIn
    <3>2. g.dir = e.name
      BY Zenon, <2>4, HomeFields
    <3>3. \A f \in dk[rc].ents : e.name = f.name => e = f
      BY Zenon, RootEntry
    <3> QED BY <1>3, <2>1, <3>1, <3>2, <3>3
  <2>5. ASSUME g \in Homes(dk, rc), \A e \in del : e.dir => g.dir # e.name, g # h
        PROVE  \E e \in dk[rc].ents \ del : e.dir /\ g = Home(e.name, e.run)
    <3>1. PICK e \in dk[rc].ents : e.dir /\ g = Home(e.name, e.run)
      BY <2>1, <2>5, SubHomeFrom
    <3>2. g.dir = e.name
      BY Zenon, <3>1, HomeFields
    <3> QED BY <2>5, <3>1, <3>2
  <2> QED BY Zenon, <2>2, <2>3, <2>4, <2>5
<1> QED BY <1>5, <1>6

LEMMA RemovalDirs ==
  ASSUME OwnDirs,
         NEW dk, NEW rc, NEW cl, NEW or, NEW sp, Good(dk, rc, cl, or, sp),
         NEW h, NEW del, NEW nr, NEW dk2, Removal(dk, rc, cl, h, del, nr, dk2)
  PROVE  /\ DirsOk(dk2, rc) /\ MakersOk(dk2, rc, cl) /\ FilesOk(dk2, rc)
         /\ \A t \in Task : StepOk(dk2, rc, cl[t], t)
<1>1. h \in Homes(dk, rc) /\ dk2 \in DiskType /\ IsUpdate(dk, h, nr, dk2)
  BY Zenon, RemovalRec
<1>0. Updated(dk, rc, h, nr, dk2) /\ SameContent(dk, rc, cl, dk2)
  BY Zenon, <1>1, UpdateFrame
<1>2. /\ h.dir = NULL => dk2[rc] = nr
      /\ h.dir # NULL => dk2[rc] = dk[rc]
      /\ h \in Homes(dk2, rc) /\ RecOf(dk2, h) = nr
      /\ RecOk(h.dir, h.run.size, nr) /\ nr.blks > 0
  BY Zenon, <1>0, <1>1 DEF Updated, IsUpdate
<1>3. \A g \in Homes(dk, rc) : g # h => RecOf(dk2, g) = RecOf(dk, g)
  BY Zenon, <1>0 DEF Updated
<1>4. \A g \in Homes(dk, rc) : \A e \in FilesIn(RecOf(dk, g).ents) : \A k \in Of(e.run) : dk2[k] = dk[k]
  BY Zenon, <1>0 DEF SameContent
<1>5. \A t \in Task : cl[t].at \in {"write", "enter"} => \A k \in Of(cl[t].run) : dk2[k] = dk[k]
  BY Zenon, <1>0 DEF SameContent
<1>6. \A g : g \in Homes(dk2, rc) <=> g \in Homes(dk, rc) /\ \A e \in del : e.dir => g.dir # e.name
  <2>1. Remains(dk, rc, del, dk2)
    BY Zenon, RemovalHomes
  <2> QED BY Zenon, <2>1 DEF Remains
<1>7. nr.ents = RecOf(dk, h).ents \ del
  BY DEF Removal
<1>8. DirsOk(dk, rc) /\ MakersOk(dk, rc, cl) /\ FilesOk(dk, rc)
  BY Zenon DEF Good
<1>9. DirsOk(dk2, rc)
  <2>1. dk2[rc].blks > 0
    BY <1>1, <1>2, <1>8 DEF DirsOk
  <2>2. ASSUME NEW g \in Homes(dk2, rc)
        PROVE  g.run \in Run /\ g.run.size > 0 /\ RecOk(g.dir, g.run.size, RecOf(dk2, g))
    <3>1. g \in Homes(dk, rc)
      BY Zenon, <1>6
    <3>2. g.run \in Run /\ g.run.size > 0 /\ RecOk(g.dir, g.run.size, RecOf(dk, g))
      BY Zenon, <3>1, HomeIs
    <3> QED BY <1>1, <1>2, <1>3, <3>1, <3>2
  <2>3. PICK g \in Homes(dk, rc) : g.dir = FirstDir
    BY Zenon, <1>8 DEF DirsOk
  <2>4. \A e \in del : e.dir => e.name # FirstDir
    BY DEF Removal
  <2>5. g \in Homes(dk2, rc)
    BY <1>6, <2>3, <2>4
  <2> QED BY Zenon, <2>1, <2>2, <2>3, <2>5 DEF DirsOk
<1>10. MakersOk(dk2, rc, cl)
  <2>1. ASSUME NEW g \in Homes(dk2, rc), RecOf(dk2, g).blks = 0
        PROVE  \E t \in Task : g.dir \in Made(t) /\ Making(cl[t], g.run)
    <3>1. g # h /\ g \in Homes(dk, rc)
      BY <1>1, <1>2, <1>6, <2>1
    <3>2. RecOf(dk, g).blks = 0
      BY <1>3, <2>1, <3>1
    <3> QED BY Zenon, <1>8, <3>1, <3>2 DEF MakersOk
  <2> QED BY Zenon, <2>1 DEF MakersOk
<1>11. FilesOk(dk2, rc)
  <2>1. ASSUME NEW g \in Homes(dk2, rc), NEW e \in FilesIn(RecOf(dk2, g).ents)
        PROVE  Whole(dk2, e)
    <3>1. g \in Homes(dk, rc)
      BY Zenon, <1>6
    <3>2. e \in FilesIn(RecOf(dk, g).ents)
      BY <1>2, <1>3, <1>7, <2>1, <3>1 DEF FilesIn
    <3>3. Whole(dk, e)
      BY Zenon, <1>8, <3>1, <3>2 DEF FilesOk
    <3>4. \A k \in Of(e.run) : dk2[k] = dk[k]
      BY Zenon, <1>4, <3>1, <3>2
    <3> QED BY <3>3, <3>4 DEF Whole
  <2> QED BY Zenon, <2>1 DEF FilesOk
<1>12. ASSUME NEW t \in Task PROVE StepOk(dk2, rc, cl[t], t)
  <2> DEFINE c == cl[t]
  <2>1. StepOk(dk, rc, c, t) /\ CallOk(c)
    BY Zenon DEF Good
  <2>2. ASSUME Working(c) PROVE \E g \in Homes(dk2, rc) : g.dir = c.op.dir
    <3>1. PICK g \in Homes(dk, rc) : g.dir = c.op.dir
      BY Zenon, <2>1, <2>2 DEF StepOk
    <3>2. \A e \in del : e.dir => c.op.dir # e.name
      BY <2>2 DEF Removal
    <3>3. g \in Homes(dk2, rc)
      BY <1>6, <3>1, <3>2
    <3> QED BY Zenon, <3>1, <3>3
  <2>3. \A e \in dk2[rc].ents : e \in dk[rc].ents
    <3>1. h.dir = NULL => RecOf(dk, h) = dk[rc]
      BY Zenon, <1>1, RootIs
    <3> QED BY <1>2, <1>7, <3>1
  <2>4. Working(c) /\ c.op.op = "mkdir" /\ c.at # "fill" => \A e \in dk2[rc].ents : e.name \notin c.op.names
    BY Zenon, <2>1, <2>3 DEF StepOk
  <2>5. c.at = "enter" => /\ c.op.op = "mkdir" => dk2[c.run.start] = dk[c.run.start]
                          /\ \A k \in Of(c.run) : dk2[k] = dk[k]
    <3>1. c.at = "enter" => \A k \in Of(c.run) : dk2[k] = dk[k]
      BY <1>5
    <3>2. ASSUME c.at = "enter", c.op.op = "mkdir" PROVE c.run.start \in Of(c.run)
      <4>1. c.op \in Ops[t] /\ c.run.size = c.op.blks /\ c.run \in Run
        BY <2>1, <3>2 DEF StepOk, CallOk, Working
      <4>2. c.op.blks > 0
        BY <3>2, <4>1 DEF OwnDirs
      <4> QED BY <4>1, <4>2, RunIs
    <3> QED BY <3>1, <3>2
  <2>6. ASSUME c.at = "fill"
        PROVE  /\ dk2[c.run.start] = dk[c.run.start]
               /\ Entry(NameOf(c.op), TRUE, c.run) \in dk2[rc].ents
    <3> DEFINE e == Entry(NameOf(c.op), TRUE, c.run)
               g == Home(e.name, e.run)
    <3>1. e \in dk[rc].ents /\ dk[c.run.start] = Dir(0, {}, 0)
      BY <2>1, <2>6 DEF StepOk, Written
    <3>2. e.dir /\ e.name = NameOf(c.op) /\ e.run = c.run
      BY DEF Entry
    <3> HIDE DEF e
    <3>3. e \notin del
      BY <2>6, <3>2 DEF Removal
    <3>4. e \in dk2[rc].ents
      <4>1. h.dir = NULL => RecOf(dk, h) = dk[rc]
        BY Zenon, <1>1, RootIs
      <4> QED BY <1>2, <1>7, <3>1, <3>3, <4>1
    <3>5. g \in Homes(dk, rc) /\ g.run = c.run
      BY <3>1, <3>2, SubHomeIn, HomeFields
    <3> HIDE DEF g
    <3>6. RecOf(dk, g).blks = 0
      BY <3>1, <3>5 DEF RecOf, Dir
    <3>7. g # h
      BY <3>6 DEF Removal
    <3>8. dk2[c.run.start] = dk[c.run.start]
      BY <1>3, <3>5, <3>7 DEF RecOf
    <3> QED BY <3>4, <3>8 DEF e
  <2> QED BY Zenon, <2>1, <2>2, <2>4, <2>5, <2>6, StepFrame
<1> QED BY <1>9, <1>10, <1>11, <1>12

\* The directories that go, and what was in them.
Gone(dk, rc, del) == {g \in Homes(dk, rc) : \E e \in del : e.dir /\ g.dir = e.name}
Lost(dk, rc, del) ==
  {run \in Run : run.size > 0 /\ \E g \in Gone(dk, rc, del) : \E f \in RecOf(dk, g).ents : run = f.run}
GoneClaims(dk, rc, cl, or, h, del) ==
  {x \in Claims(dk, rc, cl, or) :
     \/ \E g \in Gone(dk, rc, del) : x = DirClaim(g)
     \/ \E g \in Gone(dk, rc, del) : \E e \in FilesIn(RecOf(dk, g).ents) : x = FileClaim(g, e)
     \/ \E e \in FilesIn(del) : x = FileClaim(h, e)}
LostClaims(dk, rc, del) == {OrphanClaim(run) : run \in Lost(dk, rc, del)}

WentWith(dk, rc, h, del, g) ==
  /\ g \in Homes(dk, rc) /\ g.dir # NULL /\ h.dir = NULL
  /\ \E e \in del : g.run = e.run
  /\ \A f \in RecOf(dk, g).ents : f \in FilesIn(RecOf(dk, g).ents)

LEMMA GoneIs ==
  ASSUME NEW dk, NEW rc, NEW cl, NEW or, NEW sp, Good(dk, rc, cl, or, sp),
         NEW h, NEW del, NEW nr, NEW dk2, Removal(dk, rc, cl, h, del, nr, dk2),
         NEW g \in Gone(dk, rc, del)
  PROVE  WentWith(dk, rc, h, del, g)
<1>1. g \in Homes(dk, rc)
  BY DEF Gone
<1>2. PICK e \in del : e.dir /\ g.dir = e.name
  BY DEF Gone
<1>3. h \in Homes(dk, rc) /\ e \in RecOf(dk, h).ents
  BY DEF Removal
<1>4. h.dir = NULL /\ e \in dk[rc].ents /\ Home(e.name, e.run) \in Homes(dk, rc)
  BY Zenon, <1>2, <1>3, DirEntryIs
<1>5. g.dir # NULL
  BY <1>2, <1>4, RootEntry
<1>6. Home(e.name, e.run).dir = e.name /\ Home(e.name, e.run).run = e.run
  BY Zenon, HomeFields
<1>7. g = Home(e.name, e.run)
  BY Zenon, <1>1, <1>2, <1>4, <1>6, HomesDiffer
<1>8. ASSUME NEW f \in RecOf(dk, g).ents PROVE f \in FilesIn(RecOf(dk, g).ents)
  BY Zenon, <1>1, <1>5, EntryIs
<1> QED BY <1>1, <1>2, <1>4, <1>5, <1>6, <1>7, <1>8 DEF WentWith

LEMMA RemovalFiles ==
  ASSUME NEW dk, NEW rc, NEW cl, NEW or, NEW sp, Good(dk, rc, cl, or, sp),
         NEW h, NEW del, NEW nr, NEW dk2, Removal(dk, rc, cl, h, del, nr, dk2),
         NEW g \in Homes(dk, rc), NEW e
  PROVE  e \in FilesIn(RecOf(dk2, g).ents) <=>
           e \in FilesIn(RecOf(dk, g).ents) /\ ~(g = h /\ e \in del)
<1>1. h \in Homes(dk, rc) /\ dk2 \in DiskType /\ IsUpdate(dk, h, nr, dk2)
  BY Zenon, RemovalRec
<1>2. Updated(dk, rc, h, nr, dk2)
  BY Zenon, <1>1, UpdateFrame
<1>3. RecOf(dk2, h) = nr /\ (g # h => RecOf(dk2, g) = RecOf(dk, g))
  BY <1>2 DEF Updated
<1>4. nr.ents = RecOf(dk, h).ents \ del
  BY DEF Removal
<1> QED BY <1>3, <1>4 DEF FilesIn

ClaimsPass(dk, rc, cl, or, h, del, dk2) ==
  Claims(dk2, rc, cl, or \cup Lost(dk, rc, del)) =
    (Claims(dk, rc, cl, or) \ GoneClaims(dk, rc, cl, or, h, del)) \cup LostClaims(dk, rc, del)

LEMMA RemovalClaims ==
  ASSUME NEW dk, NEW rc, NEW cl, NEW or, NEW sp, Good(dk, rc, cl, or, sp),
         NEW h, NEW del, NEW nr, NEW dk2, Removal(dk, rc, cl, h, del, nr, dk2)
  PROVE  ClaimsPass(dk, rc, cl, or, h, del, dk2)
<1> DEFINE C == Claims(dk, rc, cl, or)
           or2 == or \cup Lost(dk, rc, del)
           C2 == Claims(dk2, rc, cl, or2)
           G == GoneClaims(dk, rc, cl, or, h, del)
           L == LostClaims(dk, rc, del)
<1>0. h \in Homes(dk, rc) /\ del \subseteq RecOf(dk, h).ents
  BY DEF Removal
<1>1. \A g : g \in Homes(dk2, rc) <=> g \in Homes(dk, rc) /\ g \notin Gone(dk, rc, del)
  <2>1. Remains(dk, rc, del, dk2)
    BY Zenon, RemovalHomes
  <2> QED BY <2>1 DEF Remains, Gone
<1>2. \A g \in Homes(dk, rc) : \A e :
        e \in FilesIn(RecOf(dk2, g).ents) <=> e \in FilesIn(RecOf(dk, g).ents) /\ ~(g = h /\ e \in del)
  BY RemovalFiles
<1>3. ASSUME NEW g \in Gone(dk, rc, del), NEW f \in Homes(dk, rc), g.dir = f.dir PROVE f \in Gone(dk, rc, del)
  BY <1>3 DEF Gone
<1>4. ASSUME NEW g \in Homes(dk2, rc), DirClaim(g) \in G PROVE FALSE
  <2>1. \E f \in Gone(dk, rc, del) : DirClaim(g) = DirClaim(f)
    BY Zenon, <1>4, KindsDiffer DEF GoneClaims
  <2> QED BY Zenon, <1>1, <1>3, <2>1, SameClaim
<1>5. ASSUME NEW g \in Homes(dk2, rc), NEW e \in FilesIn(RecOf(dk2, g).ents), FileClaim(g, e) \in G PROVE FALSE
  <2>1. \/ \E f \in Gone(dk, rc, del) : \E d \in FilesIn(RecOf(dk, f).ents) : FileClaim(g, e) = FileClaim(f, d)
        \/ \E d \in FilesIn(del) : FileClaim(g, e) = FileClaim(h, d)
    BY Zenon, <1>5, KindsDiffer DEF GoneClaims
  <2>2. g \in Homes(dk, rc) /\ g \notin Gone(dk, rc, del)
    BY Zenon, <1>1
  <2>3. CASE \E f \in Gone(dk, rc, del) : \E d \in FilesIn(RecOf(dk, f).ents) : FileClaim(g, e) = FileClaim(f, d)
    <3>0. PICK f \in Gone(dk, rc, del) :
            \E d \in FilesIn(RecOf(dk, f).ents) : FileClaim(g, e) = FileClaim(f, d)
      BY Zenon, <2>3
    <3>1. PICK d \in FilesIn(RecOf(dk, f).ents) : FileClaim(g, e) = FileClaim(f, d)
      BY Zenon, <3>0
    <3>2. g.dir = f.dir
      BY <3>1, SameFileClaim
    <3> QED BY Zenon, <1>3, <2>2, <3>2
  <2>4. CASE \E d \in FilesIn(del) : FileClaim(g, e) = FileClaim(h, d)
    <3>1. PICK d \in FilesIn(del) : FileClaim(g, e) = FileClaim(h, d)
      BY Zenon, <2>4
    <3>2. g.dir = h.dir /\ e.name = d.name
      BY <3>1, SameFileClaim
    <3>3. g = h
      BY Zenon, <1>0, <2>2, <3>2, HomesDiffer
    <3>4. e \in FilesIn(RecOf(dk, g).ents) /\ e \notin del
      BY Zenon, <1>2, <1>5, <2>2, <3>3
    <3>5. d \in del /\ d \in RecOf(dk, h).ents /\ e \in RecOf(dk, h).ents
      BY <1>0, <3>1, <3>3, <3>4 DEF FilesIn
    <3>6. e = d
      BY Zenon, <1>0, <3>2, <3>5, OneOfName
    <3> QED BY <3>4, <3>5, <3>6
  <2> QED BY <2>1, <2>3, <2>4
<1>6. ASSUME NEW t \in Task, NEW run, TaskClaim(t, run) \in G PROVE FALSE
  BY Zenon, <1>6, KindsDiffer DEF GoneClaims
<1>7. ASSUME NEW run, OrphanClaim(run) \in G PROVE FALSE
  BY Zenon, <1>7, KindsDiffer DEF GoneClaims
<1>8. ASSUME NEW x \in C2 PROVE (x \in C /\ x \notin G) \/ x \in L
  <2>1. IsClaim(dk2, rc, cl, or2, x)
    BY Zenon, ClaimFrom
  <2>2. ASSUME NEW g \in Homes(dk2, rc), x = DirClaim(g) PROVE x \in C /\ x \notin G
    BY Zenon, <1>1, <1>4, <2>2, DirClaimIn
  <2>3. ASSUME NEW g \in Homes(dk2, rc), NEW e \in FilesIn(RecOf(dk2, g).ents), x = FileClaim(g, e)
        PROVE  x \in C /\ x \notin G
    <3>1. g \in Homes(dk, rc) /\ e \in FilesIn(RecOf(dk, g).ents)
      BY Zenon, <1>1, <1>2, <2>3
    <3> QED BY Zenon, <1>5, <2>3, <3>1, FileClaimIn
  <2>4. ASSUME NEW t \in Task, cl[t].at \in {"write", "enter"}, x = TaskClaim(t, cl[t].run)
        PROVE  x \in C /\ x \notin G
    BY Zenon, <1>6, <2>4, TaskClaimIn
  <2>5. ASSUME NEW run \in or, x = OrphanClaim(run) PROVE x \in C /\ x \notin G
    BY Zenon, <1>7, <2>5, OrphanClaimIn
  <2>6. ASSUME NEW run \in Lost(dk, rc, del), x = OrphanClaim(run) PROVE x \in L
    BY Zenon, <2>6 DEF LostClaims
  <2> QED BY Zenon, <2>1, <2>2, <2>3, <2>4, <2>5, <2>6 DEF IsClaim
<1>9. ASSUME NEW x \in C, x \notin G PROVE x \in C2
  <2>1. IsClaim(dk, rc, cl, or, x)
    BY Zenon, ClaimFrom
  <2>2. ASSUME NEW g \in Homes(dk, rc), x = DirClaim(g) PROVE x \in C2
    <3>1. g \notin Gone(dk, rc, del)
      BY Zenon, <1>9, <2>2 DEF GoneClaims
    <3> QED BY Zenon, <1>1, <2>2, <3>1, DirClaimIn
  <2>3. ASSUME NEW g \in Homes(dk, rc), NEW e \in FilesIn(RecOf(dk, g).ents), x = FileClaim(g, e)
        PROVE  x \in C2
    <3>1. g \notin Gone(dk, rc, del)
      BY Zenon, <1>9, <2>3 DEF GoneClaims
    <3>2. ~(g = h /\ e \in del)
      <4>1. ~(g = h /\ e \in FilesIn(del))
        BY Zenon, <1>9, <2>3 DEF GoneClaims
      <4> QED BY <4>1 DEF FilesIn
    <3>3. g \in Homes(dk2, rc) /\ e \in FilesIn(RecOf(dk2, g).ents)
      BY Zenon, <1>1, <1>2, <3>1, <3>2
    <3> QED BY Zenon, <2>3, <3>3, FileClaimIn
  <2>4. ASSUME NEW t \in Task, cl[t].at \in {"write", "enter"}, x = TaskClaim(t, cl[t].run) PROVE x \in C2
    BY Zenon, <2>4, TaskClaimIn
  <2>5. ASSUME NEW run \in or, x = OrphanClaim(run) PROVE x \in C2
    BY Zenon, <2>5, OrphanClaimIn
  <2> QED BY Zenon, <2>1, <2>2, <2>3, <2>4, <2>5 DEF IsClaim
<1>10. ASSUME NEW x \in L PROVE x \in C2
  <2>1. PICK run \in Lost(dk, rc, del) : x = OrphanClaim(run)
    BY Zenon DEF LostClaims
  <2> QED BY Zenon, <2>1, OrphanClaimIn
<1> HIDE DEF C, C2, G, L
<1>11. C2 = (C \ G) \cup L
  BY <1>8, <1>9, <1>10
<1> QED BY <1>11 DEF C, C2, G, L, ClaimsPass

LEMMA LostIs ==
  ASSUME NEW dk, NEW rc, NEW cl, NEW or, NEW sp, Good(dk, rc, cl, or, sp),
         NEW h, NEW del, NEW nr, NEW dk2, Removal(dk, rc, cl, h, del, nr, dk2), NEW k
  PROVE  k \in ClaimedBy(LostClaims(dk, rc, del)) <=>
           \E g \in Gone(dk, rc, del) : \E f \in RecOf(dk, g).ents : k \in Of(f.run)
<1>1. ASSUME k \in ClaimedBy(LostClaims(dk, rc, del))
      PROVE  \E g \in Gone(dk, rc, del) : \E f \in RecOf(dk, g).ents : k \in Of(f.run)
  <2>1. PICK x \in LostClaims(dk, rc, del) : k \in Of(x.run)
    BY <1>1, InClaimed
  <2>2. PICK run \in Lost(dk, rc, del) : x = OrphanClaim(run)
    BY Zenon DEF LostClaims
  <2>3. k \in Of(run)
    BY Zenon, <2>1, <2>2, ClaimFields
  <2> QED BY Zenon, <2>2, <2>3 DEF Lost
<1>2. ASSUME NEW g \in Gone(dk, rc, del), NEW f \in RecOf(dk, g).ents, k \in Of(f.run)
      PROVE  k \in ClaimedBy(LostClaims(dk, rc, del))
  <2>1. f.run \in Run
    <3>1. g \in Homes(dk, rc)
      BY DEF Gone
    <3> QED BY Zenon, <3>1, EntryIs
  <2>2. f.run.size > 0
    BY <1>2, <2>1, RunIs
  <2>3. f.run \in Lost(dk, rc, del)
    BY <2>1, <2>2 DEF Lost
  <2>4. OrphanClaim(f.run) \in LostClaims(dk, rc, del) /\ OrphanClaim(f.run).run = f.run
    BY Zenon, <2>3, ClaimFields DEF LostClaims
  <2> QED BY <1>2, <2>4, InClaimed
<1> QED BY Zenon, <1>1, <1>2

LEMMA GoneClaimed ==
  ASSUME NEW dk, NEW rc, NEW cl, NEW or, NEW sp, Good(dk, rc, cl, or, sp),
         NEW h, NEW del, NEW nr, NEW dk2, Removal(dk, rc, cl, h, del, nr, dk2), NEW k
  PROVE  k \in ClaimedBy(GoneClaims(dk, rc, cl, or, h, del)) <=>
           \/ \E e \in del : k \in Of(e.run)
           \/ \E g \in Gone(dk, rc, del) : \E f \in RecOf(dk, g).ents : k \in Of(f.run)
<1> DEFINE G == GoneClaims(dk, rc, cl, or, h, del)
<1>0. h \in Homes(dk, rc) /\ del \subseteq RecOf(dk, h).ents
  BY DEF Removal
<1>1. ASSUME k \in ClaimedBy(G)
      PROVE  \/ \E e \in del : k \in Of(e.run)
             \/ \E g \in Gone(dk, rc, del) : \E f \in RecOf(dk, g).ents : k \in Of(f.run)
  <2>1. PICK x \in G : k \in Of(x.run)
    BY <1>1, InClaimed
  <2>2. ASSUME NEW g \in Gone(dk, rc, del), x = DirClaim(g) PROVE \E e \in del : k \in Of(e.run)
    <3>1. k \in Of(g.run)
      BY Zenon, <2>1, <2>2, ClaimFields
    <3>2. \E e \in del : g.run = e.run
      <4>1. WentWith(dk, rc, h, del, g)
        BY Zenon, GoneIs
      <4> QED BY Zenon, <4>1 DEF WentWith
    <3> QED BY <3>1, <3>2
  <2>3. ASSUME NEW g \in Gone(dk, rc, del), NEW f \in FilesIn(RecOf(dk, g).ents), x = FileClaim(g, f)
        PROVE  \E d \in RecOf(dk, g).ents : k \in Of(d.run)
    <3>1. k \in Of(f.run)
      BY Zenon, <2>1, <2>3, ClaimFields
    <3> QED BY <3>1 DEF FilesIn
  <2>4. ASSUME NEW e \in FilesIn(del), x = FileClaim(h, e) PROVE \E d \in del : k \in Of(d.run)
    <3>1. k \in Of(e.run)
      BY Zenon, <2>1, <2>4, ClaimFields
    <3> QED BY <3>1 DEF FilesIn
  <2> QED BY Zenon, <2>1, <2>2, <2>3, <2>4 DEF GoneClaims
<1>2. ASSUME NEW e \in del, k \in Of(e.run) PROVE k \in ClaimedBy(G)
  <2>1. e \in RecOf(dk, h).ents
    BY <1>0
  <2>2. CASE e.dir
    <3> DEFINE g == Home(e.name, e.run)
    <3>1. g \in Homes(dk, rc) /\ g.dir = e.name /\ g.run = e.run
      BY <1>0, <2>1, <2>2, DirEntryIs, HomeFields
    <3> HIDE DEF g
    <3>2. g \in Gone(dk, rc, del)
      BY <2>2, <3>1 DEF Gone
    <3>3. DirClaim(g) \in G /\ DirClaim(g).run = e.run
      BY Zenon, <3>1, <3>2, DirClaimIn, ClaimFields DEF GoneClaims
    <3> QED BY <1>2, <3>3, InClaimed
  <2>3. CASE ~e.dir
    <3>1. e \in FilesIn(del) /\ e \in FilesIn(RecOf(dk, h).ents)
      BY <2>1, <2>3 DEF FilesIn
    <3>2. FileClaim(h, e) \in G /\ FileClaim(h, e).run = e.run
      BY Zenon, <1>0, <3>1, FileClaimIn, ClaimFields DEF GoneClaims
    <3> QED BY <1>2, <3>2, InClaimed
  <2> QED BY <2>2, <2>3
<1>3. ASSUME NEW g \in Gone(dk, rc, del), NEW f \in RecOf(dk, g).ents, k \in Of(f.run)
      PROVE  k \in ClaimedBy(G)
  <2>1. f \in FilesIn(RecOf(dk, g).ents) /\ g \in Homes(dk, rc)
    <3>1. WentWith(dk, rc, h, del, g)
      BY Zenon, GoneIs
    <3> QED BY Zenon, <3>1 DEF WentWith
  <2>2. FileClaim(g, f) \in G /\ FileClaim(g, f).run = f.run
    BY Zenon, <2>1, FileClaimIn, ClaimFields DEF GoneClaims
  <2> QED BY <1>3, <2>2, InClaimed
<1> QED BY Zenon, <1>1, <1>2, <1>3

\* What the entries have can be given back, and it is what the drive has again.
LEMMA RemovalFrees ==
  ASSUME NEW dk, NEW rc, NEW cl, NEW or, NEW sp, Good(dk, rc, cl, or, sp),
         NEW h \in Homes(dk, rc), NEW del \in SUBSET RecOf(dk, h).ents,
         NEW sp2 \in Space!FreedAll(sp, {e.run : e \in del})
  PROVE  sp2 \in SpaceType /\ ListIsClear(sp2)
         /\ \A k : k \in sp2.used <=> k \in sp.used /\ \A e \in del : k \notin Of(e.run)
<1> DEFINE runs == {e.run : e \in del}
<1>1. \A e \in del : e.run \in Run /\ Of(e.run) \subseteq sp.used
  BY Zenon, EntryIs
<1>2. \A e, f \in del : e = f \/ \A k : ~(k \in Of(e.run) /\ k \in Of(f.run))
  BY Zenon, EntriesApart
<1>3. runs \in SUBSET Run /\ \A r \in runs : Of(r) \subseteq sp.used
  BY <1>1
<1>4. IsFiniteSet(runs)
  BY Zenon, <1>3, RunsFinite_
<1>5. ASSUME NEW r \in runs, NEW q \in runs PROVE r = q \/ Disjoint(r, q)
  <2>1. PICK e \in del : r = e.run
    OBVIOUS
  <2>2. PICK f \in del : q = f.run
    OBVIOUS
  <2>3. r # q => \A k : ~(k \in Of(r) /\ k \in Of(q))
    BY Zenon, <1>2, <2>1, <2>2
  <2> QED BY <2>3 DEF Disjoint
<1>6. sp \in SpaceType /\ ListIsClear(sp)
  BY DEF Good, SpaceOk
<1> HIDE DEF runs
<1>7. sp2 \in SpaceType /\ ListIsClear(sp2) /\ sp2.used = sp.used \ UNION {Of(r) : r \in runs}
  BY Zenon, <1>3, <1>4, <1>5, <1>6, FreedAll_ DEF runs
<1>8. \A k : k \in UNION {Of(r) : r \in runs} <=> \E e \in del : k \in Of(e.run)
  BY DEF runs
<1> QED BY <1>7, <1>8

LEMMA RemoveKeeps ==
  ASSUME OwnDirs,
         NEW dk, NEW rc, NEW cl, NEW or, NEW sp, Good(dk, rc, cl, or, sp),
         NEW h, NEW del, NEW nr, NEW dk2, Removal(dk, rc, cl, h, del, nr, dk2),
         NEW sp2 \in Space!FreedAll(sp, {e.run : e \in del})
  PROVE  Good(dk2, rc, cl, or \cup Lost(dk, rc, del), sp2)
<1> DEFINE C == Claims(dk, rc, cl, or)
           G == GoneClaims(dk, rc, cl, or, h, del)
           L == LostClaims(dk, rc, del)
<1>0. h \in Homes(dk, rc) /\ del \in SUBSET RecOf(dk, h).ents
  BY DEF Removal
<1>1. SpaceOk(C, sp) /\ G \in SUBSET C
  BY Zenon DEF Good, GoneClaims
<1>2. /\ sp2 \in SpaceType /\ ListIsClear(sp2)
      /\ \A k : k \in sp2.used <=> k \in sp.used /\ \A e \in del : k \notin Of(e.run)
  BY Zenon, <1>0, RemovalFrees
<1>3. \A k : k \in ClaimedBy(L) <=> \E g \in Gone(dk, rc, del) : \E f \in RecOf(dk, g).ents : k \in Of(f.run)
  BY Zenon, LostIs
<1>4. \A k : k \in ClaimedBy(G) <=> (\E e \in del : k \in Of(e.run)) \/ k \in ClaimedBy(L)
  BY Zenon, <1>3, GoneClaimed
<1>5. ASSUME NEW g \in Gone(dk, rc, del), NEW f \in RecOf(dk, g).ents, NEW k \in Of(f.run)
      PROVE  k \in sp.used /\ \A e \in del : k \notin Of(e.run)
  <2>1. g \in Homes(dk, rc) /\ g.dir # NULL /\ h.dir = NULL
    <3>1. WentWith(dk, rc, h, del, g)
      BY Zenon, GoneIs
    <3> QED BY Zenon, <3>1 DEF WentWith
  <2>2. Of(f.run) \subseteq sp.used
    BY Zenon, <2>1, EntryIs
  <2>3. \A e \in del : e \in RecOf(dk, h).ents
    BY <1>0
  <2>4. g # h
    BY <2>1
  <2> QED BY Zenon, <1>0, <2>1, <2>2, <2>3, <2>4, EntriesApart
<1>6. \A k \in ClaimedBy(L) : k \in sp.used /\ \A e \in del : k \notin Of(e.run)
  BY Zenon, <1>3, <1>5
<1>7. ASSUME NEW a \in L, NEW b \in L PROVE a = b \/ Disjoint(a.run, b.run)
  <2>1. PICK r \in Lost(dk, rc, del) : a = OrphanClaim(r)
    BY Zenon DEF LostClaims
  <2>2. PICK q \in Lost(dk, rc, del) : b = OrphanClaim(q)
    BY Zenon DEF LostClaims
  <2>3. PICK g \in Gone(dk, rc, del) : \E e \in RecOf(dk, g).ents : r = e.run
    BY Zenon DEF Lost
  <2>4. PICK e \in RecOf(dk, g).ents : r = e.run
    BY Zenon, <2>3
  <2>5. PICK f \in Gone(dk, rc, del) : \E d \in RecOf(dk, f).ents : q = d.run
    BY Zenon DEF Lost
  <2>6. PICK d \in RecOf(dk, f).ents : q = d.run
    BY Zenon, <2>5
  <2>7. g \in Homes(dk, rc) /\ f \in Homes(dk, rc)
    BY DEF Gone
  <2>8. g # f \/ e # d => \A k : ~(k \in Of(r) /\ k \in Of(q))
    BY Zenon, <2>4, <2>6, <2>7, EntriesApart
  <2>9. a.run = r /\ b.run = q
    BY Zenon, <2>1, <2>2, ClaimFields
  <2> QED BY <2>1, <2>2, <2>4, <2>6, <2>8, <2>9 DEF Disjoint
<1>8. \A a \in L : \A k \in Of(a.run) : k \in ClaimedBy(G)
  BY Zenon, <1>4, InClaimed
<1>9. \A k : k \in sp2.used <=> (k \in sp.used /\ k \notin ClaimedBy(G)) \/ k \in ClaimedBy(L)
  BY Zenon, <1>2, <1>4, <1>6
<1>10. Claims(dk2, rc, cl, or \cup Lost(dk, rc, del)) = (C \ G) \cup L
  <2>1. ClaimsPass(dk, rc, cl, or, h, del, dk2)
    BY Zenon, RemovalClaims
  <2> QED BY Zenon, <2>1 DEF ClaimsPass
<1> HIDE DEF C, G, L
<1>11. SpaceOk((C \ G) \cup L, sp2)
  BY Zenon, <1>1, <1>2, <1>7, <1>8, <1>9, SpaceKeeps
<1>12. SpaceOk(Claims(dk2, rc, cl, or \cup Lost(dk, rc, del)), sp2)
  BY <1>10, <1>11
<1>13. /\ DirsOk(dk2, rc) /\ MakersOk(dk2, rc, cl) /\ FilesOk(dk2, rc)
       /\ \A t \in Task : StepOk(dk2, rc, cl[t], t)
  BY Zenon, RemovalDirs
<1>14. dk2 \in DiskType
  BY Zenon, RemovalRec
<1>15. Lost(dk, rc, del) \subseteq Run /\ \A run \in Lost(dk, rc, del) : run.size > 0
  BY DEF Lost
<1>16. /\ rc \in Clus /\ or \subseteq Run /\ \A run \in or : run.size > 0
       /\ DOMAIN cl = Task /\ cl = [t \in Task |-> cl[t]] /\ \A t \in Task : CallOk(cl[t])
  BY Zenon DEF Good
<1>17. /\ or \cup Lost(dk, rc, del) \subseteq Run
       /\ \A run \in or \cup Lost(dk, rc, del) : run.size > 0
  BY <1>15, <1>16
<1> QED BY Zenon, <1>12, <1>13, <1>14, <1>16, <1>17 DEF Good

\* What is given back is what the removed entries had; what was in a removed
\* directory stays held, cut off.
LEMMA RemoveHeld ==
  ASSUME NEW dk, NEW rc, NEW cl, NEW or, NEW sp, Good(dk, rc, cl, or, sp),
         NEW h, NEW del, NEW nr, NEW dk2, Removal(dk, rc, cl, h, del, nr, dk2), NEW r
  PROVE  r \in HeldBy(dk2, rc, cl, or \cup Lost(dk, rc, del)) <=>
           r \in HeldBy(dk, rc, cl, or) /\ \A e \in del : r # e.run
<1> DEFINE C == Claims(dk, rc, cl, or)
           G == GoneClaims(dk, rc, cl, or, h, del)
           L == LostClaims(dk, rc, del)
<1>1. h \in Homes(dk, rc) /\ \A e \in del : e \in RecOf(dk, h).ents
  BY DEF Removal
<1>2. G \in SUBSET C
  BY Zenon DEF GoneClaims
<1>3. r \in HeldOf(L) => r \in Lost(dk, rc, del)
  <2>1. ASSUME NEW x \in L PROVE x.run \in Lost(dk, rc, del)
    <3>1. PICK run \in Lost(dk, rc, del) : x = OrphanClaim(run)
      BY Zenon DEF LostClaims
    <3>2. OrphanClaim(run).run = run
      BY Zenon, ClaimFields
    <3> QED BY <3>1, <3>2
  <2> HIDE DEF L
  <2> QED BY <2>1, InHeldOf
<1>4. ASSUME r \in Lost(dk, rc, del)
      PROVE  /\ r \in HeldOf(L) /\ r \in HeldOf(G) /\ r \in HeldBy(dk, rc, cl, or)
             /\ \A e \in del : r # e.run
  <2>1. PICK g \in Gone(dk, rc, del) : \E f \in RecOf(dk, g).ents : r = f.run
    BY Zenon, <1>4 DEF Lost
  <2>2. PICK f \in RecOf(dk, g).ents : r = f.run
    BY <2>1
  <2>3. r \in Run /\ r.size > 0
    BY <1>4 DEF Lost
  <2>4. /\ g \in Homes(dk, rc) /\ g.dir # NULL /\ h.dir = NULL
        /\ f \in FilesIn(RecOf(dk, g).ents)
    <3>1. WentWith(dk, rc, h, del, g)
      BY Zenon, GoneIs
    <3> QED BY Zenon, <3>1 DEF WentWith
  <2>5. FileClaim(g, f) \in G /\ FileClaim(g, f) \in C
    BY Zenon, <2>4, FileClaimIn DEF GoneClaims
  <2>6. FileClaim(g, f).run = r
    BY <2>2, ClaimFields
  <2>7. OrphanClaim(r) \in L
    BY Zenon, <1>4 DEF LostClaims
  <2>8. OrphanClaim(r).run = r
    BY Zenon, ClaimFields
  <2>9. ASSUME NEW e \in del PROVE r # e.run
    <3>1. \A k : ~(k \in Of(e.run) /\ k \in Of(f.run))
      <4>1. e \in RecOf(dk, h).ents /\ h # g
        BY <1>1, <2>4
      <4> QED BY Zenon, <1>1, <2>4, <4>1, EntriesApart
    <3>2. r.start \in Of(r)
      BY <2>3, RunIs
    <3> QED BY <2>2, <3>1, <3>2
  <2> HIDE DEF C, G, L
  <2>10. r \in HeldOf(L) /\ r \in HeldOf(G) /\ r \in HeldOf(C)
    BY Zenon, <2>3, <2>5, <2>6, <2>7, <2>8, InHeldOf
  <2> QED BY <2>9, <2>10 DEF HeldBy, C
<1>5. ASSUME r \in HeldOf(G), r \notin Lost(dk, rc, del) PROVE \E e \in del : r = e.run
  <2>1. PICK x \in G : x.run = r /\ r.size > 0
    BY Zenon, <1>5, InHeldOf
  <2>2. ASSUME NEW g \in Gone(dk, rc, del), x = DirClaim(g) PROVE \E e \in del : r = e.run
    <3>1. WentWith(dk, rc, h, del, g)
      BY Zenon, GoneIs
    <3>2. \E e \in del : g.run = e.run
      BY Zenon, <3>1 DEF WentWith
    <3>3. DirClaim(g).run = g.run
      BY Zenon, ClaimFields
    <3> QED BY <2>1, <2>2, <3>2, <3>3
  <2>3. ASSUME NEW g \in Gone(dk, rc, del), NEW f \in FilesIn(RecOf(dk, g).ents), x = FileClaim(g, f)
        PROVE  FALSE
    <3>1. FileClaim(g, f).run = f.run
      BY Zenon, ClaimFields
    <3>2. r = f.run /\ f \in RecOf(dk, g).ents
      BY <2>1, <2>3, <3>1 DEF FilesIn
    <3>3. x \in C
      BY <1>2, <2>1
    <3>4. r \in Run
      BY Zenon, <2>1, <3>3, ClaimRuns
    <3>5. r \in Lost(dk, rc, del)
      BY <2>1, <3>2, <3>4 DEF Lost
    <3> QED BY <1>5, <3>5
  <2>4. ASSUME NEW e \in FilesIn(del), x = FileClaim(h, e) PROVE r = e.run /\ e \in del
    <3>1. FileClaim(h, e).run = e.run
      BY Zenon, ClaimFields
    <3> QED BY <2>1, <2>4, <3>1 DEF FilesIn
  <2> QED BY Zenon, <2>1, <2>2, <2>3, <2>4 DEF GoneClaims
<1>6. ASSUME NEW e \in del, r = e.run, r \in HeldBy(dk, rc, cl, or) PROVE r \in HeldOf(G)
  <2>1. r.size > 0 /\ e \in RecOf(dk, h).ents
    BY <1>1, <1>6, InHeldOf DEF HeldBy
  <2>2. CASE e.dir
    <3> DEFINE g == Home(e.name, e.run)
    <3>1. g \in Homes(dk, rc) /\ g.dir = e.name /\ g.run = e.run
      BY <1>1, <2>1, <2>2, DirEntryIs, HomeFields
    <3> HIDE DEF g
    <3>2. g \in Gone(dk, rc, del)
      BY <2>2, <3>1 DEF Gone
    <3>3. DirClaim(g) \in G /\ DirClaim(g).run = e.run
      BY Zenon, <3>1, <3>2, DirClaimIn, ClaimFields DEF GoneClaims
    <3> QED BY Zenon, <1>6, <2>1, <3>3, InHeldOf
  <2>3. CASE ~e.dir
    <3>1. e \in FilesIn(del) /\ e \in FilesIn(RecOf(dk, h).ents)
      BY <2>1, <2>3 DEF FilesIn
    <3>2. FileClaim(h, e) \in G
      BY Zenon, <1>1, <3>1, FileClaimIn DEF GoneClaims
    <3>3. FileClaim(h, e).run = r
      BY <1>6, ClaimFields
    <3> QED BY Zenon, <2>1, <3>2, <3>3, InHeldOf
  <2> QED BY <2>2, <2>3
<1>7. r \in HeldOf((C \ G) \cup L) <=> (r \in HeldBy(dk, rc, cl, or) /\ r \notin HeldOf(G)) \/ r \in HeldOf(L)
  BY <1>2, HeldPass
<1>8. Claims(dk2, rc, cl, or \cup Lost(dk, rc, del)) = (C \ G) \cup L
  <2>1. ClaimsPass(dk, rc, cl, or, h, del, dk2)
    BY Zenon, RemovalClaims
  <2> QED BY Zenon, <2>1 DEF ClaimsPass
<1> HIDE DEF C, G, L
<1>9. r \in HeldBy(dk2, rc, cl, or \cup Lost(dk, rc, del)) <=> r \in HeldOf((C \ G) \cup L)
  BY <1>8 DEF HeldBy
<1> QED BY Zenon, <1>3, <1>4, <1>5, <1>6, <1>7, <1>9

RunsOfAll(del) == {e.run : e \in del}
LessBy(dk, rc, cl, or, del, dk2, or2) == HeldBy(dk2, rc, cl, or2) = HeldBy(dk, rc, cl, or) \ RunsOfAll(del)
LEMMA RemoveLess ==
  ASSUME NEW dk, NEW rc, NEW cl, NEW or, NEW sp, Good(dk, rc, cl, or, sp),
         NEW h, NEW del, NEW nr, NEW dk2, Removal(dk, rc, cl, h, del, nr, dk2)
  PROVE  LessBy(dk, rc, cl, or, del, dk2, or \cup Lost(dk, rc, del))
<1> DEFINE H == HeldBy(dk, rc, cl, or)
           H2 == HeldBy(dk2, rc, cl, or \cup Lost(dk, rc, del))
<1>1. ASSUME NEW r PROVE r \in H2 <=> r \in H /\ \A e \in del : r # e.run
  BY RemoveHeld
<1> HIDE DEF H, H2
<1>2. H2 = H \ RunsOfAll(del)
  BY <1>1 DEF RunsOfAll
<1> QED BY <1>2 DEF LessBy, H, H2

-----------------------------------------------------------------------------
(***************************************************************************)
(* A file or a directory is entered in a directory that has room for it.   *)
(***************************************************************************)
LEMMA NameIs ==
  ASSUME OwnDirs, NEW t \in Task, NEW op \in Ops[t], op.op # "del"
  PROVE  /\ NameOf(op) \in op.names /\ NameOf(op) \in Name /\ op.op \in {"mkdir", "write"}
         /\ op.op = "mkdir" => /\ op.dir = NULL /\ op.blks > 0 /\ op.names \subseteq Made(t)
                               /\ NameOf(op) \in Made(t) /\ NameOf(op) \in DirNames
         /\ op.op = "write" /\ op.dir = NULL => NameOf(op) \notin DirNames
<1>1. op.names # {} /\ op.names \subseteq Name /\ op.op \in {"mkdir", "write"}
  BY DEF OwnDirs
<1>2. NameOf(op) \in op.names
  <2>1. \E n \in op.names : TRUE
    BY <1>1
  <2> QED BY <2>1 DEF NameOf
<1>3. op.op = "mkdir" => op.dir = NULL /\ op.blks > 0
  BY DEF OwnDirs
<1>4. op.op = "mkdir" => op.names \subseteq Made(t)
  BY DEF Made
<1>5. op.op = "write" /\ op.dir = NULL => op.names \cap DirNames = {}
  BY DEF OwnDirs
<1>6. Made(t) \subseteq DirNames
  BY DEF DirNames
<1> QED BY <1>1, <1>2, <1>3, <1>4, <1>5, <1>6

LEMMA MadeApart ==
  ASSUME OwnDirs, NEW t \in Task, NEW u \in Task, t # u
  PROVE  \A n : ~(n \in Made(t) /\ n \in Made(u))
<1>1. Made(t) \cap Made(u) = {}
  BY Zenon DEF OwnDirs
<1> QED BY <1>1

LEMMA FirstNotMade ==
  ASSUME OwnDirs, NEW t \in Task PROVE FirstDir \notin Made(t)
<1>1. \A op \in Ops[t] : op.op = "mkdir" => FirstDir \notin op.names
  BY Zenon DEF OwnDirs
<1> QED BY <1>1 DEF Made

\* A task that writes what is to be a directory, and the directory it has entered.
MakesDir(dk, rc, cl, t) ==
  /\ cl[t].op \in Ops[t] /\ cl[t].op.op # "del" /\ cl[t].run \in Run /\ cl[t].run.size = cl[t].op.blks
  /\ cl[t].op.op = "mkdir" => cl[t].run.size > 0 /\ cl[t].run.start \in Of(cl[t].run)

LEMMA WriterIs ==
  ASSUME OwnDirs, NEW dk, NEW rc, NEW cl, NEW or, NEW sp, Good(dk, rc, cl, or, sp),
         NEW t \in Task, cl[t].at \in {"write", "enter", "fill"}
  PROVE  MakesDir(dk, rc, cl, t)
<1>1. StepOk(dk, rc, cl[t], t) /\ CallOk(cl[t])
  BY Zenon DEF Good
<1>2. cl[t].op \in Ops[t] /\ cl[t].op.op # "del" /\ cl[t].run.size = cl[t].op.blks /\ cl[t].run \in Run
  BY <1>1 DEF StepOk, CallOk, Working
<1>3. cl[t].op.op = "mkdir" => cl[t].run.size > 0
  BY <1>2, NameIs
<1> QED BY <1>2, <1>3, RunIs DEF MakesDir

NewHome(c) == Home(NameOf(c.op), c.run)
Fills(dk, rc, cl, t) ==
  /\ cl[t].op.op = "mkdir" /\ NewHome(cl[t]) \in Homes(dk, rc)
  /\ NewHome(cl[t]).dir = NameOf(cl[t].op) /\ NewHome(cl[t]).run = cl[t].run
  /\ RecOf(dk, NewHome(cl[t])) = dk[cl[t].run.start]
  /\ RecOf(dk, NewHome(cl[t])).blks = 0 /\ RecOf(dk, NewHome(cl[t])).ents = {}

LEMMA FillIs ==
  ASSUME NEW dk, NEW rc, NEW cl, NEW or, NEW sp, Good(dk, rc, cl, or, sp),
         NEW t \in Task, cl[t].at = "fill"
  PROVE  Fills(dk, rc, cl, t)
<1> DEFINE c == cl[t]
           e == Entry(NameOf(c.op), TRUE, c.run)
           g == Home(e.name, e.run)
<1>1. StepOk(dk, rc, c, t)
  BY Zenon DEF Good
<1>2. c.op.op = "mkdir" /\ e \in dk[rc].ents /\ dk[c.run.start] = Dir(0, {}, 0)
  BY <1>1 DEF StepOk, Written
<1>3. e.dir /\ e.name = NameOf(c.op) /\ e.run = c.run
  BY DEF Entry
<1>4. g \in Homes(dk, rc)
  BY <1>2, <1>3, SubHomeIn
<1>5. g = NewHome(c)
  BY <1>3 DEF NewHome
<1>6. g.dir = NameOf(c.op) /\ g.run = c.run
  <2>1. g.dir = e.name /\ g.run = e.run
    <3> HIDE DEF e
    <3> QED BY HomeFields
  <2> QED BY <1>3, <2>1
<1> HIDE DEF e, g
<1>7. RecOf(dk, g) = dk[c.run.start]
  BY <1>6 DEF RecOf
<1>8. RecOf(dk, g).blks = 0 /\ RecOf(dk, g).ents = {}
  BY <1>2, <1>7 DEF Dir
<1> QED BY <1>2, <1>4, <1>5, <1>6, <1>7, <1>8 DEF Fills

\* A record is written anew: the other tasks go on.
LEMMA OthersStep ==
  ASSUME OwnDirs,
         NEW dk, NEW rc, NEW cl, NEW or, NEW sp, Good(dk, rc, cl, or, sp),
         NEW h \in Homes(dk, rc), NEW nr, NEW dk2, IsUpdate(dk, h, nr, dk2),
         NEW t \in Task,
         Working(cl[t]) => \E g \in Homes(dk2, rc) : g.dir = cl[t].op.dir,
         Working(cl[t]) /\ cl[t].op.op = "mkdir" /\ cl[t].at # "fill" =>
           \A e \in dk2[rc].ents : e.name \notin cl[t].op.names,
         cl[t].at = "fill" => /\ NameOf(cl[t].op) # h.dir
                              /\ Entry(NameOf(cl[t].op), TRUE, cl[t].run) \in dk2[rc].ents
  PROVE  StepOk(dk2, rc, cl[t], t)
<1> DEFINE c == cl[t]
<1>1. Updated(dk, rc, h, nr, dk2) /\ SameContent(dk, rc, cl, dk2)
  BY Zenon, UpdateFrame
<1>2. StepOk(dk, rc, c, t)
  BY Zenon DEF Good
<1>3. c.at = "enter" => \A k \in Of(c.run) : dk2[k] = dk[k]
  BY <1>1 DEF SameContent
<1>4. c.at = "enter" /\ c.op.op = "mkdir" => dk2[c.run.start] = dk[c.run.start]
  <2>1. c.at = "enter" => MakesDir(dk, rc, cl, t)
    BY WriterIs
  <2> QED BY <1>3, <2>1 DEF MakesDir
<1>5. ASSUME c.at = "fill" PROVE dk2[c.run.start] = dk[c.run.start]
  <2>1. Fills(dk, rc, cl, t)
    BY <1>5, FillIs
  <2> DEFINE g == NewHome(c)
  <2>2. g \in Homes(dk, rc) /\ g # h /\ g.run = c.run
    BY <1>5, <2>1 DEF Fills
  <2> HIDE DEF g
  <2>3. RecOf(dk2, g) = RecOf(dk, g)
    BY Zenon, <1>1, <2>2 DEF Updated
  <2> QED BY <2>2, <2>3 DEF RecOf
<1> QED BY Zenon, <1>2, <1>3, <1>4, <1>5, StepFrame

NewOf(c) == Entry(NameOf(c.op), c.op.op = "mkdir", c.run)
After2(cl, t) ==
  [cl EXCEPT ![t] = IF cl[t].op.op = "mkdir" THEN [cl[t] EXCEPT !.at = "fill"] ELSE Idle]
Entering(dk, rc, cl, t, h, nr, dk2) ==
  /\ t \in Task /\ cl[t].at = "enter"
  /\ h \in Homes(dk, rc) /\ h.dir = cl[t].op.dir /\ RecOf(dk, h).blks > 0
  /\ \A e \in RecOf(dk, h).ents : e.name # NameOf(cl[t].op)
  /\ nr \in DirType /\ nr.ents = RecOf(dk, h).ents \cup {NewOf(cl[t])}
  /\ nr.blks = RecOf(dk, h).blks /\ Used(nr) < nr.blks * Slots
  /\ dk2 = [dk EXCEPT ![h.run.start] = nr]

NewEntryOk(dk, rc, cl, t, h) ==
  /\ NewOf(cl[t]) \in EntryType
  /\ NewOf(cl[t]).name = NameOf(cl[t].op) /\ NewOf(cl[t]).run = cl[t].run
  /\ NewOf(cl[t]).dir <=> cl[t].op.op = "mkdir"
  /\ NewOf(cl[t]).dir <=> h.dir = NULL /\ NameOf(cl[t].op) \in DirNames
  /\ NewOf(cl[t]).dir => cl[t].run.size > 0 /\ NameOf(cl[t].op) \in Made(t)
  /\ cl[t].run.size = 0 => cl[t].run = EmptyRun
  /\ NameOf(cl[t].op) # FirstDir \/ ~NewOf(cl[t]).dir

LEMMA NewEntryIs ==
  ASSUME OwnDirs, NEW dk, NEW rc, NEW cl, NEW or, NEW sp, Good(dk, rc, cl, or, sp),
         NEW t, NEW h, NEW nr, NEW dk2, Entering(dk, rc, cl, t, h, nr, dk2)
  PROVE  NewEntryOk(dk, rc, cl, t, h)
<1> DEFINE c == cl[t]
           e == NewOf(c)
<1>1. t \in Task /\ c.at = "enter" /\ h.dir = c.op.dir
  BY DEF Entering
<1>2. MakesDir(dk, rc, cl, t) /\ CallOk(c)
  <2>1. CallOk(c)
    BY <1>1 DEF Good
  <2> QED BY <1>1, <2>1, WriterIs
<1>3. c.op \in Ops[t] /\ c.op.op # "del" /\ c.run \in Run
  BY Zenon, <1>2 DEF MakesDir
<1>4. /\ NameOf(c.op) \in Name /\ c.op.op \in {"mkdir", "write"}
      /\ c.op.op = "mkdir" => c.op.dir = NULL /\ NameOf(c.op) \in Made(t) /\ NameOf(c.op) \in DirNames
      /\ c.op.op = "write" /\ c.op.dir = NULL => NameOf(c.op) \notin DirNames
  BY <1>1, <1>3, NameIs
<1>5. e.name = NameOf(c.op) /\ e.run = c.run /\ (e.dir <=> c.op.op = "mkdir") /\ e \in EntryType
  BY <1>3, <1>4 DEF NewOf, Entry, EntryType
<1>6. c.op.op = "mkdir" => c.run.size > 0
  BY <1>2 DEF MakesDir
<1>7. c.run.size = 0 => c.run = EmptyRun
  BY <1>2 DEF CallOk
<1>8. FirstDir \notin Made(t)
  BY <1>1, FirstNotMade
<1> HIDE DEF e
<1>9. e.dir <=> h.dir = NULL /\ NameOf(c.op) \in DirNames
  BY <1>1, <1>4, <1>5
<1>10. e.dir => c.run.size > 0 /\ NameOf(c.op) \in Made(t)
  BY <1>4, <1>5, <1>6
<1>11. NameOf(c.op) # FirstDir \/ ~e.dir
  BY <1>8, <1>10
<1> QED BY <1>5, <1>7, <1>9, <1>10, <1>11 DEF e, NewEntryOk

LEMMA EnteringRec ==
  ASSUME OwnDirs, NEW dk, NEW rc, NEW cl, NEW or, NEW sp, Good(dk, rc, cl, or, sp),
         NEW t, NEW h, NEW nr, NEW dk2, Entering(dk, rc, cl, t, h, nr, dk2)
  PROVE  h \in Homes(dk, rc) /\ dk2 \in DiskType /\ IsUpdate(dk, h, nr, dk2)
<1>1. /\ h \in Homes(dk, rc) /\ RecOf(dk, h).blks > 0
      /\ \A e \in RecOf(dk, h).ents : e.name # NameOf(cl[t].op)
      /\ nr \in DirType /\ nr.ents = RecOf(dk, h).ents \cup {NewOf(cl[t])}
      /\ nr.blks = RecOf(dk, h).blks /\ Used(nr) < nr.blks * Slots
      /\ dk2 = [dk EXCEPT ![h.run.start] = nr]
  BY DEF Entering
<1>2. RecOk(h.dir, h.run.size, RecOf(dk, h)) /\ h.run.start \in Clus /\ h.run.start \in Of(h.run)
  BY Zenon, <1>1, HomeIs
<1>3. IsFiniteSet(nr.ents)
  <2>1. IsFiniteSet(RecOf(dk, h).ents)
    BY Zenon, <1>2 DEF RecOk
  <2>2. IsFiniteSet(RecOf(dk, h).ents \cup {NewOf(cl[t])})
    BY Zenon, <2>1, FS_AddElement
  <2> QED BY <1>1, <2>2
<1>4. NewEntryOk(dk, rc, cl, t, h)
  BY Zenon, NewEntryIs
<1>5. ASSUME NEW e \in nr.ents, NEW f \in nr.ents, e.name = f.name PROVE e = f
  BY <1>1, <1>2, <1>4, <1>5 DEF RecOk, NewEntryOk
<1>6. ASSUME NEW e \in nr.ents
      PROVE  /\ e.dir <=> h.dir = NULL /\ e.name \in DirNames
             /\ e.dir => e.run.size > 0
             /\ e.run.size = 0 => e.run = EmptyRun
  BY <1>1, <1>2, <1>4, <1>6 DEF RecOk, NewEntryOk
<1>7. nr.blks \in {0, h.run.size} /\ nr.blks # 0
  BY <1>1, <1>2 DEF RecOk
<1>8. RecOk(h.dir, h.run.size, nr)
  BY <1>1, <1>3, <1>5, <1>6, <1>7 DEF RecOk
<1>9. dk \in DiskType
  BY Zenon DEF Good
<1>10. dk2 \in DiskType
  BY <1>1, <1>2, <1>9 DEF DiskType
<1>11. dk2[h.run.start] = nr /\ \A k \in Clus : k \notin Of(h.run) => dk2[k] = dk[k]
  BY <1>1, <1>2, <1>9 DEF DiskType
<1>12. nr.blks > 0
  BY <1>1
<1>13. IsUpdate(dk, h, nr, dk2)
  BY <1>8, <1>11, <1>12 DEF IsUpdate
<1> QED BY <1>1, <1>10, <1>13

\* The directories there are then: one more, if the entry is that of a directory.
EnteredHomes(dk, rc, cl, t, dk2) ==
  /\ \A g : g \in Homes(dk2, rc) <=>
       g \in Homes(dk, rc) \/ (cl[t].op.op = "mkdir" /\ g = NewHome(cl[t]))
  /\ cl[t].op.op = "mkdir" => /\ NewHome(cl[t]) \notin Homes(dk, rc)
                              /\ NewHome(cl[t]).dir = NameOf(cl[t].op) /\ NewHome(cl[t]).run = cl[t].run
                              /\ RecOf(dk2, NewHome(cl[t])) = Dir(0, {}, 0)

LEMMA EnteringHomes ==
  ASSUME OwnDirs, NEW dk, NEW rc, NEW cl, NEW or, NEW sp, Good(dk, rc, cl, or, sp),
         NEW t, NEW h, NEW nr, NEW dk2, Entering(dk, rc, cl, t, h, nr, dk2)
  PROVE  EnteredHomes(dk, rc, cl, t, dk2)
<1> DEFINE c == cl[t]
           g0 == NewHome(c)
<1>1. h \in Homes(dk, rc) /\ dk2 \in DiskType /\ IsUpdate(dk, h, nr, dk2)
  BY Zenon, EnteringRec
<1>2. Updated(dk, rc, h, nr, dk2) /\ SameContent(dk, rc, cl, dk2)
  BY Zenon, <1>1, UpdateFrame
<1>3. NewEntryOk(dk, rc, cl, t, h)
  BY Zenon, NewEntryIs
<1>4. /\ t \in Task /\ c.at = "enter"
      /\ nr.ents = RecOf(dk, h).ents \cup {NewOf(c)}
      /\ \A e \in RecOf(dk, h).ents : e.name # NameOf(c.op)
  BY DEF Entering
<1>5. g0.dir = NameOf(c.op) /\ g0.run = c.run
  BY HomeFields DEF NewHome
<1>6. g0 = Home(NewOf(c).name, NewOf(c).run)
  BY <1>3 DEF NewEntryOk, NewHome
<1> HIDE DEF g0
<1>7. c.op.op = "mkdir" => h.dir = NULL
  BY <1>3 DEF NewEntryOk
<1>8. ASSUME NEW g PROVE g \in Homes(dk2, rc) <=> g \in Homes(dk, rc) \/ (c.op.op = "mkdir" /\ g = g0)
  <2>1. CASE h.dir # NULL
    BY <1>2, <1>7, <2>1 DEF Updated
  <2>2. CASE h.dir = NULL
    <3>1. RecOf(dk, h) = dk[rc] /\ h = RootHome(dk, rc)
      BY Zenon, <1>1, <2>2, RootIs
    <3>2. Homes(dk2, rc) = {h} \cup SubHomes(nr.ents)
      BY <1>2, <2>2 DEF Updated
    <3>3. Homes(dk, rc) = {h} \cup SubHomes(dk[rc].ents)
      BY <3>1 DEF Homes
    <3>4. g \in SubHomes(nr.ents) <=> \E e \in nr.ents : e.dir /\ g = Home(e.name, e.run)
      BY Zenon, InSubHomes
    <3>5. g \in SubHomes(dk[rc].ents) <=> \E e \in dk[rc].ents : e.dir /\ g = Home(e.name, e.run)
      BY Zenon, InSubHomes
    <3>6. NewOf(c).dir <=> c.op.op = "mkdir"
      BY <1>3 DEF NewEntryOk
    <3>7. \A e : e \in nr.ents <=> e \in dk[rc].ents \/ e = NewOf(c)
      BY <1>4, <3>1
    <3>8. g \in SubHomes(nr.ents) <=> g \in SubHomes(dk[rc].ents) \/ (c.op.op = "mkdir" /\ g = g0)
      BY Zenon, <1>6, <3>4, <3>5, <3>6, <3>7
    <3> QED BY <3>2, <3>3, <3>8
  <2> QED BY <2>1, <2>2
<1>9. ASSUME c.op.op = "mkdir" PROVE g0 \notin Homes(dk, rc) /\ RecOf(dk2, g0) = Dir(0, {}, 0)
  <2>1. RecOf(dk, h) = dk[rc]
    BY Zenon, <1>1, <1>7, <1>9, RootIs
  <2>2. g0.dir # NULL
    <3>1. NameOf(c.op) \in Name
      BY <1>3 DEF NewEntryOk, EntryType
    <3> QED BY <1>5, <3>1, RedSeaAssumption
  <2>3. g0 \notin Homes(dk, rc)
    <3>1. ASSUME g0 \in Homes(dk, rc) PROVE FALSE
      <4>1. Entry(g0.dir, TRUE, g0.run) \in dk[rc].ents
        BY Zenon, <2>2, <3>1, SubIs
      <4>2. Entry(g0.dir, TRUE, g0.run).name = g0.dir
        BY DEF Entry
      <4> QED BY <1>4, <1>5, <2>1, <4>1, <4>2
    <3> QED BY <3>1
  <2>4. MakesDir(dk, rc, cl, t)
    BY <1>4, WriterIs
  <2>5. c.run.start \in Of(c.run)
    BY <1>9, <2>4 DEF MakesDir
  <2>6. dk2[c.run.start] = dk[c.run.start]
    BY <1>2, <1>4, <2>5 DEF SameContent
  <2>7. Written(dk, c, t)
    BY <1>4 DEF Good, StepOk
  <2> QED BY <1>5, <1>9, <2>3, <2>6, <2>7 DEF Written, RecOf
<1> QED BY <1>5, <1>8, <1>9 DEF g0, EnteredHomes

LEMMA EnteringDirs ==
  ASSUME OwnDirs, NEW dk, NEW rc, NEW cl, NEW or, NEW sp, Good(dk, rc, cl, or, sp),
         NEW t, NEW h, NEW nr, NEW dk2, Entering(dk, rc, cl, t, h, nr, dk2)
  PROVE  DirsOk(dk2, rc) /\ MakersOk(dk2, rc, After2(cl, t)) /\ FilesOk(dk2, rc)
<1> DEFINE c == cl[t]
           g0 == NewHome(c)
           cl2 == After2(cl, t)
<1>1. h \in Homes(dk, rc) /\ dk2 \in DiskType /\ IsUpdate(dk, h, nr, dk2)
  BY Zenon, EnteringRec
<1>2. Updated(dk, rc, h, nr, dk2) /\ SameContent(dk, rc, cl, dk2)
  BY Zenon, <1>1, UpdateFrame
<1>3. NewEntryOk(dk, rc, cl, t, h) /\ EnteredHomes(dk, rc, cl, t, dk2)
  BY Zenon, NewEntryIs, EnteringHomes
<1>4. /\ t \in Task /\ c.at = "enter" /\ nr.blks > 0
      /\ nr.ents = RecOf(dk, h).ents \cup {NewOf(c)} /\ RecOf(dk, h).blks > 0
  BY <1>1 DEF Entering, IsUpdate
<1>5. \A g : g \in Homes(dk2, rc) <=> g \in Homes(dk, rc) \/ (c.op.op = "mkdir" /\ g = g0)
  BY Zenon, <1>3 DEF EnteredHomes
<1>6. c.op.op = "mkdir" => g0.dir = NameOf(c.op) /\ g0.run = c.run /\ RecOf(dk2, g0) = Dir(0, {}, 0)
                           /\ g0 \notin Homes(dk, rc)
  BY Zenon, <1>3 DEF EnteredHomes
<1>7. RecOf(dk2, h) = nr /\ \A g \in Homes(dk, rc) : g # h => RecOf(dk2, g) = RecOf(dk, g)
  BY Zenon, <1>2 DEF Updated
<1>8. DirsOk(dk, rc) /\ MakersOk(dk, rc, cl) /\ FilesOk(dk, rc) /\ StepOk(dk, rc, c, t) /\ CallOk(c)
  BY Zenon, <1>4 DEF Good
<1>9. c.op.op = "mkdir" => c.run.size > 0 /\ NameOf(c.op) \in Made(t)
  BY <1>3 DEF NewEntryOk
<1>10. /\ c.op.op = "mkdir" => cl2[t].at = "fill" /\ cl2[t].run = c.run
       /\ \A u \in Task : u # t => cl2[u] = cl[u]
  <2>1. DOMAIN cl = Task /\ c = [at |-> c.at, op |-> c.op, run |-> c.run]
    BY <1>8 DEF Good, CallOk
  <2> QED BY <1>4, <2>1 DEF After2
<1> HIDE DEF g0, cl2
<1>11. DirsOk(dk2, rc)
  <2>1. dk2[rc].blks > 0
    <3>1. dk[rc].blks > 0
      BY <1>8 DEF DirsOk
    <3> QED BY <1>2, <1>4, <3>1 DEF Updated
  <2>2. ASSUME NEW g \in Homes(dk2, rc)
        PROVE  g.run \in Run /\ g.run.size > 0 /\ RecOk(g.dir, g.run.size, RecOf(dk2, g))
    <3>1. CASE g = h
      <4>1. g.run \in Run /\ g.run.size > 0
        BY Zenon, <1>1, <3>1, HomeIs
      <4>2. RecOk(h.dir, h.run.size, nr)
        BY <1>1 DEF IsUpdate
      <4> QED BY <1>7, <3>1, <4>1, <4>2
    <3>2. CASE g \in Homes(dk, rc) /\ g # h
      <4>1. g.run \in Run /\ g.run.size > 0 /\ RecOk(g.dir, g.run.size, RecOf(dk, g))
        BY Zenon, <3>2, HomeIs
      <4> QED BY <1>7, <3>2, <4>1
    <3>3. CASE c.op.op = "mkdir" /\ g = g0
      <4>1. c.run \in Run
        BY <1>8 DEF CallOk
      <4>2. RecOk(g0.dir, g0.run.size, Dir(0, {}, 0))
        BY FS_EmptySet DEF RecOk, Dir, DirType
      <4> QED BY <1>6, <1>9, <3>3, <4>1, <4>2
    <3> QED BY Zenon, <1>5, <3>1, <3>2, <3>3
  <2>3. \E g \in Homes(dk2, rc) : g.dir = FirstDir
    BY Zenon, <1>5, <1>8 DEF DirsOk
  <2> QED BY Zenon, <2>1, <2>2, <2>3 DEF DirsOk
<1>12. MakersOk(dk2, rc, cl2)
  <2>1. ASSUME NEW g \in Homes(dk2, rc), RecOf(dk2, g).blks = 0
        PROVE  \E u \in Task : g.dir \in Made(u) /\ Making(cl2[u], g.run)
    <3>1. CASE c.op.op = "mkdir" /\ g = g0
      <4>1. g.dir \in Made(t) /\ Making(cl2[t], g.run)
        BY <1>6, <1>9, <1>10, <3>1 DEF Making
      <4> QED BY Zenon, <1>4, <4>1
    <3>2. CASE g \in Homes(dk, rc)
      <4>1. g # h
        BY <1>4, <1>7, <2>1
      <4>2. RecOf(dk, g).blks = 0
        BY <1>7, <2>1, <3>2, <4>1
      <4>3. PICK u \in Task : g.dir \in Made(u) /\ Making(cl[u], g.run)
        BY Zenon, <1>8, <3>2, <4>2 DEF MakersOk
      <4>4. u # t
        BY <1>4, <4>3 DEF Making
      <4> QED BY <1>10, <4>3, <4>4
    <3> QED BY Zenon, <1>5, <3>1, <3>2
  <2> QED BY Zenon, <2>1 DEF MakersOk
<1>13. FilesOk(dk2, rc)
  <2>1. ASSUME NEW g \in Homes(dk2, rc), NEW e \in FilesIn(RecOf(dk2, g).ents)
        PROVE  Whole(dk2, e)
    <3>0. c.op.op = "mkdir" /\ g = g0 => FALSE
      BY <1>6 DEF FilesIn, Dir
    <3>1. g \in Homes(dk, rc)
      BY Zenon, <1>5, <3>0
    <3>2. CASE e \in FilesIn(RecOf(dk, g).ents)
      <4>1. Whole(dk, e)
        BY Zenon, <1>8, <3>1, <3>2 DEF FilesOk
      <4>2. \A k \in Of(e.run) : dk2[k] = dk[k]
        BY Zenon, <1>2, <3>1, <3>2 DEF SameContent
      <4> QED BY <4>1, <4>2 DEF Whole
    <3>3. CASE g = h /\ e = NewOf(c)
      <4>1. c.op.op # "mkdir" /\ e.name = NameOf(c.op) /\ e.run = c.run
        BY <1>3, <2>1, <3>3 DEF NewEntryOk, FilesIn
      <4>2. \A k \in Of(c.run) : dk[k] = Data(NameOf(c.op), t)
        BY <1>4, <1>8, <4>1 DEF StepOk, Written
      <4>3. \A k \in Of(c.run) : dk2[k] = dk[k]
        BY <1>2, <1>4 DEF SameContent
      <4>4. \A k \in Of(e.run) : dk2[k] = Data(e.name, t)
        BY <4>1, <4>2, <4>3
      <4> QED BY Zenon, <1>4, <4>4 DEF Whole
    <3>4. e \in FilesIn(RecOf(dk, g).ents) \/ (g = h /\ e = NewOf(c))
      BY <1>4, <1>7, <2>1, <3>1 DEF FilesIn
    <3> QED BY <3>2, <3>3, <3>4
  <2> QED BY Zenon, <2>1 DEF FilesOk
<1> QED BY <1>11, <1>12, <1>13 DEF cl2

LEMMA EnteringSteps ==
  ASSUME OwnDirs, NEW dk, NEW rc, NEW cl, NEW or, NEW sp, Good(dk, rc, cl, or, sp),
         NEW t, NEW h, NEW nr, NEW dk2, Entering(dk, rc, cl, t, h, nr, dk2), NEW u \in Task
  PROVE  CallOk(After2(cl, t)[u]) /\ StepOk(dk2, rc, After2(cl, t)[u], u)
<1> DEFINE c == cl[t]
           g0 == NewHome(c)
           cl2 == After2(cl, t)
<1>1. h \in Homes(dk, rc) /\ dk2 \in DiskType /\ IsUpdate(dk, h, nr, dk2)
  BY Zenon, EnteringRec
<1>2. Updated(dk, rc, h, nr, dk2) /\ SameContent(dk, rc, cl, dk2)
  BY Zenon, <1>1, UpdateFrame
<1>3. NewEntryOk(dk, rc, cl, t, h) /\ EnteredHomes(dk, rc, cl, t, dk2)
  BY Zenon, NewEntryIs, EnteringHomes
<1>4. /\ t \in Task /\ c.at = "enter" /\ h.dir = c.op.dir
      /\ nr.ents = RecOf(dk, h).ents \cup {NewOf(c)} /\ RecOf(dk, h).blks > 0
  BY DEF Entering
<1>5. \A g : g \in Homes(dk2, rc) <=> g \in Homes(dk, rc) \/ (c.op.op = "mkdir" /\ g = g0)
  BY Zenon, <1>3 DEF EnteredHomes
<1>6. DOMAIN cl = Task /\ \A w \in Task : CallOk(cl[w]) /\ StepOk(dk, rc, cl[w], w)
  BY Zenon DEF Good
<1>7. dk2[rc].ents \subseteq dk[rc].ents \cup {NewOf(c)} /\ dk[rc].ents \subseteq dk2[rc].ents
      /\ (h.dir = NULL => NewOf(c) \in dk2[rc].ents)
      /\ (h.dir # NULL => dk2[rc].ents = dk[rc].ents)
  <2>1. h.dir = NULL => RecOf(dk, h) = dk[rc]
    BY Zenon, <1>1, RootIs
  <2> QED BY <1>2, <1>4, <2>1 DEF Updated
<1>8. CASE u # t
  <2>1. cl2[u] = cl[u]
    BY <1>6, <1>8 DEF After2
  <2>2. Working(cl[u]) => \E g \in Homes(dk2, rc) : g.dir = cl[u].op.dir
    BY Zenon, <1>5, <1>6 DEF StepOk
  <2>3. ASSUME Working(cl[u]), cl[u].op.op = "mkdir", cl[u].at # "fill", NEW e \in dk2[rc].ents
        PROVE  e.name \notin cl[u].op.names
    <3>1. cl[u].op \in Ops[u] /\ \A d \in dk[rc].ents : d.name \notin cl[u].op.names
      BY <1>6, <2>3 DEF StepOk
    <3>2. cl[u].op.names \subseteq Made(u) /\ Made(u) \subseteq DirNames
      BY <2>3, <3>1 DEF Made, DirNames
    <3>3. CASE h.dir = NULL /\ e = NewOf(c)
      <4>1. e.name = NameOf(c.op) /\ (NameOf(c.op) \in DirNames => NameOf(c.op) \in Made(t))
        BY <1>3, <3>3 DEF NewEntryOk
      <4>2. \A n : ~(n \in Made(t) /\ n \in Made(u))
        BY Zenon, <1>4, <1>8, MadeApart
      <4> QED BY <3>2, <4>1, <4>2
    <3> QED BY <1>7, <3>1, <3>3
  <2>4. ASSUME cl[u].at = "fill"
        PROVE  NameOf(cl[u].op) # h.dir /\ Entry(NameOf(cl[u].op), TRUE, cl[u].run) \in dk2[rc].ents
    <3>1. Fills(dk, rc, cl, u)
      BY <2>4, FillIs
    <3>2. NewHome(cl[u]) # h
      BY <1>4, <3>1 DEF Fills
    <3>3. NewHome(cl[u]) \in Homes(dk, rc) /\ NewHome(cl[u]).dir = NameOf(cl[u].op)
      BY Zenon, <3>1 DEF Fills
    <3>4. NewHome(cl[u]).dir # h.dir
      BY Zenon, <1>1, <3>2, <3>3, HomesDiffer
    <3>5. Entry(NameOf(cl[u].op), TRUE, cl[u].run) \in dk[rc].ents
      BY Zenon, <1>6, <2>4 DEF StepOk
    <3> QED BY <1>7, <3>3, <3>4, <3>5
  <2>5. StepOk(dk2, rc, cl[u], u)
    BY Zenon, <1>1, <2>2, <2>3, <2>4, OthersStep
  <2> QED BY <1>6, <2>1, <2>5
<1>9. CASE u = t /\ c.op.op # "mkdir"
  <2>1. cl2[t] = Idle
    BY <1>4, <1>6, <1>9 DEF After2
  <2>2. CallOk(Idle)
    BY EmptyIs DEF CallOk, Idle, Working
  <2>3. StepOk(dk2, rc, Idle, t)
    BY DEF StepOk, Idle, Working
  <2> QED BY <1>9, <2>1, <2>2, <2>3
<1>10. CASE u = t /\ c.op.op = "mkdir"
  <2> DEFINE c2 == cl2[t]
  <2>1. c = [at |-> c.at, op |-> c.op, run |-> c.run] /\ c.run \in Run /\ (c.run.size = 0 => c.run = EmptyRun)
    BY Zenon, <1>4, <1>6 DEF CallOk
  <2>2. c2 = [at |-> "fill", op |-> c.op, run |-> c.run]
    BY <1>4, <1>6, <1>10, <2>1 DEF After2
  <2>3. CallOk(c2)
    BY <2>1, <2>2 DEF CallOk, Working
  <2>4. c.op \in Ops[t] /\ c.op.op # "del" /\ c.run.size = c.op.blks
    <3>1. MakesDir(dk, rc, cl, t)
      BY <1>4, WriterIs
    <3> QED BY <3>1 DEF MakesDir
  <2>5. \E g \in Homes(dk2, rc) : g.dir = c.op.dir
    BY Zenon, <1>1, <1>4, <1>5
  <2>6. dk2[c.run.start] = Dir(0, {}, 0)
    BY <1>3, <1>10 DEF EnteredHomes, RecOf
  <2>7. Entry(NameOf(c.op), TRUE, c.run) \in dk2[rc].ents
    <3>1. h.dir = NULL
      BY <1>3, <1>10 DEF NewEntryOk
    <3>2. NewOf(c) = Entry(NameOf(c.op), TRUE, c.run)
      BY <1>10 DEF NewOf
    <3> QED BY <1>7, <3>1, <3>2
  <2> HIDE DEF c2
  <2>8. StepOk(dk2, rc, c2, t)
    BY <1>10, <2>2, <2>4, <2>5, <2>6, <2>7 DEF StepOk, Written
  <2> QED BY <1>10, <2>3, <2>8 DEF c2
<1> QED BY <1>8, <1>9, <1>10

\* The task's clusters become those of the entry.
NewClaim(cl, t, h) ==
  IF cl[t].op.op = "mkdir" THEN DirClaim(NewHome(cl[t])) ELSE FileClaim(h, NewOf(cl[t]))
ClaimsEnter(dk, rc, cl, or, t, h, dk2) ==
  Claims(dk2, rc, After2(cl, t), or) =
    (Claims(dk, rc, cl, or) \ {TaskClaim(t, cl[t].run)}) \cup {NewClaim(cl, t, h)}
EnteredFiles(dk, rc, cl, t, h, dk2) ==
  /\ \A g \in Homes(dk, rc) : \A e :
       e \in FilesIn(RecOf(dk2, g).ents) <=>
         \/ e \in FilesIn(RecOf(dk, g).ents)
         \/ g = h /\ e = NewOf(cl[t]) /\ cl[t].op.op # "mkdir"
  /\ cl[t].op.op = "mkdir" => FilesIn(RecOf(dk2, NewHome(cl[t])).ents) = {}

LEMMA EnteringFiles ==
  ASSUME OwnDirs, NEW dk, NEW rc, NEW cl, NEW or, NEW sp, Good(dk, rc, cl, or, sp),
         NEW t, NEW h, NEW nr, NEW dk2, Entering(dk, rc, cl, t, h, nr, dk2)
  PROVE  EnteredFiles(dk, rc, cl, t, h, dk2)
<1> DEFINE c == cl[t]
<1>1. h \in Homes(dk, rc) /\ dk2 \in DiskType /\ IsUpdate(dk, h, nr, dk2)
  BY Zenon, EnteringRec
<1>2. Updated(dk, rc, h, nr, dk2)
  BY Zenon, <1>1, UpdateFrame
<1>3. NewEntryOk(dk, rc, cl, t, h) /\ EnteredHomes(dk, rc, cl, t, dk2)
  BY Zenon, NewEntryIs, EnteringHomes
<1>4. nr.ents = RecOf(dk, h).ents \cup {NewOf(c)}
  BY DEF Entering
<1>5. RecOf(dk2, h) = nr /\ \A g \in Homes(dk, rc) : g # h => RecOf(dk2, g) = RecOf(dk, g)
  BY Zenon, <1>2 DEF Updated
<1>6. NewOf(c).dir <=> c.op.op = "mkdir"
  BY Zenon, <1>3 DEF NewEntryOk
<1>7. \A e : e \in FilesIn(RecOf(dk2, h).ents) <=>
         \/ e \in FilesIn(RecOf(dk, h).ents)
         \/ e = NewOf(c) /\ c.op.op # "mkdir"
  BY <1>4, <1>5, <1>6 DEF FilesIn
<1>8. c.op.op = "mkdir" => FilesIn(RecOf(dk2, NewHome(c)).ents) = {}
  <2>1. c.op.op = "mkdir" => RecOf(dk2, NewHome(c)) = Dir(0, {}, 0)
    BY Zenon, <1>3 DEF EnteredHomes
  <2>2. FilesIn(Dir(0, {}, 0).ents) = {}
    BY DEF FilesIn, Dir
  <2> QED BY Zenon, <2>1, <2>2
<1> QED BY Zenon, <1>5, <1>7, <1>8 DEF EnteredFiles

LEMMA After2Is ==
  ASSUME NEW dk, NEW rc, NEW cl, NEW or, NEW sp, Good(dk, rc, cl, or, sp),
         NEW t \in Task, NEW u \in Task
  PROVE  /\ After2(cl, t)[t].at \notin {"write", "enter"}
         /\ u # t => After2(cl, t)[u] = cl[u]
<1>1. DOMAIN cl = Task /\ CallOk(cl[t])
  BY Zenon DEF Good
<1>2. cl[t] = [at |-> cl[t].at, op |-> cl[t].op, run |-> cl[t].run]
  BY Zenon, <1>1 DEF CallOk
<1> QED BY <1>1, <1>2 DEF After2, Idle

LEMMA EnteringClaims ==
  ASSUME OwnDirs, NEW dk, NEW rc, NEW cl, NEW or, NEW sp, Good(dk, rc, cl, or, sp),
         NEW t, NEW h, NEW nr, NEW dk2, Entering(dk, rc, cl, t, h, nr, dk2)
  PROVE  ClaimsEnter(dk, rc, cl, or, t, h, dk2)
<1> DEFINE c == cl[t]
           cl2 == After2(cl, t)
           C == Claims(dk, rc, cl, or)
           C2 == Claims(dk2, rc, cl2, or)
           T == TaskClaim(t, c.run)
           N == NewClaim(cl, t, h)
<1>0. h \in Homes(dk, rc) /\ t \in Task
  BY DEF Entering
<1>1. /\ \A g : g \in Homes(dk2, rc) <=>
            g \in Homes(dk, rc) \/ (c.op.op = "mkdir" /\ g = NewHome(c))
      /\ c.op.op = "mkdir" => NewHome(c) \notin Homes(dk, rc)
  <2>1. EnteredHomes(dk, rc, cl, t, dk2)
    BY Zenon, EnteringHomes
  <2> QED BY Zenon, <2>1 DEF EnteredHomes
<1>2. /\ \A g \in Homes(dk, rc) : \A e :
           e \in FilesIn(RecOf(dk2, g).ents) <=>
             \/ e \in FilesIn(RecOf(dk, g).ents)
             \/ g = h /\ e = NewOf(c) /\ c.op.op # "mkdir"
      /\ c.op.op = "mkdir" => FilesIn(RecOf(dk2, NewHome(c)).ents) = {}
  <2>1. EnteredFiles(dk, rc, cl, t, h, dk2)
    BY Zenon, EnteringFiles
  <2> QED BY Zenon, <2>1 DEF EnteredFiles
<1>3. /\ cl2[t].at \notin {"write", "enter"}
      /\ \A u \in Task : u # t => cl2[u] = cl[u]
  <2>1. ASSUME NEW u \in Task
        PROVE  /\ cl2[t].at \notin {"write", "enter"}
               /\ u # t => cl2[u] = cl[u]
    BY <1>0, After2Is
  <2> QED BY Zenon, <1>0, <2>1
<1>4. /\ c.op.op = "mkdir" => N = DirClaim(NewHome(c))
      /\ c.op.op # "mkdir" => N = FileClaim(h, NewOf(c))
  BY DEF NewClaim
<1> HIDE DEF cl2, N, c
<1>5. ASSUME NEW x \in C2 PROVE (x \in C /\ x # T) \/ x = N
  <2>1. IsClaim(dk2, rc, cl2, or, x)
    BY Zenon, ClaimFrom
  <2>2. ASSUME NEW g \in Homes(dk2, rc), x = DirClaim(g) PROVE (x \in C /\ x # T) \/ x = N
    <3>1. x # T
      BY Zenon, <2>2, KindsDiffer
    <3> QED BY Zenon, <1>1, <1>4, <2>2, <3>1, DirClaimIn
  <2>3. ASSUME NEW g \in Homes(dk2, rc), NEW e \in FilesIn(RecOf(dk2, g).ents), x = FileClaim(g, e)
        PROVE (x \in C /\ x # T) \/ x = N
    <3>1. g \in Homes(dk, rc)
      BY <1>1, <1>2
    <3>2. CASE e \in FilesIn(RecOf(dk, g).ents)
      <4>1. x # T
        BY Zenon, <2>3, KindsDiffer
      <4> QED BY Zenon, <2>3, <3>1, <3>2, <4>1, FileClaimIn
    <3>3. CASE g = h /\ e = NewOf(c) /\ c.op.op # "mkdir"
      BY <1>4, <2>3, <3>3
    <3>4. e \in FilesIn(RecOf(dk, g).ents) \/ (g = h /\ e = NewOf(c) /\ c.op.op # "mkdir")
      BY <1>2, <3>1
    <3> QED BY <3>2, <3>3, <3>4
  <2>4. ASSUME NEW u \in Task, cl2[u].at \in {"write", "enter"}, x = TaskClaim(u, cl2[u].run)
        PROVE  x \in C /\ x # T
    <3>1. u # t /\ cl2[u] = cl[u]
      BY Zenon, <1>3, <2>4
    <3>2. x # T
      BY <2>4, <3>1, SameClaim
    <3>3. cl[u].at \in {"write", "enter"} /\ x = TaskClaim(u, cl[u].run)
      BY Zenon, <2>4, <3>1
    <3> QED BY Zenon, <3>2, <3>3, TaskClaimIn
  <2>5. ASSUME NEW run \in or, x = OrphanClaim(run) PROVE x \in C /\ x # T
    <3>1. x # T
      BY Zenon, <2>5, KindsDiffer
    <3> QED BY Zenon, <2>5, <3>1, OrphanClaimIn
  <2> QED BY Zenon, <2>1, <2>2, <2>3, <2>4, <2>5 DEF IsClaim
<1>6. ASSUME NEW x \in C, x # T PROVE x \in C2
  <2>1. IsClaim(dk, rc, cl, or, x)
    BY Zenon, ClaimFrom
  <2>2. ASSUME NEW g \in Homes(dk, rc), x = DirClaim(g) PROVE x \in C2
    BY Zenon, <1>1, <2>2, DirClaimIn
  <2>3. ASSUME NEW g \in Homes(dk, rc), NEW e \in FilesIn(RecOf(dk, g).ents), x = FileClaim(g, e)
        PROVE  x \in C2
    <3>1. g \in Homes(dk2, rc) /\ e \in FilesIn(RecOf(dk2, g).ents)
      BY Zenon, <1>1, <1>2
    <3> QED BY Zenon, <2>3, <3>1, FileClaimIn
  <2>4. ASSUME NEW u \in Task, cl[u].at \in {"write", "enter"}, x = TaskClaim(u, cl[u].run) PROVE x \in C2
    <3>1. u # t
      BY Zenon, <1>6, <2>4 DEF c
    <3>2. cl2[u].at \in {"write", "enter"} /\ x = TaskClaim(u, cl2[u].run)
      BY Zenon, <1>3, <2>4, <3>1
    <3> QED BY Zenon, <3>2, TaskClaimIn
  <2>5. ASSUME NEW run \in or, x = OrphanClaim(run) PROVE x \in C2
    BY Zenon, <2>5, OrphanClaimIn
  <2> QED BY Zenon, <2>1, <2>2, <2>3, <2>4, <2>5 DEF IsClaim
<1>7. N \in C2
  <2>1. CASE c.op.op = "mkdir"
    BY Zenon, <1>1, <1>4, <2>1, DirClaimIn
  <2>2. CASE c.op.op # "mkdir"
    <3>1. h \in Homes(dk2, rc) /\ NewOf(c) \in FilesIn(RecOf(dk2, h).ents)
      BY Zenon, <1>0, <1>1, <1>2, <2>2
    <3> QED BY Zenon, <1>4, <2>2, <3>1, FileClaimIn
  <2> QED BY <2>1, <2>2
<1> HIDE DEF C, C2, T
<1>8. C2 = (C \ {T}) \cup {N}
  BY <1>5, <1>6, <1>7
<1> QED BY <1>8 DEF C, C2, T, N, c, cl2, ClaimsEnter

LEMMA EnterKeeps ==
  ASSUME OwnDirs, NEW dk, NEW rc, NEW cl, NEW or, NEW sp, Good(dk, rc, cl, or, sp),
         NEW t, NEW h, NEW nr, NEW dk2, Entering(dk, rc, cl, t, h, nr, dk2)
  PROVE  Good(dk2, rc, After2(cl, t), or, sp) /\ SameHeld(dk, rc, cl, or, dk2, After2(cl, t), or)
<1> DEFINE C == Claims(dk, rc, cl, or)
           T == TaskClaim(t, cl[t].run)
           N == NewClaim(cl, t, h)
<1>1. t \in Task /\ cl[t].at \in {"write", "enter"}
  BY DEF Entering
<1>2. SpaceOk(C, sp) /\ T \in C
  BY Zenon, <1>1, TaskClaimIn DEF Good
<1>3. T.run = cl[t].run /\ N.run = cl[t].run
  <2>1. NewEntryOk(dk, rc, cl, t, h)
    BY Zenon, NewEntryIs
  <2>2. NewOf(cl[t]).run = cl[t].run /\ NewHome(cl[t]).run = cl[t].run
    BY <2>1, HomeFields DEF NewEntryOk, NewHome
  <2> QED BY <2>2, ClaimFields DEF NewClaim
<1>4. Claims(dk2, rc, After2(cl, t), or) = (C \ {T}) \cup {N}
  <2>1. ClaimsEnter(dk, rc, cl, or, t, h, dk2)
    BY Zenon, EnteringClaims
  <2> QED BY Zenon, <2>1 DEF ClaimsEnter
<1> HIDE DEF C, T, N
<1>5. \A k : k \in ClaimedBy({T}) <=> k \in Of(cl[t].run)
  BY <1>3, InClaimed
<1>6. \A k : k \in ClaimedBy({N}) <=> k \in Of(cl[t].run)
  BY <1>3, InClaimed
<1>7. sp \in SpaceType /\ ListIsClear(sp) /\ Of(cl[t].run) \subseteq sp.used
  <2>1. Of(T.run) \subseteq sp.used
    BY Zenon, <1>2, ClaimedAre
  <2> QED BY <1>2, <1>3, <2>1 DEF SpaceOk
<1>8. \A k : k \in sp.used <=> (k \in sp.used /\ k \notin ClaimedBy({T})) \/ k \in ClaimedBy({N})
  BY <1>5, <1>6, <1>7
<1>9. \A a \in {N} : \A k \in Of(a.run) : k \in ClaimedBy({T}) \/ (k \in Clus /\ k \notin sp.used)
  BY <1>3, <1>5
<1>10. {T} \in SUBSET C /\ \A a, b \in {N} : a = b \/ Disjoint(a.run, b.run)
  BY <1>2
<1>11. SpaceOk((C \ {T}) \cup {N}, sp)
  BY Zenon, <1>2, <1>7, <1>8, <1>9, <1>10, SpaceKeeps
<1>12. SpaceOk(Claims(dk2, rc, After2(cl, t), or), sp)
  BY Zenon, <1>4, <1>11
<1>13. DirsOk(dk2, rc) /\ MakersOk(dk2, rc, After2(cl, t)) /\ FilesOk(dk2, rc)
  BY Zenon, EnteringDirs
<1>14. \A u \in Task : CallOk(After2(cl, t)[u]) /\ StepOk(dk2, rc, After2(cl, t)[u], u)
  BY Zenon, EnteringSteps
<1>15. dk2 \in DiskType
  BY Zenon, EnteringRec
<1>16. rc \in Clus /\ or \subseteq Run /\ \A run \in or : run.size > 0
  BY Zenon DEF Good
<1>17. DOMAIN After2(cl, t) = Task /\ After2(cl, t) = [u \in Task |-> After2(cl, t)[u]]
  <2>1. DOMAIN cl = Task
    BY Zenon DEF Good
  <2> QED BY <2>1 DEF After2
<1>18. SameHeld(dk, rc, cl, or, dk2, After2(cl, t), or)
  <2>1. \A r : r \in HeldOf({N}) <=> r \in HeldOf({T})
    BY <1>3, HeldOfOne
  <2>2. HeldOf((C \ {T}) \cup {N}) = HeldBy(dk, rc, cl, or)
    BY <1>10, <2>1, HandedOver DEF C
  <2> QED BY <1>4, <2>2 DEF SameHeld, HeldBy
<1>19. Good(dk2, rc, After2(cl, t), or, sp)
  BY Zenon, <1>12, <1>13, <1>14, <1>15, <1>16, <1>17 DEF Good
<1> QED BY <1>18, <1>19

-----------------------------------------------------------------------------
(***************************************************************************)
(* A task goes on to the next step of its operation, or is killed.         *)
(***************************************************************************)
InHand(c, t) == IF c.at \in {"write", "enter"} THEN {TaskClaim(t, c.run)} ELSE {}
OrphanClaims(or) == {OrphanClaim(run) : run \in or}
OnlyCall(cl, t, c2, cl2) ==
  /\ DOMAIN cl2 = Task /\ cl2 = [u \in Task |-> cl2[u]]
  /\ cl2[t] = c2 /\ \A u \in Task : u # t => cl2[u] = cl[u]
CallClaimsAre(dk, rc, cl, or, t, c2, cl2, more) ==
  Claims(dk, rc, cl2, or \cup more) =
    (Claims(dk, rc, cl, or) \ InHand(cl[t], t)) \cup (InHand(c2, t) \cup OrphanClaims(more))

LEMMA OnlyCallIs ==
  ASSUME NEW dk, NEW rc, NEW cl, NEW or, NEW sp, Good(dk, rc, cl, or, sp), NEW t \in Task, NEW c2
  PROVE  OnlyCall(cl, t, c2, [cl EXCEPT ![t] = c2])
<1>1. DOMAIN cl = Task
  BY Zenon DEF Good
<1> QED BY <1>1 DEF OnlyCall

LEMMA CallClaims ==
  ASSUME NEW dk, NEW rc, NEW cl, NEW or, NEW t \in Task, NEW c2, NEW cl2, OnlyCall(cl, t, c2, cl2), NEW more
  PROVE  CallClaimsAre(dk, rc, cl, or, t, c2, cl2, more)
<1> DEFINE C == Claims(dk, rc, cl, or)
           C2 == Claims(dk, rc, cl2, or \cup more)
           T == InHand(cl[t], t)
           N == InHand(c2, t) \cup OrphanClaims(more)
<1>1. cl2[t] = c2 /\ \A u \in Task : u # t => cl2[u] = cl[u]
  BY DEF OnlyCall
<1>2. ASSUME NEW x, x \in T PROVE x = TaskClaim(t, cl[t].run)
  BY <1>2 DEF InHand
<1>3. ASSUME NEW x \in C2 PROVE (x \in C /\ x \notin T) \/ x \in N
  <2>1. IsClaim(dk, rc, cl2, or \cup more, x)
    BY Zenon, ClaimFrom
  <2>2. ASSUME NEW g \in Homes(dk, rc), x = DirClaim(g) PROVE x \in C /\ x \notin T
    BY Zenon, <1>2, <2>2, KindsDiffer, DirClaimIn
  <2>3. ASSUME NEW g \in Homes(dk, rc), NEW e \in FilesIn(RecOf(dk, g).ents), x = FileClaim(g, e)
        PROVE  x \in C /\ x \notin T
    BY Zenon, <1>2, <2>3, KindsDiffer, FileClaimIn
  <2>4. ASSUME NEW u \in Task, cl2[u].at \in {"write", "enter"}, x = TaskClaim(u, cl2[u].run)
        PROVE (x \in C /\ x \notin T) \/ x \in N
    <3>1. CASE u = t
      BY <1>1, <2>4, <3>1 DEF InHand
    <3>2. CASE u # t
      <4>1. cl[u].at \in {"write", "enter"} /\ x = TaskClaim(u, cl[u].run)
        BY Zenon, <1>1, <2>4, <3>2
      <4>2. x # TaskClaim(t, cl[t].run)
        BY <3>2, <4>1, SameClaim
      <4> QED BY Zenon, <1>2, <4>1, <4>2, TaskClaimIn
    <3> QED BY <3>1, <3>2
  <2>5. ASSUME NEW run \in or, x = OrphanClaim(run) PROVE x \in C /\ x \notin T
    BY Zenon, <1>2, <2>5, KindsDiffer, OrphanClaimIn
  <2>6. ASSUME NEW run \in more, x = OrphanClaim(run) PROVE x \in N
    BY <2>6 DEF OrphanClaims
  <2> QED BY Zenon, <2>1, <2>2, <2>3, <2>4, <2>5, <2>6 DEF IsClaim
<1>4. ASSUME NEW x \in C, x \notin T PROVE x \in C2
  <2>1. IsClaim(dk, rc, cl, or, x)
    BY Zenon, ClaimFrom
  <2>2. ASSUME NEW g \in Homes(dk, rc), x = DirClaim(g) PROVE x \in C2
    BY Zenon, <2>2, DirClaimIn
  <2>3. ASSUME NEW g \in Homes(dk, rc), NEW e \in FilesIn(RecOf(dk, g).ents), x = FileClaim(g, e)
        PROVE  x \in C2
    BY Zenon, <2>3, FileClaimIn
  <2>4. ASSUME NEW u \in Task, cl[u].at \in {"write", "enter"}, x = TaskClaim(u, cl[u].run) PROVE x \in C2
    <3>1. u # t
      BY <1>4, <2>4 DEF InHand
    <3>2. cl2[u].at \in {"write", "enter"} /\ x = TaskClaim(u, cl2[u].run)
      BY Zenon, <1>1, <2>4, <3>1
    <3> QED BY Zenon, <3>2, TaskClaimIn
  <2>5. ASSUME NEW run \in or, x = OrphanClaim(run) PROVE x \in C2
    BY Zenon, <2>5, OrphanClaimIn
  <2> QED BY Zenon, <2>1, <2>2, <2>3, <2>4, <2>5 DEF IsClaim
<1>5. ASSUME NEW x \in InHand(c2, t) PROVE x \in C2
  <2>1. cl2[t].at \in {"write", "enter"} /\ x = TaskClaim(t, cl2[t].run)
    BY <1>1 DEF InHand
  <2> QED BY Zenon, <2>1, TaskClaimIn
<1>6. ASSUME NEW x \in OrphanClaims(more) PROVE x \in C2
  <2>1. PICK run \in more : x = OrphanClaim(run)
    BY DEF OrphanClaims
  <2> QED BY Zenon, <2>1, OrphanClaimIn
<1> HIDE DEF C, C2, T
<1>7. \A x \in N : x \in C2
  BY <1>5, <1>6
<1> HIDE DEF N
<1>8. C2 = (C \ T) \cup N
  BY <1>3, <1>4, <1>7
<1> QED BY <1>8 DEF C, C2, T, N, CallClaimsAre

\* What has to be so of the call that the task is in then.
NextCall(dk, rc, cl, t, c2) ==
  /\ CallOk(c2) /\ StepOk(dk, rc, c2, t)
  /\ cl[t].at # "dead" /\ (cl[t].at = "fill" => c2.at = "dead")

LEMMA CallKeeps ==
  ASSUME NEW dk, NEW rc, NEW cl, NEW or, NEW sp, Good(dk, rc, cl, or, sp),
         NEW t \in Task, NEW c2, NextCall(dk, rc, cl, t, c2),
         NEW more \in SUBSET Run, \A run \in more : run.size > 0,
         NEW sp2,
         SpaceOk((Claims(dk, rc, cl, or) \ InHand(cl[t], t)) \cup (InHand(c2, t) \cup OrphanClaims(more)), sp2)
  PROVE  Good(dk, rc, [cl EXCEPT ![t] = c2], or \cup more, sp2)
<1> DEFINE cl2 == [cl EXCEPT ![t] = c2]
<1>1. OnlyCall(cl, t, c2, cl2)
  BY OnlyCallIs
<1> HIDE DEF cl2
<1>2. /\ DOMAIN cl2 = Task /\ cl2 = [u \in Task |-> cl2[u]]
      /\ cl2[t] = c2 /\ \A u \in Task : u # t => cl2[u] = cl[u]
  BY Zenon, <1>1 DEF OnlyCall
<1>3. CallClaimsAre(dk, rc, cl, or, t, c2, cl2, more)
  BY Zenon, <1>1, CallClaims
<1>4. SpaceOk(Claims(dk, rc, cl2, or \cup more), sp2)
  BY Zenon, <1>3 DEF CallClaimsAre
<1>5. \A u \in Task : CallOk(cl2[u]) /\ StepOk(dk, rc, cl2[u], u)
  <2>1. \A u \in Task : CallOk(cl[u]) /\ StepOk(dk, rc, cl[u], u)
    BY Zenon DEF Good
  <2>2. CallOk(c2) /\ StepOk(dk, rc, c2, t)
    BY Zenon DEF NextCall
  <2> QED BY Zenon, <1>2, <2>1, <2>2
<1>6. MakersOk(dk, rc, cl2)
  <2>1. \A run : Making(cl[t], run) => Making(c2, run)
    BY DEF NextCall, Making
  <2>2. \A u \in Task : \A run : Making(cl[u], run) => Making(cl2[u], run)
    BY Zenon, <1>2, <2>1
  <2>3. MakersOk(dk, rc, cl)
    BY Zenon DEF Good
  <2> QED BY Zenon, <2>2, <2>3 DEF MakersOk
<1>7. /\ dk \in DiskType /\ rc \in Clus /\ or \subseteq Run /\ \A run \in or : run.size > 0
      /\ DirsOk(dk, rc) /\ FilesOk(dk, rc)
  BY Zenon DEF Good
<1>8. or \cup more \subseteq Run /\ \A run \in or \cup more : run.size > 0
  BY <1>7
<1>9. Good(dk, rc, cl2, or \cup more, sp2)
  BY Zenon, <1>2, <1>4, <1>5, <1>6, <1>7, <1>8 DEF Good
<1> QED BY <1>9 DEF cl2

\* What it has in hand stays the same.
LEMMA StayKeeps ==
  ASSUME NEW dk, NEW rc, NEW cl, NEW or, NEW sp, Good(dk, rc, cl, or, sp),
         NEW t \in Task, NEW c2, NextCall(dk, rc, cl, t, c2),
         c2.at \in {"write", "enter"} <=> cl[t].at \in {"write", "enter"},
         c2.at \in {"write", "enter"} => c2.run = cl[t].run
  PROVE  /\ Good(dk, rc, [cl EXCEPT ![t] = c2], or, sp)
         /\ SameHeld(dk, rc, cl, or, dk, [cl EXCEPT ![t] = c2], or)
<1> DEFINE C == Claims(dk, rc, cl, or)
<1>1. InHand(c2, t) = InHand(cl[t], t)
  BY DEF InHand
<1>2. InHand(cl[t], t) \subseteq C
  <2>1. cl[t].at \in {"write", "enter"} => TaskClaim(t, cl[t].run) \in C
    BY Zenon, TaskClaimIn
  <2> HIDE DEF C
  <2> QED BY <2>1 DEF InHand
<1>3. OrphanClaims({}) = {}
  BY DEF OrphanClaims
<1>4. (C \ InHand(cl[t], t)) \cup (InHand(c2, t) \cup OrphanClaims({})) = C
  BY <1>1, <1>2, <1>3
<1>5. SpaceOk((C \ InHand(cl[t], t)) \cup (InHand(c2, t) \cup OrphanClaims({})), sp)
  BY Zenon, <1>4 DEF Good
<1>6. {} \in SUBSET Run /\ \A run \in {} : run.size > 0
  OBVIOUS
<1>7. Good(dk, rc, [cl EXCEPT ![t] = c2], or \cup {}, sp)
  BY Zenon, <1>5, <1>6, CallKeeps
<1>8. SameHeld(dk, rc, cl, or, dk, [cl EXCEPT ![t] = c2], or)
  <2> DEFINE cl2 == [cl EXCEPT ![t] = c2]
  <2>1. OnlyCall(cl, t, c2, cl2)
    BY OnlyCallIs
  <2> HIDE DEF cl2, C
  <2>2. CallClaimsAre(dk, rc, cl, or, t, c2, cl2, {})
    BY Zenon, <2>1, CallClaims
  <2>3. Claims(dk, rc, cl2, or) = C
    BY <1>4, <2>2 DEF CallClaimsAre, C
  <2>4. SameHeld(dk, rc, cl, or, dk, cl2, or)
    BY <2>3 DEF SameHeld, HeldBy, C
  <2> QED BY <2>4 DEF cl2
<1> QED BY <1>7, <1>8

\* The clusters that RedSeaAllocClus gives are the task's.
LEMMA TakeKeeps ==
  ASSUME NEW dk, NEW rc, NEW cl, NEW or, NEW sp, Good(dk, rc, cl, or, sp),
         NEW t \in Task, NEW c2, NextCall(dk, rc, cl, t, c2), cl[t].at \notin {"write", "enter"},
         c2.at \in {"write", "enter"}, Of(c2.run) \subseteq Clus \ sp.used,
         NEW sp2 \in SpaceType, ListIsClear(sp2), sp2.used = sp.used \cup Of(c2.run)
  PROVE  Good(dk, rc, [cl EXCEPT ![t] = c2], or, sp2)
<1> DEFINE C == Claims(dk, rc, cl, or)
           N == {TaskClaim(t, c2.run)}
<1>1. InHand(cl[t], t) = {} /\ InHand(c2, t) = N /\ OrphanClaims({}) = {}
  BY DEF InHand, OrphanClaims
<1>2. TaskClaim(t, c2.run).run = c2.run
  BY ClaimFields
<1>3. \A k : (k \in ClaimedBy(N) <=> k \in Of(c2.run)) /\ k \notin ClaimedBy({})
  BY <1>2, InClaimed
<1>4. SpaceOk(C, sp) /\ {} \in SUBSET C
  BY Zenon DEF Good
<1>5. \A a, b \in N : a = b \/ Disjoint(a.run, b.run)
  OBVIOUS
<1>6. \A a \in N : \A k \in Of(a.run) : k \in ClaimedBy({}) \/ (k \in Clus /\ k \notin sp.used)
  BY <1>2
<1>7. \A k : k \in sp2.used <=> (k \in sp.used /\ k \notin ClaimedBy({})) \/ k \in ClaimedBy(N)
  BY <1>3
<1> HIDE DEF C, N
<1>8. SpaceOk((C \ {}) \cup N, sp2)
  BY Zenon, <1>4, <1>5, <1>6, <1>7, SpaceKeeps
<1>9. (C \ {}) \cup N = (C \ InHand(cl[t], t)) \cup (InHand(c2, t) \cup OrphanClaims({}))
  BY <1>1
<1>10. SpaceOk((C \ InHand(cl[t], t)) \cup (InHand(c2, t) \cup OrphanClaims({})), sp2)
  BY Zenon, <1>8, <1>9
<1>11. {} \in SUBSET Run /\ \A run \in {} : run.size > 0
  OBVIOUS
<1>12. Good(dk, rc, [cl EXCEPT ![t] = c2], or \cup {}, sp2)
  BY Zenon, <1>10, <1>11, CallKeeps DEF C
<1> QED BY <1>12

LEMMA TakeHeld ==
  ASSUME NEW dk, NEW rc, NEW cl, NEW or, NEW sp, Good(dk, rc, cl, or, sp),
         NEW t \in Task, NEW c2, cl[t].at \notin {"write", "enter"}, c2.at \in {"write", "enter"}, NEW r
  PROVE  r \in HeldBy(dk, rc, [cl EXCEPT ![t] = c2], or) <=>
           r \in HeldBy(dk, rc, cl, or) \/ (r = c2.run /\ r.size > 0)
<1> DEFINE C == Claims(dk, rc, cl, or)
           N == {TaskClaim(t, c2.run)}
           cl2 == [cl EXCEPT ![t] = c2]
<1>1. InHand(cl[t], t) = {} /\ InHand(c2, t) = N /\ OrphanClaims({}) = {} /\ or \cup {} = or
  BY DEF InHand, OrphanClaims
<1>2. OnlyCall(cl, t, c2, cl2)
  BY OnlyCallIs
<1> HIDE DEF cl2, N
<1>3. CallClaimsAre(dk, rc, cl, or, t, c2, cl2, {})
  BY Zenon, <1>2, CallClaims
<1>4. Claims(dk, rc, cl2, or) = (C \ {}) \cup N
  BY <1>1, <1>3 DEF CallClaimsAre
<1>5. TaskClaim(t, c2.run).run = c2.run
  BY ClaimFields
<1>6. r \in HeldOf(N) <=> r = c2.run /\ r.size > 0
  BY <1>5, HeldOfOne DEF N
<1>7. r \in HeldOf((C \ {}) \cup N) <=> (r \in HeldBy(dk, rc, cl, or) /\ r \notin HeldOf({})) \/ r \in HeldOf(N)
  BY Zenon, HeldPass
<1>8. r \notin HeldOf({})
  BY InHeldOf
<1> HIDE DEF C
<1>9. r \in HeldBy(dk, rc, cl2, or) <=> r \in HeldOf((C \ {}) \cup N)
  BY <1>4 DEF HeldBy
<1> QED BY <1>6, <1>7, <1>8, <1>9 DEF cl2

\* What it has in hand is cut off.
LEMMA DropKeeps ==
  ASSUME NEW dk, NEW rc, NEW cl, NEW or, NEW sp, Good(dk, rc, cl, or, sp),
         NEW t \in Task, NEW c2, NextCall(dk, rc, cl, t, c2), cl[t].at \in {"write", "enter"},
         c2.at \notin {"write", "enter"}
  PROVE  LET or2 == or \cup {run \in {cl[t].run} : run.size > 0}
         IN  /\ Good(dk, rc, [cl EXCEPT ![t] = c2], or2, sp)
             /\ SameHeld(dk, rc, cl, or, dk, [cl EXCEPT ![t] = c2], or2)
<1> DEFINE C == Claims(dk, rc, cl, or)
           r == cl[t].run
           more == {run \in {r} : run.size > 0}
           T == {TaskClaim(t, r)}
           N == OrphanClaims(more)
<1>1. InHand(cl[t], t) = T /\ InHand(c2, t) = {}
  BY DEF InHand
<1>2. TaskClaim(t, r).run = r /\ OrphanClaim(r).run = r
  BY ClaimFields
<1>3. r \in Run
  BY DEF Good, CallOk
<1>4. SpaceOk(C, sp) /\ T \in SUBSET C /\ Of(r) \subseteq sp.used
  <2>1. TaskClaim(t, r) \in C /\ Of(r) \subseteq sp.used
    BY Zenon, TaskIs
  <2> QED BY Zenon, <2>1 DEF Good
<1>5. r.size > 0 => N = {OrphanClaim(r)}
  BY DEF OrphanClaims
<1>6. ~(r.size > 0) => N = {}
  BY DEF OrphanClaims
<1>7. ~(r.size > 0) => Of(r) = {}
  BY <1>3, RunIs
<1>8. more \in SUBSET Run /\ \A run \in more : run.size > 0
  BY <1>3
<1> HIDE DEF C, r, more, N
<1>9. \A k : (k \in ClaimedBy(T) <=> k \in Of(r)) /\ (k \in ClaimedBy(N) <=> k \in Of(r))
  BY <1>2, <1>5, <1>6, <1>7, InClaimed
<1>10. \A a, b \in N : a = b \/ Disjoint(a.run, b.run)
  BY <1>5, <1>6
<1>11. \A a \in N : \A k \in Of(a.run) : k \in ClaimedBy(T) \/ (k \in Clus /\ k \notin sp.used)
  BY <1>9, InClaimed
<1>12. \A k : k \in sp.used <=> (k \in sp.used /\ k \notin ClaimedBy(T)) \/ k \in ClaimedBy(N)
  BY <1>4, <1>9
<1>13. sp \in SpaceType /\ ListIsClear(sp)
  BY <1>4 DEF SpaceOk
<1> HIDE DEF T
<1>14. SpaceOk((C \ T) \cup N, sp)
  BY Zenon, <1>4, <1>10, <1>11, <1>12, <1>13, SpaceKeeps
<1>15. (C \ InHand(cl[t], t)) \cup (InHand(c2, t) \cup OrphanClaims(more)) = (C \ T) \cup N
  BY <1>1 DEF N
<1>16. SpaceOk((C \ InHand(cl[t], t)) \cup (InHand(c2, t) \cup OrphanClaims(more)), sp)
  BY Zenon, <1>14, <1>15
<1>17. Good(dk, rc, [cl EXCEPT ![t] = c2], or \cup more, sp)
  BY Zenon, <1>8, <1>16, CallKeeps DEF C
<1>18. SameHeld(dk, rc, cl, or, dk, [cl EXCEPT ![t] = c2], or \cup more)
  <2> DEFINE cl2 == [cl EXCEPT ![t] = c2]
  <2>1. OnlyCall(cl, t, c2, cl2)
    BY OnlyCallIs
  <2> HIDE DEF cl2
  <2>2. CallClaimsAre(dk, rc, cl, or, t, c2, cl2, more)
    BY Zenon, <2>1, CallClaims
  <2>3. Claims(dk, rc, cl2, or \cup more) = (C \ T) \cup N
    BY <1>15, <2>2 DEF CallClaimsAre, C
  <2>4. ASSUME NEW q PROVE q \in HeldOf(N) <=> q \in HeldOf(T)
    <3>1. q \in HeldOf(T) <=> r = q /\ q.size > 0
      BY <1>2, HeldOfOne DEF T
    <3>2. CASE r.size > 0
      BY <1>2, <1>5, <3>1, <3>2, HeldOfOne
    <3>3. CASE ~(r.size > 0)
      BY <1>6, <3>1, <3>3, InHeldOf
    <3> QED BY <3>2, <3>3
  <2>5. HeldOf((C \ T) \cup N) = HeldBy(dk, rc, cl, or)
    BY <1>4, <2>4, HandedOver DEF C
  <2>6. SameHeld(dk, rc, cl, or, dk, cl2, or \cup more)
    BY <2>3, <2>5 DEF SameHeld, HeldBy
  <2> QED BY <2>6 DEF cl2
<1> QED BY <1>17, <1>18 DEF more, r

-----------------------------------------------------------------------------
(***************************************************************************)
(* A task writes what it has in hand, or the directory that it has entered.*)
(***************************************************************************)
SameEntries(dk, rc, dk2) ==
  /\ Homes(dk2, rc) = Homes(dk, rc)
  /\ \A h \in Homes(dk, rc) : FilesIn(RecOf(dk2, h).ents) = FilesIn(RecOf(dk, h).ents)

LEMMA SameFiles ==
  ASSUME NEW dk, NEW dk2, NEW rc, NEW cl, NEW or, SameEntries(dk, rc, dk2)
  PROVE  Claims(dk2, rc, cl, or) = Claims(dk, rc, cl, or)
<1>0. /\ Homes(dk2, rc) = Homes(dk, rc)
      /\ \A h \in Homes(dk, rc) : FilesIn(RecOf(dk2, h).ents) = FilesIn(RecOf(dk, h).ents)
  BY Zenon DEF SameEntries
<1>1. \A h \in Homes(dk, rc) : FileClaims(dk2, h) = FileClaims(dk, h)
  BY <1>0 DEF FileClaims
<1>2. {FileClaims(dk2, h) : h \in Homes(dk, rc)} = {FileClaims(dk, h) : h \in Homes(dk, rc)}
  BY <1>1
<1> QED BY <1>0, <1>2 DEF Claims

OutOf(dk, cl, t, dk2) == dk2 \in DiskType /\ \A k \in Clus : k \notin Of(cl[t].run) => dk2[k] = dk[k]

LEMMA WriteKeeps ==
  ASSUME OwnDirs, NEW dk, NEW rc, NEW cl, NEW or, NEW sp, Good(dk, rc, cl, or, sp),
         NEW t \in Task, cl[t].at = "write", NEW dk2, OutOf(dk, cl, t, dk2)
  PROVE  Good(dk2, rc, cl, or, sp) /\ SameHeld(dk, rc, cl, or, dk2, cl, or)
<1>0. dk2 \in DiskType /\ \A k \in Clus : k \notin Of(cl[t].run) => dk2[k] = dk[k]
  BY Zenon DEF OutOf
<1>1. sp.used \subseteq Clus
  BY DEF Good, SpaceOk, SpaceType
<1>2. ASSUME NEW h \in Homes(dk, rc) PROVE RecOf(dk2, h) = RecOf(dk, h)
  <2>1. h.run.start \in Of(h.run) /\ h.run.start \in Clus
    BY Zenon, HomeIs
  <2>2. h.run.start \notin Of(cl[t].run)
    BY <2>1, TaskIs
  <2> QED BY <1>0, <2>1, <2>2 DEF RecOf
<1>3. dk2[rc] = dk[rc]
  <2>1. RootHome(dk, rc) \in Homes(dk, rc) /\ RootHome(dk, rc).run.start = rc
    BY Zenon, RootFields
  <2> QED BY <1>2, <2>1 DEF RecOf
<1>4. Homes(dk2, rc) = Homes(dk, rc)
  BY <1>3 DEF Homes, RootHome
<1>5. Claims(dk2, rc, cl, or) = Claims(dk, rc, cl, or)
  <2>1. \A h \in Homes(dk, rc) : FilesIn(RecOf(dk2, h).ents) = FilesIn(RecOf(dk, h).ents)
    BY <1>2
  <2>2. SameEntries(dk, rc, dk2)
    BY Zenon, <1>4, <2>1 DEF SameEntries
  <2> QED BY <2>2, SameFiles
<1>6. /\ DirsOk(dk, rc) /\ MakersOk(dk, rc, cl) /\ FilesOk(dk, rc)
      /\ rc \in Clus /\ or \subseteq Run /\ \A run \in or : run.size > 0
      /\ DOMAIN cl = Task /\ cl = [u \in Task |-> cl[u]]
      /\ \A u \in Task : CallOk(cl[u]) /\ StepOk(dk, rc, cl[u], u)
      /\ SpaceOk(Claims(dk, rc, cl, or), sp)
  BY Zenon DEF Good
<1>7. DirsOk(dk2, rc)
  BY <1>2, <1>3, <1>4, <1>6 DEF DirsOk
<1>8. MakersOk(dk2, rc, cl)
  BY <1>2, <1>4, <1>6 DEF MakersOk
<1>9. FilesOk(dk2, rc)
  <2>1. ASSUME NEW h \in Homes(dk2, rc), NEW e \in FilesIn(RecOf(dk2, h).ents) PROVE Whole(dk2, e)
    <3>1. h \in Homes(dk, rc) /\ e \in FilesIn(RecOf(dk, h).ents)
      BY <1>2, <1>4
    <3>2. Whole(dk, e)
      BY Zenon, <1>6, <3>1 DEF FilesOk
    <3>3. Of(e.run) \subseteq sp.used
      BY Zenon, <3>1, FileIs
    <3>4. \A k \in Of(e.run) : k \notin Of(cl[t].run)
      <4>1. cl[t].at \in {"write", "enter"}
        OBVIOUS
      <4> QED BY Zenon, <3>1, <4>1, TaskIs
    <3>5. \A k \in Of(e.run) : dk2[k] = dk[k]
      BY <1>0, <1>1, <3>3, <3>4
    <3> QED BY <3>2, <3>5 DEF Whole
  <2> QED BY Zenon, <2>1 DEF FilesOk
<1>10. ASSUME NEW u \in Task PROVE StepOk(dk2, rc, cl[u], u)
  <2> DEFINE c == cl[u]
  <2>1. StepOk(dk, rc, c, u)
    BY <1>6
  <2>2. Working(c) => \E h \in Homes(dk2, rc) : h.dir = c.op.dir
    BY Zenon, <1>4, <2>1 DEF StepOk
  <2>3. Working(c) /\ c.op.op = "mkdir" /\ c.at # "fill" => \A e \in dk2[rc].ents : e.name \notin c.op.names
    BY Zenon, <1>3, <2>1 DEF StepOk
  <2>4. ASSUME c.at = "enter"
        PROVE  /\ c.op.op = "mkdir" => dk2[c.run.start] = dk[c.run.start]
               /\ \A k \in Of(c.run) : dk2[k] = dk[k]
    <3>1. u # t /\ cl[u].at \in {"write", "enter"}
      BY <2>4
    <3>2. Of(c.run) \subseteq sp.used
      BY <3>1, TaskIs
    <3>3. \A k \in Of(c.run) : k \notin Of(cl[t].run)
      <4>1. cl[t].at \in {"write", "enter"}
        OBVIOUS
      <4> QED BY Zenon, <3>1, <4>1, TaskIs
    <3>4. \A k \in Of(c.run) : dk2[k] = dk[k]
      BY <1>0, <1>1, <3>2, <3>3
    <3>5. MakesDir(dk, rc, cl, u)
      BY <3>1, WriterIs
    <3> QED BY <3>4, <3>5 DEF MakesDir
  <2>5. ASSUME c.at = "fill"
        PROVE  /\ dk2[c.run.start] = dk[c.run.start]
               /\ Entry(NameOf(c.op), TRUE, c.run) \in dk2[rc].ents
    <3>1. Fills(dk, rc, cl, u)
      BY <2>5, FillIs
    <3>2. NewHome(c) \in Homes(dk, rc) /\ NewHome(c).run = c.run
      BY <3>1 DEF Fills
    <3>3. dk2[c.run.start] = dk[c.run.start]
      BY <1>2, <3>2 DEF RecOf
    <3>4. Entry(NameOf(c.op), TRUE, c.run) \in dk2[rc].ents
      BY Zenon, <1>3, <2>1, <2>5 DEF StepOk
    <3> QED BY <3>3, <3>4
  <2> QED BY Zenon, <2>1, <2>2, <2>3, <2>4, <2>5, StepFrame
<1>11. SameHeld(dk, rc, cl, or, dk2, cl, or)
  BY <1>5 DEF SameHeld, HeldBy
<1> QED BY Zenon, <1>0, <1>5, <1>6, <1>7, <1>8, <1>9, <1>10, <1>11 DEF Good

LEMMA IdleIs == ASSUME NEW dk, NEW rc, NEW t PROVE CallOk(Idle) /\ StepOk(dk, rc, Idle, t) /\ Idle.at = "idle"
<1>1. CallOk(Idle)
  BY EmptyIs DEF CallOk, Idle, Working
<1>2. StepOk(dk, rc, Idle, t)
  BY DEF StepOk, Idle, Working
<1> QED BY <1>1, <1>2 DEF Idle

Filling(dk, rc, cl, t, dk2) ==
  /\ dk2 \in DiskType
  /\ IsUpdate(dk, NewHome(cl[t]), Dir(cl[t].run.size, {}, 0), dk2)

LEMMA FillKeeps ==
  ASSUME OwnDirs, NEW dk, NEW rc, NEW cl, NEW or, NEW sp, Good(dk, rc, cl, or, sp),
         NEW t \in Task, cl[t].at = "fill", NEW dk2, Filling(dk, rc, cl, t, dk2)
  PROVE  /\ Good(dk2, rc, [cl EXCEPT ![t] = Idle], or, sp)
         /\ SameHeld(dk, rc, cl, or, dk2, [cl EXCEPT ![t] = Idle], or)
<1> DEFINE h == NewHome(cl[t])
           nr == Dir(cl[t].run.size, {}, 0)
           cl2 == [cl EXCEPT ![t] = Idle]
<1>1. dk2 \in DiskType /\ IsUpdate(dk, h, nr, dk2)
  BY Zenon DEF Filling
<1>2. Fills(dk, rc, cl, t)
  BY FillIs
<1>3. /\ cl[t].op.op = "mkdir" /\ h \in Homes(dk, rc) /\ h.dir = NameOf(cl[t].op) /\ h.run = cl[t].run
      /\ RecOf(dk, h).blks = 0 /\ RecOf(dk, h).ents = {}
  BY Zenon, <1>2 DEF Fills
<1>4. nr.ents = {} /\ nr.blks = cl[t].run.size
  BY DEF Dir
<1> HIDE DEF h, nr
<1>5. RecOk(h.dir, h.run.size, nr) /\ nr.blks > 0
  BY Zenon, <1>1 DEF IsUpdate
<1>6. Updated(dk, rc, h, nr, dk2) /\ SameContent(dk, rc, cl, dk2)
  BY Zenon, <1>1, <1>3, UpdateFrame
<1>7. h.dir # NULL
  <2>1. h # RootHome(dk, rc)
    <3>1. RecOf(dk, RootHome(dk, rc)) = dk[rc] /\ dk[rc].blks > 0
      BY RootFields DEF RecOf, Good, DirsOk
    <3> QED BY <1>3, <3>1
  <2> QED BY Zenon, <1>3, <2>1, OtherHome
<1>8. /\ dk2[rc] = dk[rc] /\ Homes(dk2, rc) = Homes(dk, rc) /\ RecOf(dk2, h) = nr
      /\ \A g \in Homes(dk, rc) : g # h => RecOf(dk2, g) = RecOf(dk, g)
  BY Zenon, <1>6, <1>7 DEF Updated
<1>9. \A g \in Homes(dk, rc) : FilesIn(RecOf(dk2, g).ents) = FilesIn(RecOf(dk, g).ents)
  <2>1. FilesIn(RecOf(dk2, h).ents) = {} /\ FilesIn(RecOf(dk, h).ents) = {}
    BY <1>3, <1>4, <1>8 DEF FilesIn
  <2> QED BY Zenon, <1>8, <2>1
<1>10. Claims(dk2, rc, cl2, or) = Claims(dk, rc, cl, or)
  <2>1. Claims(dk2, rc, cl, or) = Claims(dk, rc, cl, or)
    <3>1. SameEntries(dk, rc, dk2)
      BY Zenon, <1>8, <1>9 DEF SameEntries
    <3> QED BY <3>1, SameFiles
  <2>2. OnlyCall(cl, t, Idle, cl2)
    BY OnlyCallIs
  <2>3. CallClaimsAre(dk2, rc, cl, or, t, Idle, cl2, {})
    BY Zenon, <2>2, CallClaims
  <2>4. InHand(cl[t], t) = {} /\ InHand(Idle, t) = {} /\ OrphanClaims({}) = {} /\ or \cup {} = or
    BY DEF InHand, Idle, OrphanClaims
  <2> HIDE DEF cl2
  <2> QED BY <2>1, <2>3, <2>4 DEF CallClaimsAre
<1>11. /\ DirsOk(dk, rc) /\ MakersOk(dk, rc, cl) /\ FilesOk(dk, rc)
       /\ rc \in Clus /\ or \subseteq Run /\ \A run \in or : run.size > 0
       /\ DOMAIN cl = Task
       /\ \A u \in Task : CallOk(cl[u]) /\ StepOk(dk, rc, cl[u], u)
       /\ SpaceOk(Claims(dk, rc, cl, or), sp)
  BY Zenon DEF Good
<1>12. DOMAIN cl2 = Task /\ cl2 = [u \in Task |-> cl2[u]] /\ cl2[t] = Idle /\ \A u \in Task : u # t => cl2[u] = cl[u]
  BY <1>11
<1> HIDE DEF cl2
<1>13. DirsOk(dk2, rc)
  <2>1. ASSUME NEW g \in Homes(dk, rc)
        PROVE  g.run \in Run /\ g.run.size > 0 /\ RecOk(g.dir, g.run.size, RecOf(dk2, g))
    <3>1. g.run \in Run /\ g.run.size > 0 /\ RecOk(g.dir, g.run.size, RecOf(dk, g))
      BY Zenon, HomeIs
    <3> QED BY <1>5, <1>8, <3>1
  <2> QED BY Zenon, <1>8, <1>11, <2>1 DEF DirsOk
<1>14. MakersOk(dk2, rc, cl2)
  <2>1. ASSUME NEW g \in Homes(dk, rc), RecOf(dk2, g).blks = 0
        PROVE  \E u \in Task : g.dir \in Made(u) /\ Making(cl2[u], g.run)
    <3>1. g # h /\ RecOf(dk, g).blks = 0
      BY <1>5, <1>8, <2>1
    <3>2. PICK u \in Task : g.dir \in Made(u) /\ Making(cl[u], g.run)
      BY Zenon, <1>11, <3>1 DEF MakersOk
    <3>3. u # t
      <4>1. ASSUME u = t PROVE FALSE
        <5>1. g.run = cl[t].run
          BY <3>2, <4>1 DEF Making
        <5>2. g.run.start \in Of(g.run)
          BY Zenon, HomeIs
        <5> QED BY <1>3, <3>1, <5>1, <5>2, HomesDiffer
      <4> QED BY <4>1
    <3> QED BY Zenon, <1>12, <3>2, <3>3
  <2> QED BY Zenon, <1>8, <2>1 DEF MakersOk
<1>15. FilesOk(dk2, rc)
  <2>1. ASSUME NEW g \in Homes(dk, rc), NEW e \in FilesIn(RecOf(dk2, g).ents) PROVE Whole(dk2, e)
    <3>1. e \in FilesIn(RecOf(dk, g).ents)
      BY <1>9
    <3>2. Whole(dk, e)
      BY Zenon, <1>11, <3>1 DEF FilesOk
    <3>3. \A k \in Of(e.run) : dk2[k] = dk[k]
      BY Zenon, <1>6, <3>1 DEF SameContent
    <3> QED BY <3>2, <3>3 DEF Whole
  <2> QED BY Zenon, <1>8, <2>1 DEF FilesOk
<1>16. ASSUME NEW u \in Task PROVE CallOk(cl2[u]) /\ StepOk(dk2, rc, cl2[u], u)
  <2>1. CASE u = t
    <3>1. CallOk(Idle) /\ StepOk(dk2, rc, Idle, t)
      BY Zenon, IdleIs
    <3> QED BY <1>12, <2>1, <3>1
  <2>2. CASE u # t
    <3>1. StepOk(dk, rc, cl[u], u)
      BY <1>11
    <3>2. Working(cl[u]) => \E g \in Homes(dk2, rc) : g.dir = cl[u].op.dir
      BY Zenon, <1>8, <3>1 DEF StepOk
    <3>3. Working(cl[u]) /\ cl[u].op.op = "mkdir" /\ cl[u].at # "fill" =>
            \A e \in dk2[rc].ents : e.name \notin cl[u].op.names
      BY Zenon, <1>8, <3>1 DEF StepOk
    <3>4. ASSUME cl[u].at = "fill"
          PROVE  NameOf(cl[u].op) # h.dir /\ Entry(NameOf(cl[u].op), TRUE, cl[u].run) \in dk2[rc].ents
      <4>1. Entry(NameOf(cl[u].op), TRUE, cl[u].run) \in dk2[rc].ents
        BY Zenon, <1>8, <3>1, <3>4 DEF StepOk
      <4>2. ASSUME NEW v \in Task, cl[v].at = "fill", cl[v].op.op = "mkdir" PROVE NameOf(cl[v].op) \in Made(v)
        <5>1. MakesDir(dk, rc, cl, v)
          BY <4>2, WriterIs
        <5>2. cl[v].op \in Ops[v] /\ cl[v].op.op # "del"
          BY Zenon, <5>1 DEF MakesDir
        <5> QED BY Zenon, <4>2, <5>2, NameIs
      <4>3. cl[u].op.op = "mkdir"
        BY Zenon, <3>1, <3>4 DEF StepOk
      <4>4. NameOf(cl[u].op) \in Made(u) /\ NameOf(cl[t].op) \in Made(t)
        BY Zenon, <1>3, <3>4, <4>2, <4>3
      <4>5. \A n : ~(n \in Made(u) /\ n \in Made(t))
        BY Zenon, <2>2, MadeApart
      <4> QED BY Zenon, <1>3, <4>1, <4>4, <4>5
    <3>5. StepOk(dk2, rc, cl[u], u)
      BY Zenon, <1>1, <1>3, <3>2, <3>3, <3>4, OthersStep
    <3> QED BY <1>11, <1>12, <2>2, <3>5
  <2> QED BY <2>1, <2>2
<1>17. SpaceOk(Claims(dk2, rc, cl2, or), sp)
  BY <1>10, <1>11
<1>18. Good(dk2, rc, cl2, or, sp)
  BY Zenon, <1>1, <1>11, <1>12, <1>13, <1>14, <1>15, <1>16, <1>17 DEF Good
<1>19. SameHeld(dk, rc, cl, or, dk2, cl2, or)
  BY <1>10 DEF SameHeld, HeldBy
<1> QED BY <1>18, <1>19 DEF cl2

-----------------------------------------------------------------------------
(***************************************************************************)
(* A directory moves to a run that is one cluster longer.                  *)
(***************************************************************************)
Longer(d) == [d EXCEPT !.blks = @ + 1]
Readdressed(d, h, run) ==
  [d EXCEPT !.ents = (@ \ {Entry(h.dir, TRUE, h.run)}) \cup {Entry(h.dir, TRUE, run)}]
Moving(dk, rc, cl, or, h, run, dk2, rc2) ==
  /\ h \in Homes(dk, rc) /\ RecOf(dk, h).blks > 0
  /\ run \in Run /\ run.size = h.run.size + 1 /\ Of(run) \subseteq Clus
  /\ \A x \in Claims(dk, rc, cl, or) : x # DirClaim(h) => \A k : ~(k \in Of(run) /\ k \in Of(x.run))
  /\ dk2 \in DiskType /\ dk2[run.start] = Longer(RecOf(dk, h))
  /\ \A k \in Clus : k \notin Of(run) /\ (h.dir = NULL \/ k # rc) => dk2[k] = dk[k]
  /\ h.dir = NULL => rc2 = run.start
  /\ h.dir # NULL => rc2 = rc /\ dk2[rc] = Readdressed(dk[rc], h, run)

LEMMA Replaced ==
  ASSUME NEW S, IsFiniteSet(S), NEW e \in S, NEW f, f \notin S \ {e}
  PROVE  /\ IsFiniteSet(S \ {e}) /\ IsFiniteSet((S \ {e}) \cup {f})
         /\ Cardinality(S) \in Nat /\ Cardinality(S \ {e}) = Cardinality(S) - 1
         /\ Cardinality((S \ {e}) \cup {f}) = Cardinality(S)
<1>1. IsFiniteSet(S \ {e}) /\ Cardinality(S \ {e}) = Cardinality(S) - 1
  BY FS_RemoveElement
<1>2. IsFiniteSet((S \ {e}) \cup {f}) /\ Cardinality((S \ {e}) \cup {f}) = Cardinality(S \ {e}) + 1
  BY <1>1, FS_AddElement
<1>3. Cardinality(S) \in Nat
  BY FS_CardinalityType
<1> QED BY <1>1, <1>2, <1>3

LEMMA LongerIs ==
  ASSUME NEW d, NEW size \in Nat, NEW r, RecOk(d, size, r), r.blks > 0
  PROVE  /\ RecOk(d, size + 1, Longer(r)) /\ Longer(r).blks = r.blks + 1 /\ Longer(r).blks = size + 1
         /\ Longer(r).ents = r.ents /\ Longer(r).deleted = r.deleted
<1>1. /\ r \in DirType /\ IsFiniteSet(r.ents) /\ r.blks = size /\ Used(r) < r.blks * Slots
      /\ \A e, f \in r.ents : e.name = f.name => e = f
      /\ \A e \in r.ents : /\ e.dir <=> d = NULL /\ e.name \in DirNames
                           /\ e.dir => e.run.size > 0
                           /\ e.run.size = 0 => e.run = EmptyRun
  BY DEF RecOk
<1>2. /\ Longer(r) \in DirType /\ Longer(r).blks = r.blks + 1
      /\ Longer(r).ents = r.ents /\ Longer(r).deleted = r.deleted
  BY <1>1 DEF DirType, Longer
<1>3. Used(Longer(r)) = Used(r) /\ Used(r) \in Nat
  <2>1. Cardinality(r.ents) \in Nat /\ r.deleted \in Nat
    BY <1>1, FS_CardinalityType DEF DirType
  <2> QED BY <1>2, <2>1 DEF Used, Slot0
<1>4. (size + 1) * Slots = size * Slots + Slots /\ size * Slots \in Nat /\ Slots \in Nat
  BY RedSeaAssumption
<1>5. Used(Longer(r)) < Longer(r).blks * Slots
  <2>1. Longer(r).blks = size + 1 /\ Used(r) < size * Slots
    BY <1>1, <1>2
  <2> HIDE DEF Used
  <2> QED BY <1>3, <1>4, <2>1
<1>6. Longer(r).blks \in {0, size + 1} /\ Longer(r).blks # 0
  BY <1>1, <1>2
<1>7. RecOk(d, size + 1, Longer(r))
  BY Zenon, <1>1, <1>2, <1>5, <1>6 DEF RecOk
<1> QED BY <1>1, <1>2, <1>7

IsReaddressed(size, r, h, run, q) ==
  /\ RecOk(NULL, size, q) /\ q.blks = r.blks
  /\ q.ents = (r.ents \ {Entry(h.dir, TRUE, h.run)}) \cup {Entry(h.dir, TRUE, run)}

LEMMA ReaddressedIs ==
  ASSUME NEW size \in Nat, NEW r, RecOk(NULL, size, r), NEW h, Entry(h.dir, TRUE, h.run) \in r.ents,
         NEW run \in Run, run.size > 0
  PROVE  IsReaddressed(size, r, h, run, Readdressed(r, h, run))
<1> DEFINE e0 == Entry(h.dir, TRUE, h.run)
           e1 == Entry(h.dir, TRUE, run)
           q == Readdressed(r, h, run)
<1>1. /\ r \in DirType /\ IsFiniteSet(r.ents)
      /\ r.blks \in {0, size}
      /\ r.blks > 0 => Used(r) < r.blks * Slots
      /\ r.blks = 0 => r.ents = {}
      /\ \A e, f \in r.ents : e.name = f.name => e = f
      /\ \A e \in r.ents : /\ e.dir <=> NULL = NULL /\ e.name \in DirNames
                           /\ e.dir => e.run.size > 0
                           /\ e.run.size = 0 => e.run = EmptyRun
  BY DEF RecOk
<1>2. e0.name = h.dir /\ e0.dir /\ e1.name = h.dir /\ e1.dir /\ e1.run = run
  BY DEF Entry
<1>3. e0 \in r.ents /\ e0 \in EntryType
  BY <1>1 DEF DirType
<1>4. e1 \in EntryType
  <2>1. h.dir \in Name
    BY <1>2, <1>3 DEF EntryType
  <2> QED BY <2>1 DEF Entry, EntryType
<1>5. /\ q.ents = (r.ents \ {e0}) \cup {e1} /\ q.blks = r.blks /\ q.deleted = r.deleted
      /\ q \in DirType
  BY <1>1, <1>3, <1>4 DEF DirType, Readdressed
<1> HIDE DEF e0, e1, q
<1>6. e1 \notin r.ents \ {e0}
  BY <1>1, <1>2, <1>3
<1>7. IsFiniteSet(q.ents) /\ Cardinality(q.ents) = Cardinality(r.ents)
  <2>1. IsFiniteSet((r.ents \ {e0}) \cup {e1}) /\ Cardinality((r.ents \ {e0}) \cup {e1}) = Cardinality(r.ents)
    <3>1. IsFiniteSet(r.ents)
      BY <1>1
    <3> QED BY ZenonT(40), <3>1, <1>3, <1>6, Replaced
  <2> QED BY <1>5, <2>1
<1>8. Used(q) = Used(r)
  BY <1>5, <1>7 DEF Used
<1>9. q.blks > 0 => Used(q) < q.blks * Slots
  BY <1>1, <1>5, <1>8
<1>10. q.blks # 0 /\ q.blks \in {0, size}
  BY <1>1, <1>3, <1>5
<1>11. ASSUME NEW e \in q.ents, NEW f \in q.ents, e.name = f.name PROVE e = f
  BY <1>1, <1>2, <1>3, <1>5, <1>11
<1>12. ASSUME NEW e \in q.ents
       PROVE  /\ e.dir <=> NULL = NULL /\ e.name \in DirNames
              /\ e.dir => e.run.size > 0
              /\ e.run.size = 0 => e.run = EmptyRun
  BY <1>1, <1>2, <1>3, <1>5, <1>12
<1>13. RecOk(NULL, size, q)
  BY <1>5, <1>7, <1>9, <1>10, <1>11, <1>12 DEF RecOk
<1> QED BY <1>5, <1>13 DEF q, e0, e1, IsReaddressed

\* What is where then.
MovedHome(h, run) == Home(h.dir, run)
MovedRoot(dk, rc, h, run, r2) ==
  IF h.dir = NULL THEN r2 = Longer(dk[rc]) ELSE r2 = Readdressed(dk[rc], h, run)
MovedOthers(dk, rc, h, run, dk2) ==
  \A g \in Homes(dk, rc) : g # h =>
    /\ g.dir # NULL => RecOf(dk2, g) = RecOf(dk, g)
    /\ g.dir = NULL => RecOf(dk2, g) = Readdressed(RecOf(dk, g), h, run)

MovedTo(dk, rc, h, run, dk2) ==
  /\ h \in Homes(dk, rc) /\ run \in Run /\ run.size = h.run.size + 1 /\ run.size > 0
  /\ run.start \in Of(run) /\ run.start \in Clus /\ RecOf(dk, h).blks > 0
  /\ MovedHome(h, run).dir = h.dir /\ MovedHome(h, run).run = run
  /\ RecOf(dk2, MovedHome(h, run)) = Longer(RecOf(dk, h))

LEMMA MovingIs ==
  ASSUME NEW dk, NEW rc, NEW cl, NEW or, NEW sp, Good(dk, rc, cl, or, sp),
         NEW h, NEW run, NEW dk2, NEW rc2, Moving(dk, rc, cl, or, h, run, dk2, rc2)
  PROVE  MovedTo(dk, rc, h, run, dk2)
<1>1. /\ h \in Homes(dk, rc) /\ run \in Run /\ run.size = h.run.size + 1
      /\ Of(run) \subseteq Clus /\ dk2[run.start] = Longer(RecOf(dk, h)) /\ RecOf(dk, h).blks > 0
  BY DEF Moving
<1>2. h.run.size \in Nat /\ h.run.size > 0
  BY Zenon, <1>1, HomeIs
<1>3. run.size > 0
  BY <1>1, <1>2
<1>4. run.start \in Of(run)
  BY <1>1, <1>3, RunIs
<1>5. MovedHome(h, run).dir = h.dir /\ MovedHome(h, run).run = run
  BY HomeFields DEF MovedHome
<1> QED BY <1>1, <1>3, <1>4, <1>5 DEF RecOf, MovedTo

LEMMA MovingFrame ==
  ASSUME NEW dk, NEW rc, NEW cl, NEW or, NEW sp, Good(dk, rc, cl, or, sp),
         NEW h, NEW run, NEW dk2, NEW rc2, Moving(dk, rc, cl, or, h, run, dk2, rc2)
  PROVE  /\ MovedRoot(dk, rc, h, run, dk2[rc2]) /\ MovedOthers(dk, rc, h, run, dk2)
         /\ SameContent(dk, rc, cl, dk2) /\ rc2 \in Clus
<1>1. /\ h \in Homes(dk, rc) /\ dk2[run.start] = Longer(RecOf(dk, h))
      /\ \A x \in Claims(dk, rc, cl, or) : x # DirClaim(h) => \A k : ~(k \in Of(run) /\ k \in Of(x.run))
      /\ \A k \in Clus : k \notin Of(run) /\ (h.dir = NULL \/ k # rc) => dk2[k] = dk[k]
      /\ h.dir = NULL => rc2 = run.start
      /\ h.dir # NULL => rc2 = rc /\ dk2[rc] = Readdressed(dk[rc], h, run)
  BY Zenon DEF Moving
<1>2. run.start \in Clus /\ rc \in Clus
  <2>1. MovedTo(dk, rc, h, run, dk2)
    BY Zenon, MovingIs
  <2> QED BY Zenon, <2>1 DEF Good, MovedTo
<1>3. MovedRoot(dk, rc, h, run, dk2[rc2])
  <2>1. h.dir = NULL => RecOf(dk, h) = dk[rc]
    BY <1>1, RootIs
  <2> QED BY <1>1, <2>1 DEF MovedRoot
<1>4. ASSUME NEW g \in Homes(dk, rc), g # h
      PROVE  /\ g.dir # NULL => RecOf(dk2, g) = RecOf(dk, g)
             /\ g.dir = NULL => RecOf(dk2, g) = Readdressed(RecOf(dk, g), h, run)
  <2>1. DirClaim(g) \in Claims(dk, rc, cl, or) /\ DirClaim(g).run = g.run
    BY Zenon, DirClaimIn, ClaimFields
  <2>2. g.dir # h.dir
    BY <1>1, <1>4, HomesDiffer
  <2>3. DirClaim(g) # DirClaim(h)
    BY Zenon, <2>2, SameClaim
  <2>4. g.run.start \in Of(g.run) /\ g.run.start \in Clus
    BY Zenon, HomeIs
  <2>5. g.run.start \notin Of(run)
    BY <1>1, <2>1, <2>3, <2>4
  <2>6. CASE g.dir = NULL
    <3>1. g.run.start = rc /\ RecOf(dk, g) = dk[rc]
      BY Zenon, <2>6, RootIs
    <3> QED BY <1>1, <2>2, <2>6, <3>1 DEF RecOf
  <2>7. CASE g.dir # NULL
    <3>1. g.run.start # rc
      <4> DEFINE r == RootHome(dk, rc)
      <4>1. r \in Homes(dk, rc) /\ r.dir = NULL /\ r.run.start = rc
        BY Zenon, RootFields
      <4> HIDE DEF r
      <4>2. rc \in Of(r.run)
        BY <4>1, HomeIs
      <4>3. g # r
        BY <2>7, <4>1
      <4> QED BY Zenon, <2>4, <4>1, <4>2, <4>3, HomesDiffer
    <3> QED BY <1>1, <2>4, <2>5, <2>7, <3>1 DEF RecOf
  <2> QED BY <2>6, <2>7
<1>5. MovedOthers(dk, rc, h, run, dk2)
  BY Zenon, <1>4 DEF MovedOthers
<1>6. ASSUME NEW x \in Claims(dk, rc, cl, or), \A g : x # DirClaim(g), NEW k \in Of(x.run)
      PROVE  dk2[k] = dk[k]
  <2>1. k \notin Of(run)
    BY Zenon, <1>1, <1>6
  <2>2. SpaceOk(Claims(dk, rc, cl, or), sp)
    BY Zenon DEF Good
  <2>3. k \in Clus
    BY Zenon, <2>2, ClaimedAre
  <2>4. k # rc
    <3> DEFINE r == RootHome(dk, rc)
    <3>1. r \in Homes(dk, rc) /\ r.run.start = rc
      BY Zenon, RootFields
    <3> HIDE DEF r
    <3>2. rc \in Of(r.run)
      BY <3>1, HomeIs
    <3>3. DirClaim(r) \in Claims(dk, rc, cl, or) /\ DirClaim(r).run = r.run /\ DirClaim(r) # x
      BY Zenon, <1>6, <3>1, DirClaimIn, ClaimFields
    <3> QED BY <2>2, <3>2, <3>3, ClaimedAre
  <2> QED BY <1>1, <2>1, <2>3, <2>4
<1>7. ASSUME NEW g \in Homes(dk, rc), NEW e \in FilesIn(RecOf(dk, g).ents), NEW k \in Of(e.run)
      PROVE  dk2[k] = dk[k]
  <2>1. FileClaim(g, e) \in Claims(dk, rc, cl, or) /\ FileClaim(g, e).run = e.run
    BY Zenon, FileClaimIn, ClaimFields
  <2>2. \A f : FileClaim(g, e) # DirClaim(f)
    BY KindsDiffer
  <2>3. k \in Of(FileClaim(g, e).run)
    BY <2>1
  <2> QED BY Zenon, <1>6, <2>1, <2>2, <2>3
<1>8. ASSUME NEW u \in Task, cl[u].at \in {"write", "enter"}, NEW k \in Of(cl[u].run)
      PROVE  dk2[k] = dk[k]
  <2>1. TaskClaim(u, cl[u].run) \in Claims(dk, rc, cl, or) /\ TaskClaim(u, cl[u].run).run = cl[u].run
    BY <1>8, TaskClaimIn, ClaimFields
  <2>2. \A f : TaskClaim(u, cl[u].run) # DirClaim(f)
    BY KindsDiffer
  <2>3. k \in Of(TaskClaim(u, cl[u].run).run)
    BY <2>1
  <2> QED BY Zenon, <1>6, <2>1, <2>2, <2>3
<1>9. SameContent(dk, rc, cl, dk2)
  BY Zenon, <1>7, <1>8 DEF SameContent
<1> QED BY <1>1, <1>2, <1>3, <1>5, <1>9

MovedHomes(dk, rc, h, run, dk2, rc2) ==
  \A g : g \in Homes(dk2, rc2) <=> (g \in Homes(dk, rc) /\ g # h) \/ g = MovedHome(h, run)

LEMMA MovingHomes ==
  ASSUME NEW dk, NEW rc, NEW cl, NEW or, NEW sp, Good(dk, rc, cl, or, sp),
         NEW h, NEW run, NEW dk2, NEW rc2, Moving(dk, rc, cl, or, h, run, dk2, rc2)
  PROVE  MovedHomes(dk, rc, h, run, dk2, rc2) /\ dk2[rc2].blks > 0
<1> DEFINE h2 == MovedHome(h, run)
<1>1. /\ h \in Homes(dk, rc) /\ run \in Run /\ run.size = h.run.size + 1 /\ run.size > 0
      /\ h2.dir = h.dir /\ h2.run = run
  <2>1. MovedTo(dk, rc, h, run, dk2)
    BY Zenon, MovingIs
  <2> QED BY Zenon, <2>1 DEF MovedTo
<1>2. MovedRoot(dk, rc, h, run, dk2[rc2])
  BY Zenon, MovingFrame
<1>3. h2 = Home(h.dir, run)
  BY DEF MovedHome
<1>4. h.run.size \in Nat /\ RecOk(h.dir, h.run.size, RecOf(dk, h)) /\ RecOf(dk, h).blks > 0 /\ h = Home(h.dir, h.run)
  BY Zenon, <1>1, HomeIs DEF Moving
<1> HIDE DEF h2
<1>5. CASE h.dir = NULL
  <2>1. h = RootHome(dk, rc) /\ RecOf(dk, h) = dk[rc] /\ rc2 = run.start
    BY <1>1, <1>5, RootIs DEF Moving
  <2>2. dk2[rc2] = Longer(dk[rc])
    BY <1>2, <1>5 DEF MovedRoot
  <2>3. dk2[rc2].blks = run.size /\ dk2[rc2].ents = dk[rc].ents /\ dk2[rc2].blks > 0
    BY <1>1, <1>4, <2>1, <2>2, LongerIs
  <2>4. run = [start |-> run.start, size |-> run.size]
    BY <1>1, RunIs
  <2>5. RootHome(dk2, rc2) = h2
    BY <1>3, <1>5, <2>1, <2>3, <2>4 DEF RootHome
  <2>6. h \notin SubHomes(dk[rc].ents)
    <3>1. ASSUME NEW e \in dk[rc].ents, e.dir, h = Home(e.name, e.run) PROVE FALSE
      <4>1. h.dir = e.name /\ e.name # NULL
        BY <3>1, RootEntry, HomeFields
      <4> QED BY <1>5, <4>1
    <3> QED BY Zenon, <3>1, InSubHomes
  <2>7. Homes(dk2, rc2) = {h2} \cup SubHomes(dk[rc].ents) /\ Homes(dk, rc) = {h} \cup SubHomes(dk[rc].ents)
    BY <2>1, <2>3, <2>5 DEF Homes
  <2>8. MovedHomes(dk, rc, h, run, dk2, rc2)
    BY <2>6, <2>7 DEF MovedHomes, h2
  <2> QED BY <2>3, <2>8
<1>6. CASE h.dir # NULL
  <2> DEFINE e0 == Entry(h.dir, TRUE, h.run)
             e1 == Entry(h.dir, TRUE, run)
  <2>1. e0 \in dk[rc].ents /\ h # RootHome(dk, rc) /\ rc2 = rc
    BY <1>1, <1>6, SubIs DEF Moving
  <2>2. dk2[rc2] = Readdressed(dk[rc], h, run)
    BY <1>2, <1>6 DEF MovedRoot
  <2> DEFINE r == RootHome(dk, rc)
  <2>3. r \in Homes(dk, rc) /\ r.dir = NULL /\ r.run.start = rc /\ r.run.size = dk[rc].blks
    BY Zenon, RootFields
  <2>4. RecOk(NULL, r.run.size, dk[rc]) /\ r.run.size \in Nat /\ dk[rc].blks > 0
    <3> HIDE DEF r
    <3>1. RecOk(r.dir, r.run.size, RecOf(dk, r)) /\ r.run.size \in Nat /\ r.run.size > 0
      BY Zenon, <2>3, HomeIs
    <3> QED BY <2>3, <3>1 DEF RecOf
  <2>5. dk2[rc2].blks = dk[rc].blks /\ dk2[rc2].ents = (dk[rc].ents \ {e0}) \cup {e1}
    <3> DEFINE d == dk[rc]
    <3>1. RecOk(NULL, r.run.size, d) /\ Entry(h.dir, TRUE, h.run) \in d.ents
      BY <2>1, <2>4
    <3> HIDE DEF d, r
    <3>2. IsReaddressed(r.run.size, d, h, run, Readdressed(d, h, run))
      BY Zenon, <1>1, <2>4, <3>1, ReaddressedIs
    <3> QED BY <2>2, <3>2 DEF d, IsReaddressed
  <2>6. RootHome(dk2, rc2) = r
    BY <2>1, <2>5 DEF RootHome
  <2>7. Home(e0.name, e0.run) = h /\ Home(e1.name, e1.run) = h2 /\ e0.dir /\ e1.dir /\ e0.name = h.dir
    BY <1>3, <1>4 DEF Entry
  <2> HIDE DEF e0, e1, r
  <2>8. ASSUME NEW g
        PROVE  g \in SubHomes(dk2[rc2].ents) <=> (g \in SubHomes(dk[rc].ents) /\ g # h) \/ g = h2
    <3>1. g \in SubHomes(dk2[rc2].ents) <=> \E e \in dk2[rc2].ents : e.dir /\ g = Home(e.name, e.run)
      BY Zenon, InSubHomes
    <3>2. g \in SubHomes(dk[rc].ents) <=> \E e \in dk[rc].ents : e.dir /\ g = Home(e.name, e.run)
      BY Zenon, InSubHomes
    <3>3. ASSUME NEW e \in dk[rc].ents, e # e0, e.dir, g = Home(e.name, e.run) PROVE g # h
      <4>1. g.dir = e.name
        BY Zenon, <3>3, HomeFields
      <4>2. e.name # e0.name
        BY Zenon, <2>1, <3>3, RootEntry
      <4> QED BY <2>7, <4>1, <4>2
    <3>4. \A e : e \in dk2[rc2].ents <=> (e \in dk[rc].ents /\ e # e0) \/ e = e1
      BY <2>5
    <3> QED BY Zenon, <2>1, <2>7, <3>1, <3>2, <3>3, <3>4
  <2>9. Homes(dk2, rc2) = {r} \cup SubHomes(dk2[rc2].ents) /\ Homes(dk, rc) = {r} \cup SubHomes(dk[rc].ents)
    BY <2>6 DEF Homes, r
  <2>10. MovedHomes(dk, rc, h, run, dk2, rc2)
    BY <2>1, <2>8, <2>9 DEF MovedHomes, h2, r
  <2> QED BY <2>4, <2>5, <2>10
<1> QED BY <1>5, <1>6

MovedRecs(dk, rc, h, run, dk2) ==
  /\ \A g \in Homes(dk, rc) : g # h =>
       /\ RecOk(g.dir, g.run.size, RecOf(dk2, g)) /\ RecOf(dk2, g).blks = RecOf(dk, g).blks
       /\ FilesIn(RecOf(dk2, g).ents) = FilesIn(RecOf(dk, g).ents)
  /\ RecOk(h.dir, run.size, RecOf(dk2, MovedHome(h, run))) /\ RecOf(dk2, MovedHome(h, run)).blks > 0
  /\ FilesIn(RecOf(dk2, MovedHome(h, run)).ents) = FilesIn(RecOf(dk, h).ents)

LEMMA MovingRecs ==
  ASSUME NEW dk, NEW rc, NEW cl, NEW or, NEW sp, Good(dk, rc, cl, or, sp),
         NEW h, NEW run, NEW dk2, NEW rc2, Moving(dk, rc, cl, or, h, run, dk2, rc2)
  PROVE  MovedRecs(dk, rc, h, run, dk2)
<1> DEFINE h2 == MovedHome(h, run)
<1>1. /\ h \in Homes(dk, rc) /\ run \in Run /\ run.size = h.run.size + 1 /\ run.size > 0
      /\ RecOf(dk, h).blks > 0 /\ RecOf(dk2, h2) = Longer(RecOf(dk, h))
  <2>1. MovedTo(dk, rc, h, run, dk2)
    BY Zenon, MovingIs
  <2> QED BY Zenon, <2>1 DEF MovedTo
<1>2. MovedOthers(dk, rc, h, run, dk2)
  BY Zenon, MovingFrame
<1> HIDE DEF h2
<1>3. RecOk(h.dir, h.run.size, RecOf(dk, h)) /\ h.run.size \in Nat
  BY Zenon, <1>1, HomeIs
<1>4. RecOk(h.dir, run.size, RecOf(dk2, h2)) /\ RecOf(dk2, h2).blks > 0
      /\ FilesIn(RecOf(dk2, h2).ents) = FilesIn(RecOf(dk, h).ents)
  <2> DEFINE r == RecOf(dk, h)
  <2> HIDE DEF r
  <2>1. /\ RecOk(h.dir, h.run.size + 1, Longer(r)) /\ Longer(r).blks = h.run.size + 1
        /\ Longer(r).ents = r.ents
    BY <1>1, <1>3, LongerIs DEF r
  <2> QED BY <1>1, <1>3, <2>1 DEF r
<1>5. ASSUME NEW g \in Homes(dk, rc), g # h
      PROVE  /\ RecOk(g.dir, g.run.size, RecOf(dk2, g)) /\ RecOf(dk2, g).blks = RecOf(dk, g).blks
             /\ FilesIn(RecOf(dk2, g).ents) = FilesIn(RecOf(dk, g).ents)
  <2>1. RecOk(g.dir, g.run.size, RecOf(dk, g)) /\ g.run.size \in Nat
    BY Zenon, HomeIs
  <2>2. CASE g.dir # NULL
    <3>1. RecOf(dk2, g) = RecOf(dk, g)
      BY Zenon, <1>2, <1>5, <2>2 DEF MovedOthers
    <3> QED BY <2>1, <3>1
  <2>3. CASE g.dir = NULL
    <3> DEFINE r == RecOf(dk, g)
    <3>1. RecOf(dk2, g) = Readdressed(r, h, run)
      BY Zenon, <1>2, <1>5, <2>3 DEF MovedOthers
    <3>2. h.dir # NULL
      BY Zenon, <1>1, <1>5, <2>3, HomesDiffer
    <3>3. Entry(h.dir, TRUE, h.run) \in r.ents
      <4>1. Entry(h.dir, TRUE, h.run) \in dk[rc].ents /\ RecOf(dk, g) = dk[rc]
        <5>1. Entry(h.dir, TRUE, h.run) \in dk[rc].ents
          BY Zenon, <1>1, <3>2, SubIs
        <5>2. RecOf(dk, g) = dk[rc]
          BY <1>1, <2>3, RootIs
        <5> QED BY <5>1, <5>2
      <4> QED BY <4>1
    <3>4. RecOk(NULL, g.run.size, r)
      BY <2>1, <2>3
    <3> HIDE DEF r
    <3>5. IsReaddressed(g.run.size, r, h, run, Readdressed(r, h, run))
      BY Zenon, <1>1, <2>1, <3>3, <3>4, ReaddressedIs
    <3>6. FilesIn(Readdressed(r, h, run).ents) = FilesIn(r.ents)
      <4>1. Entry(h.dir, TRUE, h.run).dir /\ Entry(h.dir, TRUE, run).dir
        BY DEF Entry
      <4>2. Readdressed(r, h, run).ents = (r.ents \ {Entry(h.dir, TRUE, h.run)}) \cup {Entry(h.dir, TRUE, run)}
        BY <3>5 DEF IsReaddressed
      <4> QED BY <4>1, <4>2 DEF FilesIn
    <3>7. RecOk(NULL, g.run.size, Readdressed(r, h, run)) /\ Readdressed(r, h, run).blks = r.blks
      BY Zenon, <3>5 DEF IsReaddressed
    <3> QED BY <2>3, <3>1, <3>6, <3>7 DEF r
  <2> QED BY <2>2, <2>3
<1> QED BY Zenon, <1>4, <1>5 DEF MovedRecs, h2

LEMMA MovingDirs ==
  ASSUME NEW dk, NEW rc, NEW cl, NEW or, NEW sp, Good(dk, rc, cl, or, sp),
         NEW h, NEW run, NEW dk2, NEW rc2, Moving(dk, rc, cl, or, h, run, dk2, rc2)
  PROVE  DirsOk(dk2, rc2) /\ MakersOk(dk2, rc2, cl) /\ FilesOk(dk2, rc2)
<1> DEFINE h2 == MovedHome(h, run)
<1>1. /\ h \in Homes(dk, rc) /\ run \in Run /\ run.size > 0 /\ h2.dir = h.dir /\ h2.run = run
  <2>1. MovedTo(dk, rc, h, run, dk2)
    BY Zenon, MovingIs
  <2> QED BY Zenon, <2>1 DEF MovedTo
<1>2. /\ \A g : g \in Homes(dk2, rc2) <=> (g \in Homes(dk, rc) /\ g # h) \/ g = h2
      /\ dk2[rc2].blks > 0
  <2>1. MovedHomes(dk, rc, h, run, dk2, rc2) /\ dk2[rc2].blks > 0
    BY Zenon, MovingHomes
  <2> QED BY Zenon, <2>1 DEF MovedHomes
<1>3. /\ \A g \in Homes(dk, rc) : g # h =>
           /\ RecOk(g.dir, g.run.size, RecOf(dk2, g)) /\ RecOf(dk2, g).blks = RecOf(dk, g).blks
           /\ FilesIn(RecOf(dk2, g).ents) = FilesIn(RecOf(dk, g).ents)
      /\ RecOk(h.dir, run.size, RecOf(dk2, h2)) /\ RecOf(dk2, h2).blks > 0
      /\ FilesIn(RecOf(dk2, h2).ents) = FilesIn(RecOf(dk, h).ents)
  <2>1. MovedRecs(dk, rc, h, run, dk2)
    BY Zenon, MovingRecs
  <2> QED BY Zenon, <2>1 DEF MovedRecs
<1>4. SameContent(dk, rc, cl, dk2)
  BY Zenon, MovingFrame
<1>5. DirsOk(dk, rc) /\ MakersOk(dk, rc, cl) /\ FilesOk(dk, rc)
  BY Zenon DEF Good
<1> HIDE DEF h2
<1>6. DirsOk(dk2, rc2)
  <2>1. ASSUME NEW g \in Homes(dk2, rc2)
        PROVE  g.run \in Run /\ g.run.size > 0 /\ RecOk(g.dir, g.run.size, RecOf(dk2, g))
    <3>1. CASE g \in Homes(dk, rc) /\ g # h
      BY Zenon, <1>3, <3>1, HomeIs
    <3>2. CASE g = h2
      BY <1>1, <1>3, <3>2
    <3> QED BY Zenon, <1>2, <3>1, <3>2
  <2>2. \E g \in Homes(dk2, rc2) : g.dir = FirstDir
    <3>1. PICK g \in Homes(dk, rc) : g.dir = FirstDir
      BY Zenon, <1>5 DEF DirsOk
    <3>2. CASE g = h
      <4>1. h2 \in Homes(dk2, rc2) /\ h2.dir = FirstDir
        BY <1>1, <1>2, <3>1, <3>2
      <4> QED BY Zenon, <4>1
    <3>3. CASE g # h
      <4>1. g \in Homes(dk2, rc2)
        BY Zenon, <1>2, <3>1, <3>3
      <4> QED BY Zenon, <3>1, <4>1
    <3> QED BY <3>2, <3>3
  <2> QED BY Zenon, <1>2, <2>1, <2>2 DEF DirsOk
<1>7. MakersOk(dk2, rc2, cl)
  <2>1. ASSUME NEW g \in Homes(dk2, rc2), RecOf(dk2, g).blks = 0
        PROVE  \E u \in Task : g.dir \in Made(u) /\ Making(cl[u], g.run)
    <3>1. g # h2
      BY <1>3, <2>1
    <3>2. g \in Homes(dk, rc) /\ g # h
      BY Zenon, <1>2, <3>1
    <3>3. RecOf(dk, g).blks = 0
      BY <1>3, <2>1, <3>2
    <3> QED BY Zenon, <1>5, <3>2, <3>3 DEF MakersOk
  <2> QED BY Zenon, <2>1 DEF MakersOk
<1>8. FilesOk(dk2, rc2)
  <2>1. ASSUME NEW g \in Homes(dk2, rc2), NEW e \in FilesIn(RecOf(dk2, g).ents) PROVE Whole(dk2, e)
    <3>1. \E f \in Homes(dk, rc) : e \in FilesIn(RecOf(dk, f).ents)
      <4>1. CASE g \in Homes(dk, rc) /\ g # h
        <5>1. e \in FilesIn(RecOf(dk, g).ents)
          BY <1>3, <4>1
        <5> QED BY Zenon, <4>1, <5>1
      <4>2. CASE g = h2
        <5>1. e \in FilesIn(RecOf(dk, h).ents)
          BY <1>3, <4>2
        <5> QED BY Zenon, <1>1, <5>1
      <4> QED BY Zenon, <1>2, <4>1, <4>2
    <3>2. PICK f \in Homes(dk, rc) : e \in FilesIn(RecOf(dk, f).ents)
      BY Zenon, <3>1
    <3>3. Whole(dk, e)
      BY Zenon, <1>5, <3>2 DEF FilesOk
    <3>4. \A k \in Of(e.run) : dk2[k] = dk[k]
      BY Zenon, <1>4, <3>2 DEF SameContent
    <3> QED BY <3>3, <3>4 DEF Whole
  <2> QED BY Zenon, <2>1 DEF FilesOk
<1> QED BY <1>6, <1>7, <1>8

\* The root directory has the same names.
MovedNames(dk, rc, h, ents) ==
  /\ \A e \in ents : \E f \in dk[rc].ents : f.name = e.name
  /\ \A e \in dk[rc].ents : e.name # h.dir => e \in ents

LEMMA MovingNames ==
  ASSUME NEW dk, NEW rc, NEW cl, NEW or, NEW sp, Good(dk, rc, cl, or, sp),
         NEW h, NEW run, NEW dk2, NEW rc2, Moving(dk, rc, cl, or, h, run, dk2, rc2)
  PROVE  MovedNames(dk, rc, h, dk2[rc2].ents)
<1> DEFINE e0 == Entry(h.dir, TRUE, h.run)
           e1 == Entry(h.dir, TRUE, run)
<1>1. h \in Homes(dk, rc)
  BY DEF Moving
<1>2. MovedRoot(dk, rc, h, run, dk2[rc2])
  BY Zenon, MovingFrame
<1>3. dk[rc] \in DirType
  <2>1. RootHome(dk, rc) \in Homes(dk, rc) /\ RootHome(dk, rc).run.start = rc
    BY Zenon, RootFields
  <2>2. RecOf(dk, RootHome(dk, rc)) \in DirType
    BY Zenon, <2>1, HomeIs DEF RecOk
  <2> QED BY <2>1, <2>2 DEF RecOf
<1>4. e0.name = h.dir /\ e1.name = h.dir
  BY DEF Entry
<1>5. CASE h.dir = NULL
  <2>1. dk2[rc2].ents = dk[rc].ents
    BY <1>2, <1>3, <1>5 DEF MovedRoot, Longer, DirType
  <2> QED BY Zenon, <2>1 DEF MovedNames
<1>6. CASE h.dir # NULL
  <2>1. e0 \in dk[rc].ents
    BY Zenon, <1>1, <1>6, SubIs
  <2>2. dk2[rc2].ents = (dk[rc].ents \ {e0}) \cup {e1}
    BY <1>2, <1>3, <1>6 DEF MovedRoot, Readdressed, DirType
  <2> HIDE DEF e0, e1
  <2>3. \A e \in dk2[rc2].ents : \E f \in dk[rc].ents : f.name = e.name
    BY <1>4, <2>1, <2>2
  <2>4. \A e \in dk[rc].ents : e.name # h.dir => e \in dk2[rc2].ents
    BY <1>4, <2>2
  <2> QED BY Zenon, <2>3, <2>4 DEF MovedNames
<1> QED BY <1>5, <1>6

LEMMA MovingSteps ==
  ASSUME OwnDirs, NEW dk, NEW rc, NEW cl, NEW or, NEW sp, Good(dk, rc, cl, or, sp),
         NEW h, NEW run, NEW dk2, NEW rc2, Moving(dk, rc, cl, or, h, run, dk2, rc2), NEW u \in Task
  PROVE  StepOk(dk2, rc2, cl[u], u)
<1> DEFINE c == cl[u]
           h2 == MovedHome(h, run)
<1>0. StepOk(dk, rc, c, u)
  BY Zenon DEF Good
<1>1. h \in Homes(dk, rc) /\ RecOf(dk, h).blks > 0 /\ h2.dir = h.dir
  <2>1. MovedTo(dk, rc, h, run, dk2)
    BY Zenon, MovingIs
  <2> QED BY Zenon, <2>1 DEF MovedTo
<1>2. \A g : g \in Homes(dk2, rc2) <=> (g \in Homes(dk, rc) /\ g # h) \/ g = h2
  <2>1. MovedHomes(dk, rc, h, run, dk2, rc2)
    BY Zenon, MovingHomes
  <2> QED BY Zenon, <2>1 DEF MovedHomes
<1>3. MovedOthers(dk, rc, h, run, dk2) /\ SameContent(dk, rc, cl, dk2)
  BY Zenon, MovingFrame
<1>4. /\ \A e \in dk2[rc2].ents : \E f \in dk[rc].ents : f.name = e.name
      /\ \A e \in dk[rc].ents : e.name # h.dir => e \in dk2[rc2].ents
  <2>1. MovedNames(dk, rc, h, dk2[rc2].ents)
    BY Zenon, MovingNames
  <2> QED BY Zenon, <2>1 DEF MovedNames
<1> HIDE DEF h2
<1>5. Working(c) => \E g \in Homes(dk2, rc2) : g.dir = c.op.dir
  <2>1. ASSUME NEW g \in Homes(dk, rc), g.dir = c.op.dir PROVE \E f \in Homes(dk2, rc2) : f.dir = c.op.dir
    <3>1. g = h => h2 \in Homes(dk2, rc2) /\ h2.dir = c.op.dir
      BY <1>1, <1>2, <2>1
    <3>2. g # h => g \in Homes(dk2, rc2)
      BY Zenon, <1>2
    <3> QED BY Zenon, <2>1, <3>1, <3>2
  <2> QED BY Zenon, <1>0, <2>1 DEF StepOk
<1>6. Working(c) /\ c.op.op = "mkdir" /\ c.at # "fill" => \A e \in dk2[rc2].ents : e.name \notin c.op.names
  BY <1>0, <1>4 DEF StepOk
<1>7. ASSUME c.at = "enter"
      PROVE  /\ c.op.op = "mkdir" => dk2[c.run.start] = dk[c.run.start]
             /\ \A k \in Of(c.run) : dk2[k] = dk[k]
  <2>1. \A k \in Of(c.run) : dk2[k] = dk[k]
    BY <1>3, <1>7 DEF SameContent
  <2>2. MakesDir(dk, rc, cl, u)
    BY <1>7, WriterIs
  <2> QED BY <2>1, <2>2 DEF MakesDir
<1>8. ASSUME c.at = "fill"
      PROVE  /\ dk2[c.run.start] = dk[c.run.start]
             /\ Entry(NameOf(c.op), TRUE, c.run) \in dk2[rc2].ents
  <2> DEFINE g == NewHome(c)
  <2>1. Fills(dk, rc, cl, u)
    BY <1>8, FillIs
  <2>2. g \in Homes(dk, rc) /\ g.dir = NameOf(c.op) /\ g.run = c.run /\ RecOf(dk, g).blks = 0
    BY Zenon, <2>1 DEF Fills
  <2> HIDE DEF g
  <2>3. g # h
    BY <1>1, <2>2
  <2>4. g.dir # NULL
    <3>1. g # RootHome(dk, rc)
      <4>1. RecOf(dk, RootHome(dk, rc)) = dk[rc] /\ dk[rc].blks > 0
        BY RootFields DEF RecOf, Good, DirsOk
      <4> QED BY <2>2, <4>1
    <3> QED BY Zenon, <2>2, <3>1, OtherHome
  <2>5. RecOf(dk2, g) = RecOf(dk, g)
    BY Zenon, <1>3, <2>2, <2>3, <2>4 DEF MovedOthers
  <2>6. g.dir # h.dir
    BY Zenon, <1>1, <2>2, <2>3, HomesDiffer
  <2>7. Entry(NameOf(c.op), TRUE, c.run) \in dk[rc].ents
    BY Zenon, <1>0, <1>8 DEF StepOk
  <2>8. Entry(NameOf(c.op), TRUE, c.run).name = NameOf(c.op)
    BY DEF Entry
  <2>9. Entry(NameOf(c.op), TRUE, c.run) \in dk2[rc2].ents
    BY Zenon, <1>4, <2>2, <2>6, <2>7, <2>8
  <2> QED BY <2>2, <2>5, <2>9 DEF RecOf
<1> QED BY Zenon, <1>0, <1>5, <1>6, <1>7, <1>8, StepFrame

ClaimsMove(dk, rc, cl, or, h, run, dk2, rc2) ==
  Claims(dk2, rc2, cl, or) =
    (Claims(dk, rc, cl, or) \ {DirClaim(h)}) \cup {DirClaim(MovedHome(h, run))}

LEMMA MovingClaims ==
  ASSUME NEW dk, NEW rc, NEW cl, NEW or, NEW sp, Good(dk, rc, cl, or, sp),
         NEW h, NEW run, NEW dk2, NEW rc2, Moving(dk, rc, cl, or, h, run, dk2, rc2)
  PROVE  ClaimsMove(dk, rc, cl, or, h, run, dk2, rc2)
<1> DEFINE h2 == MovedHome(h, run)
           C == Claims(dk, rc, cl, or)
           C2 == Claims(dk2, rc2, cl, or)
           D == DirClaim(h)
           N == DirClaim(h2)
<1>1. h \in Homes(dk, rc) /\ h2.dir = h.dir
  <2>1. MovedTo(dk, rc, h, run, dk2)
    BY Zenon, MovingIs
  <2> QED BY Zenon, <2>1 DEF MovedTo
<1>2. \A g : g \in Homes(dk2, rc2) <=> (g \in Homes(dk, rc) /\ g # h) \/ g = h2
  <2>1. MovedHomes(dk, rc, h, run, dk2, rc2)
    BY Zenon, MovingHomes
  <2> QED BY Zenon, <2>1 DEF MovedHomes
<1>3. /\ \A g \in Homes(dk, rc) : g # h => FilesIn(RecOf(dk2, g).ents) = FilesIn(RecOf(dk, g).ents)
      /\ FilesIn(RecOf(dk2, h2).ents) = FilesIn(RecOf(dk, h).ents)
  <2>1. MovedRecs(dk, rc, h, run, dk2)
    BY Zenon, MovingRecs
  <2> QED BY Zenon, <2>1 DEF MovedRecs
<1>4. \A e : FileClaim(h2, e) = FileClaim(h, e)
  BY <1>1 DEF FileClaim
<1> HIDE DEF h2
<1>5. ASSUME NEW x \in C2 PROVE (x \in C /\ x # D) \/ x = N
  <2>1. IsClaim(dk2, rc2, cl, or, x)
    BY Zenon, ClaimFrom
  <2>2. ASSUME NEW g \in Homes(dk2, rc2), x = DirClaim(g) PROVE (x \in C /\ x # D) \/ x = N
    <3>1. CASE g \in Homes(dk, rc) /\ g # h
      <4>1. g.dir # h.dir
        BY Zenon, <1>1, <3>1, HomesDiffer
      <4>2. x # D
        BY Zenon, <2>2, <4>1, SameClaim
      <4> QED BY Zenon, <2>2, <3>1, <4>2, DirClaimIn
    <3>2. CASE g = h2
      BY <2>2, <3>2
    <3> QED BY Zenon, <1>2, <3>1, <3>2
  <2>3. ASSUME NEW g \in Homes(dk2, rc2), NEW e \in FilesIn(RecOf(dk2, g).ents), x = FileClaim(g, e)
        PROVE  x \in C /\ x # D
    <3>1. x # D
      BY Zenon, <2>3, KindsDiffer
    <3>2. CASE g \in Homes(dk, rc) /\ g # h
      <4>1. e \in FilesIn(RecOf(dk, g).ents)
        BY <1>3, <3>2
      <4> QED BY Zenon, <2>3, <3>1, <3>2, <4>1, FileClaimIn
    <3>3. CASE g = h2
      <4>1. e \in FilesIn(RecOf(dk, h).ents) /\ x = FileClaim(h, e)
        BY <1>3, <1>4, <2>3, <3>3
      <4> QED BY Zenon, <1>1, <3>1, <4>1, FileClaimIn
    <3> QED BY Zenon, <1>2, <3>2, <3>3
  <2>4. ASSUME NEW u \in Task, cl[u].at \in {"write", "enter"}, x = TaskClaim(u, cl[u].run)
        PROVE  x \in C /\ x # D
    <3>1. x # D
      BY Zenon, <2>4, KindsDiffer
    <3> QED BY Zenon, <2>4, <3>1, TaskClaimIn
  <2>5. ASSUME NEW r \in or, x = OrphanClaim(r) PROVE x \in C /\ x # D
    <3>1. x # D
      BY Zenon, <2>5, KindsDiffer
    <3> QED BY Zenon, <2>5, <3>1, OrphanClaimIn
  <2> QED BY Zenon, <2>1, <2>2, <2>3, <2>4, <2>5 DEF IsClaim
<1>6. ASSUME NEW x \in C, x # D PROVE x \in C2
  <2>1. IsClaim(dk, rc, cl, or, x)
    BY Zenon, ClaimFrom
  <2>2. ASSUME NEW g \in Homes(dk, rc), x = DirClaim(g) PROVE x \in C2
    <3>1. g # h
      BY <1>6, <2>2
    <3>2. g \in Homes(dk2, rc2)
      BY Zenon, <1>2, <3>1
    <3> QED BY Zenon, <2>2, <3>2, DirClaimIn
  <2>3. ASSUME NEW g \in Homes(dk, rc), NEW e \in FilesIn(RecOf(dk, g).ents), x = FileClaim(g, e)
        PROVE  x \in C2
    <3>1. CASE g = h
      <4>1. h2 \in Homes(dk2, rc2) /\ e \in FilesIn(RecOf(dk2, h2).ents) /\ x = FileClaim(h2, e)
        BY <1>2, <1>3, <1>4, <2>3, <3>1
      <4> QED BY Zenon, <4>1, FileClaimIn
    <3>2. CASE g # h
      <4>1. g \in Homes(dk2, rc2) /\ e \in FilesIn(RecOf(dk2, g).ents)
        BY <1>2, <1>3, <3>2
      <4> QED BY Zenon, <2>3, <4>1, FileClaimIn
    <3> QED BY <3>1, <3>2
  <2>4. ASSUME NEW u \in Task, cl[u].at \in {"write", "enter"}, x = TaskClaim(u, cl[u].run) PROVE x \in C2
    BY Zenon, <2>4, TaskClaimIn
  <2>5. ASSUME NEW r \in or, x = OrphanClaim(r) PROVE x \in C2
    BY Zenon, <2>5, OrphanClaimIn
  <2> QED BY Zenon, <2>1, <2>2, <2>3, <2>4, <2>5 DEF IsClaim
<1>7. N \in C2
  <2>1. h2 \in Homes(dk2, rc2)
    BY Zenon, <1>2
  <2> QED BY Zenon, <2>1, DirClaimIn
<1> HIDE DEF C, C2, D, N
<1>8. C2 = (C \ {D}) \cup {N}
  BY <1>5, <1>6, <1>7
<1> QED BY <1>8 DEF C, C2, D, N, h2, ClaimsMove

LEMMA MoveKeeps ==
  ASSUME OwnDirs, NEW dk, NEW rc, NEW cl, NEW or, NEW sp, Good(dk, rc, cl, or, sp),
         NEW h, NEW run, NEW dk2, NEW rc2, Moving(dk, rc, cl, or, h, run, dk2, rc2),
         \A k \in Of(run) : k \in Of(h.run) \/ k \notin sp.used,
         NEW sp2 \in SpaceType, ListIsClear(sp2), sp2.used = (sp.used \ Of(h.run)) \cup Of(run)
  PROVE  Good(dk2, rc2, cl, or, sp2)
<1> DEFINE C == Claims(dk, rc, cl, or)
           D == DirClaim(h)
           N == DirClaim(MovedHome(h, run))
<1>1. h \in Homes(dk, rc) /\ MovedHome(h, run).run = run /\ run.start \in Clus
  <2>1. MovedTo(dk, rc, h, run, dk2)
    BY Zenon, MovingIs
  <2> QED BY Zenon, <2>1 DEF MovedTo
<1>2. SpaceOk(C, sp) /\ D \in C
  BY Zenon, <1>1, DirClaimIn DEF Good
<1>3. D.run = h.run /\ N.run = run
  BY <1>1, ClaimFields
<1>4. Claims(dk2, rc2, cl, or) = (C \ {D}) \cup {N}
  <2>1. ClaimsMove(dk, rc, cl, or, h, run, dk2, rc2)
    BY Zenon, MovingClaims
  <2> QED BY Zenon, <2>1 DEF ClaimsMove
<1>5. Of(run) \subseteq Clus /\ dk2 \in DiskType
  BY DEF Moving
<1> HIDE DEF C, D, N
<1>6. \A k : (k \in ClaimedBy({D}) <=> k \in Of(h.run)) /\ (k \in ClaimedBy({N}) <=> k \in Of(run))
  BY <1>3, InClaimed
<1>7. \A k : k \in sp2.used <=> (k \in sp.used /\ k \notin ClaimedBy({D})) \/ k \in ClaimedBy({N})
  BY <1>6
<1>8. \A a \in {N} : \A k \in Of(a.run) : k \in ClaimedBy({D}) \/ (k \in Clus /\ k \notin sp.used)
  BY <1>3, <1>5, <1>6
<1>9. {D} \in SUBSET C /\ \A a, b \in {N} : a = b \/ Disjoint(a.run, b.run)
  BY <1>2
<1>10. SpaceOk((C \ {D}) \cup {N}, sp2)
  BY Zenon, <1>2, <1>7, <1>8, <1>9, SpaceKeeps
<1>11. SpaceOk(Claims(dk2, rc2, cl, or), sp2)
  BY Zenon, <1>4, <1>10
<1>12. DirsOk(dk2, rc2) /\ MakersOk(dk2, rc2, cl) /\ FilesOk(dk2, rc2)
  BY Zenon, MovingDirs
<1>13. \A u \in Task : StepOk(dk2, rc2, cl[u], u)
  BY Zenon, MovingSteps
<1>14. rc2 \in Clus
  BY Zenon, MovingFrame
<1>15. /\ or \subseteq Run /\ \A r \in or : r.size > 0
       /\ DOMAIN cl = Task /\ cl = [u \in Task |-> cl[u]] /\ \A u \in Task : CallOk(cl[u])
  BY Zenon DEF Good
<1> QED BY Zenon, <1>5, <1>11, <1>12, <1>13, <1>14, <1>15 DEF Good

LEMMA MoveHeld ==
  ASSUME NEW dk, NEW rc, NEW cl, NEW or, NEW sp, Good(dk, rc, cl, or, sp),
         NEW h, NEW run, NEW dk2, NEW rc2, Moving(dk, rc, cl, or, h, run, dk2, rc2), NEW r
  PROVE  /\ r \in HeldBy(dk2, rc2, cl, or) <=> (r \in HeldBy(dk, rc, cl, or) /\ r # h.run) \/ r = run
         /\ h.run \in HeldBy(dk, rc, cl, or) /\ run \notin HeldBy(dk, rc, cl, or)
<1> DEFINE C == Claims(dk, rc, cl, or)
           D == DirClaim(h)
           N == DirClaim(MovedHome(h, run))
<1>1. h \in Homes(dk, rc) /\ MovedHome(h, run).run = run
  <2>1. MovedTo(dk, rc, h, run, dk2)
    BY Zenon, MovingIs
  <2> QED BY Zenon, <2>1 DEF MovedTo
<1>2. h.run \in Run /\ h.run.size > 0 /\ D \in C
  BY Zenon, <1>1, HomeIs
<1>3. D.run = h.run /\ N.run = run
  BY <1>1, ClaimFields
<1>4. Claims(dk2, rc2, cl, or) = (C \ {D}) \cup {N}
  <2>1. ClaimsMove(dk, rc, cl, or, h, run, dk2, rc2)
    BY Zenon, MovingClaims
  <2> QED BY Zenon, <2>1 DEF ClaimsMove
<1>5. /\ run \in Run /\ run.size = h.run.size + 1
      /\ \A x \in C : x # D => \A k : ~(k \in Of(run) /\ k \in Of(x.run))
  BY Zenon DEF Moving
<1>6. run.size > 0 /\ run # h.run /\ run.start \in Of(run)
  BY <1>2, <1>5, RunIs
<1>7. {D} \in SUBSET C
  BY <1>2
<1>8. r \in HeldOf((C \ {D}) \cup {N}) <=> (r \in HeldBy(dk, rc, cl, or) /\ r \notin HeldOf({D})) \/ r \in HeldOf({N})
  BY Zenon, <1>7, HeldPass
<1>9. /\ r \in HeldOf({D}) <=> r = h.run
      /\ r \in HeldOf({N}) <=> r = run
  BY <1>2, <1>3, <1>6, HeldOfOne
<1> HIDE DEF D, N
<1>10. h.run \in HeldBy(dk, rc, cl, or)
  BY Zenon, <1>2, <1>3, InHeldOf DEF HeldBy
<1>11. run \notin HeldBy(dk, rc, cl, or)
  <2>1. ASSUME NEW x \in C, x.run = run PROVE FALSE
    BY <1>3, <1>5, <1>6, <2>1
  <2> QED BY Zenon, <2>1, InHeldOf DEF HeldBy
<1> HIDE DEF C
<1>12. r \in HeldBy(dk2, rc2, cl, or) <=> r \in HeldOf((C \ {D}) \cup {N})
  BY <1>4 DEF HeldBy
<1> QED BY Zenon, <1>8, <1>9, <1>10, <1>11, <1>12

HeldMoves(dk, rc, cl, or, h, run, dk2, rc2) ==
  /\ HeldBy(dk2, rc2, cl, or) = (HeldBy(dk, rc, cl, or) \ {h.run}) \cup {run}
  /\ h.run \in HeldBy(dk, rc, cl, or) /\ run \notin HeldBy(dk, rc, cl, or)
LEMMA MoveTakes ==
  ASSUME NEW dk, NEW rc, NEW cl, NEW or, NEW sp, Good(dk, rc, cl, or, sp),
         NEW h, NEW run, NEW dk2, NEW rc2, Moving(dk, rc, cl, or, h, run, dk2, rc2)
  PROVE  HeldMoves(dk, rc, cl, or, h, run, dk2, rc2)
<1> DEFINE H == HeldBy(dk, rc, cl, or)
           H2 == HeldBy(dk2, rc2, cl, or)
<1>1. ASSUME NEW r
      PROVE  /\ r \in H2 <=> (r \in H /\ r # h.run) \/ r = run
             /\ h.run \in H /\ run \notin H
  BY MoveHeld
<1> HIDE DEF H, H2
<1>2. H2 = (H \ {h.run}) \cup {run}
  BY <1>1
<1>3. h.run \in H /\ run \notin H
  BY <1>1
<1> QED BY <1>2, <1>3 DEF HeldMoves, H, H2

-----------------------------------------------------------------------------
(***************************************************************************)
(* Where a task works.                                                     *)
(***************************************************************************)
WorksIn(t, h) ==
  /\ h \in Homes(disk, root_clus) /\ h.dir = The(t).dir
  /\ Name2DirClus(The(t).dir) = h.run.start /\ RecOf(disk, h) = disk[h.run.start]
  /\ RecOf(disk, h).blks > 0 /\ RecOf(disk, h).blks = h.run.size
  /\ h.run.start = root_clus <=> h.dir = NULL

LEMMA DirHome ==
  ASSUME NEW cl, NEW or, NEW sp, Good(disk, root_clus, cl, or, sp), NEW h \in Homes(disk, root_clus)
  PROVE  /\ Name2DirClus(h.dir) = h.run.start
         /\ h.dir # NULL => FoundDirs(h.dir) = {Entry(h.dir, TRUE, h.run)}
<1>1. CASE h.dir = NULL
  <2>1. h.run.start = root_clus
    BY Zenon, <1>1, RootIs
  <2> QED BY <1>1, <2>1 DEF Name2DirClus
<1>2. CASE h.dir # NULL
  <2> DEFINE e == Entry(h.dir, TRUE, h.run)
  <2>1. e \in disk[root_clus].ents
    BY Zenon, <1>2, SubIs
  <2>2. e.name = h.dir /\ e.dir /\ e.run = h.run
    BY DEF Entry
  <2> HIDE DEF e
  <2>3. ASSUME NEW f \in disk[root_clus].ents, f.name = h.dir PROVE f = e
    BY Zenon, <2>1, <2>2, <2>3, RootEntry
  <2>4. FoundDirs(h.dir) = {e}
    BY <2>1, <2>2, <2>3 DEF FoundDirs, Found
  <2>5. Name2DirClus(h.dir) = e.run.start
    BY <1>2, <2>4 DEF Name2DirClus
  <2> QED BY <2>2, <2>4, <2>5 DEF e
<1> QED BY <1>1, <1>2

LEMMA HomeOfDir ==
  ASSUME NEW cl, NEW or, NEW sp, Good(disk, root_clus, cl, or, sp), NEW dir, Name2DirClus(dir) # 0
  PROVE  \E h \in Homes(disk, root_clus) : h.dir = dir
<1>1. CASE dir = NULL
  BY Zenon, <1>1, RootFields
<1>2. CASE dir # NULL
  <2>1. FoundDirs(dir) # {}
    BY <1>2 DEF Name2DirClus
  <2>2. PICK e \in disk[root_clus].ents : e.name = dir /\ e.dir
    BY <2>1 DEF FoundDirs, Found
  <2>3. Home(e.name, e.run) \in Homes(disk, root_clus) /\ Home(e.name, e.run).dir = dir
    BY <2>2, SubHomeIn, HomeFields
  <2> QED BY Zenon, <2>3
<1> QED BY <1>1, <1>2

\* Nobody works in a directory that is still being made, or whose maker was killed.
LEMMA WorkerIs ==
  ASSUME OwnDirs, IInv, NEW t \in Task, Working(call[t]), call[t].at # "fill"
  PROVE  \E h : WorksIn(t, h)
<1> DEFINE c == call[t]
<1>1. Good(disk, root_clus, call, orphans, space)
  BY Zenon DEF IInv
<1>2. StepOk(disk, root_clus, c, t) /\ MakersOk(disk, root_clus, call) /\ DirsOk(disk, root_clus)
  BY Zenon, <1>1 DEF Good
<1>3. c.op \in Ops[t] /\ \E h \in Homes(disk, root_clus) : h.dir = c.op.dir
  BY Zenon, <1>2 DEF StepOk
<1>4. PICK h \in Homes(disk, root_clus) : h.dir = c.op.dir
  BY Zenon, <1>3
<1>5. Name2DirClus(h.dir) = h.run.start
  BY Zenon, <1>1, DirHome
<1>6. RecOk(h.dir, h.run.size, RecOf(disk, h)) /\ h.run.size \in Nat /\ h.run.start \in Of(h.run)
  BY Zenon, <1>1, HomeIs
<1>7. RecOf(disk, h).blks # 0
  <2>1. SUFFICES ASSUME RecOf(disk, h).blks = 0 PROVE FALSE
    OBVIOUS
  <2>2. PICK u \in Task : h.dir \in Made(u) /\ Making(call[u], h.run)
    BY Zenon, <1>2, <2>1 DEF MakersOk
  <2>3. h.dir \in DirNames
    BY <2>2 DEF DirNames
  <2>4. c.op.dir \in Made(t) \cup {FirstDir}
    BY <1>3, <1>4, <2>3 DEF OwnDirs
  <2>5. FirstDir \notin Made(u)
    BY FirstNotMade
  <2>6. c.op.dir \in Made(t)
    BY <1>4, <2>2, <2>4, <2>5
  <2>7. u = t
    BY <1>4, <2>2, <2>6, MadeApart
  <2> QED BY <2>2, <2>7 DEF Making, Working
<1>8. RecOf(disk, h).blks = h.run.size /\ RecOf(disk, h).blks > 0
  BY <1>6, <1>7 DEF RecOk
<1>9. h.run.start = root_clus <=> h.dir = NULL
  <2>1. h.dir = NULL => h.run.start = root_clus
    BY <1>1, RootIs
  <2>2. ASSUME h.dir # NULL, h.run.start = root_clus PROVE FALSE
    <3> DEFINE r == RootHome(disk, root_clus)
    <3>1. r \in Homes(disk, root_clus) /\ r.dir = NULL /\ r.run.start = root_clus
      BY RootFields
    <3> HIDE DEF r
    <3>2. root_clus \in Of(r.run)
      BY <1>1, <3>1, HomeIs
    <3>3. r # h
      BY <2>2, <3>1
    <3>4. root_clus \in Of(h.run)
      BY <1>6, <2>2
    <3> QED BY Zenon, <1>1, <3>1, <3>2, <3>3, <3>4, HomesDiffer
  <2> QED BY <2>1, <2>2
<1>10. WorksIn(t, h)
  BY <1>4, <1>5, <1>8, <1>9 DEF WorksIn, The, RecOf
<1> QED BY <1>10

-----------------------------------------------------------------------------
(***************************************************************************)
(* The steps of the program.                                               *)
(***************************************************************************)
\* What a step does to the space and the runs that are held.
HeldNow == HeldBy(disk, root_clus, call, orphans)
Stays == space' = space /\ HeldNow' = HeldNow
GivesBack ==
  \E runs \in SUBSET (HeldNow \cup {EmptyRun}) : space' \in Space!FreedAll(space, runs) /\ HeldNow' = HeldNow \ runs
TakesRun ==
  \E runs \in SUBSET HeldNow : \E new \in Run \ HeldNow :
    /\ new.size > 0
    /\ \E s \in Space!FreedAll(space, runs) : \E r \in Space!RedSeaAllocClus(s, new.size) :
         new.start = r.first /\ space' = r.space
    /\ HeldNow' = (HeldNow \ runs) \cup {new}

LEMMA StartKeeps ==
  ASSUME OwnDirs, IInv, NEW t \in Task, Start(t) PROVE IInv' /\ Stays
<1>1. Good(disk, root_clus, call, orphans, space) /\ up \in BOOLEAN
  BY Zenon DEF IInv
<1>2. PICK op \in Ops[t] : /\ Name2DirClus(op.dir) # 0
                           /\ op.op = "mkdir" => \A n \in op.names : FoundDirs(n) = {}
                           /\ call' = [call EXCEPT ![t] = [Idle EXCEPT !.at = "del", !.op = op]]
  BY Zenon DEF Start
<1> DEFINE c2 == [Idle EXCEPT !.at = "del", !.op = op]
<1>3. c2.at = "del" /\ c2.op = op /\ c2.run = EmptyRun /\ c2 = [at |-> c2.at, op |-> c2.op, run |-> c2.run]
  <2> DEFINE a == [Idle EXCEPT !.at = "del"]
  <2>1. a = [at |-> "del", op |-> "none", run |-> EmptyRun]
    BY DEF Idle
  <2>2. c2 = [a EXCEPT !.op = op]
    OBVIOUS
  <2> HIDE DEF a, c2
  <2>3. c2 = [at |-> "del", op |-> op, run |-> EmptyRun]
    BY <2>1, <2>2
  <2> HIDE DEF c2
  <2> QED BY <2>3
<1>4. call[t].at = "idle" /\ UNCHANGED <<space, disk, root_clus, orphans, up>>
  BY DEF Start, At
<1> HIDE DEF c2
<1>5. CallOk(c2)
  BY <1>3, EmptyIs DEF CallOk, Working
<1>6. \E h \in Homes(disk, root_clus) : h.dir = op.dir
  BY Zenon, <1>1, <1>2, HomeOfDir
<1>7. ASSUME op.op = "mkdir", NEW e \in disk[root_clus].ents, e.name \in op.names PROVE FALSE
  <2>1. e.name \in Made(t)
    BY <1>2, <1>7 DEF Made
  <2>2. e.name \in DirNames
    BY <2>1 DEF DirNames
  <2>3. e.dir
    BY Zenon, <1>1, <2>2, RootEntry
  <2>4. e \in FoundDirs(e.name)
    BY <2>3 DEF FoundDirs, Found
  <2> QED BY <1>2, <1>7, <2>4
<1>8. StepOk(disk, root_clus, c2, t)
  BY <1>3, <1>6, <1>7 DEF StepOk, Working
<1>9. NextCall(disk, root_clus, call, t, c2)
  BY <1>3, <1>4, <1>5, <1>8 DEF NextCall
<1>10. /\ Good(disk, root_clus, [call EXCEPT ![t] = c2], orphans, space)
       /\ SameHeld(disk, root_clus, call, orphans, disk, [call EXCEPT ![t] = c2], orphans)
  BY <1>1, <1>3, <1>4, <1>9, StayKeeps
<1>11. Stays
  BY <1>2, <1>4, <1>10 DEF Stays, HeldNow, SameHeld, c2
<1> QED BY <1>1, <1>2, <1>4, <1>10, <1>11 DEF IInv, c2

DeletedBy(t, c) ==
  {e \in disk[c].ents : e.name \in The(t).names /\ (e.dir => The(t).op = "del" /\ The(t).del_dir)}

LEMMA DelRemoves ==
  ASSUME OwnDirs, IInv, NEW t \in Task, RedSeaFilesDel(t), NEW h, WorksIn(t, h)
  PROVE  \E nr : Removal(disk, root_clus, call, h, DeletedBy(t, h.run.start), nr, disk')
<1> DEFINE d == RecOf(disk, h)
           del == DeletedBy(t, h.run.start)
           nr == [d EXCEPT !.ents = @ \ del, !.deleted = @ + Cardinality(del)]
<1>1. Good(disk, root_clus, call, orphans, space)
  BY Zenon DEF IInv
<1>2. /\ h \in Homes(disk, root_clus) /\ h.dir = The(t).dir /\ Name2DirClus(The(t).dir) = h.run.start
      /\ d = disk[h.run.start] /\ d.blks > 0
  BY DEF WorksIn
<1>3. RecOk(h.dir, h.run.size, d) /\ h.run.start \in Clus
  BY Zenon, <1>1, <1>2, HomeIs
<1>4. disk \in DiskType
  BY Zenon, <1>1 DEF Good
<1>5. /\ d \in DirType /\ IsFiniteSet(d.ents) /\ Used(d) < d.blks * Slots
      /\ del \subseteq d.ents
  BY <1>2, <1>3 DEF RecOk, DeletedBy
<1>6. /\ Cardinality(del) \in Nat /\ Cardinality(d.ents) \in Nat /\ d.deleted \in Nat
      /\ Cardinality(d.ents \ del) = Cardinality(d.ents) - Cardinality(del)
  <2>1. d.ents \cap del = del /\ IsFiniteSet(del)
    BY <1>5, FS_Subset
  <2>2. Cardinality(d.ents \ del) = Cardinality(d.ents) - Cardinality(d.ents \cap del)
    BY Zenon, <1>5, FS_Difference
  <2>3. d.deleted \in Nat
    BY <1>5 DEF DirType
  <2>4. Cardinality(del) \in Nat /\ Cardinality(d.ents) \in Nat
    BY <1>5, <2>1, FS_CardinalityType
  <2> QED BY <2>1, <2>2, <2>3, <2>4
<1>7. disk' = [disk EXCEPT ![h.run.start] = nr]
  <2>1. disk' = [disk EXCEPT ![h.run.start].ents = @ \ del, ![h.run.start].deleted = @ + Cardinality(del)]
    BY <1>2 DEF RedSeaFilesDel, DeletedBy
  <2> HIDE DEF del
  <2> QED BY <1>2, <1>3, <1>4, <2>1 DEF DiskType
<1> HIDE DEF del, d
<1>8. nr \in DirType /\ nr.ents = d.ents \ del /\ nr.blks = d.blks /\ nr.deleted = d.deleted + Cardinality(del)
  <2>1. d = [type |-> "dir", blks |-> d.blks, deleted |-> d.deleted, ents |-> d.ents] /\ d.blks \in Nat
        /\ d.ents \subseteq EntryType
    BY <1>5 DEF DirType
  <2> DEFINE m == [d EXCEPT !.ents = @ \ del]
  <2>a. m = [type |-> "dir", blks |-> d.blks, deleted |-> d.deleted, ents |-> d.ents \ del]
    BY <2>1
  <2>b. nr = [m EXCEPT !.deleted = d.deleted + Cardinality(del)]
    OBVIOUS
  <2> HIDE DEF m, nr
  <2>2. nr = [type |-> "dir", blks |-> d.blks, deleted |-> d.deleted + Cardinality(del), ents |-> d.ents \ del]
    BY <2>a, <2>b
  <2>3. nr.ents = d.ents \ del /\ nr.blks = d.blks /\ nr.deleted = d.deleted + Cardinality(del)
    BY Zenon, <2>2
  <2>4. d.deleted + Cardinality(del) \in Nat /\ d.ents \ del \subseteq EntryType
    BY <1>6, <2>1
  <2>5. nr \in DirType
    BY <2>1, <2>2, <2>4 DEF DirType
  <2> QED BY <2>3, <2>5
<1> HIDE DEF nr
<1>9. Used(nr) = Used(d)
  BY <1>6, <1>8 DEF Used, Slot0
<1>10. call[t].at = "del"
  BY DEF RedSeaFilesDel, At
<1>11. ASSUME NEW e \in del, e.dir
       PROVE  /\ e.name # FirstDir
              /\ \A u \in Task : Working(call[u]) => call[u].op.dir # e.name
              /\ \A u \in Task : call[u].at = "fill" => NameOf(call[u].op) # e.name
  <2>0. StepOk(disk, root_clus, call[t], t)
    BY Zenon, <1>1 DEF Good
  <2>1. The(t) \in Ops[t] /\ e.name \in The(t).names /\ The(t).op = "del" /\ The(t).del_dir
    BY <1>10, <1>11, <2>0 DEF The, StepOk, Working, del, DeletedBy
  <2>2. e \in RecOf(disk, h).ents
    BY <1>5 DEF d
  <2>3. h.dir = NULL /\ e.name \in DirNames /\ e \in disk[root_clus].ents
    BY Zenon, <1>1, <1>2, <1>11, <2>2, DirEntryIs
  <2>4. The(t).names \cap DirNames \subseteq Made(t)
    BY <1>2, <2>1, <2>3 DEF OwnDirs
  <2>5. e.name \in Made(t)
    BY <2>1, <2>3, <2>4
  <2>6. e.name # FirstDir
    BY <2>5, FirstNotMade
  <2>7. ASSUME NEW u \in Task, Working(call[u]) PROVE call[u].op.dir # e.name
    <3>1. CASE u = t
      <4>1. e.name # NULL
        BY Zenon, <1>1, <2>3, RootEntry
      <4> QED BY <1>2, <2>3, <3>1, <4>1 DEF The
    <3>2. CASE u # t
      <4>1. StepOk(disk, root_clus, call[u], u)
        BY Zenon, <1>1 DEF Good
      <4>2. call[u].op \in Ops[u]
        BY <2>7, <4>1 DEF StepOk
      <4>3. call[u].op.dir \in DirNames => call[u].op.dir \in Made(u) \cup {FirstDir}
        BY <4>2 DEF OwnDirs
      <4>4. e.name \notin Made(u)
        BY <2>5, <3>2, MadeApart
      <4> QED BY <2>3, <2>6, <4>3, <4>4
    <3> QED BY <3>1, <3>2
  <2>8. ASSUME NEW u \in Task, call[u].at = "fill" PROVE NameOf(call[u].op) # e.name
    <3>1. u # t
      BY <1>10, <2>8
    <3>2. MakesDir(disk, root_clus, call, u)
      BY <1>1, <2>8, WriterIs
    <3>3. call[u].op \in Ops[u] /\ call[u].op.op # "del"
      BY Zenon, <3>2 DEF MakesDir
    <3>4. call[u].op.op = "mkdir"
      BY <1>1, <2>8 DEF Good, StepOk
    <3>5. NameOf(call[u].op) \in Made(u)
      BY Zenon, <3>3, <3>4, NameIs
    <3> QED BY <2>5, <3>1, <3>5, MadeApart
  <2> QED BY <2>6, <2>7, <2>8
<1>12. Removal(disk, root_clus, call, h, del, nr, disk')
  BY <1>2, <1>5, <1>7, <1>8, <1>9, <1>11 DEF Removal, d
<1> QED BY <1>12 DEF del

LEMMA LostRuns ==
  ASSUME NEW cl, NEW or, NEW sp, Good(disk, root_clus, cl, or, sp),
         NEW h \in Homes(disk, root_clus), NEW del \in SUBSET RecOf(disk, h).ents
  PROVE  UNION {RunsIn(e.run.start) : e \in {x \in del : x.dir}} = Lost(disk, root_clus, del)
<1> DEFINE R == UNION {RunsIn(e.run.start) : e \in {x \in del : x.dir}}
<1>2. ASSUME NEW e \in del, e.dir
      PROVE  /\ Home(e.name, e.run) \in Gone(disk, root_clus, del)
             /\ RecOf(disk, Home(e.name, e.run)) = disk[e.run.start]
  <2>1. e \in RecOf(disk, h).ents
    OBVIOUS
  <2>2. Home(e.name, e.run) \in Homes(disk, root_clus)
    BY Zenon, <1>2, <2>1, DirEntryIs
  <2>3. Home(e.name, e.run).dir = e.name /\ Home(e.name, e.run).run = e.run
    BY Zenon, HomeFields
  <2> QED BY <1>2, <2>2, <2>3 DEF Gone, RecOf
<1>3. ASSUME NEW r \in R PROVE r \in Lost(disk, root_clus, del)
  <2>1. PICK e \in del : e.dir /\ r \in RunsIn(e.run.start)
    OBVIOUS
  <2>2. PICK f \in disk[e.run.start].ents : f.run.size > 0 /\ r = f.run
    BY <2>1 DEF RunsIn
  <2>3. Home(e.name, e.run) \in Gone(disk, root_clus, del) /\ f \in RecOf(disk, Home(e.name, e.run)).ents
    BY <1>2, <2>1, <2>2
  <2>4. Home(e.name, e.run) \in Homes(disk, root_clus)
    BY <2>3 DEF Gone
  <2>5. f.run \in Run
    BY Zenon, <2>3, <2>4, EntryIs
  <2> QED BY Zenon, <2>2, <2>3, <2>5 DEF Lost
<1>4. ASSUME NEW r \in Lost(disk, root_clus, del) PROVE r \in R
  <2>1. r.size > 0 /\ \E g \in Gone(disk, root_clus, del) : \E f \in RecOf(disk, g).ents : r = f.run
    BY Zenon DEF Lost
  <2>2. PICK g \in Gone(disk, root_clus, del) : \E f \in RecOf(disk, g).ents : r = f.run
    BY Zenon, <2>1
  <2>3. PICK e \in del : e.dir /\ g.dir = e.name
    BY DEF Gone
  <2>4. g \in Homes(disk, root_clus)
    BY DEF Gone
  <2>5. Home(e.name, e.run) \in Homes(disk, root_clus)
    BY <1>2, <2>3 DEF Gone
  <2>6. Home(e.name, e.run).dir = e.name
    BY Zenon, HomeFields
  <2>7. g = Home(e.name, e.run)
    BY Zenon, <2>3, <2>4, <2>5, <2>6, HomesDiffer
  <2>8. RecOf(disk, g) = disk[e.run.start]
    BY <1>2, <2>3, <2>7
  <2>9. r \in RunsIn(e.run.start)
    BY <2>1, <2>2, <2>8 DEF RunsIn
  <2> QED BY <2>3, <2>9
<1> HIDE DEF R
<1>5. R = Lost(disk, root_clus, del)
  BY <1>3, <1>4
<1> QED BY <1>5 DEF R

AtNext(c, at) == [at |-> at, op |-> c.op, run |-> c.run]

SetsAt(cl, t, at, cl2) == cl2 = [cl EXCEPT ![t].at = at]
GoesOn(cl, t, at, cl2) == cl2 = [cl EXCEPT ![t] = AtNext(cl[t], at)]

LEMMA GoesTo ==
  ASSUME NEW dk, NEW rc, NEW cl, NEW or, NEW sp, Good(dk, rc, cl, or, sp), NEW t \in Task, NEW at,
         NEW cl2, SetsAt(cl, t, at, cl2)
  PROVE  GoesOn(cl, t, at, cl2)
<1>1. cl[t] = [at |-> cl[t].at, op |-> cl[t].op, run |-> cl[t].run] /\ t \in DOMAIN cl
  BY DEF Good, CallOk
<1>2. [cl[t] EXCEPT !.at = at] = AtNext(cl[t], at)
  BY <1>1 DEF AtNext
<1> QED BY <1>2 DEF SetsAt, GoesOn

LEMMA DelKeeps ==
  ASSUME OwnDirs, IInv, NEW t \in Task, RedSeaFilesDel(t) PROVE IInv' /\ GivesBack
<1>1. Good(disk, root_clus, call, orphans, space) /\ up \in BOOLEAN
  BY Zenon DEF IInv
<1>2. call[t].at = "del" /\ Working(call[t]) /\ call[t].at # "fill" /\ UNCHANGED <<root_clus, up>>
  BY DEF RedSeaFilesDel, At, Working
<1>3. PICK h : WorksIn(t, h)
  BY Zenon, <1>2, WorkerIs
<1> DEFINE c == h.run.start
           del == DeletedBy(t, c)
<1>4. h \in Homes(disk, root_clus) /\ Name2DirClus(The(t).dir) = c /\ RecOf(disk, h) = disk[c]
  BY Zenon, <1>3 DEF WorksIn
<1>5. /\ space' \in Space!FreedAll(space, {e.run : e \in del})
      /\ orphans' = orphans \cup UNION {RunsIn(e.run.start) : e \in {x \in del : x.dir}}
  BY Zenon, <1>4 DEF RedSeaFilesDel, DeletedBy, FreedAll
<1>6. del \in SUBSET RecOf(disk, h).ents
  BY <1>4 DEF DeletedBy
<1>7. PICK nr : Removal(disk, root_clus, call, h, del, nr, disk')
  BY Zenon, <1>3, DelRemoves
<1>8. call' = [call EXCEPT ![t] = Idle] \/ (The(t).op # "del" /\ call' = [call EXCEPT ![t].at = "alloc"])
  BY Zenon DEF RedSeaFilesDel, Done, GoTo
<1> HIDE DEF c, del
<1>9. orphans' = orphans \cup Lost(disk, root_clus, del)
  BY Zenon, <1>1, <1>4, <1>5, <1>6, LostRuns
<1>10. Good(disk', root_clus, call, orphans \cup Lost(disk, root_clus, del), space')
  BY Zenon, <1>1, <1>5, <1>7, RemoveKeeps
<1>11. Good(disk', root_clus, call, orphans', space')
  BY Zenon, <1>9, <1>10
<1>12. ASSUME call' = [call EXCEPT ![t] = Idle]
       PROVE  IInv' /\ HeldNow' = HeldBy(disk', root_clus, call, orphans')
  <2>1. CallOk(Idle) /\ StepOk(disk', root_clus, Idle, t) /\ Idle.at = "idle"
    BY Zenon, IdleIs
  <2>2. NextCall(disk', root_clus, call, t, Idle)
    BY <1>2, <2>1 DEF NextCall
  <2>3. /\ Good(disk', root_clus, [call EXCEPT ![t] = Idle], orphans', space')
        /\ SameHeld(disk', root_clus, call, orphans', disk', [call EXCEPT ![t] = Idle], orphans')
    BY <1>2, <1>11, <2>1, <2>2, StayKeeps
  <2> QED BY <1>1, <1>2, <1>12, <2>3 DEF IInv, SameHeld, HeldNow
<1>13. ASSUME The(t).op # "del" /\ call' = [call EXCEPT ![t].at = "alloc"]
       PROVE  IInv' /\ HeldNow' = HeldBy(disk', root_clus, call, orphans')
  <2> DEFINE c2 == AtNext(call[t], "alloc")
  <2>1. c2.at = "alloc" /\ c2.op = call[t].op /\ c2.run = call[t].run /\ c2 = [at |-> c2.at, op |-> c2.op, run |-> c2.run]
    BY DEF AtNext
  <2>2. call' = [call EXCEPT ![t] = c2]
    <3>1. SetsAt(call, t, "alloc", call')
      BY <1>13 DEF SetsAt
    <3>2. GoesOn(call, t, "alloc", call')
      BY Zenon, <1>11, <3>1, GoesTo
    <3> QED BY <3>2 DEF GoesOn
  <2> HIDE DEF c2
  <2>3. CallOk(call[t]) /\ StepOk(disk', root_clus, call[t], t)
    BY Zenon, <1>11 DEF Good
  <2>4. CallOk(c2)
    BY <1>2, <2>1, <2>3 DEF CallOk, Working
  <2>5. StepOk(disk', root_clus, c2, t)
    BY <1>2, <1>13, <2>1, <2>3 DEF StepOk, Working, The
  <2>6. NextCall(disk', root_clus, call, t, c2)
    BY <1>2, <2>1, <2>4, <2>5 DEF NextCall
  <2>7. /\ Good(disk', root_clus, [call EXCEPT ![t] = c2], orphans', space')
        /\ SameHeld(disk', root_clus, call, orphans', disk', [call EXCEPT ![t] = c2], orphans')
    BY <1>2, <1>11, <2>1, <2>6, StayKeeps
  <2> QED BY <1>1, <1>2, <2>2, <2>7 DEF IInv, SameHeld, HeldNow
<1>14. IInv' /\ HeldNow' = HeldBy(disk', root_clus, call, orphans')
  BY <1>8, <1>12, <1>13
<1>15. LessBy(disk, root_clus, call, orphans, del, disk', orphans \cup Lost(disk, root_clus, del))
  BY Zenon, <1>1, <1>7, RemoveLess
<1> DEFINE runs == RunsOfAll(del)
<1>16. HeldNow' = HeldNow \ runs
  BY <1>9, <1>14, <1>15 DEF LessBy, HeldNow
<1>17. runs \in SUBSET (HeldNow \cup {EmptyRun})
  <2>1. ASSUME NEW e \in del PROVE e.run \in HeldNow \/ e.run = EmptyRun
    <3>1. e \in RecOf(disk, h).ents
      BY <1>6
    <3> QED BY <1>1, <1>4, <3>1, EntryHeld DEF HeldNow
  <2> QED BY <2>1 DEF RunsOfAll
<1>18. GivesBack
  BY <1>5, <1>16, <1>17 DEF GivesBack, RunsOfAll
<1> QED BY <1>14, <1>18

Takes(t, run) ==
  /\ call' = [call EXCEPT ![t] = [at |-> "write", op |-> call[t].op, run |-> run]]
  /\ run \in Run /\ run.size = call[t].op.blks /\ Of(run) \subseteq Clus \ space.used
  /\ run.size = 0 => run = EmptyRun
  /\ space' \in SpaceType /\ ListIsClear(space') /\ space'.used = space.used \cup Of(run)

TakesOf(run) ==
  IF run.size = 0 THEN space' = space
  ELSE \E r \in Space!RedSeaAllocClus(space, run.size) : run.start = r.first /\ space' = r.space

LEMMA SameMembers ==
  ASSUME NEW A, NEW B, \A r : r \in A <=> r \in B PROVE A = B
  OBVIOUS

LEMMA TakenIs ==
  ASSUME NEW run \in Run \ HeldNow, run.size > 0,
         NEW runs \in SUBSET HeldNow, NEW s \in Space!FreedAll(space, runs),
         \E r \in Space!RedSeaAllocClus(s, run.size) : run.start = r.first /\ space' = r.space,
         HeldNow' = (HeldNow \ runs) \cup {run}
  PROVE  TakesRun
  BY DEF TakesRun

\* A run that has just been allocated is new to those that are held.
LEMMA FreshRun ==
  ASSUME IInv, NEW run \in Run, run.size > 0, Of(run) \subseteq Clus \ space.used PROVE run \notin HeldNow
<1>1. SUFFICES ASSUME run \in HeldNow PROVE FALSE
  OBVIOUS
<1>2. PICK x \in Claims(disk, root_clus, call, orphans) : x.run = run
  BY <1>1, InHeldOf DEF HeldNow, HeldBy
<1>3. Good(disk, root_clus, call, orphans, space) /\ SpaceOk(Claims(disk, root_clus, call, orphans), space)
  BY Zenon DEF IInv, Good
<1>4. run.start \in Of(run)
  BY RunIs
<1>5. run.start \in space.used
  BY Zenon, <1>2, <1>3, <1>4, ClaimedAre
<1> QED BY <1>4, <1>5

LEMMA AllocKeeps ==
  ASSUME OwnDirs, IInv, NEW t \in Task, ClusAlloc(t) PROVE IInv' /\ (Stays \/ TakesRun)
<1>1. Good(disk, root_clus, call, orphans, space) /\ up \in BOOLEAN
  BY Zenon DEF IInv
<1>2. call[t].at = "alloc" /\ UNCHANGED <<disk, root_clus, orphans, up>>
  BY DEF ClusAlloc, At
<1>3. CallOk(call[t]) /\ StepOk(disk, root_clus, call[t], t)
  BY Zenon, <1>1 DEF Good
<1>4. /\ call[t].run = EmptyRun /\ call[t].op \in Ops[t]
      /\ call[t] = [at |-> call[t].at, op |-> call[t].op, run |-> call[t].run]
  BY <1>2, <1>3 DEF CallOk, StepOk, Working
<1>5. call[t].op.blks \in Nat
  BY <1>4 DEF OwnDirs
<1>6. space \in SpaceType /\ ListIsClear(space)
  BY Zenon, <1>1 DEF Good, SpaceOk
<1>7. ASSUME call[t].op.blks = 0 PROVE \E run : Takes(t, run) /\ TakesOf(run)
  <2>1. call' = [call EXCEPT ![t].at = "write"] /\ space' = space
    BY <1>7 DEF ClusAlloc, The, GoTo
  <2>2. call' = [call EXCEPT ![t] = AtNext(call[t], "write")]
    <3>1. SetsAt(call, t, "write", call')
      BY <2>1 DEF SetsAt
    <3>2. GoesOn(call, t, "write", call')
      BY Zenon, <1>1, <3>1, GoesTo
    <3> QED BY <3>2 DEF GoesOn
  <2>3. Takes(t, EmptyRun)
    BY <1>4, <1>6, <1>7, <2>1, <2>2, EmptyIs DEF AtNext, Takes
  <2>4. TakesOf(EmptyRun)
    BY <2>1, EmptyIs DEF TakesOf
  <2> QED BY <2>3, <2>4
<1>8. ASSUME call[t].op.blks # 0 PROVE \E run : Takes(t, run) /\ TakesOf(run)
  <2>1. PICK r \in Space!RedSeaAllocClus(space, call[t].op.blks) :
          /\ space' = r.space
          /\ call' = [call EXCEPT ![t].at = "write", ![t].run = [start |-> r.first, size |-> call[t].op.blks]]
    BY <1>8 DEF ClusAlloc, The
  <2> DEFINE run == [start |-> r.first, size |-> call[t].op.blks]
  <2>2. /\ run \in Run /\ Of(run) \subseteq Clus \ space.used
        /\ r.space \in SpaceType /\ ListIsClear(r.space) /\ r.space.used = space.used \cup Of(run)
    <3>1. call[t].op.blks \in Nat \ {0}
      BY <1>5, <1>8
    <3> QED BY <1>6, <3>1, Alloc_
  <2>3. run.size = call[t].op.blks /\ run.start = r.first
    OBVIOUS
  <2>4. call' = [call EXCEPT ![t].at = "write", ![t].run = run]
    BY <2>1
  <2> HIDE DEF run
  <2>5. call' = [call EXCEPT ![t] = [at |-> "write", op |-> call[t].op, run |-> run]]
    <3> DEFINE a == [call EXCEPT ![t] = AtNext(call[t], "write")]
    <3>1. [call EXCEPT ![t].at = "write"] = a
      <4> DEFINE b == [call EXCEPT ![t].at = "write"]
      <4>1. SetsAt(call, t, "write", b)
        BY DEF SetsAt
      <4> HIDE DEF b
      <4>2. GoesOn(call, t, "write", b)
        BY Zenon, <1>1, <4>1, GoesTo
      <4> QED BY <4>2 DEF GoesOn, b
    <3>2. DOMAIN call = Task /\ t \in DOMAIN call
      BY Zenon, <1>1 DEF Good
    <3>3. a[t] = [at |-> "write", op |-> call[t].op, run |-> call[t].run]
      BY <3>2 DEF AtNext
    <3>4. call' = [a EXCEPT ![t].run = run]
      BY <2>4, <3>1
    <3>5. [a[t] EXCEPT !.run = run] = [at |-> "write", op |-> call[t].op, run |-> run]
      BY <3>3
    <3>6. call' = [a EXCEPT ![t] = [at |-> "write", op |-> call[t].op, run |-> run]]
      BY <3>2, <3>4, <3>5
    <3> QED BY <3>2, <3>6
  <2>6. Takes(t, run)
    BY <1>8, <2>1, <2>2, <2>3, <2>5 DEF Takes
  <2>7. TakesOf(run)
    BY <1>8, <2>1, <2>3 DEF TakesOf
  <2> QED BY <2>6, <2>7
<1>9. PICK run : Takes(t, run) /\ TakesOf(run)
  BY <1>7, <1>8
<1> DEFINE c2 == [at |-> "write", op |-> call[t].op, run |-> run]
<1>10. c2.at = "write" /\ c2.op = call[t].op /\ c2.run = run /\ c2 = [at |-> c2.at, op |-> c2.op, run |-> c2.run]
  OBVIOUS
<1>11. call' = [call EXCEPT ![t] = c2]
  BY <1>9 DEF Takes
<1> HIDE DEF c2
<1>12. CallOk(c2)
  BY <1>9, <1>10 DEF CallOk, Working, Takes
<1>13. StepOk(disk, root_clus, c2, t)
  BY <1>2, <1>3, <1>9, <1>10 DEF StepOk, Working, Takes
<1>14. NextCall(disk, root_clus, call, t, c2)
  BY <1>2, <1>12, <1>13 DEF NextCall
<1>15. Good(disk, root_clus, [call EXCEPT ![t] = c2], orphans, space')
  BY <1>1, <1>2, <1>9, <1>10, <1>14, TakeKeeps DEF Takes
<1>16. ASSUME NEW r PROVE r \in HeldNow' <=> r \in HeldNow \/ (r = run /\ r.size > 0)
  <2>1. r \in HeldBy(disk, root_clus, [call EXCEPT ![t] = c2], orphans) <=>
          r \in HeldBy(disk, root_clus, call, orphans) \/ (r = c2.run /\ r.size > 0)
    BY <1>1, <1>2, <1>10, TakeHeld
  <2> QED BY <1>2, <1>10, <1>11, <2>1 DEF HeldNow
<1>17. run \in Run /\ Of(run) \subseteq Clus \ space.used
  BY <1>9 DEF Takes
<1>18. ASSUME run.size = 0 PROVE Stays
  <2>1. space' = space
    BY <1>9, <1>18 DEF TakesOf
  <2>2. \A r : r \in HeldNow' <=> r \in HeldNow
    BY <1>16, <1>18
  <2>3. HeldNow' = HeldNow
    BY Zenon, <2>2, SameMembers
  <2> QED BY <2>1, <2>3 DEF Stays
<1>19. ASSUME run.size > 0 PROVE TakesRun
  <2>1. {} \in SUBSET HeldNow /\ space \in Space!FreedAll(space, {})
    BY FreedFew_
  <2>2. \E r \in Space!RedSeaAllocClus(space, run.size) : run.start = r.first /\ space' = r.space
    BY <1>9, <1>19 DEF TakesOf
  <2>3. HeldNow' = (HeldNow \ {}) \cup {run}
    <3>1. \A r : r \in HeldNow' <=> r \in (HeldNow \ {}) \cup {run}
      BY <1>16, <1>19
    <3> QED BY Zenon, <3>1, SameMembers
  <2>4. run \in Run \ HeldNow
    BY <1>17, <1>19, FreshRun
  <2> QED BY <1>19, <2>1, <2>2, <2>3, <2>4, TakenIs
<1>20. run.size = 0 \/ run.size > 0
  BY <1>17, RunIs
<1> QED BY <1>1, <1>2, <1>11, <1>15, <1>18, <1>19, <1>20 DEF IInv

LEMMA WriteIs ==
  ASSUME disk \in DiskType, NEW contents
  PROVE  /\ Write(contents) = [k \in Clus |-> Write(contents)[k]]
         /\ \A k \in Clus : Write(contents)[k] = IF k \in DOMAIN contents THEN contents[k] ELSE disk[k]
<1>1. DOMAIN disk = Clus
  BY DEF DiskType
<1> QED BY <1>1 DEF Write

\* Every cluster has something of the right type.
ClusType == [type : {"none"}] \cup [type : {"file"}, name : Name, by : Task] \cup DirType

LEMMA DiskIs ==
  ASSUME NEW dk, dk = [k \in Clus |-> dk[k]], \A k \in Clus : dk[k] \in ClusType
  PROVE  dk \in DiskType
<1>1. dk \in [Clus -> ClusType]
  BY Zenon
<1> QED BY Zenon, <1>1 DEF DiskType, ClusType

LEMMA ClusIs ==
  ASSUME NEW dk \in DiskType, NEW k \in Clus PROVE dk[k] \in ClusType
<1>1. dk \in [Clus -> ClusType]
  BY Zenon DEF DiskType, ClusType
<1> QED BY Zenon, <1>1

LEMMA DirIs ==
  ASSUME NEW blks \in Nat, NEW deleted \in Nat, NEW ents \in SUBSET EntryType
  PROVE  /\ Dir(blks, ents, deleted) \in DirType
         /\ Dir(blks, ents, deleted).blks = blks /\ Dir(blks, ents, deleted).ents = ents
         /\ Dir(blks, ents, deleted).deleted = deleted
  BY DEF Dir, DirType

\* A directory of one cluster or more.
LEMMA WriteDirIs ==
  ASSUME disk \in DiskType, NEW run \in Run, run.size > 0, NEW d \in DirType, d.blks = run.size
  PROVE  /\ WriteDir(run.start, d) \in DiskType
         /\ WriteDir(run.start, d)[run.start] = d \/ run.start \notin Clus
         /\ \A k \in Clus : k \notin Of(run) => WriteDir(run.start, d)[k] = disk[k]
<1> DEFINE c == run.start
           contents == [k \in c .. c + d.blks - 1 |-> IF k = c THEN d ELSE Empty]
           w == Write(contents)
<1>1. /\ w = [k \in Clus |-> w[k]]
      /\ \A k \in Clus : w[k] = IF k \in DOMAIN contents THEN contents[k] ELSE disk[k]
  BY Zenon, WriteIs
<1>2. DOMAIN contents = Of(run) /\ c \in Of(run)
  BY RunIs DEF Of
<1>3. \A k \in Of(run) : contents[k] = IF k = c THEN d ELSE Empty
  BY <1>2
<1>4. Empty \in ClusType /\ d \in ClusType
  BY DEF Empty, ClusType
<1> HIDE DEF contents
<1>5. \A k \in Clus : k \notin Of(run) => w[k] = disk[k]
  BY <1>1, <1>2
<1>6. c \in Clus => w[c] = d
  BY <1>1, <1>2, <1>3
<1>7. ASSUME NEW k \in Clus PROVE w[k] \in ClusType
  <2>1. disk[k] \in ClusType
    BY ClusIs
  <2>2. k \in Of(run) => w[k] = IF k = c THEN d ELSE Empty
    BY <1>1, <1>2, <1>3
  <2> QED BY <1>4, <1>5, <2>1, <2>2
<1>8. w \in DiskType
  <2> HIDE DEF w
  <2> QED BY Zenon, <1>1, <1>7, DiskIs
<1>9. w = WriteDir(c, d)
  BY DEF WriteDir, FillDir, contents
<1> QED BY <1>5, <1>6, <1>8, <1>9

LEMMA WriteStep ==
  ASSUME OwnDirs, IInv, NEW t \in Task, BlkWrite(t) PROVE IInv' /\ Stays
<1> DEFINE c == call[t]
           run == call[t].run
           c2 == AtNext(c, "enter")
<1>1. Good(disk, root_clus, call, orphans, space) /\ up \in BOOLEAN
  BY Zenon DEF IInv
<1>2. c.at = "write" /\ UNCHANGED <<space, root_clus, orphans, up>>
  BY DEF BlkWrite, At
<1>3. MakesDir(disk, root_clus, call, t)
  BY <1>1, <1>2, WriterIs
<1>4. /\ c.op \in Ops[t] /\ c.op.op # "del" /\ run \in Run
      /\ c.op.op = "mkdir" => run.start \in Of(run)
  BY Zenon, <1>3 DEF MakesDir
<1>5. /\ disk' = Write(IF c.op.op = "mkdir" THEN FillDir(run.start, run.size, Dir(0, {}, 0))
                       ELSE Fill(run.start, run.size, Data(NameOf(c.op), t)))
      /\ call' = [call EXCEPT ![t].at = "enter"]
  BY Zenon DEF BlkWrite, The, GoTo, Name2Write, NameOf
<1>7. disk \in DiskType /\ CallOk(c) /\ StepOk(disk, root_clus, c, t)
  BY Zenon, <1>1 DEF Good
<1>8. Of(run) \subseteq Clus
  <2>1. Of(run) \subseteq space.used
    BY Zenon, <1>1, <1>2, TaskIs
  <2>2. space.used \subseteq Clus
    BY <1>1 DEF Good, SpaceOk, SpaceType
  <2> QED BY <2>1, <2>2
<1>9. Dir(0, {}, 0) \in ClusType
  BY DirIs DEF ClusType
<1>10. Data(NameOf(c.op), t) \in ClusType
  <2>1. NameOf(c.op) \in Name
    BY <1>4, NameIs
  <2> QED BY <2>1 DEF Data, ClusType
<1> HIDE DEF c, run
<1>11. /\ disk' = [k \in Clus |-> disk'[k]] /\ \A k \in Clus : disk'[k] \in ClusType
       /\ \A k \in Clus : k \notin Of(run) => disk'[k] = disk[k]
       /\ IF c.op.op = "mkdir" THEN disk'[run.start] = Dir(0, {}, 0)
          ELSE \A k \in Of(run) : disk'[k] = Data(NameOf(c.op), t)
  <2>0. \A k \in Clus : disk[k] \in ClusType
    BY Zenon, <1>7, ClusIs
  <2>1. CASE c.op.op = "mkdir"
    <3> DEFINE contents == FillDir(run.start, run.size, Dir(0, {}, 0))
    <3>1. run.start \in Clus /\ run.start \in Of(run)
      BY <1>4, <1>8, <2>1
    <3>2. /\ DOMAIN contents = Of(run)
          /\ \A k \in Of(run) : contents[k] = IF k = run.start THEN Dir(0, {}, 0) ELSE Empty
      BY DEF FillDir, Of
    <3>3. disk' = Write(contents)
      BY <1>5, <2>1
    <3>4. Empty \in ClusType
      BY DEF Empty, ClusType
    <3> HIDE DEF contents
    <3>5. /\ disk' = [k \in Clus |-> disk'[k]]
          /\ \A k \in Clus : disk'[k] = IF k \in DOMAIN contents THEN contents[k] ELSE disk[k]
      BY Zenon, <1>7, <3>3, WriteIs
    <3>6. \A k \in Of(run) : disk'[k] = IF k = run.start THEN Dir(0, {}, 0) ELSE Empty
      BY <1>8, <3>2, <3>5
    <3>7. \A k \in Clus : k \notin Of(run) => disk'[k] = disk[k]
      BY <3>2, <3>5
    <3>8. ASSUME NEW k \in Clus PROVE disk'[k] \in ClusType
      BY <1>9, <2>0, <3>4, <3>6, <3>7
    <3> QED BY <2>1, <3>1, <3>5, <3>6, <3>7, <3>8
  <2>2. CASE c.op.op # "mkdir"
    <3> DEFINE contents == Fill(run.start, run.size, Data(NameOf(c.op), t))
    <3>1. DOMAIN contents = Of(run) /\ \A k \in Of(run) : contents[k] = Data(NameOf(c.op), t)
      BY DEF Fill, Of
    <3>2. disk' = Write(contents)
      BY <1>5, <2>2
    <3> HIDE DEF contents
    <3>3. /\ disk' = [k \in Clus |-> disk'[k]]
          /\ \A k \in Clus : disk'[k] = IF k \in DOMAIN contents THEN contents[k] ELSE disk[k]
      BY Zenon, <1>7, <3>2, WriteIs
    <3>4. \A k \in Of(run) : disk'[k] = Data(NameOf(c.op), t)
      BY <1>8, <3>1, <3>3
    <3>5. \A k \in Clus : k \notin Of(run) => disk'[k] = disk[k]
      BY <3>1, <3>3
    <3>6. ASSUME NEW k \in Clus PROVE disk'[k] \in ClusType
      BY <1>10, <2>0, <3>4, <3>5
    <3> QED BY <2>2, <3>3, <3>4, <3>5, <3>6
  <2> QED BY <2>1, <2>2
<1>12. disk' \in DiskType
  BY Zenon, <1>11, DiskIs
<1>13. OutOf(disk, call, t, disk')
  BY <1>11, <1>12 DEF OutOf, run
<1>14. Good(disk', root_clus, call, orphans, space) /\ SameHeld(disk, root_clus, call, orphans, disk', call, orphans)
  BY Zenon, <1>1, <1>2, <1>13, WriteKeeps DEF c
<1>15. /\ c2.at = "enter" /\ c2.op = c.op /\ c2.run = run
       /\ c2 = [at |-> c2.at, op |-> c2.op, run |-> c2.run]
  BY DEF AtNext, c, run
<1>16. call' = [call EXCEPT ![t] = c2]
  <2>1. SetsAt(call, t, "enter", call')
    BY <1>5 DEF SetsAt
  <2>2. GoesOn(call, t, "enter", call')
    BY Zenon, <1>1, <2>1, GoesTo
  <2> QED BY <2>2 DEF GoesOn, c
<1> HIDE DEF c2
<1>17. CallOk(c2)
  BY <1>2, <1>7, <1>15 DEF CallOk, Working, c, run
<1>18. StepOk(disk', root_clus, c2, t)
  <2>1. StepOk(disk', root_clus, c, t)
    BY Zenon, <1>14 DEF Good, c
  <2>2. Written(disk', c2, t)
    BY <1>11, <1>15 DEF Written
  <2>3. Working(c) /\ Working(c2)
    BY <1>2, <1>15 DEF Working
  <2>4. c2.run.size = c2.op.blks
    BY <1>2, <1>15, <2>1 DEF StepOk, run, c
  <2> QED BY <1>2, <1>4, <1>15, <2>1, <2>2, <2>3, <2>4 DEF StepOk
<1>19. NextCall(disk', root_clus, call, t, c2)
  BY <1>2, <1>15, <1>17, <1>18 DEF NextCall, c
<1>20. /\ Good(disk', root_clus, [call EXCEPT ![t] = c2], orphans, space)
       /\ SameHeld(disk', root_clus, call, orphans, disk', [call EXCEPT ![t] = c2], orphans)
  BY <1>2, <1>14, <1>15, <1>19, StayKeeps DEF c, run
<1>21. HeldNow' = HeldNow
  BY <1>2, <1>14, <1>16, <1>20 DEF SameHeld, HeldNow
<1> QED BY <1>1, <1>2, <1>16, <1>20, <1>21 DEF IInv, Stays

LEMMA MkDirEndKeeps ==
  ASSUME OwnDirs, IInv, NEW t \in Task, MkDirEnd(t) PROVE IInv' /\ Stays
<1> DEFINE run == call[t].run
           nr == Dir(run.size, {}, 0)
           h == NewHome(call[t])
<1>1. Good(disk, root_clus, call, orphans, space) /\ up \in BOOLEAN /\ disk \in DiskType
  BY Zenon DEF IInv, Good
<1>2. call[t].at = "fill" /\ UNCHANGED <<space, root_clus, orphans, up>> /\ call' = [call EXCEPT ![t] = Idle]
  BY DEF MkDirEnd, At, Done
<1>3. disk' = [disk EXCEPT ![run.start] = nr]
  BY DEF MkDirEnd
<1>4. MakesDir(disk, root_clus, call, t) /\ Fills(disk, root_clus, call, t)
  BY <1>1, <1>2, WriterIs, FillIs
<1>5. /\ run \in Run /\ run.size > 0
      /\ h \in Homes(disk, root_clus) /\ h.dir = NameOf(call[t].op) /\ h.run = run
  <2>1. call[t].op.op = "mkdir" /\ h \in Homes(disk, root_clus) /\ h.dir = NameOf(call[t].op) /\ h.run = run
    BY Zenon, <1>4 DEF Fills
  <2>2. run \in Run /\ (call[t].op.op = "mkdir" => run.size > 0)
    BY Zenon, <1>4 DEF MakesDir
  <2> QED BY <2>1, <2>2
<1>6. run.size \in Nat
  BY <1>5, RunIs
<1>7. nr \in DirType /\ nr.blks = run.size /\ nr.ents = {} /\ nr.deleted = 0
  BY <1>6, DirIs
<1>8. h.run.start \in Clus
  BY Zenon, <1>1, <1>5, HomeIs
<1> HIDE DEF nr, h, run
<1>9. /\ disk' \in DiskType /\ disk'[run.start] = nr
      /\ \A k \in Clus : k \notin Of(run) => disk'[k] = disk[k]
  <2>1. run.start \in Clus /\ run.start \in Of(run)
    BY <1>5, <1>6, <1>8, RunIs DEF Of
  <2>2. /\ disk' = [k \in Clus |-> disk'[k]]
        /\ \A k \in Clus : disk'[k] = IF k = run.start THEN nr ELSE disk[k]
    BY <1>1, <1>3 DEF DiskType
  <2>3. ASSUME NEW k \in Clus PROVE disk'[k] \in ClusType
    <3>1. nr \in ClusType /\ disk[k] \in ClusType
      BY <1>1, <1>7, ClusIs DEF ClusType
    <3> QED BY <2>2, <3>1
  <2>4. disk' \in DiskType
    BY Zenon, <2>2, <2>3, DiskIs
  <2> QED BY <2>1, <2>2, <2>4
<1>10. RecOk(h.dir, h.run.size, nr)
  <2>1. IsFiniteSet({}) /\ Cardinality({}) = 0
    BY FS_EmptySet
  <2>2. Used(nr) = 2
    BY <1>7, <2>1 DEF Used, Slot0
  <2>3. 2 < run.size * Slots
    <3>1. run.size >= 1 /\ Slots > 3 /\ Slots \in Nat
      BY <1>5, <1>6, RedSeaAssumption
    <3> QED BY <1>6, <3>1
  <2> QED BY <1>5, <1>7, <2>1, <2>2, <2>3 DEF RecOk
<1>11. Filling(disk, root_clus, call, t, disk')
  BY <1>5, <1>7, <1>9, <1>10 DEF Filling, IsUpdate, nr, h, run
<1>12. /\ Good(disk', root_clus, [call EXCEPT ![t] = Idle], orphans, space)
       /\ SameHeld(disk, root_clus, call, orphans, disk', [call EXCEPT ![t] = Idle], orphans)
  BY Zenon, <1>1, <1>2, <1>11, FillKeeps
<1>13. HeldNow' = HeldNow
  BY <1>2, <1>12 DEF SameHeld, HeldNow
<1> QED BY <1>1, <1>2, <1>12, <1>13 DEF IInv, Stays

LEMMA KillKeeps ==
  ASSUME OwnDirs, IInv, NEW t \in Task, Kill(t) PROVE IInv' /\ Stays
<1> DEFINE r == call[t].run
           more == {run \in {r} : run.size > 0}
<1>1. Good(disk, root_clus, call, orphans, space) /\ up \in BOOLEAN
  BY Zenon DEF IInv
<1>2. /\ call[t].at # "dead" /\ UNCHANGED <<space, disk, root_clus, up>>
      /\ call' = [call EXCEPT ![t] = Dead]
      /\ orphans' = orphans \cup IF r \in InFlight THEN {r} ELSE {}
  BY DEF Kill
<1>3. Dead.at = "dead" /\ CallOk(Dead) /\ StepOk(disk, root_clus, Dead, t)
  <2>1. Dead = [at |-> "dead", op |-> "none", run |-> EmptyRun]
    BY DEF Dead, Idle
  <2> HIDE DEF Dead
  <2>2. CallOk(Dead)
    BY <2>1, EmptyIs DEF CallOk
  <2> QED BY <2>1, <2>2 DEF StepOk, Working
<1>4. NextCall(disk, root_clus, call, t, Dead)
  BY <1>2, <1>3 DEF NextCall
<1>5. CASE call[t].at \in {"write", "enter"}
  <2>1. r \in InFlight <=> r.size > 0
    BY <1>5 DEF InFlight
  <2>2. orphans' = orphans \cup more
    BY <1>2, <2>1
  <2>3. /\ Good(disk, root_clus, [call EXCEPT ![t] = Dead], orphans \cup more, space)
        /\ SameHeld(disk, root_clus, call, orphans, disk, [call EXCEPT ![t] = Dead], orphans \cup more)
    BY <1>1, <1>3, <1>4, <1>5, DropKeeps
  <2>4. HeldNow' = HeldNow
    BY <1>2, <2>2, <2>3 DEF SameHeld, HeldNow
  <2> QED BY <1>1, <1>2, <2>2, <2>3, <2>4 DEF IInv, Stays
<1>6. CASE call[t].at \notin {"write", "enter"}
  <2>1. r \notin InFlight
    <3>1. SUFFICES ASSUME r \in InFlight PROVE FALSE
      OBVIOUS
    <3>2. PICK u \in Task : call[u].at \in {"write", "enter"} /\ call[u].run.size > 0 /\ r = call[u].run
      BY <3>1 DEF InFlight
    <3>3. CallOk(call[t]) /\ CallOk(call[u])
      BY Zenon, <1>1 DEF Good
    <3>4. r \in Run /\ r.start \in Of(r)
      BY <3>2, <3>3, RunIs DEF CallOk
    <3>5. CASE call[t].at = "fill"
      <4>1. Fills(disk, root_clus, call, t)
        BY <1>1, <3>5, FillIs
      <4> DEFINE h == NewHome(call[t])
      <4>2. h \in Homes(disk, root_clus) /\ h.run = r
        BY Zenon, <4>1 DEF Fills
      <4>3. \A k : ~(k \in Of(h.run) /\ k \in Of(call[u].run))
        BY Zenon, <1>1, <3>2, <4>2, TaskIs
      <4> HIDE DEF h
      <4> QED BY <3>2, <3>4, <4>2, <4>3
    <3>6. CASE call[t].at # "fill"
      <4>1. r = EmptyRun
        BY <1>2, <1>6, <3>3, <3>6 DEF CallOk, Working
      <4> QED BY <3>2, <4>1, EmptyIs
    <3> QED BY <3>5, <3>6
  <2>2. orphans' = orphans
    BY <1>2, <2>1
  <2>3. /\ Good(disk, root_clus, [call EXCEPT ![t] = Dead], orphans, space)
        /\ SameHeld(disk, root_clus, call, orphans, disk, [call EXCEPT ![t] = Dead], orphans)
    BY <1>1, <1>3, <1>4, <1>6, StayKeeps
  <2>4. HeldNow' = HeldNow
    BY <1>2, <2>2, <2>3 DEF SameHeld, HeldNow
  <2> QED BY <1>1, <1>2, <2>2, <2>3, <2>4 DEF IInv, Stays
<1> QED BY <1>5, <1>6

LEMMA InitKeeps ==
  ASSUME IInv, RedSeaInit PROVE IInv' /\ space' = Space!Forgotten(space) /\ HeldNow' = HeldNow
<1>1. Good(disk, root_clus, call, orphans, space) /\ up \in BOOLEAN
  BY Zenon DEF IInv
<1>2. UNCHANGED <<disk, root_clus, call, orphans, up>> /\ space' = Space!Forgotten(space)
  BY DEF RedSeaInit
<1>3. SpaceOk(Claims(disk, root_clus, call, orphans), space)
  BY Zenon, <1>1 DEF Good
<1>4. space' \in SpaceType /\ ListIsClear(space') /\ space'.used = space.used
  BY Zenon, <1>2, <1>3, Forgotten_ DEF SpaceOk
<1>5. SpaceOk(Claims(disk, root_clus, call, orphans), space')
  BY <1>3, <1>4 DEF SpaceOk
<1>6. Good(disk, root_clus, call, orphans, space')
  BY Zenon, <1>1, <1>5 DEF Good
<1>7. HeldNow' = HeldNow
  BY <1>2 DEF HeldNow
<1> QED BY <1>1, <1>2, <1>6, <1>7 DEF IInv

LEMMA ThrowKeeps ==
  ASSUME IInv, NEW t \in Task, Throw(t) PROVE IInv' /\ Stays
<1>1. UNCHANGED <<space, disk, root_clus, call, orphans>> /\ up' = FALSE
  BY DEF Throw
<1> QED BY <1>1 DEF IInv, Stays, HeldNow

-----------------------------------------------------------------------------
(***************************************************************************)
(* RedSeaDirNew: the new entry takes the place of one of its name, or has  *)
(* room, or the directory moves first.                                     *)
(***************************************************************************)
EntersIn(t, h) ==
  /\ call[t].at = "enter" /\ h \in Homes(disk, root_clus) /\ h.dir = call[t].op.dir
  /\ Name2DirClus(The(t).dir) = h.run.start /\ RecOf(disk, h) = disk[h.run.start]
  /\ RecOf(disk, h) \in DirType /\ IsFiniteSet(RecOf(disk, h).ents)
  /\ RecOf(disk, h).blks > 0 /\ RecOf(disk, h).blks = h.run.size
  /\ Used(RecOf(disk, h)) < RecOf(disk, h).blks * Slots
  /\ h.run.start = root_clus <=> h.dir = NULL
  /\ NewOf(call[t]) \in EntryType /\ NewOf(call[t]).name = NameOf(call[t].op)

LEMMA EntererIs ==
  ASSUME OwnDirs, IInv, NEW t \in Task, call[t].at = "enter"
  PROVE  \E h : EntersIn(t, h)
<1>1. Good(disk, root_clus, call, orphans, space)
  BY Zenon DEF IInv
<1>2. PICK h : WorksIn(t, h)
  <2>1. Working(call[t]) /\ call[t].at # "fill"
    BY DEF Working
  <2> QED BY Zenon, <2>1, WorkerIs
<1>3. /\ h \in Homes(disk, root_clus) /\ h.dir = call[t].op.dir
      /\ Name2DirClus(The(t).dir) = h.run.start /\ RecOf(disk, h) = disk[h.run.start]
      /\ RecOf(disk, h).blks > 0 /\ RecOf(disk, h).blks = h.run.size
      /\ h.run.start = root_clus <=> h.dir = NULL
  BY <1>2 DEF WorksIn, The
<1>4. RecOk(h.dir, h.run.size, RecOf(disk, h))
  BY Zenon, <1>1, <1>3, HomeIs
<1>5. /\ RecOf(disk, h) \in DirType /\ IsFiniteSet(RecOf(disk, h).ents)
      /\ Used(RecOf(disk, h)) < RecOf(disk, h).blks * Slots
  BY <1>3, <1>4 DEF RecOk
<1>6. NewOf(call[t]) \in EntryType /\ NewOf(call[t]).name = NameOf(call[t].op)
  <2>1. MakesDir(disk, root_clus, call, t)
    BY <1>1, WriterIs
  <2>2. call[t].op \in Ops[t] /\ call[t].op.op # "del" /\ call[t].run \in Run
    BY Zenon, <2>1 DEF MakesDir
  <2>3. NameOf(call[t].op) \in Name
    BY <2>2, NameIs
  <2> QED BY <2>2, <2>3 DEF NewOf, Entry, EntryType
<1>7. EntersIn(t, h)
  BY <1>3, <1>5, <1>6 DEF EntersIn
<1> QED BY <1>7

Replaces(t, h) ==
  /\ \E e \in Found(h.run.start, NameOf(call[t].op)) :
       /\ disk' = [disk EXCEPT ![h.run.start].ents = (@ \ {e}) \cup {NewOf(call[t])}]
       /\ space' \in Space!RedSeaFreeClus(space, e.run)
       /\ orphans' = orphans \cup IF e.dir THEN RunsIn(e.run.start) ELSE {}
  /\ root_clus' = root_clus
Inserts(t, h) ==
  /\ Found(h.run.start, NameOf(call[t].op)) = {} /\ Room(disk[h.run.start])
  /\ disk' = [disk EXCEPT ![h.run.start] = Entered(@, NewOf(call[t]))]
  /\ UNCHANGED <<space, root_clus, orphans>>
MovesAs(t, c, n, r) ==
  LET moved == [Entered(disk[c], n) EXCEPT !.blks = @ + 1]
      run == [start |-> r.first, size |-> disk[c].blks + 1]
      self == CHOOSE e \in FoundDirs(The(t).dir) : TRUE
  IN  /\ space' = r.space
      /\ IF c = root_clus
         THEN root_clus' = r.first /\ disk' = WriteDir(r.first, moved)
         ELSE /\ disk' = [WriteDir(r.first, moved) EXCEPT ![root_clus].ents =
                            (@ \ {self}) \cup {[self EXCEPT !.run = run]}]
              /\ UNCHANGED root_clus
MovesInto(t, c, r) == MovesAs(t, c, NewOf(call[t]), r)
Moves(t, h) ==
  /\ Found(h.run.start, NameOf(call[t].op)) = {}
  /\ \E s \in Space!RedSeaFreeClus(space, RunOf(h.run.start)) :
       \E r \in Space!RedSeaAllocClus(s, disk[h.run.start].blks + 1) : MovesInto(t, h.run.start, r)
  /\ UNCHANGED orphans

LEMMA DirNewCases ==
  ASSUME NEW t, NEW h, RedSeaDirNew(t), Name2DirClus(The(t).dir) = h.run.start
  PROVE  /\ Replaces(t, h) \/ Inserts(t, h) \/ Moves(t, h)
         /\ call' = After2(call, t) /\ UNCHANGED up
<1> DEFINE c == Name2DirClus(The(t).dir)
<1>1. NewEntry(t) = NewOf(call[t]) /\ NewEntry(t).name = NameOf(call[t].op)
  BY DEF NewEntry, NewOf, NameOf, Name2Write, The, Entry
<1>2. Found(c, NewEntry(t).name) = Found(h.run.start, NameOf(call[t].op))
  BY <1>1
<1> DEFINE old == Found(c, NewEntry(t).name)
<1>3. Replaces(t, h) \/ Inserts(t, h) \/ Moves(t, h)
  <2>1. CASE /\ \E e \in old :
                  /\ disk' = [disk EXCEPT ![c].ents = (@ \ {e}) \cup {NewEntry(t)}]
                  /\ space' \in Space!RedSeaFreeClus(space, e.run)
                  /\ orphans' = orphans \cup IF e.dir THEN RunsIn(e.run.start) ELSE {}
             /\ UNCHANGED root_clus
    BY Zenon, <1>1, <2>1 DEF Replaces
  <2>2. CASE /\ old = {} /\ Room(disk[c])
             /\ disk' = [disk EXCEPT ![c] = Entered(@, NewEntry(t))]
             /\ UNCHANGED <<space, root_clus, orphans>>
    BY Zenon, <1>1, <2>2 DEF Inserts
  <2>3. CASE /\ old = {}
             /\ \E s \in Space!RedSeaFreeClus(space, RunOf(c)) :
                  \E r \in Space!RedSeaAllocClus(s, disk[c].blks + 1) :
                    LET moved == [Entered(disk[c], NewEntry(t)) EXCEPT !.blks = @ + 1]
                        run == [start |-> r.first, size |-> disk[c].blks + 1]
                        self == CHOOSE e \in FoundDirs(The(t).dir) : TRUE
                    IN  /\ space' = r.space
                        /\ IF c = root_clus
                           THEN root_clus' = r.first /\ disk' = WriteDir(r.first, moved)
                           ELSE /\ disk' = [WriteDir(r.first, moved) EXCEPT ![root_clus].ents =
                                              (@ \ {self}) \cup {[self EXCEPT !.run = run]}]
                                /\ UNCHANGED root_clus
             /\ UNCHANGED orphans
    <3>1. PICK s \in Space!RedSeaFreeClus(space, RunOf(c)) :
            \E r \in Space!RedSeaAllocClus(s, disk[c].blks + 1) : MovesAs(t, c, NewEntry(t), r)
      BY Zenon, <2>3 DEF MovesAs
    <3>2. \E r \in Space!RedSeaAllocClus(s, disk[c].blks + 1) : MovesInto(t, c, r)
      <4>1. PICK r \in Space!RedSeaAllocClus(s, disk[c].blks + 1) : MovesAs(t, c, NewEntry(t), r)
        BY Zenon, <3>1
      <4>2. NewEntry(t) = NewOf(call[t])
        BY Zenon, <1>1
      <4> HIDE DEF c
      <4>3. MovesAs(t, c, NewOf(call[t]), r)
        BY <4>1, <4>2
      <4> QED BY Zenon, <4>3 DEF MovesInto
    <3> QED BY Zenon, <1>1, <2>3, <3>2 DEF Moves
  <2> QED BY Zenon, <2>1, <2>2, <2>3 DEF RedSeaDirNew
<1>4. call' = After2(call, t) /\ UNCHANGED up
  BY DEF RedSeaDirNew, After2, The, GoTo, Done
<1> QED BY Zenon, <1>3, <1>4

LEMMA EnteredIs ==
  ASSUME NEW d \in DirType, IsFiniteSet(d.ents), NEW e \in EntryType, e \notin d.ents
  PROVE  /\ Entered(d, e) \in DirType /\ Entered(d, e).ents = d.ents \cup {e} /\ Entered(d, e).blks = d.blks
         /\ Used(Entered(d, e)) \in Nat /\ Used(d) \in Nat /\ Used(Entered(d, e)) <= Used(d) + 1
<1> DEFINE n == IF d.deleted > 0 THEN d.deleted - 1 ELSE d.deleted
           f == Entered(d, e)
<1>1. /\ d = [type |-> "dir", blks |-> d.blks, deleted |-> d.deleted, ents |-> d.ents]
      /\ d.blks \in Nat /\ d.deleted \in Nat /\ d.ents \subseteq EntryType
  BY DEF DirType
<1>2. n \in Nat /\ n <= d.deleted
  BY <1>1
<1>3. f = [[d EXCEPT !.ents = d.ents \cup {e}] EXCEPT !.deleted = n]
  BY <1>1 DEF Entered
<1> HIDE DEF n, f
<1>4. f = [type |-> "dir", blks |-> d.blks, deleted |-> n, ents |-> d.ents \cup {e}]
  <2> DEFINE g == [d EXCEPT !.ents = d.ents \cup {e}]
  <2>1. g = [type |-> "dir", blks |-> d.blks, deleted |-> d.deleted, ents |-> d.ents \cup {e}]
    BY <1>1
  <2>2. f = [g EXCEPT !.deleted = n]
    BY <1>3
  <2> HIDE DEF g
  <2> QED BY <2>1, <2>2
<1>5. f.ents = d.ents \cup {e} /\ f.blks = d.blks /\ f.deleted = n
  BY Zenon, <1>4
<1>6. f \in DirType
  <2>1. d.ents \cup {e} \subseteq EntryType
    BY <1>1
  <2> QED BY <1>1, <1>2, <1>4, <2>1 DEF DirType
<1>7. Cardinality(f.ents) = Cardinality(d.ents) + 1 /\ Cardinality(d.ents) \in Nat
  BY <1>5, FS_AddElement, FS_CardinalityType
<1>8. Used(f) \in Nat /\ Used(d) \in Nat /\ Used(f) <= Used(d) + 1
  BY <1>1, <1>2, <1>5, <1>7 DEF Used, Slot0
<1> QED BY <1>5, <1>6, <1>8 DEF f

LEMMA InsertKeeps ==
  ASSUME OwnDirs, IInv, NEW t \in Task, NEW h, EntersIn(t, h), Inserts(t, h), call' = After2(call, t)
  PROVE  Good(disk', root_clus', call', orphans', space') /\ Stays
<1> DEFINE d == RecOf(disk, h)
           e == NewOf(call[t])
           nr == Entered(d, e)
<1>1. Good(disk, root_clus, call, orphans, space)
  BY Zenon DEF IInv
<1>2. /\ d = disk[h.run.start] /\ d \in DirType /\ IsFiniteSet(d.ents) /\ d.blks > 0
      /\ e \in EntryType /\ e.name = NameOf(call[t].op)
      /\ call[t].at = "enter" /\ h \in Homes(disk, root_clus) /\ h.dir = call[t].op.dir
  BY Zenon DEF EntersIn
<1>3. /\ Found(h.run.start, NameOf(call[t].op)) = {} /\ Room(d)
      /\ disk' = [disk EXCEPT ![h.run.start] = nr]
      /\ UNCHANGED <<space, root_clus, orphans>>
  BY <1>2 DEF Inserts
<1>4. \A f \in d.ents : f.name # NameOf(call[t].op)
  BY <1>2, <1>3 DEF Found
<1> HIDE DEF d, e
<1>5. e \notin d.ents
  BY <1>2, <1>4
<1>6. /\ nr \in DirType /\ nr.ents = d.ents \cup {e} /\ nr.blks = d.blks
      /\ Used(nr) \in Nat /\ Used(d) \in Nat /\ Used(nr) <= Used(d) + 1
  BY Zenon, <1>2, <1>5, EnteredIs
<1> HIDE DEF nr
<1>7. Used(nr) < nr.blks * Slots
  <2>1. d.blks \in Nat
    BY <1>2 DEF DirType
  <2>2. d.blks * Slots \in Nat
    BY <2>1, RedSeaAssumption
  <2>3. Used(d) + 1 < d.blks * Slots
    BY <1>3 DEF Room
  <2> QED BY <1>6, <2>2, <2>3
<1>8. Entering(disk, root_clus, call, t, h, nr, disk')
  BY <1>2, <1>3, <1>4, <1>6, <1>7 DEF Entering, d, e
<1>9. /\ Good(disk', root_clus, After2(call, t), orphans, space)
      /\ SameHeld(disk, root_clus, call, orphans, disk', After2(call, t), orphans)
  BY Zenon, <1>1, <1>8, EnterKeeps
<1>10. HeldNow' = HeldNow
  BY <1>3, <1>9 DEF SameHeld, HeldNow
<1> QED BY <1>3, <1>9, <1>10 DEF Stays

\* What is replaced is a file: no file of the root is called as a directory.
LEMMA ReplacedIs ==
  ASSUME OwnDirs, IInv, NEW t \in Task, NEW h, EntersIn(t, h), NEW e \in RecOf(disk, h).ents,
         e.name = NameOf(call[t].op)
  PROVE  ~e.dir
<1>1. Good(disk, root_clus, call, orphans, space)
  BY Zenon DEF IInv
<1>2. call[t].at = "enter" /\ h \in Homes(disk, root_clus) /\ h.dir = call[t].op.dir
  BY Zenon DEF EntersIn
<1>3. SUFFICES ASSUME e.dir PROVE FALSE
  OBVIOUS
<1>4. h.dir = NULL /\ e.name \in DirNames /\ e \in disk[root_clus].ents
  BY Zenon, <1>1, <1>2, <1>3, DirEntryIs
<1>5. MakesDir(disk, root_clus, call, t)
  BY <1>1, <1>2, WriterIs
<1>6. call[t].op \in Ops[t] /\ call[t].op.op # "del"
  BY Zenon, <1>5 DEF MakesDir
<1>7. /\ NameOf(call[t].op) \in call[t].op.names /\ call[t].op.op \in {"mkdir", "write"}
      /\ call[t].op.op = "write" /\ call[t].op.dir = NULL => NameOf(call[t].op) \notin DirNames
  BY Zenon, <1>6, NameIs
<1>8. call[t].op.op = "mkdir"
  BY <1>2, <1>4, <1>7
<1>9. StepOk(disk, root_clus, call[t], t)
  BY Zenon, <1>1 DEF Good
<1>10. e.name \notin call[t].op.names
  BY <1>2, <1>4, <1>8, <1>9 DEF StepOk, Working
<1> QED BY <1>7, <1>10

LEMMA ReplaceKeeps ==
  ASSUME OwnDirs, IInv, NEW t \in Task, NEW h, EntersIn(t, h), Replaces(t, h), call' = After2(call, t)
  PROVE  Good(disk', root_clus', call', orphans', space') /\ GivesBack
<1> DEFINE d == RecOf(disk, h)
           n == NewOf(call[t])
           c == h.run.start
<1>1. Good(disk, root_clus, call, orphans, space) /\ disk \in DiskType
  BY Zenon DEF IInv, Good
<1>2. /\ d = disk[c] /\ d \in DirType /\ IsFiniteSet(d.ents) /\ d.blks > 0
      /\ Used(d) < d.blks * Slots
      /\ n \in EntryType /\ n.name = NameOf(call[t].op)
      /\ call[t].at = "enter" /\ h \in Homes(disk, root_clus) /\ h.dir = call[t].op.dir
  BY Zenon DEF EntersIn
<1>3. PICK e \in d.ents :
        /\ e.name = NameOf(call[t].op)
        /\ disk' = [disk EXCEPT ![c].ents = (@ \ {e}) \cup {n}]
        /\ space' \in Space!RedSeaFreeClus(space, e.run)
        /\ orphans' = orphans \cup IF e.dir THEN RunsIn(e.run.start) ELSE {}
  BY <1>2 DEF Replaces, Found
<1>4. root_clus' = root_clus
  BY DEF Replaces
<1>5. ~e.dir
  BY Zenon, <1>3, ReplacedIs
<1>6. orphans' = orphans
  BY <1>3, <1>5
<1>7. c \in Clus
  BY Zenon, <1>1, <1>2, HomeIs
<1> DEFINE r1 == [d EXCEPT !.ents = @ \ {e}]
           r2 == [d EXCEPT !.ents = (@ \ {e}) \cup {n}]
           dk1 == [disk EXCEPT ![c] = r1]
<1>8. disk' = [disk EXCEPT ![c] = r2] /\ disk' = [dk1 EXCEPT ![c] = r2]
  BY <1>1, <1>2, <1>3, <1>7 DEF DiskType
<1>9. \A f \in d.ents \ {e} : f.name # NameOf(call[t].op)
  BY <1>1, <1>2, <1>3, OneOfName
<1> HIDE DEF d, n
<1>10. /\ d = [type |-> "dir", blks |-> d.blks, deleted |-> d.deleted, ents |-> d.ents]
       /\ d.blks \in Nat /\ d.deleted \in Nat /\ d.ents \subseteq EntryType
  BY <1>2 DEF DirType
<1>11. /\ r1 = [type |-> "dir", blks |-> d.blks, deleted |-> d.deleted, ents |-> d.ents \ {e}]
       /\ r2 = [type |-> "dir", blks |-> d.blks, deleted |-> d.deleted, ents |-> (d.ents \ {e}) \cup {n}]
  BY <1>10
<1> HIDE DEF r1, r2, dk1
<1>12. /\ r1.ents = d.ents \ {e} /\ r1.blks = d.blks /\ r1.deleted = d.deleted
       /\ r2.ents = r1.ents \cup {n} /\ r2.blks = d.blks /\ r2.deleted = d.deleted
  BY Zenon, <1>11
<1>13. r1 \in DirType /\ r2 \in DirType
  <2>1. d.ents \ {e} \subseteq EntryType /\ (d.ents \ {e}) \cup {n} \subseteq EntryType
    BY <1>2, <1>10
  <2> QED BY <1>10, <1>11, <2>1 DEF DirType
<1>14. n \notin d.ents \ {e}
  BY <1>2, <1>9
<1>15. /\ Cardinality(d.ents) \in Nat /\ Cardinality(d.ents \ {e}) = Cardinality(d.ents) - 1
       /\ Cardinality((d.ents \ {e}) \cup {n}) = Cardinality(d.ents)
  <2>1. IsFiniteSet(d.ents) /\ e \in d.ents
    BY <1>2, <1>3
  <2> QED BY ZenonT(40), <2>1, <1>14, Replaced
<1>16. Used(r1) = Used(d) - 1 /\ Used(r2) = Used(d) /\ Used(d) \in Nat
  BY <1>10, <1>12, <1>15 DEF Used, Slot0
<1>17. Used(r1) < r1.blks * Slots /\ Used(r2) < r2.blks * Slots
  <2>1. d.blks * Slots \in Nat
    BY <1>10, RedSeaAssumption
  <2> QED BY <1>2, <1>12, <1>16, <2>1
<1>18. Removal(disk, root_clus, call, h, {e}, r1, dk1)
  BY <1>2, <1>3, <1>5, <1>12, <1>13, <1>17 DEF Removal, d, dk1
<1>19. space' \in Space!FreedAll(space, {x.run : x \in {e}})
  <2>1. {x.run : x \in {e}} = {e.run}
    OBVIOUS
  <2> QED BY <1>3, <2>1, FreedFew_
<1>20. Lost(disk, root_clus, {e}) = {}
  BY <1>5 DEF Lost, Gone
<1>21. Good(dk1, root_clus, call, orphans, space') /\ LessBy(disk, root_clus, call, orphans, {e}, dk1, orphans)
  <2>1. /\ Good(dk1, root_clus, call, orphans \cup Lost(disk, root_clus, {e}), space')
        /\ LessBy(disk, root_clus, call, orphans, {e}, dk1, orphans \cup Lost(disk, root_clus, {e}))
    BY Zenon, <1>1, <1>18, <1>19, RemoveKeeps, RemoveLess
  <2>2. orphans \cup Lost(disk, root_clus, {e}) = orphans
    BY <1>20
  <2> QED BY Zenon, <2>1, <2>2
<1>22. h \in Homes(dk1, root_clus) /\ RecOf(dk1, h) = r1
  <2>1. IsUpdate(disk, h, r1, dk1)
    BY Zenon, <1>1, <1>18, RemovalRec
  <2>2. Updated(disk, root_clus, h, r1, dk1)
    BY Zenon, <1>1, <1>2, <2>1, UpdateFrame
  <2> QED BY Zenon, <2>2 DEF Updated
<1>23. Entering(dk1, root_clus, call, t, h, r2, disk')
  BY <1>2, <1>8, <1>9, <1>12, <1>13, <1>17, <1>22 DEF Entering, n
<1>24. /\ Good(disk', root_clus, After2(call, t), orphans, space')
       /\ SameHeld(dk1, root_clus, call, orphans, disk', After2(call, t), orphans)
  BY Zenon, <1>21, <1>23, EnterKeeps
<1>25. HeldNow' = HeldNow \ RunsOfAll({e})
  BY <1>4, <1>6, <1>21, <1>24 DEF LessBy, SameHeld, HeldNow
<1>26. RunsOfAll({e}) \in SUBSET (HeldNow \cup {EmptyRun})
  <2>1. e \in RecOf(disk, h).ents
    BY <1>3 DEF d
  <2>2. e.run \in HeldNow \/ e.run = EmptyRun
    BY <1>1, <1>2, <2>1, EntryHeld DEF HeldNow
  <2> QED BY <2>2 DEF RunsOfAll
<1>27. GivesBack
  BY <1>19, <1>25, <1>26 DEF GivesBack, RunsOfAll
<1> QED BY <1>4, <1>6, <1>24, <1>27

LEMMA WriteDirTwice ==
  ASSUME disk \in DiskType, NEW run \in Run, run.size > 0, run.start \in Clus, NEW d1, d1.blks = run.size,
         NEW d2, d2.blks = run.size
  PROVE  WriteDir(run.start, d2) = [WriteDir(run.start, d1) EXCEPT ![run.start] = d2]
<1> DEFINE c == run.start
           F(d) == [k \in c .. c + d.blks - 1 |-> IF k = c THEN d ELSE Empty]
           f1 == F(d1)
           f2 == F(d2)
           w1 == Write(f1)
           w2 == Write(f2)
<1>1. DOMAIN f1 = Of(run) /\ DOMAIN f2 = Of(run)
  BY DEF Of
<1>2. \A k \in Of(run) : f1[k] = (IF k = c THEN d1 ELSE Empty) /\ f2[k] = (IF k = c THEN d2 ELSE Empty)
  BY <1>1
<1>3. WriteDir(c, d1) = w1 /\ WriteDir(c, d2) = w2
  BY DEF WriteDir, FillDir
<1>4. c \in Of(run)
  BY RunIs
<1> HIDE DEF f1, f2
<1>5. /\ w1 = [k \in Clus |-> w1[k]] /\ w2 = [k \in Clus |-> w2[k]]
      /\ \A k \in Clus : w1[k] = IF k \in Of(run) THEN f1[k] ELSE disk[k]
      /\ \A k \in Clus : w2[k] = IF k \in Of(run) THEN f2[k] ELSE disk[k]
  BY <1>1, WriteIs
<1> HIDE DEF w1, w2
<1>6. \A k \in Clus : w2[k] = IF k = c THEN d2 ELSE w1[k]
  BY <1>2, <1>4, <1>5
<1>7. w2 = [w1 EXCEPT ![c] = d2]
  BY <1>5, <1>6
<1> QED BY <1>3, <1>7

\* The run that a directory moves to, and the disk with it there, still without the new
\* entry.
MoveTo(t, h, run) ==
  /\ run \in Run /\ Of(run) \subseteq Clus /\ run.size = h.run.size + 1
  /\ \A k \in Of(run) : k \in Of(h.run) \/ k \notin space.used
  /\ space' \in SpaceType /\ ListIsClear(space') /\ space'.used = (space.used \ Of(h.run)) \cup Of(run)
MovedBefore(h, run) ==
  LET w == WriteDir(run.start, Longer(RecOf(disk, h)))
  IN  IF h.dir = NULL THEN w
      ELSE [w EXCEPT ![root_clus] = Readdressed(disk[root_clus], h, run)]
RootThen(h, run) == IF h.dir = NULL THEN run.start ELSE root_clus
MovedThen(t, h) == Longer(Entered(RecOf(disk, h), NewOf(call[t])))
MovedAfter(t, h, run) ==
  LET w == WriteDir(run.start, MovedThen(t, h))
  IN  IF h.dir = NULL THEN disk' = w
      ELSE disk' = [w EXCEPT ![root_clus].ents = (@ \ {Entry(h.dir, TRUE, h.run)}) \cup {Entry(h.dir, TRUE, run)}]

LEMMA EntryMoved ==
  ASSUME NEW name, NEW dir, NEW run, NEW to
  PROVE  [Entry(name, dir, run) EXCEPT !.run = to] = Entry(name, dir, to)
  BY DEF Entry

\* One call gives the run back and allocates the longer one.
MoveSpace(h, run) ==
  \E s \in Space!FreedAll(space, {h.run}) : \E r \in Space!RedSeaAllocClus(s, run.size) :
    run.start = r.first /\ space' = r.space

LEMMA MoveIs ==
  ASSUME OwnDirs, IInv, NEW t \in Task, NEW h, EntersIn(t, h), Moves(t, h)
  PROVE  \E run : /\ MoveTo(t, h, run) /\ MoveSpace(h, run) /\ root_clus' = RootThen(h, run)
                  /\ MovedAfter(t, h, run) /\ UNCHANGED orphans
<1> DEFINE d == RecOf(disk, h)
           c == h.run.start
<1>1. Good(disk, root_clus, call, orphans, space)
  BY Zenon DEF IInv
<1>2. /\ d = disk[c] /\ d.blks > 0 /\ d.blks = h.run.size
      /\ h \in Homes(disk, root_clus) /\ h.dir = The(t).dir /\ (c = root_clus <=> h.dir = NULL)
  BY Zenon DEF EntersIn, The
<1>0. PICK s \in Space!RedSeaFreeClus(space, RunOf(c)) :
        \E r \in Space!RedSeaAllocClus(s, disk[c].blks + 1) : MovesInto(t, c, r)
  BY Zenon DEF Moves
<1>3. PICK r \in Space!RedSeaAllocClus(s, disk[c].blks + 1) : MovesInto(t, c, r)
  BY Zenon, <1>0
<1> DEFINE run == [start |-> r.first, size |-> d.blks + 1]
<1>4. /\ h.run \in Run /\ h.run.size \in Nat /\ Of(h.run) \subseteq space.used
  BY Zenon, <1>1, <1>2, HomeIs
<1>5. RunOf(c) = h.run
  BY <1>2, <1>4, RunIs DEF RunOf
<1>6. SpaceOk(Claims(disk, root_clus, call, orphans), space)
  BY Zenon, <1>1 DEF Good
<1>7. s \in SpaceType /\ ListIsClear(s) /\ s.used = space.used \ Of(h.run)
  BY <1>3, <1>4, <1>5, <1>6, Free_ DEF SpaceOk
<1>8. d.blks + 1 \in Nat \ {0}
  BY <1>2, <1>4
<1>9. /\ run \in Run /\ Of(run) \subseteq Clus \ s.used
      /\ r.space \in SpaceType /\ ListIsClear(r.space) /\ r.space.used = s.used \cup Of(run)
  BY <1>2, <1>7, <1>8, Alloc_
<1>10. run.start = r.first /\ run.size = h.run.size + 1
  BY <1>2
<1>11. space' = r.space
  BY Zenon, <1>3 DEF MovesInto, MovesAs
<1>12. /\ h.dir = NULL => root_clus' = run.start /\ disk' = WriteDir(run.start, MovedThen(t, h))
       /\ h.dir # NULL => root_clus' = root_clus
  BY <1>2, <1>3 DEF MovedThen, Longer, MovesInto, MovesAs
<1>13. ASSUME h.dir # NULL
       PROVE  disk' = [WriteDir(run.start, MovedThen(t, h)) EXCEPT ![root_clus].ents =
                         (@ \ {Entry(h.dir, TRUE, h.run)}) \cup {Entry(h.dir, TRUE, run)}]
  <2> DEFINE self == CHOOSE e \in FoundDirs(The(t).dir) : TRUE
  <2>1. FoundDirs(h.dir) = {Entry(h.dir, TRUE, h.run)}
    BY Zenon, <1>1, <1>2, <1>13, DirHome
  <2>2. self = Entry(h.dir, TRUE, h.run)
    BY <1>2, <2>1
  <2>3. [self EXCEPT !.run = run] = Entry(h.dir, TRUE, run)
    <3> DEFINE isdir == TRUE
    <3>0. /\ Entry(h.dir, TRUE, h.run) = Entry(h.dir, isdir, h.run)
          /\ Entry(h.dir, TRUE, run) = Entry(h.dir, isdir, run)
      OBVIOUS
    <3> HIDE DEF self, run, isdir
    <3>1. [self EXCEPT !.run = run] = [Entry(h.dir, isdir, h.run) EXCEPT !.run = run]
      BY <2>2, <3>0
    <3>2. [Entry(h.dir, isdir, h.run) EXCEPT !.run = run] = Entry(h.dir, isdir, run)
      BY EntryMoved
    <3> QED BY <3>0, <3>1, <3>2
  <2>4. disk' = [WriteDir(run.start, MovedThen(t, h)) EXCEPT ![root_clus].ents =
                   (@ \ {self}) \cup {[self EXCEPT !.run = run]}]
    BY <1>2, <1>3, <1>13 DEF MovedThen, Longer, MovesInto, MovesAs
  <2> HIDE DEF self, run
  <2> QED BY <2>2, <2>3, <2>4
<1>17. run.size = disk[c].blks + 1
  BY <1>2
<1> HIDE DEF run
<1>14. MoveTo(t, h, run)
  BY <1>7, <1>9, <1>10, <1>11 DEF MoveTo
<1>18. MoveSpace(h, run)
  <2>1. s \in Space!FreedAll(space, {h.run})
    BY <1>5, FreedFew_
  <2>2. r \in Space!RedSeaAllocClus(s, run.size)
    BY Zenon, <1>3, <1>17
  <2> QED BY Zenon, <1>10, <1>11, <2>1, <2>2 DEF MoveSpace
<1>15. root_clus' = RootThen(h, run) /\ MovedAfter(t, h, run)
  BY <1>12, <1>13 DEF RootThen, MovedAfter
<1>16. UNCHANGED orphans
  BY DEF Moves
<1> QED BY <1>14, <1>15, <1>16, <1>18

LEMMA MoveFits ==
  ASSUME OwnDirs, IInv, NEW t \in Task, NEW h, EntersIn(t, h), NEW run, MoveTo(t, h, run)
  PROVE  /\ run.start \in Clus /\ run.size > 0
         /\ \A x \in Claims(disk, root_clus, call, orphans) :
              x # DirClaim(h) => \A k : ~(k \in Of(run) /\ k \in Of(x.run))
<1> DEFINE C == Claims(disk, root_clus, call, orphans)
<1>1. Good(disk, root_clus, call, orphans, space) /\ h \in Homes(disk, root_clus)
  BY Zenon DEF IInv, EntersIn
<1>2. /\ run \in Run /\ Of(run) \subseteq Clus /\ run.size = h.run.size + 1
      /\ \A k \in Of(run) : k \in Of(h.run) \/ k \notin space.used
  BY Zenon DEF MoveTo
<1>3. h.run.size > 0 /\ h.run.size \in Nat /\ DirClaim(h) \in C
  BY Zenon, <1>1, HomeIs
<1>4. run.start \in Clus /\ run.size > 0
  BY <1>2, <1>3, RunIs
<1>5. SpaceOk(C, space) /\ DirClaim(h).run = h.run
  BY Zenon, <1>1, ClaimFields DEF Good
<1>6. ASSUME NEW x \in C, x # DirClaim(h), NEW k, k \in Of(run), k \in Of(x.run) PROVE FALSE
  <2>1. k \in space.used
    BY Zenon, <1>5, <1>6, ClaimedAre
  <2>2. k \in Of(h.run)
    BY <1>2, <1>6, <2>1
  <2> QED BY Zenon, <1>3, <1>5, <1>6, <2>2, ClaimedAre
<1> QED BY Zenon, <1>4, <1>6

LEMMA RootStays ==
  ASSUME OwnDirs, IInv, NEW t \in Task, NEW h, EntersIn(t, h), NEW run, MoveTo(t, h, run), h.dir # NULL
  PROVE  root_clus \notin Of(run) /\ root_clus # run.start
<1> DEFINE g == RootHome(disk, root_clus)
<1>1. Good(disk, root_clus, call, orphans, space)
  BY Zenon DEF IInv
<1>2. /\ run.start \in Clus /\ run.size > 0
      /\ \A x \in Claims(disk, root_clus, call, orphans) :
           x # DirClaim(h) => \A k : ~(k \in Of(run) /\ k \in Of(x.run))
  BY Zenon, MoveFits
<1>3. g \in Homes(disk, root_clus) /\ g.dir = NULL /\ g.run.start = root_clus
  BY Zenon, RootFields
<1> HIDE DEF g
<1>4. root_clus \in Of(g.run) /\ DirClaim(g) \in Claims(disk, root_clus, call, orphans)
  BY <1>1, <1>3, HomeIs
<1>5. g.dir # h.dir
  BY <1>3
<1>6. DirClaim(g) # DirClaim(h) /\ DirClaim(g).run = g.run
  BY Zenon, <1>5, SameClaim, ClaimFields
<1>7. root_clus \notin Of(run)
  BY <1>2, <1>4, <1>6
<1>8. run.start \in Of(run)
  BY <1>2, RunIs DEF MoveTo
<1> QED BY <1>7, <1>8

LEMMA MovedFirst ==
  ASSUME OwnDirs, IInv, NEW t \in Task, NEW h, EntersIn(t, h), NEW run, MoveTo(t, h, run)
  PROVE  Moving(disk, root_clus, call, orphans, h, run, MovedBefore(h, run), RootThen(h, run))
<1> DEFINE d == RecOf(disk, h)
           w == WriteDir(run.start, Longer(d))
           dk == MovedBefore(h, run)
<1>1. Good(disk, root_clus, call, orphans, space) /\ disk \in DiskType /\ root_clus \in Clus
  BY Zenon DEF IInv, Good
<1>2. /\ h \in Homes(disk, root_clus) /\ d.blks > 0 /\ d.blks = h.run.size
  BY Zenon DEF EntersIn
<1>3. /\ run \in Run /\ Of(run) \subseteq Clus /\ run.size = h.run.size + 1
  BY Zenon DEF MoveTo
<1>4. /\ run.start \in Clus /\ run.size > 0
      /\ \A x \in Claims(disk, root_clus, call, orphans) :
           x # DirClaim(h) => \A k : ~(k \in Of(run) /\ k \in Of(x.run))
  BY Zenon, MoveFits
<1>5. RecOk(h.dir, h.run.size, d) /\ h.run.size \in Nat
  BY Zenon, <1>1, <1>2, HomeIs
<1>6. /\ RecOk(h.dir, h.run.size + 1, Longer(d)) /\ Longer(d).blks = h.run.size + 1
  BY <1>2, <1>5, LongerIs
<1> HIDE DEF d
<1>7. Longer(d) \in DirType /\ Longer(d).blks = run.size
  BY <1>3, <1>6 DEF RecOk
<1>8. /\ w \in DiskType /\ w[run.start] = Longer(d)
      /\ \A k \in Clus : k \notin Of(run) => w[k] = disk[k]
  BY <1>1, <1>3, <1>4, <1>7, WriteDirIs
<1> HIDE DEF w
<1>9. CASE h.dir = NULL
  <2>1. dk = w /\ RootThen(h, run) = run.start
    BY <1>9 DEF MovedBefore, RootThen, w, d
  <2> HIDE DEF dk
  <2>2. Moving(disk, root_clus, call, orphans, h, run, dk, RootThen(h, run))
    BY <1>2, <1>3, <1>4, <1>8, <1>9, <2>1 DEF Moving, d
  <2> QED BY <2>2 DEF dk
<1>10. CASE h.dir # NULL
  <2> DEFINE q == Readdressed(disk[root_clus], h, run)
             g == RootHome(disk, root_clus)
  <2>1. dk = [w EXCEPT ![root_clus] = q] /\ RootThen(h, run) = root_clus
    BY <1>10 DEF MovedBefore, RootThen, w, d
  <2>2. g \in Homes(disk, root_clus) /\ g.dir = NULL /\ g.run.start = root_clus
    BY Zenon, RootFields
  <2>3. Entry(h.dir, TRUE, h.run) \in disk[root_clus].ents
    BY Zenon, <1>1, <1>2, <1>10, SubIs
  <2> HIDE DEF q, g, dk
  <2>4. RecOf(disk, g) = disk[root_clus]
    BY <2>2 DEF RecOf
  <2>5. /\ RecOk(NULL, g.run.size, disk[root_clus]) /\ g.run.size \in Nat /\ root_clus \in Of(g.run)
        /\ DirClaim(g) \in Claims(disk, root_clus, call, orphans)
    BY <1>1, <2>2, <2>4, HomeIs
  <2>6. q \in DirType
    <3>1. IsReaddressed(g.run.size, disk[root_clus], h, run, q)
      BY Zenon, <1>3, <1>4, <2>3, <2>5, ReaddressedIs DEF q
    <3> QED BY <3>1 DEF IsReaddressed, RecOk
  <2>8. root_clus # run.start
    BY Zenon, <1>10, RootStays
  <2>9. w = [k \in Clus |-> w[k]] /\ \A k \in Clus : w[k] \in ClusType
    BY <1>8, ClusIs DEF DiskType
  <2>10. dk = [k \in Clus |-> dk[k]] /\ \A k \in Clus : dk[k] = IF k = root_clus THEN q ELSE w[k]
    BY <2>1, <2>9
  <2>11. dk \in DiskType
    <3>1. \A k \in Clus : dk[k] \in ClusType
      BY <2>6, <2>9, <2>10 DEF ClusType
    <3> QED BY Zenon, <2>10, <3>1, DiskIs
  <2>12. Moving(disk, root_clus, call, orphans, h, run, dk, RootThen(h, run))
    BY <1>1, <1>2, <1>3, <1>4, <1>8, <1>10, <2>1, <2>8, <2>10, <2>11 DEF Moving, d, q
  <2> QED BY <2>12 DEF dk
<1> QED BY <1>9, <1>10

LEMMA MovedAndEntered ==
  ASSUME OwnDirs, IInv, NEW t \in Task, NEW h, EntersIn(t, h), NEW run, MoveTo(t, h, run),
         MovedAfter(t, h, run), MovedThen(t, h).blks = run.size
  PROVE  disk' = [MovedBefore(h, run) EXCEPT ![run.start] = MovedThen(t, h)]
<1> DEFINE d1 == Longer(RecOf(disk, h))
           d2 == MovedThen(t, h)
           w1 == WriteDir(run.start, d1)
           w2 == WriteDir(run.start, d2)
<1>1. Good(disk, root_clus, call, orphans, space) /\ disk \in DiskType /\ root_clus \in Clus
  BY Zenon DEF IInv, Good
<1>2. /\ h \in Homes(disk, root_clus) /\ RecOf(disk, h) \in DirType /\ RecOf(disk, h).blks = h.run.size
  BY Zenon DEF EntersIn
<1>3. run \in Run /\ run.size = h.run.size + 1
  BY Zenon DEF MoveTo
<1>4. run.start \in Clus /\ run.size > 0
  BY Zenon, MoveFits
<1>5. d1 \in DirType /\ d1.blks = run.size
  BY <1>2, <1>3 DEF Longer, DirType
<1>6. d2.blks = run.size
  OBVIOUS
<1> HIDE DEF d1, d2
<1>7. w2 = [w1 EXCEPT ![run.start] = d2]
  BY <1>1, <1>3, <1>4, <1>5, <1>6, WriteDirTwice
<1>8. /\ w1 \in DiskType /\ \A k \in Clus : k \notin Of(run) => w1[k] = disk[k]
  BY <1>1, <1>3, <1>4, <1>5, WriteDirIs
<1> HIDE DEF w1, w2
<1>9. CASE h.dir = NULL
  <2>1. disk' = w2 /\ MovedBefore(h, run) = w1
    BY <1>9 DEF MovedAfter, MovedBefore, w1, w2, d1, d2
  <2> QED BY <1>7, <2>1 DEF d2
<1>10. CASE h.dir # NULL
  <2> DEFINE q == Readdressed(disk[root_clus], h, run)
  <2>1. root_clus \notin Of(run) /\ root_clus # run.start
    BY Zenon, <1>10, RootStays
  <2>2. DOMAIN w1 = Clus /\ w1[root_clus] = disk[root_clus]
    BY <1>1, <1>8, <2>1 DEF DiskType
  <2>3. w2[root_clus] = disk[root_clus]
    BY <1>7, <2>1, <2>2
  <2>4. disk' = [w2 EXCEPT ![root_clus].ents = (@ \ {Entry(h.dir, TRUE, h.run)}) \cup {Entry(h.dir, TRUE, run)}]
    BY <1>10 DEF MovedAfter, w2, d2
  <2>5. MovedBefore(h, run) = [w1 EXCEPT ![root_clus] = q]
    BY <1>10 DEF MovedBefore, w1, d1
  <2>6. disk' = [w2 EXCEPT ![root_clus] = q]
    BY <2>3, <2>4 DEF Readdressed
  <2> HIDE DEF q
  <2>7. disk' = [MovedBefore(h, run) EXCEPT ![run.start] = d2]
    BY <1>1, <1>4, <1>7, <2>1, <2>2, <2>5, <2>6
  <2> QED BY <2>7 DEF d2
<1> QED BY <1>9, <1>10

LEMMA MoveInKeeps ==
  ASSUME OwnDirs, IInv, NEW t \in Task, NEW h, EntersIn(t, h), Moves(t, h), call' = After2(call, t)
  PROVE  Good(disk', root_clus', call', orphans', space') /\ TakesRun
<1> DEFINE d == RecOf(disk, h)
           n == NewOf(call[t])
<1>1. Good(disk, root_clus, call, orphans, space)
  BY Zenon DEF IInv
<1>2. /\ d = disk[h.run.start] /\ d \in DirType /\ IsFiniteSet(d.ents) /\ d.blks > 0 /\ d.blks = h.run.size
      /\ Used(d) < d.blks * Slots
      /\ n \in EntryType /\ n.name = NameOf(call[t].op)
      /\ call[t].at = "enter" /\ h \in Homes(disk, root_clus) /\ h.dir = call[t].op.dir
  BY Zenon DEF EntersIn
<1>3. PICK run : /\ MoveTo(t, h, run) /\ MoveSpace(h, run) /\ root_clus' = RootThen(h, run)
                 /\ MovedAfter(t, h, run) /\ UNCHANGED orphans
  BY Zenon, MoveIs
<1> DEFINE dk == MovedBefore(h, run)
           rc == RootThen(h, run)
           h2 == MovedHome(h, run)
           nr == MovedThen(t, h)
<1>4. Moving(disk, root_clus, call, orphans, h, run, dk, rc)
  BY Zenon, <1>3, MovedFirst
<1>5. /\ \A k \in Of(run) : k \in Of(h.run) \/ k \notin space.used
      /\ space' \in SpaceType /\ ListIsClear(space') /\ space'.used = (space.used \ Of(h.run)) \cup Of(run)
      /\ run \in Run /\ run.size = h.run.size + 1
  BY Zenon, <1>3 DEF MoveTo
<1>6. Good(dk, rc, call, orphans, space')
  BY Zenon, <1>1, <1>4, <1>5, MoveKeeps
<1>7. h2 \in Homes(dk, rc) /\ h2.dir = h.dir /\ h2.run = run /\ RecOf(dk, h2) = Longer(d)
  <2>1. MovedHomes(disk, root_clus, h, run, dk, rc) /\ MovedTo(disk, root_clus, h, run, dk)
    BY Zenon, <1>1, <1>4, MovingHomes, MovingIs
  <2> QED BY Zenon, <2>1 DEF MovedHomes, MovedTo
<1>8. \A f \in d.ents : f.name # NameOf(call[t].op)
  BY <1>2 DEF Moves, Found
<1> HIDE DEF d, n, dk, rc, h2
<1>9. n \notin d.ents
  BY <1>2, <1>8
<1> DEFINE m == Entered(d, n)
<1>10. /\ m \in DirType /\ m.ents = d.ents \cup {n} /\ m.blks = d.blks
       /\ Used(m) \in Nat /\ Used(d) \in Nat /\ Used(m) <= Used(d) + 1
  BY Zenon, <1>2, <1>9, EnteredIs
<1>11. nr = Longer(m)
  BY DEF MovedThen, d, n
<1> HIDE DEF m, nr
<1>12. /\ nr \in DirType /\ nr.ents = m.ents /\ nr.blks = m.blks + 1 /\ nr.deleted = m.deleted
  BY <1>10, <1>11 DEF Longer, DirType
<1>13. /\ Longer(d).ents = d.ents /\ Longer(d).blks = d.blks + 1
  BY <1>2 DEF Longer, DirType
<1>14. d.blks \in Nat
  BY <1>2 DEF DirType
<1>15. Used(nr) < nr.blks * Slots
  <2>1. Used(nr) = Used(m)
    BY <1>12 DEF Used
  <2>2. (d.blks + 1) * Slots = d.blks * Slots + Slots /\ d.blks * Slots \in Nat /\ Slots \in Nat /\ Slots > 3
    BY <1>14, RedSeaAssumption
  <2>3. nr.blks = d.blks + 1
    BY <1>10, <1>12
  <2> QED BY <1>2, <1>10, <2>1, <2>2, <2>3
<1>16. nr.blks = run.size
  BY <1>2, <1>5, <1>10, <1>12
<1>17. disk' = [dk EXCEPT ![run.start] = nr]
  BY Zenon, <1>3, <1>16, MovedAndEntered DEF nr, dk
<1>18. Entering(dk, rc, call, t, h2, nr, disk')
  <2>1. RecOf(dk, h2).blks > 0 /\ RecOf(dk, h2).ents = d.ents /\ nr.blks = RecOf(dk, h2).blks
    BY <1>7, <1>10, <1>12, <1>13, <1>14
  <2>2. nr.ents = RecOf(dk, h2).ents \cup {n} /\ \A f \in RecOf(dk, h2).ents : f.name # NameOf(call[t].op)
    BY <1>8, <1>10, <1>12, <2>1
  <2>3. h2.dir = call[t].op.dir /\ h2.run.start = run.start
    BY <1>2, <1>7
  <2> QED BY <1>2, <1>7, <1>12, <1>15, <1>17, <2>1, <2>2, <2>3 DEF Entering, n
<1>19. /\ Good(disk', rc, After2(call, t), orphans, space')
       /\ SameHeld(dk, rc, call, orphans, disk', After2(call, t), orphans)
  BY Zenon, <1>6, <1>18, EnterKeeps
<1>20. root_clus' = rc /\ orphans' = orphans
  BY <1>3 DEF rc
<1>21. HeldNow' = HeldBy(dk, rc, call, orphans)
  BY <1>19, <1>20 DEF SameHeld, HeldNow
<1>22. HeldMoves(disk, root_clus, call, orphans, h, run, dk, rc)
  BY Zenon, <1>1, <1>4, MoveTakes
<1>23. {h.run} \in SUBSET HeldNow /\ run \notin HeldNow /\ HeldNow' = (HeldNow \ {h.run}) \cup {run}
  BY <1>21, <1>22 DEF HeldMoves, HeldNow
<1>24. TakesRun
  <2>1. PICK s \in Space!FreedAll(space, {h.run}) :
          \E r \in Space!RedSeaAllocClus(s, run.size) : run.start = r.first /\ space' = r.space
    BY Zenon, <1>3 DEF MoveSpace
  <2>2. run \in Run \ HeldNow
    BY <1>5, <1>23
  <2>3. run.size > 0
    BY Zenon, <1>3, MoveFits
  <2> QED BY <1>23, <2>1, <2>2, <2>3, TakenIs
<1> QED BY <1>19, <1>20, <1>24

LEMMA DirNewKeeps ==
  ASSUME OwnDirs, IInv, NEW t \in Task, RedSeaDirNew(t) PROVE IInv' /\ (Stays \/ GivesBack \/ TakesRun)
<1>1. call[t].at = "enter" /\ up \in BOOLEAN
  BY DEF RedSeaDirNew, At, IInv
<1>2. PICK h : EntersIn(t, h)
  BY Zenon, <1>1, EntererIs
<1>3. Name2DirClus(The(t).dir) = h.run.start
  BY Zenon, <1>2 DEF EntersIn
<1>4. /\ Replaces(t, h) \/ Inserts(t, h) \/ Moves(t, h)
      /\ call' = After2(call, t) /\ UNCHANGED up
  BY Zenon, <1>3, DirNewCases
<1>5. Good(disk', root_clus', call', orphans', space') /\ (Stays \/ GivesBack \/ TakesRun)
  BY Zenon, <1>2, <1>4, ReplaceKeeps, InsertKeeps, MoveInKeeps
<1>6. call' = After2(call, t) /\ up' \in BOOLEAN
  BY Zenon, <1>1, <1>4
<1> QED BY Zenon, <1>5, <1>6 DEF IInv

-----------------------------------------------------------------------------
(***************************************************************************)
(* A drive with one directory, and the invariant.                          *)
(***************************************************************************)
FirstRun == [start |-> DataArea + 2, size |-> 1]
FirstHome == Home(FirstDir, FirstRun)
RootRun == [start |-> DataArea + 1, size |-> 1]

LEMMA FirstRuns ==
  /\ FirstRun \in Run /\ FirstRun.size = 1 /\ FirstRun.start = DataArea + 2 /\ Of(FirstRun) = {DataArea + 2}
  /\ RootRun \in Run /\ RootRun.size = 1 /\ RootRun.start = DataArea + 1 /\ Of(RootRun) = {DataArea + 1}
  /\ {DataArea, DataArea + 1, DataArea + 2} \subseteq Clus
  BY DriveAssumption, RedSeaAssumption DEF FirstRun, RootRun, Run, Of, Clus

\* The homes and records at first.
AtFirst ==
  /\ disk \in DiskType /\ root_clus = DataArea + 1
  /\ disk[root_clus] = Dir(1, {Entry(FirstDir, TRUE, FirstRun)}, 0)
  /\ disk[FirstRun.start] = Dir(1, {}, 0)
  /\ Homes(disk, root_clus) = {Home(NULL, RootRun), FirstHome}

LEMMA InitDisk == ASSUME Init PROVE AtFirst
<1> DEFINE e == Entry(FirstDir, TRUE, FirstRun)
           dr == Dir(1, {e}, 0)
           df == Dir(1, {}, 0)
<1>1. /\ root_clus = DataArea + 1
      /\ disk = [c \in Clus |-> CASE c = root_clus -> dr [] c = FirstRun.start -> df [] OTHER -> Empty]
  BY DEF Init, FirstRun
<1>2. e.name = FirstDir /\ e.dir /\ e.run = FirstRun
  BY DEF Entry
<1>3. e \in EntryType
  BY FirstRuns, RedSeaAssumption DEF Entry, EntryType
<1> HIDE DEF e
<1>4. /\ dr \in DirType /\ dr.blks = 1 /\ dr.ents = {e}
      /\ df \in DirType
  BY <1>3, DirIs
<1> HIDE DEF dr, df
<1>5. root_clus # FirstRun.start /\ root_clus \in Clus /\ FirstRun.start \in Clus
  BY <1>1, FirstRuns, DriveAssumption
<1>6. disk[root_clus] = dr /\ disk[FirstRun.start] = df
  BY <1>1, <1>5
<1>7. disk \in DiskType
  <2>1. disk = [c \in Clus |-> disk[c]]
    BY <1>1
  <2>2. \A c \in Clus : disk[c] = dr \/ disk[c] = df \/ disk[c] = Empty
    BY <1>1
  <2>3. Empty \in ClusType
    BY DEF Empty, ClusType
  <2>4. \A c \in Clus : disk[c] \in ClusType
    BY <1>4, <2>2, <2>3 DEF ClusType
  <2> QED BY Zenon, <2>1, <2>4, DiskIs
<1>8. RootHome(disk, root_clus) = Home(NULL, RootRun)
  BY <1>1, <1>4, <1>6 DEF RootHome, RootRun
<1>9. SubHomes(disk[root_clus].ents) = {FirstHome}
  BY <1>2, <1>4, <1>6 DEF SubHomes, FirstHome
<1>10. Homes(disk, root_clus) = {Home(NULL, RootRun), FirstHome}
  BY <1>8, <1>9 DEF Homes
<1> QED BY <1>1, <1>6, <1>7, <1>10 DEF AtFirst, dr, df, e

LEMMA InitDirs ==
  ASSUME AtFirst
  PROVE  /\ disk[root_clus].blks = 1
         /\ RecOk(NULL, 1, RecOf(disk, Home(NULL, RootRun)))
         /\ RecOk(FirstDir, 1, RecOf(disk, FirstHome))
         /\ FilesIn(RecOf(disk, Home(NULL, RootRun)).ents) = {}
         /\ FilesIn(RecOf(disk, FirstHome).ents) = {}
         /\ RecOf(disk, Home(NULL, RootRun)).blks = 1 /\ RecOf(disk, FirstHome).blks = 1
<1> DEFINE e == Entry(FirstDir, TRUE, FirstRun)
           dr == Dir(1, {e}, 0)
           df == Dir(1, {}, 0)
<1>1. e.name = FirstDir /\ e.dir /\ e.run = FirstRun
  BY DEF Entry
<1>2. e \in EntryType
  BY FirstRuns, RedSeaAssumption DEF Entry, EntryType
<1>3. disk[root_clus] = dr /\ disk[FirstRun.start] = df /\ root_clus = DataArea + 1
  BY DEF AtFirst
<1> HIDE DEF e
<1>4. /\ dr \in DirType /\ dr.blks = 1 /\ dr.ents = {e} /\ dr.deleted = 0
      /\ df \in DirType /\ df.blks = 1 /\ df.ents = {} /\ df.deleted = 0
  BY <1>2, DirIs
<1> HIDE DEF dr, df
<1>5. RecOf(disk, Home(NULL, RootRun)) = dr /\ RecOf(disk, FirstHome) = df
  BY <1>3, FirstRuns, HomeFields DEF RecOf, FirstHome
<1>6. Cardinality({e}) = 1 /\ IsFiniteSet({e}) /\ Cardinality({}) = 0 /\ IsFiniteSet({})
  BY FS_Singleton, FS_EmptySet
<1>7. Used(dr) < dr.blks * Slots /\ Used(df) < df.blks * Slots
  BY <1>4, <1>6, RedSeaAssumption DEF Used, Slot0
<1>8. FirstDir \in DirNames
  BY DEF DirNames
<1>9. RecOk(NULL, 1, dr)
  BY <1>1, <1>4, <1>6, <1>7, <1>8, FirstRuns DEF RecOk
<1>10. RecOk(FirstDir, 1, df)
  BY <1>4, <1>6, <1>7 DEF RecOk
<1>11. FilesIn(dr.ents) = {} /\ FilesIn(df.ents) = {}
  BY <1>1, <1>4 DEF FilesIn
<1> QED BY <1>3, <1>4, <1>5, <1>9, <1>10, <1>11

LEMMA InitClaims ==
  ASSUME AtFirst, call = [t \in Task |-> Idle], orphans = {}
  PROVE  Claims(disk, root_clus, call, orphans) = {DirClaim(Home(NULL, RootRun)), DirClaim(FirstHome)}
<1> DEFINE a == Home(NULL, RootRun)
           b == FirstHome
<1>1. Homes(disk, root_clus) = {a, b}
  BY DEF AtFirst
<1>2. FilesIn(RecOf(disk, a).ents) = {} /\ FilesIn(RecOf(disk, b).ents) = {}
  BY Zenon, InitDirs
<1> HIDE DEF a, b
<1>3. {DirClaim(h) : h \in Homes(disk, root_clus)} = {DirClaim(a), DirClaim(b)}
  BY <1>1
<1>4. FileClaims(disk, a) = {} /\ FileClaims(disk, b) = {}
  BY <1>2 DEF FileClaims
<1>5. (UNION {FileClaims(disk, h) : h \in Homes(disk, root_clus)}) = {}
  BY <1>1, <1>4
<1>6. \A t \in Task : call[t].at = "idle"
  BY DEF Idle
<1>7. {TaskClaim(t, call[t].run) : t \in {u \in Task : call[u].at \in {"write", "enter"}}} = {}
  BY <1>6
<1>8. {OrphanClaim(run) : run \in orphans} = {}
  OBVIOUS
<1>9. Claims(disk, root_clus, call, orphans) = {DirClaim(a), DirClaim(b)}
  BY <1>3, <1>5, <1>7, <1>8 DEF Claims
<1> QED BY <1>9 DEF a, b

LEMMA InitIInv == ASSUME Init PROVE IInv
<1> DEFINE a == Home(NULL, RootRun)
           b == FirstHome
           C == Claims(disk, root_clus, call, orphans)
<1>1. AtFirst
  BY Zenon, InitDisk
<1>2. /\ space = [used |-> DataArea .. DataArea + 2, built |-> FALSE, free |-> {}]
      /\ call = [t \in Task |-> Idle] /\ orphans = {} /\ up = TRUE
  BY DEF Init
<1>3. /\ disk \in DiskType /\ root_clus = DataArea + 1 /\ Homes(disk, root_clus) = {a, b}
  BY <1>1 DEF AtFirst
<1>4. /\ disk[root_clus].blks = 1
      /\ RecOk(NULL, 1, RecOf(disk, a)) /\ RecOk(FirstDir, 1, RecOf(disk, b))
      /\ FilesIn(RecOf(disk, a).ents) = {} /\ FilesIn(RecOf(disk, b).ents) = {}
      /\ RecOf(disk, a).blks = 1 /\ RecOf(disk, b).blks = 1
  BY Zenon, <1>1, InitDirs
<1>5. a.dir = NULL /\ a.run = RootRun /\ b.dir = FirstDir /\ b.run = FirstRun
  BY HomeFields DEF FirstHome
<1>6. C = {DirClaim(a), DirClaim(b)}
  BY Zenon, <1>1, <1>2, InitClaims
<1> HIDE DEF a, b, C
<1>7. root_clus \in Clus
  BY <1>3, FirstRuns
<1>8. DirsOk(disk, root_clus)
  BY <1>3, <1>4, <1>5, FirstRuns DEF DirsOk
<1>9. MakersOk(disk, root_clus, call)
  BY <1>3, <1>4 DEF MakersOk
<1>10. FilesOk(disk, root_clus)
  BY <1>3, <1>4 DEF FilesOk
<1>11. DOMAIN call = Task /\ call = [t \in Task |-> call[t]]
  BY <1>2
<1>12. ASSUME NEW t \in Task PROVE CallOk(call[t]) /\ StepOk(disk, root_clus, call[t], t)
  <2>1. call[t] = Idle
    BY <1>2
  <2> QED BY <2>1, IdleIs
<1>13. SpaceOk(C, space)
  <2>1. DirClaim(a).run = RootRun /\ DirClaim(b).run = FirstRun
    BY <1>5, ClaimFields
  <2>2. ClaimedBy(C) = {DataArea + 1, DataArea + 2}
    BY <1>6, <2>1, FirstRuns DEF ClaimedBy
  <2>3. Disjoint(RootRun, FirstRun) /\ Disjoint(FirstRun, RootRun)
    BY FirstRuns, DriveAssumption DEF Disjoint
  <2>4. Apart(C)
    BY <1>6, <2>1, <2>3 DEF Apart
  <2>5. space.used = {DataArea, DataArea + 1, DataArea + 2}
    BY <1>2, DriveAssumption
  <2>6. space \in SpaceType /\ ListIsClear(space)
    <3>1. space.used \subseteq Clus
      BY <2>5, FirstRuns
    <3> DEFINE U == space.used
               no == FALSE
    <3>2. space = [used |-> U, built |-> no, free |-> {}] /\ no \in BOOLEAN
      BY <1>2
    <3>3. space.built = FALSE
      BY <1>2
    <3>4. U \subseteq Clus
      BY <3>1
    <3> HIDE DEF U, no
    <3>5. space \in SpaceType
      BY <3>2, <3>4 DEF SpaceType
    <3> QED BY <3>3, <3>5 DEF ListIsClear, Space!ListIsClear
  <2> QED BY <2>2, <2>4, <2>5, <2>6, DriveAssumption DEF SpaceOk
<1>14. orphans \subseteq Run /\ \A run \in orphans : run.size > 0
  BY <1>2
<1>15. Good(disk, root_clus, call, orphans, space)
  BY Zenon, <1>3, <1>7, <1>8, <1>9, <1>10, <1>11, <1>12, <1>13, <1>14 DEF Good, C
<1> QED BY <1>2, <1>15 DEF IInv

Forgets == space' = Space!Forgotten(space) /\ HeldNow' = HeldNow
SpaceStep == Stays \/ GivesBack \/ TakesRun \/ Forgets
LEMMA NextIInv ==
  ASSUME OwnDirs, IInv, [Next]_vars PROVE IInv' /\ SpaceStep
<1>1. CASE UNCHANGED vars
  BY <1>1 DEF vars, IInv, SpaceStep, Stays, HeldNow
<1>2. CASE RedSeaInit
  BY <1>2, InitKeeps DEF SpaceStep, Forgets
<1>3. ASSUME NEW t \in Task, Start(t) PROVE IInv' /\ SpaceStep
  BY <1>3, StartKeeps DEF SpaceStep
<1>4. ASSUME NEW t \in Task, RedSeaFilesDel(t) PROVE IInv' /\ SpaceStep
  BY <1>4, DelKeeps DEF SpaceStep
<1>5. ASSUME NEW t \in Task, ClusAlloc(t) PROVE IInv' /\ SpaceStep
  BY <1>5, AllocKeeps DEF SpaceStep
<1>6. ASSUME NEW t \in Task, BlkWrite(t) PROVE IInv' /\ SpaceStep
  BY <1>6, WriteStep DEF SpaceStep
<1>7. ASSUME NEW t \in Task, RedSeaDirNew(t) PROVE IInv' /\ SpaceStep
  BY <1>7, DirNewKeeps DEF SpaceStep
<1>8. ASSUME NEW t \in Task, MkDirEnd(t) PROVE IInv' /\ SpaceStep
  BY <1>8, MkDirEndKeeps DEF SpaceStep
<1>9. ASSUME NEW t \in Task, Throw(t) PROVE IInv' /\ SpaceStep
  BY <1>9, ThrowKeeps DEF SpaceStep
<1>10. ASSUME NEW t \in Task, Kill(t) PROVE IInv' /\ SpaceStep
  BY <1>10, KillKeeps DEF SpaceStep
<1> QED BY Zenon, <1>1, <1>2, <1>3, <1>4, <1>5, <1>6, <1>7, <1>8, <1>9, <1>10 DEF Next

\* As long as the tasks keep to their own directories, every state is good.
THEOREM DriveInvariant == ASSUME OwnDirs PROVE Spec => []IInv
<1>1. Init => IInv
  BY InitIInv
<1>2. IInv /\ [Next]_vars => IInv'
  BY NextIInv
<1> QED BY <1>1, <1>2, PTL DEF Spec

LEMMA GoodTypes == ASSUME IInv PROVE TypeOK
<1>1. Good(disk, root_clus, call, orphans, space) /\ up \in BOOLEAN
  BY Zenon DEF IInv
<1>2. /\ disk \in DiskType /\ root_clus \in Clus /\ orphans \subseteq Run
      /\ \A t \in Task : CallOk(call[t])
  BY Zenon, <1>1 DEF Good
<1>3. \A t \in Task : /\ call[t].at \in {"idle", "del", "alloc", "write", "enter", "fill", "dead"}
                      /\ call[t].run \in Run
  BY <1>2 DEF CallOk, Working
<1> QED BY Zenon, <1>1, <1>2, <1>3 DEF TypeOK, DiskType, DirType, EntryType

\* A directory's cluster.
LEMMA ClusHome ==
  ASSUME IInv, NEW c \in DirClus
  PROVE  \E h \in Homes(disk, root_clus) : h.run.start = c
<1>1. CASE c = root_clus
  BY Zenon, <1>1, RootFields
<1>2. CASE c \in SubDirs
  <2>1. PICK e \in disk[root_clus].ents : e.dir /\ c = e.run.start
    BY <1>2 DEF SubDirs
  <2>2. Home(e.name, e.run) \in Homes(disk, root_clus) /\ Home(e.name, e.run).run = e.run
    BY <2>1, SubHomeIn, HomeFields
  <2>3. Home(e.name, e.run).run.start = c
    BY <2>1, <2>2
  <2> QED BY Zenon, <2>2, <2>3
<1> QED BY <1>1, <1>2 DEF DirClus

LEMMA HomeRec ==
  ASSUME IInv, NEW h \in Homes(disk, root_clus)
  PROVE  /\ RecOk(h.dir, h.run.size, disk[h.run.start]) /\ h.run.start \in DirClus
         /\ h.dir = NULL <=> h.run.start = root_clus
         /\ h.dir # NULL => h.run.start \in SubDirs
<1>1. Good(disk, root_clus, call, orphans, space)
  BY Zenon DEF IInv
<1>2. RecOk(h.dir, h.run.size, RecOf(disk, h)) /\ h.run.start \in Of(h.run)
  BY Zenon, <1>1, HomeIs
<1>3. h.dir = NULL => h.run.start = root_clus
  BY Zenon, <1>1, RootIs
<1>4. h.dir # NULL => h.run.start \in SubDirs
  <2>1. h.dir # NULL => Entry(h.dir, TRUE, h.run) \in disk[root_clus].ents
    BY Zenon, <1>1, SubIs
  <2>2. Entry(h.dir, TRUE, h.run).dir /\ Entry(h.dir, TRUE, h.run).run = h.run
    BY DEF Entry
  <2> QED BY <2>1, <2>2 DEF SubDirs
<1>5. ASSUME h.dir # NULL, h.run.start = root_clus PROVE FALSE
  <2> DEFINE g == RootHome(disk, root_clus)
  <2>1. g \in Homes(disk, root_clus) /\ g.dir = NULL /\ g.run.start = root_clus
    BY Zenon, RootFields
  <2> HIDE DEF g
  <2>2. root_clus \in Of(g.run)
    BY <1>1, <2>1, HomeIs
  <2>3. g # h /\ root_clus \in Of(h.run)
    BY <1>2, <1>5, <2>1
  <2> QED BY Zenon, <1>1, <2>1, <2>2, <2>3, HomesDiffer
<1> QED BY <1>2, <1>3, <1>4, <1>5 DEF RecOf, DirClus

LEMMA GoodDirs == ASSUME IInv PROVE DirsSound
<1>1. Good(disk, root_clus, call, orphans, space)
  BY Zenon DEF IInv
<1>2. SUFFICES ASSUME NEW c \in DirClus
      PROVE  /\ IsDir(c)
             /\ disk[c].blks > 0 => Used(disk[c]) < disk[c].blks * Slots
             /\ disk[c].blks = 0 => c # root_clus /\ disk[c].ents = {}
             /\ \A e, f \in disk[c].ents : e.name = f.name => e = f
             /\ \A e \in disk[c].ents : e.dir => disk[e.run.start].blks \in {0, e.run.size}
  BY Zenon DEF DirsSound
<1>3. PICK h \in Homes(disk, root_clus) : h.run.start = c
  BY Zenon, ClusHome
<1>4. RecOk(h.dir, h.run.size, disk[c])
  BY Zenon, <1>3, HomeRec
<1>5. /\ disk[c] \in DirType
      /\ disk[c].blks > 0 => Used(disk[c]) < disk[c].blks * Slots
      /\ disk[c].blks = 0 => disk[c].ents = {}
      /\ \A e, f \in disk[c].ents : e.name = f.name => e = f
  BY Zenon, <1>4 DEF RecOk
<1>6. IsDir(c)
  BY <1>5 DEF IsDir, DirType
<1>7. disk[root_clus].blks > 0
  BY <1>1 DEF Good, DirsOk
<1>8. ASSUME NEW e \in disk[c].ents, e.dir PROVE disk[e.run.start].blks \in {0, e.run.size}
  <2> DEFINE g == Home(e.name, e.run)
  <2>1. e \in RecOf(disk, h).ents
    BY <1>3 DEF RecOf
  <2>2. g \in Homes(disk, root_clus)
    BY Zenon, <1>1, <1>8, <2>1, DirEntryIs
  <2>3. g.run = e.run
    BY HomeFields
  <2> HIDE DEF g
  <2>4. RecOk(g.dir, g.run.size, disk[g.run.start])
    BY Zenon, <2>2, HomeRec
  <2> QED BY <2>3, <2>4 DEF RecOk
<1> QED BY <1>5, <1>6, <1>7, <1>8

LEMMA GoodFiles == ASSUME IInv PROVE FilesWhole
<1>1. FilesOk(disk, root_clus)
  BY Zenon DEF IInv, Good
<1>2. SUFFICES ASSUME NEW c \in DirClus, NEW e \in {x \in disk[c].ents : ~x.dir}
      PROVE  \E t \in Task : \A k \in Of(e.run) : disk[k] = Data(e.name, t)
  BY Zenon DEF FilesWhole
<1>3. PICK h \in Homes(disk, root_clus) : h.run.start = c
  BY Zenon, ClusHome
<1>4. e \in FilesIn(RecOf(disk, h).ents)
  BY <1>3 DEF FilesIn, RecOf
<1>5. Whole(disk, e)
  BY Zenon, <1>1, <1>4 DEF FilesOk
<1> QED BY Zenon, <1>5 DEF Whole

\* What the client has are the claims that have a cluster.
LEMMA HeldFrom ==
  ASSUME IInv, NEW r \in Held
  PROVE  \E x \in Claims(disk, root_clus, call, orphans) : x.run = r /\ r.size > 0
<1> DEFINE C == Claims(disk, root_clus, call, orphans)
<1>1. Good(disk, root_clus, call, orphans, space)
  BY Zenon DEF IInv
<1>2. ASSUME NEW h \in Homes(disk, root_clus), r \in RunsIn(h.run.start)
      PROVE  \E x \in C : x.run = r /\ r.size > 0
  <2>1. PICK e \in disk[h.run.start].ents : r = e.run /\ r.size > 0
    BY <1>2 DEF RunsIn
  <2>2. e \in RecOf(disk, h).ents
    BY <2>1 DEF RecOf
  <2>3. EntryClaim(h, e) \in C /\ EntryClaim(h, e).run = e.run
    BY <1>1, <2>2, EntryIs
  <2> QED BY Zenon, <2>1, <2>3
<1>3. CASE r = RunOf(root_clus)
  <2> DEFINE g == RootHome(disk, root_clus)
  <2>1. g \in Homes(disk, root_clus) /\ g.run.start = root_clus /\ g.run.size = disk[root_clus].blks
    BY Zenon, RootFields
  <2> HIDE DEF g
  <2>2. g.run \in Run /\ g.run.size > 0 /\ DirClaim(g) \in C /\ DirClaim(g).run = g.run
    BY Zenon, <1>1, <2>1, HomeIs, ClaimFields
  <2>3. g.run = r
    BY <1>3, <2>1, <2>2, RunIs DEF RunOf
  <2> QED BY Zenon, <2>2, <2>3
<1>4. CASE r \in RunsIn(root_clus)
  <2>1. RootHome(disk, root_clus) \in Homes(disk, root_clus) /\ RootHome(disk, root_clus).run.start = root_clus
    BY Zenon, RootFields
  <2>2. r \in RunsIn(RootHome(disk, root_clus).run.start)
    BY <1>4, <2>1
  <2> QED BY Zenon, <1>2, <2>1, <2>2
<1>5. CASE r \in UNION {RunsIn(c) : c \in {d \in SubDirs : IsDir(d)}}
  <2>1. PICK c \in SubDirs : r \in RunsIn(c)
    BY <1>5
  <2>2. c \in DirClus
    BY DEF DirClus
  <2>3. PICK h \in Homes(disk, root_clus) : h.run.start = c
    BY Zenon, <2>2, ClusHome
  <2> QED BY <1>2, <2>1, <2>3
<1>6. CASE r \in InFlight
  <2>1. PICK t \in Task : call[t].at \in {"write", "enter"} /\ r = call[t].run /\ r.size > 0
    BY <1>6 DEF InFlight
  <2>2. TaskClaim(t, call[t].run) \in C /\ TaskClaim(t, call[t].run).run = call[t].run
    <3>1. TaskClaim(t, call[t].run) \in C
      BY Zenon, <2>1, TaskClaimIn
    <3> QED BY <3>1, ClaimFields
  <2> QED BY Zenon, <2>1, <2>2
<1>7. CASE r \in orphans
  <2>1. r.size > 0
    BY <1>1, <1>7 DEF Good
  <2>2. OrphanClaim(r) \in C /\ OrphanClaim(r).run = r
    BY Zenon, <1>7, OrphanClaimIn, ClaimFields
  <2> QED BY Zenon, <2>1, <2>2
<1> QED BY <1>3, <1>4, <1>5, <1>6, <1>7 DEF Held, Reachable

LEMMA ClaimHeld ==
  ASSUME IInv, NEW x \in Claims(disk, root_clus, call, orphans), x.run.size > 0
  PROVE  x.run \in Held
<1>1. Good(disk, root_clus, call, orphans, space)
  BY Zenon DEF IInv
<1>2. IsClaim(disk, root_clus, call, orphans, x)
  BY Zenon, ClaimFrom
<1>3. ASSUME NEW h \in Homes(disk, root_clus), x = DirClaim(h) PROVE x.run \in Held
  <2>1. x.run = h.run /\ h.run \in Run
    BY Zenon, <1>1, <1>3, ClaimFields, HomeIs
  <2>2. CASE h.dir = NULL
    <3>1. h.run.start = root_clus
      BY Zenon, <2>2, HomeRec
    <3>2. h.run.size = disk[root_clus].blks
      <4>1. h = RootHome(disk, root_clus)
        BY Zenon, <1>1, <2>2, RootIs
      <4> QED BY Zenon, <4>1, RootFields
    <3>3. RunOf(root_clus) = h.run
      BY <2>1, <3>1, <3>2, RunIs DEF RunOf
    <3> QED BY <2>1, <3>3 DEF Held, Reachable
  <2>3. CASE h.dir # NULL
    <3> DEFINE e == Entry(h.dir, TRUE, h.run)
    <3>1. e \in disk[root_clus].ents
      BY Zenon, <1>1, <2>3, SubIs
    <3>2. e.run = h.run
      BY DEF Entry
    <3> HIDE DEF e
    <3>3. x.run \in RunsIn(root_clus)
      BY <2>1, <3>1, <3>2 DEF RunsIn
    <3> QED BY <3>3 DEF Held, Reachable
  <2> QED BY <2>2, <2>3
<1>4. ASSUME NEW h \in Homes(disk, root_clus), NEW e \in FilesIn(RecOf(disk, h).ents), x = FileClaim(h, e)
      PROVE  x.run \in Held
  <2>1. x.run = e.run
    BY Zenon, <1>4, ClaimFields
  <2>2. x.run \in RunsIn(h.run.start)
    BY <2>1 DEF RunsIn, FilesIn, RecOf
  <2>3. CASE h.dir = NULL
    <3>1. h.run.start = root_clus
      BY Zenon, <2>3, HomeRec
    <3> QED BY <2>2, <3>1 DEF Held, Reachable
  <2>4. CASE h.dir # NULL
    <3>1. h.run.start \in SubDirs /\ RecOk(h.dir, h.run.size, disk[h.run.start])
      BY Zenon, <2>4, HomeRec
    <3>2. IsDir(h.run.start)
      BY <3>1 DEF RecOk, DirType, IsDir
    <3> QED BY <2>2, <3>1, <3>2 DEF Held, Reachable
  <2> QED BY <2>3, <2>4
<1>5. ASSUME NEW t \in Task, call[t].at \in {"write", "enter"}, x = TaskClaim(t, call[t].run)
      PROVE  x.run \in Held
  <2>1. x.run = call[t].run
    BY <1>5, ClaimFields
  <2>2. x.run \in InFlight
    BY <1>5, <2>1 DEF InFlight
  <2> QED BY <2>2 DEF Held
<1>6. ASSUME NEW run \in orphans, x = OrphanClaim(run) PROVE x.run \in Held
  <2>1. x.run = run
    BY Zenon, <1>6, ClaimFields
  <2> QED BY <2>1 DEF Held
<1> QED BY Zenon, <1>2, <1>3, <1>4, <1>5, <1>6 DEF IsClaim

LEMMA HeldIs == ASSUME IInv PROVE Held = HeldOf(Claims(disk, root_clus, call, orphans))
<1> DEFINE C == Claims(disk, root_clus, call, orphans)
<1>1. ASSUME NEW r \in Held PROVE r \in HeldOf(C)
  <2>1. \E x \in C : x.run = r /\ r.size > 0
    BY Zenon, HeldFrom
  <2> QED BY Zenon, <2>1, InHeldOf
<1>2. ASSUME NEW r \in HeldOf(C) PROVE r \in Held
  <2>1. PICK x \in C : x.run = r /\ r.size > 0
    BY Zenon, InHeldOf
  <2> QED BY <2>1, ClaimHeld
<1> HIDE DEF C
<1>3. Held = HeldOf(C)
  BY <1>1, <1>2
<1> QED BY <1>3 DEF C

LEMMA GoodSpace == ASSUME IInv PROVE SpaceSound
<1> DEFINE C == Claims(disk, root_clus, call, orphans)
<1>1. Good(disk, root_clus, call, orphans, space)
  BY Zenon DEF IInv
<1>2. SpaceOk(C, space)
  BY Zenon, <1>1 DEF Good
<1>3. Held = HeldOf(C)
  BY Zenon, HeldIs
<1>4. \A x \in C : x.run \in Run
  BY Zenon, <1>1, ClaimRuns
<1> HIDE DEF C
<1>5. Held \subseteq Run
  BY <1>3, <1>4 DEF HeldOf
<1>6. ASSUME NEW k PROVE k \in UNION {Of(r) : r \in Held} <=> k \in ClaimedBy(C)
  <2>1. ASSUME k \in UNION {Of(r) : r \in Held} PROVE k \in ClaimedBy(C)
    <3>1. PICK r \in Held : k \in Of(r)
      BY <2>1
    <3>2. PICK x \in C : x.run = r
      BY Zenon, <1>3, InHeldOf
    <3> QED BY Zenon, <3>1, <3>2, InClaimed
  <2>2. ASSUME k \in ClaimedBy(C) PROVE k \in UNION {Of(r) : r \in Held}
    <3>1. PICK x \in C : k \in Of(x.run)
      BY Zenon, <2>2, InClaimed
    <3>2. x.run.size > 0
      BY <1>4, <3>1, RunIs
    <3>3. x.run \in Held
      BY Zenon, <1>3, <3>2, InHeldOf
    <3> QED BY <3>1, <3>3
  <2> QED BY <2>1, <2>2
<1>7. UNION {Of(r) : r \in Held} = ClaimedBy(C)
  BY <1>6
<1>8. space.used = {DataArea} \cup UNION {Of(r) : r \in Held}
  BY <1>2, <1>7 DEF SpaceOk
<1>9. ASSUME NEW r \in Held PROVE DataArea \notin Of(r)
  BY <1>2, <1>7 DEF SpaceOk
<1>10. ASSUME NEW r \in Held, NEW q \in Held PROVE r = q \/ Disjoint(r, q)
  <2>1. PICK x \in C : x.run = r
    BY Zenon, <1>3, InHeldOf
  <2>2. PICK y \in C : y.run = q
    BY Zenon, <1>3, InHeldOf
  <2>3. x = y \/ Disjoint(x.run, y.run)
    BY Zenon, <1>2 DEF SpaceOk, Apart
  <2> QED BY <2>1, <2>2, <2>3
<1>11. Space!State.space = space /\ Space!State.held = Held
  BY DEF Space!State
<1>12. Space!UsedIsHeld(Space!State)
  <2>1. /\ Space!State.space.used = {DataArea} \cup UNION {Of(r) : r \in Space!State.held}
        /\ \A r \in Space!State.held : DataArea \notin Of(r) /\ \A q \in Space!State.held : r = q \/ Disjoint(r, q)
    BY <1>8, <1>9, <1>10, <1>11
  <2> QED BY Zenon, <2>1 DEF Space!UsedIsHeld, Space!Of, Of, Space!Disjoint, Disjoint
<1>13. Space!Types(Space!State)
  <2>1. space \in SpaceType
    BY Zenon, <1>2 DEF SpaceOk
  <2> QED BY <1>5, <1>11, <2>1, SameClus DEF Space!Types, SpaceType
<1>14. Space!ListIsClear(space)
  BY Zenon, <1>2 DEF SpaceOk, ListIsClear
<1> QED BY Zenon, <1>12, <1>13, <1>14 DEF SpaceSound, Space!Sound

\* Types, and where a task is in its operation.
THEOREM DriveTypes == ASSUME OwnDirs PROVE Spec => []TypeOK
<1>1. IInv => TypeOK
  BY GoodTypes
<1> QED BY <1>1, DriveInvariant, PTL

\* The bits that are set are those of what can be reached, what tasks have in hand and what
\* kills and removals have cut off: a cluster is in one file or directory, or is free.
THEOREM DriveSpace == ASSUME OwnDirs PROVE Spec => []SpaceSound
<1>1. IInv => SpaceSound
  BY GoodSpace
<1> QED BY <1>1, DriveInvariant, PTL

\* A directory is what the code that reads it takes it for.
THEOREM DriveDirs == ASSUME OwnDirs PROVE Spec => []DirsSound
<1>1. IInv => DirsSound
  BY GoodDirs
<1> QED BY <1>1, DriveInvariant, PTL

\* Who reads a file reads what one task wrote as it.
THEOREM DriveFiles == ASSUME OwnDirs PROVE Spec => []FilesWhole
<1>1. IInv => FilesWhole
  BY GoodFiles
<1> QED BY <1>1, DriveInvariant, PTL

-----------------------------------------------------------------------------
(***************************************************************************)
(* The drive is a client of its space: what is held changes as the space   *)
(* does.                                                                   *)
(***************************************************************************)
HeldIsNow == Held = HeldNow

LEMMA StepOfSpace ==
  ASSUME IInv, HeldIsNow, HeldIsNow', SpaceStep PROVE [Space!Next]_(Space!vars)
<1>1. EmptyRun \notin HeldNow /\ HeldNow \subseteq Run
  <2>1. Good(disk, root_clus, call, orphans, space)
    BY Zenon DEF IInv
  <2>2. ASSUME NEW r \in HeldNow PROVE r \in Run /\ r.size > 0
    <3>1. PICK x \in Claims(disk, root_clus, call, orphans) : x.run = r /\ r.size > 0
      BY InHeldOf DEF HeldNow, HeldBy
    <3> QED BY Zenon, <2>1, <3>1, ClaimRuns
  <2>3. ~(EmptyRun.size > 0)
    BY EmptyIs
  <2> QED BY <2>2, <2>3
<1> DEFINE H == HeldNow
           H2 == HeldNow'
<1>2. Held = H /\ Held' = H2
  BY DEF HeldIsNow
<1>3. CASE Stays
  BY <1>2, <1>3 DEF Stays, Space!vars
<1>4. CASE GivesBack
  <2>1. PICK runs \in SUBSET (H \cup {EmptyRun}) : space' \in Space!FreedAll(space, runs) /\ H2 = H \ runs
    BY <1>4 DEF GivesBack
  <2> HIDE DEF H, H2
  <2>2. Space!Release(Space!FreedAll(space, runs), runs)
    BY <1>2, <2>1 DEF Space!Release
  <2>3. runs \in {Held \ Held', (Held \ Held') \cup {EmptyRun}}
    <3>1. runs \ {EmptyRun} = H \ H2
      BY <1>1, <2>1 DEF H
    <3>2. runs = H \ H2 \/ runs = (H \ H2) \cup {EmptyRun}
      BY <3>1
    <3> QED BY <1>2, <3>2
  <2> QED BY <2>2, <2>3, SameClus DEF Space!Next
<1>5. CASE TakesRun
  <2>1. PICK runs \in SUBSET H : \E new \in Run \ H :
          /\ new.size > 0
          /\ \E s \in Space!FreedAll(space, runs) : \E r \in Space!RedSeaAllocClus(s, new.size) :
               new.start = r.first /\ space' = r.space
          /\ H2 = (H \ runs) \cup {new}
    BY <1>5 DEF TakesRun
  <2>2. PICK new \in Run \ H :
          /\ new.size > 0
          /\ \E s \in Space!FreedAll(space, runs) : \E r \in Space!RedSeaAllocClus(s, new.size) :
               new.start = r.first /\ space' = r.space
          /\ H2 = (H \ runs) \cup {new}
    BY <2>1
  <2> HIDE DEF H, H2
  <2>3. new \in (Held' \ Held) \cap Space!Run /\ Held' = (Held \ runs) \cup {new}
    BY <1>2, <2>2, SameClus
  <2>4. Space!Alloc(Space!FreedAll(space, runs), runs)
    BY <2>2, <2>3 DEF Space!Alloc
  <2>5. runs \in {Held \ Held', (Held \ Held') \cup {EmptyRun}}
    BY <1>2, <2>1, <2>2
  <2> QED BY <2>4, <2>5, SameClus DEF Space!Next
<1>6. CASE Forgets
  BY <1>2, <1>6 DEF Forgets, Space!Next, Space!Forget
<1> QED BY Zenon, <1>3, <1>4, <1>5, <1>6 DEF SpaceStep

\* Writing, replacing, moving, removing and being killed, the tasks together never give
\* back a run that they do not have, or lose one that they have.
THEOREM DriveImplements == ASSUME OwnDirs PROVE Spec => ImplementsSpace
<1>1. Init => IInv
  BY InitIInv
<1>2. IInv /\ [Next]_vars => IInv' /\ SpaceStep
  BY NextIInv
<1>3. IInv => HeldIsNow
  BY HeldIs DEF HeldIsNow, HeldNow, HeldBy
<1>4. IInv /\ HeldIsNow /\ HeldIsNow' /\ SpaceStep => [Space!Next]_(Space!vars)
  BY StepOfSpace
<1>5. Init /\ IInv => Space!Init
  <2> SUFFICES ASSUME Init, IInv PROVE Space!Init
    OBVIOUS
  <2>1. Space!Types(Space!State) /\ Space!UsedIsHeld(Space!State)
    BY GoodSpace DEF SpaceSound, Space!Sound
  <2>2. space.built = FALSE
    BY DEF Init
  <2> QED BY <2>1, <2>2 DEF Space!Init
<1> QED BY <1>1, <1>2, <1>3, <1>4, <1>5, PTL DEF Spec, ImplementsSpace, Space!Spec
=============================================================================
