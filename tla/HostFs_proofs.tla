---------------------------- MODULE HostFs_proofs ----------------------------
(***************************************************************************)
(* Proofs about HostFs, for any tree, drives, arguments and operations,    *)
(* and whatever the rest of the system does to the files meanwhile.        *)
(***************************************************************************)
EXTENDS HostFs, SeqLemmas, FiniteSetTheorems, TLAPS

-----------------------------------------------------------------------------
(***************************************************************************)
(* The inductive invariant.                                                *)
(***************************************************************************)
\* A directory stays while something is in it.
TreeSound == \A dv \in Drive, p, q \in Places :
  tree[dv][p] # "none" /\ IsPrefix(q, p) /\ q # p => tree[dv][q] = "dir"

\* The spellings of a place.
PathName == Names \cup {""}
Spellings == {path \in Seq(PathName) : path # <<>> /\ Place(path) \in Places}

\* An element has the path of a place, and the number of its index, unless it
\* was written behind the table of the drive before.
TableSound ==
  /\ \A s \in Slots : assignments[s] # NULL => assignments[s].path \in Spellings
  /\ \A dv \in Drive, i \in 0 .. MaxAssignments - 1 :
       assignments[Slot(dv, i)] # NULL =>
         assignments[Slot(dv, i)].clus \in {ClusMin + i, ClusMin + MaxAssignments}

\* The directory under which a stable place of the drive is there.
Anchored(dv, dir) ==
  \E p \in Places : /\ <<dv, p>> \in stable /\ tree[dv][p] # "none"
                    /\ IsPrefix(dir, p) /\ (dir = p => tree[dv][p] = "dir")

Short(n) == n <= MaxDepth \/ \E arg \in Args : n <= MaxDepth + Len(arg.names)

\* Where a Cd is, by who called it.
SubCd(name) ==
  /\ Append(cur_dir, name) \in Places
  /\ \/ cd.todo = <<name>> /\ cd.at = cur_dir /\ cd.ok
     \/ cd.todo = <<>> /\ cd.at = Append(cur_dir, name) /\ cd.ok
     \/ cd.todo = <<>> /\ cd.at = cur_dir /\ ~cd.ok

UpCd ==
  /\ cd.ok
  /\ \/ cd.todo = <<"..">> /\ cd.at = cur_dir /\ cur_dir # <<>> /\ Front(cur_dir) = Top.dir
     \/ cd.todo = <<>> /\ cd.at = Top.dir

RestoreCd ==
  /\ cur_dv = ctx.old_dv /\ cur_dir = <<>>
  /\ cd.ok => cd.at \o cd.todo = ctx.old_dir
  /\ ~cd.ok => cd.todo = <<>> /\ IsPrefix(cd.at, ctx.old_dir)

CdOf(ret) == cd # NULL /\ cd.ret = ret

CdSound ==
  /\ cd # NULL => (~cd.ok => cd.todo = <<>>)
  /\ CdOf("user") => /\ ctx.op = "cd" /\ frames = <<>> /\ res = {}
                     /\ Len(cd.at) + Len(cd.todo) <= MaxDepth
  /\ CdOf("dir") => /\ ctx.op # "cd" /\ frames = <<>> /\ res = {} /\ ctx.searched = NULL
                    /\ Short(Len(cd.at) + Len(cd.todo) + 1)
  /\ CdOf("mask") => /\ ctx.op = "find" /\ frames = <<>> /\ res = {} /\ ctx.searched = NULL
                     /\ Short(Len(cd.at) + Len(cd.todo))
  /\ CdOf("sub") => /\ ctx.op = "find" /\ ctx.flag /\ frames # <<>> /\ cur_dir = Top.dir
                    /\ \E name \in Names : SubCd(name)
  /\ CdOf("up") => ctx.op = "find" /\ frames # <<>> /\ UpCd
  /\ CdOf("restore") => ctx.op # "cd" /\ frames = <<>> /\ RestoreCd

\* The operation that the task is in, and what it has found.
Control ==
  /\ pc = "idle" =>
       /\ cd = NULL /\ frames = <<>> /\ res = {} /\ stable = AllPlaces
       /\ Len(cur_dir) <= MaxDepth
  /\ ctx # NULL => Len(ctx.old_dir) <= MaxDepth
  /\ pc = "walk" /\ cd # NULL => cd.todo # <<>> /\ Head(cd.todo) # ".."
  /\ pc = "walk" /\ cd = NULL =>
       ctx.op = "file" /\ frames = <<>> /\ res = {} /\ ctx.searched = NULL
  /\ pc \in {"read", "unlink"} =>
       /\ cur_dir = Top.dir
       /\ ctx.op = "find" \/ (ctx.op = "del" /\ Len(frames) = 1)
  /\ pc = "unlink" => /\ ctx.op = "del"
                      /\ \E name \in Names : victim = NamePath(name) /\ FilesFindMatch(name)

\* The directories that a search has open.
FramesSound ==
  /\ \A i \in 1 .. Len(frames) : IsDirName(frames[i].dir)
  /\ \A i \in 2 .. Len(frames) :
       frames[i].dir # <<>> /\ Front(frames[i].dir) = frames[i - 1].dir
  /\ frames # <<>> => ctx # NULL /\ ctx.searched = <<cur_dv, frames[1].dir>>
  /\ Len(frames) > 1 => ctx.flag

\* Name2DirClus is on its way, begins, or has lost it to somebody who removed
\* a directory.
WalkDir == IF cd # NULL THEN cd.at ELSE cur_dir

WalkSound == walk # NULL =>
  \/ walk.clus = 0 /\ walk.todo = WalkDir
  \/ /\ walk.clus \in 1 .. MaxAssignments /\ get_node_by_clus(walk.clus, cur_dv) # NULL
     /\ PathOf(walk.clus, cur_dv) \o walk.todo = WalkDir
  \/ walk.clus = 0 /\ walk.todo = <<>> /\ ~Anchored(cur_dv, WalkDir)

ResSound == ctx # NULL /\ ctx.op = "find" => \A e \in res :
  /\ e.clus \in 1 .. MaxAssignments /\ get_node_by_clus(e.clus, e.dv) # NULL
  /\ PathOf(e.clus, e.dv) = e.full_name

\* The way back is found as long as the directory is there.
RestoreSound ==
  cd # NULL /\ cd.ret = "restore" /\ Anchored(ctx.old_dv, ctx.old_dir) => cd.ok

\* What the search still has before it: it leads to a place that the search
\* wants, or is that place.
Leads(q, p) == q = p \/ (ctx.flag /\ IsPrefix(q, p))
SubDir == IF cd.todo = <<>> THEN cd.at ELSE Append(cur_dir, Head(cd.todo))
Ahead(p) ==
  \/ \E i \in 1 .. Len(frames) : \E name \in frames[i].left :
       Leads(Append(frames[i].dir, name), p)
  \/ cd # NULL /\ cd.ret = "sub" /\ cd.ok /\ IsPrefix(SubDir, p) /\ SubDir # p
Listed(dv, p) == \E e \in res : e.dv = dv /\ e.full_name = p

SearchCovers == ctx # NULL /\ ctx.op = "find" /\ ctx.searched # NULL =>
  \A dv \in Drive, p \in Places : Wanted(dv, p) => Listed(dv, p) \/ Ahead(p)

OwnInv == TypeOK /\ TreeSound /\ TableSound /\ Control /\ CdSound /\ FramesSound
Numbered == TablesHold => WalkSound /\ ResSound /\ RestoreSound /\ SearchCovers

\* As long as tables hold, no path is in one twice.
Distinct == \A dv \in Drive, i, j \in 0 .. MaxAssignments - 1 :
  i < j /\ assignments[Slot(dv, j)] # NULL =>
    /\ assignments[Slot(dv, i)] # NULL
    /\ assignments[Slot(dv, i)].path # assignments[Slot(dv, j)].path

-----------------------------------------------------------------------------
(***************************************************************************)
(* Places, paths and their spellings.                                      *)
(***************************************************************************)
LEMMA PlacesAreSeqs ==
  /\ Places \subseteq Seq(Names) /\ <<>> \notin Places
  /\ \A p \in Places : \A k \in 1 .. Len(p) : SubSeq(p, 1, k) \in Places
  /\ "" \notin Names /\ ".." \notin Names
<1>1. ASSUME NEW p \in Places PROVE p \in Seq(Names)
  <2>1. p \in Seq(Range(p)) /\ Range(p) \subseteq Names
    BY PlacesAssumption DEF Names
  <2> QED BY <2>1, SeqMonotonic
<1> QED BY <1>1, PlacesAssumption

\* Prefixes, element by element.
LEMMA PrefixElements ==
  ASSUME NEW S, NEW s \in Seq(S), NEW t \in Seq(S)
  PROVE  IsPrefix(s, t) <=> Len(s) <= Len(t) /\ \A i \in 1 .. Len(s) : s[i] = t[i]
<1>1. Len(s) \in Nat /\ Len(t) \in Nat
  BY LenProperties
<1>2. SubSeq(s, 1, Len(s)) = s
  BY SubSeqFull
<1>3. ASSUME Len(s) <= Len(t)
      PROVE  /\ SubSeq(t, 1, Len(s)) \in Seq(S) /\ Len(SubSeq(t, 1, Len(s))) = Len(s)
             /\ \A i \in 1 .. Len(s) : SubSeq(t, 1, Len(s))[i] = t[i]
  <2>1. \A i \in 1 .. Len(s) : t[i] \in S
    BY <1>1, <1>3, ElementOfSeq
  <2> QED BY <1>1, <2>1, SubSeqProperties
<1>4. ASSUME Len(s) <= Len(t), \A i \in 1 .. Len(s) : s[i] = t[i]
      PROVE  s = SubSeq(t, 1, Len(s))
  BY <1>1, <1>3, <1>4, SeqEqual
<1>5. ASSUME Len(s) <= Len(t), s = SubSeq(t, 1, Len(s))
      PROVE  \A i \in 1 .. Len(s) : s[i] = t[i]
  BY <1>3, <1>5
<1> QED BY <1>2, <1>4, <1>5 DEF IsPrefix

LEMMA PrefixBasics ==
  ASSUME NEW S, NEW s \in Seq(S), NEW t \in Seq(S)
  PROVE  /\ IsPrefix(<<>>, s) /\ IsPrefix(s, s)
         /\ \A u \in Seq(S) : IsPrefix(s, t) /\ IsPrefix(t, u) => IsPrefix(s, u)
         /\ IsPrefix(s, t) /\ Len(s) = Len(t) => s = t
         /\ IsPrefix(s, t) => Len(s) <= Len(t) /\ s = SubSeq(t, 1, Len(s))
<1>1. Len(s) \in Nat /\ Len(t) \in Nat
  BY LenProperties
<1>2. <<>> \in Seq(S) /\ Len(<<>>) = 0
  BY EmptySeq
<1>3. IsPrefix(<<>>, s) /\ IsPrefix(s, s)
  <2>1. IsPrefix(s, s)
    <3>1. Len(s) <= Len(s) /\ \A i \in 1 .. Len(s) : s[i] = s[i]
      BY <1>1
    <3> QED BY <3>1, PrefixElements
  <2>2. SubSeq(<<>>, 1, 0) = <<>> /\ SubSeq(s, 1, 0) = <<>>
    BY SubSeqEmpty
  <2>3. IsPrefix(<<>>, s)
    BY <1>1, <1>2, <2>2 DEF IsPrefix
  <2> QED BY <2>1, <2>2, <2>3
<1>4. ASSUME NEW u \in Seq(S), IsPrefix(s, t), IsPrefix(t, u) PROVE IsPrefix(s, u)
  <2>1. /\ Len(s) <= Len(t) /\ \A i \in 1 .. Len(s) : s[i] = t[i]
        /\ Len(t) <= Len(u) /\ \A i \in 1 .. Len(t) : t[i] = u[i]
    BY <1>4, PrefixElements
  <2>2. Len(u) \in Nat
    BY LenProperties
  <2>3. Len(s) <= Len(u) /\ \A i \in 1 .. Len(s) : s[i] = u[i]
    BY <1>1, <2>1, <2>2
  <2> QED BY <2>3, PrefixElements
<1>5. ASSUME IsPrefix(s, t) PROVE Len(s) <= Len(t) /\ s = SubSeq(t, 1, Len(s))
  BY <1>5, SubSeqFull DEF IsPrefix
<1>6. ASSUME IsPrefix(s, t), Len(s) = Len(t) PROVE s = t
  BY <1>5, <1>6, SubSeqFull
<1> QED BY <1>3, <1>4, <1>5, <1>6

\* A path and the next one.
LEMMA PrefixAppend ==
  ASSUME NEW S, NEW s \in Seq(S), NEW e \in S
  PROVE  /\ Append(s, e) \in Seq(S) /\ Append(s, e) # <<>>
         /\ Len(Append(s, e)) = Len(s) + 1 /\ Len(s) \in Nat
         /\ Front(Append(s, e)) = s /\ Last(Append(s, e)) = e
         /\ IsPrefix(s, Append(s, e)) /\ s # Append(s, e)
<1>1. /\ Append(s, e) \in Seq(S) /\ Append(s, e) # <<>>
      /\ Len(Append(s, e)) = Len(s) + 1 /\ Len(s) \in Nat
      /\ \A i \in 1 .. Len(s) : Append(s, e)[i] = s[i]
      /\ Append(s, e)[Len(s) + 1] = e
  BY AppendProperties, LenProperties
<1>2. IsPrefix(s, Append(s, e)) /\ s # Append(s, e)
  <2> DEFINE a == Append(s, e)
  <2>1. a \in Seq(S) /\ Len(s) <= Len(a) /\ (\A i \in 1 .. Len(s) : s[i] = a[i]) /\ Len(s) # Len(a)
    BY <1>1
  <2> HIDE DEF a
  <2>2. IsPrefix(s, a) /\ s # a
    BY <2>1, PrefixElements
  <2> QED BY <2>2 DEF a
<1>3. /\ Front(Append(s, e)) \in Seq(S) /\ Len(Front(Append(s, e))) = Len(s)
      /\ \A i \in 1 .. Len(s) : Front(Append(s, e))[i] = s[i]
  <2>1. /\ Front(Append(s, e)) \in Seq(S) /\ Len(Front(Append(s, e))) = Len(Append(s, e)) - 1
        /\ \A i \in 1 .. Len(Append(s, e)) - 1 : Front(Append(s, e))[i] = Append(s, e)[i]
    BY <1>1, FrontElements
  <2> QED BY <1>1, <2>1
<1>4. Front(Append(s, e)) = s
  BY <1>3, SeqEqual
<1>5. Last(Append(s, e)) = e
  BY <1>1 DEF Last
<1> QED BY <1>1, <1>2, <1>4, <1>5

\* Between a directory and what is below it there is one of its own entries.
LEMMA PrefixNext ==
  ASSUME NEW S, NEW s \in Seq(S), NEW t \in Seq(S), IsPrefix(s, t), s # t
  PROVE  /\ Len(s) + 1 \in 1 .. Len(t) /\ t[Len(s) + 1] \in S
         /\ Append(s, t[Len(s) + 1]) = SubSeq(t, 1, Len(s) + 1)
         /\ IsPrefix(Append(s, t[Len(s) + 1]), t)
<1>1. Len(s) \in Nat /\ Len(t) \in Nat
  BY LenProperties
<1>2. Len(s) <= Len(t) /\ \A i \in 1 .. Len(s) : s[i] = t[i]
  BY PrefixElements
<1>3. Len(s) # Len(t)
  BY PrefixBasics
<1>4. Len(s) + 1 \in 1 .. Len(t)
  BY <1>1, <1>2, <1>3
<1> DEFINE e == t[Len(s) + 1]
           a == Append(s, e)
<1>5. e \in S
  BY <1>4, ElementOfSeq
<1> HIDE DEF e
<1>6. /\ a \in Seq(S) /\ Len(a) = Len(s) + 1
      /\ \A i \in 1 .. Len(s) : a[i] = s[i]
      /\ a[Len(s) + 1] = e
  BY <1>5, AppendProperties
<1> HIDE DEF a
<1>7. \A i \in 1 .. Len(a) : a[i] = t[i]
  BY <1>1, <1>2, <1>6 DEF e
<1>8. IsPrefix(a, t)
  BY <1>1, <1>4, <1>6, <1>7, PrefixElements
<1>9. a = SubSeq(t, 1, Len(s) + 1)
  BY <1>6, <1>8, PrefixBasics
<1> QED BY <1>4, <1>5, <1>8, <1>9 DEF a, e


-----------------------------------------------------------------------------
(***************************************************************************)
(* Spellings.                                                              *)
(***************************************************************************)
LEMMA OneElement ==
  ASSUME NEW S, NEW e \in S
  PROVE  /\ <<e>> \in Seq(S) /\ Len(<<e>>) = 1 /\ <<e>>[1] = e /\ <<e>> # <<>>
         /\ Append(<<>>, e) = <<e>>
  OBVIOUS

LEMMA TwoElements ==
  ASSUME NEW S, NEW d \in S, NEW e \in S
  PROVE  /\ <<d, e>> \in Seq(S) /\ <<d, e>> # <<>>
         /\ Head(<<d, e>>) = d /\ Tail(<<d, e>>) = <<e>>
         /\ Append(<<d>>, e) = <<d, e>>
<1>1. <<d, e>> \in Seq(S)
  OBVIOUS
<1>2. Len(<<d, e>>) = 2 /\ <<d, e>>[1] = d /\ <<d, e>>[2] = e
  OBVIOUS
<1>3. <<d, e>> # <<>> /\ Head(<<d, e>>) = d
  BY <1>1, <1>2
<1>4. Tail(<<d, e>>) = <<e>>
  <2>1. <<e>> \in Seq(S) /\ Len(<<e>>) = 1 /\ <<e>>[1] = e
    BY OneElement
  <2>2. /\ Tail(<<d, e>>) \in Seq(S) /\ Len(Tail(<<d, e>>)) = Len(<<d, e>>) - 1
        /\ \A i \in 1 .. Len(Tail(<<d, e>>)) : Tail(<<d, e>>)[i] = <<d, e>>[i + 1]
    BY <1>1, <1>3, HeadTailProperties
  <2>3. Len(Tail(<<d, e>>)) = 1 /\ Tail(<<d, e>>)[1] = e
    BY <1>2, <2>2
  <2>4. \A i \in 1 .. Len(<<e>>) : Tail(<<d, e>>)[i] = <<e>>[i]
    BY <2>1, <2>3
  <2> QED BY <2>1, <2>2, <2>3, <2>4, SeqEqual
<1>5. Append(<<d>>, e) = <<d, e>>
  <2>1. <<d>> \in Seq(S) /\ Len(<<d>>) = 1 /\ <<d>>[1] = d
    BY OneElement
  <2>2. /\ Append(<<d>>, e) \in Seq(S) /\ Len(Append(<<d>>, e)) = Len(<<d>>) + 1
        /\ \A i \in 1 .. Len(<<d>>) : Append(<<d>>, e)[i] = <<d>>[i]
        /\ Append(<<d>>, e)[Len(<<d>>) + 1] = e
    BY <2>1, AppendProperties
  <2>3. Len(Append(<<d>>, e)) = 2 /\ Append(<<d>>, e)[1] = d /\ Append(<<d>>, e)[2] = e
    BY <2>1, <2>2
  <2>4. \A i \in 1 .. Len(Append(<<d>>, e)) : Append(<<d>>, e)[i] = <<d, e>>[i]
    BY <1>2, <2>3
  <2> QED BY <1>1, <1>2, <2>2, <2>3, <2>4, SeqEqual
<1> QED BY <1>1, <1>3, <1>4, <1>5

\* A name in a directory, by any spelling: an entry of that directory.
LEMMA PlaceInDir ==
  ASSUME NEW W, NEW path \in Seq(W), path # <<>>, NEW name \in W
  PROVE  /\ InDir(path, name) \in Seq(W) /\ InDir(path, name) # <<>>
         /\ Place(InDir(path, name)) = Append(Place(path), name)
         /\ Place(path) \in Seq(W)
<1>1. Append(path, name) \in Seq(W) /\ Append(path, name) # <<>>
  BY AppendProperties
<1>2. /\ Head(Append(path, name)) = Head(path)
      /\ Tail(Append(path, name)) = Append(Tail(path), name)
  BY HeadTailAppend
<1>3. Tail(path) \in Seq(W)
  BY HeadTailProperties
<1> QED BY <1>1, <1>2, <1>3 DEF InDir, Place

LEMMA PlaceInRoot ==
  ASSUME NEW W, "" \in W, NEW name \in W
  PROVE  /\ <<"", name>> \in Seq(W) /\ <<"", name>> # <<>> /\ Place(<<"", name>>) = <<name>>
         /\ <<name>> \in Seq(W)
  BY TwoElements, OneElement DEF Place

\* The last name on the way to a place is one of the names of the tree.
LEMMA LastNameIs ==
  ASSUME NEW W, NEW s \in Seq(W), NEW name \in W, Append(s, name) \in Places
  PROVE  name \in Names
<1> DEFINE q == Append(s, name)
<1>1. Len(q) = Len(s) + 1 /\ q[Len(s) + 1] = name /\ Len(s) \in Nat /\ q \in Seq(Names)
  BY ZenonT(60), AppendProperties, LenProperties, PlacesAreSeqs
<1> HIDE DEF q
<1>2. Len(q) \in 1 .. Len(q) /\ q[Len(q)] = name
  BY <1>1
<1> QED BY <1>1, <1>2, ElementOfSeq

\* What leads to a place of the tree is one of its spellings.
LEMMA SpellingInDir ==
  ASSUME NEW W, PathName \subseteq W, NEW name \in W, NEW path \in Spellings,
         Place(InDir(path, name)) \in Places
  PROVE  /\ InDir(path, name) \in Spellings /\ name \in Names
         /\ Place(InDir(path, name)) = Append(Place(path), name)
<1>1. path \in Seq(PathName) /\ path # <<>> /\ Place(path) \in Places
  BY DEF Spellings
<1>2. path \in Seq(W)
  BY <1>1, SeqMonotonic
<1>3. Place(InDir(path, name)) = Append(Place(path), name) /\ Place(path) \in Seq(W)
  BY <1>1, <1>2, PlaceInDir
<1>4. name \in Names
  BY <1>3, LastNameIs
<1>5. name \in PathName
  BY <1>4 DEF PathName
<1>6. InDir(path, name) \in Seq(PathName) /\ InDir(path, name) # <<>>
  BY <1>1, <1>5, PlaceInDir
<1> QED BY <1>3, <1>4, <1>6 DEF Spellings

LEMMA SpellingInRoot ==
  ASSUME NEW W, PathName \subseteq W, NEW name \in W, Place(<<"", name>>) \in Places
  PROVE  <<"", name>> \in Spellings /\ name \in Names /\ Place(<<"", name>>) = <<name>>
<1>1. "" \in PathName /\ "" \in W
  BY DEF PathName
<1>2. Place(<<"", name>>) = <<name>>
  BY <1>1, PlaceInRoot
<1>3. name \in Names
  <2>1. <<name>> = Append(<<>>, name) /\ <<>> \in Seq(W)
    BY OneElement, EmptySeq
  <2>2. Append(<<>>, name) \in Places
    BY <1>2, <2>1
  <2> QED BY <2>1, <2>2, LastNameIs
<1>4. name \in PathName
  BY <1>3 DEF PathName
<1>5. <<"", name>> \in Seq(PathName) /\ <<"", name>> # <<>>
  BY <1>1, <1>4, PlaceInRoot
<1> QED BY <1>2, <1>3, <1>5 DEF Spellings

\* A directory of the guest that is not the root names its place.
LEMMA DirIsPlace ==
  ASSUME NEW dir \in Seq(Names), dir # <<>>
  PROVE  Place(dir) = dir /\ dir \in Seq(PathName) /\ DirPath(dir) = dir
<1>1. Head(dir) \in Names
  BY HeadTailProperties
<1>2. dir \in Seq(PathName)
  BY SeqMonotonic DEF PathName
<1>3. Head(dir) # ""
  BY <1>1, PlacesAreSeqs
<1> QED BY <1>2, <1>3 DEF Place, DirPath

\* The path that READDIR gives to vfs_stat.
LEMMA NamePathIs ==
  ASSUME NEW dir \in Seq(Names), NEW name \in Names
  PROVE  /\ InDir(DirPath(dir), name) \in Seq(PathName)
         /\ Place(InDir(DirPath(dir), name)) = Append(dir, name)
         /\ Append(dir, name) \in Places => InDir(DirPath(dir), name) \in Spellings
<1>1. name \in PathName /\ "" \in PathName
  BY DEF PathName
<1>2. /\ InDir(DirPath(dir), name) \in Seq(PathName) /\ InDir(DirPath(dir), name) # <<>>
      /\ Place(InDir(DirPath(dir), name)) = Append(dir, name)
  <2>1. CASE dir = <<>>
    <3>1. InDir(DirPath(dir), name) = Append(<<"">>, name)
      BY <2>1 DEF InDir, DirPath
    <3>2. Append(<<"">>, name) = <<"", name>> /\ Append(<<>>, name) = <<name>>
      BY <1>1, TwoElements, OneElement
    <3> QED BY <1>1, <2>1, <3>1, <3>2, PlaceInRoot
  <2>2. CASE dir # <<>>
    BY ZenonT(60), <1>1, <2>2, DirIsPlace, PlaceInDir
  <2> QED BY <2>1, <2>2
<1> QED BY <1>2 DEF Spellings

-----------------------------------------------------------------------------
(***************************************************************************)
(* The table of cluster numbers.                                           *)
(***************************************************************************)
Index == 0 .. MaxAssignments - 1

LEMMA Sizes ==
  /\ MaxAssignments \in Nat \ {0} /\ NumDrives \in Nat \ {0} /\ Drive \subseteq Nat
  /\ 0 \in Drive /\ Number = 0 .. MaxAssignments + 1 /\ ClusMin = 1 /\ RootClus = 0
  BY SizesAssumption DEF Drive, Number, ClusMin, RootClus

\* The arrays lie one behind the other.
LEMMA SlotsApart ==
  ASSUME NEW dv \in Drive, NEW i \in 0 .. MaxAssignments
  PROVE  /\ Slot(dv, i) \in Slots
         /\ \A e \in Drive, j \in Index : i \in Index /\ Slot(dv, i) = Slot(e, j) => dv = e /\ i = j
<1> DEFINE M == MaxAssignments
<1>1. M \in Nat \ {0} /\ NumDrives \in Nat /\ dv \in Nat /\ dv <= NumDrives - 1
  BY Sizes DEF Drive
<1>2. ASSUME NEW a \in Nat, NEW b \in Nat, a < b PROVE a * M + M <= b * M
  <2>1. b - a - 1 \in Nat /\ b = a + 1 + (b - a - 1)
    BY <1>2
  <2>2. PICK d \in Nat : b = a + 1 + d
    BY <2>1
  <2>3. d * M \in Nat
    BY <1>1
  <2>4. b * M = a * M + M + d * M
    BY <1>1, <2>2
  <2>5. a * M \in Nat
    BY <1>1
  <2> HIDE DEF M
  <2> QED BY <1>1, <2>3, <2>4, <2>5
<1>3. dv * M + M <= NumDrives * M /\ dv * M \in Nat /\ NumDrives * M \in Nat
  BY <1>1, <1>2
<1>4. Slot(dv, i) = dv * M + i /\ Slots = 0 .. NumDrives * M
  BY DEF Slot, Slots
<1>5. i \in 0 .. M /\ Index = 0 .. M - 1
  BY DEF Index
<1>6. Slot(dv, i) \in Slots
  <2> HIDE DEF M
  <2> QED BY <1>1, <1>3, <1>4, <1>5
<1>7. ASSUME NEW e \in Drive, NEW j \in Index, i \in Index, dv * M + i = e * M + j
      PROVE  dv = e /\ i = j
  <2>1. e \in Nat /\ e * M \in Nat
    BY <1>1, Sizes
  <2>2. dv < e => dv * M + M <= e * M
    BY <1>1, <1>2, <2>1
  <2>3. e < dv => e * M + M <= dv * M
    BY <1>1, <1>2, <2>1
  <2>4. dv = e
    <3> HIDE DEF M
    <3> QED BY <1>1, <1>3, <1>5, <1>7, <2>1, <2>2, <2>3
  <2>5. i = j
    <3> HIDE DEF M
    <3> QED BY <1>1, <1>3, <1>5, <1>7, <2>4
  <2> QED BY <2>4, <2>5
<1> QED BY <1>4, <1>6, <1>7 DEF Slot

\* Where get_node_by_path stops.
LEMMA NodeIndexIs ==
  ASSUME NEW path, NEW dv
  PROVE  LET i == NodeIndex(path, dv) IN
         /\ i \in 0 .. MaxAssignments
         /\ i \in Index => \/ assignments[Slot(dv, i)] = NULL
                           \/ assignments[Slot(dv, i)].path = path
         /\ \A j \in Index : j < i => /\ assignments[Slot(dv, j)] # NULL
                                      /\ assignments[Slot(dv, j)].path # path
<1> DEFINE Stops(j) == \/ j = MaxAssignments
                       \/ assignments[Slot(dv, j)] = NULL
                       \/ assignments[Slot(dv, j)].path = path
           T == {j \in 0 .. MaxAssignments : Stops(j)}
           i == NodeIndex(path, dv)
<1>1. T \subseteq Nat /\ MaxAssignments \in T
  BY Sizes
<1>2. PICK m \in T : \A j \in T : m <= j
  <2> HIDE DEF T
  <2> QED BY <1>1, SmallestOf
<1>3. m \in 0 .. MaxAssignments /\ Stops(m) /\ \A j \in 0 .. m - 1 : ~Stops(j)
  <2>1. ASSUME NEW j \in 0 .. m - 1 PROVE ~Stops(j)
    <3>1. j \in 0 .. MaxAssignments /\ ~(m <= j)
      BY <1>2, Sizes
    <3> QED BY <1>2, <3>1
  <2> QED BY <1>2, <2>1
<1>4. i = CHOOSE k \in 0 .. MaxAssignments : Stops(k) /\ \A j \in 0 .. k - 1 : ~Stops(j)
  BY DEF NodeIndex
<1>5. i \in 0 .. MaxAssignments /\ Stops(i) /\ \A j \in 0 .. i - 1 : ~Stops(j)
  <2> HIDE DEF Stops, i
  <2> QED BY <1>3, <1>4
<1>6. \A j \in Index : j < i => j \in 0 .. i - 1
  BY <1>5, Sizes DEF Index
<1>7. i \in Index => i # MaxAssignments
  BY Sizes DEF Index
<1> HIDE DEF i
<1> QED BY <1>5, <1>6, <1>7 DEF i

TableType == assignments \in [Slots -> Node \cup {NULL}]

\* A path that is known leaves the table alone; another is written into an element
\* that was empty, or behind the table.
LEMMA GetNodeIs ==
  ASSUME TableType, NEW path \in Spellings, NEW dv \in Drive
  PROVE  LET i == NodeIndex(path, dv) IN
         /\ i \in 0 .. MaxAssignments /\ Slot(dv, i) \in Slots
         /\ \/ /\ i \in Index /\ assignments[Slot(dv, i)] # NULL
               /\ assignments[Slot(dv, i)].path = path
               /\ get_node_by_path(path, dv) = assignments
            \/ /\ i \in Index => assignments[Slot(dv, i)] = NULL
               /\ get_node_by_path(path, dv) =
                    [assignments EXCEPT ![Slot(dv, i)] = [path |-> path, clus |-> ClusMin + i]]
<1> DEFINE i == NodeIndex(path, dv)
<1>1. /\ i \in 0 .. MaxAssignments
      /\ i \in Index => assignments[Slot(dv, i)] = NULL \/ assignments[Slot(dv, i)].path = path
  BY NodeIndexIs
<1>2. i < MaxAssignments <=> i \in Index
  BY <1>1, Sizes DEF Index
<1> HIDE DEF i
<1>3. Slot(dv, i) \in Slots
  BY <1>1, SlotsApart
<1>4. CASE Known(path, dv)
  BY <1>1, <1>2, <1>3, <1>4 DEF Known, get_node_by_path, i
<1>5. CASE ~Known(path, dv)
  <2>1. i \in Index => assignments[Slot(dv, i)] = NULL
    BY <1>1, <1>2, <1>5 DEF Known, i
  <2>2. get_node_by_path(path, dv) =
          [assignments EXCEPT ![Slot(dv, i)] = [path |-> path, clus |-> ClusMin + i]]
    BY <1>5 DEF get_node_by_path, i
  <2> QED BY <1>1, <1>3, <2>1, <2>2 DEF i
<1> QED BY <1>4, <1>5

\* While tables hold, what is in them stays.
Stays == \A s \in Slots : assignments[s] # NULL => assignments'[s] = assignments[s]

LEMMA RecordKeeps ==
  ASSUME TableType, TableSound, NEW path \in Spellings, NEW dv \in Drive,
         assignments' = get_node_by_path(path, dv)
  PROVE  /\ TableType' /\ TableSound' /\ (TablesHold' => TablesHold /\ Stays)
         /\ \E c \in Number :
              /\ c = ClusOf(path, dv) /\ c # 0
              /\ TablesHold' => /\ c \in 1 .. MaxAssignments
                                /\ get_node_by_clus(c, dv)' # NULL
                                /\ get_node_by_clus(c, dv)'.path = path
<1> DEFINE i == NodeIndex(path, dv)
           node == [path |-> path, clus |-> ClusMin + i]
<1>1. /\ i \in 0 .. MaxAssignments /\ Slot(dv, i) \in Slots
      /\ \/ /\ i \in Index /\ assignments[Slot(dv, i)] # NULL
            /\ assignments[Slot(dv, i)].path = path
            /\ assignments' = assignments
         \/ /\ i \in Index => assignments[Slot(dv, i)] = NULL
            /\ assignments' = [assignments EXCEPT ![Slot(dv, i)] = node]
  BY GetNodeIs
<1>2. ClusOf(path, dv) = assignments'[Slot(dv, i)].clus
  BY DEF ClusOf
<1> HIDE DEF i
<1>3. path \in Seq(PathName) /\ Place(path) \in Places
  BY DEF Spellings
<1>4. node \in Node /\ node.path = path /\ node.clus = 1 + i
  <2>1. ClusMin + i \in Number /\ ClusMin + i = 1 + i
    BY <1>1, Sizes
  <2>2. path \in Seq(Names \cup {""})
    BY <1>3 DEF PathName
  <2> DEFINE k == ClusMin + i
  <2>3. k \in Number /\ k = 1 + i
    BY <2>1
  <2> HIDE DEF k
  <2>4. [path |-> path, clus |-> k] \in Node
    BY <2>2, <2>3 DEF Node
  <2>5. node = [path |-> path, clus |-> k]
    BY DEF k
  <2> QED BY <2>3, <2>4, <2>5
<1>5. \A n \in Node : n # NULL /\ n.clus \in Number
  BY NodeAssumption DEF Node
<1> HIDE DEF node
<1>6. TableType'
  BY <1>1, <1>4 DEF TableType
<1>7. \A s \in Slots : \/ assignments'[s] = assignments[s]
                       \/ s = Slot(dv, i) /\ assignments'[s] = node /\ (i \in Index => assignments[s] = NULL)
  BY <1>1 DEF TableType
<1>8. (assignments'[Slot(dv, i)] # NULL /\ assignments'[Slot(dv, i)].path = path) \/ i \notin Index
  BY <1>1, <1>4, <1>5 DEF TableType
<1>9. TableSound'
  <2>1. \A s \in Slots : assignments'[s] # NULL => assignments'[s].path \in Spellings
    BY <1>4, <1>7 DEF TableSound
  <2>2. ASSUME NEW e \in Drive, NEW j \in Index, assignments'[Slot(e, j)] # NULL
        PROVE  assignments'[Slot(e, j)].clus \in {1 + j, 1 + MaxAssignments}
    <3>1. Slot(e, j) \in Slots /\ j \in 0 .. MaxAssignments
      BY SlotsApart, Sizes DEF Index
    <3>2. CASE assignments'[Slot(e, j)] = assignments[Slot(e, j)]
      BY <2>2, <3>2, Sizes DEF TableSound, Index
    <3>3. CASE Slot(e, j) = Slot(dv, i) /\ assignments'[Slot(e, j)] = node
      <4>1. i \in Index => i = j
        BY <1>1, <3>3, SlotsApart
      <4>2. i = j \/ i = MaxAssignments
        BY <1>1, <4>1, Sizes DEF Index
      <4> QED BY <1>4, <3>3, <4>2
    <3> QED BY <1>7, <3>1, <3>2, <3>3
  <2> QED BY <2>1, <2>2, Sizes DEF TableSound, Index
<1>10. ASSUME TablesHold' PROVE TablesHold /\ Stays /\ i \in Index
  <2>1. assignments'[Slot(dv, i)] = node \/ i \in Index
    BY <1>1 DEF TableType
  <2>2. i \in Index
    <3>1. assignments'[Slot(dv, i)] = node => 1 + i < 1 + MaxAssignments
      BY <1>1, <1>4, <1>5, <1>10, Sizes DEF TablesHold
    <3> QED BY <1>1, <2>1, <3>1, Sizes DEF Index
  <2>3. Stays
    BY <1>7, <2>2 DEF Stays
  <2>4. TablesHold
    BY <1>10, <2>3 DEF TablesHold, Stays
  <2> QED BY <2>2, <2>3, <2>4
<1> DEFINE c == assignments'[Slot(dv, i)].clus
<1>11. c \in {1 + i, 1 + MaxAssignments}
  <2>1. CASE i \in Index
    BY <1>8, <1>9, <2>1, Sizes DEF TableSound, Index
  <2>2. CASE i \notin Index
    BY <1>1, <1>4, <2>2, Sizes DEF TableType
  <2> QED BY <2>1, <2>2
<1>12. ASSUME TablesHold' PROVE c = 1 + i /\ i \in Index
  <2>1. i \in Index /\ assignments'[Slot(dv, i)] # NULL
    BY <1>8, <1>10, <1>12
  <2>2. c < 1 + MaxAssignments
    BY <1>1, <1>12, <2>1, Sizes DEF TablesHold
  <2>3. c = 1 + i \/ c = 1 + MaxAssignments
    BY <1>11
  <2> HIDE DEF c
  <2> QED BY <2>1, <2>2, <2>3, Sizes
<1>13. PICK n \in Number : n = c /\ n # 0
  BY <1>1, <1>11, Sizes
<1>14. ASSUME TablesHold'
       PROVE  /\ n \in 1 .. MaxAssignments /\ get_node_by_clus(n, dv)' # NULL
              /\ get_node_by_clus(n, dv)'.path = path
  <2>1. n = 1 + i /\ i \in Index /\ n \in Int
    BY <1>12, <1>13, <1>14, Sizes
  <2>2. n - 1 = i /\ n \in 1 .. MaxAssignments
    BY <2>1, Sizes DEF Index
  <2>3. get_node_by_clus(n, dv)' = assignments'[Slot(dv, i)]
    BY <2>1, <2>2, Sizes DEF get_node_by_clus, Index
  <2> QED BY <1>8, <2>1, <2>2, <2>3
<1> QED BY <1>2, <1>6, <1>9, <1>10, <1>13, <1>14

\* The numbers of what stays lead to it.
LEMMA StaysPath ==
  ASSUME Stays, NEW dv \in Drive, NEW c, get_node_by_clus(c, dv) # NULL
  PROVE  get_node_by_clus(c, dv)' = get_node_by_clus(c, dv) /\ PathOf(c, dv)' = PathOf(c, dv)
<1>1. c - ClusMin \in Index /\ get_node_by_clus(c, dv) = assignments[Slot(dv, c - ClusMin)]
  BY DEF get_node_by_clus, Index
<1>2. Slot(dv, c - ClusMin) \in Slots
  <2>1. c - ClusMin \in 0 .. MaxAssignments
    BY <1>1, Sizes DEF Index
  <2> QED BY <2>1, SlotsApart
<1>3. get_node_by_clus(c, dv)' = assignments'[Slot(dv, c - ClusMin)]
  BY <1>1 DEF get_node_by_clus, Index
<1>4. get_node_by_clus(c, dv)' = get_node_by_clus(c, dv)
  BY <1>1, <1>2, <1>3 DEF Stays
<1> QED BY <1>4 DEF PathOf

\* An element that a number leads to.
LEMMA NodeIs ==
  ASSUME TableType, TableSound, NEW dv \in Drive, NEW c, get_node_by_clus(c, dv) # NULL
  PROVE  /\ get_node_by_clus(c, dv).path \in Spellings
         /\ PathOf(c, dv) = Place(get_node_by_clus(c, dv).path)
         /\ PathOf(c, dv) \in Places
<1>1. c - ClusMin \in Index /\ get_node_by_clus(c, dv) = assignments[Slot(dv, c - ClusMin)]
  BY DEF get_node_by_clus, Index
<1>2. Slot(dv, c - ClusMin) \in Slots
  <2>1. c - ClusMin \in 0 .. MaxAssignments
    BY <1>1, Sizes DEF Index
  <2> QED BY <2>1, SlotsApart
<1>3. get_node_by_clus(c, dv).path \in Spellings
  BY <1>1, <1>2 DEF TableSound
<1>4. PathOf(c, dv) = Place(get_node_by_clus(c, dv).path)
  BY DEF PathOf
<1> QED BY <1>3, <1>4 DEF Spellings

-----------------------------------------------------------------------------
(***************************************************************************)
(* Looking a name up.                                                      *)
(***************************************************************************)
\* One name further along a path.
LEMMA ConcatNext ==
  ASSUME NEW S, NEW d \in Seq(S), NEW t \in Seq(S), t # <<>>
  PROVE  /\ Head(t) \in S /\ Tail(t) \in Seq(S) /\ Len(Tail(t)) = Len(t) - 1 /\ Len(t) \in Nat \ {0}
         /\ Append(d, Head(t)) \o Tail(t) = d \o t
         /\ Append(d, Head(t)) = SubSeq(d \o t, 1, Len(d) + 1)
         /\ IsPrefix(Append(d, Head(t)), d \o t) /\ IsPrefix(d, d \o t)
         /\ Len(d) + 1 \in 1 .. Len(d \o t) /\ d \o t \in Seq(S)
<1> DEFINE h == Head(t)
           a == Append(d, h)
           u == d \o t
<1>1. /\ h \in S /\ Tail(t) \in Seq(S) /\ Len(Tail(t)) = Len(t) - 1
      /\ \A i \in 1 .. Len(Tail(t)) : Tail(t)[i] = t[i + 1]
  BY HeadTailProperties
<1>2. Len(t) \in Nat \ {0} /\ Len(d) \in Nat /\ h = t[1]
  BY LenProperties, EmptySeq
<1> HIDE DEF h
<1>3. /\ a \in Seq(S) /\ Len(a) = Len(d) + 1
      /\ \A i \in 1 .. Len(d) : a[i] = d[i]
      /\ a[Len(d) + 1] = h
  BY <1>1, AppendProperties
<1>4. /\ u \in Seq(S) /\ Len(u) = Len(d) + Len(t)
      /\ \A i \in 1 .. Len(d) + Len(t) : u[i] = IF i <= Len(d) THEN d[i] ELSE t[i - Len(d)]
  BY ConcatProperties
<1>5. /\ a \o Tail(t) \in Seq(S) /\ Len(a \o Tail(t)) = Len(a) + Len(Tail(t))
      /\ \A i \in 1 .. Len(a) + Len(Tail(t)) :
           (a \o Tail(t))[i] = IF i <= Len(a) THEN a[i] ELSE Tail(t)[i - Len(a)]
  BY <1>1, <1>3, ConcatProperties
<1> DEFINE v == a \o Tail(t)
           r == Tail(t)
           n == Len(d)
           m == Len(t)
<1>6. v \in Seq(S) /\ Len(v) = Len(u)
  BY <1>1, <1>2, <1>3, <1>4, <1>5
<1>7. ASSUME NEW i \in 1 .. Len(v) PROVE v[i] = u[i]
  <2>1. i \in 1 .. n + m /\ n \in Nat /\ m \in Nat \ {0}
    BY <1>2, <1>4, <1>6, <1>7
  <2>2. v[i] = IF i <= n + 1 THEN a[i] ELSE r[i - (n + 1)]
    BY <1>1, <1>2, <1>3, <1>5, <2>1
  <2>3. u[i] = IF i <= n THEN d[i] ELSE t[i - n]
    BY <1>4, <2>1
  <2>4. CASE i <= n
    BY <1>3, <2>1, <2>2, <2>3, <2>4
  <2>5. CASE i = n + 1
    <3>1. i - n = 1
      BY <2>1, <2>5
    <3> QED BY <1>2, <1>3, <2>1, <2>2, <2>3, <2>5, <3>1
  <2>6. CASE i > n + 1
    <3>1. i - (n + 1) \in 1 .. m - 1 /\ i - (n + 1) + 1 = i - n
      BY <2>1, <2>6
    <3>2. r[i - (n + 1)] = t[i - (n + 1) + 1]
      BY <1>1, <3>1
    <3> QED BY <2>1, <2>2, <2>3, <2>6, <3>1, <3>2
  <2> HIDE DEF n, m, r, v, u, a
  <2> QED BY <2>1, <2>4, <2>5, <2>6
<1>8. v = u
  <2> HIDE DEF v, u
  <2> QED BY <1>4, <1>6, <1>7, SeqEqual
<1>9. IsPrefix(a, u) /\ IsPrefix(d, u)
  <2>1. Len(a) <= Len(u) /\ \A i \in 1 .. Len(a) : a[i] = u[i]
    <3>1. n \in Nat /\ m \in Nat \ {0} /\ Len(a) = n + 1 /\ Len(u) = n + m
      BY <1>2, <1>3, <1>4
    <3>2. \A i \in 1 .. n + 1 : v[i] = a[i]
      BY <1>1, <1>2, <1>3, <1>5
    <3> HIDE DEF v, u, a, n, m
    <3> QED BY <1>8, <3>1, <3>2
  <2>2. Len(d) <= Len(u) /\ \A i \in 1 .. Len(d) : d[i] = u[i]
    BY <1>2, <1>4
  <2> HIDE DEF u, a
  <2> QED BY <1>3, <1>4, <2>1, <2>2, PrefixElements
<1>10. a = SubSeq(u, 1, Len(d) + 1)
  <2> HIDE DEF u, a
  <2> QED BY <1>3, <1>4, <1>9, PrefixBasics
<1>11. Len(d) + 1 \in 1 .. Len(u)
  BY <1>2, <1>4
<1> QED BY <1>1, <1>2, <1>4, <1>8, <1>9, <1>10, <1>11 DEF h

\* What is on the way to a place is a place.
LEMMA PlaceAbove ==
  ASSUME NEW p \in Places, NEW d \in Seq(Names), IsPrefix(d, p), d # <<>>
  PROVE  d \in Places
<1>1. p \in Seq(Names) /\ Len(p) \in Nat /\ Len(d) \in Nat \ {0}
  BY PlacesAreSeqs, LenProperties, EmptySeq
<1>2. Len(d) <= Len(p) /\ d = SubSeq(p, 1, Len(d))
  BY <1>1, PrefixBasics
<1> DEFINE k == Len(d)
<1>3. k \in 1 .. Len(p) /\ d = SubSeq(p, 1, k)
  BY <1>1, <1>2
<1> HIDE DEF k
<1> QED BY <1>3, PlacesAreSeqs

\* What is above a path is above the directory the path is in.
LEMMA PrefixFront ==
  ASSUME NEW S, NEW s \in Seq(S), NEW t \in Seq(S), t # <<>>
  PROVE  /\ Front(t) \in Seq(S) /\ IsPrefix(Front(t), t) /\ Front(t) # t
         /\ Last(t) \in S /\ Append(Front(t), Last(t)) = t
         /\ IsPrefix(s, t) /\ s # t => IsPrefix(s, Front(t))
<1> DEFINE f == Front(t)
<1>1. /\ Last(t) \in S /\ f \in Seq(S) /\ Len(f) = Len(t) - 1 /\ Last(t) = t[Len(t)]
      /\ \A i \in 1 .. Len(t) - 1 : f[i] = t[i]
  BY FrontElements
<1>2. Len(t) \in Nat \ {0} /\ Len(s) \in Nat
  BY LenProperties, EmptySeq
<1> HIDE DEF f
<1>3. f # t /\ Len(f) <= Len(t) /\ \A i \in 1 .. Len(f) : f[i] = t[i]
  BY <1>1, <1>2
<1>4. IsPrefix(f, t)
  BY <1>1, <1>3, PrefixElements
<1>5. ASSUME IsPrefix(s, t), s # t PROVE IsPrefix(s, f)
  <2>1. Len(s) <= Len(t) /\ \A i \in 1 .. Len(s) : s[i] = t[i]
    BY <1>5, PrefixElements
  <2>2. Len(s) # Len(t)
    BY <1>5, PrefixBasics
  <2>3. Len(s) <= Len(f) /\ \A i \in 1 .. Len(s) : s[i] = f[i]
    BY <1>1, <1>2, <2>1, <2>2
  <2> QED BY <1>1, <2>3, PrefixElements
<1>6. Append(f, Last(t)) = t
  <2> DEFINE a == Append(f, Last(t))
  <2>1. /\ a \in Seq(S) /\ Len(a) = Len(f) + 1 /\ a[Len(f) + 1] = Last(t)
        /\ \A i \in 1 .. Len(f) : a[i] = f[i]
    BY <1>1, AppendProperties
  <2> HIDE DEF a
  <2>2. Len(a) = Len(t) /\ \A i \in 1 .. Len(a) : a[i] = t[i]
    BY <1>1, <1>2, <2>1
  <2>3. a = t
    BY <2>1, <2>2, SeqEqual
  <2> QED BY <2>3 DEF a
<1> QED BY <1>1, <1>3, <1>4, <1>5, <1>6 DEF f

LEMMA PrefixSame ==
  ASSUME NEW S, NEW s \in Seq(S), NEW t \in Seq(S), IsPrefix(s, t), IsPrefix(t, s)
  PROVE  s = t
<1>1. Len(s) \in Nat /\ Len(t) \in Nat /\ Len(s) <= Len(t) /\ Len(t) <= Len(s)
  BY PrefixBasics, LenProperties
<1>2. Len(s) = Len(t)
  BY <1>1
<1> QED BY <1>2, PrefixBasics

\* A directory that is anchored is there, with all that it is in.
LEMMA AnchoredIs ==
  ASSUME TreeSound, NEW dv \in Drive, NEW dir \in Seq(Names), Anchored(dv, dir),
         NEW q \in Seq(Names), q # <<>>, IsPrefix(q, dir)
  PROVE  q \in Places /\ tree[dv][q] = "dir"
<1>1. PICK p \in Places : /\ tree[dv][p] # "none"
                          /\ IsPrefix(dir, p) /\ (dir = p => tree[dv][p] = "dir")
  BY DEF Anchored
<1>2. p \in Seq(Names)
  BY PlacesAreSeqs
<1>3. IsPrefix(q, p)
  BY <1>1, <1>2, PrefixBasics
<1>4. q \in Places
  BY <1>3, PlaceAbove
<1>5. q = p => dir = p
  BY <1>1, <1>2, PrefixSame
<1> QED BY <1>1, <1>3, <1>4, <1>5 DEF TreeSound

\* Below an anchored directory that is not the last.
LEMMA AnchoredAbove ==
  ASSUME NEW dv \in Drive, NEW dir \in Seq(Names), NEW d \in Seq(Names), IsPrefix(d, dir),
         Anchored(dv, dir)
  PROVE  Anchored(dv, d)
<1>1. PICK p \in Places : /\ <<dv, p>> \in stable /\ tree[dv][p] # "none"
                          /\ IsPrefix(dir, p) /\ (dir = p => tree[dv][p] = "dir")
  BY DEF Anchored
<1>2. p \in Seq(Names)
  BY PlacesAreSeqs
<1>3. IsPrefix(d, p)
  BY <1>1, <1>2, PrefixBasics
<1>4. d = p => dir = p
  BY <1>1, <1>2, PrefixSame
<1> QED BY <1>1, <1>3, <1>4 DEF Anchored

\* Where a lookup takes place.
DirOf(clus, dv) == IF clus = 0 THEN <<>> ELSE PathOf(clus, dv)
AnyName == Word \cup {""}

LEMMA NamesAreWords == PathName \subseteq AnyName /\ Names \subseteq AnyName /\ Word \subseteq AnyName
  BY DEF PathName, AnyName, Word

\* What AbsPath leads to, if anything is there.
LEMMA AbsPathIs ==
  ASSUME TableType, TableSound, cur_dv \in Drive, NEW clus \in Number, NEW name \in AnyName,
         NEW path, path = AbsPath(clus, name)
  PROVE  /\ path # NULL /\ Exists(cur_dv, Place(path)) =>
              /\ path \in Spellings /\ name \in Names
              /\ clus # 0 => get_node_by_clus(clus, cur_dv) # NULL
              /\ Place(path) = Append(DirOf(clus, cur_dv), name) /\ Place(path) \in Places
         /\ /\ clus # 0 => get_node_by_clus(clus, cur_dv) # NULL
            /\ Exists(cur_dv, DirOf(clus, cur_dv))
            /\ Append(DirOf(clus, cur_dv), name) \in Places
            => path # NULL /\ Place(path) = Append(DirOf(clus, cur_dv), name)
<1>1. PathName \subseteq AnyName /\ "" \in AnyName /\ \A q \in Seq(PathName) : q # NULL
  BY NullAssumption DEF AnyName, PathName, Word
<1>2. CASE clus = 0
  <2>1. path = <<"", name>> /\ DirOf(clus, cur_dv) = <<>> /\ Append(<<>>, name) = <<name>>
    BY <1>2, Sizes, OneElement DEF AbsPath, DirOf
  <2>2. Place(path) = <<name>> /\ <<name>> # <<>>
    BY <1>1, <2>1, PlaceInRoot, OneElement
  <2>3. Place(path) \in Places => path \in Spellings /\ name \in Names
    BY <1>1, <2>1, SpellingInRoot
  <2>4. Exists(cur_dv, Place(path)) => Place(path) \in Places
    BY <2>2 DEF Exists
  <2>5. path \in Spellings => path # NULL
    BY <1>1 DEF Spellings
  <2> QED BY <1>2, <2>1, <2>2, <2>3, <2>4, <2>5
<1>3. CASE clus # 0
  <2> DEFINE node == get_node_by_clus(clus, cur_dv)
             dir == vfs_statclus(clus, cur_dv)
  <2>1. path = IF dir = NULL THEN NULL ELSE InDir(dir, name)
    BY <1>3, Sizes DEF AbsPath
  <2>2. DirOf(clus, cur_dv) = PathOf(clus, cur_dv)
    BY <1>3 DEF DirOf
  <2>3. dir = IF node # NULL /\ Exists(cur_dv, Place(node.path)) THEN node.path ELSE NULL
    BY DEF vfs_statclus
  <2>4. CASE node = NULL
    BY <1>3, <2>1, <2>3, <2>4
  <2>5. CASE node # NULL
    <3>1. node.path \in Spellings /\ PathOf(clus, cur_dv) = Place(node.path)
      BY <2>5, NodeIs
    <3> HIDE DEF node, dir
    <3> DEFINE d == node.path
    <3>2. d \in Spellings /\ d \in Seq(PathName) /\ d # <<>> /\ d # NULL
      BY <1>1, <3>1 DEF Spellings
    <3>3. d \in Seq(AnyName)
      BY <1>1, <3>2, SeqMonotonic
    <3>4. /\ InDir(d, name) # <<>> /\ Place(InDir(d, name)) = Append(Place(d), name)
          /\ Place(d) \in Seq(AnyName)
      BY <3>2, <3>3, PlaceInDir
    <3>5. Append(Place(d), name) # <<>>
      BY <3>4, AppendProperties
    <3>6. Place(InDir(d, name)) \in Places => InDir(d, name) \in Spellings /\ name \in Names
      BY <1>1, <3>2, SpellingInDir
    <3>7. ASSUME path # NULL, Exists(cur_dv, Place(path))
          PROVE  /\ path \in Spellings /\ name \in Names
                 /\ Place(path) = Append(DirOf(clus, cur_dv), name) /\ Place(path) \in Places
      <4>1. path = InDir(d, name)
        BY <2>1, <2>3, <3>7
      <4>2. Place(path) \in Places
        BY <3>4, <3>5, <3>7, <4>1 DEF Exists
      <4> QED BY <2>2, <3>1, <3>4, <3>6, <4>1, <4>2
    <3>8. ASSUME Exists(cur_dv, DirOf(clus, cur_dv)), Append(DirOf(clus, cur_dv), name) \in Places
          PROVE  path # NULL /\ Place(path) = Append(DirOf(clus, cur_dv), name)
      <4>1. path = InDir(d, name)
        BY <2>1, <2>2, <2>3, <2>5, <3>1, <3>2, <3>8
      <4>2. path \in Spellings
        BY <2>2, <3>1, <3>4, <3>6, <3>8, <4>1
      <4>3. path # NULL
        BY <1>1, <4>2 DEF Spellings
      <4> QED BY <2>2, <3>1, <3>4, <4>1, <4>3
    <3>9. get_node_by_clus(clus, cur_dv) # NULL
      BY <2>5 DEF node
    <3> QED BY <3>7, <3>8, <3>9
  <2> QED BY <2>4, <2>5
<1> QED BY <1>2, <1>3

\* vfs_stat of a name in the directory of a number, for one drive.
Records(path, dv) == path \in Spellings /\ assignments' = get_node_by_path(path, dv)
TableGoesOn == TableType' /\ TableSound' /\ (TablesHold' => TablesHold /\ Stays)

LEMMA NothingRecorded ==
  ASSUME TableType, TableSound, assignments' = assignments PROVE TableGoesOn
<1>1. TablesHold' = TablesHold
  BY DEF TablesHold
<1> QED BY <1>1 DEF TableGoesOn, TableType, TableSound, Stays, Slot, Slots

\* The number that a lookup finds is that of the entry of the directory, and it is
\* found if it is there.
LEMMA LookupIs ==
  ASSUME TableType, TableSound, NEW dv \in Drive, cur_dv = dv,
         NEW clus \in Number, NEW name \in AnyName, NEW just_dirs \in BOOLEAN, Stats(clus, name)
  PROVE  /\ TableGoesOn
         /\ \E c \in Number :
              /\ c = HostFsFileFind(clus, name, just_dirs)
              /\ c # 0 => /\ name \in Names /\ Append(DirOf(clus, dv), name) \in Places
                          /\ clus # 0 => get_node_by_clus(clus, dv) # NULL
                          /\ TablesHold' => /\ c \in 1 .. MaxAssignments
                                            /\ get_node_by_clus(c, dv)' # NULL
                                            /\ PathOf(c, dv)' = Append(DirOf(clus, dv), name)
              /\ /\ clus # 0 => get_node_by_clus(clus, dv) # NULL
                 /\ Exists(dv, DirOf(clus, dv))
                 /\ Append(DirOf(clus, dv), name) \in Places
                 /\ Exists(dv, Append(DirOf(clus, dv), name))
                 /\ just_dirs => IsDir(dv, Append(DirOf(clus, dv), name))
                 => c # 0
<1>1. PICK path : path = AbsPath(clus, name)
  OBVIOUS
<1> DEFINE there == path # NULL /\ Exists(dv, Place(path))
           e == Append(DirOf(clus, dv), name)
<1>2. assignments' = IF there THEN get_node_by_path(path, dv) ELSE assignments
  BY <1>1, Zenon DEF Stats
<1>3. HostFsFileFind(clus, name, just_dirs) =
        IF there /\ (just_dirs => IsDir(dv, Place(path))) THEN ClusOf(path, dv) ELSE 0
  BY <1>1, Zenon DEF HostFsFileFind
<1>4. /\ there => /\ path \in Spellings /\ name \in Names
                  /\ clus # 0 => get_node_by_clus(clus, dv) # NULL
                  /\ Place(path) = e /\ e \in Places
      /\ /\ clus # 0 => get_node_by_clus(clus, dv) # NULL
         /\ Exists(dv, DirOf(clus, dv))
         /\ e \in Places
         => path # NULL /\ Place(path) = e
  BY <1>1, AbsPathIs
<1>5. CASE ~there
  <2>1. TableGoesOn
    BY <1>2, <1>5, NothingRecorded
  <2>2. 0 \in Number /\ HostFsFileFind(clus, name, just_dirs) = 0
    BY <1>3, <1>5, Sizes
  <2>3. ~ /\ clus # 0 => get_node_by_clus(clus, dv) # NULL
          /\ Exists(dv, DirOf(clus, dv))
          /\ Append(DirOf(clus, dv), name) \in Places
          /\ Exists(dv, Append(DirOf(clus, dv), name))
    BY <1>4, <1>5
  <2>4. PICK c \in Number : c = HostFsFileFind(clus, name, just_dirs) /\ c = 0
    BY <2>2
  <2> QED BY <2>1, <2>3, <2>4, Zenon
<1>6. CASE there
  <2>1. path \in Spellings /\ assignments' = get_node_by_path(path, dv)
    BY <1>2, <1>4, <1>6
  <2>2. /\ TableGoesOn
        /\ \E c \in Number :
             /\ c = ClusOf(path, dv) /\ c # 0
             /\ TablesHold' => /\ c \in 1 .. MaxAssignments
                               /\ get_node_by_clus(c, dv)' # NULL
                               /\ get_node_by_clus(c, dv)'.path = path
    BY <2>1, RecordKeeps, Zenon DEF TableGoesOn
  <2>3. PICK c \in Number :
             /\ c = ClusOf(path, dv) /\ c # 0
             /\ TablesHold' => /\ c \in 1 .. MaxAssignments
                               /\ get_node_by_clus(c, dv)' # NULL
                               /\ get_node_by_clus(c, dv)'.path = path
    BY <2>2
  <2>4. TablesHold' => PathOf(c, dv)' = e
    BY <1>4, <1>6, <2>3 DEF PathOf
  <2>5. CASE just_dirs => IsDir(dv, Place(path))
    <3>1. c = HostFsFileFind(clus, name, just_dirs)
      BY <1>3, <1>6, <2>3, <2>5
    <3> HIDE DEF e
    <3> QED BY <1>4, <1>6, <2>2, <2>3, <2>4, <3>1 DEF e
  <2>6. CASE ~(just_dirs => IsDir(dv, Place(path)))
    <3>1. 0 \in Number /\ HostFsFileFind(clus, name, just_dirs) = 0
      BY <1>3, <2>6, Sizes
    <3>2. ~(just_dirs => IsDir(dv, e))
      BY <1>4, <1>6, <2>6
    <3> HIDE DEF e
    <3> QED BY <2>2, <3>1, <3>2 DEF e
  <2> QED BY <2>5, <2>6
<1> QED BY <1>5, <1>6

-----------------------------------------------------------------------------
(***************************************************************************)
(* The tree of the host.                                                   *)
(***************************************************************************)
TreeType == tree \in [Drive -> [Places -> {"none", "file", "dir"}]]

LEMMA CreateKeeps ==
  ASSUME TreeType, TreeSound, NEW dv \in Drive, NEW p \in Places, NEW kind \in {"file", "dir"},
         Create(dv, p, kind)
  PROVE  TreeType' /\ TreeSound'
<1>1. tree' = [tree EXCEPT ![dv][p] = kind] /\ tree[dv][p] = "none" /\ IsDir(dv, Front(p))
  BY DEF Create, Exists, TreeType
<1>2. /\ tree'[dv][p] = kind
      /\ \A e \in Drive, q \in Places : <<e, q>> # <<dv, p>> => tree'[e][q] = tree[e][q]
  BY <1>1 DEF TreeType
<1>3. TreeType'
  BY <1>1 DEF TreeType
<1>4. p \in Seq(Names) /\ p # <<>>
  BY PlacesAreSeqs
<1>5. ASSUME NEW e \in Drive, NEW q \in Places, NEW r \in Places,
             tree'[e][q] # "none", IsPrefix(r, q), r # q
      PROVE  tree'[e][r] = "dir"
  <2>1. r \in Seq(Names) /\ r # <<>> /\ q \in Seq(Names)
    BY PlacesAreSeqs
  <2>2. CASE <<e, q>> = <<dv, p>>
    <3>1. IsPrefix(r, Front(p)) /\ Front(p) \in Seq(Names)
      BY <1>4, <1>5, <2>1, <2>2, PrefixFront
    <3>2. Front(p) # <<>>
      <4>1. Front(p) = <<>> => IsPrefix(Front(p), r)
        BY <2>1, PrefixBasics
      <4>2. Front(p) = <<>> => r = <<>>
        BY <2>1, <3>1, <4>1, PrefixSame
      <4> QED BY <2>1, <4>2
    <3>3. Front(p) \in Places /\ tree[dv][Front(p)] = "dir"
      BY <1>1, <3>2 DEF IsDir
    <3>4. tree[dv][r] = "dir"
      BY <3>1, <3>3 DEF TreeSound
    <3> QED BY <1>2, <1>5, <2>2, <3>4
  <2>3. CASE <<e, q>> # <<dv, p>>
    <3>1. tree[e][q] # "none"
      BY <1>2, <1>5, <2>3
    <3>2. tree[e][r] = "dir"
      BY <1>5, <3>1 DEF TreeSound
    <3>3. <<e, r>> # <<dv, p>>
      BY <1>1, <3>2
    <3> QED BY <1>2, <3>2, <3>3
  <2> QED BY <2>2, <2>3
<1> QED BY <1>3, <1>5 DEF TreeSound

LEMMA DeleteKeeps ==
  ASSUME TreeType, TreeSound, NEW dv \in Drive, NEW p \in Places, Removable(dv, p), Delete(dv, p)
  PROVE  TreeType' /\ TreeSound'
<1>1. tree' = [tree EXCEPT ![dv][p] = "none"] /\ Children(dv, p) = {}
  BY DEF Delete, Removable
<1>2. /\ tree'[dv][p] = "none"
      /\ \A e \in Drive, q \in Places : <<e, q>> # <<dv, p>> => tree'[e][q] = tree[e][q]
  BY <1>1 DEF TreeType
<1>3. TreeType'
  BY <1>1 DEF TreeType
<1>4. p \in Seq(Names)
  BY PlacesAreSeqs
<1>5. ASSUME NEW e \in Drive, NEW q \in Places, NEW r \in Places,
             tree'[e][q] # "none", IsPrefix(r, q), r # q
      PROVE  tree'[e][r] = "dir"
  <2>1. r \in Seq(Names) /\ q \in Seq(Names)
    BY PlacesAreSeqs
  <2>2. <<e, q>> # <<dv, p>> /\ tree[e][q] # "none"
    BY <1>2, <1>5
  <2>3. tree[e][r] = "dir"
    BY <1>5, <2>2 DEF TreeSound
  <2>4. ASSUME <<e, r>> = <<dv, p>> PROVE FALSE
    <3>0. e = dv /\ r = p
      BY <2>4
    <3> DEFINE name == q[Len(p) + 1]
               c == Append(p, name)
    <3>1. name \in Names /\ IsPrefix(c, q)
      BY <1>4, <1>5, <2>1, <3>0, PrefixNext
    <3> HIDE DEF name
    <3>2. c \in Seq(Names) /\ c # <<>> /\ Front(c) = p
      BY <1>4, <3>1, PrefixAppend
    <3> HIDE DEF c
    <3>3. c \in Places
      BY <3>1, <3>2, PlaceAbove
    <3>4. tree[dv][c] # "none"
      BY <2>2, <3>0, <3>1, <3>3 DEF TreeSound
    <3>5. c \in Children(dv, p)
      BY <3>2, <3>3, <3>4 DEF Children, Exists
    <3> QED BY <1>1, <3>5
  <2> QED BY <1>2, <2>3, <2>4
<1> QED BY <1>3, <1>5 DEF TreeSound

\* What is still as it was when the operation began.
Shrinks ==
  /\ stable' \subseteq stable
  /\ \A dv \in Drive, p \in Places : <<dv, p>> \in stable' => tree'[dv][p] = tree[dv][p]

LEMMA AnchorsShrink ==
  ASSUME Shrinks, NEW dv \in Drive, NEW dir, Anchored(dv, dir)' PROVE Anchored(dv, dir)
  BY DEF Shrinks, Anchored

-----------------------------------------------------------------------------
(***************************************************************************)
(* What everybody else does.                                               *)
(***************************************************************************)
LEMMA NullIs ==
  /\ \A x \in CdLocals : x # NULL
  /\ \A x \in WalkLocals : x # NULL
  /\ \A x \in Context : x # NULL
  /\ \A x \in Seq(PathName) : x # NULL
  /\ \A x \in Drive : x # NULL
  /\ \A x \in Drive \X Seq(Names) : x # NULL
  BY NullAssumption DEF PathName

\* Nothing is asked of a task that is idle.
LEMMA IdleNumbered ==
  ASSUME walk' = NULL, cd' = NULL, ctx' = NULL PROVE Numbered'
  BY DEF Numbered, WalkSound, ResSound, RestoreSound, SearchCovers

LEMMA WalkNone ==
  ASSUME walk' = NULL PROVE WalkSound'
  BY DEF WalkSound

\* Entries keep their numbers.
LEMMA ResStays ==
  ASSUME TypeOK, Stays, ResSound, res' = res, ctx' # NULL => ctx # NULL /\ ctx'.op = ctx.op
  PROVE  ResSound'
<1> SUFFICES ASSUME ctx' # NULL, ctx'.op = "find", NEW e \in res
             PROVE  /\ e.clus \in 1 .. MaxAssignments /\ get_node_by_clus(e.clus, e.dv)' # NULL
                    /\ PathOf(e.clus, e.dv)' = e.full_name
  BY Zenon DEF ResSound
<1>1. ctx # NULL /\ ctx.op = "find"
  OBVIOUS
<1>2. /\ e.clus \in 1 .. MaxAssignments /\ get_node_by_clus(e.clus, e.dv) # NULL
      /\ PathOf(e.clus, e.dv) = e.full_name
  BY <1>1, Zenon DEF ResSound
<1>3. e.dv \in Drive
  BY DEF TypeOK
<1>4. /\ get_node_by_clus(e.clus, e.dv)' = get_node_by_clus(e.clus, e.dv)
      /\ PathOf(e.clus, e.dv)' = PathOf(e.clus, e.dv)
  BY <1>2, <1>3, StaysPath, Zenon
<1> QED BY <1>2, <1>4, Zenon

\* So does the search for the path that Name2DirClus is on.
LEMMA WalkStays ==
  ASSUME TypeOK, Stays, Shrinks, WalkSound, walk' = walk, cur_dv' = cur_dv, WalkDir' = WalkDir
  PROVE  WalkSound'
<1>1. PICK dv \in Drive : dv = cur_dv
  BY DEF TypeOK
<1>2. PICK w : w = walk
  OBVIOUS
<1>3. PICK dir : dir = WalkDir
  OBVIOUS
<1>4. ASSUME w.clus \in 1 .. MaxAssignments, get_node_by_clus(w.clus, dv) # NULL,
             PathOf(w.clus, dv) \o w.todo = dir
      PROVE  get_node_by_clus(w.clus, dv)' # NULL /\ PathOf(w.clus, dv)' \o w.todo = dir
  BY <1>4, StaysPath, Zenon
<1>5. ASSUME ~Anchored(dv, dir) PROVE ~Anchored(dv, dir)'
  BY <1>5, AnchorsShrink, Zenon
<1>6. w # NULL => \/ w.clus = 0 /\ w.todo = dir
                  \/ /\ w.clus \in 1 .. MaxAssignments /\ get_node_by_clus(w.clus, dv) # NULL
                     /\ PathOf(w.clus, dv) \o w.todo = dir
                  \/ w.clus = 0 /\ w.todo = <<>> /\ ~Anchored(dv, dir)
  BY <1>1, <1>2, <1>3 DEF WalkSound
<1>7. walk' = w /\ cur_dv' = dv /\ WalkDir' = dir
  BY <1>1, <1>2, <1>3
<1>8. w # NULL => \/ w.clus = 0 /\ w.todo = dir
                  \/ /\ w.clus \in 1 .. MaxAssignments /\ get_node_by_clus(w.clus, dv)' # NULL
                     /\ PathOf(w.clus, dv)' \o w.todo = dir
                  \/ w.clus = 0 /\ w.todo = <<>> /\ ~Anchored(dv, dir)'
  BY <1>4, <1>5, <1>6, Zenon
<1> QED BY <1>7, <1>8, Zenon DEF WalkSound

LEMMA WantedShrinks ==
  ASSUME Shrinks, NEW dv \in Drive, NEW p \in Places, Wanted(dv, p)',
         ctx'.searched = ctx.searched, ctx'.flag = ctx.flag, ctx'.mask = ctx.mask
  PROVE  Wanted(dv, p)
  BY DEF Shrinks, Wanted, Exists, IsDir, FilesFindMatch

LEMMA ShrinkNumbered ==
  ASSUME OwnInv, Numbered, Shrinks, assignments' = assignments,
         UNCHANGED <<cur_dv, cur_dir, ctx, cd, walk, frames, res>>
  PROVE  Numbered'
<1> USE DEF OwnInv
<1>1. Stays /\ TablesHold' = TablesHold
  BY DEF Stays, TablesHold
<1> SUFFICES ASSUME TablesHold PROVE WalkSound' /\ ResSound' /\ RestoreSound' /\ SearchCovers'
  BY <1>1 DEF Numbered
<1>2. WalkSound /\ ResSound /\ RestoreSound /\ SearchCovers
  BY DEF Numbered
<1>3. WalkSound'
  <2>1. WalkDir' = WalkDir
    BY DEF WalkDir
  <2> QED BY <1>1, <1>2, <2>1, WalkStays
<1>4. ResSound'
  BY <1>1, <1>2, ResStays
<1>5. RestoreSound'
  <2> SUFFICES ASSUME cd # NULL, cd.ret = "restore", Anchored(ctx.old_dv, ctx.old_dir)' PROVE cd.ok
    BY DEF RestoreSound
  <2>1. ctx # NULL /\ ctx.old_dv \in Drive
    BY DEF TypeOK, Context
  <2>2. PICK dv, dir : dv \in Drive /\ dv = ctx.old_dv /\ dir = ctx.old_dir
    BY <2>1
  <2>3. ctx'.old_dv = dv /\ ctx'.old_dir = dir
    BY <2>2
  <2>4. Anchored(dv, dir)'
    BY <2>3, Zenon
  <2>5. Anchored(dv, dir)
    BY <2>2, <2>4, AnchorsShrink
  <2> QED BY <1>2, <2>2, <2>5 DEF RestoreSound
<1>6. SearchCovers'
  <2> SUFFICES ASSUME ctx # NULL, ctx.op = "find", ctx.searched # NULL,
                      NEW dv \in Drive, NEW p \in Places, Wanted(dv, p)'
               PROVE  Listed(dv, p)' \/ Ahead(p)'
    BY Zenon DEF SearchCovers
  <2>1. Listed(dv, p) \/ Ahead(p)
    BY <1>2, WantedShrinks, Zenon DEF SearchCovers
  <2>2. Listed(dv, p)' = Listed(dv, p)
    BY DEF Listed
  <2>3. Ahead(p)' = Ahead(p)
    BY DEF Ahead, Leads, SubDir
  <2> QED BY <2>1, <2>2, <2>3
<1> QED BY <1>3, <1>4, <1>5, <1>6

IInv == OwnInv /\ Numbered

LEMMA OthersKeep ==
  ASSUME IInv, NEW dv \in Drive, NEW p \in Places,
         OtherRemove(dv, p) \/ \E kind \in {"file", "dir"} : OtherCreate(dv, p, kind)
  PROVE  IInv'
<1> USE DEF IInv, OwnInv
<1>1. /\ stable' = IF pc = "idle" THEN stable ELSE stable \ {<<dv, p>>}
      /\ assignments' = assignments /\ UNCHANGED guest
  BY DEF OtherRemove, OtherCreate
<1>2. TreeType
  BY DEF TypeOK, TreeType
<1>3. TreeType' /\ TreeSound'
  BY <1>2, CreateKeeps, DeleteKeeps, Zenon DEF OtherRemove, OtherCreate
<1>4. \A e \in Drive, q \in Places : <<e, q>> # <<dv, p>> => tree'[e][q] = tree[e][q]
  BY <1>2 DEF OtherRemove, OtherCreate, Create, Delete, TreeType
<1>5. TypeOK'
  BY <1>1, <1>3 DEF TypeOK, TreeType, guest
<1>6. TableSound'
  BY <1>1 DEF TableSound, Slot
<1>7. Control'
  BY <1>1 DEF Control, guest, Top, NamePath, FilesFindMatch
<1>8. CdSound' /\ FramesSound'
  <2>1. CdSound'
    BY <1>1 DEF CdSound, CdOf, guest, Top, SubCd, UpCd, RestoreCd
  <2>2. FramesSound'
    BY <1>1 DEF FramesSound, guest
  <2> QED BY <2>1, <2>2
<1>9. Numbered'
  <2>1. CASE pc = "idle"
    <3>1. walk' = NULL /\ cd' = NULL /\ ctx' = NULL
      BY <1>1, <2>1 DEF TypeOK, guest
    <3> QED BY <3>1, IdleNumbered
  <2>2. CASE pc # "idle"
    <3>1. Shrinks
      BY <1>1, <1>4, <2>2 DEF Shrinks
    <3>2. UNCHANGED <<cur_dv, cur_dir, ctx, cd, walk, frames, res>>
      BY <1>1 DEF guest
    <3> QED BY <1>1, <3>1, <3>2, ShrinkNumbered
  <2> QED BY <2>1, <2>2
<1> QED BY <1>3, <1>5, <1>6, <1>7, <1>8, <1>9

-----------------------------------------------------------------------------
(***************************************************************************)
(* An operation begins.                                                    *)
(***************************************************************************)
LEMMA ArgIs ==
  ASSUME NEW arg \in Args
  PROVE  /\ arg.dv \in Drive \cup {NULL} /\ arg.names \in Seq(Word) /\ arg.names # <<>>
         /\ Last(arg.names) \in Word /\ Front(arg.names) \in Seq(Word)
         /\ Len(Front(arg.names)) = Len(arg.names) - 1 /\ Len(arg.names) \in Nat \ {0}
<1>1. arg.dv \in Drive \cup {NULL} /\ arg.names \in Seq(Range(arg.names)) /\ arg.names # <<>>
  BY ArgsAssumption
<1>2. Range(arg.names) \subseteq Word
  BY DEF Word
<1>3. arg.names \in Seq(Word)
  BY <1>1, <1>2, SeqMonotonic
<1> QED BY <1>1, <1>3, FrontElements

LEMMA Depths ==
  /\ MaxDepth \in Nat
  /\ \A arg \in Args : Len(arg.names) \in Nat \ {0} /\ MaxDepth + Len(arg.names) \in Nat
<1>1. MaxDepth \in Nat
  BY ArgsAssumption
<1>2. \A arg \in Args : Len(arg.names) \in Nat \ {0}
  BY ArgIs
<1> QED BY <1>1, <1>2

LEMMA BeginKeeps ==
  ASSUME IInv, NEW op \in {"cd", "file", "find", "del"}, NEW arg \in Args, NEW flag \in BOOLEAN,
         op = "cd" => Len(cur_dir) + Len(arg.names) <= MaxDepth, Begin(op, arg, flag)
  PROVE  IInv'
<1> USE DEF IInv, OwnInv
<1> DEFINE other == arg.dv \notin {NULL, cur_dv}
           from == IF other \/ arg.abs THEN <<>> ELSE cur_dir
           todo == IF op = "cd" THEN arg.names ELSE Front(arg.names)
           ret == IF op = "cd" THEN "user" ELSE "dir"
<1>1. /\ pc = "idle" /\ cd = NULL /\ frames = <<>> /\ res = {} /\ walk = NULL /\ victim = NULL
      /\ Len(cur_dir) <= MaxDepth /\ cur_dir \in Seq(Names) /\ cur_dv \in Drive
  BY DEF Begin, TypeOK, Control, IsDirName
<1>2. /\ arg.names \in Seq(Word) /\ Last(arg.names) \in Word /\ todo \in Seq(Word)
      /\ Len(todo) = Len(arg.names) - (IF op = "cd" THEN 0 ELSE 1) /\ Len(arg.names) \in Nat \ {0}
      /\ arg.dv \in Drive \cup {NULL}
  BY ArgIs
<1>3. /\ cur_dv' = (IF other THEN arg.dv ELSE cur_dv) /\ cur_dir' = from
      /\ cd' = [todo |-> todo, at |-> from, ok |-> TRUE, ret |-> ret] /\ pc' = "cd"
      /\ ctx' = [op |-> op, flag |-> flag, mask |-> Last(arg.names), searched |-> NULL,
                 old_dv |-> cur_dv, old_dir |-> cur_dir]
      /\ UNCHANGED <<vfsVars, walk, frames, victim, res, stable>>
  BY DEF Begin, CdCall
<1>4. /\ from \in Seq(Names) /\ Len(from) <= Len(cur_dir) /\ Len(from) \in Nat
      /\ cur_dv' \in Drive
  <2>1. <<>> \in Seq(Names) /\ Len(<<>>) = 0 /\ Len(cur_dir) \in Nat
    BY <1>1, EmptySeq, LenProperties
  <2>2. other => arg.dv \in Drive
    BY <1>2
  <2> QED BY <1>1, <1>3, <2>1, <2>2
<1> HIDE DEF other, from, todo
<1>5. IsDirName(from) /\ MaxDepth \in Nat
  <2>1. MaxDepth \in Nat
    BY ArgsAssumption
  <2>2. Len(cur_dir) \in Nat
    BY <1>1, LenProperties
  <2>3. Len(from) <= MaxDepth
    BY <1>1, <1>4, <2>1, <2>2
  <2> QED BY <1>4, <2>1, <2>3 DEF IsDirName
<1>6. cd' \in CdLocals /\ cd' # NULL /\ ctx' \in Context /\ ctx' # NULL
  <2>1. ret \in {"user", "dir", "mask", "sub", "up", "restore"} /\ TRUE \in BOOLEAN
    OBVIOUS
  <2>2. cd' \in CdLocals
    BY <1>2, <1>3, <1>4, <2>1 DEF CdLocals
  <2>3. ctx' \in Context
    BY <1>1, <1>2, <1>3 DEF Context
  <2> QED BY <2>2, <2>3, NullIs
<1>7. TypeOK'
  BY <1>1, <1>3, <1>4, <1>5, <1>6 DEF TypeOK, vfsVars
<1>8. TreeSound' /\ TableSound'
  BY <1>3 DEF TreeSound, TableSound, vfsVars, Slot
<1>9. Control'
  BY <1>1, <1>3 DEF Control
<1>10. CdSound'
  <2>1. op = "cd" => Len(from) + Len(todo) <= MaxDepth
    BY <1>1, <1>2, <1>4, <1>5, LenProperties
  <2>2. op # "cd" => Short(Len(from) + Len(todo) + 1)
    <3>1. op # "cd" => Len(from) + Len(todo) + 1 <= MaxDepth + Len(arg.names)
      BY <1>1, <1>2, <1>4, <1>5, LenProperties
    <3> QED BY <3>1 DEF Short
  <2>3. cd'.todo = todo /\ cd'.at = from /\ cd'.ok /\ cd'.ret = ret /\ ctx'.op = op /\ ctx'.searched = NULL
    BY <1>3
  <2>4. frames' = <<>> /\ res' = {}
    BY <1>1, <1>3
  <2> QED BY <2>1, <2>2, <2>3, <2>4 DEF CdSound, CdOf, Short
<1>11. FramesSound'
  BY <1>1, <1>3 DEF FramesSound
<1>12. Numbered'
  <2>1. walk' = NULL /\ res' = {} /\ cd'.ret # "restore" /\ ctx'.searched = NULL
    BY <1>1, <1>3
  <2>2. WalkSound'
    BY <2>1, WalkNone
  <2> QED BY <2>1, <2>2 DEF Numbered, ResSound, RestoreSound, SearchCovers
<1> QED BY <1>7, <1>8, <1>9, <1>10, <1>11, <1>12

-----------------------------------------------------------------------------
(***************************************************************************)
(* Cd and Name2DirClus.                                                    *)
(***************************************************************************)
\* What a step needs that leaves the places alone.
LEMMA SameTree ==
  ASSUME UNCHANGED <<tree, stable>> PROVE Shrinks /\ TreeSound' = TreeSound
  BY DEF Shrinks, TreeSound

LEMMA SameTable ==
  ASSUME TypeOK, TableSound, assignments' = assignments PROVE TableGoesOn /\ TableSound'
<1>1. TableType
  BY DEF TypeOK, TableType
<1> QED BY <1>1, NothingRecorded DEF TableGoesOn

\* The search goes on with what was ahead.
LEMMA SearchGoesOn ==
  ASSUME SearchCovers, Shrinks, ctx' # NULL => ctx' = ctx,
         ctx # NULL /\ ctx.op = "find" /\ ctx.searched # NULL =>
           \A dv \in Drive, p \in Places :
             Wanted(dv, p) /\ (Listed(dv, p) \/ Ahead(p)) => Listed(dv, p)' \/ Ahead(p)'
  PROVE  SearchCovers'
<1> SUFFICES ASSUME ctx' # NULL, ctx'.op = "find", ctx'.searched # NULL,
                    NEW dv \in Drive, NEW p \in Places, Wanted(dv, p)'
             PROVE  Listed(dv, p)' \/ Ahead(p)'
  BY Zenon DEF SearchCovers
<1>1. ctx' = ctx /\ ctx # NULL /\ ctx.op = "find" /\ ctx.searched # NULL
  OBVIOUS
<1>2. Wanted(dv, p)
  BY <1>1, WantedShrinks
<1>3. Listed(dv, p) \/ Ahead(p)
  BY <1>1, <1>2, Zenon DEF SearchCovers
<1> QED BY <1>1, <1>2, <1>3, Zenon

LEMMA DirNameUp ==
  ASSUME NEW dir, IsDirName(dir)
  PROVE  IsDirName(Up(dir)) /\ Len(Up(dir)) \in Nat /\ Len(dir) \in Nat /\ Len(Up(dir)) <= Len(dir)
<1>1. dir \in Seq(Names) /\ Len(dir) \in Nat /\ MaxDepth \in Nat
  BY LenProperties, ArgsAssumption DEF IsDirName
<1>2. CASE dir = <<>>
  BY <1>1, <1>2 DEF Up
<1>3. CASE dir # <<>>
  <2> DEFINE u == Front(dir)
  <2>1. u \in Seq(Names) /\ IsPrefix(u, dir) /\ Len(u) = Len(dir) - 1 /\ Up(dir) = u /\ Len(u) \in Nat
    BY <1>1, <1>3, FrontElements, PrefixFront, LenProperties DEF Up
  <2> HIDE DEF u
  <2>2. u = <<>> => Len(u) = 0
    OBVIOUS
  <2>3. dir \in Places => u = <<>> \/ u \in Places
    BY <2>1, PlaceAbove
  <2>4. \A n \in Nat : Len(dir) <= n => Len(u) <= n
    BY <1>1, <2>1
  <2>5. \A arg \in Args : MaxDepth + Len(arg.names) \in Nat
    BY Depths
  <2>6. Len(u) <= MaxDepth \/ u \in Places \/ \E arg \in Args : Len(u) <= MaxDepth + Len(arg.names)
    <3>1. CASE Len(dir) <= MaxDepth
      BY <1>1, <2>4, <3>1
    <3>2. CASE dir \in Places
      BY <1>1, <2>2, <2>3, <3>2
    <3>3. CASE \E arg \in Args : Len(dir) <= MaxDepth + Len(arg.names)
      BY <2>4, <2>5, <3>3
    <3> QED BY <3>1, <3>2, <3>3 DEF IsDirName
  <2>7. Len(u) <= Len(dir)
    BY <1>1, <2>1
  <2> QED BY <1>1, <2>1, <2>6, <2>7 DEF IsDirName
<1> QED BY <1>2, <1>3

LEMMA CdTyped ==
  ASSUME OwnInv, cd # NULL
  PROVE  /\ cd \in CdLocals /\ cd.todo \in Seq(Word) /\ cd.at \in Seq(Names) /\ cd.ok \in BOOLEAN
         /\ IsDirName(cd.at) /\ Len(cd.todo) \in Nat /\ Len(cd.at) \in Nat
         /\ ctx # NULL /\ ctx \in Context /\ MaxDepth \in Nat
<1>1. cd \in CdLocals /\ ctx # NULL /\ ctx \in Context /\ IsDirName(cd.at)
  BY DEF OwnInv, TypeOK
<1>2. cd.todo \in Seq(Word) /\ cd.at \in Seq(Names) /\ cd.ok \in BOOLEAN
  BY <1>1 DEF CdLocals
<1> QED BY <1>1, <1>2, LenProperties, ArgsAssumption

\* A length that fits, fits when it becomes less.
LEMMA ShortLess ==
  ASSUME NEW m \in Nat, NEW n \in Nat, m <= n, Short(n) PROVE Short(m)
<1>1. MaxDepth \in Nat /\ \A arg \in Args : MaxDepth + Len(arg.names) \in Nat
  BY Depths
<1> QED BY <1>1 DEF Short

LEMMA LessSum ==
  ASSUME NEW a \in Nat, NEW b \in Nat, NEW c \in Nat, NEW d \in Nat, c <= a, d = b - 1
  PROVE  c + d \in Nat /\ a + b \in Nat /\ c + d <= a + b
  OBVIOUS

\* On the way back there are only names.
LEMMA RestoreNames ==
  ASSUME OwnInv, CdOf("restore"), cd.todo # <<>>
  PROVE  cd.ok /\ cd.todo \in Seq(Names) /\ Head(cd.todo) \in Names /\ ctx.old_dir \in Seq(Names)
<1>1. cd # NULL /\ cd.ok /\ cd.at \o cd.todo = ctx.old_dir
  BY DEF OwnInv, CdSound, RestoreCd, CdOf
<1>2. /\ cd.todo \in Seq(Word) /\ cd.at \in Seq(Names) /\ ctx.old_dir \in Seq(Names)
      /\ Len(cd.todo) \in Nat /\ Len(cd.at) \in Nat
  BY <1>1, CdTyped DEF Context
<1> DEFINE t == cd.todo
           a == cd.at
           o == ctx.old_dir
<1>3. t \in Seq(Word) /\ a \in Seq(Word) /\ a \in Seq(Names) /\ o \in Seq(Names) /\ t # <<>> /\ a \o t = o
  <2>1. Names \subseteq Word
    BY DEF Word
  <2> QED BY <1>1, <1>2, <2>1, SeqMonotonic
<1> HIDE DEF t, a, o
<1>4. /\ Len(a \o t) = Len(a) + Len(t)
      /\ \A i \in 1 .. Len(a) + Len(t) : (a \o t)[i] = IF i <= Len(a) THEN a[i] ELSE t[i - Len(a)]
  BY <1>3, ConcatProperties
<1>5. Len(a) \in Nat /\ Len(t) \in Nat \ {0}
  BY <1>3, LenProperties, EmptySeq
<1>6. \A i \in 1 .. Len(t) : t[i] \in Names
  <2> SUFFICES ASSUME NEW i \in 1 .. Len(t) PROVE t[i] \in Names
    OBVIOUS
  <2>1. Len(a) + i \in 1 .. Len(a) + Len(t) /\ ~(Len(a) + i <= Len(a)) /\ Len(a) + i - Len(a) = i
    BY <1>5
  <2>2. o[Len(a) + i] = t[i]
    BY <1>3, <1>4, <2>1
  <2>3. Len(a) + i \in 1 .. Len(o)
    BY <1>3, <1>4, <2>1
  <2> QED BY <1>3, <2>2, <2>3, ElementOfSeq
<1>7. t \in Seq(Names)
  <2>1. t = SubSeq(t, 1, Len(t))
    BY <1>3, SubSeqFull
  <2>2. SubSeq(t, 1, Len(t)) \in Seq(Names)
    BY <1>5, <1>6, SubSeqProperties
  <2> QED BY <2>1, <2>2
<1> QED BY <1>1, <1>2, <1>3, <1>7, HeadTailProperties DEF t

LEMMA CdUpKeeps ==
  ASSUME IInv, CdUp PROVE IInv'
<1> USE DEF IInv, OwnInv
<1>1. /\ pc = "cd" /\ cd # NULL /\ walk = NULL /\ cd.todo # <<>> /\ Head(cd.todo) = ".."
      /\ UNCHANGED <<vfsVars, pc, cur_dv, cur_dir, ctx, walk, frames, victim, res, stable>>
  BY DEF CdUp, TypeOK
<1>2. cd' = [cd EXCEPT !.todo = Tail(@), !.at = Up(@)]
  BY DEF CdUp
<1>3. /\ cd \in CdLocals /\ cd.todo \in Seq(Word) /\ cd.at \in Seq(Names) /\ cd.ok \in BOOLEAN
      /\ IsDirName(cd.at) /\ Len(cd.todo) \in Nat /\ Len(cd.at) \in Nat
      /\ ctx # NULL /\ ctx \in Context
  BY <1>1, CdTyped
<1>4. /\ Tail(cd.todo) \in Seq(Word) /\ Len(Tail(cd.todo)) = Len(cd.todo) - 1 /\ Len(Tail(cd.todo)) \in Nat
      /\ IsDirName(Up(cd.at)) /\ Len(Up(cd.at)) \in Nat /\ Len(Up(cd.at)) <= Len(cd.at)
  BY <1>1, <1>3, HeadTailProperties, LenProperties, DirNameUp
<1>5. /\ cd'.todo = Tail(cd.todo) /\ cd'.at = Up(cd.at) /\ cd'.ok = cd.ok /\ cd'.ret = cd.ret
      /\ cd' \in CdLocals /\ cd' # NULL
  <2>1. cd' \in CdLocals
    BY <1>2, <1>3, <1>4 DEF CdLocals, IsDirName
  <2> QED BY <1>2, <1>3, <2>1, NullIs DEF CdLocals
<1>6. cd.ret # "sub" /\ cd.ret # "restore"
  <2>1. cd.ret # "restore"
    BY <1>1, RestoreNames, PlacesAreSeqs DEF CdOf
  <2>2. ASSUME cd.ret = "sub" PROVE FALSE
    <3>1. PICK name \in Names : SubCd(name)
      BY <1>1, <2>2 DEF CdSound, CdOf
    <3>2. cd.todo = <<name>>
      BY <1>1, <3>1 DEF SubCd
    <3>3. Head(cd.todo) = name
      BY <3>2
    <3> QED BY <1>1, <3>3, PlacesAreSeqs
  <2> QED BY <2>1, <2>2
<1>7. TypeOK'
  BY <1>1, <1>4, <1>5 DEF TypeOK, vfsVars
<1>8. TreeSound' /\ TableSound' /\ Shrinks /\ TableGoesOn
  BY <1>1, SameTree, SameTable DEF vfsVars
<1>9. Control'
  BY <1>1 DEF Control
<1>10. CdSound'
  <2>1. cd.ok
    BY <1>1 DEF CdSound
  <2>0. /\ Len(cd'.at) + Len(cd'.todo) \in Nat /\ Len(cd.at) + Len(cd.todo) \in Nat
        /\ Len(cd'.at) + Len(cd'.todo) <= Len(cd.at) + Len(cd.todo)
    BY <1>3, <1>4, <1>5, LessSum
  <2> DEFINE m == Len(cd'.at) + Len(cd'.todo)
             n == Len(cd.at) + Len(cd.todo)
  <2>2. CdOf("user") => m <= MaxDepth
    <3>1. CdOf("user") => n <= MaxDepth
      BY DEF CdSound
    <3>2. m \in Nat /\ n \in Nat /\ m <= n /\ MaxDepth \in Nat
      BY <2>0, Depths
    <3> HIDE DEF m, n
    <3> QED BY <3>1, <3>2
  <2>3. CdOf("dir") => Short(m + 1)
    <3>1. CdOf("dir") => Short(n + 1)
      BY DEF CdSound
    <3>2. m \in Nat /\ n \in Nat /\ m <= n
      BY <2>0
    <3> HIDE DEF m, n
    <3>3. m + 1 \in Nat /\ n + 1 \in Nat /\ m + 1 <= n + 1
      BY <3>2
    <3> QED BY <3>1, <3>3, ShortLess
  <2>4. CdOf("mask") => Short(m)
    <3>1. CdOf("mask") => Short(n)
      BY DEF CdSound
    <3>2. m \in Nat /\ n \in Nat /\ m <= n
      BY <2>0
    <3> HIDE DEF m, n
    <3> QED BY <3>1, <3>2, ShortLess
  <2>5. CdOf("up") => UpCd'
    <3> SUFFICES ASSUME CdOf("up") PROVE UpCd'
      OBVIOUS
    <3>1. cd.todo = <<"..">> /\ cd.at = cur_dir /\ cur_dir # <<>> /\ Front(cur_dir) = Top.dir
      BY <1>1 DEF CdSound, UpCd
    <3>2. cd'.todo = <<>>
      BY <1>5, <3>1
    <3>3. cd'.at = Top.dir /\ Top' = Top
      BY <1>1, <1>5, <3>1 DEF Up, Top
    <3> QED BY <1>5, <2>1, <3>2, <3>3 DEF UpCd
  <2> QED BY <1>1, <1>5, <1>6, <2>1, <2>2, <2>3, <2>4, <2>5 DEF CdSound, CdOf, Short
<1>11. FramesSound'
  BY <1>1 DEF FramesSound
<1>12. Numbered'
  <2> SUFFICES ASSUME TablesHold' PROVE WalkSound' /\ ResSound' /\ RestoreSound' /\ SearchCovers'
    BY DEF Numbered
  <2>1. Stays /\ ResSound /\ SearchCovers
    BY <1>8 DEF Numbered, TableGoesOn
  <2>2. WalkSound' /\ ResSound' /\ RestoreSound'
    BY <1>1, <1>5, <1>6, <2>1, WalkNone, ResStays DEF RestoreSound
  <2>3. SearchCovers'
    <3>1. \A dv \in Drive, p \in Places : Listed(dv, p)' = Listed(dv, p) /\ Ahead(p)' = Ahead(p)
      BY <1>1, <1>5, <1>6 DEF Listed, Ahead, Leads
    <3> QED BY <1>1, <1>8, <2>1, <3>1, SearchGoesOn
  <2> QED BY <2>2, <2>3
<1> QED BY <1>7, <1>8, <1>9, <1>10, <1>11, <1>12

LEMMA CdNameKeeps ==
  ASSUME IInv, CdName PROVE IInv'
<1> USE DEF IInv, OwnInv
<1>1. /\ pc = "cd" /\ cd # NULL /\ walk = NULL /\ cd.todo # <<>> /\ Head(cd.todo) # ".."
      /\ walk' = [todo |-> cd.at, clus |-> RootClus] /\ pc' = "walk"
      /\ UNCHANGED <<vfsVars, cur_dv, cur_dir, ctx, cd, frames, victim, res, stable>>
  BY DEF CdName, TypeOK
<1>2. cd.at \in Seq(Names)
  BY <1>1, CdTyped
<1>3. walk' \in WalkLocals /\ walk' # NULL /\ walk'.todo = cd.at /\ walk'.clus = 0
  <2>1. walk' \in WalkLocals
    BY <1>1, <1>2, Sizes DEF WalkLocals
  <2> QED BY <1>1, <2>1, NullIs, Sizes
<1>4. TypeOK'
  BY <1>1, <1>3 DEF TypeOK, vfsVars
<1>5. TreeSound' /\ TableSound' /\ Shrinks /\ TableGoesOn
  BY <1>1, SameTree, SameTable DEF vfsVars
<1>6. Control'
  BY <1>1 DEF Control
<1>7. CdSound'
  BY <1>1 DEF CdSound, CdOf, SubCd, UpCd, RestoreCd, Top
<1>8. FramesSound'
  BY <1>1 DEF FramesSound
<1>9. Numbered'
  <2> SUFFICES ASSUME TablesHold' PROVE WalkSound' /\ ResSound' /\ RestoreSound' /\ SearchCovers'
    BY DEF Numbered
  <2>1. Stays /\ ResSound /\ SearchCovers /\ RestoreSound
    BY <1>5 DEF Numbered, TableGoesOn
  <2>2. WalkSound'
    BY <1>1, <1>3 DEF WalkSound, WalkDir
  <2>3. ResSound' /\ RestoreSound'
    BY <1>1, <2>1, ResStays DEF RestoreSound, Anchored, vfsVars
  <2>4. SearchCovers'
    <3>1. \A dv \in Drive, p \in Places : Listed(dv, p)' = Listed(dv, p) /\ Ahead(p)' = Ahead(p)
      BY <1>1 DEF Listed, Ahead, Leads, SubDir
    <3> QED BY <1>1, <1>5, <2>1, <3>1, SearchGoesOn
  <2> QED BY <2>2, <2>3, <2>4
<1> QED BY <1>4, <1>5, <1>6, <1>7, <1>8, <1>9

\* Where Name2DirClus is.
LEMMA WalkIs ==
  ASSUME OwnInv, WalkSound, walk # NULL, NEW dv \in Drive, dv = cur_dv
  PROVE  /\ walk.todo \in Seq(Names) /\ walk.clus \in Number /\ WalkDir \in Seq(Names)
         /\ \/ walk.clus = 0 /\ walk.todo = <<>> /\ ~Anchored(dv, WalkDir)
            \/ /\ walk.clus # 0 => get_node_by_clus(walk.clus, dv) # NULL
               /\ DirOf(walk.clus, dv) \in Seq(Names) /\ DirOf(walk.clus, dv) \o walk.todo = WalkDir
<1> USE DEF OwnInv
<1>1. walk.todo \in Seq(Names) /\ walk.clus \in Number
  BY DEF TypeOK, WalkLocals
<1>2. WalkDir \in Seq(Names)
  BY DEF TypeOK, WalkDir, CdLocals, IsDirName
<1>3. CASE walk.clus = 0 /\ walk.todo = WalkDir
  <2>1. <<>> \in Seq(Names) /\ <<>> \o walk.todo = walk.todo
    BY <1>1, EmptySeq, ConcatEmptySeq
  <2> QED BY <1>1, <1>2, <1>3, <2>1 DEF DirOf
<1>4. CASE /\ walk.clus \in 1 .. MaxAssignments /\ get_node_by_clus(walk.clus, dv) # NULL
           /\ PathOf(walk.clus, dv) \o walk.todo = WalkDir
  <2>1. TableType
    BY DEF TypeOK, TableType
  <2>2. PathOf(walk.clus, dv) \in Places /\ walk.clus # 0
    BY <1>4, <2>1, NodeIs
  <2>3. PathOf(walk.clus, dv) \in Seq(Names)
    BY <2>2, PlacesAreSeqs
  <2> QED BY <1>1, <1>2, <1>4, <2>2, <2>3 DEF DirOf
<1> QED BY <1>1, <1>2, <1>3, <1>4 DEF WalkSound

\* A lookup on the way to an anchored directory finds it.
LEMMA OnTheWay ==
  ASSUME OwnInv, NEW dv \in Drive, NEW d \in Seq(Names), NEW name \in Names,
         Anchored(dv, Append(d, name))
  PROVE  /\ Exists(dv, d) /\ Append(d, name) \in Places
         /\ Exists(dv, Append(d, name)) /\ IsDir(dv, Append(d, name))
<1> DEFINE a == Append(d, name)
<1>1. a \in Seq(Names) /\ a # <<>> /\ IsPrefix(d, a)
  BY PrefixAppend
<1>2. IsPrefix(a, a) /\ Anchored(dv, a) /\ TreeSound
  BY <1>1, PrefixBasics DEF OwnInv
<1> HIDE DEF a
<1>3. a \in Places /\ tree[dv][a] = "dir"
  BY <1>1, <1>2, AnchoredIs
<1>4. d # <<>> => d \in Places /\ tree[dv][d] = "dir"
  BY <1>1, <1>2, AnchoredIs
<1> QED BY <1>3, <1>4 DEF Exists, IsDir, a

LEMMA Name2DirClusKeeps ==
  ASSUME IInv, Name2DirClus PROVE IInv'
<1> USE DEF IInv, OwnInv
<1>1. /\ pc = "walk" /\ walk # NULL /\ walk.todo # <<>>
      /\ walk' = WalkOn(HostFsFileFind(walk.clus, Head(walk.todo), TRUE))
      /\ Stats(walk.clus, Head(walk.todo))
      /\ UNCHANGED <<tree, pc, cur_dv, cur_dir, ctx, cd, frames, victim, res, stable>>
  BY DEF Name2DirClus, TypeOK
<1>2. walk.todo \in Seq(Names) /\ walk.clus \in Number /\ cur_dv \in Drive
  BY <1>1 DEF TypeOK, WalkLocals
<1>3. Head(walk.todo) \in Names /\ Tail(walk.todo) \in Seq(Names)
  BY <1>1, <1>2, HeadTailProperties
<1>4. PICK dv \in Drive, clus \in Number, name \in Names, todo \in Seq(Names) :
        dv = cur_dv /\ clus = walk.clus /\ todo = walk.todo /\ name = Head(walk.todo)
  BY <1>2, <1>3
<1>5. TableType /\ name \in AnyName /\ TRUE \in BOOLEAN
  BY NamesAreWords DEF TypeOK, TableType
<1>6. /\ TableGoesOn
      /\ \E c \in Number :
           /\ c = HostFsFileFind(clus, name, TRUE)
           /\ c # 0 => /\ name \in Names /\ Append(DirOf(clus, dv), name) \in Places
                       /\ clus # 0 => get_node_by_clus(clus, dv) # NULL
                       /\ TablesHold' => /\ c \in 1 .. MaxAssignments
                                         /\ get_node_by_clus(c, dv)' # NULL
                                         /\ PathOf(c, dv)' = Append(DirOf(clus, dv), name)
           /\ /\ clus # 0 => get_node_by_clus(clus, dv) # NULL
              /\ Exists(dv, DirOf(clus, dv))
              /\ Append(DirOf(clus, dv), name) \in Places
              /\ Exists(dv, Append(DirOf(clus, dv), name))
              /\ TRUE => IsDir(dv, Append(DirOf(clus, dv), name))
              => c # 0
  <2>1. Stats(clus, name) /\ cur_dv = dv
    BY <1>1, <1>4
  <2> QED BY <1>5, <2>1, LookupIs, Zenon
<1>7. PICK c \in Number :
           /\ c = HostFsFileFind(clus, name, TRUE)
           /\ c # 0 => (TablesHold' => /\ c \in 1 .. MaxAssignments
                                       /\ get_node_by_clus(c, dv)' # NULL
                                       /\ PathOf(c, dv)' = Append(DirOf(clus, dv), name))
           /\ /\ clus # 0 => get_node_by_clus(clus, dv) # NULL
              /\ Exists(dv, DirOf(clus, dv))
              /\ Append(DirOf(clus, dv), name) \in Places
              /\ Exists(dv, Append(DirOf(clus, dv), name))
              /\ IsDir(dv, Append(DirOf(clus, dv), name))
              => c # 0
  BY <1>6, Zenon
<1>8. walk' = [todo |-> IF c = 0 THEN <<>> ELSE Tail(todo), clus |-> c]
  BY <1>1, <1>4, <1>7 DEF WalkOn
<1>9. walk' \in WalkLocals /\ walk' # NULL
  <2>1. (IF c = 0 THEN <<>> ELSE Tail(todo)) \in Seq(Names)
    BY <1>3, <1>4, EmptySeq
  <2>2. walk' \in WalkLocals
    BY <1>7, <1>8, <2>1 DEF WalkLocals
  <2> QED BY <2>2, NullIs
<1>10. TypeOK'
  BY <1>1, <1>6, <1>9 DEF TypeOK, TableGoesOn, TableType
<1>11. TreeSound' /\ TableSound' /\ Shrinks
  BY <1>1, <1>6, SameTree DEF TableGoesOn
<1>12. Control' /\ FramesSound' /\ CdSound'
  BY <1>1 DEF Control, FramesSound, CdSound, CdOf, SubCd, UpCd, RestoreCd, Top
<1>13. Numbered'
  <2> SUFFICES ASSUME TablesHold' PROVE WalkSound' /\ ResSound' /\ RestoreSound' /\ SearchCovers'
    BY DEF Numbered
  <2>1. Stays /\ WalkSound /\ ResSound /\ SearchCovers /\ RestoreSound
    BY <1>6 DEF Numbered, TableGoesOn
  <2>2. WalkSound'
    <3>1. PICK dir : dir = WalkDir
      OBVIOUS
    <3>2. dir \in Seq(Names) /\ walk.todo # <<>>
      BY <1>1, <1>4, <2>1, <3>1, WalkIs, Zenon
    <3>3. /\ clus # 0 => get_node_by_clus(clus, dv) # NULL
          /\ DirOf(clus, dv) \in Seq(Names) /\ DirOf(clus, dv) \o todo = dir
      <4>1. \/ walk.clus = 0 /\ walk.todo = <<>> /\ ~Anchored(dv, WalkDir)
            \/ /\ walk.clus # 0 => get_node_by_clus(walk.clus, dv) # NULL
               /\ DirOf(walk.clus, dv) \in Seq(Names) /\ DirOf(walk.clus, dv) \o walk.todo = WalkDir
        BY <1>1, <1>4, <2>1, WalkIs, Zenon
      <4> QED BY <1>4, <3>1, <3>2, <4>1
    <3>4. PICK d \in Seq(Names) : d = DirOf(clus, dv)
      BY <3>3
    <3>5. /\ Append(d, name) \o Tail(todo) = dir
          /\ IsPrefix(Append(d, name), dir) /\ Append(d, name) \in Seq(Names)
      <4>1. todo # <<>> /\ name = Head(todo) /\ d \o todo = dir
        BY <1>1, <1>4, <3>3, <3>4
      <4>2. /\ Append(d, Head(todo)) \o Tail(todo) = d \o todo
            /\ IsPrefix(Append(d, Head(todo)), d \o todo)
        <5>1. d \in Seq(Names) /\ todo \in Seq(Names) /\ todo # <<>>
          BY <4>1
        <5> QED BY ONLY <5>1, ConcatNext
      <4>3. Append(d, name) \in Seq(Names)
        BY PrefixAppend
      <4> QED BY <4>1, <4>2, <4>3
    <3>6. walk'.clus = c /\ walk'.todo = (IF c = 0 THEN <<>> ELSE Tail(todo)) /\ WalkDir' = dir /\ cur_dv' = dv
      <4>1. WalkDir' = WalkDir /\ cur_dv' = dv
        BY <1>1, <1>4 DEF WalkDir
      <4> QED BY <1>8, <3>1, <4>1
    <3>7. CASE c # 0
      <4>1. /\ c \in 1 .. MaxAssignments /\ get_node_by_clus(c, dv)' # NULL
            /\ PathOf(c, dv)' = Append(d, name)
        BY <1>7, <3>4, <3>7, Zenon
      <4>2. PathOf(c, dv)' \o Tail(todo) = dir
        BY <3>5, <4>1, Zenon
      <4>3. walk'.todo = Tail(todo)
        BY <3>6, <3>7
      <4> QED BY <3>6, <4>1, <4>2, <4>3, Zenon DEF WalkSound
    <3>8. CASE c = 0
      <4>1. ASSUME Anchored(dv, dir) PROVE FALSE
        <5>1. Anchored(dv, Append(d, name))
          BY <3>2, <3>5, <4>1, AnchoredAbove
        <5>2. /\ Exists(dv, d) /\ Append(d, name) \in Places
              /\ Exists(dv, Append(d, name)) /\ IsDir(dv, Append(d, name))
          BY <5>1, OnTheWay
        <5>3. c # 0
          BY <1>7, <3>3, <3>4, <5>2
        <5> QED BY <3>8, <5>3
      <4>2. ~Anchored(dv, dir)'
        BY <1>11, <4>1, AnchorsShrink, Zenon
      <4>3. walk'.todo = <<>>
        BY <3>6, <3>8
      <4> QED BY <3>6, <3>8, <4>2, <4>3, Zenon DEF WalkSound
    <3> QED BY <3>7, <3>8
  <2>3. ResSound' /\ RestoreSound'
    BY <1>1, <2>1, ResStays DEF RestoreSound, Anchored
  <2>4. SearchCovers'
    <3>1. \A e \in Drive, p \in Places : Listed(e, p)' = Listed(e, p) /\ Ahead(p)' = Ahead(p)
      BY <1>1 DEF Listed, Ahead, Leads, SubDir
    <3> QED BY <1>1, <1>11, <2>1, <3>1, SearchGoesOn
  <2> QED BY <2>2, <2>3, <2>4
<1> QED BY <1>10, <1>11, <1>12, <1>13

\* A lookup that fails has not found a directory under which something is stable.
LEMMA LookupFails ==
  ASSUME OwnInv, WalkSound, walk # NULL, walk.todo = <<>>, NEW dv \in Drive, dv = cur_dv,
         NEW at \in Seq(Names), at = WalkDir, NEW name \in Names,
         Anchored(dv, Append(at, name))
  PROVE  /\ walk.clus # 0 => get_node_by_clus(walk.clus, dv) # NULL
         /\ DirOf(walk.clus, dv) = at
         /\ Exists(dv, at) /\ Append(at, name) \in Places
         /\ Exists(dv, Append(at, name)) /\ IsDir(dv, Append(at, name))
<1>1. /\ Exists(dv, at) /\ Append(at, name) \in Places
      /\ Exists(dv, Append(at, name)) /\ IsDir(dv, Append(at, name))
  BY OnTheWay
<1>2. Append(at, name) \in Seq(Names) /\ IsPrefix(at, Append(at, name))
  BY PrefixAppend
<1>3. Anchored(dv, at)
  BY <1>2, AnchoredAbove
<1>4. /\ walk.clus # 0 => get_node_by_clus(walk.clus, dv) # NULL
      /\ DirOf(walk.clus, dv) \in Seq(Names) /\ DirOf(walk.clus, dv) \o walk.todo = WalkDir
  BY <1>3, WalkIs, Zenon
<1>5. PICK d \in Seq(Names) : d = DirOf(walk.clus, dv)
  BY <1>4
<1>6. d \o <<>> = d
  BY <1>5, ConcatEmptySeq
<1> QED BY <1>1, <1>4, <1>5, <1>6

LEMMA HostFsCdKeeps ==
  ASSUME IInv, HostFsCd PROVE IInv'
<1> USE DEF IInv, OwnInv
<1>1. /\ pc = "walk" /\ walk # NULL /\ walk.todo = <<>> /\ cd # NULL
      /\ cd' = IF HostFsFileFind(walk.clus, Head(cd.todo), TRUE) # 0
               THEN [cd EXCEPT !.todo = Tail(@), !.at = Append(@, Head(cd.todo))]
               ELSE [cd EXCEPT !.todo = <<>>, !.ok = FALSE]
      /\ Stats(walk.clus, Head(cd.todo))
      /\ pc' = "cd" /\ walk' = NULL
      /\ UNCHANGED <<tree, cur_dv, cur_dir, ctx, frames, victim, res, stable>>
  BY DEF HostFsCd, TypeOK
<1>2. /\ cd \in CdLocals /\ cd.todo \in Seq(Word) /\ cd.at \in Seq(Names) /\ cd.ok \in BOOLEAN
      /\ IsDirName(cd.at) /\ Len(cd.todo) \in Nat /\ Len(cd.at) \in Nat
      /\ ctx # NULL /\ ctx \in Context
  BY <1>1, CdTyped
<1>3. cd.todo # <<>> /\ Head(cd.todo) # ".." /\ cd.ok
  BY <1>1 DEF Control, CdSound
<1>4. Head(cd.todo) \in Word /\ Tail(cd.todo) \in Seq(Word) /\ Len(Tail(cd.todo)) = Len(cd.todo) - 1
  BY <1>2, <1>3, HeadTailProperties
<1>5. walk.clus \in Number /\ cur_dv \in Drive
  BY <1>1 DEF TypeOK, WalkLocals
<1>6. PICK dv \in Drive, clus \in Number, name \in Word, at \in Seq(Names), todo \in Seq(Word) :
        dv = cur_dv /\ clus = walk.clus /\ name = Head(cd.todo) /\ at = cd.at /\ todo = cd.todo
  BY <1>2, <1>4, <1>5
<1>7. TableType /\ name \in AnyName /\ TRUE \in BOOLEAN /\ Stats(clus, name) /\ cur_dv = dv
  BY <1>1, <1>6, NamesAreWords DEF TypeOK, TableType
<1>8. /\ TableGoesOn
      /\ \E c \in Number :
           /\ c = HostFsFileFind(clus, name, TRUE)
           /\ c # 0 => name \in Names
           /\ /\ clus # 0 => get_node_by_clus(clus, dv) # NULL
              /\ Exists(dv, DirOf(clus, dv))
              /\ Append(DirOf(clus, dv), name) \in Places
              /\ Exists(dv, Append(DirOf(clus, dv), name))
              /\ IsDir(dv, Append(DirOf(clus, dv), name))
              => c # 0
  <2>1. /\ TableGoesOn
        /\ \E c \in Number :
             /\ c = HostFsFileFind(clus, name, TRUE)
             /\ c # 0 => /\ name \in Names /\ Append(DirOf(clus, dv), name) \in Places
                         /\ clus # 0 => get_node_by_clus(clus, dv) # NULL
                         /\ TablesHold' => /\ c \in 1 .. MaxAssignments
                                           /\ get_node_by_clus(c, dv)' # NULL
                                           /\ PathOf(c, dv)' = Append(DirOf(clus, dv), name)
             /\ /\ clus # 0 => get_node_by_clus(clus, dv) # NULL
                /\ Exists(dv, DirOf(clus, dv))
                /\ Append(DirOf(clus, dv), name) \in Places
                /\ Exists(dv, Append(DirOf(clus, dv), name))
                /\ TRUE => IsDir(dv, Append(DirOf(clus, dv), name))
                => c # 0
    BY <1>7, LookupIs, Zenon
  <2> QED BY <2>1, Zenon
<1>9. PICK c \in Number :
        /\ c = HostFsFileFind(clus, name, TRUE)
        /\ c # 0 => name \in Names
        /\ /\ clus # 0 => get_node_by_clus(clus, dv) # NULL
           /\ Exists(dv, DirOf(clus, dv))
           /\ Append(DirOf(clus, dv), name) \in Places
           /\ Exists(dv, Append(DirOf(clus, dv), name))
           /\ IsDir(dv, Append(DirOf(clus, dv), name))
           => c # 0
  BY <1>8, Zenon
<1>10. cd' = IF c # 0 THEN [cd EXCEPT !.todo = Tail(@), !.at = Append(@, name)]
                      ELSE [cd EXCEPT !.todo = <<>>, !.ok = FALSE]
  BY <1>1, <1>6, <1>9, Zenon
<1>11. /\ c # 0 => /\ name \in Names /\ Append(at, name) \in Seq(Names)
                   /\ Len(Append(at, name)) = Len(at) + 1
       /\ <<>> \in Seq(Word) /\ Len(<<>>) = 0
  <2>1. c # 0 => name \in Names
    BY <1>9
  <2> QED BY <2>1, PrefixAppend, EmptySeq
<1>12. /\ cd' \in [todo : Seq(Word), at : Seq(Names), ok : BOOLEAN,
                   ret : {"user", "dir", "mask", "sub", "up", "restore"}]
       /\ cd'.ret = cd.ret
       /\ c # 0 => cd'.todo = Tail(todo) /\ cd'.at = Append(at, name) /\ cd'.ok
       /\ c = 0 => cd'.todo = <<>> /\ cd'.at = at /\ ~cd'.ok
  <2>1. CASE c # 0
    <3>1. cd' = [cd EXCEPT !.todo = Tail(@), !.at = Append(@, name)]
      BY <1>10, <2>1
    <3>2. Append(cd.at, name) \in Seq(Names) /\ Tail(cd.todo) \in Seq(Word)
      BY <1>4, <1>6, <1>11, <2>1
    <3> QED BY <1>2, <1>3, <1>6, <2>1, <3>1, <3>2 DEF CdLocals
  <2>2. CASE c = 0
    BY <1>2, <1>6, <1>10, <1>11, <2>2 DEF CdLocals
  <2> QED BY <2>1, <2>2
<1>13. cd' \in CdLocals /\ cd' # NULL
  BY <1>12, NullIs DEF CdLocals
<1>14. /\ Len(cd'.at) + Len(cd'.todo) \in Nat /\ Len(cd.at) + Len(cd.todo) \in Nat
       /\ Len(cd'.at) + Len(cd'.todo) <= Len(cd.at) + Len(cd.todo)
       /\ c # 0 => Len(cd'.at) <= Len(cd.at) + Len(cd.todo) /\ Len(cd'.at) \in Nat
  <2> DEFINE a == Len(cd.at)
             t == Len(cd.todo)
             u == Len(cd'.at)
             v == Len(cd'.todo)
  <2>1. c # 0 => u = a + 1 /\ v = t - 1
    BY <1>4, <1>6, <1>11, <1>12
  <2>2. c = 0 => u = a /\ v = 0
    BY <1>6, <1>11, <1>12
  <2>3. a \in Nat /\ t \in Nat \ {0}
    BY <1>2, <1>3, EmptySeq
  <2> HIDE DEF a, t, u, v
  <2>4. u + v \in Nat /\ a + t \in Nat /\ u + v <= a + t /\ (c # 0 => u <= a + t /\ u \in Nat)
    BY <2>1, <2>2, <2>3
  <2> QED BY <2>4 DEF a, t, u, v
<1>15. CdOf("sub") => /\ todo = <<name>> /\ Tail(todo) = <<>> /\ at = cur_dir /\ Append(cur_dir, name) \in Places
                      /\ name \in Names
  <2> SUFFICES ASSUME CdOf("sub")
               PROVE  /\ todo = <<name>> /\ Tail(todo) = <<>> /\ at = cur_dir
                      /\ Append(cur_dir, name) \in Places /\ name \in Names
    OBVIOUS
  <2>1. PICK n \in Names : SubCd(n)
    BY DEF CdSound
  <2>2. cd.todo = <<n>> /\ cd.at = cur_dir /\ Append(cur_dir, n) \in Places
    BY <1>3, <2>1 DEF SubCd
  <2>3. name = n /\ Tail(<<n>>) = <<>>
    BY <1>6, <2>2
  <2> QED BY <1>6, <2>2, <2>3
<1>16. CdOf("restore") =>
         /\ name \in Names /\ cur_dv = ctx.old_dv /\ cur_dir = <<>> /\ ctx.old_dir \in Seq(Names)
         /\ Append(at, name) \o Tail(todo) = ctx.old_dir
         /\ IsPrefix(Append(at, name), ctx.old_dir) /\ IsPrefix(at, ctx.old_dir)
  <2> SUFFICES ASSUME CdOf("restore")
               PROVE  /\ name \in Names /\ cur_dv = ctx.old_dv /\ cur_dir = <<>>
                      /\ ctx.old_dir \in Seq(Names)
                      /\ Append(at, name) \o Tail(todo) = ctx.old_dir
                      /\ IsPrefix(Append(at, name), ctx.old_dir) /\ IsPrefix(at, ctx.old_dir)
    OBVIOUS
  <2>1. todo \in Seq(Names) /\ name \in Names /\ ctx.old_dir \in Seq(Names)
    BY <1>3, <1>6, RestoreNames
  <2>2. cur_dv = ctx.old_dv /\ cur_dir = <<>> /\ at \o todo = ctx.old_dir
    BY <1>3, <1>6 DEF CdSound, RestoreCd
  <2>3. /\ Append(at, Head(todo)) \o Tail(todo) = at \o todo
        /\ IsPrefix(Append(at, Head(todo)), at \o todo) /\ IsPrefix(at, at \o todo)
    <3>1. at \in Seq(Names) /\ todo \in Seq(Names) /\ todo # <<>>
      BY <1>3, <1>6, <2>1
    <3> QED BY ONLY <3>1, ConcatNext
  <2> QED BY <1>6, <2>1, <2>2, <2>3
<1>17. ~CdOf("up")
  <2> SUFFICES ASSUME CdOf("up") PROVE FALSE
    OBVIOUS
  <2>1. cd.todo = <<"..">>
    BY <1>3 DEF CdSound, UpCd
  <2> QED BY <1>3, <2>1
<1>18. IsDirName(cd'.at)
  <2>1. CASE c = 0
    BY <1>2, <1>6, <1>12, <2>1
  <2>2. CASE c # 0
    <3>1. cd'.at \in Seq(Names)
      BY <1>11, <1>12, <2>2
    <3> DEFINE m == Len(cd'.at)
               n == Len(cd.at) + Len(cd.todo)
    <3>2. m \in Nat /\ n \in Nat /\ m <= n /\ m <= n + 1 /\ n + 1 \in Nat
      <4> HIDE DEF m, n
      <4>1. m \in Nat /\ n \in Nat /\ m <= n
        BY <1>14, <2>2 DEF m, n
      <4> QED BY <4>1
    <3>3. CdOf("user") \/ CdOf("dir") \/ CdOf("mask") => Short(m)
      <4>1. CdOf("user") => Short(n)
        BY DEF CdSound, Short
      <4>2. CdOf("dir") => Short(n + 1)
        BY DEF CdSound
      <4>3. CdOf("mask") => Short(n)
        BY DEF CdSound
      <4> HIDE DEF m, n
      <4> QED BY <3>2, <4>1, <4>2, <4>3, ShortLess
    <3>4. CdOf("sub") => cd'.at \in Places
      BY <1>12, <1>15, <2>2
    <3>5. CdOf("restore") => Short(m)
      <4> SUFFICES ASSUME CdOf("restore") PROVE Short(m)
        OBVIOUS
      <4>1. cd'.at = Append(at, name) /\ IsPrefix(cd'.at, ctx.old_dir) /\ ctx.old_dir \in Seq(Names)
        BY <1>12, <1>16, <2>2
      <4>2. Len(cd'.at) <= Len(ctx.old_dir) /\ Len(ctx.old_dir) \in Nat
        BY <3>1, <4>1, PrefixBasics, LenProperties
      <4>3. Short(Len(ctx.old_dir))
        BY <1>2 DEF Control, Short
      <4> QED BY <3>2, <4>2, <4>3, ShortLess
    <3>6. CdOf("user") \/ CdOf("dir") \/ CdOf("mask") \/ CdOf("sub") \/ CdOf("restore")
      BY <1>1, <1>2, <1>17 DEF CdOf, CdLocals
    <3> QED BY <3>1, <3>3, <3>4, <3>5, <3>6 DEF IsDirName, Short
  <2> QED BY <2>1, <2>2
<1>19. TypeOK'
  BY <1>1, <1>2, <1>8, <1>13, <1>18 DEF TypeOK, TableGoesOn, TableType
<1>20. TreeSound' /\ TableSound' /\ Shrinks
  BY <1>1, <1>8, SameTree DEF TableGoesOn
<1>21. Control' /\ FramesSound'
  BY <1>1, <1>2 DEF Control, FramesSound
<1>22. CdSound'
  <2> DEFINE m == Len(cd'.at) + Len(cd'.todo)
             n == Len(cd.at) + Len(cd.todo)
  <2>1. m \in Nat /\ n \in Nat /\ m <= n /\ MaxDepth \in Nat
    BY <1>14, Depths
  <2>2. CdOf("user") => m <= MaxDepth
    <3>1. CdOf("user") => n <= MaxDepth
      BY DEF CdSound
    <3> HIDE DEF m, n
    <3> QED BY <2>1, <3>1
  <2>3. CdOf("dir") => Short(m + 1)
    <3>1. CdOf("dir") => Short(n + 1)
      BY DEF CdSound
    <3> HIDE DEF m, n
    <3>2. m + 1 \in Nat /\ n + 1 \in Nat /\ m + 1 <= n + 1
      BY <2>1
    <3> QED BY <3>1, <3>2, ShortLess
  <2>4. CdOf("mask") => Short(m)
    <3>1. CdOf("mask") => Short(n)
      BY DEF CdSound
    <3> HIDE DEF m, n
    <3> QED BY <2>1, <3>1, ShortLess
  <2>5. CdOf("sub") => SubCd(name)'
    <3>1. CdOf("sub") => Append(cur_dir', name) \in Places
      BY <1>1, <1>15
    <3>2. CdOf("sub") => \/ cd'.todo = <<>> /\ cd'.at = Append(cur_dir', name) /\ cd'.ok
                         \/ cd'.todo = <<>> /\ cd'.at = cur_dir' /\ ~cd'.ok
      BY <1>1, <1>12, <1>15
    <3> QED BY <3>1, <3>2 DEF SubCd
  <2>6. CdOf("restore") => RestoreCd'
    <3>1. ctx' = ctx /\ cur_dv' = cur_dv /\ cur_dir' = cur_dir
      BY <1>1
    <3> QED BY <1>12, <1>16, <3>1 DEF RestoreCd
  <2>7. /\ CdOf("user")' = CdOf("user") /\ CdOf("dir")' = CdOf("dir") /\ CdOf("mask")' = CdOf("mask")
        /\ CdOf("sub")' = CdOf("sub") /\ CdOf("up")' = CdOf("up") /\ CdOf("restore")' = CdOf("restore")
    BY <1>1, <1>12, <1>13 DEF CdOf
  <2>8. ~cd'.ok => cd'.todo = <<>>
    BY <1>12
  <2>9. CdOf("sub") => name \in Names
    BY <1>15
  <2>10. CdOf("sub") => \E nm \in Names : SubCd(nm)'
    BY <2>5, <2>9
  <2> HIDE DEF m, n
  <2>11. ctx' = ctx /\ frames' = frames /\ res' = res /\ Top' = Top /\ cur_dir' = cur_dir
    BY <1>1 DEF Top
  <2>12. CdOf("user")' => /\ ctx'.op = "cd" /\ frames' = <<>> /\ res' = {}
                          /\ Len(cd'.at) + Len(cd'.todo) <= MaxDepth
    BY <2>2, <2>7, <2>11 DEF CdSound, m
  <2>13. CdOf("dir")' => /\ ctx'.op # "cd" /\ frames' = <<>> /\ res' = {} /\ ctx'.searched = NULL
                         /\ Short(Len(cd'.at) + Len(cd'.todo) + 1)
    BY <2>3, <2>7, <2>11 DEF CdSound, m
  <2>14. CdOf("mask")' => /\ ctx'.op = "find" /\ frames' = <<>> /\ res' = {} /\ ctx'.searched = NULL
                          /\ Short(Len(cd'.at) + Len(cd'.todo))
    BY <2>4, <2>7, <2>11 DEF CdSound, m
  <2>15. CdOf("sub")' => /\ ctx'.op = "find" /\ ctx'.flag /\ frames' # <<>> /\ cur_dir' = Top'.dir
    BY <2>7, <2>11 DEF CdSound
  <2>16. CdOf("restore")' => ctx'.op # "cd" /\ frames' = <<>> /\ RestoreCd'
    BY <2>6, <2>7, <2>11 DEF CdSound
  <2> QED BY <1>17, <2>7, <2>8, <2>10, <2>12, <2>13, <2>14, <2>15, <2>16 DEF CdSound, Short
<1>23. Numbered'
  <2> SUFFICES ASSUME TablesHold' PROVE WalkSound' /\ ResSound' /\ RestoreSound' /\ SearchCovers'
    BY DEF Numbered
  <2>1. Stays /\ WalkSound /\ ResSound /\ SearchCovers /\ RestoreSound
    BY <1>8 DEF Numbered, TableGoesOn
  <2>2. WalkSound' /\ ResSound'
    BY <1>1, <2>1, WalkNone, ResStays
  <2>3. ASSUME name \in Names, Anchored(dv, Append(at, name)) PROVE c # 0
    <3>1. at = WalkDir
      BY <1>1, <1>6 DEF WalkDir
    <3>2. /\ walk.clus # 0 => get_node_by_clus(walk.clus, dv) # NULL
          /\ DirOf(walk.clus, dv) = at
          /\ Exists(dv, at) /\ Append(at, name) \in Places
          /\ Exists(dv, Append(at, name)) /\ IsDir(dv, Append(at, name))
      BY <1>1, <1>6, <2>1, <2>3, <3>1, LookupFails
    <3> QED BY <1>6, <1>9, <3>2
  <2>4. RestoreSound'
    <3> SUFFICES ASSUME CdOf("restore"), Anchored(ctx.old_dv, ctx.old_dir)' PROVE cd'.ok
      BY <1>1, <1>12 DEF RestoreSound, CdOf
    <3>1. name \in Names /\ IsPrefix(Append(at, name), ctx.old_dir) /\ ctx.old_dir \in Seq(Names) /\ ctx.old_dv = dv
      BY <1>6, <1>16
    <3>2. Anchored(dv, ctx.old_dir)
      BY <1>1, <3>1 DEF Anchored
    <3>3. Append(at, name) \in Seq(Names)
      BY <3>1, PrefixAppend
    <3>4. Anchored(dv, Append(at, name))
      BY <3>1, <3>2, <3>3, AnchoredAbove
    <3> QED BY <1>12, <2>3, <3>1, <3>4
  <2>5. SearchCovers'
    <3>1. ASSUME NEW e \in Drive, NEW p \in Places, Wanted(e, p), ctx.op = "find", ctx.searched # NULL,
                 Listed(e, p) \/ Ahead(p)
          PROVE  Listed(e, p)' \/ Ahead(p)'
      <4>1. Listed(e, p)' = Listed(e, p)
        BY <1>1 DEF Listed
      <4>2. ~(cd.ret = "sub" /\ IsPrefix(SubDir, p) /\ SubDir # p) /\ Ahead(p) => Ahead(p)'
        BY <1>1 DEF Ahead, Leads
      <4>3. ASSUME cd.ret = "sub", IsPrefix(SubDir, p), SubDir # p PROVE Ahead(p)'
        <5>0. CdOf("sub")
          BY <1>1, <4>3 DEF CdOf
        <5>1. SubDir = Append(at, name) /\ at = cur_dir /\ name \in Names /\ Tail(todo) = <<>>
          BY <1>3, <1>6, <1>15, <5>0 DEF SubDir
        <5>2. Exists(e, p) /\ <<e, p>> \in stable /\ e = ctx.searched[1]
          BY <3>1 DEF Wanted
        <5>3. e = dv
          <6>1. frames # <<>>
            BY <5>0 DEF CdSound
          <6> QED BY <1>6, <5>2, <6>1 DEF FramesSound
        <5>4. Anchored(dv, Append(at, name))
          <6>1. p # <<>> /\ tree[e][p] # "none"
            BY <5>2, PlacesAreSeqs DEF Exists
          <6> QED BY <4>3, <5>1, <5>2, <5>3, <6>1 DEF Anchored
        <5>5. c # 0
          BY <2>3, <5>1, <5>4
        <5>6. cd' # NULL /\ cd'.ret = "sub" /\ cd'.ok /\ cd'.todo = <<>> /\ cd'.at = Append(at, name)
          BY <1>12, <1>13, <4>3, <5>1, <5>5
        <5>7. SubDir' = SubDir
          BY <5>1, <5>6 DEF SubDir
        <5> QED BY <4>3, <5>6, <5>7 DEF Ahead
      <4> QED BY <3>1, <4>1, <4>2, <4>3
    <3>2. ctx # NULL /\ ctx.op = "find" /\ ctx.searched # NULL =>
            \A e \in Drive, p \in Places :
              Wanted(e, p) /\ (Listed(e, p) \/ Ahead(p)) => Listed(e, p)' \/ Ahead(p)'
      BY <3>1, Zenon
    <3> QED BY <1>1, <1>20, <2>1, <3>2, SearchGoesOn
  <2> QED BY <2>2, <2>4, <2>5
<1> QED BY <1>19, <1>20, <1>21, <1>22, <1>23

-----------------------------------------------------------------------------
(***************************************************************************)
(* The end of a Cd, and the way back.                                      *)
(***************************************************************************)
\* An operation that has ended its search goes back to where the task was.
LEMMA BackBegins ==
  ASSUME OwnInv, ctx # NULL, ctx.op # "cd", DirContextDel, ctx' = ctx, walk' = NULL, victim' = NULL,
         frames' = <<>>, UNCHANGED <<tree, stable>>, TableGoesOn,
         res' \subseteq [dv : Drive, full_name : Seq(Names), clus : Number]
  PROVE  OwnInv' /\ WalkSound' /\ RestoreSound' /\ cd' # NULL /\ cd'.ret = "restore"
<1> USE DEF OwnInv
<1>1. ctx \in Context /\ ctx.old_dv \in Drive /\ ctx.old_dir \in Seq(Names)
  BY DEF TypeOK, Context
<1>2. cur_dv' = ctx.old_dv /\ cur_dir' = <<>> /\ pc' = "cd"
  BY DEF DirContextDel, CdCall
<1>3. cd' = [todo |-> ctx.old_dir, at |-> <<>>, ok |-> TRUE, ret |-> "restore"]
  BY DEF DirContextDel, CdCall
<1>4. ctx.old_dir \in Seq(Word) /\ <<>> \in Seq(Names) /\ Len(<<>>) = 0
  <2>1. Names \subseteq Word
    BY DEF Word
  <2> QED BY <1>1, <2>1, SeqMonotonic, EmptySeq
<1>5. IsDirName(<<>>)
  <2>1. 0 <= MaxDepth
    BY Depths
  <2> QED BY <1>4, <2>1 DEF IsDirName
<1>6. cd' \in CdLocals /\ cd' # NULL
  <2>1. cd' \in CdLocals
    BY <1>3, <1>4 DEF CdLocals
  <2> QED BY <2>1, NullIs
<1>7. cd'.todo = ctx.old_dir /\ cd'.at = <<>> /\ cd'.ok = TRUE /\ cd'.ret = "restore"
  BY <1>3
<1>8. frames' \in Seq([dir : Seq(Names), left : SUBSET Names])
  BY EmptySeq
<1>9. TypeOK'
  BY <1>1, <1>2, <1>5, <1>6, <1>7, <1>8 DEF TypeOK, TableGoesOn, TableType
<1>10. TreeSound' /\ TableSound'
  BY SameTree DEF TableGoesOn
<1>11. Control'
  BY <1>2 DEF Control
<1>12. CdSound'
  <2>1. <<>> \o ctx.old_dir = ctx.old_dir
    BY <1>1, ConcatEmptySeq
  <2>2. RestoreCd'
    BY <1>2, <1>7, <2>1 DEF RestoreCd
  <2> QED BY <1>7, <2>2 DEF CdSound, CdOf
<1>13. FramesSound'
  BY DEF FramesSound
<1>14. WalkSound' /\ RestoreSound'
  BY <1>7 DEF WalkSound, RestoreSound
<1> QED BY <1>6, <1>7, <1>9, <1>10, <1>11, <1>12, <1>13, <1>14

\* A Cd that has ended.
LEMMA CdEnds ==
  ASSUME IInv, NEW ret \in {"user", "dir", "mask", "sub", "up", "restore"}, CdReturns(ret)
  PROVE  /\ pc = "cd" /\ cd # NULL /\ CdOf(ret) /\ cd.todo = <<>> /\ Len(cd.todo) = 0
         /\ walk = NULL /\ victim = NULL /\ cd.at \in Seq(Names) /\ IsDirName(cd.at)
         /\ Len(cd.at) \in Nat /\ cd.ok \in BOOLEAN /\ ctx # NULL /\ ctx \in Context
         /\ victim' = NULL /\ UNCHANGED <<tree, assignments>>
         /\ TypeOK /\ TreeSound /\ TableSound /\ Control /\ CdSound /\ FramesSound
         /\ TableGoesOn /\ TableSound'
<1>1. /\ pc = "cd" /\ cd.todo = <<>> /\ cd.ret = ret /\ UNCHANGED <<tree, assignments, victim>>
      /\ TypeOK /\ TreeSound /\ TableSound /\ Control /\ CdSound /\ FramesSound
  BY DEF CdReturns, IInv, OwnInv, vfsVars
<1>2. cd # NULL /\ walk = NULL /\ victim = NULL
  BY <1>1 DEF TypeOK
<1>3. /\ cd.at \in Seq(Names) /\ IsDirName(cd.at) /\ Len(cd.at) \in Nat /\ cd.ok \in BOOLEAN
      /\ ctx # NULL /\ ctx \in Context
  BY <1>2, CdTyped DEF IInv
<1>4. TableGoesOn /\ TableSound'
  BY <1>1, SameTable
<1> QED BY <1>1, <1>2, <1>3, <1>4, EmptySeq DEF CdOf

LEMMA UserCdEndsKeeps ==
  ASSUME IInv, UserCdEnds PROVE IInv'
<1>1. CdReturns("user") /\ "user" \in {"user", "dir", "mask", "sub", "up", "restore"}
  BY DEF UserCdEnds
<1>2. /\ CdOf("user") /\ Len(cd.todo) = 0 /\ walk = NULL /\ cd.at \in Seq(Names) /\ IsDirName(cd.at)
      /\ Len(cd.at) \in Nat /\ ctx # NULL /\ victim' = NULL /\ UNCHANGED <<tree, assignments>>
      /\ TypeOK /\ TreeSound /\ TableSound /\ CdSound /\ TableGoesOn /\ TableSound'
  BY <1>1, CdEnds
<1>3. /\ cur_dir' = cd.at /\ cd' = NULL /\ ctx' = NULL /\ pc' = "idle" /\ stable' = AllPlaces
      /\ UNCHANGED <<cur_dv, walk, frames, res>>
  BY DEF UserCdEnds
<1>4. frames = <<>> /\ res = {} /\ Len(cd.at) <= MaxDepth
  BY <1>2 DEF CdSound
<1>5. TypeOK'
  BY <1>2, <1>3 DEF TypeOK
<1>6. TreeSound' /\ Control' /\ CdSound' /\ FramesSound'
  BY <1>2, <1>3, <1>4 DEF TreeSound, Control, CdSound, CdOf, FramesSound
<1>7. Numbered'
  BY <1>2, <1>3, IdleNumbered
<1> QED BY <1>2, <1>5, <1>6, <1>7 DEF IInv, OwnInv

LEMMA RestoredKeeps ==
  ASSUME IInv, Restored PROVE IInv'
<1>1. CdReturns("restore") /\ "restore" \in {"user", "dir", "mask", "sub", "up", "restore"}
  BY DEF Restored
<1>2. /\ CdOf("restore") /\ cd.todo = <<>> /\ walk = NULL /\ cd.at \in Seq(Names) /\ IsDirName(cd.at)
      /\ Len(cd.at) \in Nat /\ ctx # NULL /\ ctx \in Context /\ victim' = NULL
      /\ UNCHANGED <<tree, assignments>> /\ cd.ok \in BOOLEAN
      /\ TypeOK /\ TreeSound /\ TableSound /\ CdSound /\ Control /\ TableGoesOn /\ TableSound'
  BY <1>1, CdEnds
<1>3. /\ cur_dir' = cd.at /\ cd' = NULL /\ ctx' = NULL /\ pc' = "idle" /\ stable' = AllPlaces
      /\ res' = {} /\ UNCHANGED <<cur_dv, walk, frames>>
  BY DEF Restored
<1>4. frames = <<>> /\ RestoreCd
  BY <1>2 DEF CdSound
<1>5. Len(cd.at) <= MaxDepth
  <2>1. ctx.old_dir \in Seq(Names) /\ Len(ctx.old_dir) <= MaxDepth
    BY <1>2 DEF Context, Control
  <2>2. IsPrefix(cd.at, ctx.old_dir)
    <3>1. cd.at \o <<>> = cd.at /\ IsPrefix(cd.at, cd.at)
      BY <1>2, ConcatEmptySeq, PrefixBasics
    <3> QED BY <1>2, <1>4, <3>1 DEF RestoreCd
  <2>3. Len(cd.at) <= Len(ctx.old_dir) /\ Len(ctx.old_dir) \in Nat /\ MaxDepth \in Nat
    BY <1>2, <2>1, <2>2, PrefixBasics, LenProperties, Depths
  <2> QED BY <1>2, <2>1, <2>3
<1>6. TypeOK'
  BY <1>2, <1>3 DEF TypeOK
<1>7. TreeSound' /\ Control' /\ CdSound' /\ FramesSound'
  BY <1>2, <1>3, <1>4, <1>5 DEF TreeSound, Control, CdSound, CdOf, FramesSound
<1>8. Numbered'
  BY <1>2, <1>3, IdleNumbered
<1> QED BY <1>2, <1>6, <1>7, <1>8 DEF IInv, OwnInv

LEMMA FileDirReachedKeeps ==
  ASSUME IInv, FileDirReached PROVE IInv'
<1>1. CdReturns("dir") /\ "dir" \in {"user", "dir", "mask", "sub", "up", "restore"}
  BY DEF FileDirReached
<1>2. /\ CdOf("dir") /\ walk = NULL /\ cd.at \in Seq(Names) /\ IsDirName(cd.at)
      /\ ctx # NULL /\ victim' = NULL /\ UNCHANGED <<tree, assignments>>
      /\ TypeOK /\ TreeSound /\ TableSound /\ CdSound /\ Control /\ TableGoesOn /\ TableSound'
  BY <1>1, CdEnds
<1>3. /\ ctx.op = "file" /\ cur_dir' = cd.at /\ cd' = NULL /\ pc' = "walk"
      /\ walk' = [todo |-> cd.at, clus |-> RootClus] /\ UNCHANGED <<cur_dv, ctx, frames, res, stable>>
  BY DEF FileDirReached
<1>4. frames = <<>> /\ res = {} /\ ctx.searched = NULL
  BY <1>2 DEF CdSound
<1>5. walk' \in WalkLocals /\ walk' # NULL /\ walk'.todo = cd.at /\ walk'.clus = 0
  <2>1. walk' \in WalkLocals
    BY <1>2, <1>3, Sizes DEF WalkLocals
  <2> QED BY <1>3, <2>1, NullIs, Sizes
<1>6. TypeOK'
  BY <1>2, <1>3, <1>5 DEF TypeOK
<1>7. TreeSound' /\ Control' /\ CdSound' /\ FramesSound'
  BY <1>2, <1>3, <1>4 DEF TreeSound, Control, CdSound, CdOf, FramesSound
<1>8. Numbered'
  <2>1. WalkSound'
    BY <1>3, <1>5 DEF WalkSound, WalkDir
  <2>2. ResSound' /\ RestoreSound' /\ SearchCovers'
    BY <1>3 DEF ResSound, RestoreSound, SearchCovers
  <2> QED BY <2>1, <2>2 DEF Numbered
<1> QED BY <1>2, <1>6, <1>7, <1>8 DEF IInv, OwnInv

LEMMA FindDirReachedKeeps ==
  ASSUME IInv, FindDirReached PROVE IInv'
<1>1. CdReturns("dir") /\ "dir" \in {"user", "dir", "mask", "sub", "up", "restore"}
  BY DEF FindDirReached
<1>2. /\ CdOf("dir") /\ walk = NULL /\ cd.at \in Seq(Names) /\ IsDirName(cd.at) /\ Len(cd.at) \in Nat
      /\ ctx # NULL /\ ctx \in Context /\ victim' = NULL /\ UNCHANGED <<tree, assignments>>
      /\ TypeOK /\ TreeSound /\ TableSound /\ CdSound /\ Control /\ TableGoesOn /\ TableSound'
      /\ Len(cd.todo) = 0
  BY <1>1, CdEnds
<1>3. /\ ctx.op = "find" /\ cur_dir' = cd.at /\ pc' = "cd"
      /\ cd' = [todo |-> <<ctx.mask>>, at |-> cd.at, ok |-> TRUE, ret |-> "mask"]
      /\ UNCHANGED <<cur_dv, ctx, walk, frames, res, stable>>
  BY DEF FindDirReached, CdCall
<1>4. frames = <<>> /\ res = {} /\ ctx.searched = NULL /\ Short(Len(cd.at) + 0 + 1)
  BY <1>2 DEF CdSound
<1>5. cd' \in CdLocals /\ cd' # NULL
  <2>1. ctx.mask \in Word
    BY <1>2 DEF Context
  <2>2. <<ctx.mask>> \in Seq(Word)
    BY <2>1
  <2>3. cd' \in CdLocals
    BY <1>2, <1>3, <2>2 DEF CdLocals
  <2> QED BY <2>3, NullIs
<1>6. /\ Len(cd'.at) + Len(cd'.todo) = Len(cd.at) + 0 + 1
      /\ cd'.at = cd.at /\ cd'.ok = TRUE /\ cd'.ret = "mask"
  <2>1. Len(<<ctx.mask>>) = 1 /\ cd'.todo = <<ctx.mask>> /\ cd'.at = cd.at /\ cd'.ok = TRUE /\ cd'.ret = "mask"
    BY <1>3
  <2> QED BY <1>2, <2>1
<1>7. TypeOK'
  BY <1>2, <1>3, <1>5, <1>6 DEF TypeOK
<1>8. Short(Len(cd'.at) + Len(cd'.todo))
  BY <1>4, <1>6
<1>9. TreeSound' /\ Control' /\ FramesSound'
  BY <1>2, <1>3, <1>4 DEF TreeSound, Control, FramesSound
<1>10. CdSound'
  BY <1>3, <1>4, <1>6, <1>8 DEF CdSound, CdOf, Short
<1>11. Numbered'
  BY <1>2, <1>3, <1>4, <1>6, WalkNone DEF Numbered, ResSound, RestoreSound, SearchCovers
<1> QED BY <1>2, <1>7, <1>9, <1>10, <1>11 DEF IInv, OwnInv

LEMMA DirMissingKeeps ==
  ASSUME IInv, DirMissing PROVE IInv'
<1>1. CdReturns("dir") /\ "dir" \in {"user", "dir", "mask", "sub", "up", "restore"}
  BY DEF DirMissing
<1>2. /\ CdOf("dir") /\ walk = NULL /\ ctx # NULL /\ victim' = NULL /\ UNCHANGED <<tree, assignments>>
      /\ TypeOK /\ CdSound /\ TableGoesOn
  BY <1>1, CdEnds
<1>3. DirContextDel /\ UNCHANGED <<ctx, walk, frames, res, stable>>
  BY DEF DirMissing
<1>4. frames = <<>> /\ res = {} /\ ctx.searched = NULL /\ ctx.op # "cd"
  BY <1>2 DEF CdSound
<1>5. OwnInv' /\ WalkSound' /\ RestoreSound'
  BY <1>2, <1>3, <1>4, BackBegins DEF IInv
<1>6. ResSound' /\ SearchCovers'
  BY <1>3, <1>4 DEF ResSound, SearchCovers
<1> QED BY <1>5, <1>6 DEF IInv, Numbered

LEMMA FileFindKeeps ==
  ASSUME IInv, FileFind PROVE IInv'
<1> USE DEF IInv, OwnInv
<1>1. /\ pc = "walk" /\ walk # NULL /\ cd = NULL /\ victim = NULL
      /\ res' = (IF HostFsFileFind(walk.clus, ctx.mask, FALSE) = 0 THEN {}
                 ELSE {Entry(ctx.mask, HostFsFileFind(walk.clus, ctx.mask, FALSE))})
      /\ Stats(walk.clus, ctx.mask) /\ walk' = NULL /\ DirContextDel
      /\ UNCHANGED <<tree, ctx, frames, victim, stable>>
  BY DEF FileFind, TypeOK
<1>2. ctx.op = "file" /\ frames = <<>> /\ ctx # NULL /\ ctx \in Context /\ ctx.mask \in Word
  BY <1>1 DEF Control, TypeOK, Context
<1>3. walk.clus \in Number /\ cur_dv \in Drive /\ cur_dir \in Seq(Names)
  BY <1>1 DEF TypeOK, WalkLocals, IsDirName
<1>4. PICK dv \in Drive, clus \in Number, name \in Word :
        dv = cur_dv /\ clus = walk.clus /\ name = ctx.mask
  BY <1>2, <1>3
<1>5. TableType /\ name \in AnyName /\ FALSE \in BOOLEAN /\ Stats(clus, name) /\ cur_dv = dv
  BY <1>1, <1>4, NamesAreWords DEF TypeOK, TableType
<1>6. /\ TableGoesOn
      /\ \E c \in Number : c = HostFsFileFind(clus, name, FALSE) /\ (c # 0 => name \in Names)
  <2>1. /\ TableGoesOn
        /\ \E c \in Number :
             /\ c = HostFsFileFind(clus, name, FALSE)
             /\ c # 0 => /\ name \in Names /\ Append(DirOf(clus, dv), name) \in Places
                         /\ clus # 0 => get_node_by_clus(clus, dv) # NULL
                         /\ TablesHold' => /\ c \in 1 .. MaxAssignments
                                           /\ get_node_by_clus(c, dv)' # NULL
                                           /\ PathOf(c, dv)' = Append(DirOf(clus, dv), name)
             /\ /\ clus # 0 => get_node_by_clus(clus, dv) # NULL
                /\ Exists(dv, DirOf(clus, dv))
                /\ Append(DirOf(clus, dv), name) \in Places
                /\ Exists(dv, Append(DirOf(clus, dv), name))
                /\ FALSE => IsDir(dv, Append(DirOf(clus, dv), name))
                => c # 0
    BY <1>5, LookupIs, Zenon
  <2> QED BY <2>1, Zenon
<1>7. PICK c \in Number : c = HostFsFileFind(clus, name, FALSE) /\ (c # 0 => name \in Names)
  BY <1>6, Zenon
<1>8. res' = IF c = 0 THEN {} ELSE {Entry(name, c)}
  BY <1>1, <1>4, <1>7, Zenon
<1>9. res' \subseteq [dv : Drive, full_name : Seq(Names), clus : Number]
  <2>1. c # 0 => Append(cur_dir, name) \in Seq(Names)
    BY <1>3, <1>7, PrefixAppend
  <2>2. c # 0 => Entry(name, c) \in [dv : Drive, full_name : Seq(Names), clus : Number]
    BY <1>3, <2>1 DEF Entry
  <2> QED BY <1>8, <2>2
<1>10. OwnInv' /\ WalkSound' /\ RestoreSound'
  BY <1>1, <1>2, <1>6, <1>9, BackBegins
<1>11. ResSound' /\ SearchCovers'
  BY <1>1, <1>2 DEF ResSound, SearchCovers
<1> QED BY <1>10, <1>11 DEF Numbered

-----------------------------------------------------------------------------
(***************************************************************************)
(* Opening a directory.                                                    *)
(***************************************************************************)
Frame == [dir : Seq(Names), left : SUBSET Names]

LEMMA OpenedIs ==
  ASSUME NEW dir \in Seq(Names)
  PROVE  Opened(dir) \in Frame /\ Opened(dir).dir = dir
<1>1. \A q \in Places : Last(q) \in Names
  BY PlacesAreSeqs, FrontElements
<1>2. {Last(q) : q \in Children(cur_dv, dir)} \subseteq Names
  BY <1>1 DEF Children
<1> QED BY <1>2 DEF Opened, Frame

\* What is in an open directory, or below it, is ahead.
LEMMA OpenedLeads ==
  ASSUME TreeSound, NEW dv \in Drive, dv = cur_dv, NEW dir \in Seq(Names),
         NEW p \in Places, tree[dv][p] # "none"
  PROVE  /\ Front(p) = dir => Last(p) \in Opened(dir).left /\ Append(dir, Last(p)) = p
         /\ IsPrefix(dir, p) /\ dir # p =>
              \E name \in Opened(dir).left : IsPrefix(Append(dir, name), p)
<1>1. p \in Seq(Names) /\ p # <<>>
  BY PlacesAreSeqs
<1>2. Opened(dir).left = {Last(q) : q \in Children(dv, dir)}
  BY DEF Opened
<1>3. ASSUME Front(p) = dir PROVE Last(p) \in Opened(dir).left /\ Append(dir, Last(p)) = p
  <2>1. p \in Children(dv, dir)
    BY <1>3 DEF Children, Exists
  <2> QED BY <1>1, <1>2, <1>3, <2>1, PrefixFront
<1>4. ASSUME IsPrefix(dir, p), dir # p
      PROVE  \E name \in Opened(dir).left : IsPrefix(Append(dir, name), p)
  <2>1. PICK name \in Names : IsPrefix(Append(dir, name), p)
    BY <1>1, <1>4, PrefixNext
  <2> DEFINE q == Append(dir, name)
  <2>2. q \in Seq(Names) /\ q # <<>> /\ Front(q) = dir /\ Last(q) = name
    BY PrefixAppend
  <2>3. IsPrefix(q, p)
    BY <2>1
  <2> HIDE DEF q
  <2>4. q \in Places
    BY <2>2, <2>3, PlaceAbove
  <2>5. tree[dv][q] # "none"
    BY <2>3, <2>4 DEF TreeSound
  <2>6. q \in Children(dv, dir)
    BY <2>2, <2>4, <2>5 DEF Children, Exists
  <2>7. name \in Opened(dir).left
    BY <1>2, <2>2, <2>6
  <2> QED BY <2>1, <2>7
<1> QED BY <1>3, <1>4

LEMMA SearchKeeps ==
  ASSUME IInv, NEW ret \in {"dir", "mask"}, CdReturns(ret), frames = <<>>, res = {},
         ctx.op \in {"find", "del"}, NEW mask \in Word, Search(mask)
  PROVE  IInv'
<1>1. ret \in {"user", "dir", "mask", "sub", "up", "restore"}
  OBVIOUS
<1>2. /\ walk = NULL /\ cd.at \in Seq(Names) /\ IsDirName(cd.at)
      /\ ctx # NULL /\ ctx \in Context /\ victim' = NULL /\ UNCHANGED <<tree, assignments>>
      /\ TypeOK /\ TreeSound /\ TableSound /\ CdSound /\ Control /\ TableGoesOn /\ TableSound'
  BY <1>1, CdEnds
<1>3. /\ cur_dir' = cd.at /\ cd' = NULL /\ pc' = "read" /\ UNCHANGED <<cur_dv, walk, res, stable>>
      /\ frames' = <<Opened(cd.at)>>
      /\ ctx' = [ctx EXCEPT !.mask = mask, !.searched = <<cur_dv, cd.at>>]
  BY DEF Search
<1>4. PICK dv \in Drive, dir \in Seq(Names), frame \in Frame :
        dv = cur_dv /\ dir = cd.at /\ frame = Opened(dir) /\ frame.dir = dir
  BY <1>2, OpenedIs DEF TypeOK
<1>5. /\ ctx' \in Context /\ ctx' # NULL /\ ctx'.op = ctx.op /\ ctx'.old_dir = ctx.old_dir
      /\ ctx'.searched = <<dv, dir>>
  <2>1. ctx' = [ctx EXCEPT !.mask = mask, !.searched = <<dv, dir>>]
    BY <1>3, <1>4
  <2>2. /\ ctx' \in Context /\ ctx'.op = ctx.op /\ ctx'.old_dir = ctx.old_dir
        /\ ctx'.searched = <<dv, dir>>
    BY <1>2, <2>1 DEF Context
  <2> QED BY <2>2, NullIs
<1>6. /\ frames' = <<frame>> /\ frames' \in Seq(Frame) /\ frames' # <<>> /\ Len(frames') = 1
      /\ frames'[1] = frame /\ Last(frames') = frame
  BY <1>3, <1>4 DEF Last
<1>7. TypeOK'
  BY <1>2, <1>3, <1>5, <1>6 DEF TypeOK, Frame
<1>8. Control'
  <2>1. cur_dir' = Top'.dir
    BY <1>3, <1>4, <1>6 DEF Top
  <2>2. ctx'.op = "find" \/ (ctx'.op = "del" /\ Len(frames') = 1)
    BY <1>5, <1>6
  <2>3. Len(ctx'.old_dir) <= MaxDepth
    BY <1>2, <1>5 DEF Control
  <2> QED BY <1>3, <2>1, <2>2, <2>3 DEF Control
<1>9. CdSound' /\ TreeSound'
  BY <1>2, <1>3 DEF CdSound, CdOf, TreeSound
<1>10. FramesSound'
  <2>1. \A i \in 1 .. Len(frames') : i = 1
    BY <1>6
  <2>2. \A i \in 2 .. Len(frames') : FALSE
    BY <1>6
  <2>3. IsDirName(frames'[1].dir) /\ ctx'.searched = <<cur_dv', frames'[1].dir>>
    BY <1>2, <1>3, <1>4, <1>5, <1>6
  <2>4. ~(Len(frames') > 1)
    BY <1>6
  <2> QED BY <1>5, <2>1, <2>2, <2>3, <2>4 DEF FramesSound, IsDirName
<1>11. WalkSound' /\ ResSound' /\ RestoreSound'
  BY <1>2, <1>3, WalkNone DEF ResSound, RestoreSound
<1>12. SearchCovers'
  <2> SUFFICES ASSUME NEW e \in Drive, NEW p \in Places, Wanted(e, p)' PROVE Ahead(p)'
    BY Zenon DEF SearchCovers
  <2>1. /\ e = dv /\ Exists(e, p)
        /\ Front(p) = dir \/ (ctx'.flag /\ Len(p) > Len(dir) /\ SubSeq(p, 1, Len(dir)) = dir)
    BY <1>2, <1>5 DEF Wanted, Exists
  <2>2. p \in Seq(Names) /\ p # <<>> /\ tree[dv][p] # "none"
    BY <2>1, PlacesAreSeqs DEF Exists
  <2>3. /\ Front(p) = dir => Last(p) \in frame.left /\ Append(dir, Last(p)) = p
        /\ IsPrefix(dir, p) /\ dir # p =>
             \E name \in frame.left : IsPrefix(Append(dir, name), p)
    BY <1>2, <1>4, <2>2, OpenedLeads
  <2>4. Front(p) # dir => IsPrefix(dir, p) /\ dir # p /\ ctx'.flag
    <3> SUFFICES ASSUME Front(p) # dir PROVE IsPrefix(dir, p) /\ dir # p /\ ctx'.flag
      OBVIOUS
    <3>1. ctx'.flag /\ Len(p) > Len(dir) /\ SubSeq(p, 1, Len(dir)) = dir
      BY <2>1
    <3>2. Len(p) \in Nat /\ Len(dir) \in Nat
      BY <2>2, LenProperties
    <3>3. dir # p
      BY <3>1, <3>2
    <3>4. SubSeq(dir, 1, Len(dir)) = dir
      BY SubSeqFull
    <3>5. IsPrefix(dir, p)
      BY <3>1, <3>2, <3>4 DEF IsPrefix
    <3> QED BY <3>1, <3>3, <3>5
  <2>5. \E name \in frame.left : Append(dir, name) = p \/ (ctx'.flag /\ IsPrefix(Append(dir, name), p))
    BY <2>3, <2>4
  <2>6. 1 \in 1 .. Len(frames') /\ frames'[1].left = frame.left /\ frames'[1].dir = dir
    BY <1>4, <1>6
  <2> QED BY <2>5, <2>6 DEF Ahead, Leads
<1> QED BY <1>2, <1>7, <1>8, <1>9, <1>10, <1>11, <1>12 DEF IInv, OwnInv, Numbered

LEMMA SearchesKeep ==
  ASSUME IInv, DelDirReached \/ MaskTried PROVE IInv'
<1>1. ASSUME DelDirReached PROVE IInv'
  <2>1. CdReturns("dir") /\ ctx.op = "del" /\ Search(ctx.mask)
    BY <1>1 DEF DelDirReached
  <2>2. CdOf("dir") /\ ctx \in Context /\ CdSound
    BY <2>1, CdEnds
  <2>3. frames = <<>> /\ res = {} /\ ctx.mask \in Word
    BY <2>2 DEF CdSound, Context
  <2> QED BY <2>1, <2>3, SearchKeeps
<1>2. ASSUME MaskTried PROVE IInv'
  <2>1. CdReturns("mask") /\ Search(IF cd.ok THEN "*" ELSE ctx.mask)
    BY <1>2 DEF MaskTried
  <2>2. CdOf("mask") /\ ctx \in Context /\ CdSound
    BY <2>1, CdEnds
  <2>3. frames = <<>> /\ res = {} /\ ctx.op = "find"
    BY <2>2 DEF CdSound
  <2>4. (IF cd.ok THEN "*" ELSE ctx.mask) \in Word
    BY <2>2 DEF Context, Word
  <2> QED BY <2>1, <2>3, <2>4, SearchKeeps
<1> QED BY <1>1, <1>2

-----------------------------------------------------------------------------
(***************************************************************************)
(* Reading a directory.                                                    *)
(***************************************************************************)
\* Another sequence of frames of the same directories.
SameDirs ==
  /\ frames' \in Seq(Frame) /\ Len(frames') = Len(frames) /\ frames' # <<>>
  /\ \A i \in 1 .. Len(frames) : frames'[i].dir = frames[i].dir

LEMMA SameDirsKeep ==
  ASSUME FramesSound, SameDirs, frames \in Seq(Frame), frames # <<>>,
         UNCHANGED <<ctx, cur_dv>>
  PROVE  FramesSound' /\ Top'.dir = Top.dir
<1>1. Len(frames) \in Nat \ {0} /\ Len(frames') = Len(frames)
  BY LenProperties, EmptySeq DEF SameDirs
<1>2. Top'.dir = Top.dir
  BY <1>1 DEF Top, Last, SameDirs
<1>3. \A i \in 1 .. Len(frames) : frames'[i].dir = frames[i].dir
  BY DEF SameDirs
<1>4. \A i \in 2 .. Len(frames) : i \in 1 .. Len(frames) /\ i - 1 \in 1 .. Len(frames)
  BY <1>1
<1>5. \A i \in 1 .. Len(frames') : IsDirName(frames'[i].dir)
  BY <1>1, <1>3 DEF FramesSound
<1>6. \A i \in 2 .. Len(frames') :
        frames'[i].dir # <<>> /\ Front(frames'[i].dir) = frames'[i - 1].dir
  BY <1>1, <1>3, <1>4 DEF FramesSound
<1>7. frames'[1].dir = frames[1].dir
  BY <1>1, <1>3
<1> QED BY <1>1, <1>2, <1>5, <1>6, <1>7 DEF FramesSound, IsDirName

\* A name that is read is off the list of the innermost directory.
LEMMA ReadIs ==
  ASSUME IInv, NEW name \in Names, Reading(name), ReadName(name)
  PROVE  /\ pc = "read" /\ cd = NULL /\ walk = NULL /\ victim = NULL /\ ctx # NULL /\ ctx \in Context
         /\ cur_dv \in Drive /\ cur_dir \in Seq(Names) /\ IsDirName(cur_dir) /\ cur_dir = Top.dir
         /\ ctx.searched = <<cur_dv, frames[1].dir>> /\ frames \in Seq(Frame) /\ frames # <<>>
         /\ SameDirs
         /\ \A i \in 1 .. Len(frames) : \A nm \in frames[i].left :
              \/ nm \in frames'[i].left
              \/ nm = name /\ frames[i].dir = cur_dir
         /\ TypeOK /\ TreeSound /\ TableSound /\ Control /\ CdSound /\ FramesSound
<1> USE DEF IInv, OwnInv
<1>1. pc = "read" /\ frames # <<>> /\ name \in Top.left /\ frames \in Seq(Frame)
  BY DEF Reading, TypeOK, Frame
<1>2. /\ cd = NULL /\ walk = NULL /\ victim = NULL /\ ctx # NULL /\ ctx \in Context
      /\ cur_dv \in Drive /\ cur_dir \in Seq(Names) /\ IsDirName(cur_dir) /\ cur_dir = Top.dir
  BY <1>1 DEF TypeOK, Control, IsDirName
<1>3. ctx.searched = <<cur_dv, frames[1].dir>>
  BY <1>1 DEF FramesSound
<1> DEFINE n == Len(frames)
<1>4. n \in Nat \ {0} /\ Top = frames[n] /\ \A i \in 1 .. n : frames[i] \in Frame
  BY <1>1, FrontElements, ElementOfSeq DEF Top
<1>5. frames' = [frames EXCEPT ![n].left = @ \ {name}]
  BY DEF ReadName
<1>6. frames' = [frames EXCEPT ![n] = [frames[n] EXCEPT !.left = @ \ {name}]]
  BY <1>5
<1> DEFINE f == [frames[n] EXCEPT !.left = @ \ {name}]
<1>7. f \in Frame /\ f.dir = frames[n].dir /\ f.left = frames[n].left \ {name}
  BY <1>4 DEF Frame
<1> HIDE DEF f, n
<1>8. /\ frames' \in Seq(Frame) /\ Len(frames') = n
      /\ \A i \in 1 .. n : frames'[i] = IF i = n THEN f ELSE frames[i]
  <2>1. frames' = [frames EXCEPT ![n] = f]
    BY <1>6 DEF f
  <2>2. n \in 1 .. Len(frames) /\ frames \in Seq(Frame) /\ Len(frames) = n
    BY <1>1, <1>4 DEF n
  <2> QED BY <1>7, <2>1, <2>2, ExceptSeq
<1>9. SameDirs
  <2>1. frames' # <<>>
    BY <1>4, <1>8, EmptySeq
  <2>2. \A i \in 1 .. n : frames'[i].dir = frames[i].dir
    BY <1>7, <1>8
  <2> QED BY <1>8, <2>1, <2>2 DEF SameDirs, n
<1>10. ASSUME NEW i \in 1 .. n, NEW nm \in frames[i].left
       PROVE  nm \in frames'[i].left \/ (nm = name /\ frames[i].dir = cur_dir)
  <2>1. CASE i = n
    BY <1>2, <1>4, <1>7, <1>8, <2>1
  <2>2. CASE i # n
    BY <1>8, <2>2
  <2> QED BY <2>1, <2>2
<1> QED BY <1>1, <1>2, <1>3, <1>9, <1>10 DEF n

\* What was ahead and is not is the place that was read, or below it.
LEMMA ReadAhead ==
  ASSUME IInv, NEW name \in Names, Reading(name), ReadName(name), ctx' = ctx, NEW p, Ahead(p)
  PROVE  Ahead(p)' \/ Leads(Append(cur_dir, name), p)
<1>1. /\ cd = NULL /\ SameDirs
      /\ \A i \in 1 .. Len(frames) : \A nm \in frames[i].left :
           nm \in frames'[i].left \/ (nm = name /\ frames[i].dir = cur_dir)
  BY ReadIs
<1>2. PICK i \in 1 .. Len(frames) : \E nm \in frames[i].left : Leads(Append(frames[i].dir, nm), p)
  BY <1>1 DEF Ahead
<1>3. PICK nm \in frames[i].left : Leads(Append(frames[i].dir, nm), p)
  BY <1>2
<1>4. CASE nm \in frames'[i].left
  <2>1. PICK dir : dir = frames[i].dir
    OBVIOUS
  <2>2. i \in 1 .. Len(frames') /\ frames'[i].dir = dir
    BY <1>1, <2>1 DEF SameDirs
  <2>3. Append(dir, nm) = p \/ (ctx'.flag /\ IsPrefix(Append(dir, nm), p))
    BY <1>3, <2>1 DEF Leads
  <2> QED BY <1>4, <2>2, <2>3 DEF Ahead, Leads
<1>5. CASE nm = name /\ frames[i].dir = cur_dir
  BY <1>3, <1>5
<1> QED BY <1>1, <1>4, <1>5

\* The place that a name read from the directory stands for.
LEMMA ReadPlace ==
  ASSUME IInv, NEW name \in Names, Reading(name), ReadName(name), NEW q, q = Append(cur_dir, name)
  PROVE  /\ q \in Seq(Names) /\ q # <<>> /\ Place(NamePath(name)) = q
         /\ NamePath(name) \in Seq(PathName)
         /\ Front(q) = cur_dir /\ Last(q) = name
         /\ Exists(cur_dv, q) => q \in Places /\ NamePath(name) \in Spellings /\ tree[cur_dv][q] # "none"
         /\ \A p \in Places : p # q /\ IsPrefix(q, p) /\ tree[cur_dv][p] # "none" =>
              IsDir(cur_dv, q) /\ Exists(cur_dv, q)
<1>1. cur_dir \in Seq(Names) /\ cur_dir = Top.dir /\ TreeSound /\ cur_dv \in Drive
  BY ReadIs
<1>2. q \in Seq(Names) /\ q # <<>> /\ Front(q) = cur_dir /\ Last(q) = name
  BY <1>1, PrefixAppend
<1>3. /\ NamePath(name) \in Seq(PathName) /\ Place(NamePath(name)) = q
      /\ q \in Places => NamePath(name) \in Spellings
  BY <1>1, NamePathIs DEF NamePath
<1>4. Exists(cur_dv, q) => q \in Places /\ tree[cur_dv][q] # "none"
  BY <1>2 DEF Exists
<1>5. ASSUME NEW p \in Places, p # q, IsPrefix(q, p), tree[cur_dv][p] # "none"
      PROVE  IsDir(cur_dv, q) /\ Exists(cur_dv, q)
  <2>1. q \in Places
    BY <1>2, <1>5, PlaceAbove
  <2>2. tree[cur_dv][q] = "dir"
    BY <1>1, <1>5, <2>1 DEF TreeSound
  <2> QED BY <2>1, <2>2 DEF IsDir, Exists
<1> QED BY <1>2, <1>3, <1>4, <1>5

\* Whatever was read, the search goes on if nothing wanted is lost with it.
LEMMA ReadCovers ==
  ASSUME IInv, NEW name \in Names, Reading(name), ReadName(name), UNCHANGED <<tree, ctx, cur_dv, stable>>,
         SearchCovers, res \subseteq res',
         ctx.op = "find" => \A p \in Places :
           /\ Wanted(cur_dv, p) /\ tree[cur_dv][p] # "none" /\ Leads(Append(cur_dir, name), p)
           => Listed(cur_dv, p)' \/ Ahead(p)'
  PROVE  SearchCovers'
<1>1. ASSUME NEW dv \in Drive, NEW p \in Places, Wanted(dv, p), Listed(dv, p) \/ Ahead(p),
             ctx.op = "find"
      PROVE  Listed(dv, p)' \/ Ahead(p)'
  <2>1. ctx.searched = <<cur_dv, frames[1].dir>>
    BY ReadIs
  <2>2. dv = cur_dv /\ tree[cur_dv][p] # "none"
    <3>1. dv = ctx.searched[1] /\ Exists(dv, p)
      BY <1>1, Zenon DEF Wanted
    <3>2. p # <<>>
      BY PlacesAreSeqs, Zenon
    <3>3. tree[dv][p] # "none"
      BY <3>1, <3>2, Zenon DEF Exists
    <3>4. dv = cur_dv
      BY ONLY <2>1, <3>1
    <3> QED BY <3>3, <3>4, Zenon
  <2>3. Listed(dv, p) => Listed(dv, p)'
    BY DEF Listed
  <2>4. Ahead(p) => Ahead(p)' \/ Leads(Append(cur_dir, name), p)
    BY ReadAhead
  <2> QED BY <1>1, <2>2, <2>3, <2>4
<1>2. ctx # NULL /\ ctx.op = "find" /\ ctx.searched # NULL =>
        \A dv \in Drive, p \in Places :
          Wanted(dv, p) /\ (Listed(dv, p) \/ Ahead(p)) => Listed(dv, p)' \/ Ahead(p)'
  BY <1>1, Zenon
<1>3. Shrinks
  BY SameTree
<1> QED BY <1>2, <1>3, SearchGoesOn

\* The rest of a step that reads a name.
LEMMA ReadOwn ==
  ASSUME IInv, NEW name \in Names, Reading(name), ReadName(name), pc' = "read",
         UNCHANGED <<tree, cur_dv, cur_dir, ctx, cd, walk, victim, stable>>, TableGoesOn,
         res' \subseteq [dv : Drive, full_name : Seq(Names), clus : Number]
  PROVE  OwnInv' /\ WalkSound' /\ RestoreSound'
<1>1. /\ pc = "read" /\ cd = NULL /\ walk = NULL /\ victim = NULL /\ ctx # NULL
      /\ frames \in Seq(Frame) /\ frames # <<>> /\ SameDirs
      /\ TypeOK /\ TreeSound /\ TableSound /\ Control /\ CdSound /\ FramesSound
  BY ReadIs
<1>2. FramesSound' /\ Top'.dir = Top.dir
  BY <1>1, SameDirsKeep
<1>3. frames' \in Seq(Frame) /\ frames' # <<>> /\ Len(frames') = Len(frames)
  BY <1>1 DEF SameDirs
<1>4. TypeOK'
  BY <1>1, <1>3 DEF TypeOK, TableGoesOn, TableType, Frame
<1>5. TreeSound' /\ TableSound'
  BY <1>1, SameTree DEF TableGoesOn
<1>6. Control'
  BY <1>1, <1>2, <1>3 DEF Control
<1>7. CdSound' /\ WalkSound' /\ RestoreSound'
  BY <1>1 DEF CdSound, CdOf, WalkSound, RestoreSound
<1> QED BY <1>2, <1>4, <1>5, <1>6, <1>7 DEF OwnInv

LEMMA ReadGoneKeeps ==
  ASSUME IInv, NEW name \in Names, ReadGone(name) PROVE IInv'
<1>1. /\ Reading(name) /\ ReadName(name) /\ ~Exists(cur_dv, Place(NamePath(name)))
      /\ UNCHANGED <<tree, assignments, pc, cur_dv, cur_dir, ctx, cd, walk, victim, res, stable>>
  BY DEF ReadGone, vfsVars
<1>2. pc = "read" /\ ctx # NULL /\ TypeOK /\ TableSound /\ TreeSound
  BY <1>1, ReadIs
<1>3. PICK q : q = Append(cur_dir, name)
  OBVIOUS
<1>4. ~Exists(cur_dv, q)
  BY <1>1, <1>3, ReadPlace
<1>5. TableGoesOn
  BY <1>1, <1>2, SameTable
<1>6. OwnInv' /\ WalkSound' /\ RestoreSound'
  <2>1. res' \subseteq [dv : Drive, full_name : Seq(Names), clus : Number] /\ pc' = "read"
    BY <1>1, <1>2 DEF TypeOK
  <2> QED BY <1>1, <1>5, <2>1, ReadOwn
<1>7. ASSUME TablesHold' PROVE ResSound' /\ SearchCovers'
  <2>1. Stays /\ ResSound /\ SearchCovers
    BY <1>5, <1>7 DEF IInv, Numbered, TableGoesOn
  <2>2. ResSound'
    BY <1>1, <1>2, <2>1, ResStays
  <2>3. ASSUME NEW p \in Places, tree[cur_dv][p] # "none", Leads(q, p) PROVE FALSE
    <3>1. CASE q = p
      <4>1. Exists(cur_dv, p)
        BY <2>3 DEF Exists
      <4> QED BY <1>4, <3>1, <4>1
    <3>2. CASE q # p
      <4>1. IsPrefix(q, p)
        BY <2>3, <3>2 DEF Leads
      <4> QED BY <1>1, <1>3, <1>4, <2>3, <3>2, <4>1, ReadPlace
    <3> QED BY <3>1, <3>2
  <2>4. SearchCovers'
    BY <1>1, <1>3, <2>1, <2>3, ReadCovers, Zenon
  <2> QED BY <2>2, <2>4
<1> QED BY <1>6, <1>7 DEF IInv, Numbered

\* vfs_stat of a name that is read gives it a number that leads to it.
LEMMA StatIs ==
  ASSUME IInv, NEW name \in Names, Reading(name), ReadName(name), StatName(name),
         NEW dv \in Drive, dv = cur_dv, NEW q, q = Append(cur_dir, name)
  PROVE  /\ TableGoesOn /\ q \in Places /\ tree[dv][q] # "none"
         /\ \E c \in Number :
              /\ c = ClusOf(NamePath(name), dv)
              /\ TablesHold' => /\ c \in 1 .. MaxAssignments
                                /\ get_node_by_clus(c, dv)' # NULL
                                /\ PathOf(c, dv)' = q
<1>1. PICK path : path = NamePath(name)
  OBVIOUS
<1>2. Exists(dv, Place(path)) /\ assignments' = get_node_by_path(path, dv)
  BY <1>1, Zenon DEF StatName, vfs_stat
<1>3. q \in Places /\ path \in Spellings /\ tree[dv][q] # "none" /\ Place(path) = q
  BY <1>1, <1>2, ReadPlace
<1>4. TableType /\ TableSound
  BY DEF IInv, OwnInv, TypeOK, TableType
<1>5. /\ TableGoesOn
      /\ \E c \in Number :
           /\ c = ClusOf(path, dv) /\ c # 0
           /\ TablesHold' => /\ c \in 1 .. MaxAssignments
                             /\ get_node_by_clus(c, dv)' # NULL
                             /\ get_node_by_clus(c, dv)'.path = path
  BY <1>2, <1>3, <1>4, RecordKeeps, Zenon DEF TableGoesOn
<1>6. PICK c \in Number :
           /\ c = ClusOf(path, dv)
           /\ TablesHold' => /\ c \in 1 .. MaxAssignments
                             /\ get_node_by_clus(c, dv)' # NULL
                             /\ get_node_by_clus(c, dv)'.path = path
  BY <1>5, Zenon
<1>7. TablesHold' => PathOf(c, dv)' = q
  BY <1>3, <1>6 DEF PathOf
<1> QED BY <1>1, <1>3, <1>5, <1>6, <1>7, Zenon

\* Entries that a search finds.
LEMMA EntryAdds ==
  ASSUME TypeOK, Stays, ResSound, NEW dv \in Drive, NEW q,
         NEW c \in Number, c \in 1 .. MaxAssignments, get_node_by_clus(c, dv)' # NULL,
         PathOf(c, dv)' = q, ctx # NULL, ctx' = ctx,
         res' \subseteq res \cup {[dv |-> dv, full_name |-> q, clus |-> c]}
  PROVE  ResSound'
<1> SUFFICES ASSUME ctx.op = "find", NEW e \in res'
             PROVE  /\ e.clus \in 1 .. MaxAssignments /\ get_node_by_clus(e.clus, e.dv)' # NULL
                    /\ PathOf(e.clus, e.dv)' = e.full_name
  BY Zenon DEF ResSound
<1>1. CASE e \in res
  <2>1. /\ e.clus \in 1 .. MaxAssignments /\ get_node_by_clus(e.clus, e.dv) # NULL
        /\ PathOf(e.clus, e.dv) = e.full_name
    BY <1>1, Zenon DEF ResSound
  <2>2. e.dv \in Drive
    BY ONLY TypeOK, <1>1 DEF TypeOK
  <2>3. /\ get_node_by_clus(e.clus, e.dv)' = get_node_by_clus(e.clus, e.dv)
        /\ PathOf(e.clus, e.dv)' = PathOf(e.clus, e.dv)
    BY <2>1, <2>2, StaysPath, Zenon
  <2> QED BY <2>1, <2>3, Zenon
<1>2. CASE e = [dv |-> dv, full_name |-> q, clus |-> c]
  <2>1. e.dv = dv /\ e.full_name = q /\ e.clus = c
    BY ONLY <1>2
  <2> QED BY <2>1, Zenon
<1> QED BY <1>1, <1>2, Zenon

LEMMA FindListedKeeps ==
  ASSUME IInv, NEW name \in Names, FindListed(name) PROVE IInv'
<1>1. /\ Reading(name) /\ ReadName(name) /\ StatName(name) /\ ctx.op = "find"
      /\ ~(ctx.flag /\ NameIsDir(name))
      /\ UNCHANGED <<tree, pc, cur_dv, cur_dir, ctx, cd, walk, victim, stable>>
      /\ res' = IF FilesFindMatch(name)
                THEN res \cup {Entry(name, ClusOf(NamePath(name), cur_dv))} ELSE res
  BY DEF FindListed
<1>2. /\ pc = "read" /\ ctx # NULL /\ ctx \in Context /\ TypeOK /\ TreeSound /\ cur_dv \in Drive
      /\ cur_dir \in Seq(Names)
  BY <1>1, ReadIs
<1>3. PICK dv \in Drive, q \in Seq(Names) : dv = cur_dv /\ q = Append(cur_dir, name)
  BY <1>2, PrefixAppend
<1>4. PICK c \in Number :
        /\ c = ClusOf(NamePath(name), dv)
        /\ TablesHold' => /\ c \in 1 .. MaxAssignments
                          /\ get_node_by_clus(c, dv)' # NULL
                          /\ PathOf(c, dv)' = q
  BY <1>1, <1>3, StatIs, Zenon
<1>5. TableGoesOn /\ q \in Places /\ tree[dv][q] # "none" /\ Last(q) = name /\ Place(NamePath(name)) = q
  <2>1. TableGoesOn /\ q \in Places /\ tree[dv][q] # "none"
    BY <1>1, <1>3, StatIs, Zenon
  <2> QED BY <1>1, <1>3, <2>1, ReadPlace
<1> DEFINE e == [dv |-> dv, full_name |-> q, clus |-> c]
<1>6. res' = IF FilesFindMatch(name) THEN res \cup {e} ELSE res
  BY <1>1, <1>3, <1>4, Zenon DEF Entry
<1>7. e \in [dv : Drive, full_name : Seq(Names), clus : Number] /\ e.dv = dv /\ e.full_name = q
  OBVIOUS
<1>8. OwnInv' /\ WalkSound' /\ RestoreSound'
  <2>1. res' \subseteq [dv : Drive, full_name : Seq(Names), clus : Number] /\ pc' = "read"
    BY <1>1, <1>2, <1>6, <1>7 DEF TypeOK
  <2> QED BY <1>1, <1>5, <2>1, ReadOwn
<1>9. ASSUME TablesHold' PROVE ResSound' /\ SearchCovers'
  <2>1. Stays /\ ResSound /\ SearchCovers
    BY <1>5, <1>9 DEF IInv, Numbered, TableGoesOn
  <2>2. ResSound'
    <3>1. res' \subseteq res \cup {e} /\ ctx' = ctx
      BY <1>1, <1>6
    <3> QED BY <1>2, <1>3, <1>4, <1>9, <2>1, <3>1, EntryAdds, Zenon
  <2>3. ASSUME NEW p \in Places, Wanted(dv, p), tree[dv][p] # "none", Leads(q, p)
        PROVE  Listed(dv, p)'
    <3>1. CASE q = p
      <4>1. FilesFindMatch(name)
        <5>1. FilesFindMatch(Last(p)) \/ (ctx.flag /\ IsDir(dv, p))
          BY <2>3, Zenon DEF Wanted
        <5>2. ~(ctx.flag /\ IsDir(dv, p))
          BY <1>1, <1>3, <1>5, <3>1 DEF NameIsDir
        <5> QED BY <1>5, <3>1, <5>1, <5>2
      <4>2. e \in res'
        BY <1>6, <4>1
      <4> QED BY <1>7, <3>1, <4>2 DEF Listed
    <3>2. CASE q # p
      <4>1. ctx.flag /\ IsPrefix(q, p)
        BY <2>3, <3>2 DEF Leads
      <4>2. IsDir(dv, q)
        BY <1>1, <1>3, <2>3, <3>2, <4>1, ReadPlace
      <4> QED BY <1>1, <1>3, <1>5, <4>1, <4>2 DEF NameIsDir
    <3> QED BY <3>1, <3>2
  <2>4. res \subseteq res'
    BY <1>6
  <2>5. SearchCovers'
    <3>1. ctx.op = "find" => \A p \in Places :
            /\ Wanted(cur_dv, p) /\ tree[cur_dv][p] # "none" /\ Leads(Append(cur_dir, name), p)
            => Listed(cur_dv, p)' \/ Ahead(p)'
      <4>1. cur_dv' = dv
        BY <1>1, <1>3
      <4> QED BY <1>3, <2>3, <4>1, Zenon
    <3> QED BY <1>1, <2>1, <2>4, <3>1, ReadCovers, Zenon
  <2> QED BY <2>2, <2>5
<1> QED BY <1>8, <1>9 DEF IInv, Numbered

LEMMA DelKeptKeeps ==
  ASSUME IInv, NEW name \in Names, DelKept(name) PROVE IInv'
<1>1. /\ Reading(name) /\ ReadName(name) /\ StatName(name) /\ ctx.op = "del"
      /\ UNCHANGED <<tree, pc, cur_dv, cur_dir, ctx, cd, walk, victim, res, stable>>
  BY DEF DelKept
<1>2. /\ pc = "read" /\ TypeOK /\ cur_dv \in Drive /\ cur_dir \in Seq(Names)
  BY <1>1, ReadIs
<1>3. TableGoesOn
  BY <1>1, <1>2, StatIs, Zenon
<1>4. OwnInv' /\ WalkSound' /\ RestoreSound'
  <2>1. res' \subseteq [dv : Drive, full_name : Seq(Names), clus : Number] /\ pc' = "read"
    BY <1>1, <1>2 DEF TypeOK
  <2> QED BY <1>1, <1>3, <2>1, ReadOwn
<1>5. ResSound' /\ SearchCovers'
  BY <1>1 DEF ResSound, SearchCovers
<1> QED BY <1>4, <1>5 DEF IInv, Numbered

LEMMA DelMatchesKeeps ==
  ASSUME IInv, NEW name \in Names, DelMatches(name) PROVE IInv'
<1>1. /\ Reading(name) /\ ReadName(name) /\ StatName(name) /\ ctx.op = "del"
      /\ FilesFindMatch(name) /\ victim' = NamePath(name) /\ pc' = "unlink"
      /\ UNCHANGED <<tree, cur_dv, cur_dir, ctx, cd, walk, res, stable>>
  BY DEF DelMatches
<1>2. /\ pc = "read" /\ cd = NULL /\ walk = NULL /\ ctx # NULL /\ cur_dv \in Drive
      /\ frames \in Seq(Frame) /\ frames # <<>> /\ SameDirs
      /\ TypeOK /\ TreeSound /\ TableSound /\ Control /\ CdSound /\ FramesSound
  BY <1>1, ReadIs
<1>3. FramesSound' /\ Top'.dir = Top.dir
  BY <1>1, <1>2, SameDirsKeep
<1>4. frames' \in Seq(Frame) /\ frames' # <<>> /\ Len(frames') = Len(frames)
  BY <1>2 DEF SameDirs
<1>5. TableGoesOn
  BY <1>1, <1>2, StatIs, Zenon
<1>6. victim' \in Seq(PathName) /\ victim' # NULL
  <2>1. NamePath(name) \in Seq(PathName)
    BY <1>1, ReadPlace
  <2> QED BY <1>1, <2>1, NullIs
<1>7. TypeOK'
  BY <1>1, <1>2, <1>4, <1>5, <1>6 DEF TypeOK, TableGoesOn, TableType, Frame, PathName
<1>8. TreeSound' /\ TableSound'
  BY <1>1, <1>2, <1>5, SameTree DEF TableGoesOn
<1>9. Control'
  <2>1. victim' = InDir(DirPath(Top'.dir), name) /\ ctx'.mask \in {"*", name}
    BY <1>1, <1>3 DEF NamePath, FilesFindMatch
  <2>2. \E nm \in Names : victim' = NamePath(nm)' /\ FilesFindMatch(nm)'
    BY <2>1 DEF NamePath, FilesFindMatch
  <2>3. cur_dir' = Top'.dir /\ Len(frames') = 1
    BY <1>1, <1>2, <1>3, <1>4 DEF Control
  <2> QED BY <1>1, <1>2, <2>2, <2>3 DEF Control, NamePath, FilesFindMatch
<1>10. CdSound'
  BY <1>1, <1>2 DEF CdSound, CdOf
<1>11. WalkSound' /\ ResSound' /\ RestoreSound' /\ SearchCovers'
  BY <1>1, <1>2 DEF WalkSound, ResSound, RestoreSound, SearchCovers
<1> QED BY <1>3, <1>7, <1>8, <1>9, <1>10, <1>11 DEF IInv, OwnInv, Numbered

LEMMA UnlinkKeeps ==
  ASSUME IInv, Unlink PROVE IInv'
<1> USE DEF IInv, OwnInv
<1>1. /\ pc = "unlink" /\ victim' = NULL /\ pc' = "read"
      /\ UNCHANGED <<assignments, cur_dv, cur_dir, ctx, cd, walk, frames, res>>
  BY DEF Unlink
<1>2. cur_dv \in Drive /\ TreeType
  BY DEF TypeOK, TreeType
<1>3. PICK dv, p : dv \in Drive /\ dv = cur_dv /\ p = Place(victim)
  BY <1>2
<1>4. \/ p \in Places /\ Removable(dv, p) /\ Delete(dv, p) /\ stable' = stable \ {<<dv, p>>}
      \/ UNCHANGED <<tree, stable>>
  <2>1. IF Removable(dv, p) THEN Delete(dv, p) /\ stable' = stable \ {<<dv, p>>}
                            ELSE UNCHANGED <<tree, stable>>
    BY <1>3, Zenon DEF Unlink
  <2>2. Removable(dv, p) => p \in Places
    BY DEF Removable
  <2> QED BY <2>1, <2>2
<1>5. TreeType' /\ TreeSound' /\ Shrinks
  <2>1. CASE p \in Places /\ Removable(dv, p) /\ Delete(dv, p) /\ stable' = stable \ {<<dv, p>>}
    <3>1. TreeType' /\ TreeSound'
      BY <1>2, <1>3, <2>1, DeleteKeeps
    <3>2. Shrinks
      BY <1>2, <1>3, <2>1 DEF Shrinks, Delete, TreeType
    <3> QED BY <3>1, <3>2
  <2>2. CASE UNCHANGED <<tree, stable>>
    BY <1>2, <2>2, SameTree DEF TreeType
  <2> QED BY <1>4, <2>1, <2>2
<1>6. TypeOK'
  <2>1. stable' \subseteq AllPlaces
    BY <1>4 DEF TypeOK
  <2> QED BY <1>1, <1>5, <2>1 DEF TypeOK, TreeType
<1>7. TableSound'
  BY <1>1 DEF TableSound, Slot
<1>8. Control'
  BY <1>1 DEF Control, Top
<1>9. CdSound' /\ FramesSound'
  <2>1. cd = NULL
    BY <1>1 DEF TypeOK
  <2>2. CdSound'
    BY <1>1, <2>1 DEF CdSound, CdOf
  <2>3. FramesSound'
    BY <1>1 DEF FramesSound
  <2> QED BY <2>2, <2>3
<1>10. Numbered'
  BY <1>1, <1>5, ShrinkNumbered
<1> QED BY <1>5, <1>6, <1>7, <1>8, <1>9, <1>10

-----------------------------------------------------------------------------
(***************************************************************************)
(* The directories that are open.                                          *)
(***************************************************************************)
\* HostFsFilesFind goes down into a directory that it has listed.
LEMMA FindRecursesKeeps ==
  ASSUME IInv, NEW name \in Names, FindRecurses(name) PROVE IInv'
<1>1. /\ Reading(name) /\ ReadName(name) /\ StatName(name) /\ ctx.op = "find" /\ ctx.flag
      /\ UNCHANGED <<tree, cur_dv, cur_dir, ctx, walk, victim, stable>> /\ pc' = "cd"
      /\ res' = res \cup {Entry(name, ClusOf(NamePath(name), cur_dv))}
      /\ cd' = [todo |-> <<name>>, at |-> cur_dir, ok |-> TRUE, ret |-> "sub"]
  BY DEF FindRecurses, CdCall
<1>2. /\ pc = "read" /\ cd = NULL /\ walk = NULL /\ victim = NULL /\ ctx # NULL /\ ctx \in Context
      /\ cur_dv \in Drive /\ cur_dir \in Seq(Names) /\ IsDirName(cur_dir) /\ cur_dir = Top.dir
      /\ frames \in Seq(Frame) /\ frames # <<>> /\ SameDirs
      /\ TypeOK /\ TreeSound /\ TableSound /\ Control /\ CdSound /\ FramesSound
  BY <1>1, ReadIs
<1>3. FramesSound' /\ Top'.dir = Top.dir
  BY <1>1, <1>2, SameDirsKeep
<1>4. frames' \in Seq(Frame) /\ frames' # <<>> /\ Len(frames') = Len(frames)
  BY <1>2 DEF SameDirs
<1>5. PICK dv \in Drive, q \in Seq(Names), dir \in Seq(Names) :
        dv = cur_dv /\ q = Append(dir, name) /\ dir = cur_dir
  BY <1>2, PrefixAppend
<1>6. PICK c \in Number :
        /\ c = ClusOf(NamePath(name), dv)
        /\ TablesHold' => /\ c \in 1 .. MaxAssignments
                          /\ get_node_by_clus(c, dv)' # NULL
                          /\ PathOf(c, dv)' = q
  BY <1>1, <1>5, StatIs, Zenon
<1>7. TableGoesOn /\ q \in Places /\ tree[dv][q] # "none"
  BY <1>1, <1>5, StatIs, Zenon
<1> DEFINE e == [dv |-> dv, full_name |-> q, clus |-> c]
<1>8. res' = res \cup {e}
  BY <1>1, <1>5, <1>6, Zenon DEF Entry
<1>9. e \in [dv : Drive, full_name : Seq(Names), clus : Number] /\ e.dv = dv /\ e.full_name = q
  OBVIOUS
<1>10. cd' \in CdLocals /\ cd' # NULL
  <2>1. name \in Word
    BY DEF Word
  <2>2. <<name>> \in Seq(Word)
    BY <2>1
  <2>3. cd' \in CdLocals
    BY <1>1, <1>2, <2>2 DEF CdLocals
  <2> QED BY <2>3, NullIs
<1>11. cd'.todo = <<name>> /\ cd'.at = dir /\ cd'.ok = TRUE /\ cd'.ret = "sub" /\ cur_dir' = dir
  BY <1>1, <1>5
<1>12. TypeOK'
  <2>1. res' \subseteq [dv : Drive, full_name : Seq(Names), clus : Number]
    BY <1>2, <1>8, <1>9 DEF TypeOK
  <2>2. IsDirName(cd'.at)
    BY <1>2, <1>5, <1>11
  <2> QED BY <1>1, <1>2, <1>4, <1>7, <1>10, <2>1, <2>2 DEF TypeOK, TableGoesOn, TableType, Frame
<1>13. TreeSound' /\ TableSound' /\ Shrinks
  BY <1>1, <1>2, <1>7, SameTree DEF TableGoesOn
<1>14. Control'
  BY <1>1, <1>2 DEF Control
<1>15. CdSound'
  <2>1. SubCd(name)'
    BY <1>5, <1>7, <1>11 DEF SubCd
  <2>2. ctx'.op = "find" /\ ctx'.flag /\ frames' # <<>> /\ cur_dir' = Top'.dir
    BY <1>1, <1>2, <1>3, <1>4
  <2>3. \E nm \in Names : SubCd(nm)'
    BY <2>1
  <2> QED BY <1>11, <2>2, <2>3 DEF CdSound, CdOf
<1>16. WalkSound' /\ RestoreSound'
  BY <1>1, <1>2, <1>11 DEF WalkSound, RestoreSound
<1>17. ASSUME TablesHold' PROVE ResSound' /\ SearchCovers'
  <2>1. Stays /\ ResSound /\ SearchCovers
    BY <1>7, <1>17 DEF IInv, Numbered, TableGoesOn
  <2>2. ResSound'
    <3>1. res' \subseteq res \cup {e} /\ ctx' = ctx
      BY <1>1, <1>8
    <3> QED BY <1>2, <1>5, <1>6, <1>17, <2>1, <3>1, EntryAdds, Zenon
  <2>3. ASSUME NEW p \in Places, Leads(q, p) PROVE Listed(dv, p)' \/ Ahead(p)'
    <3>1. CASE q = p
      <4>1. e \in res'
        BY <1>8
      <4> QED BY <1>9, <3>1, <4>1 DEF Listed
    <3>2. CASE q # p
      <4>1. IsPrefix(q, p)
        BY <2>3, <3>2 DEF Leads
      <4>2. SubDir' = q
        <5>1. cd'.todo # <<>> /\ Head(cd'.todo) = name
          BY <1>11
        <5> QED BY <1>5, <1>11, <5>1 DEF SubDir
      <4> QED BY <1>10, <1>11, <3>2, <4>1, <4>2 DEF Ahead
    <3> QED BY <3>1, <3>2
  <2>4. res \subseteq res'
    BY <1>8
  <2>5. SearchCovers'
    <3>1. ctx.op = "find" => \A p \in Places :
            /\ Wanted(cur_dv, p) /\ tree[cur_dv][p] # "none" /\ Leads(Append(cur_dir, name), p)
            => Listed(cur_dv, p)' \/ Ahead(p)'
      <4>1. cur_dv' = dv
        BY <1>1, <1>5
      <4> QED BY <1>5, <2>3, <4>1, Zenon
    <3> QED BY <1>1, <2>1, <2>4, <3>1, ReadCovers, Zenon
  <2> QED BY <2>2, <2>5
<1> QED BY <1>3, <1>12, <1>13, <1>14, <1>15, <1>16, <1>17 DEF IInv, OwnInv, Numbered

LEMMA SubReachedKeeps ==
  ASSUME IInv, SubReached PROVE IInv'
<1>1. CdReturns("sub") /\ "sub" \in {"user", "dir", "mask", "sub", "up", "restore"}
  BY DEF SubReached
<1>2. /\ CdOf("sub") /\ cd # NULL /\ cd.todo = <<>> /\ walk = NULL /\ cd.at \in Seq(Names)
      /\ IsDirName(cd.at) /\ cd.ok \in BOOLEAN /\ cd.ret = "sub"
      /\ ctx # NULL /\ ctx \in Context /\ victim' = NULL /\ UNCHANGED <<tree, assignments>>
      /\ TypeOK /\ TreeSound /\ TableSound /\ CdSound /\ Control /\ FramesSound
      /\ TableGoesOn /\ TableSound'
  BY <1>1, CdEnds DEF CdOf
<1>3. /\ cur_dir' = cd.at /\ cd' = NULL /\ pc' = "read" /\ UNCHANGED <<cur_dv, ctx, walk, res, stable>>
      /\ frames' = IF cd.ok THEN Append(frames, Opened(cd.at)) ELSE frames
  BY DEF SubReached
<1>4. /\ ctx.op = "find" /\ ctx.flag /\ frames # <<>> /\ cur_dir = Top.dir
      /\ frames \in Seq(Frame) /\ cur_dv \in Drive /\ cur_dir \in Seq(Names)
  BY <1>2 DEF CdSound, TypeOK, Frame, IsDirName
<1>5. PICK name \in Names : SubCd(name)
  BY <1>2 DEF CdSound
<1>6. IF cd.ok THEN cd.at = Append(cur_dir, name) ELSE cd.at = cur_dir
  BY <1>2, <1>5 DEF SubCd
<1>7. PICK dv \in Drive, dir \in Seq(Names), frame \in Frame :
        dv = cur_dv /\ dir = cd.at /\ frame = Opened(dir) /\ frame.dir = dir
  BY <1>2, <1>4, OpenedIs
<1> DEFINE n == Len(frames)
<1>8. n \in Nat \ {0} /\ Top = frames[n] /\ ctx.searched = <<cur_dv, frames[1].dir>>
  BY <1>2, <1>4, FrontElements DEF Top, FramesSound
<1> HIDE DEF n
<1>9. /\ cd.ok => /\ frames' \in Seq(Frame) /\ Len(frames') = n + 1 /\ frames'[n + 1] = frame
                  /\ \A i \in 1 .. n : frames'[i] = frames[i]
      /\ ~cd.ok => frames' = frames
  <2>1. cd.ok => frames' = Append(frames, frame)
    BY <1>3, <1>7
  <2>2. /\ Append(frames, frame) \in Seq(Frame) /\ Len(Append(frames, frame)) = n + 1
        /\ Append(frames, frame)[n + 1] = frame
        /\ \A i \in 1 .. n : Append(frames, frame)[i] = frames[i]
    BY <1>4, AppendProperties DEF n
  <2> QED BY <1>3, <2>1, <2>2
<1>10. frames' \in Seq(Frame) /\ frames' # <<>>
  <2>1. cd.ok => Len(frames') # 0
    BY <1>8, <1>9
  <2>2. cd.ok => frames' # <<>>
    BY <2>1, EmptySeq
  <2> QED BY <1>4, <1>9, <2>2
<1>11. Top'.dir = dir
  <2>1. CASE cd.ok
    BY <1>7, <1>9, <2>1 DEF Top, Last
  <2>2. CASE ~cd.ok
    BY <1>4, <1>6, <1>7, <1>9, <2>2 DEF Top
  <2> QED BY <1>2, <2>1, <2>2
<1>12. TypeOK'
  BY <1>2, <1>3, <1>10 DEF TypeOK, Frame
<1>13. TreeSound' /\ CdSound' /\ Shrinks
  BY <1>2, <1>3, SameTree DEF CdSound, CdOf
<1>14. Control'
  BY <1>2, <1>3, <1>4, <1>7, <1>11 DEF Control
<1>15. FramesSound'
  <2>1. CASE cd.ok
    <3>1. frame.dir = dir /\ dir # <<>> /\ Front(dir) = frames[n].dir /\ IsDirName(dir)
      <4>1. dir = Append(cur_dir, name) /\ Top.dir = cur_dir
        BY <1>4, <1>6, <1>7, <2>1
      <4>2. Append(cur_dir, name) # <<>> /\ Front(Append(cur_dir, name)) = cur_dir
        BY ONLY <1>4, PrefixAppend, <1>5
      <4> QED BY <1>2, <1>7, <1>8, <4>1, <4>2
    <3>2. \A i \in 1 .. n + 1 : i = n + 1 \/ i \in 1 .. n
      BY <1>8
    <3>3. \A i \in 1 .. n + 1 : IsDirName(frames'[i].dir)
      BY <1>2, <1>9, <2>1, <3>1, <3>2 DEF FramesSound, n
    <3>4. \A i \in 2 .. n + 1 : i - 1 \in 1 .. n /\ (i = n + 1 \/ i \in 2 .. n) /\ (i = n + 1 => i - 1 = n)
                                /\ (i \in 2 .. n => i \in 1 .. n)
      BY <1>8
    <3>5. \A i \in 2 .. n + 1 : frames'[i].dir # <<>> /\ Front(frames'[i].dir) = frames'[i - 1].dir
      BY <1>2, <1>9, <2>1, <3>1, <3>4 DEF FramesSound, n
    <3>6. 1 \in 1 .. n
      BY <1>8
    <3>7. ctx'.searched = <<cur_dv', frames'[1].dir>> /\ ctx' # NULL /\ ctx'.flag
      BY <1>2, <1>3, <1>4, <1>8, <1>9, <2>1, <3>6
    <3> QED BY <1>9, <2>1, <3>3, <3>5, <3>7 DEF FramesSound, IsDirName
  <2>2. CASE ~cd.ok
    BY <1>2, <1>3, <1>9, <2>2 DEF FramesSound
  <2> QED BY <1>2, <2>1, <2>2
<1>16. ASSUME TablesHold' PROVE WalkSound' /\ ResSound' /\ RestoreSound' /\ SearchCovers'
  <2>1. Stays /\ ResSound /\ SearchCovers
    BY <1>2, <1>16 DEF IInv, Numbered, TableGoesOn
  <2>2. WalkSound' /\ ResSound' /\ RestoreSound'
    BY <1>2, <1>3, <2>1, WalkNone, ResStays DEF RestoreSound
  <2>3. ASSUME NEW e \in Drive, NEW p \in Places, Wanted(e, p), Ahead(p) PROVE Ahead(p)'
    <3>1. CASE \E i \in 1 .. n : \E nm \in frames[i].left : Leads(Append(frames[i].dir, nm), p)
      <4>0. PICK i \in 1 .. n : \E nm \in frames[i].left : Leads(Append(frames[i].dir, nm), p)
        BY <3>1
      <4>1. PICK nm, d : d = frames[i].dir /\ nm \in frames[i].left /\ Leads(Append(d, nm), p)
        BY <4>0
      <4>2. i \in 1 .. Len(frames') /\ frames'[i] = frames[i]
        BY <1>8, <1>9 DEF n
      <4> QED BY <1>3, <4>1, <4>2 DEF Ahead, Leads
    <3>2. CASE cd.ok /\ IsPrefix(SubDir, p) /\ SubDir # p
      <4>1. SubDir = dir
        BY <1>2, <1>7 DEF SubDir
      <4>2. e = dv /\ tree[dv][p] # "none"
        <5>1. e = ctx.searched[1] /\ Exists(e, p)
          BY <2>3, Zenon DEF Wanted
        <5>2. p # <<>>
          BY PlacesAreSeqs, Zenon
        <5>3. e = dv
          BY ONLY <1>7, <1>8, <5>1
        <5> QED BY <5>1, <5>2, <5>3 DEF Exists
      <4>3. PICK nm \in frame.left : IsPrefix(Append(dir, nm), p)
        BY <1>2, <1>7, <3>2, <4>1, <4>2, OpenedLeads
      <4>4. n + 1 \in 1 .. Len(frames') /\ frames'[n + 1] = frame /\ ctx'.flag
        BY <1>3, <1>4, <1>8, <1>9, <3>2
      <4> QED BY <1>7, <4>3, <4>4 DEF Ahead, Leads
    <3> QED BY <2>3, <3>1, <3>2 DEF Ahead, n
  <2>4. SearchCovers'
    <3>1. \A p \in Places, e \in Drive : Listed(e, p)' = Listed(e, p)
      BY <1>3 DEF Listed
    <3>2. ctx # NULL /\ ctx.op = "find" /\ ctx.searched # NULL =>
            \A e \in Drive, p \in Places :
              Wanted(e, p) /\ (Listed(e, p) \/ Ahead(p)) => Listed(e, p)' \/ Ahead(p)'
      BY <2>3, <3>1, Zenon
    <3> QED BY <1>3, <1>13, <2>1, <3>2, SearchGoesOn
  <2> QED BY <2>2, <2>4
<1> QED BY <1>2, <1>12, <1>13, <1>14, <1>15, <1>16 DEF IInv, OwnInv, Numbered

LEMMA SubDoneKeeps ==
  ASSUME IInv, SubDone PROVE IInv'
<1>1. /\ pc = "read" /\ Len(frames) > 1 /\ Top.left = {} /\ frames' = Front(frames) /\ pc' = "cd"
      /\ cd' = [todo |-> <<"..">>, at |-> cur_dir, ok |-> TRUE, ret |-> "up"]
      /\ UNCHANGED <<tree, assignments, cur_dv, cur_dir, ctx, walk, victim, res, stable>>
  BY DEF SubDone, CdCall, vfsVars
<1>2. TypeOK /\ TreeSound /\ TableSound /\ Control /\ FramesSound
  BY DEF IInv, OwnInv
<1>3. /\ cd = NULL /\ walk = NULL /\ victim = NULL /\ ctx # NULL /\ frames \in Seq(Frame)
      /\ frames # <<>> /\ cur_dir \in Seq(Names) /\ IsDirName(cur_dir) /\ cur_dir = Top.dir
  BY <1>1, <1>2 DEF TypeOK, Control, IsDirName, Frame
<1> DEFINE n == Len(frames)
<1>4. /\ n \in Nat \ {0} /\ n > 1 /\ Top = frames[n] /\ Front(frames) \in Seq(Frame)
      /\ Len(Front(frames)) = n - 1 /\ \A i \in 1 .. n - 1 : Front(frames)[i] = frames[i]
  BY <1>1, <1>3, FrontElements DEF Top
<1> HIDE DEF n
<1>5. /\ frames' \in Seq(Frame) /\ Len(frames') = n - 1 /\ n - 1 \in Nat \ {0} /\ n - 1 \in 1 .. n - 1
      /\ \A i \in 1 .. n - 1 : frames'[i] = frames[i]
  BY <1>1, <1>4
<1>6. frames' # <<>> /\ Top'.dir = frames[n - 1].dir
  <2>1. Len(frames') # 0
    BY <1>5
  <2>2. Top' = frames'[n - 1]
    BY <1>5 DEF Top, Last
  <2> QED BY <1>5, <2>1, <2>2, EmptySeq
<1>7. cur_dir # <<>> /\ Front(cur_dir) = frames[n - 1].dir
  <2>1. n \in 2 .. n
    BY <1>4
  <2>2. frames[n].dir # <<>> /\ Front(frames[n].dir) = frames[n - 1].dir
    BY <1>2, <2>1 DEF FramesSound, n
  <2> QED BY <1>3, <1>4, <2>2
<1>8. cd' \in CdLocals /\ cd' # NULL
  <2>1. ".." \in Word
    BY DEF Word
  <2>2. <<"..">> \in Seq(Word)
    BY <2>1
  <2>3. cd' \in CdLocals
    BY <1>1, <1>3, <2>2 DEF CdLocals
  <2> QED BY <2>3, NullIs
<1>9. cd'.todo = <<"..">> /\ cd'.at = cur_dir /\ cd'.ok = TRUE /\ cd'.ret = "up"
  BY <1>1
<1>10. TypeOK'
  <2>1. IsDirName(cd'.at)
    BY <1>3, <1>9
  <2> QED BY <1>1, <1>2, <1>3, <1>5, <1>6, <1>8, <2>1 DEF TypeOK, Frame
<1>11. TreeSound' /\ TableSound' /\ Shrinks /\ TableGoesOn
  BY <1>1, <1>2, SameTree, SameTable
<1>12. ctx.op = "find" /\ ctx.flag
  BY <1>1, <1>2 DEF Control, FramesSound
<1>13. Control'
  BY <1>1, <1>2 DEF Control
<1>14. CdSound'
  <2>1. UpCd'
    BY <1>1, <1>6, <1>7, <1>9 DEF UpCd
  <2> QED BY <1>1, <1>6, <1>9, <1>12, <2>1 DEF CdSound, CdOf
<1>15. FramesSound'
  <2>1. \A i \in 1 .. n - 1 : IsDirName(frames'[i].dir)
    <3>1. \A i \in 1 .. n - 1 : i \in 1 .. n
      BY <1>4
    <3> QED BY <1>2, <1>5, <3>1 DEF FramesSound, n
  <2>2. \A i \in 2 .. n - 1 : frames'[i].dir # <<>> /\ Front(frames'[i].dir) = frames'[i - 1].dir
    <3>1. \A i \in 2 .. n - 1 : i \in 1 .. n - 1 /\ i - 1 \in 1 .. n - 1 /\ i \in 2 .. n
      BY <1>4
    <3> QED BY <1>2, <1>5, <3>1 DEF FramesSound, n
  <2>3. ctx'.searched = <<cur_dv', frames'[1].dir>> /\ ctx' # NULL /\ ctx'.flag
    <3>1. 1 \in 1 .. n - 1
      BY <1>5
    <3> QED BY <1>1, <1>2, <1>3, <1>5, <1>12, <3>1 DEF FramesSound
  <2> QED BY <1>5, <2>1, <2>2, <2>3 DEF FramesSound, IsDirName
<1>16. ASSUME TablesHold' PROVE WalkSound' /\ ResSound' /\ RestoreSound' /\ SearchCovers'
  <2>1. Stays /\ ResSound /\ SearchCovers
    BY <1>11, <1>16 DEF IInv, Numbered, TableGoesOn
  <2>2. WalkSound' /\ ResSound' /\ RestoreSound'
    BY <1>1, <1>2, <1>3, <1>9, <2>1, WalkNone, ResStays DEF RestoreSound
  <2>3. ASSUME NEW p \in Places, Ahead(p) PROVE Ahead(p)'
    <3>1. PICK i \in 1 .. n : \E nm \in frames[i].left : Leads(Append(frames[i].dir, nm), p)
      BY <1>3, <2>3 DEF Ahead, n
    <3>2. PICK nm, d : d = frames[i].dir /\ nm \in frames[i].left /\ Leads(Append(d, nm), p)
      BY <3>1
    <3>3. i # n
      BY <1>1, <1>4, <3>2
    <3>4. i \in 1 .. Len(frames') /\ frames'[i] = frames[i]
      BY <1>4, <1>5, <3>3
    <3> QED BY <1>1, <3>2, <3>4 DEF Ahead, Leads
  <2>4. SearchCovers'
    <3>1. \A p \in Places, e \in Drive : Listed(e, p)' = Listed(e, p)
      BY <1>1 DEF Listed
    <3>2. ctx # NULL /\ ctx.op = "find" /\ ctx.searched # NULL =>
            \A e \in Drive, p \in Places :
              Wanted(e, p) /\ (Listed(e, p) \/ Ahead(p)) => Listed(e, p)' \/ Ahead(p)'
      BY <2>3, <3>1, Zenon
    <3> QED BY <1>1, <1>11, <2>1, <3>2, SearchGoesOn
  <2> QED BY <2>2, <2>4
<1> QED BY <1>10, <1>11, <1>13, <1>14, <1>15, <1>16 DEF IInv, OwnInv, Numbered

LEMMA BackUpKeeps ==
  ASSUME IInv, BackUp PROVE IInv'
<1>1. CdReturns("up") /\ "up" \in {"user", "dir", "mask", "sub", "up", "restore"}
  BY DEF BackUp
<1>2. /\ CdOf("up") /\ cd # NULL /\ cd.todo = <<>> /\ walk = NULL /\ cd.at \in Seq(Names)
      /\ IsDirName(cd.at) /\ cd.ret = "up" /\ ctx # NULL /\ victim' = NULL
      /\ UNCHANGED <<tree, assignments>>
      /\ TypeOK /\ TreeSound /\ TableSound /\ CdSound /\ Control /\ FramesSound
      /\ TableGoesOn /\ TableSound'
  BY <1>1, CdEnds DEF CdOf
<1>3. /\ cur_dir' = cd.at /\ cd' = NULL /\ pc' = "read"
      /\ UNCHANGED <<cur_dv, ctx, walk, frames, res, stable>>
  BY DEF BackUp
<1>4. ctx.op = "find" /\ frames # <<>> /\ cd.at = Top.dir
  BY <1>2 DEF CdSound, UpCd
<1>5. TypeOK'
  BY <1>2, <1>3, <1>4 DEF TypeOK
<1>6. TreeSound' /\ CdSound' /\ Shrinks /\ FramesSound'
  <2>1. FramesSound'
    BY <1>2, <1>3 DEF FramesSound
  <2> QED BY <1>2, <1>3, <2>1, SameTree DEF CdSound, CdOf
<1>7. Control'
  BY <1>2, <1>3, <1>4 DEF Control, Top
<1>8. ASSUME TablesHold' PROVE WalkSound' /\ ResSound' /\ RestoreSound' /\ SearchCovers'
  <2>1. Stays /\ ResSound /\ SearchCovers
    BY <1>2, <1>8 DEF IInv, Numbered, TableGoesOn
  <2>2. WalkSound' /\ ResSound' /\ RestoreSound'
    BY <1>2, <1>3, <2>1, WalkNone, ResStays DEF RestoreSound
  <2>3. SearchCovers'
    <3>1. \A p \in Places, e \in Drive : Listed(e, p)' = Listed(e, p) /\ (Ahead(p) => Ahead(p)')
      BY <1>2, <1>3 DEF Listed, Ahead, Leads
    <3>2. ctx # NULL /\ ctx.op = "find" /\ ctx.searched # NULL =>
            \A e \in Drive, p \in Places :
              Wanted(e, p) /\ (Listed(e, p) \/ Ahead(p)) => Listed(e, p)' \/ Ahead(p)'
      BY <3>1, Zenon
    <3> QED BY <1>3, <1>6, <2>1, <3>2, SearchGoesOn
  <2> QED BY <2>2, <2>3
<1> QED BY <1>2, <1>5, <1>6, <1>7, <1>8 DEF IInv, OwnInv, Numbered

LEMMA SearchDoneKeeps ==
  ASSUME IInv, SearchDone PROVE IInv'
<1>1. /\ pc = "read" /\ Len(frames) = 1 /\ Top.left = {} /\ frames' = <<>> /\ DirContextDel
      /\ UNCHANGED <<tree, assignments, ctx, walk, victim, res, stable>>
  BY DEF SearchDone, vfsVars
<1>2. TypeOK /\ TreeSound /\ TableSound /\ Control /\ OwnInv
  BY DEF IInv, OwnInv
<1>3. cd = NULL /\ walk = NULL /\ victim = NULL /\ ctx # NULL /\ ctx.op # "cd"
  BY <1>1, <1>2 DEF TypeOK, Control
<1>4. TableGoesOn /\ Shrinks
  BY <1>1, <1>2, SameTree, SameTable
<1>5. OwnInv' /\ WalkSound' /\ RestoreSound' /\ cd'.ret = "restore"
  <2>1. res' \subseteq [dv : Drive, full_name : Seq(Names), clus : Number]
    BY <1>1, <1>2 DEF TypeOK
  <2> QED BY <1>1, <1>2, <1>3, <1>4, <2>1, BackBegins
<1>6. \A p \in Places : ~Ahead(p)
  <2>1. \A i \in 1 .. Len(frames) : frames[i].left = {}
    BY <1>1 DEF Top, Last
  <2> QED BY <1>3, <2>1 DEF Ahead
<1>7. ASSUME TablesHold' PROVE ResSound' /\ SearchCovers'
  <2>1. Stays /\ ResSound /\ SearchCovers
    BY <1>4, <1>7 DEF IInv, Numbered, TableGoesOn
  <2>2. ResSound'
    BY <1>1, <1>2, <2>1, ResStays
  <2>3. SearchCovers'
    <3>1. \A p \in Places, e \in Drive : Listed(e, p)' = Listed(e, p)
      BY <1>1 DEF Listed
    <3>2. ctx # NULL /\ ctx.op = "find" /\ ctx.searched # NULL =>
            \A e \in Drive, p \in Places :
              Wanted(e, p) /\ (Listed(e, p) \/ Ahead(p)) => Listed(e, p)' \/ Ahead(p)'
      BY <1>6, <3>1, Zenon
    <3> QED BY <1>1, <1>4, <2>1, <3>2, SearchGoesOn
  <2> QED BY <2>2, <2>3
<1> QED BY <1>5, <1>7 DEF IInv, Numbered

-----------------------------------------------------------------------------
(***************************************************************************)
(* The invariant holds.                                                    *)
(***************************************************************************)
LEMMA InitHolds == Init => IInv /\ TablesHold /\ Distinct
<1> SUFFICES ASSUME Init PROVE IInv /\ TablesHold /\ Distinct
  OBVIOUS
<1>1. /\ tree \in [Drive -> [Places -> {"none"}]] /\ assignments = [s \in Slots |-> NULL]
      /\ pc = "idle" /\ cur_dv = 0 /\ cur_dir = <<>>
      /\ ctx = NULL /\ cd = NULL /\ walk = NULL /\ victim = NULL
      /\ frames = <<>> /\ res = {} /\ stable = AllPlaces
  BY DEF Init, VfsInit
<1>2. <<>> \in Seq(Names) /\ Len(<<>>) = 0 /\ MaxDepth \in Nat /\ 0 \in Drive
  BY EmptySeq, Depths, Sizes
<1>3. TypeOK
  <2>1. IsDirName(cur_dir)
    <3>1. Len(cur_dir) <= MaxDepth
      BY <1>1, <1>2
    <3> QED BY <1>1, <1>2, <3>1 DEF IsDirName
  <2>2. frames \in Seq([dir : Seq(Names), left : SUBSET Names])
    BY <1>1, EmptySeq
  <2>3. tree \in [Drive -> [Places -> {"none", "file", "dir"}]] /\ assignments \in [Slots -> Node \cup {NULL}]
    BY <1>1
  <2> QED BY <1>1, <1>2, <2>1, <2>2, <2>3 DEF TypeOK
<1>4. TreeSound
  BY <1>1 DEF TreeSound
<1>5. \A dv \in Drive, i \in Index : assignments[Slot(dv, i)] = NULL
  <2>1. \A dv \in Drive, i \in Index : Slot(dv, i) \in Slots
    <3>1. \A i \in Index : i \in 0 .. MaxAssignments
      BY Sizes DEF Index
    <3> QED BY <3>1, SlotsApart
  <2> QED BY <1>1, <2>1
<1>6. TableSound /\ TablesHold /\ Distinct
  BY <1>1, <1>5 DEF TableSound, TablesHold, Distinct, Index
<1>7. Control /\ CdSound /\ FramesSound
  BY <1>1, <1>2 DEF Control, CdSound, CdOf, FramesSound
<1>8. Numbered
  BY <1>1 DEF Numbered, WalkSound, ResSound, RestoreSound, SearchCovers
<1> QED BY <1>3, <1>4, <1>6, <1>7, <1>8 DEF IInv, OwnInv

LEMMA Stutters == ASSUME IInv, UNCHANGED vars PROVE IInv'
<1>1. UNCHANGED <<tree, assignments, pc, cur_dv, cur_dir, ctx, cd, walk, frames, victim, res, stable>>
  BY DEF vars
<1>2. TypeOK' /\ TreeSound' /\ TableSound'
  BY <1>1 DEF IInv, OwnInv, TypeOK, TreeSound, TableSound, Slot
<1>3. Control' /\ CdSound' /\ FramesSound'
  <2>1. Control'
    BY <1>1 DEF IInv, OwnInv, Control, Top, NamePath, FilesFindMatch
  <2>2. CdSound'
    BY <1>1 DEF IInv, OwnInv, CdSound, CdOf, Top, SubCd, UpCd, RestoreCd
  <2>3. FramesSound'
    BY <1>1 DEF IInv, OwnInv, FramesSound
  <2> QED BY <2>1, <2>2, <2>3
<1>4. Numbered'
  BY <1>1, SameTree, ShrinkNumbered DEF IInv
<1> QED BY <1>2, <1>3, <1>4 DEF IInv, OwnInv

LEMMA CallsKeep == ASSUME IInv, Call PROVE IInv'
<1>1. PICK arg \in Args :
        \/ Len(cur_dir) + Len(arg.names) <= MaxDepth /\ Begin("cd", arg, FALSE)
        \/ Begin("file", arg, FALSE)
        \/ \E flag \in Recurse : Begin("find", arg, flag)
        \/ \E flag \in DelDir : Begin("del", arg, flag)
  BY DEF Call
<1>2. Recurse \subseteq BOOLEAN /\ DelDir \subseteq BOOLEAN
  BY ArgsAssumption
<1>3. ASSUME Len(cur_dir) + Len(arg.names) <= MaxDepth, Begin("cd", arg, FALSE) PROVE IInv'
  BY <1>3, BeginKeeps
<1>4. ASSUME Begin("file", arg, FALSE) PROVE IInv'
  BY <1>4, BeginKeeps
<1>5. ASSUME NEW flag \in Recurse, Begin("find", arg, flag) PROVE IInv'
  BY <1>2, <1>5, BeginKeeps
<1>6. ASSUME NEW flag \in DelDir, Begin("del", arg, flag) PROVE IInv'
  BY <1>2, <1>6, BeginKeeps
<1> QED BY <1>1, <1>3, <1>4, <1>5, <1>6

LEMMA Preserved == ASSUME IInv, Next PROVE IInv'
<1>1. ASSUME Others PROVE IInv'
  BY <1>1, OthersKeep DEF Others
<1>2. ASSUME Call PROVE IInv'
  BY <1>2, CallsKeep
<1>3. ASSUME Read PROVE IInv'
  BY <1>3, ReadGoneKeeps, FindListedKeeps, FindRecursesKeeps, DelKeptKeeps, DelMatchesKeeps DEF Read
<1> QED BY <1>1, <1>2, <1>3, CdUpKeeps, CdNameKeeps, Name2DirClusKeeps, HostFsCdKeeps,
           UserCdEndsKeeps, FileDirReachedKeeps, FindDirReachedKeeps, SearchesKeep,
           DirMissingKeeps, RestoredKeeps, FileFindKeeps, SubReachedKeeps, SubDoneKeeps,
           BackUpKeeps, SearchDoneKeeps, UnlinkKeeps DEF Next, Guest

\* Everything that the proofs below use holds in every state that the drive, its
\* loader and the task of the guest reach.
THEOREM Invariance == Spec => []IInv
<1>1. Init => IInv
  BY InitHolds
<1>2. IInv /\ [Next]_vars => IInv'
  BY Preserved, Stutters
<1> QED BY <1>1, <1>2, PTL DEF Spec

\* In every state that is reached each variable has a value of its type, cur_dir is
\* made of names that were looked up, and the locals of a function exist exactly
\* while it runs.
THEOREM TypeCorrect == Spec => []TypeOK
<1>1. IInv => TypeOK
  BY DEF IInv, OwnInv
<1> QED BY <1>1, Invariance, PTL

-----------------------------------------------------------------------------
(***************************************************************************)
(* What a search finds, as long as no table of cluster numbers is full.    *)
(***************************************************************************)
\* The number of an entry that FilesFind returns leads back to the file that the
\* entry names: READDIR's number and the name in the current directory belong to
\* the same file, as long as vfs.c has room for its paths.
THEOREM EntriesLeadBack == Spec => [](TablesHold => EntriesAgree)
<1>1. IInv => (TablesHold => EntriesAgree)
  <2> SUFFICES ASSUME IInv, TablesHold, ctx # NULL, ctx.op = "find", NEW e \in res
               PROVE  PathOf(e.clus, e.dv) = e.full_name
    BY Zenon DEF EntriesAgree
  <2>1. ResSound
    BY DEF IInv, Numbered
  <2> QED BY <2>1, Zenon DEF ResSound
<1> QED BY <1>1, Invariance, PTL

\* HostFsFilesFind is in the directory it has open, each open directory is in the
\* one before it, and Name2DirClus is on its path.
THEOREM SearchIsOnItsWay == Spec => [](TablesHold => OnItsWay)
<1>1. IInv => (TablesHold => OnItsWay)
  <2> SUFFICES ASSUME IInv, TablesHold PROVE OnItsWay
    OBVIOUS
  <2>1. Control /\ FramesSound /\ WalkSound
    BY DEF IInv, OwnInv, Numbered
  <2>2. pc \in {"read", "unlink"} => cur_dir = Top.dir
    BY <2>1 DEF Control
  <2>3. \A i \in 2 .. Len(frames) : Front(frames[i].dir) = frames[i - 1].dir
    BY <2>1 DEF FramesSound
  <2>4. walk # NULL /\ walk.clus # 0 => PathOf(walk.clus, cur_dv) \o walk.todo = WalkDir
    BY <2>1, Zenon DEF WalkSound
  <2> QED BY <2>2, <2>3, <2>4, Zenon DEF OnItsWay, WalkDir
<1> QED BY <1>1, Invariance, PTL

\* A file that is there all the time, in a directory that the search reaches, is in
\* the list of FilesFind, although others create and remove files meanwhile.
THEOREM StableIsListed == Spec => [](TablesHold => StableListed)
<1>1. IInv => (TablesHold => StableListed)
  <2> SUFFICES ASSUME IInv, TablesHold, Searched, NEW dv \in Drive, NEW p \in Places, Wanted(dv, p)
               PROVE  \E e \in res : e.dv = dv /\ e.full_name = p
    BY Zenon DEF StableListed
  <2>1. TypeOK /\ CdSound /\ SearchCovers
    BY DEF IInv, OwnInv, Numbered
  <2>2. /\ pc = "cd" /\ cd # NULL /\ cd.ret = "restore" /\ ctx # NULL
        /\ ctx.op = "find" /\ ctx.searched # NULL
    BY <2>1 DEF Searched, TypeOK
  <2>3. Listed(dv, p) \/ Ahead(p)
    BY <2>1, <2>2, Zenon DEF SearchCovers
  <2>4. Len(frames) = 0
    BY <2>1, <2>2, EmptySeq DEF CdSound, CdOf
  <2>5. ~Ahead(p)
    BY <2>2, <2>4 DEF Ahead
  <2> QED BY <2>3, <2>5 DEF Listed
<1> QED BY <1>1, Invariance, PTL

\* FileFind, FilesFind and Del leave the task on its drive and in its directory, or
\* above it if the directory was removed meanwhile.
THEOREM TaskComesBack == Spec /\ []TablesHold => CurDirRestored
<1>1. ASSUME IInv, TablesHold, [Next]_vars, pc = "cd", pc' = "idle", cd.ret = "restore"
      PROVE  /\ cur_dv' = ctx.old_dv /\ IsPrefix(cur_dir', ctx.old_dir)
             /\ (IsDir(ctx.old_dv, ctx.old_dir) /\ <<ctx.old_dv, ctx.old_dir>> \in stable) =>
                  cur_dir' = ctx.old_dir
  <2>1. Restored
    <3>1. ~UNCHANGED vars /\ ~Others /\ ~Call /\ ~Read
      BY <1>1 DEF vars, Others, OtherRemove, OtherCreate, guest, Call, Begin, Read, ReadGone,
                  FindListed, FindRecurses, DelKept, DelMatches, Reading
    <3>2. Guest
      BY <1>1, <3>1 DEF Next
    <3>3. /\ ~CdUp /\ ~CdName /\ ~Name2DirClus /\ ~HostFsCd /\ ~UserCdEnds /\ ~FileDirReached
          /\ ~FindDirReached /\ ~DelDirReached /\ ~DirMissing /\ ~MaskTried
      BY <1>1 DEF CdUp, CdName, Name2DirClus, HostFsCd, UserCdEnds, FileDirReached, FindDirReached,
                  DelDirReached, DirMissing, MaskTried, CdReturns
    <3>4. ~FileFind /\ ~SubReached /\ ~SubDone /\ ~BackUp /\ ~SearchDone /\ ~Unlink
      BY <1>1 DEF FileFind, SubReached, SubDone, BackUp, SearchDone, Unlink, CdReturns
    <3> QED BY <3>1, <3>2, <3>3, <3>4 DEF Guest
  <2>2. CdReturns("restore") /\ "restore" \in {"user", "dir", "mask", "sub", "up", "restore"}
    BY <2>1 DEF Restored
  <2>3. /\ CdOf("restore") /\ cd # NULL /\ cd.todo = <<>> /\ cd.at \in Seq(Names) /\ ctx # NULL
        /\ ctx \in Context /\ cd.ok \in BOOLEAN /\ CdSound
    BY <1>1, <2>2, CdEnds
  <2>4. RestoreCd /\ RestoreSound /\ cur_dir' = cd.at /\ cur_dv' = cur_dv /\ ctx.old_dir \in Seq(Names)
    BY <1>1, <2>1, <2>3 DEF CdSound, IInv, Numbered, Restored, Context
  <2>5. cd.ok => cd.at = ctx.old_dir
    <3>1. cd.at \o <<>> = cd.at
      BY <2>3, ConcatEmptySeq
    <3> QED BY <2>3, <2>4, <3>1 DEF RestoreCd
  <2>6. IsPrefix(cd.at, ctx.old_dir)
    <3>1. IsPrefix(cd.at, cd.at)
      BY <2>3, PrefixBasics
    <3> QED BY <2>3, <2>4, <2>5, <3>1 DEF RestoreCd
  <2>7. ASSUME IsDir(ctx.old_dv, ctx.old_dir), <<ctx.old_dv, ctx.old_dir>> \in stable
        PROVE  cd.at = ctx.old_dir
    <3>1. CASE ctx.old_dir = <<>>
      <4>1. IsPrefix(<<>>, cd.at)
        BY <2>3, PrefixBasics
      <4> QED BY <2>3, <2>4, <2>6, <3>1, <4>1, PrefixSame
    <3>2. CASE ctx.old_dir # <<>>
      <4>1. ctx.old_dir \in Places /\ tree[ctx.old_dv][ctx.old_dir] = "dir"
        BY <2>7, <3>2 DEF IsDir
      <4>2. IsPrefix(ctx.old_dir, ctx.old_dir)
        BY <2>4, PrefixBasics
      <4>3. Anchored(ctx.old_dv, ctx.old_dir)
        BY <2>7, <4>1, <4>2 DEF Anchored
      <4>4. cd.ok
        BY <2>3, <2>4, <4>3 DEF RestoreSound, CdOf
      <4> QED BY <2>5, <4>4
    <3> QED BY <3>1, <3>2
  <2> QED BY <2>4, <2>6, <2>7 DEF RestoreCd
<1>2. IInv /\ TablesHold /\ [Next]_vars =>
        [pc = "cd" /\ pc' = "idle" /\ cd.ret = "restore" =>
           /\ cur_dv' = ctx.old_dv /\ IsPrefix(cur_dir', ctx.old_dir)
           /\ (IsDir(ctx.old_dv, ctx.old_dir) /\ <<ctx.old_dv, ctx.old_dir>> \in stable) =>
                cur_dir' = ctx.old_dir]_vars
  BY <1>1
<1> QED BY <1>2, Invariance, PTL DEF Spec, CurDirRestored

\* Del removes nothing but what its mask matches in the directory it was called for,
\* whatever happens between its look at the list and its unlink.
THEOREM OnlyMatchesGo == Spec => DelOnlyMatching
<1>1. ASSUME IInv, [Next]_vars, tree' # tree, pc = "unlink", pc' = "read",
             NEW dv \in Drive, NEW p \in Places, tree'[dv][p] # tree[dv][p]
      PROVE  dv = ctx.searched[1] /\ Front(p) = ctx.searched[2] /\ FilesFindMatch(Last(p))
  <2>1. Unlink
    <3>1. ~UNCHANGED vars /\ ~Others /\ ~Call /\ ~Read
      BY <1>1 DEF vars, Others, OtherRemove, OtherCreate, guest, Call, Begin, Read, ReadGone,
                  FindListed, FindRecurses, DelKept, DelMatches, Reading
    <3>2. Guest
      BY <1>1, <3>1 DEF Next
    <3>3. /\ ~CdUp /\ ~CdName /\ ~Name2DirClus /\ ~HostFsCd /\ ~UserCdEnds /\ ~FileDirReached
          /\ ~FindDirReached /\ ~DelDirReached /\ ~DirMissing /\ ~MaskTried
      BY <1>1 DEF CdUp, CdName, Name2DirClus, HostFsCd, UserCdEnds, FileDirReached, FindDirReached,
                  DelDirReached, DirMissing, MaskTried, CdReturns
    <3>4. ~FileFind /\ ~SubReached /\ ~SubDone /\ ~BackUp /\ ~SearchDone /\ ~Restored
      BY <1>1 DEF FileFind, SubReached, SubDone, BackUp, SearchDone, Restored, CdReturns
    <3> QED BY <3>1, <3>2, <3>3, <3>4 DEF Guest
  <2>2. TypeOK /\ Control /\ FramesSound
    BY <1>1 DEF IInv, OwnInv
  <2>3. PICK name \in Names : victim = NamePath(name) /\ FilesFindMatch(name)
    BY <1>1, <2>2 DEF Control
  <2>4. Len(frames) = 1 /\ frames # <<>> /\ cur_dir = Top.dir /\ cur_dir \in Seq(Names) /\ cur_dv \in Drive
    BY <1>1, <2>2 DEF Control, TypeOK, IsDirName
  <2>5. ctx.searched = <<cur_dv, cur_dir>>
    BY <2>2, <2>4 DEF FramesSound, Top, Last
  <2>6. PICK q : q = Append(cur_dir, name)
    OBVIOUS
  <2>7. Place(victim) = q /\ Front(q) = cur_dir /\ Last(q) = name
    BY <2>3, <2>4, <2>6, NamePathIs, PrefixAppend DEF NamePath
  <2>8. Removable(cur_dv, q) /\ Delete(cur_dv, q)
    BY <1>1, <2>1, <2>7, Zenon DEF Unlink
  <2>9. tree' = [tree EXCEPT ![cur_dv][q] = "none"] /\ q \in Places
    BY <2>8 DEF Delete, Removable
  <2>10. dv = cur_dv /\ p = q
    BY <1>1, <2>2, <2>9 DEF TypeOK
  <2> QED BY <2>3, <2>5, <2>7, <2>10
<1>2. IInv /\ [Next]_vars =>
        [tree' # tree /\ pc = "unlink" /\ pc' = "read" =>
           \A dv \in Drive, p \in Places : tree'[dv][p] # tree[dv][p] =>
             /\ dv = ctx.searched[1] /\ Front(p) = ctx.searched[2] /\ FilesFindMatch(Last(p))]_vars
  BY <1>1
<1> QED BY <1>2, Invariance, PTL DEF Spec, DelOnlyMatching

-----------------------------------------------------------------------------
(***************************************************************************)
(* What becomes of the table of cluster numbers.                           *)
(***************************************************************************)
\* A step leaves it alone, or asks for one path that leads to a place.
Recorded ==
  \/ assignments' = assignments
  \/ \E dv \in Drive, path \in Spellings : assignments' = get_node_by_path(path, dv)

LEMMA StatsRecord ==
  ASSUME IInv, NEW clus \in Number, NEW name \in AnyName, Stats(clus, name)
  PROVE  Recorded
<1>1. TableType /\ TableSound /\ cur_dv \in Drive
  BY DEF IInv, OwnInv, TypeOK, TableType
<1>2. PICK path, dv : path = AbsPath(clus, name) /\ dv = cur_dv
  OBVIOUS
<1>3. path # NULL /\ Exists(dv, Place(path)) => path \in Spellings
  BY <1>1, <1>2, AbsPathIs
<1>4. assignments' = IF path # NULL /\ Exists(dv, Place(path))
                     THEN get_node_by_path(path, dv) ELSE assignments
  BY <1>2, Zenon DEF Stats
<1> QED BY <1>1, <1>2, <1>3, <1>4, Zenon DEF Recorded

LEMMA StatNameRecords ==
  ASSUME IInv, NEW name \in Names, Reading(name), ReadName(name), StatName(name)
  PROVE  Recorded
<1>1. cur_dv \in Drive
  BY ReadIs
<1>2. PICK q, path, dv : q = Append(cur_dir, name) /\ path = NamePath(name) /\ dv = cur_dv
  OBVIOUS
<1>3. Exists(dv, Place(path)) /\ assignments' = get_node_by_path(path, dv)
  BY <1>2, Zenon DEF StatName, vfs_stat
<1>4. path \in Spellings
  BY <1>2, <1>3, ReadPlace
<1> QED BY <1>1, <1>2, <1>3, <1>4, Zenon DEF Recorded

LEMMA StepRecords == ASSUME IInv, [Next]_vars PROVE Recorded
<1>1. TypeOK /\ Control
  BY DEF IInv, OwnInv
<1>2. ASSUME Name2DirClus PROVE Recorded
  <2>1. walk # NULL /\ walk.todo # <<>> /\ Stats(walk.clus, Head(walk.todo))
    BY <1>1, <1>2 DEF Name2DirClus, TypeOK
  <2>2. walk.clus \in Number /\ Head(walk.todo) \in AnyName
    BY <1>1, <2>1, HeadTailProperties, NamesAreWords DEF TypeOK, WalkLocals
  <2> QED BY <2>1, <2>2, StatsRecord
<1>3. ASSUME HostFsCd PROVE Recorded
  <2>1. pc = "walk" /\ walk # NULL /\ cd # NULL /\ Stats(walk.clus, Head(cd.todo))
    BY <1>1, <1>3 DEF HostFsCd, TypeOK
  <2>2. walk.clus \in Number /\ cd.todo \in Seq(Word) /\ cd.todo # <<>>
    BY <1>1, <2>1 DEF TypeOK, WalkLocals, CdLocals, Control
  <2>3. Head(cd.todo) \in AnyName
    BY <2>2, HeadTailProperties, NamesAreWords
  <2> QED BY <2>1, <2>2, <2>3, StatsRecord
<1>4. ASSUME FileFind PROVE Recorded
  <2>1. pc = "walk" /\ walk # NULL /\ ctx # NULL /\ Stats(walk.clus, ctx.mask)
    BY <1>1, <1>4 DEF FileFind, TypeOK
  <2>2. walk.clus \in Number /\ ctx.mask \in AnyName
    BY <1>1, <2>1, NamesAreWords DEF TypeOK, WalkLocals, Context
  <2> QED BY <2>1, <2>2, StatsRecord
<1>5. ASSUME Read PROVE Recorded
  <2>1. PICK name \in Names :
          ReadGone(name) \/ FindListed(name) \/ FindRecurses(name) \/ DelKept(name) \/ DelMatches(name)
    BY <1>5 DEF Read
  <2>2. CASE ReadGone(name)
    BY <2>2 DEF ReadGone, vfsVars, Recorded
  <2>3. CASE FindListed(name) \/ FindRecurses(name) \/ DelKept(name) \/ DelMatches(name)
    <3>1. Reading(name) /\ ReadName(name) /\ StatName(name)
      BY <2>3 DEF FindListed, FindRecurses, DelKept, DelMatches
    <3> QED BY <3>1, StatNameRecords
  <2> QED BY <2>1, <2>2, <2>3
<1>6. ASSUME Others \/ Call PROVE Recorded
  BY <1>6 DEF Others, OtherRemove, OtherCreate, Call, Begin, vfsVars, Recorded
<1>7. ASSUME CdUp \/ CdName \/ SubDone \/ SearchDone \/ Unlink PROVE Recorded
  BY <1>7 DEF CdUp, CdName, SubDone, SearchDone, Unlink, vfsVars, Recorded
<1>8. ASSUME \/ UserCdEnds \/ FileDirReached \/ FindDirReached \/ DelDirReached
             \/ DirMissing \/ MaskTried \/ Restored \/ SubReached \/ BackUp
      PROVE  Recorded
  <2>1. assignments' = assignments
    BY <1>8 DEF UserCdEnds, FileDirReached, FindDirReached, DelDirReached, DirMissing, MaskTried,
                Restored, SubReached, BackUp, CdReturns, vfsVars
  <2> QED BY <2>1 DEF Recorded
<1>9. ASSUME UNCHANGED vars PROVE Recorded
  BY <1>9 DEF vars, Recorded
<1> QED BY <1>2, <1>3, <1>4, <1>5, <1>6, <1>7, <1>8, <1>9 DEF Next, Guest

LEMMA TableLasts == ASSUME IInv, TablesHold', [Next]_vars PROVE Stays
<1>1. TableType /\ TableSound
  BY DEF IInv, OwnInv, TypeOK, TableType
<1>2. CASE assignments' = assignments
  BY <1>2 DEF Stays
<1>3. CASE \E dv \in Drive, path \in Spellings : assignments' = get_node_by_path(path, dv)
  <2>1. PICK dv \in Drive, path \in Spellings : assignments' = get_node_by_path(path, dv)
    BY <1>3, Zenon
  <2> QED BY <1>1, <2>1, RecordKeeps, Zenon
<1> QED BY <1>2, <1>3, StepRecords, Zenon DEF Recorded

\* The number of a directory is for good, as TempleOS needs it: once vfs.c has given
\* a number to a path, the number stays that path's, through everything that the
\* task, the host and other tasks do, as long as there is room for the paths.
THEOREM NumbersAreForGood == Spec /\ []TablesHold => ClusStable
<1>1. ASSUME IInv, TablesHold', [Next]_vars,
             NEW dv \in Drive, NEW s \in 1 .. MaxAssignments, get_node_by_clus(s, dv) # NULL
      PROVE  get_node_by_clus(s, dv)' = get_node_by_clus(s, dv)
  BY <1>1, TableLasts, StaysPath, Zenon
<1>2. IInv /\ TablesHold' /\ [Next]_vars =>
        [\A dv \in Drive, s \in 1 .. MaxAssignments :
           LET node == get_node_by_clus(s, dv)
           IN  node # NULL => get_node_by_clus(s, dv)' = node]_vars
  BY <1>1, Zenon
<1> QED BY <1>2, Invariance, PTL DEF Spec, ClusStable

-----------------------------------------------------------------------------
(***************************************************************************)
(* How large a table has to be.                                            *)
(***************************************************************************)
\* A place has two spellings at most, with an empty name before it and without.
FromRoot(path) == IF Head(path) = "" THEN 1 ELSE 0

LEMMA SpelledAlike ==
  ASSUME NEW s \in Spellings, NEW t \in Spellings, Place(s) = Place(t), FromRoot(s) = FromRoot(t)
  PROVE  s = t
<1>1. s \in Seq(PathName) /\ t \in Seq(PathName) /\ s # <<>> /\ t # <<>>
  BY DEF Spellings
<1>2. PICK e : \A path : /\ FromRoot(path) = IF Head(path) = e THEN 1 ELSE 0
                         /\ Place(path) = IF path # <<>> /\ Head(path) = e THEN Tail(path) ELSE path
  BY Zenon DEF FromRoot, Place
<1>3. Head(s) = e <=> Head(t) = e
  <2>1. 0 # 1
    OBVIOUS
  <2> QED BY <1>2, <2>1, Zenon
<1>4. CASE Head(s) # e
  <2>1. Head(t) # e
    BY <1>3, <1>4
  <2> QED BY <1>2, <1>4, <2>1
<1>5. CASE Head(s) = e
  <2>1. Head(t) = e
    BY <1>3, <1>5
  <2>2. PICK u : u = Tail(s) /\ u = Tail(t)
    BY <1>1, <1>2, <1>5, <2>1
  <2>3. /\ Len(u) = Len(s) - 1 /\ \A i \in 1 .. Len(u) : u[i] = s[i + 1]
        /\ Len(u) = Len(t) - 1 /\ \A i \in 1 .. Len(u) : u[i] = t[i + 1]
        /\ Len(s) \in Nat /\ Len(t) \in Nat
    BY <1>1, <2>2, HeadTailProperties, LenProperties
  <2>4. s[1] = e /\ t[1] = e
    BY <1>1, <1>5, <2>1
  <2>5. Len(s) = Len(t)
    BY <2>3
  <2>6. ASSUME NEW i \in 1 .. Len(s) PROVE s[i] = t[i]
    <3>1. CASE i = 1
      BY <2>4, <3>1
    <3>2. CASE i # 1
      <4>1. PICK j \in 1 .. Len(u) : i = j + 1
        <5>1. i - 1 \in 1 .. Len(u) /\ i = (i - 1) + 1
          BY <2>3, <3>2
        <5> QED BY <5>1
      <4>2. u[j] = s[j + 1] /\ u[j] = t[j + 1]
        BY <2>3, <4>1
      <4> QED BY <4>1, <4>2
    <3> QED BY <3>1, <3>2
  <2> QED BY <1>1, <2>5, <2>6, SeqEqual
<1> QED BY <1>4, <1>5

\* Different spellings that all lead to places are no more than two for each place.
LEMMA FewSpellings ==
  ASSUME IsFiniteSet(Places), 2 * Cardinality(Places) <= MaxAssignments,
         NEW paths \in [0 .. MaxAssignments -> Spellings]
  PROVE  \E i, j \in 0 .. MaxAssignments : i # j /\ paths[i] = paths[j]
<1> DEFINE I == 0 .. MaxAssignments
           T == Places \X (0 .. 1)
           f == [i \in I |-> <<Place(paths[i]), FromRoot(paths[i])>>]
<1>1. IsFiniteSet(I) /\ Cardinality(I) = MaxAssignments + 1
  <2>1. 0 \in Int /\ MaxAssignments \in Int /\ ~(0 > MaxAssignments)
    BY Sizes
  <2>2. /\ IsFiniteSet(0 .. MaxAssignments)
        /\ Cardinality(0 .. MaxAssignments) = IF 0 > MaxAssignments THEN 0 ELSE MaxAssignments - 0 + 1
    BY <2>1, FS_Interval
  <2> QED BY <2>1, <2>2
<1>2. IsFiniteSet(T) /\ Cardinality(T) = Cardinality(Places) * 2 /\ Cardinality(Places) \in Nat
  <2>1. IsFiniteSet(0 .. 1) /\ Cardinality(0 .. 1) = 2
    <3>1. IsFiniteSet(0 .. 1) /\ Cardinality(0 .. 1) = IF 0 > 1 THEN 0 ELSE 1 - 0 + 1
      BY FS_Interval, 0 \in Int, 1 \in Int, Zenon
    <3> QED BY <3>1
  <2> QED BY <2>1, FS_Product, FS_CardinalityType
<1>3. Cardinality(T) < Cardinality(I)
  BY <1>1, <1>2, Sizes
<1>4. f \in [I -> T]
  <2>1. ASSUME NEW i \in I PROVE <<Place(paths[i]), FromRoot(paths[i])>> \in T
    <3>1. paths[i] \in Spellings
      OBVIOUS
    <3>2. PICK p \in Places : p = Place(paths[i])
      BY <3>1 DEF Spellings
    <3>3. FromRoot(paths[i]) = 0 \/ FromRoot(paths[i]) = 1
      BY Zenon DEF FromRoot
    <3> QED BY <3>2, <3>3
  <2> QED BY <2>1
<1>5. PICK i, j \in I : i # j /\ f[i] = f[j]
  <2> HIDE DEF f, I, T
  <2> QED BY <1>1, <1>2, <1>3, <1>4, FS_PigeonHole
<1>6. Place(paths[i]) = Place(paths[j]) /\ FromRoot(paths[i]) = FromRoot(paths[j])
  BY <1>5
<1> QED BY <1>5, <1>6, SpelledAlike

\* So the search for a path ends inside the table.
LEMMA RoomForPath ==
  ASSUME IsFiniteSet(Places), 2 * Cardinality(Places) <= MaxAssignments,
         TableSound, Distinct, NEW path \in Spellings, NEW dv \in Drive
  PROVE  NodeIndex(path, dv) \in Index
<1> DEFINE node(j) == assignments[Slot(dv, j)]
           paths == [j \in 0 .. MaxAssignments |-> IF j \in Index THEN node(j).path ELSE path]
<1> SUFFICES ASSUME NodeIndex(path, dv) \notin Index PROVE FALSE
  OBVIOUS
<1>1. NodeIndex(path, dv) = MaxAssignments
  BY NodeIndexIs, Sizes DEF Index
<1>2. \A j \in Index : node(j) # NULL /\ node(j).path # path
  BY <1>1, NodeIndexIs, Sizes DEF Index
<1>3. \A j \in Index : node(j).path \in Spellings
  <2>1. \A j \in Index : Slot(dv, j) \in Slots
    BY SlotsApart, Sizes DEF Index
  <2> QED BY <1>2, <2>1 DEF TableSound
<1>4. paths \in [0 .. MaxAssignments -> Spellings]
  BY <1>3
<1>5. PICK i, j \in 0 .. MaxAssignments : i # j /\ paths[i] = paths[j]
  <2> HIDE DEF paths
  <2> QED BY <1>4, FewSpellings
<1>6. ASSUME NEW a \in 0 .. MaxAssignments, NEW b \in 0 .. MaxAssignments, a < b
      PROVE  paths[a] # paths[b]
  <2>1. a \in Index
    BY <1>6, Sizes DEF Index
  <2>2. CASE b \in Index
    BY <1>2, <1>6, <2>1, <2>2 DEF Distinct, Index
  <2>3. CASE b \notin Index
    BY <1>2, <2>1, <2>3
  <2> QED BY <2>2, <2>3
<1>7. i < j \/ j < i
  BY <1>5, Sizes
<1> QED BY <1>5, <1>6, <1>7

\* A path that gets an element inside the table gets one that was empty, after the
\* others and with a path of its own.
LEMMA RecordFits ==
  ASSUME TableType, TablesHold, Distinct, NEW path \in Spellings, NEW dv \in Drive,
         NodeIndex(path, dv) \in Index, assignments' = get_node_by_path(path, dv)
  PROVE  TablesHold' /\ Distinct'
<1> DEFINE i == NodeIndex(path, dv)
           node == [path |-> path, clus |-> ClusMin + i]
<1>1. /\ i \in Index /\ i \in 0 .. MaxAssignments /\ Slot(dv, i) \in Slots
      /\ \/ assignments' = assignments
         \/ /\ assignments[Slot(dv, i)] = NULL
            /\ assignments' = [assignments EXCEPT ![Slot(dv, i)] = node]
  BY GetNodeIs
<1>2. \A j \in Index : j < i => /\ assignments[Slot(dv, j)] # NULL
                                /\ assignments[Slot(dv, j)].path # path
  BY NodeIndexIs
<1> HIDE DEF i
<1>3. CASE assignments' = assignments
  BY <1>3 DEF TablesHold, Distinct, Slots, Slot
<1>4. CASE /\ assignments[Slot(dv, i)] = NULL
           /\ assignments' = [assignments EXCEPT ![Slot(dv, i)] = node]
  <2>1. node.path = path /\ node.clus < ClusMin + MaxAssignments
    BY <1>1, Sizes DEF Index
  <2> HIDE DEF node
  <2>2. \A s \in Slots : assignments'[s] = IF s = Slot(dv, i) THEN node ELSE assignments[s]
    BY <1>1, <1>4 DEF TableType
  <2>3. TablesHold'
    BY <2>1, <2>2 DEF TablesHold, Slots
  <2>4. \A e \in Drive, j \in Index : Slot(e, j) \in Slots /\ (Slot(dv, i) = Slot(e, j) => dv = e /\ i = j)
    BY <1>1, SlotsApart, Sizes DEF Index
  <2>5. ASSUME NEW e \in Drive, NEW a \in Index, NEW b \in Index, a < b, assignments'[Slot(e, b)] # NULL
        PROVE  assignments'[Slot(e, a)] # NULL /\ assignments'[Slot(e, a)].path # assignments'[Slot(e, b)].path
    <3>1. CASE e = dv /\ b = i
      <4>1. assignments'[Slot(e, b)] = node /\ assignments'[Slot(e, a)] = assignments[Slot(e, a)]
        BY <2>2, <2>4, <2>5, <3>1, Sizes DEF Index
      <4> QED BY <1>2, <2>1, <2>5, <3>1, <4>1
    <3>2. CASE ~(e = dv /\ b = i)
      <4>1. assignments'[Slot(e, b)] = assignments[Slot(e, b)]
        BY <2>2, <2>4, <3>2
      <4>2. assignments[Slot(e, a)] # NULL /\ assignments[Slot(e, a)].path # assignments[Slot(e, b)].path
        BY <2>5, <4>1 DEF Distinct, Index
      <4>3. assignments'[Slot(e, a)] = assignments[Slot(e, a)]
        BY <1>4, <2>2, <2>4, <4>2
      <4> QED BY <4>1, <4>2, <4>3
    <3> QED BY <3>1, <3>2
  <2>6. Distinct'
    BY <2>5 DEF Distinct, Index, Slot
  <2> QED BY <2>3, <2>6
<1> QED BY <1>1, <1>3, <1>4

\* A table with two elements for every place of the host never runs over: vfs.c does
\* not write behind it, although it has no check.
THEOREM RoomEnough ==
  ASSUME IsFiniteSet(Places), 2 * Cardinality(Places) <= MaxAssignments
  PROVE  Spec => []TablesHold
<1> DEFINE Inv == IInv /\ TablesHold /\ Distinct
<1>1. Init => Inv
  BY InitHolds
<1>2. Inv /\ [Next]_vars => Inv'
  <2> SUFFICES ASSUME IInv, TablesHold, Distinct, [Next]_vars PROVE Inv'
    OBVIOUS
  <2>1. IInv'
    BY Preserved, Stutters
  <2>2. TableType /\ TableSound
    BY DEF IInv, OwnInv, TypeOK, TableType
  <2>3. CASE assignments' = assignments
    BY <2>1, <2>3 DEF TablesHold, Distinct, Slots, Slot
  <2>4. CASE \E dv \in Drive, path \in Spellings : assignments' = get_node_by_path(path, dv)
    <3>1. PICK dv \in Drive, path \in Spellings : assignments' = get_node_by_path(path, dv)
      BY <2>4, Zenon
    <3>2. NodeIndex(path, dv) \in Index
      BY <2>2, RoomForPath, Zenon
    <3> QED BY <2>1, <2>2, <3>1, <3>2, RecordFits, Zenon
  <2> QED BY <2>3, <2>4, StepRecords, Zenon DEF Recorded
<1>3. Inv => TablesHold
  OBVIOUS
<1> HIDE DEF Inv
<1> QED BY <1>1, <1>2, <1>3, PTL DEF Spec

\* With tables of that size what is proved above holds without a condition.
COROLLARY LargeTablesAreSafe ==
  ASSUME IsFiniteSet(Places), 2 * Cardinality(Places) <= MaxAssignments
  PROVE  Spec => /\ [](EntriesAgree /\ OnItsWay /\ StableListed)
                 /\ ClusStable /\ CurDirRestored
<1>1. Spec => []TablesHold
  BY RoomEnough
<1>2. Spec => [](TablesHold => EntriesAgree) /\ [](TablesHold => OnItsWay) /\ [](TablesHold => StableListed)
  BY EntriesLeadBack, SearchIsOnItsWay, StableIsListed
<1>3. Spec /\ []TablesHold => ClusStable /\ CurDirRestored
  BY NumbersAreForGood, TaskComesBack
<1> QED BY <1>1, <1>2, <1>3, PTL
=============================================================================
