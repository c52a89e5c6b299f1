-------------------------- MODULE RedSeaSpace_proofs --------------------------
(***************************************************************************)
(* Proofs about RedSeaSpace, for a drive of any size: the free list that   *)
(* is built is the clear bits, giving back (one run, or all those of a     *)
(* list) and allocating keep it so, and what is handed out was free.       *)
(***************************************************************************)
EXTENDS RedSeaSpace, SeqLemmas, FiniteSets, FiniteSetTheorems, TLAPS

\* The clusters of the drive are natural numbers above zero.
LEMMA ClusBounds ==
  /\ Clus \subseteq Nat
  /\ \A c : c \in Clus <=> c \in Int /\ DataArea <= c /\ c < MaxBlk
  /\ DataArea \in Nat /\ MaxBlk \in Nat /\ DataArea >= 1
  BY DriveAssumption DEF Clus

-----------------------------------------------------------------------------
(***************************************************************************)
(* RedSeaFreeLstBuild.                                                     *)
(***************************************************************************)
\* Every clear bit is in a run that is built: it begins at the lowest and ends at
\* the highest that is reached from the bit without a gap.
LEMMA BuildReaches ==
  ASSUME NEW used \in SUBSET Clus, NEW c \in Clus \ used
  PROVE  \E r \in RedSeaFreeLstBuild(used) : c \in Of(r)
<1> DEFINE clear == Clus \ used
           S == {n \in Nat : n <= c /\ n .. c \subseteq clear}
           T == {n \in Nat : c < n /\ n \notin clear}
<1>1. c \in Nat /\ c < MaxBlk /\ DataArea <= c /\ MaxBlk \in Nat /\ DataArea \in Nat
  BY ClusBounds
<1>2. c \in S
  <2>1. \A n \in c .. c : n = c BY <1>1
  <2>2. c .. c \subseteq clear BY <2>1
  <2> QED BY <1>1, <2>2
<1>3. MaxBlk \in T
  BY <1>1, ClusBounds
<1>4. PICK a \in S : \A y \in S : a <= y
  <2> HIDE DEF S
  <2>1. S \subseteq Nat BY DEF S
  <2> QED BY <1>2, <2>1, SmallestOf
<1>5. PICK b \in T : \A y \in T : b <= y
  <2> HIDE DEF T
  <2>1. T \subseteq Nat BY DEF T
  <2> QED BY <1>3, <2>1, SmallestOf
<1>6. a \in Nat /\ b \in Nat /\ a <= c /\ c < b /\ b <= MaxBlk
      /\ a .. c \subseteq clear /\ b \notin clear
  BY <1>3, <1>4, <1>5
<1> DEFINE r == [start |-> a, size |-> b - a]
<1>7. Of(r) = a .. b - 1
  <2>1. r.start + r.size - 1 = b - 1 BY <1>6
  <2> QED BY <2>1 DEF Of
<1>8. Of(r) \subseteq clear
  <2> SUFFICES ASSUME NEW x \in a .. b - 1 PROVE x \in clear
    BY <1>7
  <2>1. CASE x <= c
    <3>1. x \in a .. c BY <1>1, <1>6, <2>1
    <3> QED BY <1>6, <3>1
  <2>2. CASE c < x
    <3>1. x \in Nat /\ ~(b <= x) BY <1>1, <1>6
    <3>2. x \notin T BY <1>5, <3>1
    <3> QED BY <2>2, <3>1, <3>2
  <2> QED BY <1>1, <1>6, <2>1, <2>2
<1>9. a - 1 \notin clear
  <2> SUFFICES ASSUME a - 1 \in clear PROVE FALSE
    OBVIOUS
  <2>1. a - 1 \in Nat BY ClusBounds
  <2>2. \A x \in a - 1 .. c : x = a - 1 \/ x \in a .. c BY <1>1, <1>6
  <2>3. a - 1 .. c \subseteq clear BY <1>6, <2>2
  <2>4. a - 1 \in S BY <1>1, <1>6, <2>1, <2>3
  <2> QED BY <1>4, <1>6, <2>4
<1>10. a \in Clus
  <2>1. a \in a .. c BY <1>1, <1>6
  <2> QED BY <1>6, <2>1
<1>11. r \in Run
  <2>1. b - a \in 0 .. MaxBlk BY <1>1, <1>6
  <2> QED BY <1>10, <2>1 DEF Run
<1>12. r.start + r.size = b /\ r.size > 0
  BY <1>1, <1>6
<1>13. r \in RedSeaFreeLstBuild(used)
  BY <1>6, <1>8, <1>9, <1>10, <1>11, <1>12 DEF RedSeaFreeLstBuild, ClearRun
<1>14. c \in Of(r)
  BY <1>1, <1>6, <1>7
<1> QED BY <1>13, <1>14

\* Two runs that are built and share a bit begin and end together.
LEMMA BuildDisjoint ==
  ASSUME NEW used \in SUBSET Clus,
         NEW r \in RedSeaFreeLstBuild(used), NEW q \in RedSeaFreeLstBuild(used),
         ~Disjoint(r, q)
  PROVE  r = q
<1> DEFINE clear == Clus \ used
<1>1. \A p \in RedSeaFreeLstBuild(used) :
        /\ p \in Run /\ p.start \in Int /\ p.size \in Int /\ p.size > 0
        /\ Of(p) \subseteq clear /\ p.start - 1 \notin clear /\ p.start + p.size \notin clear
  BY ClusBounds DEF RedSeaFreeLstBuild, ClearRun, Run, INVALID_CLUS
<1>2. PICK x : x \in Of(r) /\ x \in Of(q)
  BY DEF Disjoint
<1>3. r.start = q.start
  <2>1. CASE r.start < q.start
    <3>1. q.start - 1 \in Of(r) BY <1>1, <1>2, <2>1 DEF Of
    <3> QED BY <1>1, <3>1
  <2>2. CASE q.start < r.start
    <3>1. r.start - 1 \in Of(q) BY <1>1, <1>2, <2>2 DEF Of
    <3> QED BY <1>1, <3>1
  <2> QED BY <1>1, <2>1, <2>2
<1>4. r.size = q.size
  <2>1. CASE r.size < q.size
    <3>1. r.start + r.size \in Of(q) BY <1>1, <1>3, <2>1 DEF Of
    <3> QED BY <1>1, <3>1
  <2>2. CASE q.size < r.size
    <3>1. q.start + q.size \in Of(r) BY <1>1, <1>3, <2>2 DEF Of
    <3> QED BY <1>1, <3>1
  <2> QED BY <1>1, <2>1, <2>2
<1> QED BY <1>1, <1>3, <1>4 DEF Run

\* The list that is built has the clear bits, each in one run.
THEOREM BuildIsClear ==
  ASSUME NEW used \in SUBSET Clus
  PROVE  /\ RedSeaFreeLstBuild(used) \subseteq Run
         /\ UNION {Of(r) : r \in RedSeaFreeLstBuild(used)} = Clus \ used
         /\ \A r, q \in RedSeaFreeLstBuild(used) : r = q \/ Disjoint(r, q)
<1>1. \A r \in RedSeaFreeLstBuild(used) : r \in Run /\ Of(r) \subseteq Clus \ used
  BY DEF RedSeaFreeLstBuild, ClearRun
<1>2. \A c \in Clus \ used : \E r \in RedSeaFreeLstBuild(used) : c \in Of(r)
  BY BuildReaches
<1>3. \A r, q \in RedSeaFreeLstBuild(used) : r = q \/ Disjoint(r, q)
  BY BuildDisjoint
<1>4. UNION {Of(r) : r \in RedSeaFreeLstBuild(used)} = Clus \ used
  BY <1>1, <1>2
<1> QED BY <1>1, <1>3, <1>4

-----------------------------------------------------------------------------
(***************************************************************************)
(* Giving back and allocating.                                             *)
(***************************************************************************)
SpaceType == [used : SUBSET Clus, built : BOOLEAN, free : SUBSET Run]

LEMMA RunTypes ==
  ASSUME NEW r \in Run
  PROVE  /\ r.start \in Int /\ r.size \in Int /\ r.size >= 0 /\ r.size <= MaxBlk
         /\ r = [start |-> r.start, size |-> r.size]
         /\ \A x : x \in Of(r) <=> x \in Int /\ r.start <= x /\ x < r.start + r.size
<1>1. r.start \in Int /\ r.size \in Int /\ r.size >= 0 /\ r.size <= MaxBlk
  BY ClusBounds DEF Run, INVALID_CLUS
<1>2. r = [start |-> r.start, size |-> r.size]
  BY DEF Run
<1>3. \A x : x \in Of(r) <=> x \in Int /\ r.start <= x /\ x < r.start + r.size
  BY <1>1 DEF Of
<1> QED BY <1>1, <1>2, <1>3

\* A drive whose list is up to date and clear.
LEMMA ListedIsClear ==
  ASSUME NEW sp \in SpaceType, ListIsClear(sp)
  PROVE  /\ Listed(sp) \in SpaceType /\ Listed(sp).built /\ Listed(sp).used = sp.used
         /\ UNION {Of(r) : r \in Listed(sp).free} = Clus \ sp.used
         /\ \A r, q \in Listed(sp).free : r = q \/ Disjoint(r, q)
<1>1. CASE sp.built
  BY <1>1 DEF Listed, ListIsClear
<1>2. CASE ~sp.built
  <2> DEFINE b == RedSeaFreeLstBuild(sp.used)
  <2>1. sp.used \in SUBSET Clus BY DEF SpaceType
  <2>2. /\ b \subseteq Run /\ UNION {Of(r) : r \in b} = Clus \ sp.used
        /\ \A r, q \in b : r = q \/ Disjoint(r, q)
    BY <2>1, BuildIsClear
  <2> HIDE DEF b
  <2>3. Listed(sp) = [sp EXCEPT !.built = TRUE, !.free = b]
    BY <1>2 DEF Listed, b
  <2>4. /\ Listed(sp) \in SpaceType /\ Listed(sp).built /\ Listed(sp).used = sp.used
        /\ Listed(sp).free = b
    BY <2>2, <2>3 DEF SpaceType
  <2> QED BY <2>2, <2>4
<1> QED BY <1>1, <1>2

\* A list that has the clear bits, each in one run.
ClearList(free, used) ==
  /\ free \subseteq Run
  /\ UNION {Of(q) : q \in free} = Clus \ used
  /\ \A p, q \in free : p = q \/ Disjoint(p, q)

\* Where a run of the list is replaced by one with the same bits and those of a
\* run that was in use, the list has them too.
LEMMA JoinedIsClear ==
  ASSUME NEW free, NEW used \in SUBSET Clus, NEW run \in Run,
         ClearList(free, used), Of(run) \subseteq used,
         NEW r \in free, NEW j \in Run, Of(j) = Of(r) \cup Of(run),
         NEW f, f = (free \ {r}) \cup {j}
  PROVE  ClearList(f, used \ Of(run))
<1>0. /\ free \subseteq Run /\ UNION {Of(q) : q \in free} = Clus \ used
      /\ \A p, q \in free : p = q \/ Disjoint(p, q)
  BY DEF ClearList
<1>1. \A q \in free : Of(q) \subseteq Clus \ used
  BY <1>0
<1>2. \A q \in free \ {r} : Of(q) \cap Of(j) = {}
  <2> SUFFICES ASSUME NEW q \in free \ {r} PROVE Of(q) \cap Of(j) = {}
    OBVIOUS
  <2>1. Of(q) \cap Of(r) = {} BY <1>0 DEF Disjoint
  <2>2. Of(q) \cap Of(run) = {} BY <1>1
  <2> QED BY <2>1, <2>2
<1>3. \A p, q \in f : p = q \/ Disjoint(p, q)
  BY <1>0, <1>2 DEF Disjoint
<1>4. UNION {Of(q) : q \in f} \subseteq Clus \ (used \ Of(run))
  BY <1>1
<1>5. Clus \ (used \ Of(run)) \subseteq UNION {Of(q) : q \in f}
  <2> SUFFICES ASSUME NEW c \in Clus \ (used \ Of(run)) PROVE \E q \in f : c \in Of(q)
    OBVIOUS
  <2>1. CASE c \in Of(run) BY <2>1
  <2>2. CASE c \notin Of(run)
    <3>1. PICK q \in free : c \in Of(q) BY <1>0, <2>2
    <3> QED BY <3>1
  <2> QED BY <2>1, <2>2
<1>6. f \subseteq Run
  BY <1>0
<1> QED BY <1>3, <1>4, <1>5, <1>6 DEF ClearList

\* Two runs that adjoin make one.
LEMMA Adjoin ==
  ASSUME NEW r \in Run, NEW q \in Run, r.start + r.size = q.start,
         Of(r) \subseteq Clus, Of(q) \subseteq Clus
  PROVE  Join(r, q) \in Run /\ Of(Join(r, q)) = Of(r) \cup Of(q)
<1> DEFINE j == [start |-> r.start, size |-> r.size + q.size]
<1>1. /\ r.start \in Int /\ r.size \in Nat /\ q.start \in Int /\ q.size \in Nat
      /\ r.size <= MaxBlk /\ q.size <= MaxBlk
  BY RunTypes
<1>2. MaxBlk \in Nat /\ DataArea \in Nat
  BY ClusBounds
<1>3. r.size + q.size <= MaxBlk
  <2>1. CASE r.size = 0 \/ q.size = 0 BY <1>1, <1>2, <2>1
  <2>2. CASE r.size > 0 /\ q.size > 0
    <3>1. r.start \in Of(r) /\ q.start + q.size - 1 \in Of(q)
      BY <1>1, <2>2, RunTypes
    <3>2. DataArea <= r.start /\ q.start + q.size - 1 < MaxBlk
      BY <3>1, ClusBounds
    <3> QED BY <1>1, <1>2, <3>2
  <2> QED BY <1>1, <2>1, <2>2
<1>4. j \in Run
  <2>1. r.start \in Clus \cup {INVALID_CLUS} BY DEF Run
  <2>2. r.size + q.size \in 0 .. MaxBlk BY <1>1, <1>2, <1>3
  <2> QED BY <2>1, <2>2 DEF Run
<1>5. \A x : x \in Of(j) <=> x \in Int /\ r.start <= x /\ x < r.start + r.size + q.size
  BY <1>1, <1>4, RunTypes
<1>6. \A x : x \in Of(j) <=> x \in Of(r) \/ x \in Of(q)
  BY <1>1, <1>5, RunTypes
<1> QED BY <1>4, <1>6 DEF Join

\* What is given back is clear, and the list has it.
THEOREM FreeClusKeeps ==
  ASSUME NEW sp \in SpaceType, ListIsClear(sp), NEW run \in Run, Of(run) \subseteq sp.used,
         NEW s \in RedSeaFreeClus(sp, run)
  PROVE  s \in SpaceType /\ ListIsClear(s) /\ s.used = sp.used \ Of(run)
<1> DEFINE l == Listed(sp)
<1>1. /\ l \in SpaceType /\ l.built /\ l.used = sp.used
      /\ UNION {Of(r) : r \in l.free} = Clus \ sp.used
      /\ \A r, q \in l.free : r = q \/ Disjoint(r, q)
  BY ListedIsClear
<1>2. l.free \in SUBSET Run /\ sp.used \in SUBSET Clus
  BY <1>1 DEF SpaceType
<1>3. \A r \in l.free : Of(r) \subseteq Clus
  BY <1>1
<1>4. PICK f \in Added(l, run) : s = [l EXCEPT !.used = @ \ Of(run), !.free = f]
  BY DEF RedSeaFreeClus
<1> HIDE DEF l
<1>5. ClearList(f, sp.used \ Of(run))
  <2>1. CASE \E r \in Before(l, run) : f = (l.free \ {r}) \cup {Join(r, run)}
    <3>1. PICK r \in l.free : /\ r.start + r.size = run.start
                              /\ f = (l.free \ {r}) \cup {Join(r, run)}
      BY <2>1 DEF Before
    <3>2. r \in Run /\ Of(r) \subseteq Clus /\ Of(run) \subseteq Clus
      BY <1>2, <1>3
    <3>3. Join(r, run) \in Run /\ Of(Join(r, run)) = Of(r) \cup Of(run)
      BY <3>1, <3>2, Adjoin
    <3>4. ClearList(l.free, sp.used) BY <1>1, <1>2 DEF ClearList
    <3> QED BY <1>2, <3>1, <3>3, <3>4, JoinedIsClear
  <2>2. CASE \E r \in After(l, run) : f = (l.free \ {r}) \cup {Join(run, r)}
    <3>1. PICK r \in l.free : /\ r.start = run.start + run.size
                              /\ f = (l.free \ {r}) \cup {Join(run, r)}
      BY <2>2 DEF After
    <3>2. r \in Run /\ Of(r) \subseteq Clus /\ Of(run) \subseteq Clus
      BY <1>2, <1>3
    <3>3. Join(run, r) \in Run /\ Of(Join(run, r)) = Of(r) \cup Of(run)
      BY <3>1, <3>2, Adjoin
    <3>4. ClearList(l.free, sp.used) BY <1>1, <1>2 DEF ClearList
    <3> QED BY <1>2, <3>1, <3>3, <3>4, JoinedIsClear
  <2>3. CASE f = l.free \cup {run}
    <3>1. \A q \in l.free : Of(q) \cap Of(run) = {} BY <1>1
    <3>2. \A p, q \in f : p = q \/ Disjoint(p, q)
      BY <1>1, <2>3, <3>1 DEF Disjoint
    <3>3. \A c \in Clus \ (sp.used \ Of(run)) : \E q \in f : c \in Of(q)
      BY <1>1, <2>3
    <3>4. \A q \in f : Of(q) \subseteq Clus \ (sp.used \ Of(run))
      BY <1>1, <1>2, <2>3
    <3>5. f \subseteq Run BY <1>2, <2>3
    <3> QED BY <3>2, <3>3, <3>4, <3>5 DEF ClearList
  <2> QED BY <1>4, <2>1, <2>2, <2>3 DEF Added
<1>6. s \in SpaceType /\ s.used = sp.used \ Of(run) /\ s.free = f
  BY <1>1, <1>4, <1>5 DEF SpaceType, ClearList
<1> QED BY <1>5, <1>6 DEF ListIsClear, ClearList

\* What is allocated was clear, is as long as was asked for, and the list has the
\* rest.
THEOREM AllocClusKeeps ==
  ASSUME NEW sp \in SpaceType, ListIsClear(sp), NEW cnt \in Nat \ {0},
         NEW res \in RedSeaAllocClus(sp, cnt)
  PROVE  LET run == [start |-> res.first, size |-> cnt]
         IN  /\ run \in Run /\ Of(run) \subseteq Clus \ sp.used
             /\ res.space \in SpaceType /\ ListIsClear(res.space)
             /\ res.space.used = sp.used \cup Of(run)
<1> DEFINE l == Listed(sp)
<1>1. /\ l \in SpaceType /\ l.built /\ l.used = sp.used
      /\ UNION {Of(r) : r \in l.free} = Clus \ sp.used
      /\ \A r, q \in l.free : r = q \/ Disjoint(r, q)
  BY ListedIsClear
<1>2. l.free \in SUBSET Run /\ sp.used \in SUBSET Clus
  BY <1>1 DEF SpaceType
<1>3. PICK r \in l.free : /\ r.size >= cnt
                          /\ res = [space |-> Taken(l, r, cnt), first |-> r.start]
  BY DEF RedSeaAllocClus, Best, Fits
<1> HIDE DEF l
<1> DEFINE run == [start |-> r.start, size |-> cnt]
           rest == Rest(r, cnt)
           f == (l.free \ {r}) \cup IF r.size = cnt THEN {} ELSE {rest}
<1>4. r \in Run /\ r.start \in Int /\ r.size \in Int /\ r.size <= MaxBlk /\ MaxBlk \in Nat
  BY <1>2, ClusBounds, RunTypes
<1>5. run \in Run
  <2>1. r.start \in Clus \cup {INVALID_CLUS} BY <1>4 DEF Run
  <2>2. cnt \in 0 .. MaxBlk BY <1>3, <1>4
  <2> QED BY <2>1, <2>2 DEF Run
<1>6. \A x : x \in Of(run) <=> x \in Int /\ r.start <= x /\ x < r.start + cnt
  BY <1>4, <1>5, RunTypes
<1>7. Of(run) \subseteq Of(r)
  BY <1>3, <1>4, <1>6, RunTypes
<1>8. Of(r) \subseteq Clus \ sp.used
  BY <1>1
<1>9. r.start .. r.start + cnt - 1 = Of(run)
  BY DEF Of
<1>10. r.size # cnt => rest \in Run /\ Of(rest) = Of(r) \ Of(run)
  <2> SUFFICES ASSUME r.size # cnt PROVE rest \in Run /\ Of(rest) = Of(r) \ Of(run)
    OBVIOUS
  <2>1. r.start + cnt \in Of(r) BY <1>3, <1>4, RunTypes
  <2>2. r.start + cnt \in Clus BY <1>8, <2>1
  <2>3. r.size - cnt \in 0 .. MaxBlk BY <1>3, <1>4
  <2>4. rest \in Run BY <2>2, <2>3 DEF Run, Rest
  <2>5. \A x : x \in Of(rest) <=> x \in Int /\ r.start + cnt <= x /\ x < r.start + cnt + (r.size - cnt)
    BY <2>4, RunTypes DEF Rest
  <2>6. \A x : x \in Of(rest) <=> x \in Of(r) /\ x \notin Of(run)
    BY <1>3, <1>4, <1>6, <2>5, RunTypes
  <2> QED BY <2>4, <2>6
<1>11. r.size = cnt => Of(r) = Of(run)
  <2>1. r.size = cnt => r = run BY <1>4, RunTypes
  <2> QED BY <2>1
<1>12. f \subseteq Run
  BY <1>2, <1>10
<1> HIDE DEF run, rest
<1>13. \A p, q \in f : p = q \/ Disjoint(p, q)
  <2>1. \A q \in l.free \ {r} : Of(q) \cap Of(r) = {} BY <1>1 DEF Disjoint
  <2>2. r.size # cnt => \A q \in l.free \ {r} : Of(q) \cap Of(rest) = {} BY <1>10, <2>1
  <2> QED BY <1>1, <2>2 DEF Disjoint
<1>14. \A c \in Clus \ (sp.used \cup Of(run)) : \E q \in f : c \in Of(q)
  <2> SUFFICES ASSUME NEW c \in Clus \ (sp.used \cup Of(run)) PROVE \E q \in f : c \in Of(q)
    OBVIOUS
  <2>1. PICK q \in l.free : c \in Of(q) BY <1>1
  <2>2. CASE q # r BY <2>1, <2>2
  <2>3. CASE q = r
    <3>1. r.size # cnt BY <1>11, <2>1, <2>3
    <3>2. c \in Of(rest) BY <1>10, <2>1, <2>3, <3>1
    <3> QED BY <3>1, <3>2
  <2> QED BY <2>2, <2>3
<1>15. \A q \in f : Of(q) \subseteq Clus \ (sp.used \cup Of(run))
  <2> SUFFICES ASSUME NEW q \in f PROVE Of(q) \subseteq Clus \ (sp.used \cup Of(run))
    OBVIOUS
  <2>1. CASE q \in l.free \ {r}
    <3>1. Of(q) \cap Of(r) = {} BY <1>1, <2>1 DEF Disjoint
    <3>2. Of(q) \subseteq Clus \ sp.used BY <1>1, <2>1
    <3> QED BY <1>7, <3>1, <3>2
  <2>2. CASE r.size # cnt /\ q = rest
    BY <1>8, <1>10, <2>2
  <2> QED BY <2>1, <2>2
<1> HIDE DEF f
<1>16. UNION {Of(q) : q \in f} = Clus \ (sp.used \cup Of(run))
  BY <1>14, <1>15
<1>17. res.first = r.start /\ res.space = [l EXCEPT !.used = @ \cup Of(run), !.free = f]
  BY <1>3, <1>9 DEF Taken, f, rest
<1>18. /\ res.space \in SpaceType /\ res.space.used = sp.used \cup Of(run)
       /\ res.space.free = f
  <2>1. Of(run) \subseteq Clus BY <1>7, <1>8
  <2> QED BY ZenonT(60), <1>1, <1>2, <1>12, <1>17, <2>1 DEF SpaceType
<1>19. ListIsClear(res.space)
  BY <1>13, <1>16, <1>18 DEF ListIsClear
<1>20. run = [start |-> res.first, size |-> cnt]
  BY <1>17 DEF run
<1> QED BY <1>5, <1>7, <1>8, <1>18, <1>19, <1>20

-----------------------------------------------------------------------------
(***************************************************************************)
(* Giving back one after the other.                                        *)
(***************************************************************************)
\* What is left of a run that goes back after those before it.
FreedLast(freed, rs, run) == UNION {RedSeaFreeClus(x, run) : x \in freed[rs \ {run}]}
FreedStep(sp, freed, rs) ==
  IF rs = {} THEN {sp} ELSE UNION {FreedLast(freed, rs, run) : run \in rs}
UpTo(runs, n) == {rs \in SUBSET runs : Cardinality(rs) <= n}

LEMMA SmallerSet ==
  ASSUME NEW runs, IsFiniteSet(runs), NEW rs \in SUBSET runs
  PROVE  /\ IsFiniteSet(rs) /\ Cardinality(rs) \in Nat
         /\ \A run \in rs : Cardinality(rs \ {run}) = Cardinality(rs) - 1 /\ Cardinality(rs) >= 1
         /\ Cardinality(rs) <= Cardinality(runs)
<1>1. IsFiniteSet(rs) /\ Cardinality(rs) <= Cardinality(runs)
  BY FS_Subset
<1>2. Cardinality(rs) \in Nat
  BY <1>1, FS_CardinalityType
<1>3. ASSUME NEW run \in rs
      PROVE  Cardinality(rs \ {run}) = Cardinality(rs) - 1 /\ Cardinality(rs) >= 1
  <2>1. Cardinality(rs \ {run}) = Cardinality(rs) - 1
    BY <1>1, FS_RemoveElement
  <2>2. IsFiniteSet(rs \ {run}) /\ Cardinality(rs \ {run}) \in Nat
    BY <1>1, FS_RemoveElement, FS_CardinalityType
  <2> QED BY <1>2, <2>1, <2>2
<1> QED BY <1>1, <1>2, <1>3

\* The recursion is well founded: it is defined for one more run at a time.
LEMMA FreedUpTo ==
  ASSUME NEW sp, NEW runs, IsFiniteSet(runs), NEW n \in Nat
  PROVE  \E freed : freed = [rs \in UpTo(runs, n) |-> FreedStep(sp, freed, rs)]
<1> DEFINE Is(m) == \E freed : freed = [rs \in UpTo(runs, m) |-> FreedStep(sp, freed, rs)]
           T == {m \in Nat : ~Is(m)}
<1>1. Is(0)
  <2> DEFINE f == [rs \in UpTo(runs, 0) |-> {sp}]
  <2>1. \A rs \in UpTo(runs, 0) : rs = {}
    <3> SUFFICES ASSUME NEW rs \in UpTo(runs, 0) PROVE rs = {}
      OBVIOUS
    <3>1. rs \in SUBSET runs /\ Cardinality(rs) <= 0
      BY DEF UpTo
    <3>2. IsFiniteSet(rs) /\ Cardinality(rs) \in Nat
      BY <3>1, SmallerSet
    <3> QED BY <3>1, <3>2, FS_EmptySet
  <2>2. \A rs \in UpTo(runs, 0) : FreedStep(sp, f, rs) = {sp}
    BY <2>1 DEF FreedStep
  <2>3. f = [rs \in UpTo(runs, 0) |-> FreedStep(sp, f, rs)]
    BY <2>2
  <2> QED BY <2>3
<1>2. ASSUME NEW m \in Nat, Is(m) PROVE Is(m + 1)
  <2>1. PICK g : g = [rs \in UpTo(runs, m) |-> FreedStep(sp, g, rs)]
    BY <1>2
  <2> DEFINE f == [rs \in UpTo(runs, m + 1) |-> FreedStep(sp, g, rs)]
  <2>2. \A rs \in UpTo(runs, m) : rs \in UpTo(runs, m + 1)
    <3> SUFFICES ASSUME NEW rs \in UpTo(runs, m) PROVE rs \in UpTo(runs, m + 1)
      OBVIOUS
    <3>1. rs \in SUBSET runs /\ Cardinality(rs) <= m
      BY DEF UpTo
    <3>2. Cardinality(rs) \in Nat
      BY <3>1, SmallerSet
    <3> QED BY <3>1, <3>2 DEF UpTo
  <2>3. \A rs \in UpTo(runs, m) : f[rs] = g[rs]
    BY <2>1, <2>2
  <2>4. \A rs \in UpTo(runs, m + 1) : \A run \in rs : rs \ {run} \in UpTo(runs, m)
    <3> SUFFICES ASSUME NEW rs \in UpTo(runs, m + 1), NEW run \in rs
                 PROVE  rs \ {run} \in UpTo(runs, m)
      OBVIOUS
    <3>1. rs \in SUBSET runs /\ Cardinality(rs) <= m + 1
      BY DEF UpTo
    <3>2. Cardinality(rs) \in Nat /\ Cardinality(rs \ {run}) = Cardinality(rs) - 1
      BY <3>1, SmallerSet
    <3> QED BY <3>1, <3>2 DEF UpTo
  <2> HIDE DEF f
  <2>5. \A rs \in UpTo(runs, m + 1) : FreedStep(sp, f, rs) = FreedStep(sp, g, rs)
    <3> SUFFICES ASSUME NEW rs \in UpTo(runs, m + 1)
                 PROVE  FreedStep(sp, f, rs) = FreedStep(sp, g, rs)
      OBVIOUS
    <3>1. \A run \in rs : f[rs \ {run}] = g[rs \ {run}]
      BY <2>3, <2>4
    <3>2. \A run \in rs : FreedLast(f, rs, run) = FreedLast(g, rs, run)
      BY <3>1 DEF FreedLast
    <3> QED BY <3>2 DEF FreedStep
  <2>6. f = [rs \in UpTo(runs, m + 1) |-> FreedStep(sp, f, rs)]
    BY <2>5 DEF f
  <2> QED BY <2>6
<1> HIDE DEF Is
<1>3. T = {}
  <2> SUFFICES ASSUME T # {} PROVE FALSE
    OBVIOUS
  <2>1. PICK m \in T : \A y \in T : m <= y
    BY SmallestOf
  <2>2. m # 0 /\ m \in Nat /\ ~Is(m)
    BY <1>1, <2>1
  <2>3. m - 1 \in Nat /\ ~(m <= m - 1) /\ m = (m - 1) + 1
    BY <2>2
  <2>4. m - 1 \notin T
    BY <2>1, <2>3
  <2>5. Is(m - 1)
    BY <2>3, <2>4
  <2>6. Is((m - 1) + 1)
    BY <1>2, <2>3, <2>5
  <2> QED BY <2>2, <2>3, <2>6
<1>4. Is(n)
  BY <1>3
<1> QED BY <1>4 DEF Is

LEMMA FreedAllIs ==
  ASSUME NEW sp, NEW runs, IsFiniteSet(runs)
  PROVE  \E freed : /\ freed = [rs \in SUBSET runs |-> FreedStep(sp, freed, rs)]
                    /\ FreedAll(sp, runs) = freed[runs]
<1> DEFINE n == Cardinality(runs)
<1>1. n \in Nat
  BY FS_CardinalityType
<1>2. UpTo(runs, n) = SUBSET runs
  BY SmallerSet DEF UpTo
<1> HIDE DEF n
<1>3. \E freed : freed = [rs \in SUBSET runs |-> FreedStep(sp, freed, rs)]
  <2>1. PICK freed : freed = [rs \in UpTo(runs, n) |-> FreedStep(sp, freed, rs)]
    BY <1>1, FreedUpTo
  <2> QED BY <1>2, <2>1
<1> DEFINE Is(freed) == freed = [rs \in SUBSET runs |-> FreedStep(sp, freed, rs)]
           F == CHOOSE freed : Is(freed)
<1>4. Is(F)
  BY <1>3
<1>5. FreedAll(sp, runs) = F[runs]
  BY DEF FreedAll, FreedStep, FreedLast
<1> QED BY <1>4, <1>5

LEMMA FreedFew ==
  ASSUME NEW sp, NEW run
  PROVE  FreedAll(sp, {}) = {sp} /\ FreedAll(sp, {run}) = RedSeaFreeClus(sp, run)
<1>1. FreedAll(sp, {}) = {sp}
  <2>1. IsFiniteSet({}) BY FS_EmptySet
  <2>2. PICK freed : /\ freed = [rs \in SUBSET {} |-> FreedStep(sp, freed, rs)]
                     /\ FreedAll(sp, {}) = freed[{}]
    BY <2>1, FreedAllIs
  <2>3. freed[{}] = FreedStep(sp, freed, {})
    BY <2>2
  <2> QED BY <2>2, <2>3 DEF FreedStep
<1>2. FreedAll(sp, {run}) = RedSeaFreeClus(sp, run)
  <2>1. IsFiniteSet({run}) BY FS_Singleton
  <2>2. PICK freed : /\ freed = [rs \in SUBSET {run} |-> FreedStep(sp, freed, rs)]
                     /\ FreedAll(sp, {run}) = freed[{run}]
    BY <2>1, FreedAllIs
  <2>3. freed[{}] = FreedStep(sp, freed, {}) /\ freed[{run}] = FreedStep(sp, freed, {run})
    BY <2>2
  <2>4. freed[{}] = {sp}
    BY <2>3 DEF FreedStep
  <2>5. {run} # {} /\ {run} \ {run} = {}
    OBVIOUS
  <2>6. freed[{run}] = FreedLast(freed, {run}, run)
    BY <2>3, <2>5 DEF FreedStep
  <2>7. FreedLast(freed, {run}, run) = UNION {RedSeaFreeClus(x, run) : x \in {sp}}
    BY <2>4, <2>5 DEF FreedLast
  <2> QED BY <2>2, <2>6, <2>7
<1> QED BY <1>1, <1>2

\* Runs that are in use, and apart, are clear when all have been given back.
THEOREM FreedAllKeeps ==
  ASSUME NEW sp \in SpaceType, ListIsClear(sp), NEW runs \in SUBSET Run, IsFiniteSet(runs),
         \A r \in runs : Of(r) \subseteq sp.used, \A r, q \in runs : r = q \/ Disjoint(r, q),
         NEW s \in FreedAll(sp, runs)
  PROVE  s \in SpaceType /\ ListIsClear(s) /\ s.used = sp.used \ UNION {Of(r) : r \in runs}
<1>1. PICK freed : /\ freed = [rs \in SUBSET runs |-> FreedStep(sp, freed, rs)]
                   /\ FreedAll(sp, runs) = freed[runs]
  BY FreedAllIs
<1> DEFINE Kept(x, rs) ==
             x \in SpaceType /\ ListIsClear(x) /\ x.used = sp.used \ UNION {Of(r) : r \in rs}
           T == {m \in Nat : \E rs \in SUBSET runs :
                               Cardinality(rs) = m /\ \E x \in freed[rs] : ~Kept(x, rs)}
<1>2. \A rs \in SUBSET runs : freed[rs] = FreedStep(sp, freed, rs)
  BY <1>1
<1>3. T = {}
  <2> SUFFICES ASSUME T # {} PROVE FALSE
    OBVIOUS
  <2>1. PICK m \in T : \A y \in T : m <= y
    <3> HIDE DEF T
    <3>1. T \subseteq Nat BY DEF T
    <3> QED BY <3>1, SmallestOf
  <2>2. PICK rs \in SUBSET runs : Cardinality(rs) = m /\ \E x \in freed[rs] : ~Kept(x, rs)
    BY <2>1
  <2>3. PICK x \in freed[rs] : ~Kept(x, rs)
    BY <2>2
  <2>4. CASE rs = {}
    <3>1. x = sp
      BY <1>2, <2>3, <2>4 DEF FreedStep
    <3> QED BY <2>3, <2>4, <3>1
  <2>5. CASE rs # {}
    <3>0. PICK run \in rs : x \in FreedLast(freed, rs, run)
      <4>1. freed[rs] = UNION {FreedLast(freed, rs, run) : run \in rs}
        BY <1>2, <2>5 DEF FreedStep
      <4> QED BY <2>3, <4>1
    <3>1. PICK y \in freed[rs \ {run}] : x \in RedSeaFreeClus(y, run)
      BY <3>0 DEF FreedLast
    <3> DEFINE q == rs \ {run}
    <3>2. q \in SUBSET runs /\ Cardinality(q) \in Nat /\ m \in Nat /\ ~(m <= Cardinality(q))
      <4>1. Cardinality(q) = Cardinality(rs) - 1
        BY SmallerSet
      <4>2. Cardinality(q) \in Nat /\ Cardinality(rs) \in Nat
        BY SmallerSet
      <4> QED BY <2>2, <4>1, <4>2
    <3> HIDE DEF q
    <3>3. Kept(y, q)
      <4> HIDE DEF Kept
      <4>1. Cardinality(q) \notin T
        BY <2>1, <3>2
      <4> QED BY <3>1, <3>2, <4>1 DEF q
    <3>4. run \in Run /\ Of(run) \subseteq sp.used /\ \A r \in q : Of(r) \cap Of(run) = {}
      BY DEF q, Disjoint
    <3>5. Of(run) \subseteq y.used
      BY <3>3, <3>4
    <3>6. x \in SpaceType /\ ListIsClear(x) /\ x.used = y.used \ Of(run)
      BY <3>1, <3>3, <3>4, <3>5, FreeClusKeeps
    <3>7. x.used = sp.used \ UNION {Of(r) : r \in rs}
      <4>1. rs = q \cup {run}
        BY DEF q
      <4> QED BY <3>3, <3>6, <4>1
    <3> QED BY <2>3, <3>6, <3>7
  <2> QED BY <2>4, <2>5
<1>4. Kept(s, runs)
  <2> HIDE DEF Kept
  <2>1. Cardinality(runs) \in Nat /\ Cardinality(runs) \notin T
    BY <1>3, FS_CardinalityType
  <2> QED BY <1>1, <2>1
<1> QED BY <1>4

-----------------------------------------------------------------------------
(***************************************************************************)
(* The drive and its client.                                               *)
(***************************************************************************)
SoundOf(x) == Types(x) /\ UsedIsHeld(x) /\ ListIsClear(x.space)

LEMMA RunsFinite == IsFiniteSet(Run)
<1> DEFINE A == Clus \cup {INVALID_CLUS}
           B == 0 .. MaxBlk
           f == [r \in Run |-> <<r.start, r.size>>]
<1>1. IsFiniteSet(Clus) /\ IsFiniteSet(B)
  BY ClusBounds, FS_Interval DEF Clus
<1>2. IsFiniteSet(A)
  BY <1>1, FS_AddElement
<1> HIDE DEF A, B
<1>3. IsFiniteSet(A \X B)
  BY <1>1, <1>2, FS_Product
<1>4. f \in Injection(Run, A \X B)
  <2>1. \A r \in Run : r.start \in A /\ r.size \in B /\ r = [start |-> r.start, size |-> r.size]
    BY DEF Run, A, B
  <2>2. f \in [Run -> A \X B]
    BY <2>1
  <2>3. \A r, q \in Run : f[r] = f[q] => r = q
    <3> SUFFICES ASSUME NEW r \in Run, NEW q \in Run, f[r] = f[q] PROVE r = q
      OBVIOUS
    <3>1. <<r.start, r.size>> = <<q.start, q.size>>
      OBVIOUS
    <3>2. r.start = q.start /\ r.size = q.size
      BY <3>1
    <3> QED BY <2>1, <3>2
  <2> QED BY <2>2, <2>3 DEF Injection, IsInjective
<1> QED BY <1>3, <1>4, FS_Injection

LEMMA EmptyIsEmpty == EmptyRun \in Run /\ Of(EmptyRun) = {}
<1>1. EmptyRun \in Run BY ClusBounds DEF Run, EmptyRun
<1>2. EmptyRun.start = -1 /\ EmptyRun.size = 0 BY DEF EmptyRun, INVALID_CLUS
<1>3. \A z : z \notin Of(EmptyRun) BY <1>1, <1>2, RunTypes
<1> QED BY <1>1, <1>3

LEMMA ReleaseKeeps ==
  ASSUME NEW x, SoundOf(x), NEW runs \in SUBSET (x.held \cup {EmptyRun}),
         NEW s \in FreedAll(x.space, runs),
         NEW y, y = [space |-> s, held |-> x.held \ runs]
  PROVE  SoundOf(y)
<1>1. /\ x.space \in SpaceType /\ x.held \subseteq Run /\ ListIsClear(x.space)
      /\ x.space.used = {DataArea} \cup UNION {Of(r) : r \in x.held}
      /\ \A r \in x.held : DataArea \notin Of(r) /\ \A q \in x.held : r = q \/ Disjoint(r, q)
  BY DEF SoundOf, Types, UsedIsHeld, SpaceType
<1>2. /\ runs \in SUBSET Run /\ IsFiniteSet(runs)
      /\ \A r \in runs : Of(r) \subseteq x.space.used
      /\ \A r, q \in x.held \cup runs : r = q \/ Disjoint(r, q)
  <2>1. runs \in SUBSET Run /\ \A r \in runs : Of(r) \subseteq x.space.used
    BY <1>1, EmptyIsEmpty
  <2>2. \A r, q \in x.held \cup runs : r = q \/ Disjoint(r, q)
    BY <1>1, EmptyIsEmpty DEF Disjoint
  <2>3. IsFiniteSet(runs)
    BY <2>1, RunsFinite, FS_Subset
  <2> QED BY <2>1, <2>2, <2>3
<1>3. s \in SpaceType /\ ListIsClear(s) /\ s.used = x.space.used \ UNION {Of(r) : r \in runs}
  BY <1>1, <1>2, FreedAllKeeps
<1>4. \A q \in x.held \ runs : \A r \in runs : Of(q) \cap Of(r) = {}
  BY <1>2 DEF Disjoint
<1>5. \A r \in runs : DataArea \notin Of(r)
  BY <1>1, EmptyIsEmpty
<1>6. s.used = {DataArea} \cup UNION {Of(r) : r \in x.held \ runs}
  <2>1. \A c \in s.used : c = DataArea \/ \E r \in x.held \ runs : c \in Of(r)
    BY <1>1, <1>3
  <2>2. \A r \in x.held \ runs : Of(r) \subseteq s.used
    BY <1>1, <1>3, <1>4
  <2>3. DataArea \in s.used
    <3>1. DataArea \notin UNION {Of(r) : r \in runs}
      BY <1>5
    <3> QED BY <1>1, <1>3, <3>1, Zenon
  <2> QED BY <2>1, <2>2, <2>3
<1>7. y.space = s /\ y.held = x.held \ runs
  OBVIOUS
<1>8. UsedIsHeld(y)
  BY <1>1, <1>6, <1>7 DEF UsedIsHeld
<1> QED BY <1>1, <1>3, <1>7, <1>8 DEF SoundOf, Types, SpaceType

LEMMA AllocKeeps ==
  ASSUME NEW x, SoundOf(x), NEW n \in Nat \ {0}, NEW r \in RedSeaAllocClus(x.space, n),
         NEW y, y = [space |-> r.space, held |-> x.held \cup {[start |-> r.first, size |-> n]}]
  PROVE  SoundOf(y)
<1> DEFINE run == [start |-> r.first, size |-> n]
<1>1. /\ x.space \in SpaceType /\ x.held \subseteq Run /\ ListIsClear(x.space)
      /\ x.space.used = {DataArea} \cup UNION {Of(q) : q \in x.held}
      /\ \A p \in x.held : DataArea \notin Of(p) /\ \A q \in x.held : p = q \/ Disjoint(p, q)
  BY DEF SoundOf, Types, UsedIsHeld, SpaceType
<1>2. /\ run \in Run /\ Of(run) \subseteq Clus \ x.space.used
      /\ r.space \in SpaceType /\ ListIsClear(r.space)
      /\ r.space.used = x.space.used \cup Of(run)
  BY <1>1, AllocClusKeeps
<1> HIDE DEF run
<1>3. y.space = r.space /\ y.held = x.held \cup {run}
  BY DEF run
<1>4. DataArea \notin Of(run) /\ \A q \in x.held : Of(q) \cap Of(run) = {}
  BY <1>1, <1>2
<1>5. r.space.used = {DataArea} \cup UNION {Of(q) : q \in x.held \cup {run}}
  BY <1>1, <1>2
<1>6. \A p, q \in x.held \cup {run} : p = q \/ Disjoint(p, q)
  BY <1>1, <1>4 DEF Disjoint
<1>7. UsedIsHeld(y)
  BY <1>1, <1>3, <1>4, <1>5, <1>6 DEF UsedIsHeld
<1> QED BY <1>1, <1>2, <1>3, <1>7 DEF SoundOf, Types, SpaceType

LEMMA ForgetKeeps ==
  ASSUME NEW sp, NEW h, SoundOf([space |-> sp, held |-> h])
  PROVE  SoundOf([space |-> Forgotten(sp), held |-> h])
<1> DEFINE x == [space |-> sp, held |-> h]
           y == [space |-> Forgotten(sp), held |-> h]
<1>1. x.space = sp /\ x.held = h /\ sp \in SpaceType
  BY DEF SoundOf, Types, SpaceType
<1>2. /\ Forgotten(sp) \in SpaceType /\ ~Forgotten(sp).built
      /\ Forgotten(sp).used = sp.used
  BY <1>1 DEF Forgotten, SpaceType
<1>3. y.space = Forgotten(sp) /\ y.held = h
  OBVIOUS
<1>4. SoundOf(x) => Types(y) /\ UsedIsHeld(y) /\ ListIsClear(y.space)
  <2> HIDE DEF x, y
  <2> QED BY <1>1, <1>2, <1>3 DEF SoundOf, Types, UsedIsHeld, ListIsClear, SpaceType
<1> QED BY <1>4 DEF SoundOf

\* Whatever clients do that give back what they have been given: the bits that are
\* set are those of what they have, and the free list has the others.
THEOREM SpaceIsSound == Spec => []Sound
<1>1. Init => Sound
  BY DEF Init, Sound, ListIsClear, State
<1>2. Sound /\ [Next]_vars => Sound'
  <2> SUFFICES ASSUME Sound, [Next]_vars PROVE Sound'
    OBVIOUS
  <2>1. SoundOf(State) /\ State.space = space /\ State.held = held
    BY DEF Sound, SoundOf, State
  <2> SUFFICES SoundOf([space |-> space', held |-> held'])
    BY DEF Sound, SoundOf, State, Types, UsedIsHeld, ListIsClear
  <2>2. CASE UNCHANGED vars
    BY <2>1, <2>2 DEF vars, State
  <2>3. CASE Forget
    BY <2>1, <2>3, ForgetKeeps DEF Forget, State
  <2>4. ASSUME NEW runs \in {held \ held', (held \ held') \cup {EmptyRun}},
               Release(FreedAll(space, runs), runs) \/ Alloc(FreedAll(space, runs), runs)
        PROVE  SoundOf([space |-> space', held |-> held'])
    <3>1. runs \in SUBSET (State.held \cup {EmptyRun})
      BY <2>1
    <3>2. \A s \in FreedAll(space, runs) : SoundOf([space |-> s, held |-> held \ runs])
      BY <2>1, <3>1, ReleaseKeeps
    <3>3. CASE Release(FreedAll(space, runs), runs)
      BY <3>2, <3>3 DEF Release
    <3>4. CASE Alloc(FreedAll(space, runs), runs)
      <4>1. PICK new \in (held' \ held) \cap Run : \E s \in FreedAll(space, runs) :
              \E r \in RedSeaAllocClus(s, new.size) :
                /\ new.size > 0 /\ new.start = r.first
                /\ space' = r.space /\ held' = (held \ runs) \cup {new}
        BY <3>4 DEF Alloc
      <4>2. PICK s \in FreedAll(space, runs) : \E r \in RedSeaAllocClus(s, new.size) :
                /\ new.size > 0 /\ new.start = r.first
                /\ space' = r.space /\ held' = (held \ runs) \cup {new}
        BY <4>1
      <4>3. PICK r \in RedSeaAllocClus(s, new.size) :
                /\ new.size > 0 /\ new.start = r.first
                /\ space' = r.space /\ held' = (held \ runs) \cup {new}
        BY <4>2
      <4> DEFINE x == [space |-> s, held |-> held \ runs]
      <4>4. SoundOf(x) /\ x.space = s /\ x.held = held \ runs
        BY <3>2
      <4>5. new.size \in Nat \ {0} /\ new = [start |-> r.first, size |-> new.size]
        BY <4>3, RunTypes
      <4> HIDE DEF x
      <4>6. SoundOf([space |-> r.space, held |-> x.held \cup {[start |-> r.first, size |-> new.size]}])
        BY <4>4, <4>5, AllocKeeps
      <4> QED BY <4>3, <4>4, <4>5, <4>6
    <3> QED BY <2>4, <3>3, <3>4
  <2> QED BY <2>2, <2>3, <2>4 DEF Next
<1> QED BY <1>1, <1>2, PTL DEF Spec
=============================================================================
