----------------------------- MODULE RedSeaSpace -----------------------------
(***************************************************************************)
(* The clusters of a RedSea drive (BlkDev/FileSysRedSea.HC, DskClus.HC):   *)
(* the bitmap on the drive, and the free list that RedSeaFreeLstBuild      *)
(* makes of it when it is first needed.  A file or directory is one run of *)
(* clusters.  The operators work on a record, the drive's space; the state *)
(* machine is any client that gives back only what it has been given.      *)
(*                                                                         *)
(* The free list is a set: where the code takes the first of several that  *)
(* will do, any of them may be taken.  The bitmap's block in memory        *)
(* (cur_fat_blk) is left out: it is written back by the end of each        *)
(* operation.                                                              *)
(*                                                                         *)
(* An operator Mut<Op>_<Bug> is <Op> with a bug it must not have, used to  *)
(* test that the properties notice.                                        *)
(***************************************************************************)
EXTENDS RedSeaClus

VARIABLES
  space,  \* used: the bits that are set; built, free: next_free, once it is built
  held    \* the runs that the client has

vars == <<space, held>>

-----------------------------------------------------------------------------
\* The longest runs of clear bits.
ClearRun(used, r) ==
  /\ r.size > 0 /\ r.start \in Clus /\ Of(r) \subseteq Clus \ used
RedSeaFreeLstBuild(used) ==
  {r \in Run : /\ ClearRun(used, r)
               /\ r.start - 1 \notin Clus \ used /\ r.start + r.size \notin Clus \ used}

Listed(sp) ==
  IF sp.built THEN sp ELSE [sp EXCEPT !.built = TRUE, !.free = RedSeaFreeLstBuild(sp.used)]

\* RedSeaFreeClus: the run becomes part of one that it adjoins (and does not join
\* two), or else one of its own.
Before(sp, run) == {r \in sp.free : r.start + r.size = run.start}
After(sp, run) == {r \in sp.free : r.start = run.start + run.size}
Join(r, q) == [start |-> r.start, size |-> r.size + q.size]
Added(sp, run) ==
  {(sp.free \ {r}) \cup {Join(r, run)} : r \in Before(sp, run)}
    \cup {(sp.free \ {r}) \cup {Join(run, r)} : r \in After(sp, run)}
    \cup IF Before(sp, run) \cup After(sp, run) = {} THEN {sp.free \cup {run}} ELSE {}

\* If there is no list yet, it is built before the bits are cleared.
MutRedSeaFreeClus_BitsFirst(sp, run) ==
  LET s == Listed([sp EXCEPT !.used = @ \ Of(run)]) IN
  {[s EXCEPT !.free = f] : f \in Added(s, run)}
RedSeaFreeClus(sp, run) ==
  LET s == Listed(sp) IN {[s EXCEPT !.used = @ \ Of(run), !.free = f] : f \in Added(s, run)}

\* RedSeaFilesDel gives back one run after the other, in any order.
FreedAll(sp, runs) ==
  LET freed[rs \in SUBSET runs] ==
        IF rs = {} THEN {sp}
        ELSE UNION {UNION {RedSeaFreeClus(x, run) : x \in freed[rs \ {run}]} : run \in rs}
  IN  freed[runs]

\* RedSeaAllocClus: from a smallest run that is large enough; without one there
\* is no outcome, the code throws.
Fits(sp, cnt) == {r \in sp.free : r.size >= cnt}
Best(sp, cnt) == {r \in Fits(sp, cnt) : \A q \in Fits(sp, cnt) : r.size <= q.size}
Rest(r, cnt) == [start |-> r.start + cnt, size |-> r.size - cnt]
Taken(sp, r, cnt) ==
  [sp EXCEPT !.used = @ \cup (r.start .. r.start + cnt - 1),
             !.free = (@ \ {r}) \cup IF r.size = cnt THEN {} ELSE {Rest(r, cnt)}]
RedSeaAllocClus(sp, cnt) ==
  {[space |-> Taken(Listed(sp), r, cnt), first |-> r.start] : r \in Best(Listed(sp), cnt)}

\* RedSeaInit forgets the list.
Forgotten(sp) == [sp EXCEPT !.built = FALSE, !.free = {}]

-----------------------------------------------------------------------------
\* The bits that are set are those of the runs the client has and of the bitmap's
\* own block: nothing is handed out twice and nothing is lost.
UsedIsHeld(x) ==
  /\ x.space.used = {DataArea} \cup UNION {Of(r) : r \in x.held}
  /\ \A r \in x.held : DataArea \notin Of(r) /\ \A q \in x.held : r = q \/ Disjoint(r, q)

Types(x) ==
  /\ x.space \in [used : SUBSET Clus, built : BOOLEAN, free : SUBSET Run]
  /\ x.held \subseteq Run

State == [space |-> space, held |-> held]

\* A drive that RedSeaFmt has made ("Alloc #1" is the bit of the bitmap's block) and
\* clients have used, when it is mounted.
Init == Types(State) /\ UsedIsHeld(State) /\ space.built = FALSE

\* What is done under one lock, by a client that has held' then.  It gives back what it
\* does not have any more; a file without a block may be among that.
Release(sps, runs) == space' \in sps /\ held' = held \ runs
\* A directory that moves gives back and allocates.
Alloc(sps, runs) ==
  \E new \in (held' \ held) \cap Run : \E s \in sps : \E r \in RedSeaAllocClus(s, new.size) :
    /\ new.size > 0 /\ new.start = r.first
    /\ space' = r.space /\ held' = (held \ runs) \cup {new}
Forget == space' = Forgotten(space) /\ UNCHANGED held

Next ==
  \/ Forget
  \/ \E runs \in {held \ held', (held \ held') \cup {EmptyRun}} :
       LET sps == FreedAll(space, runs) IN Release(sps, runs) \/ Alloc(sps, runs)

Spec == Init /\ [][Next]_vars

-----------------------------------------------------------------------------
\* The list, once it is built, has the clear bits, each in one run.
ListIsClear(sp) ==
  sp.built =>
    /\ UNION {Of(r) : r \in sp.free} = Clus \ sp.used
    /\ \A r, q \in sp.free : r = q \/ Disjoint(r, q)

\* Sound: both, and the types.
Sound == Types(State) /\ UsedIsHeld(State) /\ ListIsClear(space)
=============================================================================
