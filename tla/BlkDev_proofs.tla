---------------------------- MODULE BlkDev_proofs ----------------------------
(***************************************************************************)
(* Proofs about BlkDev, for any number of tasks, drives, images and blocks *)
(* and whatever the tasks work on.                                         *)
(***************************************************************************)
EXTENDS BlkDev, SeqLemmas, FiniteSetTheorems, FunctionTheorems, TLAPS

-----------------------------------------------------------------------------
(***************************************************************************)
(* The disk cache.                                                         *)
(***************************************************************************)
Body1 == Files \cup {NULL}
CacheBlk == [dv : Drv \cup {NULL}, blk : Nat, body : Body1]
IsCache(c) == c \in Seq(CacheBlk) /\ Len(c) = CacheBlks

\* What is in d was in c, or is a block of the drive with this body.
OnlyAdds(c, d, dv, body) ==
  \A i \in 1 .. CacheBlks :
    (\E j \in 1 .. CacheBlks : d[i] = c[j]) \/ (d[i].dv = dv /\ d[i].body = body)

LEMMA Add1Is ==
  ASSUME NEW c, IsCache(c), NEW e \in CacheBlk
  PROVE  IsCache(Add1(c, e)) /\ OnlyAdds(c, Add1(c, e), e.dv, e.body)
<1> DEFINE has == {i \in DOMAIN c : c[i].dv = e.dv /\ c[i].blk = e.blk}
           k == IF has = {} THEN 1 ELSE Min(has)
           r == RemoveAt(c, k)
<1>1. c \in Seq(CacheBlk) /\ Len(c) = CacheBlks /\ CacheBlks \in Nat \ {0} /\ DOMAIN c = 1 .. CacheBlks
  BY DevicesAssumption DEF IsCache
<1>2. k \in DOMAIN c
  <2>1. CASE has = {}
    BY <1>1, <2>1
  <2>2. CASE has # {}
    <3>1. has \subseteq Nat /\ has \subseteq DOMAIN c
      BY <1>1
    <3>2. Min(has) \in has
      <4> HIDE DEF has
      <4> QED BY <2>2, <3>1, MinIs
    <3> QED BY <2>2, <3>2
  <2> QED BY <2>1, <2>2
<1> HIDE DEF k
<1>3. /\ r \in Seq(CacheBlk) /\ Len(r) = CacheBlks - 1
      /\ \A i \in 1 .. CacheBlks - 1 : r[i] = IF i < k THEN c[i] ELSE c[i + 1]
  BY <1>1, <1>2, RemoveAtElements
<1> HIDE DEF r
<1>4. /\ Append(r, e) \in Seq(CacheBlk) /\ Len(Append(r, e)) = CacheBlks
      /\ Append(r, e)[CacheBlks] = e
      /\ \A i \in 1 .. CacheBlks - 1 : Append(r, e)[i] = r[i]
  BY <1>1, <1>3
<1>5. Add1(c, e) = Append(r, e)
  BY DEF Add1, r, k
<1>6. \A i \in 1 .. CacheBlks - 1 : \E j \in 1 .. CacheBlks : Append(r, e)[i] = c[j]
  BY <1>1, <1>3, <1>4
<1>7. OnlyAdds(c, Append(r, e), e.dv, e.body)
  BY <1>1, <1>4, <1>6 DEF OnlyAdds
<1> QED BY <1>4, <1>5, <1>7 DEF IsCache

\* The blocks lo to m, one after the other.
Blk1(dv, b, body) == [dv |-> dv, blk |-> b, body |-> body]
AddedTo(f, c, dv, body, S) ==
  f = [b \in S |-> Add1(IF b - 1 \in S THEN f[b - 1] ELSE c, Blk1(dv, b, body))]

LEMMA AddedExists ==
  ASSUME NEW c, NEW dv, NEW body, NEW lo \in Nat, NEW hi \in Nat
  PROVE  \E f : AddedTo(f, c, dv, body, lo .. hi)
<1> DEFINE T == {k \in Nat : ~ \E f : AddedTo(f, c, dv, body, lo .. lo + k - 1)}
<1>1. T = {}
  <2> SUFFICES ASSUME T # {} PROVE FALSE
    OBVIOUS
  <2>1. PICK k \in T : \A j \in T : k <= j
    <3>1. T \subseteq Nat
      OBVIOUS
    <3> HIDE DEF T
    <3> QED BY <3>1, SmallestOf
  <2>2. CASE k = 0
    <3>1. lo .. lo + k - 1 = {}
      BY <2>2
    <3>2. AddedTo([b \in {} |-> 0], c, dv, body, {})
      BY DEF AddedTo
    <3> QED BY <2>1, <3>1, <3>2
  <2>3. CASE k # 0
    <3> DEFINE m == lo + k - 1
    <3>1. k \in Nat /\ k - 1 \in Nat /\ k - 1 \notin T /\ lo + (k - 1) - 1 = m - 1 /\ m \in Nat /\ m >= lo
      BY <2>1, <2>3
    <3>2. PICK f : AddedTo(f, c, dv, body, lo .. m - 1)
      BY <3>1
    <3> HIDE DEF m
    <3> DEFINE g == [b \in lo .. m |->
                       IF b < m THEN f[b]
                       ELSE Add1(IF m - 1 \in lo .. m THEN f[m - 1] ELSE c, Blk1(dv, m, body))]
    <3>3. \A b \in lo .. m : g[b] = Add1(IF b - 1 \in lo .. m THEN g[b - 1] ELSE c, Blk1(dv, b, body))
      <4> TAKE b \in lo .. m
      <4>1. CASE b < m
        <5>1. b \in lo .. m - 1 /\ (b - 1 \in lo .. m - 1 <=> b - 1 \in lo .. m)
          BY <3>1, <4>1
        <5>2. g[b] = f[b] /\ (b - 1 \in lo .. m => g[b - 1] = f[b - 1])
          BY <3>1, <4>1
        <5>3. f[b] = Add1(IF b - 1 \in lo .. m - 1 THEN f[b - 1] ELSE c, Blk1(dv, b, body))
          BY <3>2, <5>1 DEF AddedTo
        <5> QED BY <5>1, <5>2, <5>3
      <4>2. CASE b = m
        <5>1. m - 1 \in lo .. m => g[m - 1] = f[m - 1]
          BY <3>1
        <5>2. g[m] = Add1(IF m - 1 \in lo .. m THEN f[m - 1] ELSE c, Blk1(dv, m, body))
          BY <3>1
        <5> HIDE DEF g
        <5> QED BY <4>2, <5>1, <5>2
      <4> QED BY <3>1, <4>1, <4>2
    <3>4. AddedTo(g, c, dv, body, lo .. m)
      <4> DEFINE h == [b \in lo .. m |-> Add1(IF b - 1 \in lo .. m THEN g[b - 1] ELSE c, Blk1(dv, b, body))]
      <4>1. g = [b \in lo .. m |-> g[b]]
        OBVIOUS
      <4> HIDE DEF g
      <4>2. g = h
        BY <3>3, <4>1
      <4> QED BY <4>2 DEF AddedTo
    <3> QED BY <2>1, <3>4 DEF m
  <2> QED BY <2>2, <2>3
<1>2. \A k \in Nat : \E f : AddedTo(f, c, dv, body, lo .. lo + k - 1)
  BY <1>1
<1>3. \E k \in Nat : lo .. lo + k - 1 = lo .. hi
  <2>1. CASE hi >= lo
    <3>1. hi - lo + 1 \in Nat /\ lo + (hi - lo + 1) - 1 = hi
      BY <2>1
    <3> QED BY <3>1
  <2>2. CASE hi < lo
    <3>1. lo .. lo + 0 - 1 = {} /\ lo .. hi = {}
      BY <2>2
    <3> QED BY <3>1
  <2> QED BY <2>1, <2>2
<1> HIDE DEF T
<1>4. PICK k \in Nat : lo .. lo + k - 1 = lo .. hi
  BY <1>3
<1>5. \E f : AddedTo(f, c, dv, body, lo .. lo + k - 1)
  BY <1>2
<1> QED BY <1>4, <1>5

LEMMA DskCacheAddIs ==
  ASSUME IsCache(cache), NEW dv \in Drv, NEW body \in Body1, NEW lo \in Nat, NEW hi \in Nat
  PROVE  /\ IsCache(DskCacheAdd(dv, body, lo .. hi))
         /\ OnlyAdds(cache, DskCacheAdd(dv, body, lo .. hi), dv, body)
<1> DEFINE S == lo .. hi
           f == CHOOSE g : AddedTo(g, cache, dv, body, S)
           OK(d) == IsCache(d) /\ OnlyAdds(cache, d, dv, body)
<1>1. OK(cache)
  BY DEF IsCache, OnlyAdds
<1>2. CASE S = {}
  <2>1. DskCacheAdd(dv, body, S) = cache
    BY <1>2 DEF DskCacheAdd
  <2> QED BY <1>1, <2>1
<1>3. CASE S # {}
  <2>1. AddedTo(f, cache, dv, body, S)
    <3>1. \E g : AddedTo(g, cache, dv, body, S)
      BY AddedExists
    <3> QED BY <3>1, Zenon
  <2>2. DskCacheAdd(dv, body, S) = f[Max(S)]
    BY <1>3, Zenon DEF DskCacheAdd, AddedTo, Blk1
  <2>3. Max(S) \in S
    <3>1. S \subseteq 0 .. hi
      OBVIOUS
    <3> HIDE DEF S
    <3> QED BY <1>3, <3>1, MaxIs
  <2> HIDE DEF f
  <2>4. \A d : OK(d) => \A b \in Nat : OK(Add1(d, Blk1(dv, b, body)))
    <3> SUFFICES ASSUME NEW d, OK(d), NEW b \in Nat PROVE OK(Add1(d, Blk1(dv, b, body)))
      OBVIOUS
    <3> DEFINE e == Blk1(dv, b, body)
    <3>1. e \in CacheBlk /\ e.dv = dv /\ e.body = body
      BY DEF CacheBlk, Blk1, Body1
    <3> HIDE DEF e
    <3>2. IsCache(Add1(d, e)) /\ OnlyAdds(d, Add1(d, e), dv, body)
      BY <3>1, Add1Is
    <3>3. OnlyAdds(cache, Add1(d, e), dv, body)
      BY <3>2 DEF OnlyAdds
    <3> QED BY <3>2, <3>3 DEF e
  <2> DEFINE T == {b \in S : ~ OK(f[b])}
  <2>5. T = {}
    <3> SUFFICES ASSUME T # {} PROVE FALSE
      OBVIOUS
    <3>1. PICK b \in T : \A j \in T : b <= j
      <4>1. T \subseteq Nat
        OBVIOUS
      <4> HIDE DEF T
      <4> QED BY <4>1, SmallestOf
    <3>2. b \in S /\ b \in Nat /\ ~ OK(f[b]) /\ (b - 1 \in S => OK(f[b - 1]))
      BY <3>1
    <3> DEFINE d == IF b - 1 \in S THEN f[b - 1] ELSE cache
    <3>3. OK(d)
      BY <1>1, <3>2
    <3>4. f[b] = Add1(d, Blk1(dv, b, body))
      BY <2>1, <3>2 DEF AddedTo
    <3> HIDE DEF d, OK
    <3> QED BY <2>4, <3>2, <3>3, <3>4
  <2>6. OK(f[Max(S)])
    BY <2>3, <2>5
  <2> QED BY <2>2, <2>6
<1> QED BY <1>2, <1>3

\* What DskCacheInvalidate2 leaves of c when it has come down to i.
LeftAt(f, c, dv, i) ==
  IF i > Len(c) THEN c
  ELSE IF f[i + 1][i].dv = dv THEN Append(RemoveAt(f[i + 1], i), EmptyBlk)
  ELSE f[i + 1]
LeftTo(f, c, dv, S) == f = [i \in S |-> LeftAt(f, c, dv, i)]

LEMMA LeftExists ==
  ASSUME NEW c, NEW dv, Len(c) \in Nat
  PROVE  \E f : LeftTo(f, c, dv, 1 .. Len(c) + 1)
<1> DEFINE n == Len(c)
           T == {k \in Nat : k <= n /\ ~ \E f : LeftTo(f, c, dv, n + 1 - k .. n + 1)}
<1>1. T = {}
  <2> SUFFICES ASSUME T # {} PROVE FALSE
    OBVIOUS
  <2>1. PICK k \in T : \A j \in T : k <= j
    <3>1. T \subseteq Nat
      OBVIOUS
    <3> HIDE DEF T
    <3> QED BY <3>1, SmallestOf
  <2>2. CASE k = 0
    <3> DEFINE g == [i \in n + 1 .. n + 1 |-> c]
    <3>1. \A i \in n + 1 .. n + 1 : LeftAt(g, c, dv, i) = c
      BY DEF LeftAt
    <3>2. LeftTo(g, c, dv, n + 1 .. n + 1)
      BY <3>1 DEF LeftTo
    <3>3. n + 1 - k = n + 1
      BY <2>2
    <3> HIDE DEF g
    <3> QED BY <2>1, <3>2, <3>3
  <2>3. CASE k # 0
    <3> DEFINE m == n + 1 - k
    <3>1. /\ k \in Nat /\ k <= n /\ k - 1 \in Nat /\ k - 1 \notin T /\ n + 1 - (k - 1) = m + 1
          /\ m \in Nat \ {0} /\ m <= n /\ n \in Nat
      BY <2>1, <2>3
    <3>2. PICK f : LeftTo(f, c, dv, m + 1 .. n + 1)
      BY <3>1
    <3> HIDE DEF m
    <3> DEFINE g == [i \in m .. n + 1 |-> IF i > m THEN f[i] ELSE LeftAt(f, c, dv, m)]
    <3>3. \A i \in m .. n + 1 : g[i] = LeftAt(g, c, dv, i)
      <4> TAKE i \in m .. n + 1
      <4>1. i <= n => i + 1 \in m .. n + 1 /\ g[i + 1] = f[i + 1]
        BY <3>1
      <4>2. g[i] = LeftAt(f, c, dv, i)
        <5>1. CASE i > m
          <6>1. i \in m + 1 .. n + 1 /\ g[i] = f[i]
            BY <3>1, <5>1
          <6> QED BY <3>2, <6>1 DEF LeftTo
        <5>2. CASE i = m
          BY <3>1, <5>2
        <5> QED BY <3>1, <5>1, <5>2
      <4>3. ~(i > Len(c)) => i <= n
        BY <3>1
      <4> HIDE DEF g
      <4> QED BY <4>1, <4>2, <4>3 DEF LeftAt
    <3>4. LeftTo(g, c, dv, m .. n + 1)
      <4>1. g = [i \in m .. n + 1 |-> g[i]]
        OBVIOUS
      <4> HIDE DEF g
      <4> QED BY <3>3, <4>1 DEF LeftTo
    <3> QED BY <2>1, <3>4 DEF m
  <2> QED BY <2>2, <2>3
<1>2. \A k \in Nat : k <= n => \E f : LeftTo(f, c, dv, n + 1 - k .. n + 1)
  BY <1>1
<1>3. n \in Nat /\ n + 1 - n = 1
  OBVIOUS
<1> HIDE DEF T
<1>4. \E f : LeftTo(f, c, dv, n + 1 - n .. n + 1)
  BY <1>2, <1>3
<1> QED BY <1>3, <1>4

LEMMA DskCacheInvalidate2Is ==
  ASSUME IsCache(cache), NEW dv \in Drv
  PROVE  /\ IsCache(DskCacheInvalidate2(dv))
         /\ \A i \in 1 .. CacheBlks :
              LET e == DskCacheInvalidate2(dv)[i] IN
              e.dv # dv /\ (e = EmptyBlk \/ \E j \in 1 .. CacheBlks : e = cache[j])
<1> DEFINE n == CacheBlks
           f == CHOOSE g : LeftTo(g, cache, dv, 1 .. Len(cache) + 1)
           Dropped(e) == e.dv # dv /\ (e = EmptyBlk \/ \E j \in 1 .. n : e = cache[j])
           OK(i) == /\ IsCache(f[i])
                    /\ \A j \in 1 .. n : IF j < i THEN f[i][j] = cache[j] ELSE Dropped(f[i][j])
<1>1. n \in Nat \ {0} /\ Len(cache) = n /\ cache \in Seq(CacheBlk) /\ DOMAIN cache = 1 .. n
  BY DevicesAssumption DEF IsCache
<1>2. LeftTo(f, cache, dv, 1 .. n + 1)
  <2>1. \E g : LeftTo(g, cache, dv, 1 .. Len(cache) + 1)
    BY <1>1, LeftExists
  <2> QED BY <1>1, <2>1, Zenon
<1>3. DskCacheInvalidate2(dv) = f[1]
  BY Zenon DEF DskCacheInvalidate2, LeftTo, LeftAt
<1>4. EmptyBlk \in CacheBlk /\ EmptyBlk.dv # dv
  BY DevicesAssumption DEF EmptyBlk, CacheBlk, Body1
<1> HIDE DEF f, Dropped
<1>5. OK(n + 1)
  <2>1. f[n + 1] = cache
    BY <1>1, <1>2 DEF LeftTo, LeftAt
  <2> QED BY <1>1, <2>1 DEF IsCache
<1>6. ASSUME NEW i \in 1 .. n, OK(i + 1) PROVE OK(i)
  <2> DEFINE d == f[i + 1]
             r == RemoveAt(d, i)
  <2>1. /\ d \in Seq(CacheBlk) /\ Len(d) = n /\ d[i] = cache[i] /\ DOMAIN d = 1 .. n
        /\ \A j \in 1 .. n : IF j < i + 1 THEN d[j] = cache[j] ELSE Dropped(d[j])
    BY <1>1, <1>6 DEF IsCache
  <2>2. f[i] = IF d[i].dv = dv THEN Append(r, EmptyBlk) ELSE d
    <3>1. f[i] = LeftAt(f, cache, dv, i)
      BY <1>1, <1>2 DEF LeftTo
    <3>2. ~(i > Len(cache))
      BY <1>1
    <3> QED BY <3>1, <3>2 DEF LeftAt
  <2> HIDE DEF d
  <2>3. CASE d[i].dv = dv
    <3>1. /\ r \in Seq(CacheBlk) /\ Len(r) = n - 1
          /\ \A j \in 1 .. n - 1 : r[j] = IF j < i THEN d[j] ELSE d[j + 1]
      BY ZenonT(60), <1>1, <2>1, RemoveAtElements
    <3> HIDE DEF r
    <3>2. /\ Append(r, EmptyBlk) \in Seq(CacheBlk) /\ Len(Append(r, EmptyBlk)) = n
          /\ Append(r, EmptyBlk)[n] = EmptyBlk
          /\ \A j \in 1 .. n - 1 : Append(r, EmptyBlk)[j] = r[j]
      BY <1>1, <1>4, <3>1
    <3>3. f[i] = Append(r, EmptyBlk)
      BY <2>2, <2>3
    <3>4. Dropped(EmptyBlk)
      BY <1>4 DEF Dropped
    <3>5. ASSUME NEW j \in 1 .. n PROVE IF j < i THEN f[i][j] = cache[j] ELSE Dropped(f[i][j])
      <4>1. CASE j = n
        BY <1>1, <3>2, <3>3, <3>4, <4>1
      <4>2. CASE j < i /\ j < n
        BY <1>1, <2>1, <3>1, <3>2, <3>3, <4>2
      <4>3. CASE j >= i /\ j < n
        <5>1. j \in 1 .. n - 1 /\ f[i][j] = d[j + 1] /\ j + 1 \in 1 .. n /\ ~(j + 1 < i + 1) /\ ~(j < i)
          BY <1>1, <3>1, <3>2, <3>3, <4>3
        <5> QED BY <2>1, <5>1
      <4> QED BY <1>1, <4>1, <4>2, <4>3
    <3> QED BY <3>2, <3>3, <3>5 DEF IsCache
  <2>4. CASE d[i].dv # dv
    <3>1. Dropped(d[i])
      BY <2>1, <2>4 DEF Dropped
    <3>2. ASSUME NEW j \in 1 .. n PROVE IF j < i THEN d[j] = cache[j] ELSE Dropped(d[j])
      BY <1>1, <2>1, <3>1
    <3> QED BY <2>1, <2>2, <2>4, <3>2 DEF IsCache
  <2> QED BY <2>3, <2>4
<1>7. OK(1)
  <2> DEFINE T == {k \in Nat : k <= n /\ ~ OK(n + 1 - k)}
  <2>1. T = {}
    <3> SUFFICES ASSUME T # {} PROVE FALSE
      OBVIOUS
    <3>1. PICK k \in T : \A j \in T : k <= j
      <4>1. T \subseteq Nat
        OBVIOUS
      <4> HIDE DEF T
      <4> QED BY <4>1, SmallestOf
    <3> HIDE DEF OK
    <3>2. k \in Nat /\ k <= n /\ ~ OK(n + 1 - k) /\ k # 0
      BY <1>1, <1>5, <3>1
    <3>3. k - 1 \in Nat /\ k - 1 <= n /\ k - 1 \notin T
      BY <1>1, <3>1, <3>2
    <3>4. OK(n + 1 - (k - 1)) /\ n + 1 - (k - 1) = (n + 1 - k) + 1 /\ n + 1 - k \in 1 .. n
      BY <1>1, <3>2, <3>3
    <3> QED BY <1>6, <3>2, <3>4
  <2> HIDE DEF OK
  <2>2. n \in Nat /\ n <= n /\ n + 1 - n = 1
    BY <1>1
  <2> QED BY <2>1, <2>2
<1> QED BY <1>1, <1>3, <1>7 DEF Dropped

-----------------------------------------------------------------------------
(***************************************************************************)
(* The inductive invariant.                                                *)
(***************************************************************************)
Extents == {x .. y : x \in Nat, y \in Nat}
Bufs == UNION {[B -> Body1] : B \in SUBSET Nat}
Ops == {"Find", "BlkRead", "RedSeaInit", "RedSeaFmt", "DskCacheInvalidate", "BlkDevInit", "BlkDevAdd"}
Stages == {"lock_bd", "lock_dv", "init", "work", "read", "zeroed", "unlock", "unlock_dv", "start",
           "RAM", "validate_ram", "ISO", "found", "opened", "validate", "drop", "end", "added"}
Frames == [op : Ops, dv : Drv, at : Stages, blks : Extents, buf : Bufs, ok : BOOLEAN,
           unlock : BOOLEAN]

\* A call is made of a drive of its kind, and what BlkRead has read is what was asked.
OfImage == {"ISO", "found", "opened", "validate", "drop"}
FrameOK(f) ==
  /\ f.op # "Find" => Type[f.dv] # "HOSTFS"
  /\ f.op = "DskCacheInvalidate" => Type[f.dv] = "ISO"
  /\ f.op = "BlkDevInit" /\ f.at \in {"RAM", "validate_ram"} => Type[f.dv] = "RAM"
  /\ f.op = "BlkDevInit" /\ f.at \in OfImage => Type[f.dv] = "ISO"
  /\ f.op = "BlkRead" /\ f.at \in {"unlock", "unlock_dv"} /\ Cached(f.dv) => DOMAIN f.buf = f.blks

\* Which call is made where in which other.
ReadsBoot(c, d) == d.op = "BlkRead" /\ d.dv = c.dv /\ d.blks = {0}
Calls(c, d) ==
  \/ c.op = "Find" /\ c.at = "unlock" /\ ReadsBoot(c, d)
  \/ c.op \in {"BlkRead", "DskCacheInvalidate"} /\ c.at = "work" /\ d.op = "BlkDevInit" /\ d.dv = c.dv
  \/ c.op = "RedSeaInit" /\ c.at = "read" /\ ReadsBoot(c, d)
  \/ c.op = "RedSeaFmt" /\ c.at = "unlock" /\ d.op = "RedSeaInit" /\ d.dv = c.dv
  \/ c.op = "BlkDevInit" /\ c.at \in {"validate_ram", "validate"} /\ ReadsBoot(c, d)
  \/ c.op = "BlkDevInit" /\ c.at \in {"found", "opened"} /\ d.op = "Find" /\ d.dv = FileDrv[c.dv]
  \/ c.op = "BlkDevInit" /\ c.at = "drop" /\ d.op = "RedSeaInit" /\ d.dv = c.dv
  \/ c.op = "BlkDevInit" /\ c.at = "end" /\ d.dv = c.dv
       /\ d.op \in IF Type[c.dv] = "ISO" THEN {"DskCacheInvalidate"} ELSE {"RedSeaInit", "RedSeaFmt"}
  \/ c.op = "BlkDevAdd" /\ c.at = "added" /\ d.op = "BlkDevInit" /\ d.dv = c.dv

\* The boot block has been read when it is looked at.
Returned(f) ==
  (f.op = "RedSeaInit" /\ f.at = "read") \/ (f.op = "BlkDevInit" /\ f.at = "validate") =>
    (Cached(f.dv) => 0 \in DOMAIN f.buf)

StackOK(s) ==
  /\ \A i \in DOMAIN s : FrameOK(s[i])
  /\ \A i \in DOMAIN s : i < Len(s) => Calls(s[i], s[i + 1])
  /\ Len(s) > 0 => Returned(s[Len(s)])

CodeInv ==
  /\ code \in [Task -> Seq(Frames)]
  /\ \A t \in Task : StackOK(code[t])
  /\ \A t \in Task : t \notin ToSet(ring) => code[t] = <<>>

\* The ring has each of its tasks once.
RingInv ==
  /\ ring \in Seq(Task) /\ Adam \in ToSet(ring)
  /\ \A i, j \in DOMAIN ring : ring[i] = ring[j] => i = j
  /\ Fs \in ToSet(ring) \cup {NULL} /\ killed \subseteq Task \ {Adam}

\* Only images share a lock, that of the directory their file is on.
LockInv ==
  /\ bd_owner \in [Drv -> Task \cup {NULL}] /\ dv_owner \in [Drv -> Task \cup {NULL}]
  /\ lock_fwding \in [Drv -> Drv \cup {NULL}]
  /\ \A d \in Drv : lock_fwding[d] \in {NULL, FileDrv[d]}
  /\ mounted \subseteq Drv /\ \A d \in Drv : Type[d] = "HOSTFS" => d \in mounted

DeviceInv ==
  /\ uses \in [Task -> SUBSET Drv]
  /\ flags \subseteq Drv /\ boot \subseteq Drv
  /\ name \in [Drv -> Body1] /\ file_dsk \in [Drv -> Body1] /\ root \in [Drv -> Body1]
  /\ IsCache(cache)

\* Who looks something up in a directory of the host has it locked.
HasLock == AtWork \cup {"unlock_dv"}
HostInv ==
  \A t \in Task \ killed : \A i \in DOMAIN code[t] :
    Type[code[t][i].dv] = "HOSTFS" /\ code[t][i].at \in HasLock => dv_owner[code[t][i].dv] = t

\* The file of the image is open, and of the letter's blocks the cache has its only.
Opened(dv) == file_dsk[dv] = name[dv]
Clean(dv) == \A i \in 1 .. CacheBlks : cache[i].dv = dv => cache[i].body = name[dv]

\* The one mount of a drive, as far as it has come: it begins where the device is not
\* initialised; when it has opened the file the file stays open; and when it has cleared
\* the cache, whoever reads the drive already reads the new file.
Mounting(t) == code[t] # <<>> /\ code[t][1].op = "BlkDevAdd"
Dropped(s) == Len(s) = 2 \/ s[3].at \in {"unlock", "unlock_dv"}
Progress(t) ==
  LET s == code[t]  dv == s[1].dv IN
  /\ Len(s) = 1 /\ s[1].ok /\ Type[dv] = "ISO" => Opened(dv) /\ Clean(dv)
  /\ Len(s) > 1 /\ s[2].at = "start" => Fs = t /\ Alive /\ dv \notin flags
  /\ Len(s) > 1 /\ Type[dv] = "ISO" =>
       /\ s[2].at \in {"validate", "drop", "end"} => Opened(dv)
       /\ s[2].at = "end" /\ Dropped(s) => Clean(dv)
MountInv ==
  /\ \A t \in Task : Mounting(t) =>
       /\ code[t][1].dv \in mounted /\ lock_fwding[code[t][1].dv] = NULL
       /\ \A u \in Task : Mounting(u) /\ code[u][1].dv = code[t][1].dv => u = t
       /\ Progress(t)
  /\ \A d \in Drv : lock_fwding[d] # NULL => Opened(d) /\ Clean(d)

\* What was read is handed over before any other task has its turn, or can kill the one.
Hands(s) == s # <<>> /\ s[Len(s)].op = "BlkRead" /\ s[Len(s)].at = "unlock"
HandInv == \A t \in Task : Hands(code[t]) => t = Fs /\ Alive

IInv ==
  /\ CodeInv /\ RingInv /\ LockInv /\ DeviceInv /\ HostInv
  /\ MountInv /\ HandInv /\ ReadsMounted /\ DeadHoldNothing

-----------------------------------------------------------------------------
(***************************************************************************)
(* The stacks of calls.                                                    *)
(***************************************************************************)
LEMMA FsIs == ASSUME RingInv, Alive PROVE Fs \in Task /\ Fs \in ToSet(ring)
<1>1. \A t \in ToSet(ring) : t \in Task
  BY DEF RingInv, ToSet
<1> QED BY <1>1 DEF RingInv, Alive

LEMMA TopIs ==
  ASSUME CodeInv, RingInv, Alive, code[Fs] # <<>>
  PROVE  LET s == code[Fs]  n == Len(s) IN
         /\ s \in Seq(Frames) /\ n \in Nat \ {0} /\ DOMAIN s = 1 .. n
         /\ StackOK(s)
         /\ Top = s[n] /\ Top \in Frames /\ FrameOK(Top) /\ Returned(Top)
         /\ n > 1 => s[n - 1] \in Frames /\ FrameOK(s[n - 1]) /\ Calls(s[n - 1], Top)
<1> DEFINE s == code[Fs]
           n == Len(s)
<1>1. s \in Seq(Frames) /\ StackOK(s)
  BY FsIs DEF CodeInv
<1>2. n \in Nat \ {0} /\ DOMAIN s = 1 .. n /\ s # <<>>
  BY <1>1
<1>3. Top = s[n] /\ \A i \in 1 .. n : s[i] \in Frames
  BY <1>1, <1>2 DEF Top, Last
<1> HIDE DEF s
<1>4. FrameOK(s[n]) /\ Returned(s[n])
  BY <1>1, <1>2 DEF StackOK
<1>5. n > 1 => n - 1 \in 1 .. n /\ FrameOK(s[n - 1]) /\ Calls(s[n - 1], s[n])
  <2> SUFFICES ASSUME n > 1 PROVE n - 1 \in 1 .. n /\ FrameOK(s[n - 1]) /\ Calls(s[n - 1], s[n])
    OBVIOUS
  <2> DEFINE k == n - 1
  <2>1. k \in DOMAIN s /\ k < Len(s) /\ k + 1 = n
    BY <1>2
  <2> HIDE DEF k
  <2>2. FrameOK(s[k]) /\ Calls(s[k], s[k + 1])
    BY <1>1, <2>1 DEF StackOK
  <2> QED BY <1>2, <2>1, <2>2 DEF k
<1> QED BY <1>1, <1>2, <1>3, <1>4, <1>5 DEF s

\* The stack of the running task now has k calls, the lowest m of them as they were.
Stacks(m, k) ==
  /\ code' \in [Task -> Seq(Frames)]
  /\ \A t \in Task : t # Fs => code'[t] = code[t]
  /\ Len(code'[Fs]) = k /\ DOMAIN code'[Fs] = 1 .. k
  /\ \A i \in 1 .. m : code'[Fs][i] = code[Fs][i]

LEMMA BecomeIs ==
  ASSUME CodeInv, RingInv, Alive, code[Fs] # <<>>, NEW f \in Frames, Become(f)
  PROVE  LET n == Len(code[Fs]) IN Stacks(n - 1, n) /\ code'[Fs][n] = f
<1> DEFINE s == code[Fs]
           r == Append(Front(s), f)
<1>1. Fs \in Task /\ s \in Seq(Frames) /\ s # <<>> /\ code \in [Task -> Seq(Frames)]
  BY FsIs, TopIs DEF CodeInv
<1>2. code' = [code EXCEPT ![Fs] = r]
  BY DEF Become
<1>3. /\ r \in Seq(Frames) /\ Len(r) = Len(s) /\ r[Len(s)] = f
      /\ \A i \in 1 .. Len(s) - 1 : r[i] = s[i]
  <2> HIDE DEF s
  <2> QED BY <1>1, BecomeElements
<1> HIDE DEF r
<1>4. /\ code'[Fs] = r /\ code' \in [Task -> Seq(Frames)]
      /\ \A t \in Task : t # Fs => code'[t] = code[t]
  BY <1>1, <1>2, <1>3
<1>5. DOMAIN r = 1 .. Len(s)
  BY <1>3
<1> QED BY <1>3, <1>4, <1>5 DEF Stacks

LEMMA CallIs ==
  ASSUME CodeInv, RingInv, Alive, code[Fs] # <<>>, NEW f \in Frames, NEW at \in Stages,
         CallThen(f, at)
  PROVE  LET n == Len(code[Fs]) IN
         Stacks(n - 1, n + 1) /\ code'[Fs][n] = [Top EXCEPT !.at = at] /\ code'[Fs][n + 1] = f
<1> DEFINE s == code[Fs]
           d == [Top EXCEPT !.at = at]
           r == Front(s) \o <<d, f>>
<1>1. Fs \in Task /\ s \in Seq(Frames) /\ s # <<>> /\ code \in [Task -> Seq(Frames)]
  BY FsIs, TopIs DEF CodeInv
<1>2. code' = [code EXCEPT ![Fs] = r]
  BY DEF CallThen
<1>3. d \in Frames
  BY TopIs DEF Frames
<1> HIDE DEF d
<1>4. /\ r \in Seq(Frames) /\ Len(r) = Len(s) + 1 /\ r[Len(s)] = d /\ r[Len(s) + 1] = f
      /\ \A i \in 1 .. Len(s) - 1 : r[i] = s[i]
  <2> HIDE DEF s
  <2> QED BY <1>1, <1>3, CallElements
<1> HIDE DEF r
<1>5. /\ code'[Fs] = r /\ code' \in [Task -> Seq(Frames)]
      /\ \A t \in Task : t # Fs => code'[t] = code[t]
  BY <1>1, <1>2, <1>4
<1>6. DOMAIN r = 1 .. Len(s) + 1
  BY <1>4
<1> QED BY <1>4, <1>5, <1>6 DEF Stacks, d

\* Without a caller the task is idle.
LEMMA ReturnIs ==
  ASSUME CodeInv, RingInv, Alive, code[Fs] # <<>>, NEW ok \in BOOLEAN, ReturnWith(ok)
  PROVE  LET n == Len(code[Fs]) IN
         /\ n = 1 => Stacks(0, 0)
         /\ n > 1 => /\ Stacks(n - 2, n - 1)
                     /\ code'[Fs][n - 1] = [code[Fs][n - 1] EXCEPT !.buf = Top.buf, !.ok = ok]
<1> DEFINE s == code[Fs]
           d == [s[Len(s) - 1] EXCEPT !.buf = Top.buf, !.ok = ok]
           r == Append(SubSeq(s, 1, Len(s) - 2), d)
<1>1. /\ Fs \in Task /\ s \in Seq(Frames) /\ s # <<>> /\ code \in [Task -> Seq(Frames)]
      /\ Len(s) \in Nat \ {0}
  BY FsIs, TopIs DEF CodeInv
<1>2. CASE Len(s) = 1
  <2>1. code' = [code EXCEPT ![Fs] = <<>>]
    BY <1>2 DEF ReturnWith
  <2> QED BY <1>1, <1>2, <2>1 DEF Stacks
<1>3. CASE Len(s) > 1
  <2>1. code' = [code EXCEPT ![Fs] = r]
    <3>1. code' = [code EXCEPT ![Fs] = IF Len(s) = 1 THEN <<>> ELSE r]
      BY Zenon DEF ReturnWith
    <3>2. Len(s) \in Nat
      BY <1>1
    <3> HIDE DEF r
    <3>3. Len(s) # 1
      <4> DEFINE n == Len(s)
      <4>1. n \in Nat /\ n > 1
        BY <1>3, <3>2, Zenon
      <4> HIDE DEF n
      <4>2. n # 1
        BY <4>1
      <4> QED BY <4>2, Zenon DEF n
    <3>4. (IF Len(s) = 1 THEN <<>> ELSE r) = r
      BY <3>3
    <3> QED BY <3>1, <3>4, Zenon
  <2>2. d \in Frames
    BY <1>3, TopIs DEF Frames
  <2> HIDE DEF d
  <2>3. /\ r \in Seq(Frames) /\ Len(r) = Len(s) - 1 /\ r[Len(s) - 1] = d
        /\ \A i \in 1 .. Len(s) - 2 : r[i] = s[i]
    <3> HIDE DEF s
    <3> QED BY <1>1, <1>3, <2>2, ReturnElements
  <2> HIDE DEF r
  <2>4. /\ code'[Fs] = r /\ code' \in [Task -> Seq(Frames)]
        /\ \A t \in Task : t # Fs => code'[t] = code[t]
    BY <1>1, <2>1, <2>3
  <2>5. DOMAIN r = 1 .. Len(s) - 1
    BY <2>3
  <2> QED BY SMTT(60), <1>1, <1>3, <2>3, <2>4, <2>5 DEF Stacks, d
<1> QED BY <1>1, <1>2, <1>3

\* An idle task begins with one call, or two.
LEMMA BeginIs ==
  ASSUME CodeInv, RingInv, Alive, NEW s \in Seq(Frames), code' = [code EXCEPT ![Fs] = s]
  PROVE  Stacks(0, Len(s)) /\ code'[Fs] = s
<1>1. Fs \in Task /\ code \in [Task -> Seq(Frames)]
  BY FsIs DEF CodeInv
<1>2. DOMAIN s = 1 .. Len(s)
  OBVIOUS
<1> QED BY <1>1, <1>2 DEF Stacks

\* What makes the new stack of the running task a stack again.
LEMMA StackIsOK ==
  ASSUME NEW s \in Seq(Frames), StackOK(s), NEW r \in Seq(Frames),
         NEW m \in Nat, m <= Len(s), m <= Len(r),
         \A i \in 1 .. m : r[i] = s[i],
         \A i \in m + 1 .. Len(r) : FrameOK(r[i]),
         \A i \in m .. Len(r) - 1 : i > 0 => Calls(r[i], r[i + 1]),
         Len(r) > 0 => Returned(r[Len(r)])
  PROVE  StackOK(r)
<1>1. DOMAIN s = 1 .. Len(s) /\ DOMAIN r = 1 .. Len(r) /\ Len(s) \in Nat /\ Len(r) \in Nat
  OBVIOUS
<1>2. \A i \in DOMAIN r : FrameOK(r[i])
  <2> SUFFICES ASSUME NEW i \in 1 .. Len(r) PROVE FrameOK(r[i])
    BY <1>1
  <2>1. CASE i <= m
    BY <1>1, <2>1 DEF StackOK
  <2>2. CASE i > m
    BY <1>1, <2>2
  <2> QED BY <1>1, <2>1, <2>2
<1>3. \A i \in DOMAIN r : i < Len(r) => Calls(r[i], r[i + 1])
  <2> SUFFICES ASSUME NEW i \in 1 .. Len(r), i < Len(r) PROVE Calls(r[i], r[i + 1])
    BY <1>1
  <2>1. CASE i < m
    <3>1. i \in DOMAIN s /\ i < Len(s) /\ r[i] = s[i] /\ r[i + 1] = s[i + 1]
      BY <1>1, <2>1
    <3> QED BY <3>1 DEF StackOK
  <2>2. CASE i >= m
    BY <1>1, <2>2
  <2> QED BY <1>1, <2>1, <2>2
<1> QED BY <1>2, <1>3 DEF StackOK

CodePart ==
  /\ code' \in [Task -> Seq(Frames)] /\ \A t \in Task : StackOK(code'[t])
  /\ \A t \in Task : t # Fs => code'[t] = code[t]

LEMMA CodeKept == ASSUME CodeInv, RingInv, CodePart, UNCHANGED ring, Alive PROVE CodeInv'
  BY FsIs DEF CodeInv, CodePart

LEMMA AtIs ==
  ASSUME NEW f \in Frames, NEW at \in Stages
  PROVE  LET g == [f EXCEPT !.at = at] IN
         /\ g \in Frames /\ g.at = at /\ g.op = f.op /\ g.dv = f.dv /\ g.blks = f.blks
         /\ g.buf = f.buf /\ g.ok = f.ok /\ g.unlock = f.unlock
  BY DEF Frames

LEMMA FrameIs ==
  ASSUME NEW op \in Ops, NEW dv \in Drv, NEW at \in Stages, NEW blks \in Extents
  PROVE  LET g == Frame(op, dv, at, blks) IN
         g \in Frames /\ g.at = at /\ g.op = op /\ g.dv = dv /\ g.blks = blks /\ g.ok = TRUE
<1>1. NoBuf \in [{} -> Body1]
  BY DEF NoBuf
<1>2. {} \in SUBSET Nat
  OBVIOUS
<1>3. NoBuf \in Bufs
  BY <1>1, <1>2 DEF Bufs
<1> HIDE DEF NoBuf
<1> QED BY <1>3 DEF Frame, Frames

LEMMA NoExtent == {} \in Extents /\ {0} \in Extents
<1>1. 1 .. 0 = {} /\ 0 .. 0 = {0}
  OBVIOUS
<1>2. 1 .. 0 \in Extents /\ 0 .. 0 \in Extents
  BY DEF Extents
<1> QED BY <1>1, <1>2

IsNew(f, op, dv, at) == f \in Frames /\ f.op = op /\ f.dv = dv /\ f.at = at

LEMMA NewCalls ==
  ASSUME NEW dv \in Drv, NEW blks \in Extents
  PROVE  /\ IsNew(Find(dv), "Find", dv, "lock_bd")
         /\ IsNew(BlkRead(dv, blks), "BlkRead", dv, "lock_bd") /\ BlkRead(dv, blks).blks = blks
         /\ IsNew(RedSeaInit(dv), "RedSeaInit", dv, "lock_bd")
         /\ IsNew(RedSeaFmt(dv), "RedSeaFmt", dv, "lock_bd")
         /\ IsNew(DskCacheInvalidate(dv), "DskCacheInvalidate", dv, "lock_bd")
         /\ IsNew(BlkDevInit(dv), "BlkDevInit", dv, "start")
         /\ IsNew(BlkDevAdd(dv), "BlkDevAdd", dv, "added") /\ BlkDevAdd(dv).ok
<1>1. \A op \in Ops, at \in Stages, b \in Extents :
        /\ IsNew(Frame(op, dv, at, b), op, dv, at)
        /\ Frame(op, dv, at, b).blks = b /\ Frame(op, dv, at, b).ok = TRUE
  <2> TAKE op \in Ops, at \in Stages, b \in Extents
  <2>1. LET g == Frame(op, dv, at, b) IN
        g \in Frames /\ g.at = at /\ g.op = op /\ g.dv = dv /\ g.blks = b /\ g.ok = TRUE
    BY FrameIs, Zenon
  <2> QED BY <2>1, Zenon DEF IsNew
<1>2. {} \in Extents /\ {0} \in Extents
  BY NoExtent
<1>3. /\ "lock_bd" \in Stages /\ "start" \in Stages /\ "added" \in Stages
      /\ \A op \in {"Find", "BlkRead", "RedSeaInit", "RedSeaFmt", "DskCacheInvalidate", "BlkDevInit",
                    "BlkDevAdd"} : op \in Ops
  BY DEF Stages, Ops
<1>4. /\ "Find" \in Ops /\ "BlkRead" \in Ops /\ "RedSeaInit" \in Ops /\ "RedSeaFmt" \in Ops
      /\ "DskCacheInvalidate" \in Ops /\ "BlkDevInit" \in Ops /\ "BlkDevAdd" \in Ops
  BY <1>3
<1>5. IsNew(Find(dv), "Find", dv, "lock_bd")
  BY <1>1, <1>2, <1>3, <1>4, Zenon DEF Find
<1>6. IsNew(BlkRead(dv, blks), "BlkRead", dv, "lock_bd") /\ BlkRead(dv, blks).blks = blks
  BY <1>1, <1>3, <1>4, Zenon DEF BlkRead
<1>7. IsNew(RedSeaInit(dv), "RedSeaInit", dv, "lock_bd")
  BY <1>1, <1>2, <1>3, <1>4, Zenon DEF RedSeaInit
<1>8. IsNew(RedSeaFmt(dv), "RedSeaFmt", dv, "lock_bd")
  BY <1>1, <1>2, <1>3, <1>4, Zenon DEF RedSeaFmt
<1>9. IsNew(DskCacheInvalidate(dv), "DskCacheInvalidate", dv, "lock_bd")
  BY <1>1, <1>2, <1>3, <1>4, Zenon DEF DskCacheInvalidate
<1>10. IsNew(BlkDevInit(dv), "BlkDevInit", dv, "start")
  BY <1>1, <1>2, <1>3, <1>4, Zenon DEF BlkDevInit
<1>11. IsNew(BlkDevAdd(dv), "BlkDevAdd", dv, "added") /\ BlkDevAdd(dv).ok
  BY <1>1, <1>2, <1>3, <1>4, Zenon DEF BlkDevAdd
<1> QED BY <1>5, <1>6, <1>7, <1>8, <1>9, <1>10, <1>11, Zenon

LEMMA NewRead ==
  ASSUME NEW dv \in Drv
  PROVE  IsNew(BlkRead(dv, {0}), "BlkRead", dv, "lock_bd") /\ BlkRead(dv, {0}).blks = {0}
<1>1. PICK b \in Extents : b = {0}
  BY NoExtent
<1>2. IsNew(BlkRead(dv, b), "BlkRead", dv, "lock_bd") /\ BlkRead(dv, b).blks = b
  BY NewCalls, Zenon
<1> QED BY <1>1, <1>2

LEMMA BecomeKeeps ==
  ASSUME CodeInv, RingInv, Alive, code[Fs] # <<>>, NEW f \in Frames, Become(f),
         f.op = Top.op, f.dv = Top.dv, f.blks = Top.blks, FrameOK(f), Returned(f)
  PROVE  CodePart
<1> DEFINE s == code[Fs]
           r == code'[Fs]
           n == Len(s)
<1>1. Stacks(n - 1, n) /\ r[n] = f
  BY BecomeIs
<1>2. /\ s \in Seq(Frames) /\ n \in Nat \ {0} /\ StackOK(s) /\ Top = s[n]
      /\ n > 1 => Calls(s[n - 1], Top)
  BY TopIs
<1>3. r \in Seq(Frames) /\ Len(r) = n /\ \A i \in 1 .. n - 1 : r[i] = s[i]
  BY <1>1, FsIs DEF Stacks
<1> HIDE DEF s, r, n
<1>4. n > 1 => Calls(r[n - 1], r[n])
  <2> SUFFICES ASSUME n > 1 PROVE Calls(r[n - 1], r[n])
    OBVIOUS
  <2>1. r[n - 1] = s[n - 1] /\ r[n] = f
    BY <1>1, <1>2, <1>3
  <2>2. Calls(s[n - 1], f)
    BY <1>2 DEF Calls, ReadsBoot
  <2> QED BY <2>1, <2>2
<1>5. StackOK(r)
  <2>1. n - 1 \in Nat /\ n - 1 <= Len(s) /\ n - 1 <= Len(r)
    BY <1>2, <1>3 DEF n
  <2>2. \A i \in n - 1 + 1 .. Len(r) : FrameOK(r[i])
    BY <1>1, <1>2, <1>3
  <2>3. \A i \in n - 1 .. Len(r) - 1 : i > 0 => Calls(r[i], r[i + 1])
    BY <1>2, <1>3, <1>4
  <2> QED BY <1>1, <1>2, <1>3, <2>1, <2>2, <2>3, StackIsOK
<1> QED BY <1>1, <1>5 DEF CodePart, CodeInv, Stacks, r

LEMMA CallKeeps ==
  ASSUME CodeInv, RingInv, Alive, code[Fs] # <<>>, NEW f \in Frames, NEW at \in Stages,
         CallThen(f, at), FrameOK([Top EXCEPT !.at = at]), FrameOK(f), Returned(f),
         Calls([Top EXCEPT !.at = at], f)
  PROVE  CodePart
<1> DEFINE s == code[Fs]
           r == code'[Fs]
           n == Len(s)
           d == [Top EXCEPT !.at = at]
<1>1. Stacks(n - 1, n + 1) /\ r[n] = d /\ r[n + 1] = f
  BY CallIs
<1>2. /\ s \in Seq(Frames) /\ n \in Nat \ {0} /\ StackOK(s) /\ Top = s[n]
      /\ n > 1 => Calls(s[n - 1], Top)
  BY TopIs
<1>3. r \in Seq(Frames) /\ Len(r) = n + 1 /\ \A i \in 1 .. n - 1 : r[i] = s[i]
  BY <1>1, FsIs DEF Stacks
<1>4. d.op = Top.op /\ d.dv = Top.dv /\ d.blks = Top.blks
  BY TopIs, AtIs
<1> HIDE DEF s, r, n, d
<1>5. n > 1 => Calls(r[n - 1], r[n])
  <2> SUFFICES ASSUME n > 1 PROVE Calls(r[n - 1], r[n])
    OBVIOUS
  <2>1. r[n - 1] = s[n - 1] /\ r[n] = d
    BY <1>1, <1>2, <1>3
  <2>2. Calls(s[n - 1], d)
    BY <1>2, <1>4 DEF Calls, ReadsBoot
  <2> QED BY <2>1, <2>2
<1>6. StackOK(r)
  <2>1. n - 1 \in Nat /\ n - 1 <= Len(s) /\ n - 1 <= Len(r)
    BY <1>2, <1>3 DEF n
  <2>2. \A i \in n - 1 + 1 .. Len(r) : FrameOK(r[i])
    BY <1>1, <1>2, <1>3 DEF d
  <2>3. \A i \in n - 1 .. Len(r) - 1 : i > 0 => Calls(r[i], r[i + 1])
    <3>1. Calls(r[n], r[n + 1])
      BY <1>1 DEF d
    <3> QED BY <1>2, <1>3, <1>5, <3>1
  <2> QED BY <1>1, <1>2, <1>3, <2>1, <2>2, <2>3, StackIsOK
<1> QED BY <1>1, <1>6 DEF CodePart, CodeInv, Stacks, r

\* BlkRead has read what its caller looks at.
LEMMA ReturnKeeps ==
  ASSUME CodeInv, RingInv, Alive, code[Fs] # <<>>, NEW ok \in BOOLEAN, ReturnWith(ok),
         Top.op = "BlkRead" => Top.at \in {"unlock", "unlock_dv"}
  PROVE  CodePart
<1> DEFINE s == code[Fs]
           r == code'[Fs]
           n == Len(s)
           c == s[n - 1]
           d == [c EXCEPT !.buf = Top.buf, !.ok = ok]
<1>1. (n = 1 => Stacks(0, 0)) /\ (n > 1 => Stacks(n - 2, n - 1) /\ r[n - 1] = d)
  BY ReturnIs
<1>2. /\ s \in Seq(Frames) /\ n \in Nat \ {0} /\ StackOK(s) /\ Top \in Frames /\ FrameOK(Top)
      /\ n > 1 => c \in Frames /\ FrameOK(c) /\ Calls(c, Top)
  BY TopIs
<1>3. Fs \in Task
  BY FsIs
<1>4. CASE n = 1
  <2>1. r \in Seq(Frames) /\ Len(r) = 0 /\ DOMAIN r = {}
    BY <1>1, <1>3, <1>4 DEF Stacks
  <2> HIDE DEF r
  <2>2. StackOK(r)
    BY <2>1 DEF StackOK
  <2> QED BY <1>1, <1>4, <2>2 DEF CodePart, CodeInv, Stacks, r
<1>5. CASE n > 1
  <2>1. r \in Seq(Frames) /\ Len(r) = n - 1 /\ \A i \in 1 .. n - 2 : r[i] = s[i]
    BY <1>1, <1>3, <1>5 DEF Stacks
  <2>2. /\ d.op = c.op /\ d.dv = c.dv /\ d.at = c.at /\ d.blks = c.blks /\ d.buf = Top.buf
    BY <1>2, <1>5 DEF Frames
  <2> DEFINE k == n - 2
  <2>3. k \in Nat /\ k <= n - 1 /\ n - 1 = k + 1 /\ k < n /\ n \in Nat
    BY <1>2, <1>5
  <2>4. k > 0 => Calls(s[k], c)
    <3>1. k > 0 => k \in DOMAIN s /\ k < Len(s)
      BY <1>2, <2>3
    <3> QED BY <1>2, <2>3, <3>1 DEF StackOK
  <2>5. r[k + 1] = d
    BY <1>1, <1>5, <2>3
  <2> HIDE DEF s, r, n, c, d, k
  <2>6. FrameOK(d)
    <3>1. Calls(c, Top) => ~(c.op = "BlkRead" /\ c.at \in {"unlock", "unlock_dv"})
      BY DEF Calls
    <3> QED BY <1>2, <1>5, <2>2, <3>1 DEF FrameOK
  <2>7. Returned(d)
    <3> SUFFICES ASSUME (d.op = "RedSeaInit" /\ d.at = "read") \/ (d.op = "BlkDevInit" /\ d.at = "validate"),
                        Cached(d.dv)
                 PROVE  0 \in DOMAIN d.buf
      BY DEF Returned
    <3>1. ReadsBoot(c, Top)
      BY <1>2, <1>5, <2>2 DEF Calls
    <3>2. Top.op = "BlkRead" /\ Top.dv = d.dv /\ Top.blks = {0}
      BY <2>2, <3>1 DEF ReadsBoot
    <3> QED BY <1>2, <2>2, <3>2 DEF FrameOK
  <2>8. k > 0 => Calls(r[k], r[k + 1])
    <3> SUFFICES ASSUME k > 0 PROVE Calls(r[k], r[k + 1])
      OBVIOUS
    <3>1. r[k] = s[k]
      BY <2>1, <2>3 DEF k
    <3>2. Calls(s[k], d)
      BY <2>2, <2>4 DEF Calls, ReadsBoot
    <3> QED BY <2>5, <3>1, <3>2
  <2>9. StackOK(r)
    <3>1. k <= Len(s) /\ k <= Len(r) /\ Len(r) = k + 1 /\ \A i \in 1 .. k : r[i] = s[i]
      BY <2>1, <2>3 DEF n, k
    <3>2. \A i \in k + 1 .. Len(r) : FrameOK(r[i])
      BY <2>3, <2>5, <2>6, <3>1
    <3>3. \A i \in k .. Len(r) - 1 : i > 0 => Calls(r[i], r[i + 1])
      BY <2>3, <2>8, <3>1
    <3> QED BY <1>2, <2>1, <2>3, <2>5, <2>7, <3>1, <3>2, <3>3, StackIsOK
  <2> QED BY <1>1, <1>5, <2>9 DEF CodePart, CodeInv, Stacks, r
<1>6. n = 1 \/ n > 1
  <2>1. n \in Nat \ {0}
    BY <1>2
  <2> HIDE DEF n
  <2> QED BY <2>1
<1> QED BY <1>4, <1>5, <1>6, Zenon

LEMMA BeginKeeps ==
  ASSUME CodeInv, RingInv, Alive, NEW s \in Seq(Frames), StackOK(s), code' = [code EXCEPT ![Fs] = s]
  PROVE  CodePart
<1>1. Stacks(0, Len(s)) /\ code'[Fs] = s
  BY BeginIs
<1> QED BY <1>1 DEF CodePart, CodeInv, Stacks

\* Directories of the host are never in the middle of a call of something else.
LEMMA CallerIs ==
  ASSUME NEW s \in Seq(Frames), StackOK(s), NEW i \in 1 .. Len(s) - 1
  PROVE  Type[s[i].dv] # "HOSTFS" /\ s[i].at # "unlock_dv" /\ ~(s[i].op = "BlkRead" /\ s[i].at = "unlock")
<1>1. i \in DOMAIN s /\ i < Len(s) /\ i + 1 \in DOMAIN s
  OBVIOUS
<1>2. FrameOK(s[i]) /\ FrameOK(s[i + 1]) /\ Calls(s[i], s[i + 1])
  BY <1>1 DEF StackOK
<1> QED BY <1>2 DEF FrameOK, Calls, ReadsBoot

\* A task that has made a call, or is back from one, has as yet no lock there.
Fresh(s) ==
  s # <<>> =>
    LET f == s[Len(s)] IN
    ~(f.op = "BlkRead" /\ f.at = "unlock") /\ (Type[f.dv] = "HOSTFS" => f.at \notin HasLock)

LEMMA CallIsFresh ==
  ASSUME CodeInv, RingInv, Alive, code[Fs] # <<>>, NEW f \in Frames, NEW at \in Stages,
         CallThen(f, at), f.at \in {"lock_bd", "start"}
  PROVE  Fresh(code'[Fs])
<1> DEFINE n == Len(code[Fs])
<1>1. Stacks(n - 1, n + 1) /\ code'[Fs][n + 1] = f
  BY CallIs
<1>2. Len(code'[Fs]) = n + 1
  BY <1>1 DEF Stacks
<1> HIDE DEF n
<1> QED BY <1>1, <1>2 DEF Fresh, HasLock, AtWork

LEMMA ReturnIsFresh ==
  ASSUME CodeInv, RingInv, Alive, code[Fs] # <<>>, NEW ok \in BOOLEAN, ReturnWith(ok)
  PROVE  Fresh(code'[Fs])
<1> DEFINE s == code[Fs]
           n == Len(s)
           c == s[n - 1]
           r == code'[Fs]
<1>1. /\ n = 1 => Stacks(0, 0)
      /\ n > 1 => Stacks(n - 2, n - 1) /\ r[n - 1] = [c EXCEPT !.buf = Top.buf, !.ok = ok]
  BY ReturnIs
<1>2. /\ s \in Seq(Frames) /\ n \in Nat \ {0} /\ StackOK(s)
      /\ n > 1 => c \in Frames /\ Calls(c, Top)
  BY TopIs
<1>3. Fs \in Task
  BY FsIs
<1>4. n = 1 => r = <<>>
  <2> SUFFICES ASSUME n = 1 PROVE r = <<>>
    OBVIOUS
  <2>1. Len(r) = 0 /\ r \in Seq(Frames)
    BY <1>1, <1>3 DEF Stacks
  <2> HIDE DEF r
  <2> QED BY <2>1
<1>5. n > 1 => Len(r) = n - 1 /\ r[n - 1].op = c.op /\ r[n - 1].dv = c.dv /\ r[n - 1].at = c.at
  <2>1. n > 1 => Len(r) = n - 1
    BY <1>1 DEF Stacks
  <2> HIDE DEF n, r
  <2> QED BY <1>1, <1>2, <2>1 DEF Frames
<1>6. n > 1 => Type[c.dv] # "HOSTFS" /\ ~(c.op = "BlkRead" /\ c.at = "unlock")
  <2> SUFFICES ASSUME n > 1 PROVE Type[c.dv] # "HOSTFS" /\ ~(c.op = "BlkRead" /\ c.at = "unlock")
    OBVIOUS
  <2> HIDE DEF s, n
  <2>1. n - 1 \in 1 .. n - 1
    BY <1>2
  <2>2. n - 1 \in 1 .. Len(s) - 1
    BY <2>1 DEF n
  <2> QED BY <1>2, <2>2, CallerIs
<1>7. n = 1 \/ n > 1
  <2> HIDE DEF n
  <2> QED BY <1>2
<1> HIDE DEF n, c, r
<1> QED BY <1>4, <1>5, <1>6, <1>7 DEF Fresh, r

\* What the running task's move means for what the others, and it, rely on.
LEMMA HostKept ==
  ASSUME CodeInv, RingInv, Alive, HostInv, CodePart, UNCHANGED killed,
         \A d \in Drv : Type[d] = "HOSTFS" /\ dv_owner[d] \notin {NULL, Fs} => dv_owner'[d] = dv_owner[d],
         code'[Fs] # <<>> =>
           LET f == code'[Fs][Len(code'[Fs])] IN
           Type[f.dv] = "HOSTFS" /\ f.at \in HasLock => dv_owner'[f.dv] = Fs
  PROVE  HostInv'
<1> SUFFICES ASSUME NEW t \in Task \ killed, NEW i \in DOMAIN code'[t],
                    Type[code'[t][i].dv] = "HOSTFS", code'[t][i].at \in HasLock
             PROVE  dv_owner'[code'[t][i].dv] = t
  BY DEF HostInv
<1>1. NULL \notin Task /\ Fs \in Task
  BY FsIs, DevicesAssumption
<1>2. CASE t = Fs
  <2> DEFINE s == code'[Fs]
  <2>1. s \in Seq(Frames) /\ StackOK(s) /\ i \in DOMAIN s
    BY <1>1, <1>2 DEF CodePart
  <2>2. i = Len(s)
    <3> SUFFICES ASSUME i # Len(s) PROVE FALSE
      OBVIOUS
    <3> HIDE DEF s
    <3>1. i \in 1 .. Len(s) - 1
      BY <2>1
    <3> QED BY <1>2, <2>1, <3>1, CallerIs DEF s
  <2>3. s # <<>>
    <3> HIDE DEF s
    <3> QED BY <2>1
  <2> QED BY <1>2, <2>2, <2>3
<1>3. CASE t # Fs
  <2>1. code'[t] = code[t]
    BY <1>3 DEF CodePart
  <2>2. code[t][i] \in Frames
    BY <2>1 DEF CodeInv
  <2>3. dv_owner[code[t][i].dv] = t /\ code[t][i].dv \in Drv
    BY <2>1, <2>2 DEF HostInv, Frames
  <2> QED BY <1>1, <1>3, <2>1, <2>3
<1> QED BY <1>2, <1>3

NoHands == \A t \in Task : ~ Hands(code[t])
LEMMA HandKept == ASSUME RingInv, HandInv, CodePart, ~ Hands(code'[Fs]) PROVE NoHands'
  BY DEF NoHands, HandInv, CodePart

LEMMA NoneHands == ASSUME NoHands', RingInv' PROVE HandInv' /\ ReadsMounted'
<1>1. HandInv'
  BY DEF NoHands, HandInv
<1>2. ~ HandsOver'
  <2> SUFFICES ASSUME HandsOver' PROVE FALSE
    OBVIOUS
  <2>1. Fs' \in Task
    <3>1. \A t \in ToSet(ring') : t \in Task
      BY DEF RingInv, ToSet
    <3> QED BY <3>1 DEF HandsOver, Alive, RingInv
  <2>2. Top' = code'[Fs'][Len(code'[Fs'])]
    BY DEF Top, Last
  <2> QED BY <2>1, <2>2 DEF HandsOver, NoHands, Hands
<1> QED BY <1>1, <1>2 DEF ReadsMounted

-----------------------------------------------------------------------------
(***************************************************************************)
(* Mounts: the lowest three calls of a task tell how far one has come.     *)
(***************************************************************************)
LEMMA MountingIs ==
  ASSUME NEW s \in Seq(Frames), StackOK(s), s # <<>>, s[1].op = "BlkDevAdd"
  PROVE  /\ s[1].dv \in Drv
         /\ Len(s) > 1 => s[2].op = "BlkDevInit" /\ s[2].dv = s[1].dv
         /\ Len(s) > 2 => /\ s[2].at # "start" /\ s[3].op \in Locking
                          /\ s[2].at = "end" /\ Type[s[1].dv] = "ISO" =>
                               s[3].op = "DskCacheInvalidate" /\ s[3].dv = s[1].dv
<1>1. Len(s) \in Nat \ {0} /\ DOMAIN s = 1 .. Len(s) /\ s[1] \in Frames
  OBVIOUS
<1>2. Len(s) > 1 => Calls(s[1], s[2])
  <2>1. Len(s) > 1 => 1 \in DOMAIN s /\ 1 < Len(s)
    BY <1>1
  <2> QED BY <2>1 DEF StackOK
<1>3. Len(s) > 2 => Calls(s[2], s[3])
  <2>1. Len(s) > 2 => 2 \in DOMAIN s /\ 2 < Len(s)
    BY <1>1
  <2> QED BY <2>1 DEF StackOK
<1>4. s[1].dv \in Drv
  BY <1>1 DEF Frames
<1>5. Len(s) > 2 => Len(s) > 1
  BY <1>1
<1>6. Len(s) > 1 => s[2].op = "BlkDevInit" /\ s[2].dv = s[1].dv
  BY <1>2 DEF Calls
<1> QED BY <1>3, <1>4, <1>5, <1>6 DEF Calls, ReadsBoot, Locking

\* A call nothing has been called from yet is that of the first task of a mount.
LEMMA BottomIs ==
  ASSUME NEW s \in Seq(Frames), StackOK(s), s # <<>>, s[Len(s)].op = "BlkDevAdd" PROVE Len(s) = 1
<1> SUFFICES ASSUME Len(s) # 1 PROVE FALSE
  OBVIOUS
<1> DEFINE n == Len(s)
           k == n - 1
<1>1. k \in DOMAIN s /\ k < Len(s) /\ k + 1 = Len(s)
  <2>1. n \in Nat \ {0} /\ n # 1 /\ DOMAIN s = 1 .. n
    OBVIOUS
  <2> HIDE DEF n
  <2>2. k \in 1 .. n /\ k < n /\ k + 1 = n
    BY <2>1
  <2> QED BY <2>1, <2>2 DEF n
<1>2. Calls(s[k], s[k + 1])
  <2> HIDE DEF k
  <2> QED BY <1>1 DEF StackOK
<1> HIDE DEF k
<1> QED BY <1>1, <1>2 DEF Calls, ReadsBoot

\* What a move leaves of the lowest calls.
MoveOf(u) ==
  /\ code'[u] # <<>> => code'[u][1].op = code[u][1].op /\ code'[u][1].dv = code[u][1].dv
  /\ Len(code[u]) > 3 =>
       /\ Len(code'[u]) > 2
       /\ code'[u][1] = code[u][1] /\ code'[u][2] = code[u][2] /\ code'[u][3].at = code[u][3].at

LEMMA BecomeMove ==
  ASSUME CodeInv, RingInv, Alive, code[Fs] # <<>>, NEW f \in Frames, Become(f),
         f.op = Top.op, f.dv = Top.dv, NEW u, u = Fs
  PROVE  MoveOf(u)
<1> DEFINE s == code[u]
           r == code'[u]
           n == Len(s)
<1>1. Stacks(n - 1, n) /\ r[n] = f
  BY BecomeIs
<1>2. n \in Nat \ {0} /\ Top = s[n]
  BY TopIs
<1>3. Len(r) = n /\ \A i \in 1 .. n - 1 : r[i] = s[i]
  BY <1>1 DEF Stacks
<1> HIDE DEF s, r, n
<1>4. CASE n = 1
  BY <1>1, <1>2, <1>4 DEF MoveOf, s, r, n
<1>5. CASE n > 1
  <2>1. r[1] = s[1] /\ (n > 3 => r[2] = s[2] /\ r[3] = s[3])
    BY <1>2, <1>3, <1>5
  <2>2. Len(s) > 3 => Len(r) > 2
    BY <1>2, <1>3 DEF n
  <2> QED BY <2>1, <2>2 DEF MoveOf, s, r, n
<1> QED BY <1>2, <1>4, <1>5

LEMMA CallMove ==
  ASSUME CodeInv, RingInv, Alive, code[Fs] # <<>>, NEW f \in Frames, NEW at \in Stages,
         CallThen(f, at), NEW u, u = Fs
  PROVE  MoveOf(u)
<1> DEFINE s == code[u]
           r == code'[u]
           n == Len(s)
           d == [Top EXCEPT !.at = at]
<1>1. Stacks(n - 1, n + 1) /\ r[n] = d
  BY CallIs
<1>2. n \in Nat \ {0} /\ Top = s[n] /\ d.op = Top.op /\ d.dv = Top.dv
  BY TopIs, AtIs
<1>3. Len(r) = n + 1 /\ \A i \in 1 .. n - 1 : r[i] = s[i]
  BY <1>1 DEF Stacks
<1> HIDE DEF s, r, n, d
<1>4. CASE n = 1
  BY <1>1, <1>2, <1>4 DEF MoveOf, s, r, n
<1>5. CASE n > 1
  <2>1. r[1] = s[1] /\ (n > 3 => r[2] = s[2] /\ r[3] = s[3])
    BY <1>2, <1>3, <1>5
  <2>2. Len(s) > 3 => Len(r) > 2
    BY <1>2, <1>3 DEF n
  <2> QED BY <2>1, <2>2 DEF MoveOf, s, r, n
<1> QED BY <1>2, <1>4, <1>5

LEMMA ReturnMove ==
  ASSUME CodeInv, RingInv, Alive, code[Fs] # <<>>, NEW ok \in BOOLEAN, ReturnWith(ok), NEW u, u = Fs
  PROVE  /\ MoveOf(u)
         /\ Len(code[u]) = 1 => code'[u] = <<>>
         /\ Len(code[u]) = 2 => Len(code'[u]) = 1 /\ code'[u][1].ok = ok
         /\ Len(code[u]) = 3 =>
              Len(code'[u]) = 2 /\ code'[u][1] = code[u][1] /\ code'[u][2].at = code[u][2].at
<1> DEFINE s == code[u]
           r == code'[u]
           n == Len(s)
           c == s[n - 1]
           d == [c EXCEPT !.buf = Top.buf, !.ok = ok]
<1>1. (n = 1 => Stacks(0, 0)) /\ (n > 1 => Stacks(n - 2, n - 1) /\ r[n - 1] = d)
  BY ReturnIs
<1>2. n \in Nat \ {0} /\ (n > 1 => c \in Frames)
  BY TopIs
<1>3. u \in Task
  BY FsIs
<1>4. CASE n = 1
  <2>1. r \in Seq(Frames) /\ Len(r) = 0
    BY <1>1, <1>3, <1>4 DEF Stacks
  <2>2. r = <<>>
    <3> HIDE DEF r
    <3> QED BY <2>1
  <2> QED BY <1>4, <2>2 DEF MoveOf
<1>5. CASE n > 1
  <2>1. Len(r) = n - 1 /\ \A i \in 1 .. n - 2 : r[i] = s[i]
    BY <1>1, <1>5 DEF Stacks
  <2>2. d.op = c.op /\ d.dv = c.dv /\ d.at = c.at /\ d.ok = ok
    BY <1>2, <1>5 DEF Frames
  <2>3. r[n - 1] = d
    BY <1>1, <1>5
  <2> HIDE DEF s, r, n, d
  <2>4. CASE n = 2
    BY <2>1, <2>2, <2>3, <2>4 DEF MoveOf, s, r, n, c
  <2>5. CASE n = 3
    <3>1. r[1] = s[1] /\ r[2].at = s[2].at /\ Len(r) = 2
      BY <2>1, <2>2, <2>3, <2>5 DEF c
    <3> QED BY <2>5, <3>1 DEF MoveOf, s, r, n
  <2>6. CASE n > 3
    <3>1. r[1] = s[1] /\ r[2] = s[2] /\ (n > 4 => r[3] = s[3])
      BY <1>2, <2>1, <2>6
    <3>2. n = 4 => r[3].at = s[3].at
      BY <2>2, <2>3 DEF c
    <3>3. r[3].at = s[3].at /\ Len(r) > 2 /\ n # 1 /\ n # 2 /\ n # 3
      BY <1>2, <2>1, <2>6, <3>1, <3>2
    <3> QED BY <3>1, <3>3 DEF MoveOf, s, r, n
  <2> QED BY <1>2, <1>5, <2>4, <2>5, <2>6
<1>6. n = 1 \/ n > 1
  <2> HIDE DEF n
  <2> QED BY <1>2
<1> QED BY <1>4, <1>5, <1>6, Zenon

\* Opening the file, reading it into the cache and emptying the cache undo nothing of this.
KeepsOpen ==
  /\ \A d \in Drv : Opened(d) => Opened(d)'
  /\ \A d \in Drv : Opened(d) /\ Clean(d) => Clean(d)'

\* The mount the running task is in the middle of, if it is, goes on.
GoesOn(u) == Mounting(u)' => Mounting(u) /\ code'[u][1].dv = code[u][1].dv /\ Progress(u)'

LEMMA StageIs ==
  ASSUME CodeInv, MountInv, NEW t \in Task, Mounting(t)
  PROVE  LET s == code[t]  dv == s[1].dv IN
         /\ s \in Seq(Frames) /\ StackOK(s) /\ s # <<>> /\ Len(s) \in Nat \ {0}
         /\ s[1].op = "BlkDevAdd" /\ dv \in Drv /\ dv \in mounted /\ lock_fwding[dv] = NULL
         /\ Len(s) > 1 => s[2].op = "BlkDevInit" /\ s[2].dv = dv
         /\ Len(s) > 2 => /\ s[2].at # "start" /\ s[3].op \in Locking
                          /\ s[2].at = "end" /\ Type[dv] = "ISO" =>
                               s[3].op = "DskCacheInvalidate" /\ s[3].dv = dv
         /\ Progress(t)
<1>1. code[t] \in Seq(Frames) /\ StackOK(code[t])
  BY DEF CodeInv
<1>2. Len(code[t]) \in Nat \ {0}
  BY <1>1 DEF Mounting
<1> QED BY <1>1, <1>2, MountingIs DEF MountInv, Mounting

LEMMA MountKept ==
  ASSUME CodeInv, RingInv, LockInv, MountInv, CodePart, KeepsOpen, UNCHANGED <<lock_fwding, mounted>>,
         NEW u \in Task, u = Fs, GoesOn(u)
  PROVE  MountInv'
<1>1. ASSUME NEW t \in Task, Mounting(t)'
      PROVE  Mounting(t) /\ code'[t][1].dv = code[t][1].dv /\ Progress(t)'
  <2>1. CASE t = u
    BY <1>1, <2>1 DEF GoesOn
  <2>2. CASE t # u
    <3>1. code'[t] = code[t]
      BY <2>2 DEF CodePart
    <3>2. Mounting(t)
      BY <1>1, <3>1 DEF Mounting
    <3>3. code[t][1].dv \in Drv /\ Progress(t)
      BY <3>2, StageIs
    <3>4. PICK d \in Drv : d = code[t][1].dv /\ d = code'[t][1].dv
      BY <3>1, <3>3
    <3>5. ~ (Len(code[t]) > 1 /\ code[t][2].at = "start")
      BY <2>2, <3>3 DEF Progress
    <3>6. Progress(t)'
      BY <3>1, <3>3, <3>4, <3>5 DEF Progress, KeepsOpen, Opened, Clean, Dropped
    <3> QED BY <3>1, <3>2, <3>6
  <2> QED BY <2>1, <2>2
<1>2. ASSUME NEW t \in Task, Mounting(t)'
      PROVE  /\ code'[t][1].dv \in mounted' /\ lock_fwding'[code'[t][1].dv] = NULL
             /\ \A v \in Task : Mounting(v)' /\ code'[v][1].dv = code'[t][1].dv => v = t
  <2>1. Mounting(t) /\ code'[t][1].dv = code[t][1].dv
    BY <1>1, <1>2
  <2>2. \A v \in Task : Mounting(v)' => Mounting(v) /\ code'[v][1].dv = code[v][1].dv
    BY <1>1
  <2> QED BY <2>1, <2>2 DEF MountInv
<1>3. \A d \in Drv : lock_fwding'[d] # NULL => Opened(d)' /\ Clean(d)'
  BY DEF MountInv, KeepsOpen
<1> QED BY <1>1, <1>2, <1>3 DEF MountInv

\* Deep in the calls, or outside of a mount, nothing of it is decided.
LEMMA DeepGoesOn ==
  ASSUME CodeInv, MountInv, KeepsOpen, CodePart, NEW u \in Task, code[u] # <<>>, MoveOf(u),
         Mounting(u) => Len(code[u]) > 3
  PROVE  GoesOn(u)
<1> SUFFICES ASSUME Mounting(u)' PROVE Mounting(u) /\ code'[u][1].dv = code[u][1].dv /\ Progress(u)'
  BY DEF GoesOn
<1>1. Mounting(u) /\ code'[u][1].dv = code[u][1].dv
  BY DEF Mounting, MoveOf
<1>2. /\ Len(code'[u]) > 2 /\ code'[u][1] = code[u][1] /\ code'[u][2] = code[u][2]
      /\ code'[u][3].at = code[u][3].at /\ Len(code[u]) > 3
  BY <1>1 DEF MoveOf
<1>3. /\ code[u][1].dv \in Drv /\ Progress(u) /\ Len(code[u]) \in Nat
      /\ Len(code[u]) > 2 => code[u][2].at # "start"
  BY <1>1, StageIs
<1>4. PICK d \in Drv : d = code[u][1].dv /\ d = code'[u][1].dv
  BY <1>2, <1>3
<1>5. PICK n \in Nat, m \in Nat : n = Len(code[u]) /\ m = Len(code'[u])
  <2>1. code'[u] \in Seq(Frames)
    BY DEF CodePart
  <2> QED BY <1>3, <2>1
<1>6. n # 1 /\ n # 2 /\ n > 1 /\ n > 2 /\ m # 1 /\ m # 2 /\ m > 1
  BY <1>2, <1>5
<1>7. Progress(u)'
  BY <1>2, <1>3, <1>4, <1>5, <1>6 DEF Progress, KeepsOpen, Opened, Clean, Dropped
<1> QED BY <1>1, <1>7

\* The third call is what the device's initialisation is waiting for.
Done == {"unlock", "unlock_dv"}

LEMMA ThirdGoesOn ==
  ASSUME CodeInv, MountInv, KeepsOpen, CodePart, NEW u \in Task, Mounting(u),
         Len(code[u]) = 3, Len(code'[u]) > 2,
         code'[u][1] = code[u][1], code'[u][2] = code[u][2],
         NEW d \in Drv, d = code[u][1].dv,
         code[u][2].at = "end" /\ Type[d] = "ISO" /\ code'[u][3].at \in Done =>
           code[u][3].at \in Done \/ Clean(d)'
  PROVE  GoesOn(u)
<1>1. /\ Progress(u) /\ code[u][2].at # "start"
      /\ d = code'[u][1].dv
  BY StageIs
<1>2. PICK m \in Nat : m = Len(code'[u]) /\ m # 1 /\ m # 2 /\ m > 1
  <2>1. code'[u] \in Seq(Frames)
    BY DEF CodePart
  <2>2. PICK m \in Nat : m = Len(code'[u])
    BY <2>1
  <2>3. m # 1 /\ m # 2 /\ m > 1
    BY <2>2
  <2> QED BY <2>2, <2>3
<1>3. Progress(u)'
  BY <1>1, <1>2 DEF Progress, KeepsOpen, Opened, Clean, Dropped, Done
<1> QED BY <1>1, <1>3 DEF GoesOn

LEMMA LockingIs ==
  ASSUME CodeInv, RingInv, MountInv, Alive, code[Fs] # <<>>, Top.op \in Locking, NEW u \in Task, u = Fs,
         Mounting(u)
  PROVE  Len(code[u]) = 3 \/ Len(code[u]) > 3
<1> DEFINE n == Len(code[u])
<1>1. n \in Nat \ {0} /\ Top = code[u][n]
  BY TopIs
<1>2. code[u][1].op \notin Locking /\ (n > 1 => code[u][2].op \notin Locking)
  BY StageIs DEF Locking
<1>3. n # 1 /\ n # 2
  BY <1>1, <1>2
<1> HIDE DEF n
<1>4. n = 3 \/ n > 3
  BY <1>1, <1>3
<1> QED BY <1>4 DEF n

LEMMA BecomeGoesOn ==
  ASSUME CodeInv, RingInv, MountInv, Alive, code[Fs] # <<>>, Top.op \in Locking, KeepsOpen, CodePart,
         NEW f \in Frames, Become(f), f.op = Top.op, f.dv = Top.dv, NEW u \in Task, u = Fs,
         Top.op = "DskCacheInvalidate" /\ f.at \in Done =>
           Top.at \in Done \/ \A d \in Drv : d = Top.dv /\ Type[d] = "ISO" => Clean(d)'
  PROVE  GoesOn(u)
<1>1. MoveOf(u)
  BY BecomeMove
<1>2. CASE Mounting(u) /\ Len(code[u]) = 3
  <2>1. Stacks(2, 3) /\ code'[Fs][3] = f
    <3>1. Stacks(Len(code[Fs]) - 1, Len(code[Fs])) /\ code'[Fs][Len(code[Fs])] = f
      BY BecomeIs
    <3>2. Len(code[Fs]) - 1 = 2
      BY <1>2
    <3> QED BY <1>2, <3>1, <3>2
  <2>2. Len(code'[u]) = 3 /\ code'[u][1] = code[u][1] /\ code'[u][2] = code[u][2] /\ code'[u][3] = f
    BY <2>1 DEF Stacks
  <2>3. PICK d \in Drv : d = code[u][1].dv
    BY <1>2, StageIs
  <2>4. Top = code[u][3] /\ 3 > 2
    BY <1>2, TopIs
  <2>5. code[u][2].at = "end" /\ Type[d] = "ISO" => Top.op = "DskCacheInvalidate" /\ Top.dv = d
    BY <1>2, <2>3, <2>4, StageIs
  <2>6. Len(code'[u]) > 2
    BY <2>2
  <2> QED BY <1>2, <2>2, <2>3, <2>4, <2>5, <2>6, ThirdGoesOn
<1>3. CASE ~ (Mounting(u) /\ Len(code[u]) = 3)
  <2>1. Mounting(u) => Len(code[u]) > 3
    BY <1>3, LockingIs, Zenon
  <2> QED BY <1>1, <2>1, DeepGoesOn
<1> QED BY <1>2, <1>3

LEMMA CallGoesOn ==
  ASSUME CodeInv, RingInv, MountInv, Alive, code[Fs] # <<>>, Top.op \in Locking, KeepsOpen, CodePart,
         NEW f \in Frames, NEW at \in Stages, CallThen(f, at), NEW u \in Task, u = Fs,
         Top.op = "DskCacheInvalidate" => at \notin Done
  PROVE  GoesOn(u)
<1>1. MoveOf(u)
  BY CallMove
<1>2. CASE Mounting(u) /\ Len(code[u]) = 3
  <2>1. Stacks(2, 4) /\ code'[Fs][3] = [Top EXCEPT !.at = at]
    <3>1. Stacks(Len(code[Fs]) - 1, Len(code[Fs]) + 1) /\ code'[Fs][Len(code[Fs])] = [Top EXCEPT !.at = at]
      BY CallIs
    <3>2. Len(code[Fs]) - 1 = 2 /\ Len(code[Fs]) + 1 = 4
      BY <1>2
    <3> QED BY <1>2, <3>1, <3>2
  <2>2. Len(code'[u]) = 4 /\ code'[u][1] = code[u][1] /\ code'[u][2] = code[u][2] /\ code'[u][3].at = at
    <3>1. [Top EXCEPT !.at = at].at = at
      BY TopIs, AtIs
    <3> QED BY <2>1, <3>1 DEF Stacks
  <2>3. PICK d \in Drv : d = code[u][1].dv
    BY <1>2, StageIs
  <2>4. Top = code[u][3] /\ 3 > 2
    BY <1>2, TopIs
  <2>5. code[u][2].at = "end" /\ Type[d] = "ISO" => Top.op = "DskCacheInvalidate" /\ Top.dv = d
    BY <1>2, <2>3, <2>4, StageIs
  <2>6. Len(code'[u]) > 2
    BY <2>2
  <2> QED BY <1>2, <2>2, <2>3, <2>4, <2>5, <2>6, ThirdGoesOn
<1>3. CASE ~ (Mounting(u) /\ Len(code[u]) = 3)
  <2>1. Mounting(u) => Len(code[u]) > 3
    BY <1>3, LockingIs, Zenon
  <2> QED BY <1>1, <2>1, DeepGoesOn
<1> QED BY <1>2, <1>3

LEMMA ReturnGoesOn ==
  ASSUME CodeInv, RingInv, MountInv, Alive, code[Fs] # <<>>, Top.op \in Locking, Top.at \in Done,
         KeepsOpen, CodePart, NEW ok \in BOOLEAN, ReturnWith(ok), NEW u \in Task, u = Fs
  PROVE  GoesOn(u)
<1>1. MoveOf(u)
  BY ReturnMove
<1>2. CASE Mounting(u) /\ Len(code[u]) = 3
  <2>1. Len(code'[u]) = 2 /\ code'[u][1] = code[u][1] /\ code'[u][2].at = code[u][2].at
    BY <1>2, ReturnMove
  <2>2. PICK d \in Drv : d = code[u][1].dv /\ d = code'[u][1].dv
    BY <1>2, <2>1, StageIs
  <2>3. Top = code[u][3] /\ 3 > 2 /\ 3 > 1
    BY <1>2, TopIs
  <2>4. Progress(u) /\ code[u][2].at # "start"
    BY <1>2, <2>3, StageIs
  <2>5. code[u][3].at \in Done
    BY <2>3
  <2>6. Progress(u)'
    BY <1>2, <2>1, <2>2, <2>3, <2>4, <2>5 DEF Progress, KeepsOpen, Opened, Clean, Dropped, Done
  <2> QED BY <1>2, <2>2, <2>6 DEF GoesOn
<1>3. CASE ~ (Mounting(u) /\ Len(code[u]) = 3)
  <2>1. Mounting(u) => Len(code[u]) > 3
    BY <1>3, LockingIs, Zenon
  <2> QED BY <1>1, <2>1, DeepGoesOn
<1> QED BY <1>2, <1>3

-----------------------------------------------------------------------------
(***************************************************************************)
(* The ring, the locks, and a move of the running task.                    *)
(***************************************************************************)
LEMMA PlaceIs ==
  ASSUME RingInv, Fs # NULL
  PROVE  /\ ring \in Seq(Task) /\ Len(ring) \in Nat \ {0} /\ DOMAIN ring = 1 .. Len(ring)
         /\ PlaceIn(ring, Fs) \in 1 .. Len(ring) /\ ring[PlaceIn(ring, Fs)] = Fs
<1>1. \E i \in DOMAIN ring : ring[i] = Fs
  BY DEF RingInv, ToSet
<1>2. PlaceIn(ring, Fs) \in DOMAIN ring /\ ring[PlaceIn(ring, Fs)] = Fs
  BY <1>1, Zenon DEF PlaceIn
<1>3. ring \in Seq(Task)
  BY DEF RingInv
<1> QED BY <1>2, <1>3

LEMMA NextIs ==
  ASSUME RingInv, Fs # NULL PROVE NextIn(ring, Fs) \in ToSet(ring) /\ NextIn(ring, Fs) \in Task
<1> DEFINE k == PlaceIn(ring, Fs)
           n == Len(ring)
<1>1. n \in Nat \ {0} /\ k \in 1 .. n /\ DOMAIN ring = 1 .. n /\ ring \in Seq(Task)
  BY PlaceIs
<1> HIDE DEF k, n
<1>2. (k % n) + 1 \in 1 .. n
  BY <1>1
<1>3. NextIn(ring, Fs) = ring[(k % n) + 1]
  BY DEF NextIn, k, n
<1> QED BY <1>1, <1>2, <1>3 DEF ToSet

LEMMA RingKept ==
  ASSUME RingInv, Fs # NULL, UNCHANGED <<ring, killed>>, Yield \/ UNCHANGED Fs PROVE RingInv'
<1>1. Fs' \in ToSet(ring)
  BY NextIs DEF Yield, RingInv
<1> QED BY <1>1 DEF RingInv

\* The running task takes locks and lets go of them; a directory of the host is taken
\* from nobody.
Owners ==
  /\ bd_owner' \in [Drv -> Task \cup {NULL}] /\ dv_owner' \in [Drv -> Task \cup {NULL}]
  /\ \A d \in Drv : bd_owner'[d] \in {bd_owner[d], Fs, NULL} /\ dv_owner'[d] \in {dv_owner[d], Fs, NULL}
  /\ \A d \in Drv : Type[d] = "HOSTFS" /\ dv_owner[d] \notin {NULL, Fs} => dv_owner'[d] = dv_owner[d]

LEMMA OwnersKept == ASSUME LockInv, UNCHANGED <<bd_owner, dv_owner>> PROVE Owners
  BY DEF Owners, LockInv

LEMMA BdOwner ==
  ASSUME LockInv, NEW d \in Drv, NEW t \in {Fs, NULL}, t \in Task \cup {NULL},
         bd_owner' = [bd_owner EXCEPT ![d] = t], UNCHANGED dv_owner
  PROVE  Owners
  BY DEF Owners, LockInv

LEMMA DvOwner ==
  ASSUME LockInv, NEW d \in Drv, NEW t \in {Fs, NULL}, t \in Task \cup {NULL},
         dv_owner' = [dv_owner EXCEPT ![d] = t], UNCHANGED bd_owner,
         Type[d] = "HOSTFS" => dv_owner[d] \in {NULL, Fs}
  PROVE  Owners
  BY DEF Owners, LockInv

\* Root is a drive that is mounted if d is, and the Root of itself.
LEMMA RootIs ==
  ASSUME LockInv, NEW d \in Drv
  PROVE  /\ Root(d) \in Drv /\ Root(Root(d)) = Root(d)
         /\ Root(d) # d => Type[Root(d)] = "HOSTFS" /\ Type[d] = "ISO" /\ Root(d) = FileDrv[d]
         /\ d \in mounted => Root(d) \in mounted
<1>1. lock_fwding[d] # NULL => lock_fwding[d] = FileDrv[d] /\ Type[d] = "ISO"
  BY DevicesAssumption DEF LockInv
<1>2. Type[d] = "ISO" => FileDrv[d] \in Drv /\ Type[FileDrv[d]] = "HOSTFS"
  BY DevicesAssumption
<1>3. \A e \in Drv : Type[e] = "HOSTFS" => lock_fwding[e] = NULL /\ e \in mounted
  BY DevicesAssumption DEF LockInv
<1> QED BY <1>1, <1>2, <1>3 DEF Root

LEMMA DeadKept ==
  ASSUME LockInv, DeadHoldNothing, Owners, UNCHANGED <<ring, lock_fwding>>, mounted' \subseteq mounted,
         Fs \in ToSet(ring)
  PROVE  DeadHoldNothing'
<1> SUFFICES ASSUME NEW t \in Task, t \notin ToSet(ring), NEW d \in mounted'
             PROVE  t \notin {bd_owner'[Root(d)], dv_owner'[d]}
  BY DEF DeadHoldNothing, Root
<1>1. d \in Drv /\ d \in mounted /\ Root(d) \in Drv
  BY RootIs DEF LockInv
<1>2. t \notin {bd_owner[Root(d)], dv_owner[d]} /\ t # NULL /\ t # Fs
  BY <1>1, DevicesAssumption DEF DeadHoldNothing
<1> QED BY <1>1, <1>2 DEF Owners

\* What the running task is at now it has the lock for, and hands nothing over.
LockHeld ==
  code'[Fs] # <<>> =>
    LET f == code'[Fs][Len(code'[Fs])] IN Type[f.dv] = "HOSTFS" /\ f.at \in HasLock => dv_owner'[f.dv] = Fs
HandsNothing ==
  code'[Fs] # <<>> =>
    LET f == code'[Fs][Len(code'[Fs])] IN ~(f.op = "BlkRead" /\ f.at = "unlock")
HasIt == LockHeld /\ HandsNothing

\* A move of the running task,
LEMMA MoveKeepsMost ==
  ASSUME IInv, Alive, UNCHANGED <<uses, ring, killed, mounted, lock_fwding>>, Yield \/ UNCHANGED Fs,
         CodePart, Owners, LockHeld, KeepsOpen, \A u \in Task : u = Fs => GoesOn(u)
  PROVE  CodeInv' /\ RingInv' /\ LockInv' /\ HostInv' /\ MountInv' /\ DeadHoldNothing'
<1> USE DEF IInv
<1>1. Fs \in Task /\ Fs \in ToSet(ring)
  BY FsIs
<1>2. CodeInv'
  BY CodeKept
<1>3. RingInv'
  BY RingKept DEF Alive
<1>4. LockInv'
  BY DEF LockInv, Owners
<1>5. HostInv'
  BY HostKept DEF Owners, LockHeld
<1>6. MountInv'
  BY <1>1, MountKept
<1>7. DeadHoldNothing'
  BY <1>1, DeadKept
<1> QED BY <1>2, <1>3, <1>4, <1>5, <1>6, <1>7

\* and one other than to hand over what it has read.
LEMMA MoveKeeps ==
  ASSUME IInv, Alive, UNCHANGED <<uses, ring, killed, mounted, lock_fwding>>, Yield \/ UNCHANGED Fs,
         CodePart, Owners, HasIt, DeviceInv', KeepsOpen, \A u \in Task : u = Fs => GoesOn(u)
  PROVE  IInv'
<1>1. CodeInv' /\ RingInv' /\ LockInv' /\ HostInv' /\ MountInv' /\ DeadHoldNothing'
  BY MoveKeepsMost DEF HasIt
<1>2. ~ Hands(code'[Fs])
  BY DEF Hands, HasIt, HandsNothing
<1>3. HandInv' /\ ReadsMounted'
  BY <1>1, <1>2, HandKept, NoneHands DEF IInv
<1> QED BY <1>1, <1>3 DEF IInv

\* No move: no task can be about to initialise a device, or to hand over what it read.
LEMMA QuietKeeps ==
  ASSUME IInv, UNCHANGED <<uses, ring, killed, mounted, lock_fwding, name, file_dsk, cache, code>>,
         Fs \in Task, Yield \/ UNCHANGED Fs \/ Fs' = NULL, DeviceInv',
         Owners, Alive => UNCHANGED dv_owner,
         Alive => code[Fs] = <<>> \/ (Top.op \in Locking /\ Top.at # "unlock")
  PROVE  IInv'
<1> USE DEF IInv
<1>1. Fs # NULL /\ Fs \in ToSet(ring)
  BY DevicesAssumption DEF RingInv
<1>2. CodeInv'
  BY DEF CodeInv
<1>3. RingInv'
  <2>1. CASE Fs' = NULL
    BY <2>1 DEF RingInv
  <2>2. CASE Fs' # NULL
    BY <1>1, <2>2, RingKept
  <2> QED BY <2>1, <2>2
<1>4. LockInv'
  BY DEF LockInv, Owners
<1>5. HostInv'
  <2> SUFFICES ASSUME NEW t \in Task \ killed, NEW i \in DOMAIN code[t],
                      Type[code[t][i].dv] = "HOSTFS", code[t][i].at \in HasLock
               PROVE  dv_owner'[code[t][i].dv] = t
    BY DEF HostInv
  <2>1. code[t][i] \in Frames
    BY DEF CodeInv
  <2>2. code[t][i].dv \in Drv /\ dv_owner[code[t][i].dv] = t
    BY <2>1 DEF HostInv, Frames
  <2>3. t # NULL
    BY DevicesAssumption
  <2>4. CASE t # Fs
    BY <2>2, <2>3, <2>4 DEF Owners
  <2>5. CASE t = Fs
    BY <1>1, <2>2, <2>5 DEF Alive
  <2> QED BY <2>4, <2>5
<1>6. MountInv'
  <2>1. ASSUME NEW t \in Task, Mounting(t), Len(code[t]) > 1, code[t][2].at = "start" PROVE FALSE
    <3>1. t = Fs /\ Alive
      BY <2>1 DEF MountInv, Progress
    <3>2. Len(code[t]) = 3 \/ Len(code[t]) > 3
      BY <2>1, <3>1, LockingIs DEF Mounting
    <3>3. Len(code[t]) > 2
      <4> DEFINE n == Len(code[t])
      <4>1. n \in Nat
        BY <2>1, StageIs
      <4>2. n = 3 \/ n > 3
        BY <3>2
      <4> HIDE DEF n
      <4>3. n > 2
        BY <4>1, <4>2
      <4> QED BY <4>3 DEF n
    <3> QED BY <2>1, <3>3, StageIs
  <2>2. \A t \in Task : Mounting(t)' <=> Mounting(t)
    BY DEF Mounting
  <2>3. \A t \in Task : Mounting(t) => Progress(t)'
    <3> SUFFICES ASSUME NEW t \in Task, Mounting(t) PROVE Progress(t)'
      OBVIOUS
    <3>1. Progress(t) /\ ~ (Len(code[t]) > 1 /\ code[t][2].at = "start")
      BY <2>1 DEF MountInv
    <3> QED BY <3>1 DEF Progress, Opened, Clean, Dropped
  <2> QED BY <2>2, <2>3 DEF MountInv, Opened, Clean
<1>7. NoHands'
  <2> SUFFICES ASSUME NEW t \in Task, Hands(code[t]) PROVE FALSE
    BY DEF NoHands
  <2>1. t = Fs /\ Alive
    BY DEF HandInv
  <2> QED BY <2>1, TopIs DEF Hands
<1>8. HandInv' /\ ReadsMounted'
  BY <1>3, <1>7, NoneHands
<1>9. DeadHoldNothing'
  BY <1>1, DeadKept
<1> QED BY <1>2, <1>3, <1>4, <1>5, <1>6, <1>8, <1>9

\* A call that takes a lock goes on,
LEMMA BecomeStep ==
  ASSUME IInv, Alive, UNCHANGED <<uses, ring, killed, mounted, lock_fwding>>, Yield \/ UNCHANGED Fs,
         Owners, DeviceInv', KeepsOpen,
         code[Fs] # <<>>, Top.op \in Locking,
         NEW f \in Frames, Become(f), f.op = Top.op, f.dv = Top.dv, f.blks = Top.blks, FrameOK(f), Returned(f),
         ~(f.op = "BlkRead" /\ f.at = "unlock"),
         Type[f.dv] = "HOSTFS" /\ f.at \in HasLock => dv_owner'[f.dv] = Fs,
         Top.op = "DskCacheInvalidate" /\ f.at \in Done =>
           Top.at \in Done \/ \A d \in Drv : d = Top.dv /\ Type[d] = "ISO" => Clean(d)'
  PROVE  IInv'
<1>1. CodePart
  BY BecomeKeeps DEF IInv
<1>2. \A u \in Task : u = Fs => GoesOn(u)
  BY <1>1, BecomeGoesOn DEF IInv
<1>3. HasIt
  <2>1. Len(code'[Fs]) = Len(code[Fs]) /\ code'[Fs][Len(code[Fs])] = f
    BY BecomeIs DEF IInv, Stacks
  <2> QED BY <2>1 DEF HasIt, LockHeld, HandsNothing
<1> QED BY <1>1, <1>2, <1>3, MoveKeeps

LEMMA GoToStep ==
  ASSUME IInv, Alive, UNCHANGED <<uses, ring, killed, mounted, lock_fwding>>, Yield \/ UNCHANGED Fs,
         Owners, DeviceInv', KeepsOpen,
         code[Fs] # <<>>, Top.op \in Locking,
         NEW at \in Stages, GoTo(at), at # "read",
         Top.op = "BlkRead" => at # "unlock" /\ (at \in Done => Top.at \in Done),
         Type[Top.dv] = "HOSTFS" /\ at \in HasLock => dv_owner'[Top.dv] = Fs,
         Top.op = "DskCacheInvalidate" /\ at \in Done =>
           Top.at \in Done \/ \A d \in Drv : d = Top.dv /\ Type[d] = "ISO" => Clean(d)'
  PROVE  IInv'
<1> DEFINE f == [Top EXCEPT !.at = at]
<1>1. Top \in Frames /\ FrameOK(Top)
  BY TopIs DEF IInv
<1>2. /\ f \in Frames /\ f.at = at /\ f.op = Top.op /\ f.dv = Top.dv /\ f.blks = Top.blks
      /\ f.buf = Top.buf
  BY <1>1, AtIs
<1>3. Become(f)
  BY DEF GoTo
<1> HIDE DEF f
<1>4. FrameOK(f) /\ Returned(f)
  BY <1>1, <1>2 DEF FrameOK, Returned, Locking, Done
<1>5. Type[f.dv] = "HOSTFS" /\ f.at \in HasLock => dv_owner'[f.dv] = Fs
  BY <1>2
<1>6. /\ ~(f.op = "BlkRead" /\ f.at = "unlock")
      /\ Top.op = "DskCacheInvalidate" /\ f.at \in Done =>
           Top.at \in Done \/ \A d \in Drv : d = Top.dv /\ Type[d] = "ISO" => Clean(d)'
  BY <1>2
<1> QED BY <1>2, <1>3, <1>4, <1>5, <1>6, BecomeStep

\* calls another,
LEMMA CallStep ==
  ASSUME IInv, Alive, UNCHANGED <<uses, ring, killed, mounted, lock_fwding>>, UNCHANGED Fs,
         Owners, DeviceInv', KeepsOpen,
         code[Fs] # <<>>, Top.op \in Locking,
         NEW f \in Frames, NEW at \in Stages, CallThen(f, at), FrameOK(f), f.at \in {"lock_bd", "start"},
         \A d \in Frames : d.op = Top.op /\ d.dv = Top.dv /\ d.at = at => Calls(d, f),
         Top.op \in {"BlkRead", "DskCacheInvalidate"} => at \notin Done
  PROVE  IInv'
<1> DEFINE d == [Top EXCEPT !.at = at]
<1>1. Top \in Frames /\ FrameOK(Top)
  BY TopIs DEF IInv
<1>2. /\ d \in Frames /\ d.at = at /\ d.op = Top.op /\ d.dv = Top.dv /\ d.blks = Top.blks
      /\ d.buf = Top.buf
  BY <1>1, AtIs
<1> HIDE DEF d
<1>3. FrameOK(d) /\ Returned(f) /\ Calls(d, f)
  BY <1>1, <1>2 DEF FrameOK, Returned, Locking, Done
<1>4. CodePart
  BY <1>3, CallKeeps DEF IInv, d
<1>5. \A u \in Task : u = Fs => GoesOn(u)
  BY <1>4, CallGoesOn DEF IInv
<1>6. Fresh(code'[Fs])
  BY CallIsFresh DEF IInv
<1>7. HasIt
  BY <1>6 DEF HasIt, LockHeld, HandsNothing, Fresh
<1> QED BY <1>4, <1>5, <1>7, MoveKeeps

\* and comes back.
LEMMA ReturnStep ==
  ASSUME IInv, Alive, UNCHANGED <<uses, ring, killed, mounted, lock_fwding>>, Yield \/ UNCHANGED Fs,
         Owners, DeviceInv', KeepsOpen,
         code[Fs] # <<>>, Top.op \in Locking, Top.at \in Done, Return
  PROVE  IInv'
<1>1. CodePart
  BY ReturnKeeps DEF IInv, Return, Done
<1>2. \A u \in Task : u = Fs => GoesOn(u)
  BY <1>1, ReturnGoesOn DEF IInv, Return
<1>3. Fresh(code'[Fs])
  BY ReturnIsFresh DEF IInv, Return
<1>4. HasIt
  BY <1>3 DEF HasIt, LockHeld, HandsNothing, Fresh
<1> QED BY <1>1, <1>2, <1>4, MoveKeeps

\* What a step of the locks leaves alone.
LEMMA DevicesKept ==
  ASSUME IInv, UNCHANGED <<uses, devices, cache>> PROVE DeviceInv' /\ KeepsOpen
  BY DEF IInv, DeviceInv, KeepsOpen, Opened, Clean, devices, IsCache

-----------------------------------------------------------------------------
(***************************************************************************)
(* Each action keeps the invariant.                                        *)
(***************************************************************************)
LEMMA LockBlkDevKeeps == ASSUME IInv, LockBlkDev PROVE IInv'
<1>1. /\ Alive /\ code[Fs] # <<>> /\ Top.op \in Locking /\ Top.at = "lock_bd"
      /\ UNCHANGED <<uses, ring, killed, mounted, lock_fwding>>
  BY DEF LockBlkDev, At, devices
<1>2. DeviceInv' /\ KeepsOpen
  BY DevicesKept DEF LockBlkDev
<1>3. Fs \in Task /\ Root(Top.dv) \in Drv
  BY <1>1, FsIs, TopIs, RootIs DEF IInv, Frames
<1>4. CASE Free(bd_owner[Root(Top.dv)])
  <2>1. Owners
    <3>1. PICK d \in Drv : d = Root(Top.dv)
      BY <1>3
    <3> QED BY <1>3, <1>4, <3>1, BdOwner DEF LockBlkDev, IInv
  <2>2. GoTo("lock_dv") /\ UNCHANGED Fs
    BY <1>4 DEF LockBlkDev
  <2>3. PICK at \in Stages : at = "lock_dv"
    BY DEF Stages
  <2>4. GoTo(at) /\ at # "read" /\ at # "unlock" /\ at \notin HasLock /\ at \notin Done
    BY <2>2, <2>3 DEF HasLock, AtWork, Done
  <2> QED BY <1>1, <1>2, <2>1, <2>2, <2>4, GoToStep
<1>5. CASE ~ Free(bd_owner[Root(Top.dv)])
  BY <1>1, <1>2, <1>3, <1>5, OwnersKept, QuietKeeps DEF LockBlkDev, IInv, devices
<1> QED BY <1>4, <1>5

LEMMA LockDrvKeeps == ASSUME IInv, LockDrv PROVE IInv'
<1>1. /\ Alive /\ code[Fs] # <<>> /\ Top.op \in Locking /\ Top.at = "lock_dv"
      /\ UNCHANGED <<uses, ring, killed, mounted, lock_fwding>>
  BY DEF LockDrv, At, devices
<1>2. DeviceInv' /\ KeepsOpen
  BY DevicesKept DEF LockDrv
<1>3. Fs \in Task /\ Top \in Frames /\ FrameOK(Top)
  BY <1>1, FsIs, TopIs DEF IInv
<1>4. CASE Free(dv_owner[Top.dv])
  <2> DEFINE b == (dv_owner[Top.dv] = NULL)
             f == [Top EXCEPT !.at = Body(Top.op), !.unlock = b]
  <2>1. /\ f \in Frames /\ f.op = Top.op /\ f.dv = Top.dv /\ f.blks = Top.blks
        /\ f.at = Body(Top.op)
    <3>1. b \in BOOLEAN
      BY Zenon
    <3>2. Body(Top.op) \in Stages
      <4> HIDE DEF b
      <4> QED BY DEF Body, Stages
    <3>3. f = [Top EXCEPT !.at = Body(Top.op), !.unlock = b]
      OBVIOUS
    <3> HIDE DEF b, f
    <3>4. PICK c \in BOOLEAN, at \in Stages, g \in Frames : c = b /\ at = Body(Top.op) /\ g = Top
      BY <1>3, <3>1, <3>2, Zenon
    <3>5. f = [g EXCEPT !.at = at, !.unlock = c]
      BY <3>3, <3>4, Zenon
    <3>6. f \in Frames /\ f.at = at /\ f.op = g.op /\ f.dv = g.dv /\ f.blks = g.blks
      BY <3>5 DEF Frames
    <3> QED BY <3>4, <3>6, Zenon
  <2>2. Become(f) /\ UNCHANGED Fs /\ dv_owner' = [dv_owner EXCEPT ![Top.dv] = Fs]
    BY <1>4 DEF LockDrv
  <2> HIDE DEF f
  <2>3. PICK d \in Drv : d = Top.dv
    BY <1>3 DEF Frames
  <2>4. Owners
    BY <1>3, <1>4, <2>2, <2>3, DvOwner DEF LockDrv, IInv, Free
  <2>5. dv_owner'[f.dv] = Fs
    BY <2>1, <2>2, <2>3 DEF IInv, LockInv
  <2>6. FrameOK(f) /\ Returned(f) /\ f.at \notin Done
    BY <1>1, <1>3, <2>1 DEF FrameOK, Returned, Locking, Done, Body
  <2> QED BY <1>1, <1>2, <2>1, <2>2, <2>4, <2>5, <2>6, BecomeStep DEF Done
<1>5. CASE ~ Free(dv_owner[Top.dv])
  BY <1>1, <1>2, <1>3, <1>5, OwnersKept, QuietKeeps DEF LockDrv, IInv, devices
<1> QED BY <1>4, <1>5

\* An operation on a directory of the host that is at work, or through, has it locked.
LEMMA HostTop ==
  ASSUME IInv, Alive, code[Fs] # <<>>, Type[Top.dv] = "HOSTFS", Top.at \in HasLock
  PROVE  dv_owner[Top.dv] = Fs
<1>1. Fs \in Task \ killed
  BY FsIs DEF IInv, Alive
<1>2. Top = code[Fs][Len(code[Fs])] /\ Len(code[Fs]) \in DOMAIN code[Fs]
  BY TopIs DEF IInv
<1> QED BY <1>1, <1>2 DEF IInv, HostInv

LEMMA UnlockBlkDevKeeps == ASSUME IInv, UnlockBlkDev PROVE IInv'
<1>1. /\ Alive /\ code[Fs] # <<>> /\ Top.op \in Locking /\ Top.at = "unlock" /\ Top.at \in Done
      /\ UNCHANGED <<uses, ring, killed, mounted, lock_fwding>> /\ UNCHANGED dv_owner
  BY DEF UnlockBlkDev, At, devices, Done
<1>2. DeviceInv' /\ KeepsOpen
  BY DevicesKept DEF UnlockBlkDev
<1>3. CASE ~ Unlocks(Top)
  <2>1. Return /\ UNCHANGED Fs /\ UNCHANGED <<bd_owner, dv_owner>>
    BY <1>3 DEF UnlockBlkDev
  <2> QED BY <1>1, <1>2, <2>1, OwnersKept, ReturnStep DEF IInv
<1>4. CASE Unlocks(Top)
  <2>1. GoTo("unlock_dv") /\ dv_owner[Top.dv] = Fs
    BY <1>4 DEF UnlockBlkDev, Unlocks
  <2>2. (Yield \/ UNCHANGED Fs) /\ Owners
    <3>1. CASE bd_owner[Root(Top.dv)] = Fs
      <4>1. PICK d \in Drv : d = Root(Top.dv)
        BY <1>1, TopIs, RootIs DEF IInv, Frames
      <4>2. NULL \in {Fs, NULL} /\ NULL \in Task \cup {NULL}
        OBVIOUS
      <4> QED BY <1>4, <3>1, <4>1, <4>2, BdOwner DEF UnlockBlkDev, IInv
    <3>2. CASE bd_owner[Root(Top.dv)] # Fs
      BY <1>4, <3>2, OwnersKept DEF UnlockBlkDev, IInv
    <3> QED BY <3>1, <3>2
  <2>3. PICK at \in Stages : at = "unlock_dv"
    BY DEF Stages
  <2>4. GoTo(at) /\ at # "read" /\ at # "unlock" /\ dv_owner'[Top.dv] = Fs
    BY <1>1, <2>1, <2>3
  <2> QED BY <1>1, <1>2, <2>2, <2>4, GoToStep
<1> QED BY <1>3, <1>4

LEMMA UnlockDrvKeeps == ASSUME IInv, UnlockDrv PROVE IInv'
<1>1. /\ Alive /\ code[Fs] # <<>> /\ Top.op \in Locking /\ Top.at = "unlock_dv" /\ Top.at \in Done
      /\ UNCHANGED <<uses, ring, killed, mounted, lock_fwding>> /\ Return /\ Yield
  BY DEF UnlockDrv, At, devices, Done
<1>2. DeviceInv' /\ KeepsOpen
  BY DevicesKept DEF UnlockDrv
<1>3. Owners
  <2>1. PICK d \in Drv : d = Top.dv
    BY <1>1, TopIs DEF IInv, Frames
  <2>2. Type[d] = "HOSTFS" => dv_owner[d] \in {NULL, Fs}
    BY <1>1, <2>1, HostTop DEF HasLock
  <2>3. NULL \in {Fs, NULL} /\ NULL \in Task \cup {NULL}
    OBVIOUS
  <2> QED BY <2>1, <2>2, <2>3, DvOwner DEF UnlockDrv, IInv
<1> QED BY <1>1, <1>2, <1>3, ReturnStep

LEMMA CallInitKeeps == ASSUME IInv, CallInit PROVE IInv'
<1>1. /\ Alive /\ code[Fs] # <<>> /\ Top.op \in Locking /\ Top.op \in {"BlkRead", "DskCacheInvalidate"}
      /\ Top.at = "init" /\ CallThen(BlkDevInit(Top.dv), "work")
      /\ UNCHANGED <<uses, ring, killed, mounted, lock_fwding>> /\ UNCHANGED Fs
      /\ UNCHANGED <<bd_owner, dv_owner>>
  BY DEF CallInit, At, devices, tasks, locks, Locking
<1>2. DeviceInv' /\ KeepsOpen /\ Owners
  BY DevicesKept, OwnersKept DEF CallInit, tasks, locks, IInv
<1>3. Top \in Frames /\ FrameOK(Top)
  BY <1>1, TopIs DEF IInv
<1> DEFINE f == BlkDevInit(Top.dv)
<1>4. f \in Frames /\ f.at = "start" /\ f.op = "BlkDevInit" /\ f.dv = Top.dv
  <2>1. Top.dv \in Drv
    BY <1>3 DEF Frames
  <2> QED BY SMTT(60), <2>1, NoExtent, NewCalls DEF IsNew
<1>5. PICK at \in Stages : at = "work"
  BY DEF Stages
<1>6. CallThen(f, at) /\ at \notin Done
  BY <1>1, <1>5 DEF Done
<1> HIDE DEF f
<1>7. FrameOK(f)
  BY <1>1, <1>3, <1>4 DEF FrameOK, OfImage
<1>8. \A d \in Frames : d.op = Top.op /\ d.dv = Top.dv /\ d.at = at => Calls(d, f)
  BY <1>1, <1>4, <1>5 DEF Calls
<1> QED BY <1>1, <1>2, <1>4, <1>6, <1>7, <1>8, CallStep

LEMMA CrashKeeps == ASSUME IInv, Crash PROVE IInv'
<1>1. /\ Alive /\ code[Fs] # <<>> /\ Top.op \in Locking /\ Top.at # "unlock" /\ Fs' = NULL
      /\ UNCHANGED <<uses, ring, killed, mounted, lock_fwding, name, file_dsk, cache, code>>
      /\ UNCHANGED <<bd_owner, dv_owner>>
  BY DEF Crash, At, devices, locks, Locking
<1>2. DeviceInv' /\ Owners
  BY DevicesKept, OwnersKept DEF Crash, locks, IInv
<1>3. Fs \in Task
  BY <1>1, FsIs DEF IInv
<1> QED BY <1>1, <1>2, <1>3, QuietKeeps

LEMMA InvalidateKeeps == ASSUME IInv, Invalidate PROVE IInv'
<1>1. /\ Alive /\ code[Fs] # <<>> /\ Top.op = "DskCacheInvalidate" /\ Top.op \in Locking
      /\ Top.at = "work" /\ GoTo("unlock")
      /\ UNCHANGED <<uses, ring, killed, mounted, lock_fwding>> /\ UNCHANGED Fs
      /\ UNCHANGED <<bd_owner, dv_owner>>
  BY DEF Invalidate, At, devices, tasks, locks, Locking
<1>2. Top \in Frames /\ FrameOK(Top)
  BY <1>1, TopIs DEF IInv
<1>3. PICK dv \in Drv : dv = Top.dv /\ Type[dv] = "ISO"
  BY <1>1, <1>2 DEF Frames, FrameOK
<1>4. cache' = DskCacheInvalidate2(dv)
  BY <1>3 DEF Invalidate, Cached
<1>5. IsCache(cache)
  BY DEF IInv, DeviceInv
<1>6. /\ IsCache(cache')
      /\ \A i \in 1 .. CacheBlks :
           cache'[i].dv # dv /\ (cache'[i] = EmptyBlk \/ \E j \in 1 .. CacheBlks : cache'[i] = cache[j])
  BY <1>4, <1>5, DskCacheInvalidate2Is
<1>7. UNCHANGED <<uses, mounted, flags, name, file_dsk, boot, root>>
  BY DEF Invalidate, devices, tasks
<1>8. DeviceInv'
  BY <1>6, <1>7 DEF IInv, DeviceInv
<1>9. \A d \in Drv : d = Top.dv /\ Type[d] = "ISO" => Clean(d)'
  BY <1>3, <1>6 DEF Clean
<1>10. KeepsOpen
  <2>1. EmptyBlk.dv = NULL /\ NULL \notin Drv
    BY DevicesAssumption DEF EmptyBlk
  <2> QED BY <1>6, <1>7, <2>1 DEF KeepsOpen, Opened, Clean
<1>11. PICK at \in Stages : at = "unlock"
  BY DEF Stages
<1>12. GoTo(at) /\ at # "read"
  BY <1>1, <1>11
<1>13. Owners /\ Type[Top.dv] # "HOSTFS"
  BY <1>1, <1>3, OwnersKept DEF IInv
<1> HIDE <1>3
<1> QED BY <1>1, <1>8, <1>9, <1>10, <1>12, <1>13, GoToStep

LEMMA FsReadsKeeps == ASSUME IInv, FsReads PROVE IInv'
<1>1. /\ Alive /\ code[Fs] # <<>> /\ Top.op \in {"Find", "RedSeaInit"} /\ Top.op \in Locking
      /\ Top.at = "work"
      /\ UNCHANGED <<uses, ring, killed, mounted, lock_fwding>> /\ UNCHANGED Fs
      /\ UNCHANGED <<bd_owner, dv_owner>>
  BY DEF FsReads, At, devices, tasks, locks, Locking
<1>2. DeviceInv' /\ KeepsOpen /\ Owners
  BY DevicesKept, OwnersKept DEF FsReads, tasks, locks, IInv
<1>3. Top \in Frames /\ FrameOK(Top) /\ Top.dv \in Drv
  BY <1>1, TopIs DEF IInv, Frames
<1>4. CASE Type[Top.dv] = "HOSTFS"
  <2>1. PICK at \in Stages : at = "unlock"
    BY DEF Stages
  <2>2. GoTo(at) /\ at # "read"
    BY <1>4, <2>1 DEF FsReads
  <2>3. dv_owner'[Top.dv] = Fs
    BY <1>1, <1>4, HostTop DEF HasLock, AtWork
  <2> QED BY <1>1, <1>2, <2>2, <2>3, GoToStep
<1>5. CASE Type[Top.dv] # "HOSTFS"
  <2> DEFINE f == BlkRead(Top.dv, {0})
  <2>1. PICK at \in Stages : at = IF Top.op = "Find" THEN "unlock" ELSE "read"
    <3>1. "unlock" \in Stages /\ "read" \in Stages
      BY DEF Stages
    <3> QED BY <3>1, Zenon
  <2>2. CallThen(f, at)
    BY <1>5, <2>1 DEF FsReads
  <2>3. f \in Frames /\ f.op = "BlkRead" /\ f.dv = Top.dv /\ f.at = "lock_bd" /\ f.blks = {0}
    BY <1>3, NewRead, Zenon DEF IsNew
  <2> HIDE DEF f
  <2>4. FrameOK(f)
    BY <1>5, <2>3 DEF FrameOK
  <2>5. \A d \in Frames : d.op = Top.op /\ d.dv = Top.dv /\ d.at = at => Calls(d, f)
    BY <1>1, <2>1, <2>3 DEF Calls, ReadsBoot
  <2>6. Top.op \notin {"BlkRead", "DskCacheInvalidate"} /\ f.at \in {"lock_bd", "start"}
    BY <1>1, <2>3
  <2> QED BY <1>1, <1>2, <2>2, <2>3, <2>4, <2>5, <2>6, CallStep
<1> QED BY <1>4, <1>5

LEMMA TakeRootKeeps == ASSUME IInv, TakeRoot PROVE IInv'
<1>1. /\ Alive /\ code[Fs] # <<>> /\ Top.op = "RedSeaInit" /\ Top.op \in Locking
      /\ Top.at = "read" /\ GoTo("unlock")
      /\ UNCHANGED <<uses, ring, killed, mounted, lock_fwding>> /\ UNCHANGED Fs
      /\ UNCHANGED <<bd_owner, dv_owner>> /\ UNCHANGED <<flags, name, file_dsk, boot, cache>>
  BY DEF TakeRoot, At, devices, tasks, locks, Locking
<1>2. Top \in Frames /\ FrameOK(Top) /\ Returned(Top) /\ Top.dv \in Drv
  BY <1>1, TopIs DEF IInv, Frames
<1>3. root' \in [Drv -> Body1]
  <2>1. CASE Cached(Top.dv)
    <3>1. 0 \in DOMAIN Top.buf /\ Top.buf \in Bufs
      BY <1>1, <1>2, <2>1 DEF Returned, Frames
    <3>2. Top.buf[0] \in Body1
      BY <3>1 DEF Bufs
    <3>3. root' = [root EXCEPT ![Top.dv] = Top.buf[0]]
      BY <2>1 DEF TakeRoot
    <3> QED BY <3>2, <3>3 DEF IInv, DeviceInv
  <2>2. CASE ~ Cached(Top.dv)
    BY <2>2 DEF TakeRoot, IInv, DeviceInv
  <2> QED BY <2>1, <2>2
<1>4. DeviceInv' /\ KeepsOpen /\ Owners
  BY <1>1, <1>3, OwnersKept DEF IInv, DeviceInv, KeepsOpen, Opened, Clean, IsCache
<1>5. PICK at \in Stages : at = "unlock"
  BY DEF Stages
<1>6. GoTo(at) /\ at # "read" /\ Type[Top.dv] # "HOSTFS"
  BY <1>1, <1>2, <1>5 DEF FrameOK
<1> QED BY <1>1, <1>4, <1>6, GoToStep

LEMMA FmtZeroKeeps == ASSUME IInv, FmtZero PROVE IInv'
<1>1. /\ Alive /\ code[Fs] # <<>> /\ Top.op = "RedSeaFmt" /\ Top.op \in Locking
      /\ Top.at = "work" /\ GoTo("zeroed") /\ Yield
      /\ UNCHANGED <<uses, ring, killed, mounted, lock_fwding>>
      /\ UNCHANGED <<bd_owner, dv_owner>> /\ UNCHANGED <<flags, name, file_dsk, root, cache>>
      /\ boot' = boot \ {Top.dv}
  BY DEF FmtZero, At, devices, tasks, locks, Locking
<1>2. Top \in Frames /\ FrameOK(Top)
  BY <1>1, TopIs DEF IInv
<1>3. DeviceInv' /\ KeepsOpen /\ Owners
  BY <1>1, OwnersKept DEF IInv, DeviceInv, KeepsOpen, Opened, Clean, IsCache
<1>4. PICK at \in Stages : at = "zeroed"
  BY DEF Stages
<1>5. GoTo(at) /\ at # "read" /\ Type[Top.dv] # "HOSTFS"
  BY <1>1, <1>2, <1>4 DEF FrameOK
<1> QED BY <1>1, <1>3, <1>5, GoToStep

LEMMA FmtBootKeeps == ASSUME IInv, FmtBoot PROVE IInv'
<1> DEFINE f == RedSeaInit(Top.dv)
<1>1. /\ Alive /\ code[Fs] # <<>> /\ Top.op = "RedSeaFmt" /\ Top.op \in Locking
      /\ CallThen(f, "unlock")
      /\ UNCHANGED <<uses, ring, killed, mounted, lock_fwding>> /\ UNCHANGED Fs
      /\ UNCHANGED <<bd_owner, dv_owner>> /\ UNCHANGED <<flags, name, file_dsk, root, cache>>
      /\ boot' = boot \cup {Top.dv}
  BY DEF FmtBoot, At, devices, tasks, locks, Locking
<1>2. Top \in Frames /\ FrameOK(Top) /\ Top.dv \in Drv
  BY <1>1, TopIs DEF IInv, Frames
<1>3. DeviceInv' /\ KeepsOpen /\ Owners
  BY <1>1, <1>2, OwnersKept DEF IInv, DeviceInv, KeepsOpen, Opened, Clean, IsCache
<1>4. PICK at \in Stages : at = "unlock"
  BY DEF Stages
<1>5. CallThen(f, at)
  BY <1>1, <1>4
<1>6. f \in Frames /\ f.op = "RedSeaInit" /\ f.dv = Top.dv /\ f.at = "lock_bd"
  BY SMTT(60), <1>2, NoExtent, NewCalls DEF IsNew
<1> HIDE DEF f
<1>7. FrameOK(f)
  BY <1>1, <1>2, <1>6 DEF FrameOK
<1>8. \A d \in Frames : d.op = Top.op /\ d.dv = Top.dv /\ d.at = at => Calls(d, f)
  BY <1>1, <1>4, <1>6 DEF Calls
<1>9. Top.op \notin {"BlkRead", "DskCacheInvalidate"} /\ f.at \in {"lock_bd", "start"}
  BY <1>1, <1>6
<1> QED BY <1>1, <1>3, <1>5, <1>6, <1>7, <1>8, <1>9, CallStep

\* What is left to read is an extent; of the rest the cache has a block of the drive.
LEMMA LeftIs ==
  ASSUME IsCache(cache), NEW dv \in Drv, NEW blks \in Extents
  PROVE  /\ blks \subseteq Nat
         /\ \E lo \in Nat, hi \in Nat : LeftToRead(dv, blks) = lo .. hi
         /\ \A b \in blks : b \notin LeftToRead(dv, blks) =>
              \E i \in 1 .. CacheBlks : cache[i].dv = dv /\ FromCache(dv, b) = cache[i].body
<1> DEFINE missing == {b \in blks : InCache(dv, b) = {}}
<1>1. PICK x \in Nat, y \in Nat : blks = x .. y
  BY DEF Extents
<1>2. blks \subseteq Nat /\ missing \subseteq 0 .. y /\ missing \subseteq Nat
  BY <1>1
<1>3. LeftToRead(dv, blks) = IF missing = {} THEN {} ELSE Min(missing) .. Max(missing)
  BY DEF LeftToRead
<1>4. missing # {} => /\ Min(missing) \in Nat /\ Max(missing) \in Nat
                      /\ \A b \in missing : Min(missing) <= b /\ b <= Max(missing)
  <2> HIDE DEF missing
  <2> SUFFICES ASSUME missing # {}
               PROVE  /\ Min(missing) \in missing /\ \A b \in missing : Min(missing) <= b
                      /\ Max(missing) \in missing /\ \A b \in missing : b <= Max(missing)
    BY <1>2
  <2> QED BY <1>1, <1>2, MinIs, MaxIs
<1>5. \E lo \in Nat, hi \in Nat : LeftToRead(dv, blks) = lo .. hi
  <2>1. CASE missing = {}
    <3>1. LeftToRead(dv, blks) = 1 .. 0
      BY <1>3, <2>1
    <3> QED BY <3>1
  <2>2. CASE missing # {}
    <3> HIDE DEF missing
    <3> QED BY <1>3, <1>4, <2>2
  <2> QED BY <2>1, <2>2
<1>6. ASSUME NEW b \in blks, b \notin LeftToRead(dv, blks)
      PROVE  \E i \in 1 .. CacheBlks : cache[i].dv = dv /\ FromCache(dv, b) = cache[i].body
  <2>1. b \notin missing
    <3> SUFFICES ASSUME b \in missing PROVE FALSE
      OBVIOUS
    <3>1. b \in Nat /\ missing # {}
      BY <1>2
    <3> HIDE DEF missing
    <3> QED BY <1>3, <1>4, <1>6, <3>1
  <2> DEFINE S == InCache(dv, b)
  <2>2. S # {}
    BY <2>1
  <2>3. \A i \in S : i \in 1 .. CacheBlks /\ cache[i].dv = dv
    BY DEF IsCache, InCache
  <2>4. Min(S) \in S
    <3>1. S \subseteq Nat
      BY <2>3, DevicesAssumption
    <3> HIDE DEF S
    <3> QED BY <2>2, <3>1, MinIs
  <2> QED BY <2>3, <2>4 DEF FromCache
<1> QED BY <1>2, <1>5, <1>6

LEMMA ReadKeeps == ASSUME IInv, Read PROVE IInv'
<1>1. /\ Alive /\ code[Fs] # <<>> /\ Top.op = "BlkRead" /\ Top.op \in Locking /\ Top.at = "work"
      /\ UNCHANGED <<uses, ring, killed, mounted, lock_fwding>> /\ UNCHANGED Fs
      /\ UNCHANGED <<bd_owner, dv_owner>> /\ UNCHANGED <<flags, name, file_dsk, boot, root>>
  BY DEF Read, At, devices, tasks, locks, Locking
<1>2. Top \in Frames /\ FrameOK(Top)
  BY <1>1, TopIs DEF IInv
<1>3. PICK dv \in Drv, blks \in Extents : dv = Top.dv /\ blks = Top.blks
  BY <1>2 DEF Frames
<1>4. IsCache(cache) /\ file_dsk[dv] \in Body1 /\ name[dv] \in Body1 /\ Type[dv] # "HOSTFS"
  BY <1>1, <1>2, <1>3 DEF IInv, DeviceInv, FrameOK
<1> DEFINE left == Left
           buf == IF Cached(dv)
                  THEN [b \in blks |-> IF b \in left THEN file_dsk[dv] ELSE FromCache(dv, b)]
                  ELSE NoBuf
           f == [Top EXCEPT !.at = "unlock", !.buf = buf]
<1>5. cache' = DskCacheAdd(dv, file_dsk[dv], left) /\ Become(f)
  BY <1>3, Zenon DEF Read
<1>6. left = IF Cached(dv) THEN LeftToRead(dv, blks) ELSE {}
  BY <1>3, Zenon DEF Left
<1> HIDE DEF left
<1>7. \E lo \in Nat, hi \in Nat : left = lo .. hi
  <2>1. CASE Cached(dv)
    <3>1. left = LeftToRead(dv, blks)
      BY <1>6, <2>1
    <3>2. \E lo \in Nat, hi \in Nat : LeftToRead(dv, blks) = lo .. hi
      BY <1>4, LeftIs, ZenonT(30)
    <3> QED BY <3>1, <3>2
  <2>2. CASE ~ Cached(dv)
    <3>1. left = 1 .. 0
      BY <1>6, <2>2
    <3> QED BY <3>1
  <2> QED BY <2>1, <2>2
<1>8. IsCache(cache') /\ OnlyAdds(cache, cache', dv, file_dsk[dv])
  BY <1>4, <1>5, <1>7, DskCacheAddIs
<1>9. Cached(dv) => \A b \in blks : b \notin left =>
        \E i \in 1 .. CacheBlks : cache[i].dv = dv /\ FromCache(dv, b) = cache[i].body
  BY <1>4, <1>6, LeftIs
<1>10. buf \in Bufs /\ (Cached(dv) => DOMAIN buf = blks)
  <2>1. CASE Cached(dv)
    <3>1. \A b \in blks : b \notin left => FromCache(dv, b) \in Body1
      <4>1. \A i \in 1 .. CacheBlks : cache[i] \in CacheBlk
        BY <1>4, DevicesAssumption DEF IsCache
      <4>2. \A i \in 1 .. CacheBlks : cache[i].body \in Body1
        BY <4>1 DEF CacheBlk
      <4> QED BY <1>9, <2>1, <4>2
    <3>2. buf \in [blks -> Body1] /\ blks \subseteq Nat
      BY <1>4, <2>1, <3>1, LeftIs
    <3> QED BY <3>2 DEF Bufs
  <2>2. CASE ~ Cached(dv)
    <3>1. buf \in [{} -> Body1] /\ {} \in SUBSET Nat
      BY <2>2 DEF NoBuf
    <3>2. buf \in Bufs
      <4> HIDE DEF buf
      <4> QED BY <3>1 DEF Bufs
    <3> QED BY <2>2, <3>2
  <2> QED BY <2>1, <2>2
<1>11. Mounted(dv) => \A b \in DOMAIN buf : buf[b] = name[dv]
  <2> SUFFICES ASSUME Mounted(dv), NEW b \in DOMAIN buf PROVE buf[b] = name[dv]
    OBVIOUS
  <2>1. Opened(dv) /\ Clean(dv)
    BY <1>4 DEF Mounted, IInv, MountInv
  <2>2. CASE Cached(dv)
    BY <1>9, <2>1, <2>2 DEF Opened, Clean
  <2>3. CASE ~ Cached(dv)
    BY <2>3 DEF NoBuf
  <2> QED BY <2>2, <2>3
<1> HIDE DEF buf
<1>12. /\ f \in Frames /\ f.op = Top.op /\ f.dv = dv /\ f.blks = Top.blks /\ f.at = "unlock"
       /\ f.buf = buf
  <2>1. "unlock" \in Stages
    BY DEF Stages
  <2> QED BY <1>2, <1>3, <1>10, <2>1 DEF Frames
<1> HIDE DEF f
<1>13. FrameOK(f) /\ Returned(f)
  BY <1>1, <1>2, <1>3, <1>4, <1>10, <1>12 DEF FrameOK, Returned
<1>14. KeepsOpen
  BY <1>1, <1>8 DEF KeepsOpen, Opened, Clean, OnlyAdds
<1>15. CodePart
  BY <1>1, <1>3, <1>5, <1>12, <1>13, BecomeKeeps DEF IInv
<1>16. \A u \in Task : u = Fs => GoesOn(u)
  BY <1>1, <1>3, <1>5, <1>12, <1>14, <1>15, BecomeGoesOn DEF IInv
<1>17. Len(code'[Fs]) = Len(code[Fs]) /\ code'[Fs][Len(code[Fs])] = f
  BY <1>1, <1>5, <1>12, BecomeIs DEF IInv, Stacks
<1>18. LockHeld
  BY <1>4, <1>12, <1>17 DEF LockHeld
<1>19. Owners
  BY <1>1, OwnersKept DEF IInv
<1>20. CodeInv' /\ RingInv' /\ LockInv' /\ HostInv' /\ MountInv' /\ DeadHoldNothing'
  BY <1>1, <1>14, <1>15, <1>16, <1>18, <1>19, MoveKeepsMost
<1>21. DeviceInv'
  BY <1>1, <1>8 DEF IInv, DeviceInv
<1>22. HandInv'
  BY <1>1, <1>15 DEF IInv, HandInv, CodePart, Alive
<1>23. ReadsMounted'
  <2>1. Top' = f
    BY <1>1, <1>17 DEF Top, Last
  <2>2. UNCHANGED lock_fwding /\ UNCHANGED name
    BY <1>1
  <2> QED BY <1>11, <1>12, <2>1, <2>2 DEF ReadsMounted, Mounted
<1> QED BY <1>20, <1>21, <1>22, <1>23 DEF IInv

-----------------------------------------------------------------------------
(***************************************************************************)
(* BlkDevInit.                                                             *)
(***************************************************************************)
LEMMA InitIs ==
  ASSUME CodeInv, RingInv, MountInv, Alive, code[Fs] # <<>>, Top.op = "BlkDevInit", NEW u \in Task, u = Fs,
         Mounting(u)
  PROVE  Len(code[u]) = 2 \/ Len(code[u]) > 3
<1> DEFINE n == Len(code[u])
<1>1. n \in Nat \ {0} /\ Top = code[u][n]
  BY TopIs
<1>2. code[u][1].op = "BlkDevAdd" /\ (n > 2 => code[u][3].op \in Locking)
  BY StageIs
<1>3. n # 1 /\ n # 3
  <2> HIDE DEF n
  <2> QED BY <1>1, <1>2 DEF Locking
<1> HIDE DEF n
<1>4. n = 2 \/ n > 3
  BY <1>1, <1>3
<1> QED BY <1>4 DEF n

\* What has been opened is open from then on.
Open == {"validate", "drop", "end"}

LEMMA SecondIs ==
  ASSUME CodeInv, RingInv, MountInv, Alive, code[Fs] # <<>>, Top.op = "BlkDevInit", NEW u \in Task, u = Fs,
         Mounting(u), Len(code[u]) = 2, NEW d \in Drv, d = Top.dv
  PROVE  /\ code[u][1].dv = d /\ Top = code[u][2]
         /\ Top.at = "start" => d \notin flags
         /\ Type[d] = "ISO" /\ Top.at \in Open => Opened(d)
         /\ Type[d] = "ISO" /\ Top.at = "end" => Clean(d)
<1>1. Top = code[u][2]
  BY TopIs
<1>2. code[u][2].dv = code[u][1].dv /\ Progress(u) /\ 2 > 1 /\ 2 # 1
  BY StageIs
<1> QED BY <1>1, <1>2 DEF Progress, Dropped, Open

LEMMA InitCallGoesOn ==
  ASSUME CodeInv, RingInv, MountInv, Alive, code[Fs] # <<>>, Top.op = "BlkDevInit", KeepsOpen, CodePart,
         NEW f \in Frames, NEW at \in Stages, CallThen(f, at), NEW u \in Task, u = Fs,
         at # "start", f.at = "lock_bd",
         at \in Open => Top.at \in Open \/ \A d \in Drv : d = Top.dv /\ Type[d] = "ISO" => Opened(d)'
  PROVE  GoesOn(u)
<1>1. MoveOf(u)
  BY CallMove
<1>2. CASE Mounting(u) /\ Len(code[u]) = 2
  <2>1. Stacks(1, 3) /\ code'[Fs][2] = [Top EXCEPT !.at = at] /\ code'[Fs][3] = f
    <3>1. /\ Stacks(Len(code[Fs]) - 1, Len(code[Fs]) + 1)
          /\ code'[Fs][Len(code[Fs])] = [Top EXCEPT !.at = at] /\ code'[Fs][Len(code[Fs]) + 1] = f
      BY CallIs
    <3>2. Len(code[Fs]) - 1 = 1 /\ Len(code[Fs]) + 1 = 3
      BY <1>2
    <3> QED BY <1>2, <3>1, <3>2
  <2>2. Len(code'[u]) = 3 /\ code'[u][1] = code[u][1] /\ code'[u][2].at = at /\ code'[u][3] = f
    <3>1. [Top EXCEPT !.at = at].at = at
      BY TopIs, AtIs
    <3> QED BY <2>1, <3>1 DEF Stacks
  <2>3. PICK d \in Drv : d = Top.dv
    BY TopIs DEF Frames
  <2>4. d = code[u][1].dv /\ d = code'[u][1].dv
    BY <1>2, <2>2, <2>3, SecondIs
  <2>5. at \in Open /\ Type[d] = "ISO" => Opened(d)'
    BY <1>2, <2>3, SecondIs DEF KeepsOpen
  <2>6. 3 > 1 /\ 3 # 1 /\ 3 # 2
    OBVIOUS
  <2>7. Progress(u)'
    BY <2>2, <2>4, <2>5, <2>6 DEF Progress, Opened, Clean, Dropped, Open
  <2> QED BY <1>2, <2>4, <2>7 DEF GoesOn
<1>3. CASE ~ (Mounting(u) /\ Len(code[u]) = 2)
  <2>1. Mounting(u) => Len(code[u]) > 3
    BY <1>3, InitIs, Zenon
  <2> QED BY <1>1, <2>1, DeepGoesOn
<1> QED BY <1>2, <1>3

LEMMA InitReturnGoesOn ==
  ASSUME CodeInv, RingInv, MountInv, Alive, code[Fs] # <<>>, Top.op = "BlkDevInit", KeepsOpen, CodePart,
         NEW ok \in BOOLEAN, ReturnWith(ok), NEW u \in Task, u = Fs,
         ok => Top.at = "end" \/ (Top.at = "start" /\ Top.dv \in flags)
  PROVE  GoesOn(u)
<1>1. MoveOf(u)
  BY ReturnMove
<1>2. CASE Mounting(u) /\ Len(code[u]) = 2
  <2>1. Len(code'[u]) = 1 /\ code'[u][1].ok = ok /\ code'[u] # <<>>
    <3>1. Len(code'[u]) = 1 /\ code'[u][1].ok = ok
      BY <1>2, ReturnMove
    <3>2. code'[u] \in Seq(Frames)
      BY DEF CodePart
    <3> QED BY <3>1, <3>2
  <2>2. PICK d \in Drv : d = Top.dv
    BY TopIs DEF Frames
  <2>3. d = code[u][1].dv /\ d = code'[u][1].dv
    BY <1>1, <1>2, <2>1, <2>2, SecondIs DEF MoveOf
  <2>4. ok /\ Type[d] = "ISO" => Opened(d)' /\ Clean(d)'
    BY <1>2, <2>2, SecondIs DEF KeepsOpen, Open
  <2>5. ~ (1 > 1)
    OBVIOUS
  <2>6. Progress(u)'
    BY <2>1, <2>3, <2>4, <2>5 DEF Progress, Opened, Clean
  <2> QED BY <1>2, <2>3, <2>6 DEF GoesOn
<1>3. CASE ~ (Mounting(u) /\ Len(code[u]) = 2)
  <2>1. Mounting(u) => Len(code[u]) > 3
    BY <1>3, InitIs, Zenon
  <2> QED BY <1>1, <2>1, DeepGoesOn
<1> QED BY <1>2, <1>3

LEMMA InitGoToGoesOn ==
  ASSUME CodeInv, RingInv, MountInv, Alive, code[Fs] # <<>>, Top.op = "BlkDevInit", KeepsOpen, CodePart,
         NEW at \in Stages, GoTo(at), NEW u \in Task, u = Fs, at # "start", at \notin Open
  PROVE  GoesOn(u)
<1> DEFINE f == [Top EXCEPT !.at = at]
<1>1. f \in Frames /\ f.at = at /\ f.op = Top.op /\ f.dv = Top.dv /\ Become(f)
  BY TopIs, AtIs DEF GoTo
<1> HIDE DEF f
<1>2. MoveOf(u)
  BY <1>1, BecomeMove
<1>3. CASE Mounting(u) /\ Len(code[u]) = 2
  <2>1. Stacks(1, 2) /\ code'[Fs][2] = f
    <3>1. Stacks(Len(code[Fs]) - 1, Len(code[Fs])) /\ code'[Fs][Len(code[Fs])] = f
      BY <1>1, BecomeIs
    <3>2. Len(code[Fs]) - 1 = 1
      BY <1>3
    <3> QED BY <1>3, <3>1, <3>2
  <2>2. Len(code'[u]) = 2 /\ code'[u][1] = code[u][1] /\ code'[u][2].at = at
    BY <1>1, <2>1 DEF Stacks
  <2>3. 2 > 1 /\ 2 # 1
    OBVIOUS
  <2>4. Progress(u)'
    BY <2>2, <2>3 DEF Progress, Open
  <2> QED BY <1>3, <2>2, <2>4 DEF GoesOn
<1>4. CASE ~ (Mounting(u) /\ Len(code[u]) = 2)
  <2>1. Mounting(u) => Len(code[u]) > 3
    BY <1>4, InitIs, Zenon
  <2> QED BY <1>2, <2>1, DeepGoesOn
<1> QED BY <1>3, <1>4

LEMMA InitCallStep ==
  ASSUME IInv, Alive, UNCHANGED <<uses, ring, killed, mounted, lock_fwding>>, UNCHANGED Fs,
         Owners, DeviceInv', KeepsOpen,
         code[Fs] # <<>>, Top.op = "BlkDevInit",
         NEW f \in Frames, NEW at \in Stages, CallThen(f, at), FrameOK(f), f.at = "lock_bd",
         \A d \in Frames : d.op = Top.op /\ d.dv = Top.dv /\ d.at = at => FrameOK(d) /\ Calls(d, f),
         at # "start",
         at \in Open => Top.at \in Open \/ \A d \in Drv : d = Top.dv /\ Type[d] = "ISO" => Opened(d)'
  PROVE  IInv'
<1> DEFINE d == [Top EXCEPT !.at = at]
<1>1. d \in Frames /\ d.at = at /\ d.op = Top.op /\ d.dv = Top.dv
  BY TopIs, AtIs DEF IInv
<1> HIDE DEF d
<1>2. FrameOK(d) /\ Calls(d, f) /\ Returned(f)
  BY <1>1 DEF Returned
<1>3. CodePart
  BY <1>2, CallKeeps DEF IInv, d
<1>4. \A u \in Task : u = Fs => GoesOn(u)
  BY <1>3, InitCallGoesOn DEF IInv
<1>5. Fresh(code'[Fs])
  BY CallIsFresh DEF IInv
<1>6. HasIt
  BY <1>5 DEF HasIt, LockHeld, HandsNothing, Fresh
<1> QED BY <1>3, <1>4, <1>6, MoveKeeps

LEMMA InitReturnStep ==
  ASSUME IInv, Alive, UNCHANGED <<uses, ring, killed, mounted, lock_fwding>>, UNCHANGED Fs,
         Owners, DeviceInv', KeepsOpen,
         code[Fs] # <<>>, Top.op = "BlkDevInit", NEW ok \in BOOLEAN, ReturnWith(ok),
         ok => Top.at = "end" \/ (Top.at = "start" /\ Top.dv \in flags)
  PROVE  IInv'
<1>1. CodePart
  BY ReturnKeeps DEF IInv
<1>2. \A u \in Task : u = Fs => GoesOn(u)
  BY <1>1, InitReturnGoesOn DEF IInv
<1>3. Fresh(code'[Fs])
  BY ReturnIsFresh DEF IInv
<1>4. HasIt
  BY <1>3 DEF HasIt, LockHeld, HandsNothing, Fresh
<1> QED BY <1>1, <1>2, <1>4, MoveKeeps

LEMMA InitStartKeeps == ASSUME IInv, InitStart PROVE IInv'
<1>1. /\ Alive /\ code[Fs] # <<>> /\ Top.op = "BlkDevInit" /\ Top.at = "start"
      /\ UNCHANGED <<uses, ring, killed, mounted, lock_fwding>> /\ UNCHANGED Fs
      /\ UNCHANGED <<bd_owner, dv_owner>> /\ UNCHANGED <<name, file_dsk, boot, root, cache>>
      /\ flags' = flags \cup {Top.dv}
  BY DEF InitStart, At, tasks, locks
<1>2. Top \in Frames /\ FrameOK(Top) /\ Top.dv \in Drv
  BY <1>1, TopIs DEF IInv, Frames
<1>3. DeviceInv' /\ KeepsOpen /\ Owners
  BY <1>1, <1>2, OwnersKept DEF IInv, DeviceInv, KeepsOpen, Opened, Clean, IsCache
<1>4. CASE Top.dv \in flags
  <2>1. ReturnWith(TRUE)
    BY <1>4 DEF InitStart, Return
  <2> QED BY <1>1, <1>3, <1>4, <2>1, InitReturnStep
<1>5. CASE Top.dv \notin flags
  <2>1. Type[Top.dv] \in {"RAM", "ISO"}
    BY <1>1, <1>2, DevicesAssumption DEF FrameOK
  <2>2. PICK at \in Stages : at = Type[Top.dv]
    BY <2>1 DEF Stages
  <2>3. GoTo(at) /\ at # "start" /\ at \notin Open
    BY <1>5, <2>1, <2>2 DEF InitStart, Open
  <2> DEFINE f == [Top EXCEPT !.at = at]
  <2>4. /\ f \in Frames /\ f.at = at /\ f.op = Top.op /\ f.dv = Top.dv /\ f.blks = Top.blks
        /\ Become(f)
    BY <1>2, <2>3, AtIs DEF GoTo
  <2> HIDE DEF f
  <2>5. FrameOK(f) /\ Returned(f)
    BY <1>1, <1>2, <2>1, <2>2, <2>4 DEF FrameOK, Returned, OfImage
  <2>6. CodePart
    BY <1>1, <2>4, <2>5, BecomeKeeps DEF IInv
  <2>7. \A u \in Task : u = Fs => GoesOn(u)
    BY <1>1, <1>3, <2>3, <2>6, InitGoToGoesOn DEF IInv
  <2>8. HasIt
    <3>1. Len(code'[Fs]) = Len(code[Fs]) /\ code'[Fs][Len(code[Fs])] = f
      BY <1>1, <2>4, BecomeIs DEF IInv, Stacks
    <3> QED BY <1>1, <1>2, <2>1, <2>4, <3>1 DEF HasIt, LockHeld, HandsNothing
  <2> QED BY <1>1, <1>3, <2>6, <2>7, <2>8, MoveKeeps
<1> QED BY <1>4, <1>5

\* The file of an image is in a directory of the host.
LEMMA FileIs ==
  ASSUME NEW dv \in Drv, Type[dv] = "ISO" PROVE FileDrv[dv] \in Drv /\ Type[FileDrv[dv]] = "HOSTFS"
  BY DevicesAssumption

LEMMA InitRAMKeeps == ASSUME IInv, InitRAM PROVE IInv'
<1>1. /\ Alive /\ code[Fs] # <<>> /\ Top.op = "BlkDevInit" /\ Top.at \in {"RAM", "validate_ram"}
      /\ UNCHANGED <<uses, ring, killed, mounted, lock_fwding>> /\ UNCHANGED Fs
      /\ UNCHANGED <<bd_owner, dv_owner>>
  BY DEF InitRAM, At, tasks, locks, devices
<1>2. Top \in Frames /\ FrameOK(Top) /\ Top.dv \in Drv
  BY <1>1, TopIs DEF IInv, Frames
<1>3. Type[Top.dv] = "RAM"
  BY <1>1, <1>2 DEF FrameOK
<1>4. DeviceInv' /\ KeepsOpen /\ Owners
  BY DevicesKept, OwnersKept DEF InitRAM, tasks, locks, IInv
<1>5. CASE Top.at = "RAM"
  <2> DEFINE f == BlkRead(Top.dv, {0})
  <2>1. PICK at \in Stages : at = "validate_ram"
    BY DEF Stages
  <2>2. CallThen(f, at) /\ at # "start" /\ at \notin Open
    BY <1>5, <2>1 DEF InitRAM, At, Open
  <2>3. f \in Frames /\ f.op = "BlkRead" /\ f.dv = Top.dv /\ f.at = "lock_bd" /\ f.blks = {0}
    BY <1>2, NewRead, Zenon DEF IsNew
  <2> HIDE DEF f
  <2>4. FrameOK(f)
    BY <1>3, <2>3 DEF FrameOK
  <2>5. \A d \in Frames : d.op = Top.op /\ d.dv = Top.dv /\ d.at = at => FrameOK(d) /\ Calls(d, f)
    BY <1>1, <1>3, <2>1, <2>3 DEF Calls, ReadsBoot, FrameOK, OfImage
  <2> QED BY <1>1, <1>4, <2>2, <2>3, <2>4, <2>5, InitCallStep
<1>6. CASE Top.at = "validate_ram"
  <2> DEFINE f == IF Top.dv \in boot THEN RedSeaInit(Top.dv) ELSE RedSeaFmt(Top.dv)
  <2>1. PICK at \in Stages : at = "end"
    BY DEF Stages
  <2>2. CallThen(f, at) /\ at # "start"
    BY <1>6, <2>1 DEF InitRAM, At
  <2>3. f \in Frames /\ f.op \in {"RedSeaInit", "RedSeaFmt"} /\ f.dv = Top.dv /\ f.at = "lock_bd"
    <3>1. IsNew(RedSeaInit(Top.dv), "RedSeaInit", Top.dv, "lock_bd")
      BY <1>2, NoExtent, NewCalls, Zenon
    <3>2. IsNew(RedSeaFmt(Top.dv), "RedSeaFmt", Top.dv, "lock_bd")
      BY <1>2, NoExtent, NewCalls, Zenon
    <3> QED BY <3>1, <3>2 DEF IsNew
  <2> HIDE DEF f
  <2>4. FrameOK(f)
    BY <1>3, <2>3 DEF FrameOK
  <2>5. \A d \in Frames : d.op = Top.op /\ d.dv = Top.dv /\ d.at = at => FrameOK(d) /\ Calls(d, f)
    BY <1>1, <1>3, <2>1, <2>3 DEF Calls, FrameOK, OfImage
  <2>6. \A d \in Drv : d = Top.dv /\ Type[d] = "ISO" => Opened(d)'
    BY <1>3
  <2> QED BY <1>1, <1>4, <2>2, <2>3, <2>4, <2>5, <2>6, InitCallStep
<1> QED BY <1>1, <1>5, <1>6

LEMMA InitEndKeeps == ASSUME IInv, InitEnd PROVE IInv'
<1>1. /\ Alive /\ code[Fs] # <<>> /\ Top.op = "BlkDevInit" /\ Top.at = "end" /\ ReturnWith(TRUE)
      /\ UNCHANGED <<uses, ring, killed, mounted, lock_fwding>> /\ UNCHANGED Fs
      /\ UNCHANGED <<bd_owner, dv_owner>>
  BY DEF InitEnd, At, tasks, locks, devices, Return
<1>2. DeviceInv' /\ KeepsOpen /\ Owners
  BY DevicesKept, OwnersKept DEF InitEnd, tasks, locks, IInv
<1> QED BY <1>1, <1>2, InitReturnStep

LEMMA InitISOKeeps == ASSUME IInv, InitISO PROVE IInv'
<1>1. /\ Alive /\ code[Fs] # <<>> /\ Top.op = "BlkDevInit" /\ Top.at \in OfImage
      /\ UNCHANGED <<uses, ring, killed, mounted, lock_fwding>> /\ UNCHANGED Fs
      /\ UNCHANGED <<bd_owner, dv_owner>> /\ UNCHANGED <<flags, name, boot, root, cache>>
  BY DEF InitISO, At, tasks, locks, OfImage
<1>2. Top \in Frames /\ FrameOK(Top) /\ Top.dv \in Drv
  BY <1>1, TopIs DEF IInv, Frames
<1>3. Type[Top.dv] = "ISO" /\ FileDrv[Top.dv] \in Drv /\ Type[FileDrv[Top.dv]] = "HOSTFS"
  BY <1>1, <1>2, FileIs DEF FrameOK
<1>4. Owners
  BY <1>1, OwnersKept DEF IInv
<1>5. UNCHANGED file_dsk => DeviceInv' /\ KeepsOpen
  BY <1>1 DEF IInv, DeviceInv, KeepsOpen, Opened, Clean, IsCache
<1>6. ASSUME UNCHANGED file_dsk, ReturnWith(FALSE) PROVE IInv'
  <2>1. PICK ok \in BOOLEAN : ok = FALSE
    BY Zenon
  <2>2. ReturnWith(ok) /\ ~ ok
    BY <1>6, <2>1
  <2> HIDE <2>1
  <2> QED BY <1>1, <1>4, <1>5, <1>6, <2>2, InitReturnStep
<1>7. ASSUME UNCHANGED file_dsk, NEW at \in Stages, CallThen(Find(FileDrv[Top.dv]), at),
             at \in {"found", "opened"}
      PROVE  IInv'
  <2> DEFINE f == Find(FileDrv[Top.dv])
  <2>1. at # "start" /\ at \notin Open
    BY <1>7 DEF Open
  <2>2. f \in Frames /\ f.op = "Find" /\ f.dv = FileDrv[Top.dv] /\ f.at = "lock_bd"
    BY SMTT(60), <1>3, NoExtent, NewCalls DEF IsNew
  <2> HIDE DEF f
  <2>3. FrameOK(f)
    BY <2>2 DEF FrameOK
  <2>4. \A d \in Frames : d.op = Top.op /\ d.dv = Top.dv /\ d.at = at => FrameOK(d) /\ Calls(d, f)
    BY <1>1, <1>3, <1>7, <2>2 DEF Calls, FrameOK, OfImage
  <2> QED BY <1>1, <1>4, <1>5, <1>7, <2>1, <2>2, <2>3, <2>4, InitCallStep DEF f
<1>8. CASE Top.at = "ISO"
  <2>1. PICK at \in Stages : at = "found"
    BY DEF Stages
  <2>2. CallThen(Find(FileDrv[Top.dv]), at) /\ UNCHANGED file_dsk
    BY <1>8, <2>1 DEF InitISO, At
  <2> QED BY <1>7, <2>1, <2>2
<1>9. CASE Top.at = "found"
  <2>1. PICK at \in Stages : at = "opened"
    BY DEF Stages
  <2>2. UNCHANGED file_dsk /\ (ReturnWith(FALSE) \/ CallThen(Find(FileDrv[Top.dv]), at))
    BY <1>9, <2>1 DEF InitISO, At
  <2> QED BY <1>6, <1>7, <2>1, <2>2
<1>10. CASE Top.at = "opened"
  <2> DEFINE f == BlkRead(Top.dv, {0})
  <2>1. PICK at \in Stages : at = "validate"
    BY DEF Stages
  <2>2. /\ CallThen(f, at) /\ at # "start"
        /\ file_dsk' = [file_dsk EXCEPT ![Top.dv] = name[Top.dv]]
    BY <1>10, <2>1 DEF InitISO, At
  <2>3. f \in Frames /\ f.op = "BlkRead" /\ f.dv = Top.dv /\ f.at = "lock_bd" /\ f.blks = {0}
    BY <1>2, NewRead, Zenon DEF IsNew
  <2> HIDE DEF f
  <2>4. FrameOK(f)
    BY <1>3, <2>3 DEF FrameOK
  <2>5. \A d \in Frames : d.op = Top.op /\ d.dv = Top.dv /\ d.at = at => FrameOK(d) /\ Calls(d, f)
    BY <1>1, <1>3, <2>1, <2>3 DEF Calls, ReadsBoot, FrameOK, OfImage
  <2>6. DeviceInv' /\ KeepsOpen /\ \A d \in Drv : d = Top.dv => Opened(d)'
    <3>1. PICK e \in Drv : e = Top.dv
      BY <1>2
    <3>2. file_dsk' = [file_dsk EXCEPT ![e] = name[e]]
      BY <2>2, <3>1
    <3>3. file_dsk' \in [Drv -> Body1] /\ file_dsk'[e] = name[e]
          /\ \A d \in Drv : d # e => file_dsk'[d] = file_dsk[d]
      BY <3>2 DEF IInv, DeviceInv
    <3>4. DeviceInv'
      BY <1>1, <3>3 DEF IInv, DeviceInv
    <3>5. KeepsOpen
      BY <1>1, <3>3 DEF KeepsOpen, Opened, Clean
    <3>6. Opened(e)'
      BY <1>1, <3>3 DEF Opened
    <3> QED BY <3>1, <3>4, <3>5, <3>6
  <2> QED BY <1>1, <1>4, <2>2, <2>3, <2>4, <2>5, <2>6, InitCallStep
<1>11. CASE Top.at = "validate"
  <2> DEFINE f == RedSeaInit(Top.dv)
  <2>1. PICK at \in Stages : at = "drop"
    BY DEF Stages
  <2>2. UNCHANGED file_dsk /\ (ReturnWith(FALSE) \/ CallThen(f, at)) /\ at # "start"
    BY <1>11, <2>1 DEF InitISO, At
  <2>3. f \in Frames /\ f.op = "RedSeaInit" /\ f.dv = Top.dv /\ f.at = "lock_bd"
    BY SMTT(60), <1>2, NoExtent, NewCalls DEF IsNew
  <2> HIDE DEF f
  <2>4. FrameOK(f)
    BY <1>3, <2>3 DEF FrameOK
  <2>5. \A d \in Frames : d.op = Top.op /\ d.dv = Top.dv /\ d.at = at => FrameOK(d) /\ Calls(d, f)
    BY <1>1, <1>3, <2>1, <2>3 DEF Calls, FrameOK, OfImage
  <2>6. Top.at \in Open
    BY <1>11 DEF Open
  <2> QED BY <1>1, <1>4, <1>5, <1>6, <2>2, <2>3, <2>4, <2>5, <2>6, InitCallStep
<1>12. CASE Top.at = "drop"
  <2> DEFINE f == DskCacheInvalidate(Top.dv)
  <2>1. PICK at \in Stages : at = "end"
    BY DEF Stages
  <2>2. UNCHANGED file_dsk /\ CallThen(f, at) /\ at # "start"
    BY <1>12, <2>1 DEF InitISO, At
  <2>3. f \in Frames /\ f.op = "DskCacheInvalidate" /\ f.dv = Top.dv /\ f.at = "lock_bd"
    BY SMTT(60), <1>2, NoExtent, NewCalls DEF IsNew
  <2> HIDE DEF f
  <2>4. FrameOK(f)
    BY <1>3, <2>3 DEF FrameOK
  <2>5. \A d \in Frames : d.op = Top.op /\ d.dv = Top.dv /\ d.at = at => FrameOK(d) /\ Calls(d, f)
    BY <1>1, <1>3, <2>1, <2>3 DEF Calls, FrameOK, OfImage
  <2>6. Top.at \in Open
    BY <1>12 DEF Open
  <2> QED BY <1>1, <1>4, <1>5, <2>2, <2>3, <2>4, <2>5, <2>6, InitCallStep
<1> QED BY <1>1, <1>8, <1>9, <1>10, <1>11, <1>12 DEF OfImage

-----------------------------------------------------------------------------
(***************************************************************************)
(* Tasks that begin something, wait, or die.                               *)
(***************************************************************************)
LEMMA StartKeeps == ASSUME IInv, Start PROVE IInv'
<1>1. /\ Alive /\ code[Fs] = <<>>
      /\ UNCHANGED <<uses, ring, killed, mounted, lock_fwding>> /\ UNCHANGED Fs
      /\ UNCHANGED <<bd_owner, dv_owner>>
  BY DEF Start, Idle, tasks, locks, devices
<1>2. DeviceInv' /\ KeepsOpen /\ Owners
  BY DevicesKept, OwnersKept DEF Start, tasks, locks, IInv
<1>3. PICK dv \in uses[Fs] \cap mounted : \E frame \in
           {Find(dv)} \cup (IF Type[dv] = "HOSTFS" THEN {} ELSE
              {BlkDevInit(dv)} \cup (IF Cached(dv) THEN {BlkRead(dv, r) : r \in Runs} ELSE {})) :
         code' = [code EXCEPT ![Fs] = <<frame>>]
  BY Zenon DEF Start
<1>3a. PICK f \in {Find(dv)} \cup (IF Type[dv] = "HOSTFS" THEN {} ELSE
              {BlkDevInit(dv)} \cup (IF Cached(dv) THEN {BlkRead(dv, r) : r \in Runs} ELSE {})) :
         code' = [code EXCEPT ![Fs] = <<f>>]
  BY <1>3, Zenon
<1>4. dv \in Drv
  BY DEF IInv, LockInv
<1>5. /\ f \in Frames /\ f.op \in {"Find", "BlkDevInit", "BlkRead"} /\ f.at \in {"lock_bd", "start"}
      /\ f.dv = dv /\ (f.op # "Find" => Type[dv] # "HOSTFS")
  <2>1. CASE f = Find(dv)
    <3>1. IsNew(Find(dv), "Find", dv, "lock_bd")
      BY <1>4, NoExtent, NewCalls, Zenon
    <3> QED BY <2>1, <3>1 DEF IsNew
  <2>2. CASE f = BlkDevInit(dv) /\ Type[dv] # "HOSTFS"
    <3>1. IsNew(BlkDevInit(dv), "BlkDevInit", dv, "start")
      BY <1>4, NoExtent, NewCalls, Zenon
    <3> QED BY <2>2, <3>1 DEF IsNew
  <2>3. CASE f \in {BlkRead(dv, r) : r \in Runs} /\ Type[dv] # "HOSTFS"
    <3>1. PICK r \in Runs : f = BlkRead(dv, r)
      BY <2>3
    <3>2. r \in Extents
      BY <3>1, DevicesAssumption DEF Runs, Extents
    <3>3. IsNew(BlkRead(dv, r), "BlkRead", dv, "lock_bd")
      BY <1>4, <3>2, NewCalls, Zenon
    <3> QED BY <2>3, <3>1, <3>3 DEF IsNew
  <2> QED BY <2>1, <2>2, <2>3
<1> DEFINE s == <<f>>
<1>6. s \in Seq(Frames) /\ Len(s) = 1 /\ s[1] = f /\ DOMAIN s = {1} /\ s # <<>>
  BY <1>5
<1>7. code' = [code EXCEPT ![Fs] = s]
  BY <1>3a
<1> HIDE DEF s
<1>8. StackOK(s)
  <2>1. FrameOK(f) /\ Returned(f)
    BY <1>5 DEF FrameOK, Returned, OfImage
  <2>2. \A i \in DOMAIN s : ~ (i < Len(s))
    BY <1>6
  <2> QED BY <1>6, <2>1, <2>2 DEF StackOK
<1>9. CodePart
  BY <1>1, <1>6, <1>7, <1>8, BeginKeeps DEF IInv
<1>10. code'[Fs] = s
  BY <1>1, <1>6, <1>7, BeginIs DEF IInv
<1>11. HasIt
  BY <1>5, <1>6, <1>10 DEF HasIt, LockHeld, HandsNothing, HasLock, AtWork
<1>12. \A u \in Task : u = Fs => GoesOn(u)
  BY <1>5, <1>6, <1>10 DEF GoesOn, Mounting
<1> QED BY <1>1, <1>2, <1>9, <1>11, <1>12, MoveKeeps

LEMMA WaitKeeps == ASSUME IInv, Wait PROVE IInv'
<1>1. /\ Alive /\ code[Fs] = <<>> /\ Yield
      /\ UNCHANGED <<uses, ring, killed, mounted, lock_fwding, name, file_dsk, cache, code>>
      /\ UNCHANGED <<bd_owner, dv_owner>>
  BY DEF Wait, Idle, locks, devices
<1>2. DeviceInv' /\ Owners /\ Fs \in Task
  BY <1>1, DevicesKept, OwnersKept, FsIs DEF Wait, locks, IInv
<1> QED BY <1>1, <1>2, QuietKeeps

-----------------------------------------------------------------------------
(***************************************************************************)
(* Mounting and unmounting: what is of one drive changes.                  *)
(***************************************************************************)
OtherDrives(dv) ==
  \A d \in Drv : d # dv =>
    /\ name'[d] = name[d] /\ file_dsk'[d] = file_dsk[d]
    /\ bd_owner'[d] = bd_owner[d] /\ dv_owner'[d] = dv_owner[d] /\ lock_fwding'[d] = lock_fwding[d]
OwnerOrNone(dv) ==
  bd_owner'[dv] \in {bd_owner[dv], NULL} /\ dv_owner'[dv] \in {dv_owner[dv], NULL}
DriveTypes ==
  /\ name' \in [Drv -> Body1] /\ file_dsk' \in [Drv -> Body1] /\ root' \in [Drv -> Body1]
  /\ bd_owner' \in [Drv -> Task \cup {NULL}] /\ dv_owner' \in [Drv -> Task \cup {NULL}]
  /\ lock_fwding' \in [Drv -> Drv \cup {NULL}] /\ flags' \subseteq Drv

LEMMA OtherMountGoesOn ==
  ASSUME CodeInv, MountInv, NEW dv \in Drv, OtherDrives(dv), UNCHANGED cache,
         NEW t \in Task, t # Fs, code'[t] = code[t], Mounting(t), code[t][1].dv # dv
  PROVE  Mounting(t)' /\ Progress(t)'
<1>1. Mounting(t)'
  BY DEF Mounting
<1>2. code[t][1].dv \in Drv /\ Progress(t)
  BY StageIs
<1>3. PICK d \in Drv : d = code[t][1].dv /\ d = code'[t][1].dv
  BY <1>2
<1>4. ~ (Len(code[t]) > 1 /\ code[t][2].at = "start")
  BY <1>2 DEF Progress
<1>5. (Opened(d) => Opened(d)') /\ (Clean(d) => Clean(d)')
  BY <1>3 DEF OtherDrives, Opened, Clean
<1>6. Progress(t)'
  BY <1>2, <1>3, <1>4, <1>5 DEF Progress, Dropped
<1> QED BY <1>1, <1>6

LEMMA DriveStep ==
  ASSUME IInv, Alive, NEW dv \in Drv, Type[dv] # "HOSTFS",
         UNCHANGED <<uses, ring, killed, boot, cache>>, UNCHANGED Fs,
         DriveTypes, OtherDrives(dv), OwnerOrNone(dv), lock_fwding'[dv] \in {NULL, FileDrv[dv]},
         mounted \ {dv} \subseteq mounted', mounted' \subseteq mounted \cup {dv},
         dv \in mounted' => (dv \in mounted /\ lock_fwding[dv] = NULL)
                            \/ (lock_fwding'[dv] = NULL /\ bd_owner'[dv] = NULL /\ dv_owner'[dv] = NULL),
         lock_fwding'[dv] # NULL => Opened(dv)' /\ Clean(dv)',
         CodePart, ~ Hands(code'[Fs]),
         code'[Fs] # <<>> => code'[Fs][Len(code'[Fs])].dv = dv,
         \A t \in Task : t # Fs /\ Mounting(t) => code[t][1].dv # dv,
         NEW u \in Task, u = Fs,
         Mounting(u)' => code'[u][1].dv = dv /\ dv \in mounted' /\ lock_fwding'[dv] = NULL /\ Progress(u)'
  PROVE  IInv'
<1> USE DEF IInv
<1>1. CodeInv'
  BY CodeKept
<1>2. RingInv'
  BY RingKept DEF Alive
<1>3. LockInv'
  BY DEF LockInv, DriveTypes, OtherDrives
<1>4. DeviceInv'
  BY DEF DeviceInv, DriveTypes, IsCache
<1>5. HostInv'
  <2>1. \A d \in Drv : Type[d] = "HOSTFS" => dv_owner'[d] = dv_owner[d]
    BY DEF OtherDrives
  <2> QED BY <2>1, HostKept
<1>6. HandInv' /\ ReadsMounted'
  BY <1>2, HandKept, NoneHands
<1>7. MountInv'
  <2>1. ASSUME NEW t \in Task, Mounting(t)', t # u
        PROVE  /\ Mounting(t) /\ code'[t] = code[t] /\ Progress(t)'
               /\ code[t][1].dv \in Drv /\ code[t][1].dv # dv
    <3>1. code'[t] = code[t]
      BY <2>1 DEF CodePart
    <3>2. Mounting(t)
      BY <2>1, <3>1 DEF Mounting
    <3>3. code[t][1].dv \in Drv /\ code[t][1].dv # dv
      BY <2>1, <3>2, StageIs
    <3> QED BY <2>1, <3>1, <3>2, <3>3, OtherMountGoesOn
  <2>2. ASSUME NEW t \in Task, Mounting(t)'
        PROVE  code'[t][1].dv \in mounted' /\ lock_fwding'[code'[t][1].dv] = NULL /\ Progress(t)'
    <3>1. CASE t = u
      BY <2>2, <3>1
    <3>2. CASE t # u
      <4>1. /\ Mounting(t) /\ code'[t] = code[t] /\ Progress(t)'
            /\ code[t][1].dv \in Drv /\ code[t][1].dv # dv
        BY <2>1, <2>2, <3>2
      <4>2. code[t][1].dv \in mounted /\ lock_fwding[code[t][1].dv] = NULL
        BY <4>1, StageIs
      <4> QED BY <4>1, <4>2 DEF OtherDrives
    <3> QED BY <3>1, <3>2
  <2>3. ASSUME NEW t \in Task, NEW v \in Task, Mounting(t)', Mounting(v)', code'[v][1].dv = code'[t][1].dv
        PROVE  v = t
    <3>1. CASE t # u /\ v # u
      <4>1. Mounting(t) /\ code'[t] = code[t] /\ Mounting(v) /\ code'[v] = code[v]
        BY <2>1, <2>3, <3>1
      <4> QED BY <2>3, <4>1 DEF MountInv
    <3>2. CASE t = u /\ v # u
      <4>1. code'[v][1].dv # dv /\ code'[t][1].dv = dv
        BY <2>1, <2>3, <3>2
      <4> QED BY <2>3, <4>1
    <3>3. CASE t # u /\ v = u
      <4>1. code'[t][1].dv # dv /\ code'[v][1].dv = dv
        BY <2>1, <2>3, <3>3
      <4> QED BY <2>3, <4>1
    <3> QED BY <3>1, <3>2, <3>3
  <2>4. ASSUME NEW d \in Drv, lock_fwding'[d] # NULL PROVE Opened(d)' /\ Clean(d)'
    <3>1. CASE d = dv
      BY <2>4, <3>1
    <3>2. CASE d # dv
      BY <2>4, <3>2 DEF MountInv, OtherDrives, Opened, Clean
    <3> QED BY <3>1, <3>2
  <2> QED BY <2>2, <2>3, <2>4 DEF MountInv
<1>8. DeadHoldNothing'
  <2> SUFFICES ASSUME NEW t \in Task, t \notin ToSet(ring), NEW d \in mounted'
               PROVE  t \notin {bd_owner'[Root(d)'], dv_owner'[d]}
    BY DEF DeadHoldNothing
  <2>1. t # NULL /\ d \in Drv
    BY DevicesAssumption DEF LockInv
  <2>2. CASE d # dv
    <3>1. d \in mounted /\ Root(d)' = Root(d) /\ Root(d) # dv /\ Root(d) \in Drv
      BY <2>1, <2>2, RootIs DEF OtherDrives, Root
    <3>2. t \notin {bd_owner[Root(d)], dv_owner[d]}
      BY <3>1 DEF DeadHoldNothing
    <3> QED BY <2>1, <2>2, <3>1, <3>2 DEF OtherDrives
  <2>3. CASE d = dv /\ lock_fwding'[dv] = NULL
    <3>1. Root(d)' = dv
      BY <2>3 DEF Root
    <3>2. CASE dv \in mounted /\ lock_fwding[dv] = NULL
      <4>1. t \notin {bd_owner[dv], dv_owner[dv]}
        BY <3>2 DEF DeadHoldNothing, Root
      <4> QED BY <2>1, <2>3, <3>1, <4>1 DEF OwnerOrNone
    <3>3. CASE bd_owner'[dv] = NULL /\ dv_owner'[dv] = NULL
      BY <2>1, <2>3, <3>1, <3>3
    <3> QED BY <2>3, <3>2, <3>3
  <2>4. CASE d = dv /\ lock_fwding'[dv] # NULL
    <3>1. Root(d)' = FileDrv[dv] /\ dv \in mounted
      BY <2>4 DEF Root
    <3>2. FileDrv[dv] \in Drv /\ Type[FileDrv[dv]] = "HOSTFS"
      BY <2>4, DevicesAssumption
    <3>3. PICK e \in Drv : e = FileDrv[dv]
      BY <3>2
    <3>4. e \in mounted /\ Root(e) = e /\ e # dv
      BY <3>2, <3>3, DevicesAssumption DEF LockInv, Root
    <3>5. t # bd_owner[e] /\ t # dv_owner[dv]
      BY <3>1, <3>4 DEF DeadHoldNothing
    <3>6. bd_owner'[e] = bd_owner[e]
      BY <3>4 DEF OtherDrives
    <3> QED BY <2>1, <2>4, <3>1, <3>3, <3>5, <3>6 DEF OwnerOrNone
  <2> QED BY <2>2, <2>3, <2>4
<1> QED BY <1>1, <1>2, <1>3, <1>4, <1>5, <1>6, <1>7, <1>8

LEMMA MountKeeps == ASSUME IInv, Mount PROVE IInv'
<1> USE DEF IInv
<1>1. /\ Alive /\ code[Fs] = <<>> /\ Fs \in Task
      /\ UNCHANGED <<uses, ring, killed, boot, cache>> /\ UNCHANGED Fs
  BY FsIs DEF Mount, Idle, tasks
<1>2. PICK dv \in uses[Fs] \ mounted :
        /\ \E f \in IF Type[dv] = "ISO" THEN Files ELSE {NULL} : name' = [name EXCEPT ![dv] = f]
        /\ Cleared(dv) /\ lock_fwding' = [lock_fwding EXCEPT ![dv] = NULL]
        /\ mounted' = mounted \cup {dv}
        /\ code' = [code EXCEPT ![Fs] = <<BlkDevAdd(dv), BlkDevInit(dv)>>]
  BY DEF Mount
<1>3. dv \in Drv /\ Type[dv] # "HOSTFS" /\ dv \notin mounted
  BY <1>1 DEF DeviceInv, LockInv
<1>4. PICK f \in Body1 : name' = [name EXCEPT ![dv] = f]
  BY <1>2 DEF Body1
<1>5. /\ DriveTypes /\ OtherDrives(dv) /\ OwnerOrNone(dv) /\ dv \notin flags'
      /\ lock_fwding'[dv] = NULL /\ bd_owner'[dv] = NULL /\ dv_owner'[dv] = NULL
  BY <1>2, <1>3, <1>4 DEF Cleared, DriveTypes, OtherDrives, OwnerOrNone, DeviceInv, LockInv, Body1
<1>6. PICK a \in Frames : a = BlkDevAdd(dv) /\ a.op = "BlkDevAdd" /\ a.dv = dv /\ a.at = "added"
  <2>1. IsNew(BlkDevAdd(dv), "BlkDevAdd", dv, "added")
    BY <1>3, NoExtent, NewCalls, Zenon
  <2> QED BY <2>1 DEF IsNew
<1>7. PICK b \in Frames : b = BlkDevInit(dv) /\ b.op = "BlkDevInit" /\ b.dv = dv /\ b.at = "start"
  <2>1. IsNew(BlkDevInit(dv), "BlkDevInit", dv, "start")
    BY <1>3, NoExtent, NewCalls, Zenon
  <2> QED BY <2>1 DEF IsNew
<1> DEFINE s == <<a, b>>
<1>8. s \in Seq(Frames) /\ Len(s) = 2 /\ s[1] = a /\ s[2] = b /\ DOMAIN s = {1, 2} /\ s # <<>>
  OBVIOUS
<1>9. code' = [code EXCEPT ![Fs] = s]
  BY <1>2, <1>6, <1>7
<1> HIDE DEF s
<1>10. StackOK(s)
  <2>1. FrameOK(a) /\ FrameOK(b) /\ Calls(a, b) /\ Returned(b)
    BY <1>3, <1>6, <1>7 DEF FrameOK, Calls, Returned, OfImage
  <2> QED BY <1>8, <2>1 DEF StackOK
<1>11. CodePart /\ code'[Fs] = s
  BY <1>1, <1>8, <1>9, <1>10, BeginKeeps, BeginIs
<1>12. ~ Hands(code'[Fs]) /\ code'[Fs][Len(code'[Fs])].dv = dv
  BY <1>7, <1>8, <1>11 DEF Hands
<1>13. ASSUME NEW t \in Task, Mounting(t) PROVE code[t][1].dv # dv
  BY <1>3, <1>13, StageIs
<1>14. PICK u \in Task : u = Fs
  BY <1>1
<1>15. code'[u][1].dv = dv /\ dv \in mounted' /\ Progress(u)'
  <2>1. code'[u] = s /\ Len(s) = 2 /\ s[1].dv = dv /\ s[2].at = "start" /\ Fs' = u /\ Alive'
    BY <1>1, <1>6, <1>7, <1>8, <1>11, <1>14 DEF Alive
  <2> HIDE DEF s
  <2>2. Progress(u)'
    BY <1>5, <2>1 DEF Progress
  <2> QED BY <1>2, <2>1, <2>2
<1> QED BY <1>1, <1>2, <1>3, <1>5, <1>11, <1>12, <1>13, <1>14, <1>15, DriveStep

LEMMA MountEndKeeps == ASSUME IInv, MountEnd PROVE IInv'
<1> USE DEF IInv
<1>1. /\ Alive /\ code[Fs] # <<>> /\ Top.op = "BlkDevAdd" /\ Top.at = "added" /\ ReturnWith(TRUE)
      /\ UNCHANGED <<uses, ring, killed, boot, cache>> /\ UNCHANGED Fs
  BY DEF MountEnd, At, Return, Cleared, devices, tasks
<1>2. PICK u \in Task : u = Fs
  BY <1>1, FsIs
<1>3. code[u] \in Seq(Frames) /\ StackOK(code[u]) /\ Top = code[u][Len(code[u])] /\ Top \in Frames /\ FrameOK(Top)
  BY <1>1, <1>2, TopIs
<1>4. Len(code[u]) = 1 /\ Top = code[u][1] /\ Mounting(u)
  <2>1. Len(code[u]) = 1
    BY <1>1, <1>2, <1>3, BottomIs
  <2> QED BY <1>1, <1>2, <1>3, <2>1 DEF Mounting
<1>5. PICK dv \in Drv : dv = Top.dv
  BY <1>3 DEF Frames
<1>6. /\ dv \in mounted /\ lock_fwding[dv] = NULL /\ Type[dv] # "HOSTFS"
      /\ \A t \in Task : Mounting(t) /\ code[t][1].dv = dv => t = u
      /\ Top.ok /\ Type[dv] = "ISO" => Opened(dv) /\ Clean(dv)
  <2>1. Type[dv] # "HOSTFS"
    BY <1>1, <1>3, <1>5 DEF FrameOK
  <2> QED BY <1>4, <1>5, <2>1 DEF MountInv, Progress
<1>7. CodePart
  BY <1>1, ReturnKeeps, Zenon
<1>8. code'[u] = <<>>
  <2>1. Stacks(0, 0)
    BY <1>1, <1>2, <1>4, ReturnIs
  <2>2. Len(code'[u]) = 0 /\ code'[u] \in Seq(Frames)
    BY <1>2, <2>1 DEF Stacks
  <2> QED BY <2>2
<1>9. ~ Hands(code'[Fs]) /\ ~ Mounting(u)'
  BY <1>2, <1>8 DEF Hands, Mounting
<1>10. CASE Top.ok
  <2>1. /\ lock_fwding' = [lock_fwding EXCEPT ![dv] = FileDrv[dv]]
        /\ UNCHANGED <<bd_owner, dv_owner, mounted, flags, name, file_dsk, root>>
    BY <1>5, <1>10 DEF MountEnd, devices
  <2>2. FileDrv[dv] \in Drv \cup {NULL} /\ (FileDrv[dv] # NULL => Type[dv] = "ISO")
    BY DevicesAssumption
  <2>3. DriveTypes /\ OtherDrives(dv) /\ OwnerOrNone(dv) /\ lock_fwding'[dv] = FileDrv[dv]
    BY <2>1, <2>2 DEF DriveTypes, OtherDrives, OwnerOrNone, DeviceInv, LockInv
  <2>4. lock_fwding'[dv] # NULL => Opened(dv)' /\ Clean(dv)'
    BY <1>1, <1>6, <1>10, <2>1, <2>2, <2>3 DEF Opened, Clean
  <2> QED BY <1>1, <1>2, <1>6, <1>7, <1>8, <1>9, <2>1, <2>3, <2>4, DriveStep
<1>11. CASE ~ Top.ok
  <2>1. Cleared(dv) /\ mounted' = mounted \ {dv} /\ UNCHANGED <<lock_fwding, name>>
    BY <1>5, <1>11 DEF MountEnd
  <2>2. DriveTypes /\ OtherDrives(dv) /\ OwnerOrNone(dv) /\ lock_fwding'[dv] = NULL
    BY <1>6, <2>1 DEF Cleared, DriveTypes, OtherDrives, OwnerOrNone, DeviceInv, LockInv, Body1
  <2> QED BY <1>1, <1>2, <1>6, <1>7, <1>8, <1>9, <2>1, <2>2, DriveStep
<1> QED BY <1>10, <1>11

LEMMA UnmountKeeps == ASSUME IInv, Unmount PROVE IInv'
<1> USE DEF IInv
<1>1. /\ Alive /\ code[Fs] = <<>> /\ Fs \in Task
      /\ UNCHANGED <<uses, ring, killed, boot, cache, code>> /\ UNCHANGED Fs
  BY FsIs DEF Unmount, Idle, tasks
<1>2. PICK dv \in uses[Fs] \cap mounted :
        /\ Type[dv] # "HOSTFS" /\ ~InUse(dv)
        /\ Cleared(dv) /\ mounted' = mounted \ {dv}
        /\ lock_fwding' = [lock_fwding EXCEPT ![dv] = NULL]
        /\ name' = [name EXCEPT ![dv] = NULL]
  BY DEF Unmount
<1>3. dv \in Drv /\ Type[dv] # "HOSTFS"
  BY <1>2 DEF LockInv
<1>4. /\ DriveTypes /\ OtherDrives(dv) /\ OwnerOrNone(dv)
      /\ lock_fwding'[dv] = NULL
  BY <1>2, <1>3 DEF Cleared, DriveTypes, OtherDrives, OwnerOrNone, DeviceInv, LockInv, Body1
<1>5. CodePart
  BY <1>1 DEF CodePart, CodeInv
<1>6. ~ Hands(code'[Fs]) /\ code'[Fs] = <<>>
  BY <1>1 DEF Hands
<1>7. ASSUME NEW t \in Task, Mounting(t) PROVE code[t][1].dv # dv
  <2>1. t \in ToSet(ring) /\ code[t] \in Seq(Frames) /\ code[t] # <<>>
    BY <1>7 DEF CodeInv, Mounting
  <2>2. 1 \in DOMAIN code[t]
    BY <2>1
  <2> QED BY <1>2, <2>1, <2>2 DEF InUse
<1>8. PICK u \in Task : u = Fs
  BY <1>1
<1>9. ~ Mounting(u)'
  BY <1>6, <1>8 DEF Mounting
<1> QED BY <1>1, <1>2, <1>3, <1>4, <1>5, <1>6, <1>7, <1>8, <1>9, DriveStep

-----------------------------------------------------------------------------
(***************************************************************************)
(* Killed tasks.                                                           *)
(***************************************************************************)
LEMMA KillKeeps == ASSUME IInv, Kill PROVE IInv'
<1> USE DEF IInv
<1>1. /\ Alive /\ code[Fs] = <<>> /\ Fs \in Task
      /\ UNCHANGED <<uses, Fs, ring, locks, devices, cache, code>>
  BY FsIs DEF Kill, Idle
<1>2. UNCHANGED <<uses, Fs, ring, bd_owner, dv_owner, lock_fwding, mounted, flags, name, file_dsk,
                  boot, root, cache, code>>
  BY <1>1 DEF locks, devices
<1>3. PICK t \in ToSet(ring) \ ({Fs, Adam} \cup killed) : killed' = killed \cup {t}
  BY DEF Kill
<1>4. t \in Task /\ t # Adam
  BY <1>3 DEF RingInv, ToSet
<1>5. Alive'
  BY <1>1, <1>2, <1>3 DEF Alive
<1>6. CodeInv' /\ LockInv' /\ DeviceInv' /\ DeadHoldNothing'
  BY <1>2 DEF CodeInv, LockInv, DeviceInv, IsCache, DeadHoldNothing, Root
<1>7. RingInv'
  BY <1>2, <1>3, <1>4 DEF RingInv
<1>8. HostInv'
  BY <1>2, <1>3 DEF HostInv
<1>9. MountInv'
  BY <1>2, <1>5 DEF MountInv, Mounting, Progress, Dropped, Opened, Clean
<1>10. NoHands'
  BY <1>1, <1>2 DEF NoHands, HandInv, Hands
<1> QED BY <1>6, <1>7, <1>8, <1>9, <1>10, NoneHands

LEMMA DyingIs == ASSUME RingInv, Dying PROVE Fs \in Task /\ Fs # NULL /\ Fs # Adam /\ Fs \in ToSet(ring) /\ ~ Alive
  BY DevicesAssumption DEF RingInv, Dying, Alive

\* The lock of a device is let go, which is to be initialised anew.
LEMMA ReleaseKeeps ==
  ASSUME IInv, Dying, Yield, NEW d \in Drv, bd_owner' = [bd_owner EXCEPT ![d] = NULL], flags' = Reset(d),
         UNCHANGED <<uses, ring, killed, dv_owner, lock_fwding, mounted, name, file_dsk, boot, root, cache, code>>
  PROVE  IInv'
<1>1. Fs \in Task /\ ~ Alive
  BY DyingIs DEF IInv
<1>2. Owners
  BY BdOwner DEF IInv
<1>3. DeviceInv'
  BY DEF IInv, DeviceInv, Reset, IsCache
<1> QED BY <1>1, <1>2, <1>3, QuietKeeps

LEMMA DrvsReleaseKeeps == ASSUME IInv, DrvsRelease PROVE IInv'
<1>1. Dying /\ Yield
  BY DEF DrvsRelease
<1>2. PICK dv \in Owned :
        IF bd_owner[Root(dv)] = Fs
        THEN /\ bd_owner' = [bd_owner EXCEPT ![Root(dv)] = NULL]
             /\ flags' = Reset(Root(dv)) /\ UNCHANGED dv_owner
        ELSE dv_owner' = [dv_owner EXCEPT ![dv] = NULL] /\ UNCHANGED <<bd_owner, flags>>
  BY DEF DrvsRelease
<1>3. dv \in Drv /\ dv_owner[dv] = Fs
  BY <1>2 DEF Owned, IInv, LockInv
<1>4. PICK d \in Drv : d = Root(dv)
  BY <1>3, RootIs DEF IInv
<1>5. UNCHANGED <<uses, ring, killed, lock_fwding, mounted, name, file_dsk, boot, root, cache, code>>
  BY DEF DrvsRelease
<1>6. CASE bd_owner[Root(dv)] = Fs
  BY <1>1, <1>2, <1>4, <1>5, <1>6, ReleaseKeeps
<1>7. CASE bd_owner[Root(dv)] # Fs
  <2>1. dv_owner' = [dv_owner EXCEPT ![dv] = NULL] /\ UNCHANGED <<bd_owner, flags>>
    BY <1>2, <1>7
  <2>2. Fs \in Task /\ ~ Alive
    BY <1>1, DyingIs DEF IInv
  <2>3. Owners
    BY <1>3, <2>1, DvOwner DEF IInv
  <2>4. DeviceInv'
    BY <1>5, <2>1 DEF IInv, DeviceInv, IsCache
  <2> QED BY <1>1, <1>5, <2>2, <2>3, <2>4, QuietKeeps
<1> QED BY <1>6, <1>7

LEMMA BlkDevsReleaseKeeps == ASSUME IInv, BlkDevsRelease PROVE IInv'
<1>1. /\ Dying /\ Yield
      /\ UNCHANGED <<uses, ring, killed, dv_owner, lock_fwding, mounted, name, file_dsk, boot, root, cache, code>>
  BY DEF BlkDevsRelease
<1>2. PICK b \in OwnedBds : bd_owner' = [bd_owner EXCEPT ![Root(b)] = NULL] /\ flags' = Reset(Root(b))
  BY DEF BlkDevsRelease
<1>3. b \in Drv
  BY <1>2 DEF OwnedBds, IInv, LockInv
<1>4. PICK d \in Drv : d = Root(b)
  BY <1>3, RootIs DEF IInv
<1> QED BY <1>1, <1>2, <1>4, ReleaseKeeps

\* Without the running task the ring has each of the others once, and one of them is next.
LEMMA LeavesRing ==
  ASSUME RingInv, Dying, ring' = RemoveAt(ring, PlaceIn(ring, Fs)), Fs' = NextIn(ring, Fs), UNCHANGED killed
  PROVE  RingInv' /\ ToSet(ring') = ToSet(ring) \ {Fs} /\ Fs' # Fs
<1> DEFINE k == PlaceIn(ring, Fs)
           n == Len(ring)
<1>1. Fs \in Task /\ Fs # NULL /\ Fs # Adam /\ Fs \in ToSet(ring)
  BY DyingIs
<1>2. ring \in Seq(Task) /\ n \in Nat \ {0} /\ DOMAIN ring = 1 .. n /\ k \in 1 .. n /\ ring[k] = Fs
  BY <1>1, PlaceIs
<1>3. PICK a \in 1 .. n : ring[a] = Adam
  BY <1>2 DEF RingInv, ToSet
<1> HIDE DEF k
<1>4. k \in DOMAIN ring /\ ring' = RemoveAt(ring, k)
  <2>1. k \in DOMAIN ring
    BY <1>2
  <2>2. ring' = RemoveAt(ring, k)
    BY Zenon DEF k
  <2> QED BY <2>1, <2>2
<1>5. /\ ring' \in Seq(Task) /\ Len(ring') = n - 1
      /\ \A i \in 1 .. n - 1 : ring'[i] = IF i < k THEN ring[i] ELSE ring[i + 1]
  BY <1>2, <1>4, RemoveAtElements
<1>6. DOMAIN ring' = 1 .. n - 1
  BY <1>5
<1> HIDE DEF n
<1>7. \A i, j \in 1 .. n : ring[i] = ring[j] => i = j
  BY <1>2 DEF RingInv
<1>8. \A i, j \in DOMAIN ring' : ring'[i] = ring'[j] => i = j
  <2> SUFFICES ASSUME NEW i \in 1 .. n - 1, NEW j \in 1 .. n - 1, ring'[i] = ring'[j] PROVE i = j
    BY <1>6
  <2> DEFINE x == IF i < k THEN i ELSE i + 1
             y == IF j < k THEN j ELSE j + 1
  <2>1. x \in 1 .. n /\ y \in 1 .. n /\ ring'[i] = ring[x] /\ ring'[j] = ring[y]
    BY <1>2, <1>5
  <2>2. x = y
    <3> HIDE DEF x, y
    <3> QED BY <1>7, <2>1
  <2> QED BY <1>2, <2>2
<1>9. ToSet(ring') = ToSet(ring) \ {Fs}
  <2>1. ASSUME NEW t \in ToSet(ring') PROVE t \in ToSet(ring) \ {Fs}
    <3>1. PICK i \in 1 .. n - 1 : t = ring'[i]
      BY <1>6 DEF ToSet
    <3>2. PICK x \in 1 .. n : x = (IF i < k THEN i ELSE i + 1)
      BY <1>2
    <3>3. t = ring[x] /\ x # k
      BY <1>2, <1>5, <3>1, <3>2
    <3>4. t # Fs
      BY <1>2, <1>7, <3>3
    <3> QED BY <1>2, <3>3, <3>4 DEF ToSet
  <2>2. ASSUME NEW t \in ToSet(ring), t # Fs PROVE t \in ToSet(ring')
    <3>1. PICK x \in 1 .. n : t = ring[x]
      BY <1>2 DEF ToSet
    <3>2. x # k
      BY <1>2, <2>2, <3>1
    <3>3. PICK i \in 1 .. n - 1 : x = IF i < k THEN i ELSE i + 1
      <4>1. CASE x < k
        BY <1>2, <4>1
      <4>2. CASE x > k
        <5>1. x - 1 \in 1 .. n - 1 /\ ~(x - 1 < k) /\ x - 1 + 1 = x
          BY <1>2, <4>2
        <5> QED BY <5>1
      <4> QED BY <1>2, <3>2, <4>1, <4>2
    <3>4. t = ring'[i]
      BY <1>5, <3>1, <3>3
    <3> QED BY <1>6, <3>4 DEF ToSet
  <2> QED BY <2>1, <2>2
<1>10. Fs' \in ToSet(ring) /\ Fs' # Fs
  <2>1. Fs' = ring[(k % n) + 1]
    BY DEF NextIn, k, n
  <2>2. n > 1
    <3>1. a # k
      BY <1>1, <1>2, <1>3
    <3> QED BY <1>2, <1>3, <3>1
  <2>3. (k % n) + 1 \in 1 .. n /\ (k % n) + 1 # k
    BY <1>2, <2>2
  <2> QED BY <1>2, <1>7, <2>1, <2>3 DEF ToSet
<1> QED BY <1>1, <1>5, <1>8, <1>9, <1>10 DEF RingInv

LEMMA TaskEndKeeps == ASSUME IInv, TaskEnd PROVE IInv'
<1> USE DEF IInv
<1>1. /\ Dying /\ Owned = {} /\ OwnedBds = {} /\ code' = [code EXCEPT ![Fs] = <<>>]
      /\ ring' = RemoveAt(ring, PlaceIn(ring, Fs)) /\ Fs' = NextIn(ring, Fs)
      /\ UNCHANGED <<uses, killed, locks, devices, cache>>
  BY DEF TaskEnd
<1>2. UNCHANGED <<uses, killed, bd_owner, dv_owner, lock_fwding, mounted, flags, name, file_dsk,
                  boot, root, cache>>
  BY <1>1 DEF locks, devices
<1>3. Fs \in Task /\ Fs # NULL /\ Fs # Adam /\ Fs \in ToSet(ring) /\ ~ Alive
  BY <1>1, DyingIs
<1>4. RingInv' /\ ToSet(ring') = ToSet(ring) \ {Fs} /\ Fs' # Fs
  BY <1>1, <1>2, LeavesRing
<1>5. code'[Fs] = <<>> /\ \A t \in Task : t # Fs => code'[t] = code[t]
  BY <1>1, <1>3 DEF CodeInv
<1>6. CodeInv'
  <2>1. code' \in [Task -> Seq(Frames)]
    BY <1>1, <1>3 DEF CodeInv
  <2>2. \A t \in Task : StackOK(code'[t])
    <3>1. StackOK(<<>>)
      BY DEF StackOK
    <3> QED BY <1>5, <3>1 DEF CodeInv
  <2>3. \A t \in Task : t \notin ToSet(ring') => code'[t] = <<>>
    BY <1>4, <1>5 DEF CodeInv
  <2> QED BY <2>1, <2>2, <2>3 DEF CodeInv
<1>7. LockInv' /\ DeviceInv'
  BY <1>2 DEF LockInv, DeviceInv, IsCache
<1>8. HostInv'
  BY <1>1, <1>2, <1>5 DEF HostInv, Dying
<1>9. MountInv'
  <2>1. ASSUME NEW t \in Task, Mounting(t)'
        PROVE  Mounting(t) /\ code'[t] = code[t] /\ Progress(t)'
    <3>1. code'[t] = code[t] /\ t # Fs
      BY <1>5, <2>1 DEF Mounting
    <3>2. Mounting(t)
      BY <2>1, <3>1 DEF Mounting
    <3>3. Progress(t) /\ ~ (Len(code[t]) > 1 /\ code[t][2].at = "start")
      BY <3>1, <3>2, StageIs DEF Progress
    <3>4. Progress(t)'
      BY <1>2, <3>1, <3>3 DEF Progress, Dropped, Opened, Clean
    <3> QED BY <3>1, <3>2, <3>4
  <2> QED BY <1>2, <2>1 DEF MountInv, Opened, Clean
<1>10. NoHands'
  <2> SUFFICES ASSUME NEW t \in Task, Hands(code'[t]) PROVE FALSE
    BY DEF NoHands
  <2>1. t # Fs /\ Hands(code[t])
    BY <1>5 DEF Hands
  <2> QED BY <2>1 DEF HandInv
<1>11. DeadHoldNothing'
  <2> SUFFICES ASSUME NEW t \in Task, t \notin ToSet(ring'), NEW d \in mounted
               PROVE  t \notin {bd_owner[Root(d)], dv_owner[d]}
    BY <1>2 DEF DeadHoldNothing, Root
  <2>1. CASE t # Fs
    BY <1>4, <2>1 DEF DeadHoldNothing
  <2>2. CASE t = Fs
    <3>1. d \in Drv
      BY DEF LockInv
    <3>2. Root(d) \in mounted /\ Root(Root(d)) = Root(d)
      BY <3>1, RootIs
    <3>3. Root(d) \notin OwnedBds /\ d \notin Owned
      BY <1>1
    <3>4. bd_owner[Root(d)] # Fs
      BY <3>2, <3>3 DEF OwnedBds
    <3> QED BY <2>2, <3>3, <3>4 DEF Owned
  <2> QED BY <2>1, <2>2
<1> QED BY <1>4, <1>6, <1>7, <1>8, <1>9, <1>10, <1>11, NoneHands

-----------------------------------------------------------------------------
(***************************************************************************)
(* The invariant holds at first and always.                                *)
(***************************************************************************)
\* As many places as tasks, with a task of each: no task is there twice.
LEMMA RingBegins ==
  ASSUME NEW r \in [1 .. Cardinality(Task) -> Task], ToSet(r) = Task
  PROVE  r \in Seq(Task) /\ \A i, j \in DOMAIN r : r[i] = r[j] => i = j
<1> DEFINE n == Cardinality(Task)
           S == 1 .. n
<1>1. n \in Nat
  BY FS_CardinalityType, DevicesAssumption
<1> HIDE DEF n
<1>2. IsFiniteSet(S) /\ Cardinality(S) = n
  BY <1>1, FS_Interval
<1>3. r \in [S -> Task]
  BY DEF n
<1>4. r \in Surjection(S, Task)
  <2>1. \A t \in Task : \E i \in S : r[i] = t
    BY <1>3 DEF ToSet
  <2> QED BY <1>3, <2>1 DEF Surjection
<1>5. r \in Injection(S, Task)
  BY <1>2, <1>4, FS_SurjSameCardinalityImpliesInj DEF n
<1>6. r \in Seq(Task)
  BY <1>1, <1>3
<1>7. \A i, j \in S : r[i] = r[j] => i = j
  BY <1>5 DEF Injection, IsInjective
<1> QED BY <1>3, <1>6, <1>7

LEMMA InitHolds == Init => IInv
<1> SUFFICES ASSUME Init PROVE IInv
  OBVIOUS
<1>1. ring \in [1 .. Cardinality(Task) -> Task] /\ ToSet(ring) = Task /\ Fs = Adam /\ Adam \in Task /\ killed = {}
  BY DevicesAssumption DEF Init
<1>2. RingInv
  BY <1>1, RingBegins DEF RingInv
<1>3. /\ bd_owner = [d \in Drv |-> NULL] /\ dv_owner = bd_owner /\ lock_fwding = bd_owner
      /\ name = bd_owner /\ file_dsk = bd_owner /\ root = bd_owner
      /\ mounted = {d \in Drv : Type[d] = "HOSTFS"} /\ flags = {} /\ boot \subseteq Drv
      /\ uses \in [Task -> SUBSET Drv] /\ code = [t \in Task |-> <<>>]
      /\ cache = [i \in 1 .. CacheBlks |-> EmptyBlk]
  BY DevicesAssumption DEF Init
<1>4. LockInv
  BY <1>3 DEF LockInv
<1>5. DeviceInv
  <2>1. EmptyBlk \in CacheBlk
    BY DEF EmptyBlk, CacheBlk, Body1
  <2>2. CacheBlks \in Nat
    BY DevicesAssumption
  <2> DEFINE n == CacheBlks
             c == [i \in 1 .. n |-> EmptyBlk]
  <2>3. c \in Seq(CacheBlk) /\ Len(c) = n
    <3> HIDE DEF n
    <3> QED BY <2>1, <2>2 DEF n
  <2>4. IsCache(cache)
    BY <1>3, <2>3 DEF IsCache
  <2> QED BY <1>3, <2>4 DEF DeviceInv, Body1
<1>6. \A t \in Task : code[t] = <<>> /\ DOMAIN code[t] = {} /\ ~ Mounting(t) /\ ~ Hands(code[t])
  BY <1>3 DEF Mounting, Hands
<1>7. CodeInv
  <2>1. StackOK(<<>>) /\ <<>> \in Seq(Frames)
    BY DEF StackOK
  <2> QED BY <1>3, <1>6, <2>1 DEF CodeInv
<1>8. HostInv /\ HandInv
  BY <1>6 DEF HostInv, HandInv
<1>9. MountInv
  BY <1>3, <1>6 DEF MountInv
<1>10. ReadsMounted
  BY <1>1, <1>6 DEF ReadsMounted, HandsOver
<1>11. DeadHoldNothing
  BY <1>1 DEF DeadHoldNothing
<1> QED BY <1>2, <1>4, <1>5, <1>7, <1>8, <1>9, <1>10, <1>11 DEF IInv

LEMMA Preserved == ASSUME IInv, Next PROVE IInv'
<1>1. CASE Start \/ Wait \/ LockBlkDev \/ LockDrv \/ UnlockBlkDev \/ UnlockDrv
  BY <1>1, StartKeeps, WaitKeeps, LockBlkDevKeeps, LockDrvKeeps, UnlockBlkDevKeeps, UnlockDrvKeeps
<1>2. CASE CallInit \/ Crash \/ Read \/ Invalidate \/ FsReads \/ TakeRoot \/ FmtZero \/ FmtBoot
  BY <1>2, CallInitKeeps, CrashKeeps, ReadKeeps, InvalidateKeeps, FsReadsKeeps, TakeRootKeeps,
     FmtZeroKeeps, FmtBootKeeps
<1>3. CASE InitStart \/ InitRAM \/ InitISO \/ InitEnd \/ Mount \/ MountEnd \/ Unmount
  BY <1>3, InitStartKeeps, InitRAMKeeps, InitISOKeeps, InitEndKeeps, MountKeeps, MountEndKeeps, UnmountKeeps
<1>4. CASE Kill \/ DrvsRelease \/ BlkDevsRelease \/ TaskEnd
  BY <1>4, KillKeeps, DrvsReleaseKeeps, BlkDevsReleaseKeeps, TaskEndKeeps
<1> QED BY <1>1, <1>2, <1>3, <1>4 DEF Next

LEMMA Stutters == ASSUME IInv, UNCHANGED vars PROVE IInv'
<1>1. UNCHANGED <<uses, Fs, ring, killed, bd_owner, dv_owner, lock_fwding, mounted, flags, name, file_dsk,
                  boot, root, cache, code>>
  BY DEF vars, tasks, locks, devices
<1>2. CodeInv' /\ RingInv' /\ LockInv' /\ HostInv' /\ HandInv'
  BY <1>1 DEF IInv, CodeInv, RingInv, LockInv, HostInv, HandInv, Alive
<1>3. DeviceInv'
  BY <1>1 DEF IInv, DeviceInv, IsCache
<1>4. MountInv'
  BY <1>1 DEF IInv, MountInv, Mounting, Progress, Dropped, Opened, Clean, Alive
<1>5. ReadsMounted' /\ DeadHoldNothing'
  BY <1>1 DEF IInv, ReadsMounted, HandsOver, Alive, Top, Mounted, DeadHoldNothing, Root
<1> QED BY <1>2, <1>3, <1>4, <1>5 DEF IInv

\* The stacks of calls are ones the code can have made, the ring and the locks are
\* sound, and the mounts come as far as they have with the file open and the cache
\* without another's blocks.
THEOREM Invariance == Spec => []IInv
<1>1. Init => IInv
  BY InitHolds
<1>2. IInv /\ [Next]_vars => IInv'
  BY Preserved, Stutters
<1> QED BY <1>1, <1>2, PTL DEF Spec

\* The fields of CDrv, CBlkDev and the cache hold what they can hold.
THEOREM TypeCorrect == Spec => []TypeOK
<1>1. ASSUME IInv PROVE TypeOK
  <2> USE <1>1 DEF IInv
  <2>1. Fs \in Task \cup {NULL} /\ killed \subseteq Task \ {Adam} /\ ToSet(ring) \subseteq Task
        /\ (Fs # NULL => Fs \in ToSet(ring))
    <3>1. ToSet(ring) \subseteq Task
      BY DEF RingInv, ToSet
    <3> QED BY <3>1 DEF RingInv
  <2>2. /\ {bd_owner, dv_owner} \subseteq [Drv -> Task \cup {NULL}]
        /\ lock_fwding \in [Drv -> Drv \cup {NULL}]
    BY DEF LockInv
  <2>3. /\ mounted \cup flags \cup boot \subseteq Drv /\ {name, file_dsk, root} \subseteq [Drv -> Files \cup {NULL}]
        /\ Len(cache) = CacheBlks
    BY DEF LockInv, DeviceInv, IsCache, Body1
  <2>4. \A t \in Task : \A i \in DOMAIN code[t] : code[t][i].dv \in Drv
    <3> SUFFICES ASSUME NEW t \in Task, NEW i \in DOMAIN code[t] PROVE code[t][i].dv \in Drv
      OBVIOUS
    <3>1. code[t][i] \in Frames
      BY DEF CodeInv
    <3> QED BY <3>1 DEF Frames
  <2> QED BY <2>1, <2>2, <2>3, <2>4 DEF TypeOK
<1> QED BY <1>1, Invariance, PTL

\* What BlkRead hands over of an image that is mounted is of the file the image is in,
\* whatever was mounted at the letter before and whoever was killed in between.
THEOREM MountedImagesAreRead == Spec => []ReadsMounted
<1>1. IInv => ReadsMounted
  BY DEF IInv
<1> QED BY <1>1, Invariance, PTL

\* A task that has died has no drive or device locked that another can wait for: "When
\* task dies, release all owned drvs" (DrvsRelease, BlkDevsRelease).
THEOREM TheDeadHoldNothing == Spec => []DeadHoldNothing
<1>1. IInv => DeadHoldNothing
  BY DEF IInv
<1> QED BY <1>1, Invariance, PTL

-----------------------------------------------------------------------------
(***************************************************************************)
(* RAM disks: who formats one keeps it locked to the end, as the calls     *)
(* RedSeaFmt makes find the lock taken, do not let go of it, and find the  *)
(* boot block, so that none of them formats the disk a second time.        *)
(***************************************************************************)
Fmt(f) == f.op = "RedSeaFmt"
OfRAM(f) == Type[f.dv] = "RAM"

\* A RAM disk that is worked on is mounted, and its mount does not fail.
RamFrame(f, mnt) ==
  /\ Fmt(f) => OfRAM(f)
  /\ OfRAM(f) => f.dv \in mnt /\ (f.op = "BlkDevAdd" => f.ok)
RamLock(f, t, own, bt) == OfRAM(f) =>
  /\ f.at = "unlock_dv" \/ (Fmt(f) /\ f.at \in AtWork) => own[f.dv] = t
  /\ Fmt(f) /\ f.at = "unlock" => f.dv \in bt
UnderFmt(f, g) == Fmt(f) => ~ Fmt(g) /\ g.dv = f.dv /\ ~ g.unlock /\ g.at # "unlock_dv"
RamOf(s, t, dead, mnt, own, bt) ==
  \A i \in DOMAIN s :
    /\ RamFrame(s[i], mnt) /\ (t \notin dead => RamLock(s[i], t, own, bt))
    /\ \A j \in DOMAIN s : i < j => UnderFmt(s[i], s[j])
RamInv == \A t \in Task : RamOf(code[t], t, killed, mounted, dv_owner, boot)

\* What a step leaves to the task that has the RAM disk d locked.
KeepsDisk(t, d) ==
  /\ dv_owner'[d] = t \/ (t = Fs /\ Top.at = "unlock_dv" /\ Top.dv = d)
  /\ d \in boot => d \in boot' \/ (t = Fs /\ Fmt(Top) /\ Top.dv = d)
RamLocks ==
  \A t \in Task : \A d \in Drv :
    Type[d] = "RAM" /\ d \in mounted /\ dv_owner[d] = t => KeepsDisk(t, d)
RamStays == \A d \in Drv : Type[d] = "RAM" /\ d \in mounted => d \in mounted'

LEMMA LocksUnchanged == ASSUME UNCHANGED <<dv_owner, boot>> PROVE RamLocks
  BY DEF RamLocks, KeepsDisk

\* A task that keeps its calls, its drives and what it has locked.
LEMMA OthersRam ==
  ASSUME NEW t \in Task, code[t] \in Seq(Frames),
         RamOf(code[t], t, killed, mounted, dv_owner, boot), code'[t] = code[t],
         \A i \in DOMAIN code[t] : OfRAM(code[t][i]) => code[t][i].dv \in mounted',
         t \notin killed' => t \notin killed,
         t \notin killed' => \A d \in Drv : Type[d] = "RAM" /\ d \in mounted /\ dv_owner[d] = t =>
                               dv_owner'[d] = t /\ (d \in boot => d \in boot')
  PROVE  RamOf(code'[t], t, killed', mounted', dv_owner', boot')
<1> DEFINE s == code[t]
<1> SUFFICES ASSUME NEW i \in DOMAIN s
             PROVE  /\ RamFrame(s[i], mounted')
                    /\ t \notin killed' => RamLock(s[i], t, dv_owner', boot')
                    /\ \A j \in DOMAIN s : i < j => UnderFmt(s[i], s[j])
  BY DEF RamOf
<1>0. s[i] \in Frames
  OBVIOUS
<1>1. s[i].dv \in Drv
  BY <1>0 DEF Frames
<1>2. /\ RamFrame(s[i], mounted) /\ (t \notin killed => RamLock(s[i], t, dv_owner, boot))
      /\ \A j \in DOMAIN s : i < j => UnderFmt(s[i], s[j])
  BY Zenon DEF RamOf
<1>3. OfRAM(s[i]) => s[i].dv \in mounted'
  OBVIOUS
<1> HIDE DEF s
<1>4. RamFrame(s[i], mounted')
  BY <1>2, <1>3 DEF RamFrame
<1>5. ASSUME t \notin killed' PROVE RamLock(s[i], t, dv_owner', boot')
  <2> DEFINE d == s[i].dv
  <2>1. CASE ~ OfRAM(s[i])
    BY <2>1 DEF RamLock
  <2>2. CASE OfRAM(s[i])
    <3>1. Type[d] = "RAM" /\ d \in mounted /\ d \in Drv
      BY <1>1, <1>2, <2>2 DEF RamFrame, OfRAM
    <3>2. dv_owner[d] = t => dv_owner'[d] = t /\ (d \in boot => d \in boot')
      BY <1>5, <3>1
    <3>3. RamLock(s[i], t, dv_owner, boot)
      BY <1>2, <1>5
    <3>4. "unlock" \in AtWork
      BY DEF AtWork
    <3> QED BY <2>2, <3>2, <3>3, <3>4 DEF RamLock
  <2> QED BY <2>1, <2>2
<1> QED BY <1>2, <1>4, <1>5

\* The calls of the running task that wait for another.
LEMMA WaitingIs ==
  ASSUME CodeInv, RingInv, RamInv, Alive, code[Fs] # <<>>, NEW i \in 1 .. Len(code[Fs]) - 1
  PROVE  LET c == code[Fs][i] IN
         /\ c \in Frames /\ c.at # "unlock_dv" /\ RamFrame(c, mounted) /\ UnderFmt(c, Top)
         /\ Fmt(c) => /\ OfRAM(c) /\ c.at = "unlock" /\ c.dv \in mounted
                      /\ dv_owner[c.dv] = Fs /\ c.dv \in boot
<1> DEFINE s == code[Fs]
           n == Len(s)
           c == s[i]
<1>1. Fs \in Task /\ Fs \notin killed
  BY FsIs DEF Alive
<1>2. s \in Seq(Frames) /\ n \in Nat \ {0} /\ DOMAIN s = 1 .. n /\ StackOK(s) /\ Top = s[n]
  BY TopIs
<1>3. RamOf(s, Fs, killed, mounted, dv_owner, boot)
  BY <1>1 DEF RamInv
<1> HIDE DEF s
<1>4. i \in DOMAIN s /\ n \in DOMAIN s /\ i < n /\ i \in 1 .. n - 1
  BY <1>2 DEF s
<1>5. c \in Frames
  BY <1>2, <1>4
<1>6. RamFrame(c, mounted) /\ RamLock(c, Fs, dv_owner, boot) /\ UnderFmt(c, s[n])
  BY <1>1, <1>3, <1>4, Zenon DEF RamOf
<1>7. Calls(s[i], s[i + 1])
  BY <1>2, <1>4 DEF StackOK
<1>8. c.at # "unlock_dv" /\ (Fmt(c) => c.at = "unlock")
  BY <1>7 DEF Calls, Fmt
<1> HIDE DEF c
<1>9. Fmt(c) => OfRAM(c) /\ c.dv \in mounted /\ dv_owner[c.dv] = Fs /\ c.dv \in boot
  BY <1>6, <1>8 DEF RamFrame, RamLock, AtWork
<1> QED BY <1>2, <1>5, <1>6, <1>8, <1>9 DEF c, s

\* The running task has its lowest m calls as before, and above them others.
LEMMA OwnRam ==
  ASSUME CodeInv, RingInv, RamInv, Alive, code[Fs] # <<>>, RamLocks, RamStays, UNCHANGED killed,
         NEW m \in Nat, NEW k \in Nat, m < Len(code[Fs]), Stacks(m, k),
         \A i \in m + 1 .. k : RamFrame(code'[Fs][i], mounted') /\ RamLock(code'[Fs][i], Fs, dv_owner', boot'),
         \A i \in 1 .. m : \A j \in m + 1 .. k : UnderFmt(code[Fs][i], code'[Fs][j]),
         \A i, j \in m + 1 .. k : i < j => UnderFmt(code'[Fs][i], code'[Fs][j])
  PROVE  RamInv'
<1>1. Fs \in Task /\ Fs \notin killed
  BY FsIs DEF Alive
<1>2. \A t \in Task : t # Fs => RamOf(code'[t], t, killed', mounted', dv_owner', boot')
  <2> SUFFICES ASSUME NEW t \in Task, t # Fs PROVE RamOf(code'[t], t, killed', mounted', dv_owner', boot')
    OBVIOUS
  <2>1. code[t] \in Seq(Frames) /\ RamOf(code[t], t, killed, mounted, dv_owner, boot)
    BY DEF CodeInv, RamInv
  <2>2. code'[t] = code[t]
    BY DEF Stacks
  <2>3. \A i \in DOMAIN code[t] : OfRAM(code[t][i]) => code[t][i].dv \in mounted'
    <3> SUFFICES ASSUME NEW i \in DOMAIN code[t], OfRAM(code[t][i]) PROVE code[t][i].dv \in mounted'
      OBVIOUS
    <3>0. code[t][i] \in Frames
      BY <2>1
    <3>1. code[t][i].dv \in Drv
      BY <3>0 DEF Frames
    <3>2. code[t][i].dv \in mounted
      BY <2>1 DEF RamOf, RamFrame
    <3> QED BY <3>1, <3>2 DEF RamStays, OfRAM
  <2>4. \A d \in Drv : Type[d] = "RAM" /\ d \in mounted /\ dv_owner[d] = t =>
           dv_owner'[d] = t /\ (d \in boot => d \in boot')
    BY DEF RamLocks, KeepsDisk
  <2> QED BY <2>1, <2>2, <2>3, <2>4, OthersRam
<1> DEFINE s == code[Fs]
           r == code'[Fs]
           n == Len(s)
<1>3. s \in Seq(Frames) /\ n \in Nat \ {0} /\ DOMAIN s = 1 .. n
  BY TopIs
<1>4. DOMAIN r = 1 .. k /\ \A i \in 1 .. m : r[i] = s[i]
  BY DEF Stacks
<1>5. ASSUME NEW i \in 1 .. m
      PROVE  /\ RamFrame(s[i], mounted') /\ RamLock(s[i], Fs, dv_owner', boot')
             /\ \A j \in 1 .. m : i < j => UnderFmt(s[i], s[j])
  <2>1. i \in 1 .. n - 1 /\ i \in DOMAIN s /\ \A j \in 1 .. m : j \in DOMAIN s
    <3> HIDE DEF s
    <3> QED BY <1>3 DEF s
  <2> DEFINE c == s[i]
  <2>2. /\ c \in Frames /\ c.at # "unlock_dv" /\ RamFrame(c, mounted) /\ UnderFmt(c, Top)
        /\ Fmt(c) => /\ OfRAM(c) /\ c.at = "unlock" /\ c.dv \in mounted
                     /\ dv_owner[c.dv] = Fs /\ c.dv \in boot
    BY <2>1, WaitingIs, Zenon
  <2>3. \A j \in 1 .. m : i < j => UnderFmt(s[i], s[j])
    BY <1>1, <2>1, Zenon DEF RamInv, RamOf
  <2> HIDE DEF c, s
  <2>4. c.dv \in Drv
    BY <2>2 DEF Frames
  <2>5. RamFrame(c, mounted')
    BY <2>2, <2>4 DEF RamFrame, RamStays, OfRAM
  <2>6. RamLock(c, Fs, dv_owner', boot')
    <3>1. CASE ~ Fmt(c)
      BY <2>2, <3>1 DEF RamLock
    <3>2. CASE Fmt(c)
      <4>1. Top.at # "unlock_dv" /\ ~ Fmt(Top)
        BY <2>2, <3>2 DEF UnderFmt
      <4>2. dv_owner'[c.dv] = Fs /\ c.dv \in boot'
        BY <1>1, <2>2, <2>4, <3>2, <4>1 DEF RamLocks, KeepsDisk, OfRAM
      <4> QED BY <4>2 DEF RamLock
    <3> QED BY <3>1, <3>2
  <2> QED BY <2>3, <2>5, <2>6 DEF c
<1>6. RamOf(r, Fs, killed', mounted', dv_owner', boot')
  <2> SUFFICES ASSUME NEW i \in 1 .. k
               PROVE  /\ RamFrame(r[i], mounted') /\ RamLock(r[i], Fs, dv_owner', boot')
                      /\ \A j \in 1 .. k : i < j => UnderFmt(r[i], r[j])
    BY <1>4, Zenon DEF RamOf
  <2> HIDE DEF r, s, n
  <2>1. CASE i \in 1 .. m
    <3>1. RamFrame(r[i], mounted') /\ RamLock(r[i], Fs, dv_owner', boot')
      BY <1>4, <1>5, <2>1
    <3>2. ASSUME NEW j \in 1 .. k, i < j PROVE UnderFmt(r[i], r[j])
      <4>1. CASE j \in 1 .. m
        BY <1>4, <1>5, <2>1, <3>2, <4>1
      <4>2. CASE j \in m + 1 .. k
        <5>1. UnderFmt(s[i], r[j])
          BY <2>1, <4>2, Zenon DEF r, s
        <5> QED BY <1>4, <2>1, <5>1
      <4> QED BY <3>2, <4>1, <4>2
    <3> QED BY <3>1, <3>2
  <2>2. CASE i \in m + 1 .. k
    <3>1. RamFrame(r[i], mounted') /\ RamLock(r[i], Fs, dv_owner', boot')
      BY <2>2, Zenon DEF r
    <3>2. ASSUME NEW j \in 1 .. k, i < j PROVE UnderFmt(r[i], r[j])
      <4>1. j \in m + 1 .. k
        BY <2>2, <3>2
      <4> QED BY <2>2, <3>2, <4>1, Zenon DEF r
    <3> QED BY <3>1, <3>2
  <2> QED BY <2>1, <2>2
<1> QED BY <1>2, <1>6 DEF RamInv

\* The innermost call goes on.
LEMMA BecomeRam ==
  ASSUME CodeInv, RingInv, RamInv, Alive, code[Fs] # <<>>, RamLocks, RamStays, UNCHANGED killed,
         NEW f \in Frames, Become(f), f.op = Top.op, f.dv = Top.dv, f.ok = Top.ok,
         f.unlock => Top.unlock \/ dv_owner[Top.dv] # Fs,
         f.at = "unlock_dv" => Top.at = "unlock_dv" \/ Top.unlock \/ Fmt(Top),
         RamLock(f, Fs, dv_owner', boot')
  PROVE  RamInv'
<1> DEFINE s == code[Fs]
           r == code'[Fs]
           n == Len(s)
<1>1. Stacks(n - 1, n) /\ r[n] = f
  BY BecomeIs
<1>2. n \in Nat \ {0} /\ Top = s[n] /\ DOMAIN s = 1 .. n /\ Top \in Frames
  BY TopIs
<1>3. RamFrame(f, mounted')
  <2>1. RamFrame(Top, mounted)
    BY <1>2, FsIs DEF RamInv, RamOf
  <2>2. Top.dv \in Drv
    BY <1>2 DEF Frames
  <2> QED BY <2>1, <2>2 DEF RamFrame, RamStays, Fmt, OfRAM
<1>4. ASSUME NEW i \in 1 .. n - 1 PROVE UnderFmt(s[i], f)
  <2> DEFINE c == s[i]
  <2>1. UnderFmt(c, Top) /\ (Fmt(c) => dv_owner[c.dv] = Fs)
    BY WaitingIs, Zenon
  <2> HIDE DEF c
  <2>2. UnderFmt(c, f)
    BY <2>1 DEF UnderFmt, Fmt
  <2> QED BY <2>2 DEF c
<1> DEFINE m == n - 1
<1>5. m \in Nat /\ m < n /\ \A i \in m + 1 .. n : i = n
  BY <1>2
<1>6. Stacks(m, n) /\ \A i \in 1 .. m : UnderFmt(s[i], f)
  BY <1>1, <1>4
<1> HIDE DEF s, r, n, m
<1>7. \A i \in m + 1 .. n : RamFrame(r[i], mounted') /\ RamLock(r[i], Fs, dv_owner', boot')
  BY <1>1, <1>3, <1>5
<1>8. \A i \in 1 .. m : \A j \in m + 1 .. n : UnderFmt(s[i], r[j])
  BY <1>1, <1>5, <1>6
<1>9. \A i, j \in m + 1 .. n : i < j => UnderFmt(r[i], r[j])
  BY <1>2, <1>5
<1>10. n \in Nat
  BY <1>2
<1> QED BY <1>5, <1>6, <1>7, <1>8, <1>9, <1>10, OwnRam DEF s, r, n

LEMMA GoToRam ==
  ASSUME CodeInv, RingInv, RamInv, Alive, code[Fs] # <<>>, RamLocks, RamStays, UNCHANGED killed,
         NEW at \in Stages, GoTo(at), at = "unlock_dv" => Top.unlock \/ Fmt(Top),
         at = "unlock_dv" \/ (Fmt(Top) /\ at \in AtWork) => dv_owner'[Top.dv] = Fs,
         ~ (Fmt(Top) /\ at = "unlock")
  PROVE  RamInv'
<1> DEFINE f == [Top EXCEPT !.at = at]
<1>1. f \in Frames /\ f.at = at /\ f.op = Top.op /\ f.dv = Top.dv /\ f.ok = Top.ok /\ f.unlock = Top.unlock
  BY TopIs, AtIs
<1>2. Become(f)
  BY DEF GoTo
<1> HIDE DEF f
<1>3. RamLock(f, Fs, dv_owner', boot')
  BY <1>1 DEF RamLock, Fmt
<1>4. f.at = "unlock_dv" => Top.at = "unlock_dv" \/ Top.unlock \/ Fmt(Top)
  BY <1>1
<1> QED BY <1>1, <1>2, <1>3, <1>4, BecomeRam

\* It makes a call,
LEMMA CallRam ==
  ASSUME CodeInv, RingInv, RamInv, Alive, code[Fs] # <<>>, RamLocks, RamStays, UNCHANGED killed,
         NEW g \in Frames, NEW at \in Stages, CallThen(g, at), at # "unlock_dv",
         ~ g.unlock, g.at \in {"lock_bd", "start"}, g.op # "BlkDevAdd",
         OfRAM(g) \/ OfRAM(Top) => g.dv = Top.dv,
         Fmt(g) => OfRAM(g) /\ g.dv \notin boot /\ ~ Fmt(Top),
         Fmt(Top) => Top.at \in AtWork /\ Top.dv \in boot'
  PROVE  RamInv'
<1> DEFINE s == code[Fs]
           r == code'[Fs]
           n == Len(s)
           f == [Top EXCEPT !.at = at]
<1>1. Stacks(n - 1, n + 1) /\ r[n] = f /\ r[n + 1] = g
  BY CallIs
<1>2. n \in Nat \ {0} /\ Top = s[n] /\ DOMAIN s = 1 .. n /\ Top \in Frames
  BY TopIs
<1>3. f.at = at /\ f.op = Top.op /\ f.dv = Top.dv /\ f.ok = Top.ok /\ f.unlock = Top.unlock
  BY <1>2, AtIs
<1>4. /\ RamFrame(Top, mounted) /\ RamLock(Top, Fs, dv_owner, boot)
      /\ Top.dv \in Drv /\ Fs \in Task
  <2>1. Fs \in Task /\ Fs \notin killed
    BY FsIs DEF Alive
  <2> QED BY <1>2, <2>1 DEF RamInv, RamOf, Frames
<1>5. ASSUME NEW i \in 1 .. n - 1 PROVE UnderFmt(s[i], f) /\ UnderFmt(s[i], g)
  <2> DEFINE c == s[i]
  <2>1. UnderFmt(c, Top) /\ (Fmt(c) => OfRAM(c) /\ c.dv \in boot)
    BY WaitingIs, Zenon
  <2> HIDE DEF c, f
  <2>2. UnderFmt(c, f)
    BY <1>3, <2>1 DEF UnderFmt, Fmt
  <2>3. UnderFmt(c, g)
    BY <2>1 DEF UnderFmt, OfRAM
  <2> QED BY <2>2, <2>3 DEF c
<1> DEFINE m == n - 1
           k == n + 1
<1>6. m \in Nat /\ m < n /\ n < k /\ k \in Nat /\ \A i \in m + 1 .. k : i = n \/ i = k
  BY <1>2
<1>7. Stacks(m, k) /\ r[n] = f /\ r[k] = g /\ \A i \in 1 .. m : UnderFmt(s[i], f) /\ UnderFmt(s[i], g)
  BY <1>1, <1>5
<1> HIDE DEF s, r, n, m, k, f
<1>8. RamFrame(f, mounted') /\ RamFrame(g, mounted')
  BY <1>3, <1>4 DEF RamFrame, RamStays, Fmt, OfRAM
<1>9. RamLock(f, Fs, dv_owner', boot')
  <2>1. CASE ~ Fmt(Top)
    BY <1>3, <2>1 DEF RamLock, Fmt
  <2>2. CASE Fmt(Top)
    <3>1. OfRAM(Top) /\ Top.dv \in mounted /\ dv_owner[Top.dv] = Fs
      BY <1>4, <2>2 DEF RamFrame, RamLock
    <3>2. Top.at # "unlock_dv"
      BY <2>2 DEF AtWork
    <3>3. dv_owner'[Top.dv] = Fs
      BY <1>4, <3>1, <3>2 DEF RamLocks, KeepsDisk, OfRAM
    <3> QED BY <1>3, <2>2, <3>3 DEF RamLock
  <2> QED BY <2>1, <2>2
<1>10. RamLock(g, Fs, dv_owner', boot')
  BY DEF RamLock, AtWork
<1>11. UnderFmt(f, g)
  BY <1>3, <1>4 DEF UnderFmt, Fmt, RamFrame
<1>12. \A i \in m + 1 .. k : RamFrame(r[i], mounted') /\ RamLock(r[i], Fs, dv_owner', boot')
  BY <1>6, <1>7, <1>8, <1>9, <1>10
<1>13. \A i \in 1 .. m : \A j \in m + 1 .. k : UnderFmt(s[i], r[j])
  BY <1>6, <1>7
<1>14. \A i, j \in m + 1 .. k : i < j => UnderFmt(r[i], r[j])
  <2> SUFFICES ASSUME NEW i \in m + 1 .. k, NEW j \in m + 1 .. k, i < j PROVE UnderFmt(r[i], r[j])
    OBVIOUS
  <2>1. i = n /\ j = k
    BY <1>2, <1>6
  <2> QED BY <1>7, <1>11, <2>1
<1> QED BY <1>6, <1>7, <1>12, <1>13, <1>14, OwnRam DEF s, r, n

\* and comes back to the one that made it.
LEMMA ReturnRam ==
  ASSUME CodeInv, RingInv, RamInv, Alive, code[Fs] # <<>>, RamLocks, RamStays, UNCHANGED killed,
         NEW ok \in BOOLEAN, ReturnWith(ok), ok \/ ~ OfRAM(Top)
  PROVE  RamInv'
<1> DEFINE s == code[Fs]
           r == code'[Fs]
           n == Len(s)
<1>1. /\ n = 1 => Stacks(0, 0)
      /\ n > 1 => Stacks(n - 2, n - 1) /\ r[n - 1] = [s[n - 1] EXCEPT !.buf = Top.buf, !.ok = ok]
  BY ReturnIs
<1>2. /\ n \in Nat \ {0} /\ Top = s[n] /\ DOMAIN s = 1 .. n /\ Top \in Frames
      /\ n > 1 => s[n - 1] \in Frames /\ Calls(s[n - 1], Top)
  BY TopIs
<1>3. CASE n = 1
  <2>1. Stacks(0, 0) /\ 0 < Len(code[Fs])
    BY <1>1, <1>3
  <2>2. 0 \in Nat /\ \A i : i \notin 1 .. 0 /\ i \notin 0 + 1 .. 0
    OBVIOUS
  <2> QED BY <2>1, <2>2, OwnRam
<1>4. CASE n > 1
  <2> DEFINE k == n - 1
             m == n - 2
             c == s[k]
             f == [c EXCEPT !.buf = Top.buf, !.ok = ok]
  <2>1. /\ m \in Nat /\ k \in Nat /\ m < n /\ k \in 1 .. n - 1
        /\ \A i \in m + 1 .. k : i = k
        /\ \A i \in 1 .. m : i \in 1 .. n - 1 /\ i \in 1 .. n /\ i < k
        /\ k \in 1 .. n
    BY <1>2, <1>4
  <2>2. Stacks(m, k) /\ r[k] = f /\ c \in Frames /\ Calls(c, Top)
    BY <1>1, <1>2, <1>4
  <2>3. f.op = c.op /\ f.dv = c.dv /\ f.at = c.at /\ f.unlock = c.unlock /\ f.ok = ok
    <3> HIDE DEF c
    <3> QED BY <2>2 DEF Frames
  <2>4. /\ c.at # "unlock_dv" /\ RamFrame(c, mounted) /\ UnderFmt(c, Top)
        /\ Fmt(c) => OfRAM(c) /\ c.dv \in mounted /\ dv_owner[c.dv] = Fs /\ c.dv \in boot
    BY <2>1, WaitingIs, Zenon
  <2>5. \A i \in 1 .. m : UnderFmt(s[i], c)
    <3> SUFFICES ASSUME NEW i \in 1 .. m PROVE UnderFmt(s[i], s[k])
      OBVIOUS
    <3>1. RamOf(s, Fs, killed, mounted, dv_owner, boot)
      BY FsIs DEF RamInv
    <3> HIDE DEF s, k, m, n
    <3> QED BY <1>2, <2>1, <3>1 DEF RamOf
  <2>6. c.dv \in Drv /\ Fs \in Task
    <3> HIDE DEF c
    <3> QED BY <2>2, FsIs DEF Frames
  <2> HIDE DEF c, f, m, k, s, r, n
  <2>7. RamFrame(f, mounted')
    <3>1. c.op = "BlkDevAdd" => Top.dv = c.dv
      BY <2>2 DEF Calls
    <3> QED BY <2>3, <2>4, <2>6, <3>1 DEF RamFrame, RamStays, Fmt, OfRAM
  <2>8. RamLock(f, Fs, dv_owner', boot')
    <3>1. CASE ~ Fmt(c)
      BY <2>3, <2>4, <3>1 DEF RamLock, Fmt
    <3>2. CASE Fmt(c)
      <4>1. Top.at # "unlock_dv" /\ ~ Fmt(Top)
        BY <2>4, <3>2 DEF UnderFmt
      <4>2. dv_owner'[c.dv] = Fs /\ c.dv \in boot'
        BY <2>4, <2>6, <3>2, <4>1 DEF RamLocks, KeepsDisk, OfRAM
      <4> QED BY <2>3, <4>2 DEF RamLock
    <3> QED BY <3>1, <3>2
  <2>9. \A i \in m + 1 .. k : RamFrame(r[i], mounted') /\ RamLock(r[i], Fs, dv_owner', boot')
    BY <2>1, <2>2, <2>7, <2>8
  <2>10. \A i \in 1 .. m : \A j \in m + 1 .. k : UnderFmt(s[i], r[j])
    <3>1. \A i \in 1 .. m : UnderFmt(s[i], f)
      BY <2>3, <2>5 DEF UnderFmt, Fmt
    <3> QED BY <2>1, <2>2, <3>1
  <2>11. \A i, j \in m + 1 .. k : i < j => UnderFmt(r[i], r[j])
    <3>1. ~(k < k)
      BY <2>1
    <3> QED BY <2>1, <3>1
  <2> QED BY <2>1, <2>2, <2>9, <2>10, <2>11, OwnRam DEF s, r, n
<1>5. n = 1 \/ n > 1
  <2> HIDE DEF n
  <2> QED BY <1>2
<1> QED BY <1>3, <1>4, <1>5

\* No task makes or finishes a call.
LEMMA QuietRam ==
  ASSUME CodeInv, RamInv, UNCHANGED <<code, mounted>>, killed \subseteq killed', boot \subseteq boot',
         \A t \in Task \ killed' : \A d \in Drv : dv_owner[d] = t => dv_owner'[d] = t
  PROVE  RamInv'
<1> SUFFICES ASSUME NEW t \in Task PROVE RamOf(code'[t], t, killed', mounted', dv_owner', boot')
  BY DEF RamInv
<1>1. code[t] \in Seq(Frames) /\ RamOf(code[t], t, killed, mounted, dv_owner, boot)
  BY DEF CodeInv, RamInv
<1>2. \A i \in DOMAIN code[t] : OfRAM(code[t][i]) => code[t][i].dv \in mounted'
  BY <1>1 DEF RamOf, RamFrame
<1>3. code'[t] = code[t] /\ (t \notin killed' => t \notin killed)
  OBVIOUS
<1> QED BY <1>1, <1>2, <1>3, OthersRam

\* An idle task begins, or a task that is killed is gone.
LEMMA BeginRam ==
  ASSUME CodeInv, Fs \in Task, RamInv, NEW s \in Seq(Frames), code' = [code EXCEPT ![Fs] = s],
         UNCHANGED <<killed, boot>>, RamStays,
         \A i \in DOMAIN s : /\ ~ Fmt(s[i]) /\ s[i].at # "unlock_dv"
                             /\ OfRAM(s[i]) => s[i].dv \in mounted' /\ s[i].ok,
         \A t \in Task : \A d \in mounted : Type[d] = "RAM" /\ dv_owner[d] = t => dv_owner'[d] = t
  PROVE  RamInv'
<1> SUFFICES ASSUME NEW t \in Task PROVE RamOf(code'[t], t, killed', mounted', dv_owner', boot')
  BY DEF RamInv
<1>1. code[t] \in Seq(Frames) /\ RamOf(code[t], t, killed, mounted, dv_owner, boot)
  BY DEF CodeInv, RamInv
<1>2. code \in [Task -> Seq(Frames)]
  BY DEF CodeInv
<1>3. CASE t = Fs
  <2>1. code'[t] = s
    BY <1>2, <1>3
  <2>2. RamOf(s, t, killed', mounted', dv_owner', boot')
    BY DEF RamOf, RamFrame, RamLock, UnderFmt
  <2> QED BY <2>1, <2>2
<1>4. CASE t # Fs
  <2>1. code'[t] = code[t]
    BY <1>2, <1>4
  <2>2. \A i \in DOMAIN code[t] : OfRAM(code[t][i]) => code[t][i].dv \in mounted'
    <3> SUFFICES ASSUME NEW i \in DOMAIN code[t], OfRAM(code[t][i]) PROVE code[t][i].dv \in mounted'
      OBVIOUS
    <3>1. code[t][i] \in Frames
      BY <1>1
    <3>2. code[t][i].dv \in Drv
      BY <3>1 DEF Frames
    <3>3. code[t][i].dv \in mounted
      BY <1>1 DEF RamOf, RamFrame
    <3> QED BY <3>2, <3>3 DEF RamStays, OfRAM
  <2> QED BY <1>1, <2>1, <2>2, OthersRam
<1> QED BY <1>3, <1>4

\* Each action keeps what is said of RAM disks.
LEMMA LocksRam ==
  ASSUME IInv, RamInv, LockBlkDev \/ LockDrv \/ UnlockBlkDev \/ UnlockDrv PROVE RamInv'
<1> USE DEF IInv
<1>1. /\ Alive /\ code[Fs] # <<>> /\ Top.op \in Locking
      /\ UNCHANGED <<killed, mounted, boot>>
  BY DEF LockBlkDev, LockDrv, UnlockBlkDev, UnlockDrv, At, devices
<1>2. /\ Fs \in Task /\ Fs \notin killed /\ Fs # NULL /\ Top \in Frames /\ Top.dv \in Drv
      /\ RamLock(Top, Fs, dv_owner, boot) /\ RamFrame(Top, mounted)
  <2>1. Fs \in Task /\ Fs \notin killed /\ Fs # NULL
    BY <1>1, FsIs DEF Alive
  <2>2. Top \in Frames /\ Top = code[Fs][Len(code[Fs])] /\ Len(code[Fs]) \in DOMAIN code[Fs]
    BY <1>1, TopIs
  <2> QED BY <2>1, <2>2 DEF RamInv, RamOf, Frames
<1>3. RamStays
  BY <1>1 DEF RamStays
<1>4. CASE LockBlkDev
  <2>1. UNCHANGED dv_owner
    BY <1>4 DEF LockBlkDev
  <2>2. CASE UNCHANGED code
    BY <1>1, <2>1, <2>2, QuietRam
  <2>3. CASE GoTo("lock_dv")
    <3>1. PICK at \in Stages : at = "lock_dv"
      BY DEF Stages
    <3>2. GoTo(at) /\ at # "unlock_dv" /\ at \notin AtWork /\ at # "unlock"
      BY <2>3, <3>1 DEF AtWork
    <3> QED BY <1>1, <1>3, <2>1, <3>2, LocksUnchanged, GoToRam
  <2> QED BY <1>4, <2>2, <2>3 DEF LockBlkDev
<1>5. CASE LockDrv
  <2>1. CASE ~ Free(dv_owner[Top.dv])
    BY <1>1, <1>5, <2>1, QuietRam DEF LockDrv
  <2>2. CASE Free(dv_owner[Top.dv])
    <3> DEFINE b == (dv_owner[Top.dv] = NULL)
               f == [Top EXCEPT !.at = Body(Top.op), !.unlock = b]
    <3>1. /\ f \in Frames /\ f.op = Top.op /\ f.dv = Top.dv /\ f.ok = Top.ok
          /\ f.at \in {"init", "work"} /\ (f.unlock => dv_owner[Top.dv] = NULL)
      <4>1. PICK c \in BOOLEAN, at \in Stages, g \in Frames : c = b /\ at = Body(Top.op) /\ g = Top
        <5>1. b \in BOOLEAN
          BY Zenon
        <5>2. Body(Top.op) \in Stages
          <6> HIDE DEF b
          <6> QED BY DEF Body, Stages
        <5> QED BY <1>2, <5>1, <5>2, Zenon
      <4>2. f = [g EXCEPT !.at = at, !.unlock = c]
        BY <4>1, Zenon
      <4> HIDE DEF f
      <4>3. f \in Frames /\ f.at = at /\ f.op = g.op /\ f.dv = g.dv /\ f.ok = g.ok /\ f.unlock = c
        BY <4>2 DEF Frames
      <4>4. at \in {"init", "work"}
        BY <4>1 DEF Body
      <4> QED BY <4>1, <4>3, <4>4, Zenon
    <3>2. Become(f) /\ dv_owner' = [dv_owner EXCEPT ![Top.dv] = Fs]
      BY <1>5, <2>2 DEF LockDrv
    <3> HIDE DEF b, f
    <3>3. PICK d \in Drv : d = Top.dv
      BY <1>2
    <3>4. dv_owner'[f.dv] = Fs /\ \A e \in Drv : e # Top.dv => dv_owner'[e] = dv_owner[e]
      BY <3>1, <3>2, <3>3 DEF LockInv
    <3>5. RamLocks
      <4> SUFFICES ASSUME NEW t \in Task, NEW e \in Drv, dv_owner[e] = t PROVE dv_owner'[e] = t
        BY <1>1 DEF RamLocks, KeepsDisk
      <4>1. t # NULL
        BY DevicesAssumption
      <4> QED BY <2>2, <3>1, <3>4, <4>1 DEF Free
    <3>6. RamLock(f, Fs, dv_owner', boot')
      BY <3>1, <3>4 DEF RamLock
    <3>7. f.unlock => dv_owner[Top.dv] # Fs
      BY <1>2, <3>1
    <3>8. f.at # "unlock_dv"
      BY <3>1
    <3> QED BY <1>1, <1>3, <3>1, <3>2, <3>5, <3>6, <3>7, <3>8, BecomeRam
  <2> QED BY <2>1, <2>2
<1>6. CASE UnlockBlkDev
  <2>1. UNCHANGED dv_owner
    BY <1>6 DEF UnlockBlkDev
  <2>2. CASE ~ Unlocks(Top)
    <3>1. TRUE \in BOOLEAN /\ ReturnWith(TRUE)
      BY <1>6, <2>2 DEF UnlockBlkDev, Return
    <3> QED BY <1>1, <1>3, <2>1, <3>1, LocksUnchanged, ReturnRam
  <2>3. CASE Unlocks(Top)
    <3>1. PICK at \in Stages : at = "unlock_dv"
      BY DEF Stages
    <3>2. GoTo(at) /\ at # "unlock" /\ (Top.unlock \/ Fmt(Top)) /\ dv_owner'[Top.dv] = Fs
      BY <1>6, <2>1, <2>3, <3>1 DEF UnlockBlkDev, Unlocks, Fmt
    <3> QED BY <1>1, <1>3, <2>1, <3>2, LocksUnchanged, GoToRam
  <2> QED BY <2>2, <2>3
<1>7. CASE UnlockDrv
  <2>1. /\ TRUE \in BOOLEAN /\ ReturnWith(TRUE) /\ Top.at = "unlock_dv"
        /\ dv_owner' = [dv_owner EXCEPT ![Top.dv] = NULL]
    BY <1>7 DEF UnlockDrv, Return, At
  <2>2. RamLocks
    <3> SUFFICES ASSUME NEW t \in Task, NEW d \in Drv, Type[d] = "RAM", dv_owner[d] = t PROVE KeepsDisk(t, d)
      BY DEF RamLocks
    <3>1. CASE d = Top.dv
      <4>1. t = Fs
        BY <1>2, <2>1, <3>1 DEF RamLock, OfRAM
      <4> QED BY <1>1, <2>1, <3>1, <4>1 DEF KeepsDisk
    <3>2. CASE d # Top.dv
      BY <1>1, <1>2, <2>1, <3>2 DEF KeepsDisk, LockInv
    <3> QED BY <3>1, <3>2
  <2> QED BY <1>1, <1>3, <2>1, <2>2, ReturnRam
<1> QED BY <1>4, <1>5, <1>6, <1>7

\* What a call that is neither Find's nor RedSeaFmt's leaves alone.
RamQuiet ==
  /\ Alive /\ code[Fs] # <<>> /\ RamLocks /\ RamStays /\ UNCHANGED killed

LEMMA PassRam ==
  ASSUME IInv, RamInv, RamQuiet, NEW at, GoTo(at), at \in Stages \ {"unlock_dv"}, ~ Fmt(Top)
  PROVE  RamInv'
  BY GoToRam DEF RamQuiet, IInv

LEMMA AskRam ==
  ASSUME IInv, RamInv, RamQuiet, NEW g \in Frames, NEW at, CallThen(g, at), at \in Stages \ {"unlock_dv"},
         ~ g.unlock, g.at \in {"lock_bd", "start"}, g.op # "BlkDevAdd", g.dv = Top.dv,
         ~ Fmt(Top), ~ Fmt(g)
  PROVE  RamInv'
  BY CallRam DEF RamQuiet, IInv

LEMMA NewUnlocks ==
  ASSUME NEW dv, NEW blks
  PROVE  /\ ~ Find(dv).unlock /\ ~ BlkRead(dv, blks).unlock /\ ~ RedSeaInit(dv).unlock
         /\ ~ RedSeaFmt(dv).unlock /\ ~ DskCacheInvalidate(dv).unlock /\ ~ BlkDevInit(dv).unlock
<1>1. \A op, d, at, b : Frame(op, d, at, b).unlock = FALSE
  BY DEF Frame
<1> QED BY <1>1, Zenon DEF Find, BlkRead, RedSeaInit, RedSeaFmt, DskCacheInvalidate, BlkDevInit

LEMMA NewAre ==
  ASSUME NEW dv \in Drv
  PROVE  \A g \in {Find(dv), BlkRead(dv, {0}), RedSeaInit(dv), RedSeaFmt(dv), DskCacheInvalidate(dv), BlkDevInit(dv)} :
           /\ g \in Frames /\ g.dv = dv /\ g.at \in {"lock_bd", "start"} /\ ~ g.unlock
           /\ g.op # "BlkDevAdd" /\ (Fmt(g) => g = RedSeaFmt(dv))
<1>1. {} \in Extents
  BY NoExtent
<1>2. /\ IsNew(Find(dv), "Find", dv, "lock_bd")
      /\ IsNew(RedSeaInit(dv), "RedSeaInit", dv, "lock_bd")
      /\ IsNew(RedSeaFmt(dv), "RedSeaFmt", dv, "lock_bd")
      /\ IsNew(DskCacheInvalidate(dv), "DskCacheInvalidate", dv, "lock_bd")
      /\ IsNew(BlkDevInit(dv), "BlkDevInit", dv, "start")
  BY <1>1, NewCalls, Zenon
<1>3. IsNew(BlkRead(dv, {0}), "BlkRead", dv, "lock_bd")
  BY NewRead, Zenon
<1> SUFFICES ASSUME NEW g, g \in {Find(dv), BlkRead(dv, {0}), RedSeaInit(dv), RedSeaFmt(dv),
                                  DskCacheInvalidate(dv), BlkDevInit(dv)}
             PROVE  /\ g \in Frames /\ g.dv = dv /\ g.at \in {"lock_bd", "start"} /\ ~ g.unlock
                    /\ g.op # "BlkDevAdd" /\ (Fmt(g) => g = RedSeaFmt(dv))
  BY Zenon
<1>4. ~ g.unlock
  BY NewUnlocks, Zenon
<1>5. \E op \in Ops : g.op = op /\ op # "BlkDevAdd" /\ (op = "RedSeaFmt" => g = RedSeaFmt(dv))
        /\ g \in Frames /\ g.dv = dv /\ g.at \in {"lock_bd", "start"}
  <2>1. /\ "Find" \in Ops /\ "BlkRead" \in Ops /\ "RedSeaInit" \in Ops /\ "RedSeaFmt" \in Ops
        /\ "DskCacheInvalidate" \in Ops /\ "BlkDevInit" \in Ops
    BY DEF Ops
  <2>2. \A op, at : IsNew(g, op, dv, at) => g \in Frames /\ g.op = op /\ g.dv = dv /\ g.at = at
    BY DEF IsNew
  <2>3. \/ IsNew(g, "Find", dv, "lock_bd") \/ IsNew(g, "BlkRead", dv, "lock_bd")
        \/ IsNew(g, "RedSeaInit", dv, "lock_bd") \/ IsNew(g, "DskCacheInvalidate", dv, "lock_bd")
        \/ IsNew(g, "BlkDevInit", dv, "start")
        \/ g = RedSeaFmt(dv) /\ IsNew(g, "RedSeaFmt", dv, "lock_bd")
    BY <1>2, <1>3, Zenon
  <2> HIDE DEF Ops
  <2> QED BY <2>1, <2>2, <2>3
<1> QED BY <1>4, <1>5 DEF Fmt

LEMMA BecomeFrame ==
  ASSUME CodeInv, CodeInv', RingInv, Alive, code[Fs] # <<>>, NEW f, Become(f) PROVE f \in Frames
<1> DEFINE s == code[Fs]
           q == Front(s)
           r == Append(q, f)
           All == Frames \cup {f}
<1>1. Fs \in Task /\ s \in Seq(Frames) /\ s # <<>> /\ code \in [Task -> Seq(Frames)]
  BY FsIs, TopIs DEF CodeInv
<1>2. code'[Fs] = r /\ code'[Fs] \in Seq(Frames)
  BY <1>1 DEF Become, CodeInv
<1> HIDE DEF s
<1>3. q \in Seq(Frames)
  BY <1>1, FrontElements
<1> HIDE DEF q
<1>4. q \in Seq(All) /\ f \in All
  BY <1>3
<1> HIDE DEF All
<1>5. Len(r) = Len(q) + 1 /\ r[Len(q) + 1] = f /\ Len(q) \in Nat
  BY <1>4
<1> HIDE DEF r
<1>6. r \in Seq(Frames) /\ Len(q) + 1 \in 1 .. Len(r)
  BY <1>2, <1>5
<1> QED BY <1>5, <1>6

\* BlkRead, DskCacheInvalidate, and operations of a file system.
LEMMA WorkRam ==
  ASSUME IInv, RamInv, CallInit \/ Crash \/ Read \/ Invalidate \/ FsReads \/ TakeRoot PROVE RamInv'
<1> USE DEF IInv
<1>1. /\ Alive /\ code[Fs] # <<>> /\ ~ Fmt(Top)
      /\ UNCHANGED <<killed, mounted, boot, dv_owner>>
  BY DEF CallInit, Crash, Read, Invalidate, FsReads, TakeRoot, At, Fmt, devices, tasks, locks
<1>2. RamQuiet
  BY <1>1, LocksUnchanged DEF RamQuiet, RamStays
<1>3. PICK dv \in Drv : dv = Top.dv
  BY <1>1, TopIs DEF Frames
<1>4. \A g \in {Find(dv), BlkRead(dv, {0}), RedSeaInit(dv), RedSeaFmt(dv), DskCacheInvalidate(dv), BlkDevInit(dv)} :
           /\ g \in Frames /\ g.dv = dv /\ g.at \in {"lock_bd", "start"} /\ ~ g.unlock
           /\ g.op # "BlkDevAdd" /\ (Fmt(g) => g = RedSeaFmt(dv))
  BY NewAre
<1>5. {"unlock", "work", "read"} \subseteq Stages \ {"unlock_dv"}
  BY DEF Stages
<1>6. CASE CallInit
  <2>1. PICK g : g = BlkDevInit(dv)
    OBVIOUS
  <2>2. g \in Frames /\ g.dv = Top.dv /\ g.at \in {"lock_bd", "start"} /\ ~ g.unlock /\ g.op # "BlkDevAdd"
    BY <1>3, <1>4, <2>1
  <2>3. ~ Fmt(g)
    <3>1. IsNew(BlkDevInit(dv), "BlkDevInit", dv, "start")
      BY NoExtent, NewCalls, Zenon
    <3> QED BY <2>1, <3>1 DEF IsNew, Fmt
  <2>4. CallThen(g, "work")
    BY <1>3, <1>6, <2>1 DEF CallInit
  <2> QED BY <1>1, <1>2, <1>5, <2>2, <2>3, <2>4, AskRam
<1>7. CASE Crash
  BY <1>1, <1>7, QuietRam DEF Crash
<1>8. CASE Read
  <2> DEFINE buf == IF Cached(Top.dv)
                    THEN [b \in Top.blks |-> IF b \in Left THEN file_dsk[Top.dv] ELSE FromCache(Top.dv, b)]
                    ELSE NoBuf
             f == [Top EXCEPT !.at = "unlock", !.buf = buf]
  <2>1. Become(f)
    BY <1>8, Zenon DEF Read
  <2>2. CodeInv'
    BY <1>8, ReadKeeps
  <2> HIDE DEF buf
  <2>3. f.op = Top.op /\ f.dv = Top.dv /\ f.ok = Top.ok /\ f.unlock = Top.unlock /\ f.at = "unlock"
    BY <1>1, TopIs DEF Frames
  <2> HIDE DEF f
  <2>4. f \in Frames
    BY <1>1, <2>1, <2>2, BecomeFrame
  <2>5. RamLock(f, Fs, dv_owner', boot')
    BY <1>1, <2>3 DEF RamLock, Fmt
  <2> QED BY <1>1, <1>2, <2>1, <2>3, <2>4, <2>5, BecomeRam DEF RamQuiet
<1>9. CASE Invalidate \/ TakeRoot
  <2>1. GoTo("unlock")
    BY <1>9 DEF Invalidate, TakeRoot
  <2> QED BY <1>1, <1>2, <1>5, <2>1, PassRam
<1>10. CASE FsReads
  <2>1. CASE Type[dv] = "HOSTFS"
    <3>1. GoTo("unlock")
      BY <1>3, <1>10, <2>1 DEF FsReads
    <3> QED BY <1>1, <1>2, <1>5, <3>1, PassRam
  <2>2. CASE Type[dv] # "HOSTFS"
    <3>1. PICK at \in Stages \ {"unlock_dv"} : CallThen(BlkRead(dv, {0}), at)
      <4>1. CallThen(BlkRead(dv, {0}), IF Top.op = "Find" THEN "unlock" ELSE "read")
        BY <1>3, <1>10, <2>2 DEF FsReads
      <4>2. (IF Top.op = "Find" THEN "unlock" ELSE "read") \in Stages \ {"unlock_dv"}
        BY <1>5
      <4> QED BY <4>1, <4>2
    <3>2. PICK g : g = BlkRead(dv, {0})
      OBVIOUS
    <3>3. g \in Frames /\ g.dv = Top.dv /\ g.at \in {"lock_bd", "start"} /\ ~ g.unlock /\ g.op # "BlkDevAdd"
      BY <1>3, <1>4, <3>2
    <3>4. ~ Fmt(g)
      BY <3>2, NewRead DEF IsNew, Fmt
    <3> QED BY <1>1, <1>2, <3>1, <3>2, <3>3, <3>4, AskRam
  <2> QED BY <2>1, <2>2
<1> QED BY <1>6, <1>7, <1>8, <1>9, <1>10

\* The running task has the RAM disk it formats; no other can take the boot block away.
LEMMA FmtRam == ASSUME IInv, RamInv, FmtZero \/ FmtBoot PROVE RamInv'
<1> USE DEF IInv
<1>1. /\ Alive /\ code[Fs] # <<>> /\ Fmt(Top) /\ Top.at \in {"work", "zeroed"}
      /\ UNCHANGED <<killed, mounted, dv_owner>>
  BY DEF FmtZero, FmtBoot, At, Fmt, devices, tasks, locks
<1>2. /\ Top \in Frames /\ Top.dv \in Drv /\ OfRAM(Top) /\ dv_owner[Top.dv] = Fs /\ Top.at \in AtWork
  <2>1. Fs \in Task /\ Fs \notin killed
    BY <1>1, FsIs DEF Alive
  <2>2. Top \in Frames /\ Top = code[Fs][Len(code[Fs])] /\ Len(code[Fs]) \in DOMAIN code[Fs]
    BY <1>1, TopIs
  <2>3. RamFrame(Top, mounted) /\ RamLock(Top, Fs, dv_owner, boot)
    BY <2>1, <2>2 DEF RamInv, RamOf
  <2>4. Top.dv \in Drv /\ OfRAM(Top) /\ Top.at \in AtWork
    BY <1>1, <2>2, <2>3 DEF Frames, RamFrame, AtWork
  <2> QED BY <1>1, <2>2, <2>3, <2>4 DEF RamLock
<1>3. RamStays
  BY <1>1 DEF RamStays
<1>4. CASE FmtZero
  <2>1. boot' = boot \ {Top.dv} /\ GoTo("zeroed")
    BY <1>4 DEF FmtZero
  <2>2. RamLocks
    <3> SUFFICES ASSUME NEW t \in Task, NEW d \in Drv, dv_owner[d] = t PROVE KeepsDisk(t, d)
      BY DEF RamLocks
    <3> QED BY <1>1, <1>2, <2>1 DEF KeepsDisk
  <2>3. PICK at \in Stages : at = "zeroed"
    BY DEF Stages
  <2>4. GoTo(at) /\ at # "unlock_dv" /\ at # "unlock" /\ dv_owner'[Top.dv] = Fs
    BY <1>1, <1>2, <2>1, <2>3
  <2> QED BY <1>1, <1>3, <2>2, <2>4, GoToRam
<1>5. CASE FmtBoot
  <2>1. PICK dv \in Drv : dv = Top.dv
    BY <1>2
  <2>2. boot' = boot \cup {Top.dv} /\ CallThen(RedSeaInit(dv), "unlock")
    BY <1>5, <2>1 DEF FmtBoot
  <2>3. RamLocks
    BY <1>1, <2>2 DEF RamLocks, KeepsDisk
  <2>4. PICK g : g = RedSeaInit(dv)
    OBVIOUS
  <2>5. g \in Frames /\ g.dv = Top.dv /\ g.at \in {"lock_bd", "start"} /\ ~ g.unlock /\ g.op # "BlkDevAdd"
    BY <2>1, <2>4, NewAre
  <2>6. ~ Fmt(g)
    <3>1. IsNew(RedSeaInit(dv), "RedSeaInit", dv, "lock_bd")
      BY NoExtent, NewCalls, Zenon
    <3> QED BY <2>4, <3>1 DEF IsNew, Fmt
  <2>7. PICK at \in Stages : at = "unlock"
    BY DEF Stages
  <2>8. CallThen(g, at) /\ at # "unlock_dv"
    BY <2>2, <2>4, <2>7
  <2>9. Top.dv \in boot'
    BY <2>2
  <2> QED BY <1>1, <1>2, <1>3, <2>3, <2>5, <2>6, <2>8, <2>9, CallRam
<1> QED BY <1>4, <1>5

\* BlkDevInit: a RAM disk without a boot block is formatted, which one that is being
\* formatted in a call further out already has.
LEMMA InitRam ==
  ASSUME IInv, RamInv, InitStart \/ InitRAM \/ InitISO \/ InitEnd PROVE RamInv'
<1> USE DEF IInv
<1>1. /\ Alive /\ code[Fs] # <<>> /\ Top.op = "BlkDevInit" /\ ~ Fmt(Top)
      /\ UNCHANGED <<killed, mounted, boot, dv_owner>>
  BY DEF InitStart, InitRAM, InitISO, InitEnd, At, Fmt, devices, tasks, locks
<1>2. RamQuiet /\ RamLocks /\ RamStays
  BY <1>1, LocksUnchanged DEF RamQuiet, RamStays
<1>3. PICK dv \in Drv : dv = Top.dv
  BY <1>1, TopIs DEF Frames
<1>4. FrameOK(Top) /\ Top \in Frames
  BY <1>1, TopIs
<1>5. \A g \in {Find(dv), BlkRead(dv, {0}), RedSeaInit(dv), RedSeaFmt(dv), DskCacheInvalidate(dv), BlkDevInit(dv)} :
           /\ g \in Frames /\ g.dv = dv /\ g.at \in {"lock_bd", "start"} /\ ~ g.unlock
           /\ g.op # "BlkDevAdd" /\ (Fmt(g) => g = RedSeaFmt(dv))
  BY NewAre
<1>6. {"RAM", "ISO", "validate_ram", "validate", "found", "opened", "drop", "end"} \subseteq Stages \ {"unlock_dv"}
  BY DEF Stages
<1>7. /\ ~ Fmt(BlkRead(dv, {0})) /\ ~ Fmt(RedSeaInit(dv)) /\ ~ Fmt(DskCacheInvalidate(dv))
  <2>1. /\ IsNew(RedSeaInit(dv), "RedSeaInit", dv, "lock_bd")
        /\ IsNew(DskCacheInvalidate(dv), "DskCacheInvalidate", dv, "lock_bd")
    BY NoExtent, NewCalls, Zenon
  <2> QED BY <2>1, NewRead DEF IsNew, Fmt
<1>8. ASSUME ReturnWith(TRUE) PROVE RamInv'
  <2>1. TRUE \in BOOLEAN
    OBVIOUS
  <2> QED BY <1>1, <1>2, <1>8, <2>1, ReturnRam
<1>9. ASSUME NEW g \in {BlkRead(dv, {0}), RedSeaInit(dv), DskCacheInvalidate(dv)},
             NEW at \in Stages \ {"unlock_dv"}, CallThen(g, at)
      PROVE  RamInv'
  <2>1. g \in Frames /\ g.dv = Top.dv /\ g.at \in {"lock_bd", "start"} /\ ~ g.unlock
        /\ g.op # "BlkDevAdd" /\ ~ Fmt(g)
    BY <1>3, <1>5, <1>7
  <2> QED BY <1>1, <1>2, <1>9, <2>1, AskRam
<1>10. CASE InitStart
  <2>1. CASE ReturnWith(TRUE)
    BY <1>8, <2>1
  <2>2. CASE GoTo(Type[dv])
    <3>1. Type[dv] # "HOSTFS"
      BY <1>1, <1>3, <1>4 DEF FrameOK
    <3>2. Type[dv] \in {"RAM", "ISO"}
      BY <3>1, DevicesAssumption
    <3>3. Type[dv] \in Stages \ {"unlock_dv"}
      BY <1>6, <3>2
    <3> QED BY <1>1, <1>2, <2>2, <3>3, PassRam
  <2> QED BY <1>3, <1>10, <2>1, <2>2 DEF InitStart, Return
<1>11. CASE InitRAM
  <2>1. CASE Top.at = "RAM" /\ CallThen(BlkRead(dv, {0}), "validate_ram")
    BY <1>6, <1>9, <2>1
  <2>2. CASE Top.at = "validate_ram" /\ dv \in boot /\ CallThen(RedSeaInit(dv), "end")
    BY <1>6, <1>9, <2>2
  <2>3. CASE Top.at = "validate_ram" /\ dv \notin boot /\ CallThen(RedSeaFmt(dv), "end")
    <3>1. PICK g : g = RedSeaFmt(dv)
      OBVIOUS
    <3>2. g \in Frames /\ g.dv = Top.dv /\ g.at \in {"lock_bd", "start"} /\ ~ g.unlock /\ g.op # "BlkDevAdd"
      BY <1>3, <1>5, <3>1
    <3>3. OfRAM(g) /\ g.dv \notin boot
      BY <1>1, <1>3, <1>4, <2>3, <3>2 DEF FrameOK, OfRAM
    <3>4. PICK at \in Stages : at = "end"
      BY DEF Stages
    <3>5. CallThen(g, at) /\ at # "unlock_dv"
      BY <2>3, <3>1, <3>4
    <3> QED BY <1>1, <1>2, <3>2, <3>3, <3>5, CallRam
  <2> QED BY <1>3, <1>11, <2>1, <2>2, <2>3 DEF InitRAM, At
<1>12. CASE InitISO
  <2>1. Top.at \in OfImage /\ ~ OfRAM(Top) /\ Type[dv] = "ISO"
    <3>1. Top.at \in OfImage
      BY <1>12 DEF InitISO, At, OfImage
    <3> QED BY <1>1, <1>3, <1>4, <3>1 DEF FrameOK, OfRAM
  <2>2. CASE ReturnWith(FALSE)
    <3>1. FALSE \in BOOLEAN
      OBVIOUS
    <3> QED BY <1>1, <1>2, <2>1, <2>2, <3>1, ReturnRam
  <2>3. ASSUME NEW at \in {"found", "opened"}, CallThen(Find(FileDrv[dv]), at) PROVE RamInv'
    <3>1. PICK e \in Drv : e = FileDrv[dv] /\ Type[e] = "HOSTFS"
      BY <2>1, DevicesAssumption
    <3>2. PICK g : g = Find(e)
      OBVIOUS
    <3>3. g \in Frames /\ g.dv = e /\ g.at \in {"lock_bd", "start"} /\ ~ g.unlock /\ g.op # "BlkDevAdd"
      BY <3>2, NewAre
    <3>4. ~ Fmt(g) /\ ~ OfRAM(g)
      <4>1. IsNew(Find(e), "Find", e, "lock_bd")
        BY NoExtent, NewCalls, Zenon
      <4> QED BY <3>1, <3>2, <4>1 DEF IsNew, Fmt, OfRAM
    <3>5. CallThen(g, at) /\ at \in Stages /\ at # "unlock_dv"
      BY <1>6, <2>3, <3>1, <3>2
    <3> QED BY <1>1, <1>2, <2>1, <3>3, <3>4, <3>5, CallRam
  <2>4. \/ ReturnWith(FALSE)
        \/ \E at \in {"found", "opened"} : CallThen(Find(FileDrv[dv]), at)
        \/ CallThen(BlkRead(dv, {0}), "validate")
        \/ CallThen(RedSeaInit(dv), "drop")
        \/ CallThen(DskCacheInvalidate(dv), "end")
    BY <1>3, <1>12 DEF InitISO
  <2> QED BY <1>6, <1>9, <2>2, <2>3, <2>4
<1>13. CASE InitEnd
  BY <1>8, <1>13 DEF InitEnd, Return
<1> QED BY <1>10, <1>11, <1>12, <1>13

\* Mounting, unmounting, and what an idle task begins.
LEMMA MountRam ==
  ASSUME IInv, RamInv, Start \/ Wait \/ Mount \/ MountEnd \/ Unmount \/ Kill PROVE RamInv'
<1> USE DEF IInv
<1>1. CASE Start
  <2>1. Alive /\ code[Fs] = <<>> /\ UNCHANGED <<killed, mounted, boot, dv_owner>>
    BY <1>1 DEF Start, Idle, tasks, locks, devices
  <2>2. PICK dv \in mounted : \E f \in {Find(dv), BlkDevInit(dv)} \cup {BlkRead(dv, r) : r \in Runs} :
          code' = [code EXCEPT ![Fs] = <<f>>]
    <3>1. PICK dv \in uses[Fs] \cap mounted : \E frame \in
           {Find(dv)} \cup (IF Type[dv] = "HOSTFS" THEN {} ELSE
              {BlkDevInit(dv)} \cup (IF Cached(dv) THEN {BlkRead(dv, r) : r \in Runs} ELSE {})) :
         code' = [code EXCEPT ![Fs] = <<frame>>]
      BY <1>1, Zenon DEF Start
    <3> QED BY <3>1
  <2>3. PICK f \in {Find(dv), BlkDevInit(dv)} \cup {BlkRead(dv, r) : r \in Runs} :
          code' = [code EXCEPT ![Fs] = <<f>>]
    BY <2>2
  <2>4. dv \in Drv
    BY DEF LockInv
  <2>5. \E g \in Frames : g = f /\ ~ Fmt(g) /\ g.at # "unlock_dv" /\ g.dv = dv /\ g.ok
    <3>1. \A op, at, b : Frame(op, dv, at, b).ok = TRUE
      BY DEF Frame
    <3>2. Find(dv).ok = TRUE /\ BlkDevInit(dv).ok = TRUE /\ \A r : BlkRead(dv, r).ok = TRUE
      BY <3>1, Zenon DEF Find, BlkDevInit, BlkRead
    <3>3. IsNew(Find(dv), "Find", dv, "lock_bd") /\ IsNew(BlkDevInit(dv), "BlkDevInit", dv, "start")
      BY <2>4, NoExtent, NewCalls, Zenon
    <3>4. \A r \in Runs : IsNew(BlkRead(dv, r), "BlkRead", dv, "lock_bd")
      <4> SUFFICES ASSUME NEW r \in Runs PROVE IsNew(BlkRead(dv, r), "BlkRead", dv, "lock_bd")
        OBVIOUS
      <4>1. r \in Extents
        BY DevicesAssumption DEF Runs, Extents
      <4> QED BY <2>4, <4>1, NewCalls, Zenon
    <3> QED BY <3>2, <3>3, <3>4 DEF IsNew, Fmt
  <2>6. PICK g \in Frames : g = f /\ ~ Fmt(g) /\ g.at # "unlock_dv" /\ g.dv = dv /\ g.ok
    BY <2>5
  <2> DEFINE s == <<g>>
  <2>7. s \in Seq(Frames) /\ DOMAIN s = {1} /\ s[1] = g /\ code' = [code EXCEPT ![Fs] = s]
    BY <2>3, <2>6
  <2> HIDE DEF s
  <2>8. \A i \in DOMAIN s : /\ ~ Fmt(s[i]) /\ s[i].at # "unlock_dv"
                            /\ OfRAM(s[i]) => s[i].dv \in mounted' /\ s[i].ok
    BY <2>1, <2>6, <2>7
  <2>9. Fs \in Task
    BY <2>1, FsIs
  <2> QED BY <2>1, <2>7, <2>8, <2>9, BeginRam DEF RamStays
<1>2. CASE Wait
  BY <1>2, QuietRam DEF Wait, locks, devices
<1>3. CASE Mount
  <2>1. Alive /\ code[Fs] = <<>> /\ UNCHANGED <<killed, boot>> /\ Fs \in Task
    BY <1>3, FsIs DEF Mount, Idle, tasks
  <2>2. PICK dv \in uses[Fs] \ mounted :
          /\ dv_owner' = [dv_owner EXCEPT ![dv] = NULL] /\ mounted' = mounted \cup {dv}
          /\ code' = [code EXCEPT ![Fs] = <<BlkDevAdd(dv), BlkDevInit(dv)>>]
    BY <1>3, Zenon DEF Mount, Cleared
  <2>3. dv \in Drv
    BY <2>1 DEF DeviceInv
  <2>4. PICK a \in Frames, b \in Frames :
          /\ a = BlkDevAdd(dv) /\ a.op = "BlkDevAdd" /\ a.dv = dv /\ a.at = "added" /\ a.ok
          /\ b = BlkDevInit(dv) /\ b.op = "BlkDevInit" /\ b.dv = dv /\ b.at = "start" /\ b.ok
    <3>1. /\ IsNew(BlkDevAdd(dv), "BlkDevAdd", dv, "added") /\ BlkDevAdd(dv).ok
          /\ IsNew(BlkDevInit(dv), "BlkDevInit", dv, "start")
      BY <2>3, NoExtent, NewCalls, Zenon
    <3>2. \A op, at, e : Frame(op, dv, at, e).ok = TRUE
      BY DEF Frame
    <3>3. BlkDevInit(dv).ok = TRUE
      BY <3>2, Zenon DEF BlkDevInit
    <3> QED BY <3>1, <3>3 DEF IsNew
  <2> DEFINE s == <<a, b>>
  <2>5. s \in Seq(Frames) /\ DOMAIN s = {1, 2} /\ s[1] = a /\ s[2] = b /\ code' = [code EXCEPT ![Fs] = s]
    BY <2>2, <2>4
  <2> HIDE DEF s
  <2>6. \A i \in DOMAIN s : /\ ~ Fmt(s[i]) /\ s[i].at # "unlock_dv"
                            /\ OfRAM(s[i]) => s[i].dv \in mounted' /\ s[i].ok
    BY <2>2, <2>4, <2>5 DEF Fmt
  <2>7. \A t \in Task : \A d \in mounted : Type[d] = "RAM" /\ dv_owner[d] = t => dv_owner'[d] = t
    BY <2>2 DEF LockInv
  <2> QED BY <2>1, <2>2, <2>5, <2>6, <2>7, BeginRam DEF RamStays
<1>4. CASE MountEnd
  <2>1. /\ Alive /\ code[Fs] # <<>> /\ Top.op = "BlkDevAdd" /\ ReturnWith(TRUE) /\ TRUE \in BOOLEAN
        /\ UNCHANGED <<killed, boot>>
    BY <1>4 DEF MountEnd, At, Return, Cleared, devices, tasks
  <2>2. Top.dv \in Drv /\ (OfRAM(Top) => Top.ok)
    <3>1. Top \in Frames /\ Top = code[Fs][Len(code[Fs])] /\ Len(code[Fs]) \in DOMAIN code[Fs] /\ Fs \in Task
      BY <2>1, FsIs, TopIs
    <3>2. RamFrame(Top, mounted)
      BY <3>1 DEF RamInv, RamOf
    <3> QED BY <2>1, <3>1, <3>2 DEF RamFrame, Frames
  <2>3. \A d \in Drv : Type[d] = "RAM" => dv_owner'[d] = dv_owner[d] /\ (d \in mounted => d \in mounted')
    <3>1. CASE Top.ok
      BY <1>4, <3>1 DEF MountEnd, devices
    <3>2. CASE ~ Top.ok
      BY <1>4, <2>2, <3>2 DEF MountEnd, Cleared, OfRAM, LockInv
    <3> QED BY <3>1, <3>2
  <2>4. RamLocks /\ RamStays
    BY <2>1, <2>3 DEF RamLocks, RamStays, KeepsDisk
  <2> QED BY <2>1, <2>4, ReturnRam
<1>5. CASE Unmount
  <2>1. UNCHANGED <<killed, boot, code>>
    BY <1>5 DEF Unmount, tasks
  <2>2. PICK dv \in mounted :
          /\ ~InUse(dv) /\ mounted' = mounted \ {dv} /\ dv_owner' = [dv_owner EXCEPT ![dv] = NULL]
    BY <1>5, Zenon DEF Unmount, Cleared
  <2> SUFFICES ASSUME NEW t \in Task PROVE RamOf(code'[t], t, killed', mounted', dv_owner', boot')
    BY DEF RamInv
  <2>3. code[t] \in Seq(Frames) /\ RamOf(code[t], t, killed, mounted, dv_owner, boot)
    BY DEF CodeInv, RamInv
  <2>4. ASSUME NEW i \in DOMAIN code[t] PROVE code[t][i].dv # dv
    <3>1. t \in ToSet(ring)
      <4> SUFFICES ASSUME t \notin ToSet(ring) PROVE FALSE
        OBVIOUS
      <4>1. code[t] = <<>>
        BY DEF CodeInv
      <4> QED BY <2>4, <4>1
    <3> QED BY <2>2, <3>1 DEF InUse
  <2>5. \A i \in DOMAIN code[t] : OfRAM(code[t][i]) => code[t][i].dv \in mounted'
    BY <2>2, <2>3, <2>4 DEF RamOf, RamFrame
  <2>6. RamOf(code[t], t, killed', mounted', dv_owner', boot')
    <3> DEFINE s == code[t]
    <3> SUFFICES ASSUME NEW i \in DOMAIN s
                 PROVE  /\ RamFrame(s[i], mounted')
                        /\ t \notin killed' => RamLock(s[i], t, dv_owner', boot')
                        /\ \A j \in DOMAIN s : i < j => UnderFmt(s[i], s[j])
      BY DEF RamOf
    <3>1. s[i] \in Frames
      BY <2>3
    <3>2. s[i].dv \in Drv /\ s[i].dv # dv
      BY <2>4, <3>1 DEF Frames
    <3>3. /\ RamFrame(s[i], mounted) /\ (t \notin killed => RamLock(s[i], t, dv_owner, boot))
          /\ \A j \in DOMAIN s : i < j => UnderFmt(s[i], s[j])
      BY <2>3, Zenon DEF RamOf
    <3> HIDE DEF s
    <3>4. dv_owner'[s[i].dv] = dv_owner[s[i].dv] /\ (s[i].dv \in mounted => s[i].dv \in mounted')
      BY <2>2, <3>2 DEF LockInv
    <3> QED BY <2>1, <3>3, <3>4 DEF RamFrame, RamLock
  <2> QED BY <2>1, <2>6
<1>6. CASE Kill
  <2>1. UNCHANGED <<code, mounted, boot, dv_owner>> /\ killed \subseteq killed'
    BY <1>6 DEF Kill, locks, devices
  <2> QED BY <2>1, QuietRam
<1> QED BY <1>1, <1>2, <1>3, <1>4, <1>5, <1>6

\* A task that is killed gives back what is its own.
LEMMA DyingRam ==
  ASSUME IInv, RamInv, DrvsRelease \/ BlkDevsRelease \/ TaskEnd PROVE RamInv'
<1> USE DEF IInv
<1>1. Fs \in killed /\ Fs \in Task /\ UNCHANGED <<killed, mounted, boot>>
  <2>1. Dying /\ UNCHANGED <<killed, mounted, boot>>
    BY DEF DrvsRelease, BlkDevsRelease, TaskEnd, devices
  <2> QED BY <2>1, DyingIs DEF Dying
<1>2. CASE DrvsRelease \/ BlkDevsRelease
  <2>1. UNCHANGED code
    BY <1>2 DEF DrvsRelease, BlkDevsRelease
  <2>2. \A t \in Task \ killed' : \A d \in Drv : dv_owner[d] = t => dv_owner'[d] = t
    <3>1. CASE UNCHANGED dv_owner
      BY <3>1
    <3>2. CASE \E dv \in Owned : dv_owner' = [dv_owner EXCEPT ![dv] = NULL]
      <4>1. PICK dv \in Owned : dv_owner' = [dv_owner EXCEPT ![dv] = NULL]
        BY <3>2
      <4>2. dv_owner[dv] = Fs
        BY DEF Owned
      <4> QED BY <1>1, <4>1, <4>2 DEF LockInv
    <3> QED BY <1>2, <3>1, <3>2 DEF DrvsRelease, BlkDevsRelease
  <2> QED BY <1>1, <2>1, <2>2, QuietRam
<1>3. CASE TaskEnd
  <2>1. PICK s \in Seq(Frames) : s = <<>>
    <3>1. <<>> \in Seq(Frames)
      OBVIOUS
    <3> QED BY Zenon, <3>1
  <2>2. code' = [code EXCEPT ![Fs] = s] /\ UNCHANGED dv_owner /\ DOMAIN s = {}
    BY <1>3, <2>1 DEF TaskEnd, locks
  <2> QED BY <1>1, <2>2, BeginRam DEF RamStays
<1> QED BY <1>2, <1>3

LEMMA RamPreserved == ASSUME IInv, RamInv, [Next]_vars PROVE RamInv'
<1>1. CASE LockBlkDev \/ LockDrv \/ UnlockBlkDev \/ UnlockDrv
  BY <1>1, LocksRam
<1>2. CASE CallInit \/ Crash \/ Read \/ Invalidate \/ FsReads \/ TakeRoot
  BY <1>2, WorkRam
<1>3. CASE FmtZero \/ FmtBoot
  BY <1>3, FmtRam
<1>4. CASE InitStart \/ InitRAM \/ InitISO \/ InitEnd
  BY <1>4, InitRam
<1>5. CASE Start \/ Wait \/ Mount \/ MountEnd \/ Unmount \/ Kill
  BY <1>5, MountRam
<1>6. CASE DrvsRelease \/ BlkDevsRelease \/ TaskEnd
  BY <1>6, DyingRam
<1>7. CASE UNCHANGED vars
  BY <1>7, QuietRam DEF vars, tasks, locks, devices, IInv
<1> QED BY <1>1, <1>2, <1>3, <1>4, <1>5, <1>6, <1>7 DEF Next

\* Of HeldAtWork the part about directories of the host and about RAM disks: a task that
\* has locked a directory of the host and is at work on it has it, and a task that is
\* formatting a RAM disk has it, for any number of tasks, images and initialisations, and
\* although RedSeaFmt gives the CPU away between the blocks it writes.
FormatsHeld ==
  \A t \in ToSet(ring) \ killed : \A f \in WorksOn(t) :
    Type[f.dv] = "HOSTFS" \/ f.op = "RedSeaFmt" => dv_owner[f.dv] = t
THEOREM FormattedDisksAreHeld == Spec => []FormatsHeld
<1>1. Init => RamInv
  <2> SUFFICES ASSUME Init, NEW t \in Task PROVE RamOf(code[t], t, killed, mounted, dv_owner, boot)
    BY DEF RamInv
  <2>1. code[t] = <<>>
    BY DEF Init
  <2> QED BY <2>1 DEF RamOf
<1>2. IInv /\ RamInv /\ [Next]_vars => RamInv'
  BY RamPreserved
<1>3. ASSUME IInv, RamInv PROVE FormatsHeld
  <2> SUFFICES ASSUME NEW t \in ToSet(ring) \ killed, NEW f \in WorksOn(t),
                      Type[f.dv] = "HOSTFS" \/ f.op = "RedSeaFmt"
               PROVE  dv_owner[f.dv] = t
    BY DEF FormatsHeld
  <2>1. t \in Task
    BY <1>3 DEF IInv, RingInv, ToSet
  <2>2. PICK i \in DOMAIN code[t] : f = code[t][i]
    BY DEF WorksOn, ToSet
  <2>3. f.at \in AtWork
    BY DEF WorksOn
  <2>4. CASE Type[f.dv] = "HOSTFS"
    BY <1>3, <2>1, <2>2, <2>3, <2>4 DEF IInv, HostInv, HasLock
  <2>5. CASE f.op = "RedSeaFmt"
    BY <1>3, <2>1, <2>2, <2>3, <2>5 DEF RamInv, RamOf, RamFrame, RamLock, Fmt
  <2> QED BY <2>4, <2>5
<1> QED BY <1>1, <1>2, <1>3, Invariance, PTL DEF Spec
=============================================================================
