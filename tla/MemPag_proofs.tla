--------------------------- MODULE MemPag_proofs ---------------------------
(***************************************************************************)
(* Proofs about MemPag, for every size of the pool, number of heap         *)
(* controls and table sizes.  The argument follows the set of pages that   *)
(* the lists account for: taking a block off a list removes its pages from *)
(* that set, putting a block of unaccounted pages on a list adds them.     *)
(***************************************************************************)
EXTENDS MemPag, FiniteSetTheorems, TLAPS

\* The runs of memory given at start-up do not overlap.
ChunksDisjoint ==
  \A i, j \in DOMAIN BootChunks :
    i # j => PagsOf(BootChunks[i]) \cap PagsOf(BootChunks[j]) = {}

-----------------------------------------------------------------------------
\* What a block on the list at l must satisfy.
Fit(l, b) ==
  /\ b.addr + b.pags <= NPags
  /\ \A n \in 0 .. HashSize - 1 : l = free_pag_hash(n) => b.pags = n
  /\ \A c \in 0 .. NClass - 1 : l = free_pag_hash2(c) => b.pags >= 2^c + ExtraPags
  /\ l \in UsedHead => b.mb_signature = "used"

\* The lists nx are well formed and share no page.
ListInv(nx) ==
  /\ nx \in [ListHead -> Seq(CMemBlk)]
  /\ \A l \in ListHead : \A i \in DOMAIN nx[l] : Fit(l, nx[l][i])
  /\ \A l, m \in ListHead : \A i \in DOMAIN nx[l], j \in DOMAIN nx[m] :
       <<l, i>> # <<m, j>> => PagsOf(nx[l][i]) \cap PagsOf(nx[m][j]) = {}

\* The blocks on the lists nx cover exactly the pages P.
Tiles(nx, P) ==
  /\ \A l \in ListHead : \A i \in DOMAIN nx[l] : PagsOf(nx[l][i]) \subseteq P
  /\ \A p \in P : \E l \in ListHead : \E i \in DOMAIN nx[l] : p \in PagsOf(nx[l][i])

-----------------------------------------------------------------------------
\* What RemoveAt and a block put in front do to a sequence.
LEMMA RemoveAtElements ==
  ASSUME NEW S, NEW s \in Seq(S), NEW k \in DOMAIN s
  PROVE  /\ RemoveAt(s, k) \in Seq(S)
         /\ Len(RemoveAt(s, k)) = Len(s) - 1
         /\ \A i \in 1 .. Len(s) - 1 : RemoveAt(s, k)[i] = IF i < k THEN s[i] ELSE s[i + 1]
<1> DEFINE a == SubSeq(s, 1, k - 1)
           c == SubSeq(s, k + 1, Len(s))
<1>1. /\ a \in Seq(S) /\ Len(a) = k - 1
      /\ \A i \in 1 .. k - 1 : a[i] = s[i]
  OBVIOUS
<1>2. /\ c \in Seq(S) /\ Len(c) = Len(s) - k
      /\ \A i \in 1 .. Len(s) - k : c[i] = s[i + k]
  OBVIOUS
<1> HIDE DEF a, c
<1>3. /\ a \o c \in Seq(S) /\ Len(a \o c) = Len(s) - 1
      /\ \A i \in 1 .. Len(s) - 1 :
           (a \o c)[i] = IF i < k THEN a[i] ELSE c[i - (k - 1)]
  BY SMTT(60), <1>1, <1>2
<1>4. RemoveAt(s, k) = a \o c
  BY DEF RemoveAt, a, c
<1>5. \A i \in 1 .. Len(s) - 1 : i >= k => c[i - (k - 1)] = s[i + 1]
  BY <1>2
<1>6. QED
  BY <1>1, <1>3, <1>4, <1>5

LEMMA ConsElements ==
  ASSUME NEW S, NEW s \in Seq(S), NEW b \in S
  PROVE  /\ <<b>> \o s \in Seq(S)
         /\ Len(<<b>> \o s) = Len(s) + 1
         /\ (<<b>> \o s)[1] = b
         /\ \A i \in 1 .. Len(s) : (<<b>> \o s)[i + 1] = s[i]
  OBVIOUS
-----------------------------------------------------------------------------
\* Two blocks on different lists of pages, or twice the same one, cannot both
\* be listed: a block has at least one page.
LEMMA PagsOfBlock ==
  ASSUME NEW b \in CMemBlk
  PROVE  b.addr \in PagsOf(b)
  BY DEF CMemBlk, Addr, PagsOf

\* Unlinking the k-th block of the list at l takes its pages off the account.
LEMMA RemoveTiles ==
  ASSUME NEW nx, NEW P, ListInv(nx), Tiles(nx, P),
         NEW l \in ListHead, NEW k \in DOMAIN nx[l]
  PROVE  LET n2 == [nx EXCEPT ![l] = RemoveAt(@, k)]
             b == nx[l][k]
         IN  /\ ListInv(n2)
             /\ Tiles(n2, P \ PagsOf(b))
             /\ b \in CMemBlk /\ Fit(l, b) /\ PagsOf(b) \subseteq P
<1> DEFINE n2 == [nx EXCEPT ![l] = RemoveAt(@, k)]
           b == nx[l][k]
           \* where the i-th block of the list at m was before
           old(m, i) == IF m = l /\ i >= k THEN i + 1 ELSE i
<1>1. nx[l] \in Seq(CMemBlk) /\ b \in CMemBlk
  BY DEF ListInv
<1>2. /\ n2[l] \in Seq(CMemBlk) /\ Len(n2[l]) = Len(nx[l]) - 1
      /\ \A i \in 1 .. Len(nx[l]) - 1 : n2[l][i] = IF i < k THEN nx[l][i] ELSE nx[l][i + 1]
  BY <1>1, RemoveAtElements DEF ListInv
<1>3. \A m \in ListHead : m # l => n2[m] = nx[m]
  BY DEF ListInv
<1>4. n2 \in [ListHead -> Seq(CMemBlk)]
  BY <1>2 DEF ListInv
<1>5. \A m \in ListHead : \A i \in DOMAIN n2[m] :
        /\ i \in Int
        /\ old(m, i) \in DOMAIN nx[m]
        /\ n2[m][i] = nx[m][old(m, i)]
        /\ <<m, old(m, i)>> # <<l, k>>
  <2> SUFFICES ASSUME NEW m \in ListHead, NEW i \in DOMAIN n2[m]
               PROVE  /\ i \in Int
                      /\ old(m, i) \in DOMAIN nx[m]
                      /\ n2[m][i] = nx[m][old(m, i)]
                      /\ <<m, old(m, i)>> # <<l, k>>
    OBVIOUS
  <2>1. CASE m = l
    <3>1. i \in 1 .. Len(nx[l]) - 1 /\ k \in 1 .. Len(nx[l]) /\ Len(nx[l]) \in Nat
      BY <1>1, <1>2, <2>1
    <3>2. DOMAIN nx[l] = 1 .. Len(nx[l])
      BY <1>1
    <3> HIDE DEF n2
    <3>3. QED
      BY <1>2, <2>1, <3>1, <3>2
  <2>2. CASE m # l
    <3>1. n2[m] = nx[m] /\ nx[m] \in Seq(CMemBlk)
      BY <1>3, <2>2 DEF ListInv
    <3> HIDE DEF n2
    <3>2. QED
      BY <2>2, <3>1
  <2>3. QED BY <2>1, <2>2
<1>6. \A m \in ListHead : \A j \in DOMAIN nx[m] :
        <<m, j>> # <<l, k>> => \E i \in DOMAIN n2[m] : n2[m][i] = nx[m][j]
  <2> SUFFICES ASSUME NEW m \in ListHead, NEW j \in DOMAIN nx[m], <<m, j>> # <<l, k>>
               PROVE  \E i \in DOMAIN n2[m] : n2[m][i] = nx[m][j]
    OBVIOUS
  <2>1. CASE m = l
    <3>1. j \in 1 .. Len(nx[l]) /\ k \in 1 .. Len(nx[l]) /\ Len(nx[l]) \in Nat /\ j # k
      BY <1>1, <2>1
    <3>2. DOMAIN n2[l] = 1 .. Len(nx[l]) - 1
      BY <1>2, <3>1
    <3> HIDE DEF n2
    <3>3. CASE j < k
      <4>1. j \in 1 .. Len(nx[l]) - 1
        BY <3>1, <3>3
      <4>2. n2[l][j] = nx[l][j]
        BY <1>2, <3>3, <4>1
      <4>3. QED BY <2>1, <3>2, <4>1, <4>2
    <3>4. CASE j > k
      <4>1. j - 1 \in 1 .. Len(nx[l]) - 1 /\ ~(j - 1 < k) /\ (j - 1) + 1 = j
        BY <3>1, <3>4
      <4>2. n2[l][j - 1] = nx[l][j]
        BY <1>2, <4>1
      <4>3. QED BY <2>1, <3>2, <4>1, <4>2
    <3>5. QED BY <3>1, <3>3, <3>4
  <2>2. CASE m # l
    BY <1>3, <2>2
  <2>3. QED BY <2>1, <2>2
<1>7. \A m, m2 \in ListHead : \A i \in DOMAIN n2[m], j \in DOMAIN n2[m2] :
        <<m, i>> # <<m2, j>> => <<m, old(m, i)>> # <<m2, old(m2, j)>>
  <2> SUFFICES ASSUME NEW m \in ListHead, NEW i \in DOMAIN n2[m], NEW j \in DOMAIN n2[m],
                      i # j
               PROVE  old(m, i) # old(m, j)
    OBVIOUS
  <2>1. i \in Int /\ j \in Int /\ k \in Int
    BY <1>1, <1>5
  <2>2. QED BY <2>1
<1> HIDE DEF n2
<1>8. ListInv(n2)
  <2>1. \A m \in ListHead : \A i \in DOMAIN n2[m] : Fit(m, n2[m][i])
    BY <1>5 DEF ListInv
  <2>2. \A m, m2 \in ListHead : \A i \in DOMAIN n2[m], j \in DOMAIN n2[m2] :
          <<m, i>> # <<m2, j>> => PagsOf(n2[m][i]) \cap PagsOf(n2[m2][j]) = {}
    <3> HIDE DEF old
    <3>1. QED BY <1>5, <1>7 DEF ListInv
  <2>3. QED BY <1>4, <2>1, <2>2 DEF ListInv
<1>9. Tiles(n2, P \ PagsOf(b))
  <2>1. \A m \in ListHead : \A i \in DOMAIN n2[m] : PagsOf(n2[m][i]) \subseteq P \ PagsOf(b)
    <3> HIDE DEF old
    <3>1. QED BY <1>5 DEF ListInv, Tiles
  <2>2. \A p \in P \ PagsOf(b) : \E m \in ListHead : \E i \in DOMAIN n2[m] : p \in PagsOf(n2[m][i])
    <3> SUFFICES ASSUME NEW p \in P, p \notin PagsOf(b)
                 PROVE  \E m \in ListHead : \E i \in DOMAIN n2[m] : p \in PagsOf(n2[m][i])
      OBVIOUS
    <3>1. PICK m \in ListHead : \E j \in DOMAIN nx[m] : p \in PagsOf(nx[m][j])
      BY DEF Tiles
    <3>2. PICK j \in DOMAIN nx[m] : p \in PagsOf(nx[m][j])
      BY <3>1
    <3>3. <<m, j>> # <<l, k>>
      BY <3>2
    <3>4. QED BY <1>6, <3>2, <3>3
  <2>3. QED BY <2>1, <2>2 DEF Tiles
<1>10. Fit(l, b) /\ PagsOf(b) \subseteq P
  BY DEF ListInv, Tiles
<1>11. QED BY <1>1, <1>8, <1>9, <1>10 DEF n2

\* t is the list s with b put in as its k-th block.
Inserted(t, s, k, b) ==
  /\ t \in Seq(CMemBlk)
  /\ Len(t) = Len(s) + 1
  /\ k \in DOMAIN t
  /\ t[k] = b
  /\ \A i \in DOMAIN t : /\ i < k => t[i] = s[i]
                         /\ i > k => t[i] = s[i - 1]

\* Linking a block of unaccounted pages, anywhere in the list at l, adds its
\* pages to the account.
LEMMA InsertTiles ==
  ASSUME NEW nx, NEW P, ListInv(nx), Tiles(nx, P),
         NEW l \in ListHead, NEW b \in CMemBlk, Fit(l, b), PagsOf(b) \cap P = {},
         NEW t, NEW k, Inserted(t, nx[l], k, b)
  PROVE  /\ ListInv([nx EXCEPT ![l] = t])
         /\ Tiles([nx EXCEPT ![l] = t], P \cup PagsOf(b))
<1> USE DEF Inserted
<1> DEFINE n2 == [nx EXCEPT ![l] = t]
           \* where the i-th block of the list at m was before
           old(m, i) == IF m = l /\ i > k THEN i - 1 ELSE i
<1>1. nx[l] \in Seq(CMemBlk) /\ Len(nx[l]) \in Nat /\ DOMAIN nx[l] = 1 .. Len(nx[l])
  BY DEF ListInv
<1>2. DOMAIN t = 1 .. Len(nx[l]) + 1 /\ k \in 1 .. Len(nx[l]) + 1
  BY <1>1
<1>3. n2 \in [ListHead -> Seq(CMemBlk)] /\ n2[l] = t
  BY DEF ListInv
<1>4. \A m \in ListHead : m # l => n2[m] = nx[m]
  BY DEF ListInv
<1>5. \A m \in ListHead : \A i \in DOMAIN n2[m] :
        <<m, i>> # <<l, k>> =>
          /\ i \in Int
          /\ old(m, i) \in DOMAIN nx[m]
          /\ n2[m][i] = nx[m][old(m, i)]
  <2> SUFFICES ASSUME NEW m \in ListHead, NEW i \in DOMAIN n2[m], <<m, i>> # <<l, k>>
               PROVE  /\ i \in Int
                      /\ old(m, i) \in DOMAIN nx[m]
                      /\ n2[m][i] = nx[m][old(m, i)]
    OBVIOUS
  <2>1. CASE m = l
    <3>1. i \in 1 .. Len(nx[l]) + 1 /\ i # k
      BY <1>2, <1>3, <2>1
    <3> HIDE DEF n2
    <3>2. QED BY SMTT(60), <1>1, <1>2, <1>3, <2>1, <3>1
  <2>2. CASE m # l
    <3>1. n2[m] = nx[m] /\ nx[m] \in Seq(CMemBlk)
      BY <1>4, <2>2 DEF ListInv
    <3> HIDE DEF n2
    <3>2. QED BY <2>2, <3>1
  <2>3. QED BY <2>1, <2>2
<1>6. \A m \in ListHead : \A j \in DOMAIN nx[m] : \E i \in DOMAIN n2[m] : n2[m][i] = nx[m][j]
  <2> SUFFICES ASSUME NEW m \in ListHead, NEW j \in DOMAIN nx[m]
               PROVE  \E i \in DOMAIN n2[m] : n2[m][i] = nx[m][j]
    OBVIOUS
  <2>1. CASE m = l
    <3>1. j \in 1 .. Len(nx[l])
      BY <1>1, <2>1
    <3>2. CASE j < k
      <4>1. j \in DOMAIN t /\ t[j] = nx[l][j]
        BY <1>1, <1>2, <3>1, <3>2
      <4>2. QED BY <1>3, <2>1, <4>1
    <3>3. CASE j >= k
      <4>1. j + 1 \in DOMAIN t /\ j + 1 > k /\ (j + 1) - 1 = j
        BY <1>1, <1>2, <3>1, <3>3
      <4>2. t[j + 1] = nx[l][j]
        BY <4>1
      <4>3. QED BY <1>3, <2>1, <4>1, <4>2
    <3>4. QED BY <1>2, <3>1, <3>2, <3>3
  <2>2. CASE m # l
    BY <1>4, <2>2
  <2>3. QED BY <2>1, <2>2
<1>7. \A m, m2 \in ListHead : \A i \in DOMAIN n2[m], j \in DOMAIN n2[m2] :
        <<m, i>> # <<m2, j>> /\ <<m, i>> # <<l, k>> /\ <<m2, j>> # <<l, k>> =>
          <<m, old(m, i)>> # <<m2, old(m2, j)>>
  <2> SUFFICES ASSUME NEW m \in ListHead, NEW i \in DOMAIN n2[m], NEW j \in DOMAIN n2[m],
                      i # j, <<m, i>> # <<l, k>>, <<m, j>> # <<l, k>>
               PROVE  old(m, i) # old(m, j)
    OBVIOUS
  <2>1. i \in Int /\ j \in Int /\ k \in Int
    BY <1>2, <1>5
  <2>2. QED BY <2>1
<1> HIDE DEF n2, old
<1>8. n2[l][k] = b /\ k \in DOMAIN n2[l]
  BY <1>3
<1>9. ListInv(n2)
  <2>1. \A m \in ListHead : \A i \in DOMAIN n2[m] : Fit(m, n2[m][i])
    BY <1>5, <1>8 DEF ListInv
  <2>2. \A m \in ListHead : \A i \in DOMAIN n2[m] :
          <<m, i>> # <<l, k>> => PagsOf(n2[m][i]) \subseteq P
    BY <1>5 DEF Tiles
  <2>3. \A m, m2 \in ListHead : \A i \in DOMAIN n2[m], j \in DOMAIN n2[m2] :
          <<m, i>> # <<m2, j>> => PagsOf(n2[m][i]) \cap PagsOf(n2[m2][j]) = {}
    <3> SUFFICES ASSUME NEW m \in ListHead, NEW m2 \in ListHead,
                        NEW i \in DOMAIN n2[m], NEW j \in DOMAIN n2[m2], <<m, i>> # <<m2, j>>
                 PROVE  PagsOf(n2[m][i]) \cap PagsOf(n2[m2][j]) = {}
      OBVIOUS
    <3>1. CASE <<m, i>> = <<l, k>>
      BY <1>8, <2>2, <3>1
    <3>2. CASE <<m2, j>> = <<l, k>>
      BY <1>8, <2>2, <3>2
    <3>3. CASE <<m, i>> # <<l, k>> /\ <<m2, j>> # <<l, k>>
      BY <1>5, <1>7, <3>3 DEF ListInv
    <3>4. QED BY <3>1, <3>2, <3>3
  <2>4. QED BY <1>3, <2>1, <2>3 DEF ListInv
<1>10. Tiles(n2, P \cup PagsOf(b))
  <2>1. \A m \in ListHead : \A i \in DOMAIN n2[m] : PagsOf(n2[m][i]) \subseteq P \cup PagsOf(b)
    BY <1>5, <1>8 DEF Tiles
  <2>2. \A p \in P \cup PagsOf(b) :
          \E m \in ListHead : \E i \in DOMAIN n2[m] : p \in PagsOf(n2[m][i])
    <3>1. \A p \in P : \E m \in ListHead : \E i \in DOMAIN n2[m] : p \in PagsOf(n2[m][i])
      <4> SUFFICES ASSUME NEW p \in P
                   PROVE  \E m \in ListHead : \E i \in DOMAIN n2[m] : p \in PagsOf(n2[m][i])
        OBVIOUS
      <4>1. PICK m \in ListHead : \E j \in DOMAIN nx[m] : p \in PagsOf(nx[m][j])
        BY DEF Tiles
      <4>2. PICK j \in DOMAIN nx[m] : p \in PagsOf(nx[m][j])
        BY <4>1
      <4>3. QED BY <1>6, <4>2
    <3>2. QED BY <1>8, <3>1
  <2>3. QED BY <2>1, <2>2 DEF Tiles
<1>11. QED BY <1>9, <1>10 DEF n2

\* The two ways the code links a block: in front of a list of the pool, or at
\* the end of a heap control's queue.
LEMMA LinkTiles ==
  ASSUME NEW nx, NEW P, ListInv(nx), Tiles(nx, P),
         NEW l \in ListHead, NEW b \in CMemBlk, Fit(l, b), PagsOf(b) \cap P = {}
  PROVE  /\ ListInv([nx EXCEPT ![l] = <<b>> \o @])
         /\ Tiles([nx EXCEPT ![l] = <<b>> \o @], P \cup PagsOf(b))
         /\ ListInv([nx EXCEPT ![l] = Append(@, b)])
         /\ Tiles([nx EXCEPT ![l] = Append(@, b)], P \cup PagsOf(b))
<1>1. nx[l] \in Seq(CMemBlk) /\ Len(nx[l]) \in Nat
  BY DEF ListInv
<1> DEFINE c == <<b>> \o nx[l]
           a == Append(nx[l], b)
<1>2. Inserted(c, nx[l], 1, b)
  <2>1. /\ c \in Seq(CMemBlk) /\ Len(c) = Len(nx[l]) + 1 /\ c[1] = b
        /\ \A i \in 1 .. Len(nx[l]) : c[i + 1] = nx[l][i]
    BY <1>1, ConsElements
  <2> HIDE DEF c
  <2>2. DOMAIN c = 1 .. Len(nx[l]) + 1
    BY <1>1, <2>1
  <2>3. \A i \in DOMAIN c : (i < 1 => c[i] = nx[l][i]) /\ (i > 1 => c[i] = nx[l][i - 1])
    <3> SUFFICES ASSUME NEW i \in 1 .. Len(nx[l]) + 1
                 PROVE  ~(i < 1) /\ (i > 1 => c[i] = nx[l][i - 1])
      BY <2>2
    <3>1. i > 1 => i - 1 \in 1 .. Len(nx[l]) /\ (i - 1) + 1 = i
      BY <1>1
    <3>2. QED BY <1>1, <2>1, <3>1
  <2>4. QED BY <1>1, <2>1, <2>2, <2>3 DEF Inserted
<1>3. Inserted(a, nx[l], Len(nx[l]) + 1, b)
  BY <1>1 DEF Inserted
<1> HIDE DEF a, c
<1>4. ListInv([nx EXCEPT ![l] = c]) /\ Tiles([nx EXCEPT ![l] = c], P \cup PagsOf(b))
  BY <1>2, InsertTiles
<1>5. ListInv([nx EXCEPT ![l] = a]) /\ Tiles([nx EXCEPT ![l] = a], P \cup PagsOf(b))
  BY <1>3, InsertTiles
<1>6. QED BY <1>4, <1>5 DEF a, c

\* Shrinking the k-th block of the list at l to c gives up the pages it loses.
LEMMA ShrinkTiles ==
  ASSUME NEW nx, NEW P, ListInv(nx), Tiles(nx, P),
         NEW l \in ListHead, NEW k \in DOMAIN nx[l],
         NEW c \in CMemBlk, Fit(l, c), PagsOf(c) \subseteq PagsOf(nx[l][k])
  PROVE  LET n2 == [nx EXCEPT ![l] = [@ EXCEPT ![k] = c]]
         IN  /\ ListInv(n2)
             /\ Tiles(n2, P \ (PagsOf(nx[l][k]) \ PagsOf(c)))
<1> DEFINE n2 == [nx EXCEPT ![l] = [@ EXCEPT ![k] = c]]
           b == nx[l][k]
<1>1. nx[l] \in Seq(CMemBlk)
  BY DEF ListInv
<1>2. [nx[l] EXCEPT ![k] = c] \in Seq(CMemBlk) /\ DOMAIN [nx[l] EXCEPT ![k] = c] = DOMAIN nx[l]
  BY <1>1
<1>3. /\ n2 \in [ListHead -> Seq(CMemBlk)]
      /\ \A m \in ListHead : DOMAIN n2[m] = DOMAIN nx[m]
      /\ \A m \in ListHead : \A i \in DOMAIN nx[m] :
           n2[m][i] = IF <<m, i>> = <<l, k>> THEN c ELSE nx[m][i]
  BY <1>2 DEF ListInv
<1> HIDE DEF n2
<1>4. \A m \in ListHead : \A i \in DOMAIN nx[m] :
        /\ PagsOf(n2[m][i]) \subseteq PagsOf(nx[m][i])
        /\ Fit(m, n2[m][i])
  BY <1>3 DEF ListInv
<1>5. ListInv(n2)
  <2>1. \A m, m2 \in ListHead : \A i \in DOMAIN n2[m], j \in DOMAIN n2[m2] :
          <<m, i>> # <<m2, j>> => PagsOf(n2[m][i]) \cap PagsOf(n2[m2][j]) = {}
    <3> SUFFICES ASSUME NEW m \in ListHead, NEW m2 \in ListHead,
                        NEW i \in DOMAIN nx[m], NEW j \in DOMAIN nx[m2], <<m, i>> # <<m2, j>>
                 PROVE  PagsOf(n2[m][i]) \cap PagsOf(n2[m2][j]) = {}
      BY <1>3
    <3>1. PagsOf(nx[m][i]) \cap PagsOf(nx[m2][j]) = {}
      BY DEF ListInv
    <3>2. QED BY <1>4, <3>1
  <2>2. QED BY <1>3, <1>4, <2>1 DEF ListInv
<1>6. Tiles(n2, P \ (PagsOf(b) \ PagsOf(c)))
  <2>1. ASSUME NEW m \in ListHead, NEW i \in DOMAIN nx[m]
        PROVE  PagsOf(n2[m][i]) \subseteq P \ (PagsOf(b) \ PagsOf(c))
    <3>1. CASE <<m, i>> = <<l, k>>
      <4>1. n2[m][i] = c /\ PagsOf(c) \subseteq PagsOf(b) /\ PagsOf(b) \subseteq P
        BY <1>3, <3>1 DEF Tiles
      <4>2. QED BY <4>1
    <3>2. CASE <<m, i>> # <<l, k>>
      <4>1. n2[m][i] = nx[m][i] /\ PagsOf(nx[m][i]) \subseteq P
        BY <1>3, <3>2 DEF Tiles
      <4>2. PagsOf(nx[m][i]) \cap PagsOf(b) = {}
        BY <3>2 DEF ListInv
      <4>3. QED BY <4>1, <4>2
    <3>3. QED BY <3>1, <3>2
  <2>2. ASSUME NEW p \in P \ (PagsOf(b) \ PagsOf(c))
        PROVE  \E m \in ListHead : \E i \in DOMAIN nx[m] : p \in PagsOf(n2[m][i])
    <3>1. PICK m \in ListHead : \E j \in DOMAIN nx[m] : p \in PagsOf(nx[m][j])
      BY DEF Tiles
    <3>2. PICK j \in DOMAIN nx[m] : p \in PagsOf(nx[m][j])
      BY <3>1
    <3>3. CASE <<m, j>> = <<l, k>>
      BY <1>3, <3>2, <3>3
    <3>4. CASE <<m, j>> # <<l, k>>
      BY <1>3, <3>2, <3>4
    <3>5. QED BY <3>3, <3>4
  <2>3. QED BY <1>3, <2>1, <2>2 DEF Tiles
<1>7. QED BY <1>5, <1>6 DEF n2

-----------------------------------------------------------------------------
\* The heads of different lists differ, and those of the pool are no queues.
LEMMA Heads ==
  /\ \A n \in 0 .. HashSize - 1 : free_pag_hash(n) \in FreeHead
  /\ \A c \in 0 .. NClass - 1 : free_pag_hash2(c) \in FreeHead
  /\ mem_free_lst \in FreeHead
  /\ \A hc \in HeapCtrl : next_mem_blk(hc) \in UsedHead
  /\ FreeHead \subseteq ListHead /\ UsedHead \subseteq ListHead
  /\ FreeHead \cap UsedHead = {}
  /\ \A n : free_pag_hash(n) # mem_free_lst
  /\ \A c : free_pag_hash2(c) # mem_free_lst
  /\ \A n, c : free_pag_hash(n) # free_pag_hash2(c)
  /\ \A n, m : free_pag_hash(n) = free_pag_hash(m) => n = m
  /\ \A c, d : free_pag_hash2(c) = free_pag_hash2(d) => c = d
  /\ \A hc, hd : next_mem_blk(hc) = next_mem_blk(hd) => hc = hd
  BY DEF ListHead, FreeHead, UsedHead, free_pag_hash, free_pag_hash2, mem_free_lst, next_mem_blk

\* A size class is asked for by a size rounded up: the blocks of the class of a
\* request, and of every larger class, hold at least the pages requested.
LEMMA ClassEnough ==
  ASSUME NEW n \in 1 .. NPags
  PROVE  /\ Class(n) \in 0 .. NClass - 2
         /\ Want(n) \in Nat /\ Want(n) >= n
         /\ FastList(n) \in FreeHead /\ FastList(n) # mem_free_lst
         /\ \A i \in Class(n) .. NClass - 1 : 2^i + ExtraPags >= n
         /\ ~Small(n) => FastList(n) = free_pag_hash2(Class(n))
         /\ Small(n) => FastList(n) = free_pag_hash(n) /\ n \in 0 .. HashSize - 1
<1> USE BsrAssumption, SizeAssumption
<1> DEFINE m == IF Small(n) THEN HashSize ELSE n - ExtraPags
<1>1. m \in 1 .. NPags /\ m + ExtraPags >= n
  BY DEF Small
<1>2. Class(n) = Bsr[m] + 1
  BY DEF Class
<1> HIDE DEF m
<1>3. Class(n) \in 0 .. NClass - 2 /\ m < 2^Class(n)
  <2>1. Bsr[m] \in Nat /\ Bsr[m] + 2 < NClass /\ m < 2^(Bsr[m] + 1)
    BY <1>1
  <2>2. Bsr[m] + 1 \in 0 .. NClass - 2
    BY <2>1
  <2>3. QED BY <1>2, <2>1, <2>2
<1>4. \A i \in Class(n) .. NClass - 1 : 2^i \in Nat /\ 2^Class(n) <= 2^i /\ 2^i + ExtraPags >= n
  BY <1>1, <1>3
<1>5. Want(n) \in Nat /\ Want(n) >= n
  BY <1>3, <1>4 DEF Want
<1>6. ~Small(n) => FastList(n) = free_pag_hash2(Class(n))
  BY DEF FastList
<1>7. Small(n) => FastList(n) = free_pag_hash(n) /\ n \in 0 .. HashSize - 1
  BY DEF FastList, Small
<1>8. FastList(n) \in FreeHead /\ FastList(n) # mem_free_lst
  BY <1>3, <1>6, <1>7, Heads
<1>9. QED BY <1>3, <1>4, <1>5, <1>6, <1>7, <1>8

\* Wherever MemPagAlloc(n) takes its block from, it is a listed block of the
\* pool with the pages asked for.
LEMMA SourceEnough ==
  ASSUME NEW n \in 1 .. NPags, ListInv(next), NEW s \in Sources(n)
  PROVE  /\ s.head \in FreeHead /\ s.pos \in DOMAIN next[s.head]
         /\ next[s.head][s.pos].pags >= n
         /\ Splits(s, n) => s.head = mem_free_lst
<1>1. next \in [ListHead -> Seq(CMemBlk)] /\ FreeHead \subseteq ListHead
  BY Heads DEF ListInv
<1>2. \A l \in FreeHead : next[l] # <<>> => 1 \in DOMAIN next[l]
  BY <1>1
<1>3. CASE s = [head |-> FastList(n), pos |-> 1] /\ next[FastList(n)] # <<>>
  <2>1. s.head \in FreeHead /\ s.pos \in DOMAIN next[s.head] /\ s.head # mem_free_lst
    BY <1>2, <1>3, ClassEnough
  <2>2. Fit(s.head, next[s.head][s.pos]) /\ next[s.head][s.pos] \in CMemBlk
    BY <1>1, <2>1 DEF ListInv
  <2>3. CASE Small(n)
    <3>1. s.head = free_pag_hash(n) /\ n \in 0 .. HashSize - 1
      BY <1>3, <2>3, ClassEnough
    <3>2. next[s.head][s.pos].pags = n
      BY <2>2, <3>1 DEF Fit
    <3>3. QED BY <2>1, <3>2 DEF Splits
  <2>4. CASE ~Small(n)
    <3>1. /\ s.head = free_pag_hash2(Class(n)) /\ Class(n) \in 0 .. NClass - 1
          /\ Class(n) \in Class(n) .. NClass - 1
      BY SMTT(60), <1>3, <2>4, ClassEnough, BsrAssumption
    <3>2. 2^Class(n) \in Nat /\ 2^Class(n) + ExtraPags >= n
      BY <3>1, ClassEnough, BsrAssumption
    <3>3. next[s.head][s.pos].pags >= 2^Class(n) + ExtraPags
      BY <2>2, <3>1 DEF Fit
    <3>4. next[s.head][s.pos].pags \in Nat /\ ExtraPags \in Nat
      BY <2>2, SizeAssumption DEF CMemBlk
    <3>5. QED BY <2>1, <3>2, <3>3, <3>4 DEF Splits
  <2>5. QED BY <2>1, <2>3, <2>4 DEF Splits
<1>4. CASE \E k \in FirstFit(n) : s = [head |-> mem_free_lst, pos |-> k]
  <2>1. PICK k \in FirstFit(n) : s = [head |-> mem_free_lst, pos |-> k]
    BY <1>4
  <2>2. k \in DOMAIN next[mem_free_lst] /\ next[mem_free_lst][k].pags >= Want(n)
    BY DEF FirstFit, Fits
  <2>3. next[mem_free_lst][k] \in CMemBlk
    BY <1>1, <2>2, Heads
  <2>4. next[mem_free_lst][k].pags >= n
    BY <2>2, <2>3, ClassEnough DEF CMemBlk
  <2>5. QED BY <2>1, <2>2, <2>4, Heads
<1>5. CASE \E i \in LargerClass(n) : s = [head |-> free_pag_hash2(i), pos |-> 1]
  <2>1. PICK i \in LargerClass(n) : s = [head |-> free_pag_hash2(i), pos |-> 1]
    BY <1>5
  <2>2. i \in Class(n) + 1 .. NClass - 1 /\ next[free_pag_hash2(i)] # <<>>
    BY DEF LargerClass
  <2>3. i \in 0 .. NClass - 1 /\ i \in Class(n) .. NClass - 1
    BY <2>2, ClassEnough, BsrAssumption
  <2>4. s.head \in FreeHead /\ s.pos \in DOMAIN next[s.head] /\ s.head # mem_free_lst
    BY <1>2, <2>1, <2>2, <2>3, Heads
  <2>5. Fit(s.head, next[s.head][s.pos]) /\ next[s.head][s.pos] \in CMemBlk
    BY <1>1, <2>4 DEF ListInv
  <2>6. next[s.head][s.pos].pags >= 2^i + ExtraPags
    BY <2>1, <2>3, <2>5 DEF Fit
  <2>7. 2^i + ExtraPags >= n /\ 2^i \in Nat
    BY <2>3, ClassEnough, BsrAssumption
  <2>8. next[s.head][s.pos].pags \in Nat /\ ExtraPags \in Nat
    BY <2>5, SizeAssumption DEF CMemBlk
  <2>9. QED BY <2>4, <2>6, <2>7, <2>8 DEF Splits
<1>6. QED BY <1>3, <1>4, <1>5 DEF Sources

\* Cutting w pages off the top of a block leaves two blocks that share out its
\* pages.
LEMMA SplitBlk ==
  ASSUME NEW b \in CMemBlk, b.addr + b.pags <= NPags, NEW rest \in 1 .. NPags,
         NEW w \in 1 .. NPags, b.pags = rest + w
  PROVE  LET top == [b EXCEPT !.addr = @ + rest, !.pags = w]
             c == [b EXCEPT !.pags = rest]
         IN  /\ top \in CMemBlk /\ top.addr + top.pags <= NPags /\ top.pags = w
             /\ c \in CMemBlk /\ c.addr + c.pags <= NPags
             /\ PagsOf(top) = PagsOf(b) \ PagsOf(c)
             /\ PagsOf(c) \subseteq PagsOf(b)
<1> USE BsrAssumption
<1> DEFINE top == [b EXCEPT !.addr = @ + rest, !.pags = w]
           c == [b EXCEPT !.pags = rest]
<1>1. b.addr \in 0 .. NPags - 1 /\ b.pags \in 1 .. NPags
  BY DEF CMemBlk, Addr
<1>2. top.addr = b.addr + rest /\ top.pags = w /\ c.addr = b.addr /\ c.pags = rest
  BY DEF CMemBlk
<1>3. b.addr + rest \in Addr
  BY <1>1 DEF Addr
<1>4. top \in CMemBlk /\ c \in CMemBlk
  BY <1>3 DEF CMemBlk
<1> HIDE DEF top, c
<1>5. top.addr + top.pags <= NPags /\ c.addr + c.pags <= NPags
  BY <1>1, <1>2
<1>6. PagsOf(top) = PagsOf(b) \ PagsOf(c) /\ PagsOf(c) \subseteq PagsOf(b)
  BY <1>1, <1>2 DEF PagsOf
<1>7. QED BY <1>2, <1>4, <1>5, <1>6 DEF top, c

\* MemPagAlloc(n) takes at least n pages off the account of the lists and
\* leaves the queues of the heap controls alone.
LEMMA AllocTiles ==
  ASSUME NEW n \in 1 .. NPags, NEW P, ListInv(next), Tiles(next, P),
         NEW r \in MemPagAlloc(n)
  PROVE  /\ ListInv(r.next) /\ Tiles(r.next, P \ PagsOf(r.blk))
         /\ r.blk \in CMemBlk /\ r.blk.addr + r.blk.pags <= NPags
         /\ PagsOf(r.blk) \subseteq P
         /\ r.blk.pags >= n
         /\ \A hc \in HeapCtrl : r.next[next_mem_blk(hc)] = next[next_mem_blk(hc)]
<1>1. PICK s \in Sources(n) : r = Take(s, n)
  BY DEF MemPagAlloc
<1> DEFINE b == next[s.head][s.pos]
<1>2. /\ s.head \in FreeHead /\ s.head \in ListHead /\ s.pos \in DOMAIN next[s.head]
      /\ b.pags >= n
      /\ Splits(s, n) => s.head = mem_free_lst
  BY SourceEnough, Heads
<1>3. /\ b \in CMemBlk /\ Fit(s.head, b) /\ PagsOf(b) \subseteq P
      /\ b.addr + b.pags <= NPags
  <2>1. b \in CMemBlk /\ Fit(s.head, b) /\ PagsOf(b) \subseteq P
    BY <1>2, RemoveTiles
  <2>2. QED BY <2>1 DEF Fit
<1>4. \A hc \in HeapCtrl : next_mem_blk(hc) # s.head /\ next_mem_blk(hc) \in ListHead
  BY <1>2, Heads
<1>5. next \in [ListHead -> Seq(CMemBlk)]
  BY DEF ListInv
<1>6. CASE Splits(s, n)
  <2> DEFINE rest == b.pags - Want(n)
             top == [b EXCEPT !.addr = @ + rest, !.pags = Want(n)]
             c == [b EXCEPT !.pags = rest]
  <2>1. r = [blk |-> top, next |-> [next EXCEPT ![s.head] = [@ EXCEPT ![s.pos] = c]]]
    BY <1>1, <1>6 DEF Take
  <2>2. b.pags > Want(n) /\ Want(n) \in Nat /\ Want(n) >= n
    BY <1>6, ClassEnough DEF Splits
  <2>3. b.addr \in 0 .. NPags - 1 /\ b.pags \in 1 .. NPags /\ NPags \in Nat
    BY <1>3, BsrAssumption DEF CMemBlk, Addr
  <2>4. rest \in 1 .. NPags /\ Want(n) \in 1 .. NPags /\ b.addr + rest \in 0 .. NPags - 1
    BY <1>3, <2>2, <2>3
  <2>5. b.pags = rest + Want(n)
    BY <2>2, <2>3
  <2>6. /\ top \in CMemBlk /\ top.addr + top.pags <= NPags /\ top.pags = Want(n)
        /\ c \in CMemBlk /\ c.addr + c.pags <= NPags
        /\ PagsOf(top) = PagsOf(b) \ PagsOf(c)
        /\ PagsOf(c) \subseteq PagsOf(b)
    <3> HIDE DEF b, rest
    <3>1. QED BY <1>3, <2>4, <2>5, SplitBlk
  <2>7. Fit(s.head, c)
    <3>1. s.head = mem_free_lst /\ s.head \notin UsedHead
      BY <1>2, <1>6, Heads
    <3>2. QED BY <2>6, <3>1, Heads DEF Fit
  <2>8. r.blk = top /\ r.next = [next EXCEPT ![s.head] = [@ EXCEPT ![s.pos] = c]]
    BY <2>1
  <2> HIDE DEF top, c, rest
  <2>9. ListInv(r.next) /\ Tiles(r.next, P \ (PagsOf(b) \ PagsOf(c)))
    <3>1. /\ ListInv([next EXCEPT ![s.head] = [@ EXCEPT ![s.pos] = c]])
          /\ Tiles([next EXCEPT ![s.head] = [@ EXCEPT ![s.pos] = c]],
                   P \ (PagsOf(next[s.head][s.pos]) \ PagsOf(c)))
      BY <1>2, <2>6, <2>7, ShrinkTiles
    <3>2. QED BY <2>8, <3>1
  <2>10. \A hc \in HeapCtrl : r.next[next_mem_blk(hc)] = next[next_mem_blk(hc)]
    BY <1>4, <1>5, <2>8
  <2>11. QED BY <1>3, <2>2, <2>6, <2>8, <2>9, <2>10
<1>7. CASE ~Splits(s, n)
  <2>1. r.blk = b /\ r.next = [next EXCEPT ![s.head] = RemoveAt(@, s.pos)]
    BY <1>1, <1>7 DEF Take
  <2>2. ListInv(r.next) /\ Tiles(r.next, P \ PagsOf(b))
    BY <1>2, <2>1, RemoveTiles
  <2>3. \A hc \in HeapCtrl : r.next[next_mem_blk(hc)] = next[next_mem_blk(hc)]
    BY <1>4, <1>5, <2>1
  <2>4. QED BY <1>2, <1>3, <2>1, <2>2, <2>3
<1>8. QED BY <1>6, <1>7

-----------------------------------------------------------------------------
(***************************************************************************)
(* The inductive invariant.  That the lists tile the memory given so far   *)
(* is stronger than NoPagLost, and what a list's blocks must fit stronger  *)
(* than ListsBySize; a heap control that does not exist must own nothing,  *)
(* for HeapCtrlInit empties its queue.                                     *)
(***************************************************************************)
NoneOwnsNothing ==
  \A hc \in HeapCtrl : hc_state[hc] = "none" => next[next_mem_blk(hc)] = <<>>

IInv ==
  /\ TypeOK
  /\ ListInv(next)
  /\ Tiles(next, GivenPags)
  /\ NoneOwnsNothing

LEMMA InitIInv == Init => IInv
<1> SUFFICES ASSUME Init PROVE IInv
  OBVIOUS
<1>1. next \in [ListHead -> Seq(CMemBlk)]
  BY DEF Init
<1>2. \A l \in ListHead : next[l] = <<>> /\ DOMAIN next[l] = {}
  BY DEF Init
<1>3. GivenPags = {}
  BY DEF GivenPags, Init
<1>4. ListInv(next) /\ Tiles(next, GivenPags)
  BY <1>1, <1>2, <1>3 DEF ListInv, Tiles
<1>5. 0 \in 0 .. Len(BootChunks) /\ AllocedAtStart \in Nat
  BY SizeAssumption
<1>6. TypeOK
  BY <1>1, <1>5 DEF Init, TypeOK
<1>7. NoneOwnsNothing
  BY <1>2, Heads DEF NoneOwnsNothing
<1>8. QED BY <1>4, <1>6, <1>7 DEF IInv

\* While no memory is added, the pages to account for stay the same.
LEMMA GivenSame ==
  ASSUME chunks' = chunks
  PROVE  GivenPags' = GivenPags
  BY DEF GivenPags

\* A free files a block in a class that its size belongs to.
LEMMA FreeListFits ==
  ASSUME NEW b \in CMemBlk, b.addr + b.pags <= NPags
  PROVE  FreeList(b.pags) \in FreeHead /\ Fit(FreeList(b.pags), b)
<1> USE BsrAssumption, SizeAssumption
<1>1. b.pags \in 1 .. NPags
  BY DEF CMemBlk
<1>2. CASE Small(b.pags)
  <2>1. FreeList(b.pags) = free_pag_hash(b.pags) /\ b.pags \in 0 .. HashSize - 1
    BY <1>1, <1>2 DEF FreeList, Small
  <2>2. QED BY <2>1, Heads DEF Fit
<1>3. CASE ~Small(b.pags)
  <2> DEFINE m == b.pags - ExtraPags
  <2>1. m \in 1 .. NPags /\ b.pags = m + ExtraPags
    BY <1>1, <1>3 DEF Small
  <2>2. FreeList(b.pags) = free_pag_hash2(Bsr[m])
    BY <1>3 DEF FreeList
  <2> HIDE DEF m
  <2>3. Bsr[m] \in Nat /\ Bsr[m] + 2 < NClass /\ 2^Bsr[m] <= m
    BY <2>1
  <2>4. Bsr[m] \in 0 .. NClass - 1 /\ Bsr[m] \in 0 .. NClass
    BY <2>3
  <2>5. 2^Bsr[m] \in Nat
    BY <2>4
  <2>6. b.pags >= 2^Bsr[m] + ExtraPags
    BY <2>1, <2>3, <2>5
  <2>7. QED BY <2>2, <2>4, <2>6, Heads, <1>1 DEF Fit
<1>4. QED BY <1>2, <1>3

\* A block freed leaves its owner's queue and is listed by the pool.
LEMMA FreeTiles ==
  ASSUME IInv, NEW hc \in HeapCtrl, NEW k \in DOMAIN next[next_mem_blk(hc)],
         MemPagTaskFree(hc, k)
  PROVE  /\ ListInv(next') /\ Tiles(next', GivenPags')
         /\ next'[next_mem_blk(hc)] = RemoveAt(next[next_mem_blk(hc)], k)
         /\ \A hd \in HeapCtrl \ {hc} : next'[next_mem_blk(hd)] = next[next_mem_blk(hd)]
         /\ UNCHANGED <<pool, last_mergable>>
         /\ used_u8s' \in Int /\ hc_alloced' \in [HeapCtrl -> Int]
<1> DEFINE q == next_mem_blk(hc)
           m == next[q][k]
           f == FreeList(m.pags)
           b == [m EXCEPT !.mb_signature = "unused"]
           n2 == [next EXCEPT ![q] = RemoveAt(@, k)]
<1>1. q \in UsedHead /\ q \in ListHead /\ ListInv(next) /\ Tiles(next, GivenPags)
  BY Heads DEF IInv
<1>2. /\ ListInv(n2) /\ Tiles(n2, GivenPags \ PagsOf(m))
      /\ m \in CMemBlk /\ Fit(q, m) /\ PagsOf(m) \subseteq GivenPags
  <2> HIDE DEF q
  <2>1. k \in DOMAIN next[q]
    BY DEF q
  <2>2. QED BY <1>1, <2>1, RemoveTiles
<1>3. b \in CMemBlk /\ b.addr = m.addr /\ b.pags = m.pags
  BY <1>2 DEF CMemBlk
<1>4. PagsOf(b) = PagsOf(m)
  BY <1>3 DEF PagsOf
<1>5. f \in FreeHead /\ f \in ListHead /\ f # q /\ Fit(f, b)
  <2>1. b.addr + b.pags <= NPags
    BY <1>2, <1>3 DEF Fit
  <2>2. QED BY ZenonT(60), <1>1, <1>3, <2>1, FreeListFits, Heads
<1>6. next \in [ListHead -> Seq(CMemBlk)]
  BY <1>1 DEF ListInv
<1>7. next' = [n2 EXCEPT ![f] = <<b>> \o @]
  <2>1. next' = [next EXCEPT ![q] = RemoveAt(next[q], k), ![f] = <<b>> \o next[f]]
    BY DEF MemPagTaskFree
  <2>2. n2[f] = next[f] /\ DOMAIN n2 = DOMAIN next
    BY <1>5, <1>6
  <2> HIDE DEF f, b
  <2>3. QED BY <1>5, <1>6, <2>1, <2>2
<1>8. chunks' = chunks /\ UNCHANGED <<pool, last_mergable>>
  BY DEF MemPagTaskFree, pool
<1>9. used_u8s' \in Int /\ hc_alloced' \in [HeapCtrl -> Int]
  <2>1. m.pags \in Int /\ used_u8s \in Int /\ hc_alloced \in [HeapCtrl -> Int]
    BY <1>2 DEF IInv, TypeOK, CMemBlk
  <2> HIDE DEF m
  <2>2. used_u8s' = used_u8s - m.pags /\ hc_alloced' = [hc_alloced EXCEPT ![hc] = @ - m.pags]
    BY DEF MemPagTaskFree, m
  <2>3. QED BY <2>1, <2>2
<1> HIDE DEF f, b
<1>10. /\ n2[q] = RemoveAt(next[q], k)
       /\ \A hd \in HeapCtrl \ {hc} : n2[next_mem_blk(hd)] = next[next_mem_blk(hd)]
       /\ n2 \in [ListHead -> Seq(CMemBlk)]
  <2>1. n2 \in [ListHead -> Seq(CMemBlk)]
    BY <1>2 DEF ListInv
  <2>2. n2[q] = RemoveAt(next[q], k)
    BY <1>1, <1>6
  <2>3. \A hd \in HeapCtrl \ {hc} : next_mem_blk(hd) \in ListHead /\ next_mem_blk(hd) # q
    BY Heads
  <2> HIDE DEF q
  <2>4. QED BY <1>6, <2>1, <2>2, <2>3
<1> HIDE DEF n2
<1>11. ListInv(next') /\ Tiles(next', (GivenPags \ PagsOf(m)) \cup PagsOf(b))
  <2>1. PagsOf(b) \cap (GivenPags \ PagsOf(m)) = {}
    BY <1>4
  <2>2. /\ ListInv([n2 EXCEPT ![f] = <<b>> \o @])
        /\ Tiles([n2 EXCEPT ![f] = <<b>> \o @], (GivenPags \ PagsOf(m)) \cup PagsOf(b))
    BY <1>2, <1>3, <1>5, <2>1, LinkTiles
  <2>3. QED BY <1>7, <2>2
<1>12. Tiles(next', GivenPags')
  <2>1. (GivenPags \ PagsOf(m)) \cup PagsOf(b) = GivenPags
    BY <1>2, <1>4
  <2>2. QED BY <1>8, <1>11, <2>1, GivenSame
<1>13. /\ next'[q] = RemoveAt(next[q], k)
       /\ \A hd \in HeapCtrl \ {hc} : next'[next_mem_blk(hd)] = next[next_mem_blk(hd)]
  <2>1. \A hd \in HeapCtrl : f # next_mem_blk(hd) /\ next_mem_blk(hd) \in ListHead
    BY <1>5, Heads
  <2>2. QED BY <1>7, <1>10, <2>1
<1>14. QED BY <1>8, <1>9, <1>11, <1>12, <1>13

\* A signed block is the block taken, as far as the pool's account goes.
LEMMA SignedBlk ==
  ASSUME NEW b \in CMemBlk, NEW big \in BOOLEAN
  PROVE  /\ Signed(b, big) \in CMemBlk
         /\ Signed(b, big).addr = b.addr /\ Signed(b, big).pags = b.pags
         /\ Signed(b, big).mb_signature = "used" /\ Signed(b, big).big = big
         /\ PagsOf(Signed(b, big)) = PagsOf(b)
<1>1. /\ Signed(b, big) \in CMemBlk
      /\ Signed(b, big).addr = b.addr /\ Signed(b, big).pags = b.pags
      /\ Signed(b, big).mb_signature = "used" /\ Signed(b, big).big = big
  BY DEF CMemBlk, Signed
<1>2. QED BY <1>1 DEF PagsOf

\* A used block that fits the address space fits a queue.
LEMMA UsedFits ==
  ASSUME NEW b \in CMemBlk, b.addr + b.pags <= NPags, b.mb_signature = "used",
         NEW hc \in HeapCtrl
  PROVE  Fit(next_mem_blk(hc), b)
<1>1. \A n \in 0 .. HashSize - 1 : next_mem_blk(hc) # free_pag_hash(n)
  BY Heads
<1>2. \A c \in 0 .. NClass - 1 : next_mem_blk(hc) # free_pag_hash2(c)
  BY Heads
<1>3. QED BY <1>1, <1>2 DEF Fit

\* A block of the pool queued for hc, its pages accounted for again.
LEMMA QueueTiles ==
  ASSUME NEW n \in 1 .. NPags, ListInv(next), Tiles(next, GivenPags),
         NEW hc \in HeapCtrl, NEW r \in MemPagAlloc(n), NEW big \in BOOLEAN,
         next' = [r.next EXCEPT ![next_mem_blk(hc)] = Append(@, Signed(r.blk, big))]
  PROVE  /\ ListInv(next') /\ Tiles(next', GivenPags)
         /\ next'[next_mem_blk(hc)] = Append(next[next_mem_blk(hc)], Signed(r.blk, big))
         /\ \A hd \in HeapCtrl \ {hc} : next'[next_mem_blk(hd)] = next[next_mem_blk(hd)]
<1> DEFINE q == next_mem_blk(hc)
           b == Signed(r.blk, big)
<1>1. /\ ListInv(r.next) /\ Tiles(r.next, GivenPags \ PagsOf(r.blk))
      /\ r.blk \in CMemBlk /\ r.blk.addr + r.blk.pags <= NPags
      /\ PagsOf(r.blk) \subseteq GivenPags
      /\ \A hd \in HeapCtrl : r.next[next_mem_blk(hd)] = next[next_mem_blk(hd)]
  BY AllocTiles
<1>2. /\ b \in CMemBlk /\ b.addr + b.pags <= NPags /\ b.mb_signature = "used"
      /\ PagsOf(b) = PagsOf(r.blk)
  BY <1>1, SignedBlk
<1>3. /\ Fit(q, b) /\ q \in ListHead
      /\ \A hd \in HeapCtrl \ {hc} : next_mem_blk(hd) # q /\ next_mem_blk(hd) \in ListHead
  BY <1>2, UsedFits, Heads
<1>4. r.next \in [ListHead -> Seq(CMemBlk)]
  BY <1>1 DEF ListInv
<1> HIDE DEF b
<1>5. /\ ListInv([r.next EXCEPT ![q] = Append(@, b)])
      /\ Tiles([r.next EXCEPT ![q] = Append(@, b)], (GivenPags \ PagsOf(r.blk)) \cup PagsOf(b))
  <2>1. PagsOf(b) \cap (GivenPags \ PagsOf(r.blk)) = {}
    BY <1>2
  <2>2. QED BY <1>1, <1>2, <1>3, <2>1, LinkTiles
<1>6. (GivenPags \ PagsOf(r.blk)) \cup PagsOf(b) = GivenPags
  BY <1>1, <1>2
<1>7. next' = [r.next EXCEPT ![q] = Append(@, b)]
  BY DEF b
<1>8. /\ next'[q] = Append(r.next[q], b)
      /\ \A hd \in HeapCtrl \ {hc} : next'[next_mem_blk(hd)] = r.next[next_mem_blk(hd)]
  <2> HIDE DEF q
  <2>1. QED BY <1>3, <1>4, <1>7
<1>9. QED BY <1>1, <1>5, <1>6, <1>7, <1>8 DEF b

\* The merged block has the pages of the two it is made of.
LEMMA MergedBlk ==
  ASSUME NEW b \in CMemBlk, NEW c \in CMemBlk, c.addr = b.addr + b.pags,
         c.addr + c.pags <= NPags
  PROVE  LET m == Joined(b, c)
         IN  /\ m \in CMemBlk /\ m.addr = b.addr /\ m.pags = b.pags + c.pags
             /\ m.addr + m.pags <= NPags
             /\ m.mb_signature = b.mb_signature /\ m.big = b.big
             /\ PagsOf(m) = PagsOf(b) \cup PagsOf(c)
<1> DEFINE m == Joined(b, c)
<1>1. /\ b.addr \in 0 .. NPags - 1 /\ b.pags \in 1 .. NPags
      /\ c.addr \in 0 .. NPags - 1 /\ c.pags \in 1 .. NPags /\ NPags \in Nat
  BY BsrAssumption DEF CMemBlk, Addr
<1>2. b.pags + c.pags \in 1 .. NPags
  BY <1>1
<1>3. /\ m \in CMemBlk /\ m.addr = b.addr /\ m.pags = b.pags + c.pags
      /\ m.mb_signature = b.mb_signature /\ m.big = b.big
  BY <1>2 DEF CMemBlk, Joined
<1> HIDE DEF m
<1>4. m.addr + m.pags <= NPags
  BY <1>1, <1>3
<1>5. PagsOf(m) = PagsOf(b) \cup PagsOf(c)
  BY <1>1, <1>3 DEF PagsOf
<1>6. QED BY <1>3, <1>4, <1>5 DEF m

\* The same for a block that absorbs the k-th block of the queue.
LEMMA MergeTiles ==
  ASSUME NEW n \in 1 .. NPags, ListInv(next), Tiles(next, GivenPags),
         NEW hc \in HeapCtrl, NEW r \in MemPagAlloc(n),
         NEW k \in DOMAIN next[next_mem_blk(hc)], Mergable(hc, k, r.blk),
         next' = [r.next EXCEPT ![next_mem_blk(hc)] =
                    Append(RemoveAt(@, k), Joined(Signed(r.blk, FALSE), next[next_mem_blk(hc)][k]))]
  PROVE  LET m == Joined(Signed(r.blk, FALSE), next[next_mem_blk(hc)][k])
         IN  /\ ListInv(next') /\ Tiles(next', GivenPags)
             /\ m \in CMemBlk /\ m.addr = r.blk.addr /\ m.big = FALSE
             /\ m.pags = r.blk.pags + next[next_mem_blk(hc)][k].pags
             /\ next'[next_mem_blk(hc)] = Append(RemoveAt(next[next_mem_blk(hc)], k), m)
             /\ \A hd \in HeapCtrl \ {hc} : next'[next_mem_blk(hd)] = next[next_mem_blk(hd)]
<1> DEFINE q == next_mem_blk(hc)
           b == Signed(r.blk, FALSE)
           c == next[q][k]
           m == Joined(b, c)
           n2 == [r.next EXCEPT ![q] = RemoveAt(@, k)]
           P == GivenPags \ PagsOf(r.blk)
<1>1. /\ ListInv(r.next) /\ Tiles(r.next, P)
      /\ r.blk \in CMemBlk /\ r.blk.addr + r.blk.pags <= NPags
      /\ PagsOf(r.blk) \subseteq GivenPags
      /\ \A hd \in HeapCtrl : r.next[next_mem_blk(hd)] = next[next_mem_blk(hd)]
  BY AllocTiles
<1>2. /\ b \in CMemBlk /\ b.mb_signature = "used" /\ b.big = FALSE
      /\ b.addr = r.blk.addr /\ b.pags = r.blk.pags /\ PagsOf(b) = PagsOf(r.blk)
  BY <1>1, SignedBlk
<1>3. /\ q \in ListHead /\ r.next[q] = next[q]
      /\ \A hd \in HeapCtrl \ {hc} : next_mem_blk(hd) # q /\ next_mem_blk(hd) \in ListHead
  BY <1>1, Heads
<1>4. r.next \in [ListHead -> Seq(CMemBlk)]
  BY <1>1 DEF ListInv
<1>5. c.addr = b.addr + b.pags /\ m = Joined(b, c)
  BY <1>2 DEF Mergable
<1>6. /\ ListInv(n2) /\ Tiles(n2, P \ PagsOf(c))
      /\ c \in CMemBlk /\ Fit(q, c) /\ PagsOf(c) \subseteq P
  <2> HIDE DEF q, P
  <2>1. k \in DOMAIN r.next[q] /\ c = r.next[q][k]
    BY <1>3 DEF q
  <2> HIDE DEF c
  <2>2. QED BY <1>1, <1>3, <2>1, RemoveTiles
<1> HIDE DEF b, c, m, n2, P
<1>7. /\ m \in CMemBlk /\ m.addr = b.addr /\ m.pags = b.pags + c.pags
      /\ m.addr + m.pags <= NPags
      /\ m.mb_signature = "used" /\ m.big = FALSE
      /\ PagsOf(m) = PagsOf(b) \cup PagsOf(c)
  <2>1. c.addr + c.pags <= NPags
    BY <1>6 DEF Fit
  <2>2. c.addr = b.addr + b.pags /\ b \in CMemBlk /\ c \in CMemBlk
    BY <1>2, <1>5, <1>6
  <2>3. /\ Joined(b, c) \in CMemBlk /\ Joined(b, c).addr = b.addr
        /\ Joined(b, c).pags = b.pags + c.pags
        /\ Joined(b, c).addr + Joined(b, c).pags <= NPags
        /\ Joined(b, c).mb_signature = b.mb_signature /\ Joined(b, c).big = b.big
        /\ PagsOf(Joined(b, c)) = PagsOf(b) \cup PagsOf(c)
    BY <2>1, <2>2, MergedBlk
  <2>4. QED BY <1>2, <1>5, <2>3
<1>8. Fit(q, m) /\ PagsOf(m) \cap (P \ PagsOf(c)) = {}
  <2>1. PagsOf(b) \cap P = {}
    BY <1>2 DEF P
  <2>2. QED BY <1>7, <2>1, UsedFits
<1>9. /\ ListInv([n2 EXCEPT ![q] = Append(@, m)])
      /\ Tiles([n2 EXCEPT ![q] = Append(@, m)], (P \ PagsOf(c)) \cup PagsOf(m))
  BY <1>3, <1>6, <1>7, <1>8, LinkTiles
<1>10. (P \ PagsOf(c)) \cup PagsOf(m) = GivenPags
  BY <1>1, <1>2, <1>6, <1>7 DEF P
<1>11. /\ n2[q] = RemoveAt(r.next[q], k)
       /\ n2 \in [ListHead -> Seq(CMemBlk)]
       /\ \A hd \in HeapCtrl \ {hc} : n2[next_mem_blk(hd)] = r.next[next_mem_blk(hd)]
  <2>1. n2 \in [ListHead -> Seq(CMemBlk)]
    BY <1>6 DEF ListInv
  <2> HIDE DEF q
  <2>2. QED BY <1>3, <1>4, <2>1 DEF n2
<1>12. next' = [n2 EXCEPT ![q] = Append(@, m)]
  <2>1. next' = [r.next EXCEPT ![q] = Append(RemoveAt(r.next[q], k), m)]
    BY DEF m, b, c
  <2> HIDE DEF q
  <2>2. n2 = [r.next EXCEPT ![q] = RemoveAt(r.next[q], k)]
    BY DEF n2
  <2> DEFINE s == Append(RemoveAt(r.next[q], k), m)
             t == RemoveAt(r.next[q], k)
  <2>3. s = Append(n2[q], m)
    BY <1>11
  <2> HIDE DEF s, t
  <2>4. [[r.next EXCEPT ![q] = t] EXCEPT ![q] = s] = [r.next EXCEPT ![q] = s]
    BY <1>3, <1>4
  <2>5. next' = [r.next EXCEPT ![q] = s] /\ n2 = [r.next EXCEPT ![q] = t]
    BY <2>1, <2>2 DEF s, t
  <2>6. QED BY <2>3, <2>4, <2>5
<1>13. /\ next'[q] = Append(RemoveAt(next[q], k), m)
       /\ \A hd \in HeapCtrl \ {hc} : next'[next_mem_blk(hd)] = next[next_mem_blk(hd)]
  <2>1. next'[q] = Append(n2[q], m)
    BY <1>3, <1>11, <1>12
  <2>2. \A hd \in HeapCtrl \ {hc} : next'[next_mem_blk(hd)] = n2[next_mem_blk(hd)]
    <3> HIDE DEF q
    <3>1. QED BY <1>3, <1>11, <1>12
  <2>3. QED BY <1>1, <1>3, <1>11, <2>1, <2>2
<1>14. QED BY <1>2, <1>7, <1>9, <1>10, <1>12, <1>13 DEF b, c, m

-----------------------------------------------------------------------------
\* Each step preserves the invariant, one lemma per kind of step.
LEMMA BlkPoolAddIInv ==
  ASSUME ChunksDisjoint, IInv, BlkPoolAdd
  PROVE  IInv'
<1> USE BsrAssumption, SizeAssumption
<1> DEFINE c == BootChunks[chunks + 1]
           m == [addr |-> c.addr, pags |-> c.pags, mb_signature |-> "unused", big |-> FALSE]
           P == GivenPags
<1>1. /\ chunks \in Nat /\ chunks + 1 \in DOMAIN BootChunks /\ chunks + 1 \in 0 .. Len(BootChunks)
      /\ \A i \in 1 .. chunks : i \in DOMAIN BootChunks /\ i # chunks + 1
  <2>1. Len(BootChunks) \in Nat /\ DOMAIN BootChunks = 1 .. Len(BootChunks)
    OBVIOUS
  <2>2. chunks \in 0 .. Len(BootChunks) /\ chunks < Len(BootChunks)
    BY DEF IInv, TypeOK, BlkPoolAdd
  <2>3. QED BY <2>1, <2>2
<1>2. c \in [addr : Addr, pags : 1 .. NPags] /\ c.addr + c.pags <= NPags
  <2> DEFINE S == [addr : Addr, pags : 1 .. NPags]
  <2>1. BootChunks \in Seq(S)
    OBVIOUS
  <2> HIDE DEF S
  <2>2. BootChunks[chunks + 1] \in S
    BY <1>1, <2>1
  <2>3. QED BY <1>1, <2>2 DEF S
<1> HIDE DEF c
<1>3. m \in CMemBlk /\ m.addr = c.addr /\ m.pags = c.pags /\ m.addr + m.pags <= NPags
  BY <1>2 DEF CMemBlk
<1>4. PagsOf(m) = PagsOf(c)
  BY <1>3 DEF PagsOf
<1>5. chunks' = chunks + 1 /\ next' = [next EXCEPT ![mem_free_lst] = <<m>> \o @]
  BY DEF BlkPoolAdd, c
<1> HIDE DEF m
<1>6. GivenPags' = P \cup PagsOf(m)
  <2>1. GivenPags' = UNION {PagsOf(BootChunks[i]) : i \in 1 .. chunks + 1}
    BY <1>5 DEF GivenPags
  <2>2. 1 .. chunks + 1 = (1 .. chunks) \cup {chunks + 1}
    BY <1>1
  <2>3. UNION {PagsOf(BootChunks[i]) : i \in (1 .. chunks) \cup {chunks + 1}}
          = P \cup PagsOf(BootChunks[chunks + 1])
    BY DEF GivenPags
  <2>4. QED BY <1>4, <2>1, <2>2, <2>3 DEF c
<1>7. PagsOf(m) \cap P = {}
  <2>1. \A i \in 1 .. chunks : PagsOf(c) \cap PagsOf(BootChunks[i]) = {}
    BY <1>1 DEF ChunksDisjoint, c
  <2>2. QED BY <1>4, <2>1 DEF GivenPags
<1>8. Fit(mem_free_lst, m) /\ mem_free_lst \in ListHead
  BY <1>3, Heads DEF Fit
<1>9. ListInv(next') /\ Tiles(next', P \cup PagsOf(m))
  BY <1>3, <1>5, <1>7, <1>8, LinkTiles DEF IInv
<1>10. \A hc \in HeapCtrl : next'[next_mem_blk(hc)] = next[next_mem_blk(hc)]
  <2>1. \A hc \in HeapCtrl : next_mem_blk(hc) \in ListHead /\ next_mem_blk(hc) # mem_free_lst
    BY Heads
  <2>2. next \in [ListHead -> Seq(CMemBlk)]
    BY DEF IInv, TypeOK
  <2>3. QED BY <1>5, <2>1, <2>2
<1>11. NoneOwnsNothing'
  BY <1>10 DEF IInv, NoneOwnsNothing, BlkPoolAdd
<1>12. TypeOK'
  <2>1. next' \in [ListHead -> Seq(CMemBlk)]
    BY <1>9 DEF ListInv
  <2>2. alloced_u8s' = alloced_u8s + c.pags /\ c.pags \in Nat
    BY <1>2 DEF BlkPoolAdd, c
  <2>3. QED BY SMTT(60), <1>1, <1>5, <2>1, <2>2 DEF IInv, TypeOK, BlkPoolAdd
<1>13. QED BY <1>6, <1>9, <1>11, <1>12 DEF IInv

\* A heap control that exists changes: its counters and its queue.
LEMMA QueueIInv ==
  ASSUME IInv, NEW hc \in HeapCtrl, hc_state[hc] # "none",
         UNCHANGED <<pool, hc_state>>,
         ListInv(next'), Tiles(next', GivenPags),
         \A hd \in HeapCtrl \ {hc} : next'[next_mem_blk(hd)] = next[next_mem_blk(hd)],
         used_u8s' \in Int, hc_alloced' \in [HeapCtrl -> Int],
         last_mergable' \in [HeapCtrl -> Addr \cup {NULL}]
  PROVE  IInv'
<1>1. chunks' = chunks /\ alloced_u8s' = alloced_u8s /\ hc_state' = hc_state
  BY DEF pool
<1>2. TypeOK'
  <2>1. next' \in [ListHead -> Seq(CMemBlk)]
    BY DEF ListInv
  <2>2. QED BY <1>1, <2>1 DEF IInv, TypeOK
<1>3. NoneOwnsNothing'
  BY <1>1 DEF IInv, NoneOwnsNothing
<1>4. GivenPags' = GivenPags
  BY <1>1, GivenSame
<1>5. QED BY <1>2, <1>3, <1>4 DEF IInv

\* Nothing changes but the state of a heap control whose queue is empty, or
\* that still exists.
LEMMA StateIInv ==
  ASSUME IInv, UNCHANGED <<next, pool, used_u8s>>,
         NEW hc \in HeapCtrl, NEW st \in {"none", "live", "deleting"},
         hc_state' = [hc_state EXCEPT ![hc] = st],
         st = "none" => next[next_mem_blk(hc)] = <<>>,
         hc_alloced' \in [HeapCtrl -> Int],
         last_mergable' \in [HeapCtrl -> Addr \cup {NULL}]
  PROVE  IInv'
<1>1. /\ chunks' = chunks /\ alloced_u8s' = alloced_u8s /\ next' = next
      /\ used_u8s' = used_u8s
  BY DEF pool
<1>2. TypeOK'
  BY <1>1 DEF IInv, TypeOK
<1>3. NoneOwnsNothing'
  BY <1>1 DEF IInv, NoneOwnsNothing, TypeOK
<1>4. GivenPags' = GivenPags
  BY <1>1, GivenSame
<1>5. QED BY <1>1, <1>2, <1>3, <1>4 DEF IInv

\* A heap control starts with an empty queue, which it had already.
LEMMA HeapCtrlInitSame ==
  ASSUME IInv, NEW hc \in HeapCtrl, HeapCtrlInit(hc)
  PROVE  next' = next
<1>1. next' = [next EXCEPT ![next_mem_blk(hc)] = <<>>] /\ next[next_mem_blk(hc)] = <<>>
  BY DEF HeapCtrlInit, IInv, NoneOwnsNothing
<1>2. next \in [ListHead -> Seq(CMemBlk)]
  BY DEF IInv, TypeOK
<1>3. QED BY <1>1, <1>2

LEMMA HeapCtrlInitIInv ==
  ASSUME IInv, NEW hc \in HeapCtrl, HeapCtrlInit(hc)
  PROVE  IInv'
<1>1. next' = next
  BY HeapCtrlInitSame
<1>2. /\ hc_alloced' \in [HeapCtrl -> Int]
      /\ last_mergable' \in [HeapCtrl -> Addr \cup {NULL}]
  BY DEF IInv, TypeOK, HeapCtrlInit
<1>3. UNCHANGED <<next, pool, used_u8s>> /\ hc_state' = [hc_state EXCEPT ![hc] = "live"]
  BY <1>1 DEF HeapCtrlInit
<1>4. QED BY <1>2, <1>3, StateIInv

LEMMA MAllocBigIInv ==
  ASSUME IInv, NEW hc \in HeapCtrl, NEW n \in Requests, MAllocBig(hc, n)
  PROVE  IInv'
<1>1. PICK r \in MemPagAlloc(n) :
        /\ MemPagTaskAlloc(hc, r.blk)
        /\ next' = [r.next EXCEPT ![next_mem_blk(hc)] = Append(@, Signed(r.blk, TRUE))]
        /\ UNCHANGED last_mergable
  BY DEF MAllocBig
<1>2. n \in 1 .. NPags /\ ListInv(next) /\ Tiles(next, GivenPags)
  BY SizeAssumption DEF IInv
<1>3. /\ ListInv(next') /\ Tiles(next', GivenPags)
      /\ \A hd \in HeapCtrl \ {hc} : next'[next_mem_blk(hd)] = next[next_mem_blk(hd)]
  BY <1>1, <1>2, QueueTiles
<1>4. r.blk \in CMemBlk
  BY <1>2, AllocTiles
<1>5. used_u8s' \in Int /\ hc_alloced' \in [HeapCtrl -> Int]
  BY <1>1, <1>4 DEF IInv, TypeOK, MemPagTaskAlloc, CMemBlk
<1>6. hc_state[hc] # "none" /\ UNCHANGED <<pool, hc_state>>
  BY <1>1 DEF MemPagTaskAlloc
<1>7. last_mergable' \in [HeapCtrl -> Addr \cup {NULL}]
  BY <1>1 DEF IInv, TypeOK
<1>8. QED BY <1>3, <1>5, <1>6, <1>7, QueueIInv

LEMMA MAllocChunkIInv ==
  ASSUME IInv, NEW hc \in HeapCtrl, NEW n \in ChunkPags, MAllocChunk(hc, n)
  PROVE  IInv'
<1> DEFINE q == next_mem_blk(hc)
           Merge(r, k) == /\ Mergable(hc, k, r.blk)
                          /\ next' = [r.next EXCEPT ![q] =
                               Append(RemoveAt(@, k), Joined(Signed(r.blk, FALSE), next[q][k]))]
           NoMerge(r) == next' = [r.next EXCEPT ![q] = Append(@, Signed(r.blk, FALSE))]
<1>1. PICK r \in MemPagAlloc(n) :
        /\ MemPagTaskAlloc(hc, r.blk)
        /\ (\E k \in DOMAIN next[q] : Merge(r, k)) \/ NoMerge(r)
        /\ last_mergable' = [last_mergable EXCEPT ![hc] = r.blk.addr]
  BY DEF MAllocChunk
<1>2. n \in 1 .. NPags /\ ListInv(next) /\ Tiles(next, GivenPags)
  BY SizeAssumption DEF IInv
<1>3. /\ ListInv(next') /\ Tiles(next', GivenPags)
      /\ \A hd \in HeapCtrl \ {hc} : next'[next_mem_blk(hd)] = next[next_mem_blk(hd)]
  <2>1. CASE NoMerge(r)
    BY <1>1, <1>2, <2>1, QueueTiles
  <2>2. CASE \E k \in DOMAIN next[q] : Merge(r, k)
    <3>1. PICK k \in DOMAIN next[q] : Merge(r, k)
      BY <2>2
    <3>2. QED BY <1>1, <1>2, <3>1, MergeTiles
  <2>3. QED BY <1>1, <2>1, <2>2
<1>4. r.blk \in CMemBlk
  BY <1>2, AllocTiles
<1>5. used_u8s' \in Int /\ hc_alloced' \in [HeapCtrl -> Int]
  BY <1>1, <1>4 DEF IInv, TypeOK, MemPagTaskAlloc, CMemBlk
<1>6. hc_state[hc] # "none" /\ UNCHANGED <<pool, hc_state>>
  BY <1>1 DEF MemPagTaskAlloc
<1>7. last_mergable' \in [HeapCtrl -> Addr \cup {NULL}]
  BY <1>1, <1>4 DEF IInv, TypeOK, CMemBlk
<1>8. QED BY <1>3, <1>5, <1>6, <1>7, QueueIInv

\* The two ways a block is freed.
LEMMA FreeIInv ==
  ASSUME IInv, NEW hc \in HeapCtrl, NEW k \in DOMAIN next[next_mem_blk(hc)],
         MemPagTaskFree(hc, k), hc_state[hc] # "none", UNCHANGED hc_state
  PROVE  IInv'
<1>1. /\ ListInv(next') /\ Tiles(next', GivenPags')
      /\ \A hd \in HeapCtrl \ {hc} : next'[next_mem_blk(hd)] = next[next_mem_blk(hd)]
      /\ UNCHANGED <<pool, last_mergable>>
      /\ used_u8s' \in Int /\ hc_alloced' \in [HeapCtrl -> Int]
  BY FreeTiles
<1>2. GivenPags' = GivenPags /\ last_mergable' \in [HeapCtrl -> Addr \cup {NULL}]
  BY <1>1, GivenSame DEF pool, IInv, TypeOK
<1>3. QED BY <1>1, <1>2, QueueIInv

LEMMA NextIInv ==
  ASSUME ChunksDisjoint
  PROVE  IInv /\ [Next]_vars => IInv'
<1> SUFFICES ASSUME IInv, [Next]_vars PROVE IInv'
  OBVIOUS
<1>1. CASE BlkPoolAdd
  BY <1>1, BlkPoolAddIInv
<1>2. ASSUME NEW hc \in HeapCtrl, HeapCtrlInit(hc) PROVE IInv'
  BY <1>2, HeapCtrlInitIInv
<1>3. ASSUME NEW hc \in HeapCtrl, NEW n \in Requests, MAllocBig(hc, n) PROVE IInv'
  BY <1>3, MAllocBigIInv
<1>4. ASSUME NEW hc \in HeapCtrl, NEW n \in ChunkPags, MAllocChunk(hc, n) PROVE IInv'
  BY <1>4, MAllocChunkIInv
<1>5. ASSUME NEW hc \in HeapCtrl, NEW k \in DOMAIN next[next_mem_blk(hc)], FreeBig(hc, k)
      PROVE  IInv'
  BY <1>5, FreeIInv DEF FreeBig
<1>6. ASSUME NEW hc \in HeapCtrl, HeapCtrlDelStart(hc) PROVE IInv'
  <2>1. /\ hc_alloced' \in [HeapCtrl -> Int]
        /\ last_mergable' \in [HeapCtrl -> Addr \cup {NULL}]
        /\ UNCHANGED <<next, pool, used_u8s>>
        /\ hc_state' = [hc_state EXCEPT ![hc] = "deleting"]
    BY <1>6 DEF HeapCtrlDelStart, IInv, TypeOK
  <2>2. QED BY <2>1, StateIInv
<1>7. ASSUME NEW hc \in HeapCtrl, HeapCtrlDelBlk(hc) PROVE IInv'
  <2>1. 1 \in DOMAIN next[next_mem_blk(hc)]
    <3>1. next[next_mem_blk(hc)] \in Seq(CMemBlk) /\ next[next_mem_blk(hc)] # <<>>
      BY <1>7, Heads DEF HeapCtrlDelBlk, IInv, TypeOK
    <3>2. QED BY <3>1
  <2>2. QED BY <1>7, <2>1, FreeIInv DEF HeapCtrlDelBlk
<1>8. ASSUME NEW hc \in HeapCtrl, HeapCtrlDelEnd(hc) PROVE IInv'
  <2>1. /\ hc_alloced' \in [HeapCtrl -> Int]
        /\ last_mergable' \in [HeapCtrl -> Addr \cup {NULL}]
        /\ UNCHANGED <<next, pool, used_u8s>>
        /\ hc_state' = [hc_state EXCEPT ![hc] = "none"]
        /\ next[next_mem_blk(hc)] = <<>>
    BY <1>8 DEF HeapCtrlDelEnd, IInv, TypeOK
  <2>2. QED BY <2>1, StateIInv
<1>9. CASE UNCHANGED vars
  <2>1. UNCHANGED <<next, chunks, alloced_u8s, used_u8s, hc_state, hc_alloced, last_mergable>>
    BY <1>9 DEF vars
  <2>2. GivenPags' = GivenPags
    BY <2>1, GivenSame
  <2>3. TypeOK' /\ NoneOwnsNothing'
    BY <2>1 DEF IInv, TypeOK, NoneOwnsNothing
  <2>4. QED BY <2>1, <2>2, <2>3 DEF IInv
<1>10. QED
  BY <1>1, <1>2, <1>3, <1>4, <1>5, <1>6, <1>7, <1>8, <1>9 DEF Next

\* The invariant holds in every reachable state of a pool that is given each
\* page once.
THEOREM Invariance ==
  ASSUME ChunksDisjoint
  PROVE  Spec => []IInv
<1>1. Init => IInv
  BY InitIInv
<1>2. IInv /\ [Next]_vars => IInv'
  BY NextIInv
<1>3. QED BY <1>1, <1>2, PTL DEF Spec

-----------------------------------------------------------------------------
\* What the invariant says of the properties the runs check.
LEMMA IInvProperties == IInv => TypeOK /\ BlksDisjoint /\ NoPagLost /\ ListsBySize
<1> SUFFICES ASSUME IInv PROVE TypeOK /\ BlksDisjoint /\ NoPagLost /\ ListsBySize
  OBVIOUS
<1>1. TypeOK
  BY DEF IInv
<1>2. BlksDisjoint
  BY DEF IInv, ListInv, BlksDisjoint
<1>3. NoPagLost
  BY DEF IInv, Tiles, NoPagLost
<1>4. ListsBySize
  <2>1. ASSUME NEW n \in 0 .. HashSize - 1, NEW i \in DOMAIN next[free_pag_hash(n)]
        PROVE  next[free_pag_hash(n)][i].pags = n
    <3>1. free_pag_hash(n) \in ListHead
      BY Heads
    <3>2. Fit(free_pag_hash(n), next[free_pag_hash(n)][i])
      BY <2>1, <3>1 DEF IInv, ListInv
    <3>3. QED BY <3>2 DEF Fit
  <2>2. ASSUME NEW c \in 0 .. NClass - 1, NEW i \in DOMAIN next[free_pag_hash2(c)]
        PROVE  next[free_pag_hash2(c)][i].pags >= 2^c + ExtraPags
    <3>1. free_pag_hash2(c) \in ListHead
      BY Heads
    <3>2. Fit(free_pag_hash2(c), next[free_pag_hash2(c)][i])
      BY <2>2, <3>1 DEF IInv, ListInv
    <3>3. QED BY <3>2 DEF Fit
  <2>3. QED BY <2>1, <2>2 DEF ListsBySize
<1>5. QED BY <1>1, <1>2, <1>3, <1>4

\* The state variables keep their types, whatever the sizes of the pool.
THEOREM TypeCorrect ==
  ASSUME ChunksDisjoint
  PROVE  Spec => []TypeOK
  BY Invariance, IInvProperties, PTL

\* What MAlloc hands out is never memory that anyone else has or that is free,
\* provided that start-up gives the pool each page once (which the hosted
\* runtime does not: see the run mempag_hosted_boot).
THEOREM NoOverlap ==
  ASSUME ChunksDisjoint
  PROVE  Spec => []BlksDisjoint
  BY Invariance, IInvProperties, PTL

\* Every page given to the pool stays in some block of some list.
THEOREM NothingLost ==
  ASSUME ChunksDisjoint
  PROVE  Spec => []NoPagLost
  BY Invariance, IInvProperties, PTL

\* Blocks are filed where their size belongs.
THEOREM FiledBySize ==
  ASSUME ChunksDisjoint
  PROVE  Spec => []ListsBySize
  BY Invariance, IInvProperties, PTL

\* A big MAlloc that succeeds gets the pages it asked for.
THEOREM EnoughPags ==
  ASSUME ChunksDisjoint
  PROVE  Spec => AllocEnough
<1>1. ASSUME IInv, NEW hc \in HeapCtrl, NEW n \in Requests, MAllocBig(hc, n)
      PROVE  next'[next_mem_blk(hc)][Len(next[next_mem_blk(hc)]) + 1].pags >= n
  <2>1. PICK r \in MemPagAlloc(n) :
          next' = [r.next EXCEPT ![next_mem_blk(hc)] = Append(@, Signed(r.blk, TRUE))]
    BY <1>1 DEF MAllocBig
  <2>2. n \in 1 .. NPags /\ ListInv(next) /\ Tiles(next, GivenPags)
    BY <1>1, SizeAssumption DEF IInv
  <2>3. next'[next_mem_blk(hc)] = Append(next[next_mem_blk(hc)], Signed(r.blk, TRUE))
    BY <2>1, <2>2, QueueTiles
  <2>4. r.blk \in CMemBlk /\ r.blk.pags >= n
    BY <2>2, AllocTiles
  <2>5. Signed(r.blk, TRUE).pags >= n /\ Signed(r.blk, TRUE) \in CMemBlk
    BY <2>4, SignedBlk
  <2>6. next[next_mem_blk(hc)] \in Seq(CMemBlk)
    BY <2>2, Heads DEF ListInv
  <2>7. next'[next_mem_blk(hc)][Len(next[next_mem_blk(hc)]) + 1] = Signed(r.blk, TRUE)
    <3> DEFINE q == next[next_mem_blk(hc)]
               b == Signed(r.blk, TRUE)
    <3>1. q \in Seq(CMemBlk) /\ b \in CMemBlk
      BY <2>5, <2>6
    <3> HIDE DEF q, b
    <3>2. Append(q, b)[Len(q) + 1] = b
      BY <3>1
    <3>3. QED BY <2>3, <3>2 DEF q, b
  <2>8. QED BY <2>5, <2>7
<1>2. IInv /\ [Next]_vars =>
        [\A hc \in HeapCtrl : \A n \in Requests : MAllocBig(hc, n) =>
           next'[next_mem_blk(hc)][Len(next[next_mem_blk(hc)]) + 1].pags >= n]_vars
  BY <1>1
<1>3. QED BY <1>2, Invariance, PTL DEF Spec, AllocEnough

-----------------------------------------------------------------------------
(***************************************************************************)
(* The block a little MAlloc may merge with.  That it is still queued does *)
(* not follow from the account of pages: what matters is that Free gives   *)
(* back big blocks only, and last_mergable is never one.                   *)
(***************************************************************************)
Target(hc) ==
  hc_state[hc] = "live" /\ last_mergable[hc] # NULL =>
    \E i \in DOMAIN next[next_mem_blk(hc)] :
      /\ next[next_mem_blk(hc)][i].addr = last_mergable[hc]
      /\ ~next[next_mem_blk(hc)][i].big

MergeTargets == \A hc \in HeapCtrl : Target(hc)

\* A queue with a block put at its end still has the blocks it had.
LEMMA AppendKeeps ==
  ASSUME NEW q \in Seq(CMemBlk), NEW m \in CMemBlk
  PROVE  /\ \A i \in DOMAIN q : i \in DOMAIN Append(q, m) /\ Append(q, m)[i] = q[i]
         /\ Len(q) + 1 \in DOMAIN Append(q, m) /\ Append(q, m)[Len(q) + 1] = m
  OBVIOUS

LEMMA RemoveKeeps ==
  ASSUME NEW q \in Seq(CMemBlk), NEW k \in DOMAIN q, NEW j \in DOMAIN q, j # k
  PROVE  \E i \in DOMAIN RemoveAt(q, k) : RemoveAt(q, k)[i] = q[j]
<1> DEFINE a == RemoveAt(q, k)
<1>1. /\ DOMAIN a = 1 .. Len(q) - 1 /\ DOMAIN q = 1 .. Len(q) /\ Len(q) \in Nat
      /\ \A i \in 1 .. Len(q) - 1 : a[i] = IF i < k THEN q[i] ELSE q[i + 1]
  BY RemoveAtElements
<1> HIDE DEF a
<1>2. CASE j < k
  BY <1>1, <1>2 DEF a
<1>3. CASE j > k
  <2>1. j - 1 \in DOMAIN a /\ a[j - 1] = q[j]
    BY <1>1, <1>3
  <2>2. QED BY <2>1 DEF a
<1>4. QED BY <1>1, <1>2, <1>3

\* A heap control of which nothing changes keeps its target.
LEMMA TargetSame ==
  ASSUME NEW hd \in HeapCtrl, Target(hd),
         hc_state'[hd] = hc_state[hd], last_mergable'[hd] = last_mergable[hd],
         next'[next_mem_blk(hd)] = next[next_mem_blk(hd)]
  PROVE  Target(hd)'
  BY DEF Target

LEMMA MergeTargetsStep ==
  ASSUME IInv, MergeTargets, NEW hc \in HeapCtrl, Target(hc)',
         \A hd \in HeapCtrl \ {hc} : /\ next'[next_mem_blk(hd)] = next[next_mem_blk(hd)]
                                     /\ hc_state'[hd] = hc_state[hd]
                                     /\ last_mergable'[hd] = last_mergable[hd]
  PROVE  MergeTargets'
<1>1. ASSUME NEW hd \in HeapCtrl, hd # hc PROVE Target(hd)'
  BY <1>1, TargetSame DEF MergeTargets
<1>2. QED BY <1>1 DEF MergeTargets

LEMMA NextMergeTargets == IInv /\ MergeTargets /\ [Next]_vars => MergeTargets'
<1> SUFFICES ASSUME IInv, MergeTargets, [Next]_vars PROVE MergeTargets'
  OBVIOUS
<1>1. /\ hc_state \in [HeapCtrl -> {"none", "live", "deleting"}]
      /\ last_mergable \in [HeapCtrl -> Addr \cup {NULL}]
      /\ next \in [ListHead -> Seq(CMemBlk)]
      /\ ListInv(next) /\ Tiles(next, GivenPags)
      /\ \A hc \in HeapCtrl : next_mem_blk(hc) \in ListHead /\ next[next_mem_blk(hc)] \in Seq(CMemBlk)
  BY Heads DEF IInv, TypeOK
<1>2. CASE BlkPoolAdd
  <2>1. \A hc \in HeapCtrl : next_mem_blk(hc) # mem_free_lst
    BY Heads
  <2>2. \A hc \in HeapCtrl : next'[next_mem_blk(hc)] = next[next_mem_blk(hc)]
    BY <1>1, <1>2, <2>1 DEF BlkPoolAdd
  <2>3. QED BY <1>2, <2>2, TargetSame DEF MergeTargets, BlkPoolAdd
<1>3. ASSUME NEW hc \in HeapCtrl, HeapCtrlInit(hc) PROVE MergeTargets'
  <2>1. next' = next
    BY <1>3, HeapCtrlInitSame
  <2>2. Target(hc)'
    BY <1>1, <1>3 DEF HeapCtrlInit, Target
  <2>3. QED BY <1>1, <1>3, <2>1, <2>2, MergeTargetsStep DEF HeapCtrlInit
<1>4. ASSUME NEW hc \in HeapCtrl, NEW n \in Requests, MAllocBig(hc, n) PROVE MergeTargets'
  <2>1. PICK r \in MemPagAlloc(n) :
          /\ next' = [r.next EXCEPT ![next_mem_blk(hc)] = Append(@, Signed(r.blk, TRUE))]
          /\ UNCHANGED <<hc_state, last_mergable>>
    BY <1>4 DEF MAllocBig, MemPagTaskAlloc
  <2>2. n \in 1 .. NPags
    BY SizeAssumption
  <2>3. /\ next'[next_mem_blk(hc)] = Append(next[next_mem_blk(hc)], Signed(r.blk, TRUE))
        /\ \A hd \in HeapCtrl \ {hc} : next'[next_mem_blk(hd)] = next[next_mem_blk(hd)]
    BY <1>1, <2>1, <2>2, QueueTiles
  <2>4. Signed(r.blk, TRUE) \in CMemBlk
    BY <1>1, <2>2, AllocTiles, SignedBlk
  <2>5. \A i \in DOMAIN next[next_mem_blk(hc)] :
          /\ i \in DOMAIN next'[next_mem_blk(hc)]
          /\ next'[next_mem_blk(hc)][i] = next[next_mem_blk(hc)][i]
    <3> DEFINE q == next[next_mem_blk(hc)]
               m == Signed(r.blk, TRUE)
    <3>1. q \in Seq(CMemBlk) /\ m \in CMemBlk
      BY <1>1, <2>4
    <3> HIDE DEF q, m
    <3>2. \A i \in DOMAIN q : i \in DOMAIN Append(q, m) /\ Append(q, m)[i] = q[i]
      BY <3>1, AppendKeeps
    <3>3. next'[next_mem_blk(hc)] = Append(q, m)
      BY <2>3 DEF q, m
    <3>4. \A i \in DOMAIN q : /\ i \in DOMAIN next'[next_mem_blk(hc)]
                              /\ next'[next_mem_blk(hc)][i] = q[i]
      BY <3>2, <3>3
    <3>5. QED BY <3>4 DEF q
  <2>6. Target(hc)'
    <3> SUFFICES ASSUME hc_state[hc] = "live", last_mergable[hc] # NULL
                 PROVE  \E i \in DOMAIN next'[next_mem_blk(hc)] :
                          /\ next'[next_mem_blk(hc)][i].addr = last_mergable[hc]
                          /\ ~next'[next_mem_blk(hc)][i].big
      BY <2>1 DEF Target
    <3>1. PICK i \in DOMAIN next[next_mem_blk(hc)] :
            /\ next[next_mem_blk(hc)][i].addr = last_mergable[hc]
            /\ ~next[next_mem_blk(hc)][i].big
      BY DEF MergeTargets, Target
    <3>2. QED BY <2>5, <3>1
  <2>7. QED BY <2>1, <2>3, <2>6, MergeTargetsStep
<1>5. ASSUME NEW hc \in HeapCtrl, NEW n \in ChunkPags, MAllocChunk(hc, n) PROVE MergeTargets'
  <2> DEFINE q == next[next_mem_blk(hc)]
             Merge(r, k) == /\ Mergable(hc, k, r.blk)
                            /\ next' = [r.next EXCEPT ![next_mem_blk(hc)] =
                                 Append(RemoveAt(@, k), Joined(Signed(r.blk, FALSE), q[k]))]
             NoMerge(r) == next' = [r.next EXCEPT ![next_mem_blk(hc)] =
                                      Append(@, Signed(r.blk, FALSE))]
  <2>1. PICK r \in MemPagAlloc(n) :
          /\ (\E k \in DOMAIN q : Merge(r, k)) \/ NoMerge(r)
          /\ last_mergable' = [last_mergable EXCEPT ![hc] = r.blk.addr]
          /\ UNCHANGED hc_state
    BY <1>5 DEF MAllocChunk, MemPagTaskAlloc
  <2>2. n \in 1 .. NPags
    BY SizeAssumption
  <2>3. r.blk \in CMemBlk
    BY <1>1, <2>2, AllocTiles
  <2>4. /\ \E t \in Seq(CMemBlk) : \E m \in CMemBlk :
             next'[next_mem_blk(hc)] = Append(t, m) /\ m.addr = r.blk.addr /\ m.big = FALSE
        /\ \A hd \in HeapCtrl \ {hc} : next'[next_mem_blk(hd)] = next[next_mem_blk(hd)]
    <3>1. CASE NoMerge(r)
      <4>1. /\ next'[next_mem_blk(hc)] = Append(q, Signed(r.blk, FALSE))
            /\ \A hd \in HeapCtrl \ {hc} : next'[next_mem_blk(hd)] = next[next_mem_blk(hd)]
        BY <1>1, <2>2, <3>1, QueueTiles
      <4>2. /\ Signed(r.blk, FALSE) \in CMemBlk /\ Signed(r.blk, FALSE).addr = r.blk.addr
            /\ Signed(r.blk, FALSE).big = FALSE
        BY <2>3, SignedBlk
      <4>3. QED BY <1>1, <4>1, <4>2
    <3>2. CASE \E k \in DOMAIN q : Merge(r, k)
      <4>1. PICK k \in DOMAIN q : Merge(r, k)
        BY <3>2
      <4> DEFINE m == Joined(Signed(r.blk, FALSE), q[k])
      <4>2. /\ m \in CMemBlk /\ m.addr = r.blk.addr /\ m.big = FALSE
            /\ next'[next_mem_blk(hc)] = Append(RemoveAt(q, k), m)
            /\ \A hd \in HeapCtrl \ {hc} : next'[next_mem_blk(hd)] = next[next_mem_blk(hd)]
        BY ZenonT(60), <1>1, <2>2, <4>1, MergeTiles
      <4>3. RemoveAt(q, k) \in Seq(CMemBlk)
        BY <1>1, RemoveAtElements
      <4>4. QED BY <4>2, <4>3
    <3>3. QED BY <2>1, <3>1, <3>2
  <2>5. PICK t \in Seq(CMemBlk) : \E m \in CMemBlk :
          next'[next_mem_blk(hc)] = Append(t, m) /\ m.addr = r.blk.addr /\ m.big = FALSE
    BY <2>4
  <2>6. PICK m \in CMemBlk :
          next'[next_mem_blk(hc)] = Append(t, m) /\ m.addr = r.blk.addr /\ m.big = FALSE
    BY <2>5
  <2>7. /\ Len(t) + 1 \in DOMAIN next'[next_mem_blk(hc)]
        /\ next'[next_mem_blk(hc)][Len(t) + 1] = m
    <3>1. Len(t) + 1 \in DOMAIN Append(t, m) /\ Append(t, m)[Len(t) + 1] = m
      BY AppendKeeps
    <3>2. QED BY <2>6, <3>1
  <2>8. last_mergable'[hc] = r.blk.addr /\ \A hd \in HeapCtrl \ {hc} : last_mergable'[hd] = last_mergable[hd]
    BY <1>1, <2>1
  <2>9. Target(hc)'
    BY <2>6, <2>7, <2>8 DEF Target
  <2>10. QED BY <2>1, <2>4, <2>8, <2>9, MergeTargetsStep
<1>6. ASSUME NEW hc \in HeapCtrl, NEW k \in DOMAIN next[next_mem_blk(hc)], FreeBig(hc, k)
      PROVE  MergeTargets'
  <2> DEFINE q == next[next_mem_blk(hc)]
  <2>1. /\ next'[next_mem_blk(hc)] = RemoveAt(q, k)
        /\ \A hd \in HeapCtrl \ {hc} : next'[next_mem_blk(hd)] = next[next_mem_blk(hd)]
        /\ UNCHANGED <<hc_state, last_mergable>>
    BY <1>6, FreeTiles DEF FreeBig
  <2>2. q \in Seq(CMemBlk) /\ q[k].big
    BY <1>1, <1>6 DEF FreeBig
  <2>3. Target(hc)'
    <3> SUFFICES ASSUME hc_state[hc] = "live", last_mergable[hc] # NULL
                 PROVE  \E i \in DOMAIN RemoveAt(q, k) : /\ RemoveAt(q, k)[i].addr = last_mergable[hc]
                                                         /\ ~RemoveAt(q, k)[i].big
      BY <2>1 DEF Target
    <3>1. PICK j \in DOMAIN q : q[j].addr = last_mergable[hc] /\ ~q[j].big
      BY DEF MergeTargets, Target
    <3>2. j # k
      BY <2>2, <3>1
    <3>3. PICK i \in DOMAIN RemoveAt(q, k) : RemoveAt(q, k)[i] = q[j]
      BY <2>2, <3>2, RemoveKeeps
    <3>4. QED BY <3>1, <3>3
  <2>4. QED BY <2>1, <2>3, MergeTargetsStep
<1>7. ASSUME NEW hc \in HeapCtrl, HeapCtrlDelStart(hc) PROVE MergeTargets'
  <2>1. Target(hc)'
    BY <1>1, <1>7 DEF HeapCtrlDelStart, Target
  <2>2. QED BY <1>1, <1>7, <2>1, MergeTargetsStep DEF HeapCtrlDelStart
<1>8. ASSUME NEW hc \in HeapCtrl, HeapCtrlDelBlk(hc) PROVE MergeTargets'
  <2>1. next[next_mem_blk(hc)] \in Seq(CMemBlk) /\ next[next_mem_blk(hc)] # <<>>
    BY <1>1, <1>8 DEF HeapCtrlDelBlk
  <2>2. 1 \in DOMAIN next[next_mem_blk(hc)]
    BY <2>1
  <2>3. /\ \A hd \in HeapCtrl \ {hc} : next'[next_mem_blk(hd)] = next[next_mem_blk(hd)]
        /\ UNCHANGED <<hc_state, last_mergable>>
    BY <1>8, <2>2, FreeTiles DEF HeapCtrlDelBlk
  <2>4. Target(hc)'
    BY <1>8, <2>3 DEF HeapCtrlDelBlk, Target
  <2>5. QED BY <2>3, <2>4, MergeTargetsStep
<1>9. ASSUME NEW hc \in HeapCtrl, HeapCtrlDelEnd(hc) PROVE MergeTargets'
  <2>1. Target(hc)'
    BY <1>1, <1>9 DEF HeapCtrlDelEnd, Target
  <2>2. QED BY <1>1, <1>9, <2>1, MergeTargetsStep DEF HeapCtrlDelEnd
<1>10. CASE UNCHANGED vars
  BY <1>10, TargetSame DEF MergeTargets, vars
<1>11. QED
  BY <1>2, <1>3, <1>4, <1>5, <1>6, <1>7, <1>8, <1>9, <1>10 DEF Next

\* A queue holds signed blocks only, and a merge never adds memory that was
\* given back: last_mergable is a block of the queue that Free leaves there.
THEOREM QueuesAreSound ==
  ASSUME ChunksDisjoint
  PROVE  Spec => []QueuesSound
<1>1. Init => MergeTargets
  BY DEF Init, MergeTargets, Target
<1>2. IInv /\ MergeTargets => QueuesSound
  <2> SUFFICES ASSUME IInv, MergeTargets PROVE QueuesSound
    OBVIOUS
  <2>1. ASSUME NEW hc \in HeapCtrl, NEW i \in DOMAIN next[next_mem_blk(hc)]
        PROVE  next[next_mem_blk(hc)][i].mb_signature = "used"
    <3>1. next_mem_blk(hc) \in ListHead /\ next_mem_blk(hc) \in UsedHead
      BY Heads
    <3>2. Fit(next_mem_blk(hc), next[next_mem_blk(hc)][i])
      BY <2>1, <3>1 DEF IInv, ListInv
    <3>3. QED BY <3>1, <3>2 DEF Fit
  <2>2. QED BY <2>1 DEF MergeTargets, Target, QueuesSound
<1>3. QED BY <1>1, <1>2, Invariance, NextMergeTargets, PTL DEF Spec

-----------------------------------------------------------------------------
(***************************************************************************)
(* The refinement: a step of MemPag is a step of PagePool, or changes      *)
(* neither the memory given nor what the heap controls own.                *)
(***************************************************************************)
LEMMA OwnedAppend ==
  ASSUME NEW q \in Seq(CMemBlk), NEW m \in CMemBlk
  PROVE  Owned(Append(q, m)) = Owned(q) \cup {Extent(m)}
<1> DEFINE a == Append(q, m)
<1>1. /\ DOMAIN a = 1 .. Len(q) + 1 /\ DOMAIN q = 1 .. Len(q) /\ Len(q) \in Nat
      /\ a[Len(q) + 1] = m /\ \A i \in 1 .. Len(q) : a[i] = q[i]
  OBVIOUS
<1>2. 1 .. Len(q) + 1 = (1 .. Len(q)) \cup {Len(q) + 1}
  BY <1>1
<1> HIDE DEF a
<1>3. DOMAIN a = DOMAIN q \cup {Len(q) + 1} /\ \A i \in DOMAIN q : a[i] = q[i]
  BY <1>1, <1>2
<1>4. Owned(a) = Owned(q) \cup {Extent(m)}
  BY <1>1, <1>3 DEF Owned
<1>5. QED BY <1>4 DEF a

LEMMA OwnedRemove ==
  ASSUME NEW q \in Seq(CMemBlk), NEW k \in DOMAIN q,
         \A i \in DOMAIN q : i # k => q[i].addr # q[k].addr
  PROVE  Owned(RemoveAt(q, k)) = Owned(q) \ {Extent(q[k])}
<1> DEFINE a == RemoveAt(q, k)
<1>1. /\ DOMAIN a = 1 .. Len(q) - 1 /\ DOMAIN q = 1 .. Len(q) /\ Len(q) \in Nat
      /\ \A i \in 1 .. Len(q) - 1 : a[i] = IF i < k THEN q[i] ELSE q[i + 1]
  BY RemoveAtElements
<1> HIDE DEF a
<1>2. \A i \in DOMAIN a : \E j \in DOMAIN q : j # k /\ a[i] = q[j]
  <2> TAKE i \in DOMAIN a
  <2>1. CASE i < k
    BY <1>1, <2>1
  <2>2. CASE i >= k
    <3>1. i + 1 \in DOMAIN q /\ i + 1 # k /\ a[i] = q[i + 1]
      BY <1>1, <2>2
    <3>2. QED BY <3>1
  <2>3. QED BY <1>1, <2>1, <2>2
<1>3. \A j \in DOMAIN q : j # k => \E i \in DOMAIN a : a[i] = q[j]
  <2> SUFFICES ASSUME NEW j \in DOMAIN q, j # k
               PROVE  \E i \in DOMAIN a : a[i] = q[j]
    OBVIOUS
  <2>1. CASE j < k
    BY <1>1, <2>1
  <2>2. CASE j > k
    <3>1. j - 1 \in DOMAIN a /\ a[j - 1] = q[j]
      BY <1>1, <2>2
    <3>2. QED BY <3>1
  <2>3. QED BY <1>1, <2>1, <2>2
<1>4. \A j \in DOMAIN q : j # k => Extent(q[j]) # Extent(q[k])
  BY DEF Extent
<1>5. Owned(a) = Owned(q) \ {Extent(q[k])}
  BY <1>2, <1>3, <1>4 DEF Owned
<1>6. QED BY <1>5 DEF a

\* Blocks of a queue start at different addresses.
LEMMA AddrsDiffer ==
  ASSUME NEW nx, ListInv(nx), NEW l \in ListHead, NEW i \in DOMAIN nx[l],
         NEW j \in DOMAIN nx[l], i # j
  PROVE  nx[l][i].addr # nx[l][j].addr
<1>1. nx[l][i] \in CMemBlk /\ nx[l][j] \in CMemBlk
  BY DEF ListInv
<1>2. PagsOf(nx[l][i]) \cap PagsOf(nx[l][j]) = {}
  BY DEF ListInv
<1>3. QED BY <1>1, <1>2, PagsOfBlock

\* The extent of a block is a block of PagePool with the same pages.
LEMMA ExtentBlock ==
  ASSUME NEW b, b.addr \in Addr, b.pags \in 1 .. NPags, b.addr + b.pags <= NPags
  PROVE  /\ Extent(b) \in Pool!Block
         /\ Extent(b).addr = b.addr /\ Extent(b).pags = b.pags
         /\ Pool!PagsOf(Extent(b)) = PagsOf(b)
  BY DEF Extent, Pool!Block, Pool!PagsOf, PagsOf, Addr

\* A block that MemPagAlloc takes is owned by nobody.
LEMMA TakenUnowned ==
  ASSUME IInv, NEW n \in 1 .. NPags, NEW r \in MemPagAlloc(n)
  PROVE  Extent(r.blk) \in Pool!Block /\ Pool!Unowned(Extent(r.blk))
<1>1. /\ Tiles(r.next, GivenPags \ PagsOf(r.blk)) /\ PagsOf(r.blk) \subseteq GivenPags
      /\ r.blk \in CMemBlk /\ r.blk.addr + r.blk.pags <= NPags
      /\ \A hc \in HeapCtrl : r.next[next_mem_blk(hc)] = next[next_mem_blk(hc)]
  BY AllocTiles DEF IInv
<1>2. Extent(r.blk) \in Pool!Block /\ Pool!PagsOf(Extent(r.blk)) = PagsOf(r.blk)
  BY <1>1, ExtentBlock DEF CMemBlk
<1>3. ASSUME NEW hc \in HeapCtrl, NEW c \in Owned(next[next_mem_blk(hc)])
      PROVE  PagsOf(r.blk) \cap Pool!PagsOf(c) = {}
  <2> DEFINE q == next[next_mem_blk(hc)]
  <2>1. PICK i \in DOMAIN q : c = Extent(q[i])
    BY <1>3 DEF Owned
  <2>2. PagsOf(q[i]) \subseteq GivenPags \ PagsOf(r.blk)
    BY <1>1, Heads DEF Tiles
  <2>3. Pool!PagsOf(c) = PagsOf(q[i])
    BY <2>1 DEF Extent, Pool!PagsOf, PagsOf
  <2>4. QED BY <2>2, <2>3
<1>4. QED BY <1>1, <1>2, <1>3 DEF Pool!Unowned

OwnMap == [hc \in HeapCtrl |-> Owned(next[next_mem_blk(hc)])]

\* When one queue changes, so does what one heap control owns.
LEMMA OwnMapStep ==
  ASSUME NEW hc \in HeapCtrl, NEW o, Owned(next'[next_mem_blk(hc)]) = o,
         \A hd \in HeapCtrl \ {hc} : next'[next_mem_blk(hd)] = next[next_mem_blk(hd)]
  PROVE  OwnMap' = [OwnMap EXCEPT ![hc] = o]
  BY DEF OwnMap

LEMMA PoolGrow ==
  ASSUME ChunksDisjoint, IInv, BlkPoolAdd
  PROVE  Pool!Grow
<1> USE BsrAssumption, SizeAssumption
<1> DEFINE c == BootChunks[chunks + 1]
           S == [addr : Addr, pags : 1 .. NPags]
<1>1. chunks \in Nat /\ chunks + 1 \in 1 .. Len(BootChunks) /\ Len(BootChunks) \in Nat
  <2>1. Len(BootChunks) \in Nat
    OBVIOUS
  <2>2. QED BY <2>1 DEF IInv, TypeOK, BlkPoolAdd
<1>2. BootChunks \in Seq(S)
  OBVIOUS
<1> HIDE DEF S
<1>3. chunks + 1 \in DOMAIN BootChunks /\ 1 .. chunks \subseteq DOMAIN BootChunks
  BY <1>1, <1>2
<1>4. c \in S /\ c.addr + c.pags <= NPags
  BY <1>2, <1>3
<1> HIDE DEF c
<1>5. Extent(c) \in Pool!Block /\ Pool!PagsOf(Extent(c)) = PagsOf(c)
  BY <1>4, ExtentBlock DEF S
<1>6. GivenPags' = GivenPags \cup PagsOf(c)
  <2>1. GivenPags' = UNION {PagsOf(BootChunks[i]) : i \in 1 .. chunks + 1}
    BY DEF GivenPags, BlkPoolAdd
  <2>2. 1 .. chunks + 1 = (1 .. chunks) \cup {chunks + 1}
    BY <1>1
  <2>3. UNION {PagsOf(BootChunks[i]) : i \in (1 .. chunks) \cup {chunks + 1}}
          = GivenPags \cup PagsOf(BootChunks[chunks + 1])
    BY DEF GivenPags
  <2>4. QED BY <2>1, <2>2, <2>3 DEF c
<1>7. PagsOf(c) \cap GivenPags = {}
  <2>1. \A i \in 1 .. chunks : i \in DOMAIN BootChunks /\ i # chunks + 1
    BY <1>1, <1>3
  <2>2. \A i \in 1 .. chunks : PagsOf(c) \cap PagsOf(BootChunks[i]) = {}
    BY <1>3, <2>1 DEF ChunksDisjoint, c
  <2>3. QED BY <2>2 DEF GivenPags
<1>8. OwnMap' = OwnMap
  <2>1. \A hc \in HeapCtrl : next_mem_blk(hc) \in ListHead /\ next_mem_blk(hc) # mem_free_lst
    BY Heads
  <2>2. next \in [ListHead -> Seq(CMemBlk)]
    BY DEF IInv, TypeOK
  <2>3. \A hc \in HeapCtrl : next'[next_mem_blk(hc)] = next[next_mem_blk(hc)]
    BY <2>1, <2>2 DEF BlkPoolAdd
  <2>4. QED BY <2>3 DEF OwnMap
<1>9. QED BY <1>5, <1>6, <1>7, <1>8 DEF Pool!Grow, OwnMap

LEMMA PoolAllocBig ==
  ASSUME IInv, NEW hc \in HeapCtrl, NEW n \in Requests \cup ChunkPags, NEW big \in BOOLEAN,
         NEW r \in MemPagAlloc(n), UNCHANGED pool,
         next' = [r.next EXCEPT ![next_mem_blk(hc)] = Append(@, Signed(r.blk, big))]
  PROVE  Pool!Alloc(hc)
<1> DEFINE q == next[next_mem_blk(hc)]
           b == Signed(r.blk, big)
<1>1. n \in 1 .. NPags /\ ListInv(next) /\ Tiles(next, GivenPags)
  BY SizeAssumption DEF IInv
<1>2. /\ next'[next_mem_blk(hc)] = Append(q, b)
      /\ \A hd \in HeapCtrl \ {hc} : next'[next_mem_blk(hd)] = next[next_mem_blk(hd)]
  BY <1>1, QueueTiles
<1>3. b \in CMemBlk /\ Extent(b) = Extent(r.blk)
  BY <1>1, AllocTiles, SignedBlk DEF Extent
<1>4. q \in Seq(CMemBlk)
  BY <1>1, Heads DEF ListInv
<1> HIDE DEF q, b
<1>5. Owned(next'[next_mem_blk(hc)]) = Owned(q) \cup {Extent(r.blk)}
  BY <1>2, <1>3, <1>4, OwnedAppend
<1>6. OwnMap' = [OwnMap EXCEPT ![hc] = Owned(q) \cup {Extent(r.blk)}]
  BY <1>2, <1>5, OwnMapStep
<1>7. OwnMap[hc] = Owned(q)
  BY DEF OwnMap, q
<1>8. Extent(r.blk) \in Pool!Block /\ Pool!Unowned(Extent(r.blk))
  BY <1>1, TakenUnowned
<1>9. GivenPags' = GivenPags
  BY GivenSame DEF pool
<1>10. QED BY <1>6, <1>7, <1>8, <1>9 DEF Pool!Alloc, OwnMap

LEMMA PoolAllocJoined ==
  ASSUME IInv, NEW hc \in HeapCtrl, NEW n \in ChunkPags,
         NEW r \in MemPagAlloc(n), UNCHANGED pool,
         NEW k \in DOMAIN next[next_mem_blk(hc)], Mergable(hc, k, r.blk),
         next' = [r.next EXCEPT ![next_mem_blk(hc)] =
                    Append(RemoveAt(@, k), Joined(Signed(r.blk, FALSE), next[next_mem_blk(hc)][k]))]
  PROVE  Pool!AllocJoined(hc)
<1> DEFINE q == next[next_mem_blk(hc)]
           c == q[k]
           m == Joined(Signed(r.blk, FALSE), c)
           b == Extent(r.blk)
<1>1. n \in 1 .. NPags /\ ListInv(next) /\ Tiles(next, GivenPags)
  BY SizeAssumption DEF IInv
<1>2. /\ m \in CMemBlk /\ m.addr = r.blk.addr /\ m.pags = r.blk.pags + c.pags
      /\ next'[next_mem_blk(hc)] = Append(RemoveAt(q, k), m)
      /\ \A hd \in HeapCtrl \ {hc} : next'[next_mem_blk(hd)] = next[next_mem_blk(hd)]
  BY <1>1, MergeTiles
<1>3. q \in Seq(CMemBlk) /\ k \in DOMAIN q /\ \A i \in DOMAIN q : i # k => q[i].addr # q[k].addr
  BY <1>1, Heads, AddrsDiffer DEF ListInv
<1>4. c.addr = r.blk.addr + r.blk.pags
  BY DEF Mergable
<1> HIDE DEF q, m
<1>5. Owned(next'[next_mem_blk(hc)]) = (Owned(q) \ {Extent(c)}) \cup {Extent(m)}
  <2>1. Owned(RemoveAt(q, k)) = Owned(q) \ {Extent(c)}
    BY <1>3, OwnedRemove
  <2>2. RemoveAt(q, k) \in Seq(CMemBlk)
    BY <1>3, RemoveAtElements
  <2>3. QED BY <1>2, <2>1, <2>2, OwnedAppend
<1>6. OwnMap' = [OwnMap EXCEPT ![hc] = (Owned(q) \ {Extent(c)}) \cup {Extent(m)}]
  BY <1>2, <1>5, OwnMapStep
<1>7. OwnMap[hc] = Owned(q)
  BY DEF OwnMap, q
<1>8. b \in Pool!Block /\ Pool!Unowned(b)
  BY <1>1, TakenUnowned
<1>9. Extent(c) \in Owned(q) /\ Extent(c).addr = b.addr + b.pags
  BY <1>3, <1>4 DEF Owned, Extent
<1>10. Extent(m) = [b EXCEPT !.pags = @ + Extent(c).pags]
  BY <1>2 DEF Extent
<1>11. GivenPags' = GivenPags
  BY GivenSame DEF pool
<1> HIDE DEF b, c
<1>12. QED BY <1>6, <1>7, <1>8, <1>9, <1>10, <1>11 DEF Pool!AllocJoined, OwnMap

LEMMA PoolRelease ==
  ASSUME IInv, NEW hc \in HeapCtrl, NEW k \in DOMAIN next[next_mem_blk(hc)],
         MemPagTaskFree(hc, k)
  PROVE  Pool!Release(hc)
<1> DEFINE q == next[next_mem_blk(hc)]
<1>1. ListInv(next)
  BY DEF IInv
<1>2. /\ next'[next_mem_blk(hc)] = RemoveAt(q, k)
      /\ \A hd \in HeapCtrl \ {hc} : next'[next_mem_blk(hd)] = next[next_mem_blk(hd)]
      /\ UNCHANGED pool
  BY FreeTiles
<1>3. q \in Seq(CMemBlk) /\ k \in DOMAIN q /\ \A i \in DOMAIN q : i # k => q[i].addr # q[k].addr
  BY <1>1, Heads, AddrsDiffer DEF ListInv
<1> HIDE DEF q
<1>4. Owned(next'[next_mem_blk(hc)]) = Owned(q) \ {Extent(q[k])}
  BY <1>2, <1>3, OwnedRemove
<1>5. OwnMap' = [OwnMap EXCEPT ![hc] = Owned(q) \ {Extent(q[k])}]
  BY <1>2, <1>4, OwnMapStep
<1>6. OwnMap[hc] = Owned(q) /\ Extent(q[k]) \in Owned(q)
  BY <1>3 DEF OwnMap, q, Owned
<1>7. GivenPags' = GivenPags
  BY <1>2, GivenSame DEF pool
<1>8. QED BY <1>5, <1>6, <1>7 DEF Pool!Release, OwnMap

\* Steps of which PagePool sees nothing.
LEMMA PoolSame ==
  ASSUME UNCHANGED <<next, chunks>>
  PROVE  UNCHANGED Pool!vars
<1>1. OwnMap' = OwnMap
  BY DEF OwnMap
<1>2. QED BY <1>1, GivenSame DEF OwnMap, Pool!vars

\* The page allocator implements PagePool: splitting, merging, rounding and
\* filing free memory never show to those who own blocks.
THEOREM Refinement ==
  ASSUME ChunksDisjoint
  PROVE  Spec => ImplementsPagePool
<1>1. Init => Pool!Init
  <2> SUFFICES ASSUME Init PROVE Pool!Init
    OBVIOUS
  <2>1. \A hc \in HeapCtrl : Owned(next[next_mem_blk(hc)]) = {}
    BY Heads DEF Init, Owned
  <2>2. GivenPags = {}
    BY DEF Init, GivenPags
  <2>3. QED BY <2>1, <2>2 DEF Pool!Init
<1>2. IInv /\ [Next]_vars => [Pool!Next]_Pool!vars
  <2> SUFFICES ASSUME IInv, [Next]_vars PROVE Pool!Next \/ UNCHANGED Pool!vars
    OBVIOUS
  <2>1. CASE BlkPoolAdd
    BY <2>1, PoolGrow DEF Pool!Next
  <2>2. ASSUME NEW hc \in HeapCtrl, HeapCtrlInit(hc) PROVE UNCHANGED Pool!vars
    BY <2>2, HeapCtrlInitSame, PoolSame DEF HeapCtrlInit, pool
  <2>3. ASSUME NEW hc \in HeapCtrl, NEW n \in Requests, MAllocBig(hc, n) PROVE Pool!Next
    <3>1. Pool!Alloc(hc)
      BY <2>3, PoolAllocBig DEF MAllocBig, MemPagTaskAlloc
    <3>2. QED BY <3>1 DEF Pool!Next
  <2>4. ASSUME NEW hc \in HeapCtrl, NEW n \in ChunkPags, MAllocChunk(hc, n) PROVE Pool!Next
    <3>1. Pool!Alloc(hc) \/ Pool!AllocJoined(hc)
      BY <2>4, PoolAllocBig, PoolAllocJoined DEF MAllocChunk, MemPagTaskAlloc
    <3>2. QED BY <3>1 DEF Pool!Next
  <2>5. ASSUME NEW hc \in HeapCtrl, NEW k \in DOMAIN next[next_mem_blk(hc)], FreeBig(hc, k)
        PROVE  Pool!Next
    BY <2>5, PoolRelease DEF FreeBig, Pool!Next
  <2>6. ASSUME NEW hc \in HeapCtrl, HeapCtrlDelStart(hc) PROVE UNCHANGED Pool!vars
    BY <2>6, PoolSame DEF HeapCtrlDelStart, pool
  <2>7. ASSUME NEW hc \in HeapCtrl, HeapCtrlDelBlk(hc) PROVE Pool!Next
    <3>1. next[next_mem_blk(hc)] \in Seq(CMemBlk) /\ next[next_mem_blk(hc)] # <<>>
      BY <2>7, Heads DEF HeapCtrlDelBlk, IInv, TypeOK
    <3>2. 1 \in DOMAIN next[next_mem_blk(hc)]
      BY <3>1
    <3>3. Pool!Release(hc)
      BY <2>7, <3>2, PoolRelease DEF HeapCtrlDelBlk
    <3>4. QED BY <3>3 DEF Pool!Next
  <2>8. ASSUME NEW hc \in HeapCtrl, HeapCtrlDelEnd(hc) PROVE UNCHANGED Pool!vars
    BY <2>8, PoolSame DEF HeapCtrlDelEnd, pool
  <2>9. CASE UNCHANGED vars
    BY <2>9, PoolSame DEF vars
  <2>10. QED
    BY <2>1, <2>2, <2>3, <2>4, <2>5, <2>6, <2>7, <2>8, <2>9 DEF Next
<1>3. QED BY <1>1, <1>2, Invariance, PTL DEF Spec, ImplementsPagePool, Pool!Spec

-----------------------------------------------------------------------------
(***************************************************************************)
(* The byte counters.  A step that changes a counter adds the pages of one *)
(* block to those that the heap controls own, or takes them away; that the *)
(* block was not owned before, or was owned once, is what the account of   *)
(* pages says.                                                             *)
(***************************************************************************)
OwnedPags == UNION {QueuePags(hc) : hc \in HeapCtrl}

\* A run of pages in the address space, and how many they are.
LEMMA PagsCount ==
  ASSUME NEW b, b.addr \in Addr, b.pags \in 1 .. NPags
  PROVE  IsFiniteSet(PagsOf(b)) /\ Cardinality(PagsOf(b)) = b.pags
<1> DEFINE x == b.addr
           y == b.addr + b.pags - 1
<1>1. x \in Int /\ y \in Int /\ x <= y /\ y - x + 1 = b.pags
  BY BsrAssumption DEF Addr
<1>2. PagsOf(b) = x .. y
  BY DEF PagsOf
<1> HIDE DEF x, y
<1>3. IsFiniteSet(x .. y) /\ Cardinality(x .. y) = IF x > y THEN 0 ELSE y - x + 1
  BY <1>1, FS_Interval
<1>4. QED BY <1>1, <1>2, <1>3

\* Pages put to a set of pages that has none of them, or taken from one that
\* has them all.
LEMMA CountAdd ==
  ASSUME NEW S, IsFiniteSet(S), NEW b, b.addr \in Addr, b.pags \in 1 .. NPags,
         PagsOf(b) \cap S = {}
  PROVE  Cardinality(S \cup PagsOf(b)) = Cardinality(S) + b.pags
<1>1. IsFiniteSet(PagsOf(b)) /\ Cardinality(PagsOf(b)) = b.pags
  BY PagsCount
<1>2. Cardinality(S \cup PagsOf(b)) =
        Cardinality(S) + Cardinality(PagsOf(b)) - Cardinality(S \cap PagsOf(b))
  BY <1>1, FS_Union
<1>3. S \cap PagsOf(b) = {} /\ Cardinality({}) = 0
  BY FS_EmptySet
<1>4. Cardinality(S) \in Nat /\ b.pags \in Nat
  BY FS_CardinalityType, BsrAssumption
<1>5. Cardinality(S \cap PagsOf(b)) = 0
  BY <1>3, Zenon
<1> DEFINE x == Cardinality(S)
           y == Cardinality(S \cup PagsOf(b))
<1>6. y = x + b.pags - 0
  BY <1>1, <1>2, <1>5, Zenon
<1>7. x \in Nat /\ b.pags \in Nat
  BY <1>4
<1> HIDE DEF x, y
<1>8. y = x + b.pags
  BY <1>6, <1>7
<1>9. QED BY <1>8 DEF x, y

LEMMA CountRemove ==
  ASSUME NEW S, IsFiniteSet(S), NEW b, b.addr \in Addr, b.pags \in 1 .. NPags,
         PagsOf(b) \subseteq S
  PROVE  Cardinality(S \ PagsOf(b)) = Cardinality(S) - b.pags
<1>1. Cardinality(PagsOf(b)) = b.pags
  BY PagsCount
<1>2. Cardinality(S \ PagsOf(b)) = Cardinality(S) - Cardinality(S \cap PagsOf(b))
  BY FS_Difference
<1>3. S \cap PagsOf(b) = PagsOf(b)
  OBVIOUS
<1>4. QED BY <1>1, <1>2, <1>3

\* All the pages there are lie in the address space.
LEMMA PagsFinite ==
  ASSUME IInv
  PROVE  /\ IsFiniteSet(GivenPags) /\ IsFiniteSet(OwnedPags)
         /\ OwnedPags \subseteq GivenPags
         /\ \A hc \in HeapCtrl : /\ IsFiniteSet(QueuePags(hc))
                                 /\ QueuePags(hc) \subseteq OwnedPags
<1>1. GivenPags \subseteq Addr
  <2>1. ASSUME NEW i \in 1 .. chunks PROVE PagsOf(BootChunks[i]) \subseteq Addr
    <3> DEFINE c == BootChunks[i]
               S == [addr : Addr, pags : 1 .. NPags]
    <3>1. BootChunks \in Seq(S)
      BY SizeAssumption
    <3> HIDE DEF S
    <3>2. i \in DOMAIN BootChunks
      BY <3>1 DEF IInv, TypeOK
    <3>3. c \in S /\ c.addr + c.pags <= NPags
      BY <3>1, <3>2, SizeAssumption
    <3> HIDE DEF c
    <3>4. c.addr \in 0 .. NPags - 1 /\ c.pags \in 1 .. NPags /\ NPags \in Nat
      BY <3>3, BsrAssumption DEF S, Addr
    <3>5. PagsOf(c) \subseteq Addr
      BY <3>3, <3>4 DEF PagsOf, Addr
    <3>6. QED BY <3>5 DEF c
  <2>2. QED BY <2>1 DEF GivenPags
<1>2. IsFiniteSet(Addr)
  BY FS_Interval, BsrAssumption DEF Addr
<1>3. \A hc \in HeapCtrl : QueuePags(hc) \subseteq GivenPags
  BY Heads DEF IInv, Tiles, QueuePags
<1>4. OwnedPags \subseteq GivenPags /\ \A hc \in HeapCtrl : QueuePags(hc) \subseteq OwnedPags
  BY <1>3 DEF OwnedPags
<1>5. QED BY <1>1, <1>2, <1>4, FS_Subset

\* What a heap control owns shares no page with what another owns.
LEMMA OwnersDisjoint ==
  ASSUME IInv, NEW hc \in HeapCtrl, NEW hd \in HeapCtrl, hc # hd
  PROVE  QueuePags(hc) \cap QueuePags(hd) = {}
<1>1. next_mem_blk(hc) \in ListHead /\ next_mem_blk(hd) \in ListHead
  BY Heads
<1>2. next_mem_blk(hc) # next_mem_blk(hd)
  BY Heads DEF next_mem_blk
<1>3. \A i \in DOMAIN next[next_mem_blk(hc)], j \in DOMAIN next[next_mem_blk(hd)] :
        PagsOf(next[next_mem_blk(hc)][i]) \cap PagsOf(next[next_mem_blk(hd)][j]) = {}
  BY <1>1, <1>2 DEF IInv, ListInv
<1>4. QED BY <1>3 DEF QueuePags

\* The pages of the blocks of a queue, when a block joins it or leaves it.
SeqPags(q) == UNION {PagsOf(q[i]) : i \in DOMAIN q}

LEMMA SeqPagsOwned ==
  ASSUME NEW q
  PROVE  SeqPags(q) = UNION {PagsOf(e) : e \in Owned(q)}
<1>1. \A b : PagsOf(Extent(b)) = PagsOf(b)
  BY DEF PagsOf, Extent
<1>2. QED BY <1>1 DEF SeqPags, Owned

LEMMA SeqPagsAppend ==
  ASSUME NEW q \in Seq(CMemBlk), NEW m \in CMemBlk
  PROVE  SeqPags(Append(q, m)) = SeqPags(q) \cup PagsOf(m)
<1>1. Owned(Append(q, m)) = Owned(q) \cup {Extent(m)} /\ PagsOf(Extent(m)) = PagsOf(m)
  BY OwnedAppend DEF PagsOf, Extent
<1>2. QED BY <1>1, SeqPagsOwned

LEMMA SeqPagsRemove ==
  ASSUME NEW nx, ListInv(nx), NEW l \in ListHead, NEW k \in DOMAIN nx[l]
  PROVE  /\ SeqPags(RemoveAt(nx[l], k)) = SeqPags(nx[l]) \ PagsOf(nx[l][k])
         /\ PagsOf(nx[l][k]) \subseteq SeqPags(nx[l])
<1> DEFINE q == nx[l]
<1>1. q \in Seq(CMemBlk) /\ k \in DOMAIN q
  BY DEF ListInv
<1>2. \A i \in DOMAIN q : i # k =>
        q[i].addr # q[k].addr /\ PagsOf(q[i]) \cap PagsOf(q[k]) = {}
  BY AddrsDiffer DEF ListInv
<1> HIDE DEF q
<1>3. Owned(RemoveAt(q, k)) = Owned(q) \ {Extent(q[k])}
  BY <1>1, <1>2, OwnedRemove
<1>4. \A e \in Owned(q) : e # Extent(q[k]) => PagsOf(e) \cap PagsOf(q[k]) = {}
  <2> TAKE e \in Owned(q)
  <2>1. PICK i \in DOMAIN q : e = Extent(q[i])
    BY DEF Owned
  <2>2. PagsOf(e) = PagsOf(q[i])
    BY <2>1 DEF PagsOf, Extent
  <2>3. QED BY <1>2, <2>1, <2>2
<1>5. Extent(q[k]) \in Owned(q) /\ PagsOf(Extent(q[k])) = PagsOf(q[k])
  BY <1>1 DEF Owned, PagsOf, Extent
<1>6. SeqPags(RemoveAt(q, k)) = SeqPags(q) \ PagsOf(q[k]) /\ PagsOf(q[k]) \subseteq SeqPags(q)
  BY <1>3, <1>4, <1>5, SeqPagsOwned
<1>7. QED BY <1>6 DEF q

\* A heap control gets pages that nobody owns, and both counters grow by them.
LEMMA CountedGrow ==
  ASSUME IInv, UsedCounted, NEW hc \in HeapCtrl, hc_state[hc] # "none",
         UNCHANGED <<pool, hc_state>>,
         NEW b, b.addr \in Addr, b.pags \in 1 .. NPags, PagsOf(b) \cap OwnedPags = {},
         QueuePags(hc)' = QueuePags(hc) \cup PagsOf(b),
         \A hd \in HeapCtrl \ {hc} : QueuePags(hd)' = QueuePags(hd),
         used_u8s' = used_u8s + b.pags,
         hc_alloced' = [hc_alloced EXCEPT ![hc] = @ + b.pags]
  PROVE  UsedCounted'
<1>1. hc_state' = hc_state
  OBVIOUS
<1>2. OwnedPags' = OwnedPags \cup PagsOf(b)
  <2>1. OwnedPags' = UNION {QueuePags(hd)' : hd \in HeapCtrl}
    BY DEF OwnedPags
  <2>2. \A hd \in HeapCtrl : QueuePags(hd)' = IF hd = hc THEN QueuePags(hd) \cup PagsOf(b)
                                                         ELSE QueuePags(hd)
    OBVIOUS
  <2>3. QED BY <2>1, <2>2 DEF OwnedPags
<1>3. Cardinality(OwnedPags') = Cardinality(OwnedPags) + b.pags
  BY <1>2, PagsFinite, CountAdd
<1>4. Cardinality(QueuePags(hc)') = Cardinality(QueuePags(hc)) + b.pags
  BY PagsFinite, CountAdd
<1>5. hc_alloced \in [HeapCtrl -> Int]
  BY DEF IInv, TypeOK
<1>6. \A hd \in HeapCtrl : hc_alloced'[hd] = IF hd = hc THEN hc_alloced[hd] + b.pags
                                                      ELSE hc_alloced[hd]
  BY <1>5
<1>7. \A hd \in HeapCtrl : hc_state'[hd] # "none" =>
        hc_alloced'[hd] = Cardinality(QueuePags(hd)')
  BY <1>1, <1>4, <1>6 DEF UsedCounted
<1>8. used_u8s' = Cardinality(OwnedPags')
  BY <1>3 DEF UsedCounted, OwnedPags
<1>9. QED BY <1>7, <1>8 DEF UsedCounted, OwnedPags

\* A heap control gives pages back that it owns, and both counters shrink.
LEMMA CountedShrink ==
  ASSUME IInv, UsedCounted, NEW hc \in HeapCtrl, hc_state[hc] # "none",
         UNCHANGED <<pool, hc_state>>,
         NEW b, b.addr \in Addr, b.pags \in 1 .. NPags, PagsOf(b) \subseteq QueuePags(hc),
         QueuePags(hc)' = QueuePags(hc) \ PagsOf(b),
         \A hd \in HeapCtrl \ {hc} : QueuePags(hd)' = QueuePags(hd),
         used_u8s' = used_u8s - b.pags,
         hc_alloced' = [hc_alloced EXCEPT ![hc] = @ - b.pags]
  PROVE  UsedCounted'
<1>1. hc_state' = hc_state
  OBVIOUS
<1>2. OwnedPags' = OwnedPags \ PagsOf(b)
  <2>1. OwnedPags' = UNION {QueuePags(hd)' : hd \in HeapCtrl}
    BY DEF OwnedPags
  <2>2. \A hd \in HeapCtrl \ {hc} : QueuePags(hd) \cap PagsOf(b) = {}
    BY OwnersDisjoint
  <2>3. \A hd \in HeapCtrl : QueuePags(hd)' = QueuePags(hd) \ PagsOf(b)
    BY <2>2
  <2>4. QED BY <2>1, <2>3 DEF OwnedPags
<1>3. Cardinality(OwnedPags') = Cardinality(OwnedPags) - b.pags
  <2>1. IsFiniteSet(OwnedPags) /\ PagsOf(b) \subseteq OwnedPags
    BY PagsFinite DEF OwnedPags
  <2>2. QED BY <1>2, <2>1, CountRemove
<1>4. Cardinality(QueuePags(hc)') = Cardinality(QueuePags(hc)) - b.pags
  BY PagsFinite, CountRemove
<1>5. hc_alloced \in [HeapCtrl -> Int]
  BY DEF IInv, TypeOK
<1>6. \A hd \in HeapCtrl : hc_alloced'[hd] = IF hd = hc THEN hc_alloced[hd] - b.pags
                                                      ELSE hc_alloced[hd]
  BY <1>5
<1>7. \A hd \in HeapCtrl : hc_state'[hd] # "none" =>
        hc_alloced'[hd] = Cardinality(QueuePags(hd)')
  BY <1>1, <1>4, <1>6 DEF UsedCounted
<1>8. used_u8s' = Cardinality(OwnedPags')
  BY <1>3 DEF UsedCounted, OwnedPags
<1>9. QED BY <1>7, <1>8 DEF UsedCounted, OwnedPags

\* Queues that do not change keep their pages.
LEMMA QueuePagsSame ==
  ASSUME NEW hd \in HeapCtrl, next'[next_mem_blk(hd)] = next[next_mem_blk(hd)]
  PROVE  QueuePags(hd)' = QueuePags(hd)
  BY DEF QueuePags

\* Nothing but the state of a heap control changes, and one that begins to
\* exist has nothing and counts nothing.
LEMMA CountedState ==
  ASSUME UsedCounted, UNCHANGED <<next, pool, used_u8s>>,
         \A hd \in HeapCtrl : hc_state'[hd] # "none" =>
           \/ hc_state[hd] # "none" /\ hc_alloced'[hd] = hc_alloced[hd]
           \/ next[next_mem_blk(hd)] = <<>> /\ hc_alloced'[hd] = 0
  PROVE  UsedCounted'
<1>1. used_u8s' = used_u8s
  OBVIOUS
<1>2. \A hd \in HeapCtrl : QueuePags(hd)' = QueuePags(hd)
  BY QueuePagsSame
<1>3. UNION {QueuePags(hd)' : hd \in HeapCtrl} = UNION {QueuePags(hd) : hd \in HeapCtrl}
  BY <1>2
<1>4. \A hd \in HeapCtrl : hc_state'[hd] # "none" =>
        hc_alloced'[hd] = Cardinality(QueuePags(hd)')
  <2> SUFFICES ASSUME NEW hd \in HeapCtrl, hc_state'[hd] # "none"
               PROVE  hc_alloced'[hd] = Cardinality(QueuePags(hd))
    BY <1>2
  <2>1. CASE hc_state[hd] # "none" /\ hc_alloced'[hd] = hc_alloced[hd]
    BY <2>1 DEF UsedCounted
  <2>2. CASE next[next_mem_blk(hd)] = <<>> /\ hc_alloced'[hd] = 0
    <3>1. QueuePags(hd) = {}
      BY <2>2 DEF QueuePags
    <3>2. QED BY <2>2, <3>1, FS_EmptySet
  <2>3. QED BY <2>1, <2>2
<1>5. QED BY <1>1, <1>3, <1>4 DEF UsedCounted

\* The block that MemPagAlloc takes has a run of pages that nobody owns.
LEMMA TakenIsNew ==
  ASSUME IInv, NEW n \in 1 .. NPags, NEW r \in MemPagAlloc(n)
  PROVE  /\ r.blk.addr \in Addr /\ r.blk.pags \in 1 .. NPags
         /\ PagsOf(r.blk) \cap OwnedPags = {}
<1>1. /\ Tiles(r.next, GivenPags \ PagsOf(r.blk)) /\ r.blk \in CMemBlk
      /\ \A hc \in HeapCtrl : r.next[next_mem_blk(hc)] = next[next_mem_blk(hc)]
  BY AllocTiles DEF IInv
<1>2. \A hc \in HeapCtrl : QueuePags(hc) \subseteq GivenPags \ PagsOf(r.blk)
  BY <1>1, Heads DEF Tiles, QueuePags
<1>3. PagsOf(r.blk) \cap OwnedPags = {}
  BY <1>2 DEF OwnedPags
<1>4. QED BY <1>1, <1>3 DEF CMemBlk

LEMMA CountedBlkPoolAdd ==
  ASSUME IInv, UsedCounted, BlkPoolAdd
  PROVE  UsedCounted'
<1>1. \A hd \in HeapCtrl : QueuePags(hd)' = QueuePags(hd)
  <2>1. \A hd \in HeapCtrl : next_mem_blk(hd) \in ListHead /\ next_mem_blk(hd) # mem_free_lst
    BY Heads
  <2>2. next \in [ListHead -> Seq(CMemBlk)]
    BY DEF IInv, TypeOK
  <2>3. \A hd \in HeapCtrl : next'[next_mem_blk(hd)] = next[next_mem_blk(hd)]
    BY <2>1, <2>2 DEF BlkPoolAdd
  <2>4. QED BY <2>3, QueuePagsSame
<1>2. UNION {QueuePags(hd)' : hd \in HeapCtrl} = UNION {QueuePags(hd) : hd \in HeapCtrl}
  BY <1>1
<1>3. UNCHANGED <<used_u8s, hc_state, hc_alloced>>
  BY DEF BlkPoolAdd
<1>4. QED BY <1>1, <1>2, <1>3 DEF UsedCounted

\* A block taken and queued, alone or merged with one that was queued before.
LEMMA CountedQueue ==
  ASSUME IInv, UsedCounted, NEW hc \in HeapCtrl, NEW n \in Requests \cup ChunkPags,
         NEW big \in BOOLEAN, NEW r \in MemPagAlloc(n), MemPagTaskAlloc(hc, r.blk),
         next' = [r.next EXCEPT ![next_mem_blk(hc)] = Append(@, Signed(r.blk, big))]
  PROVE  UsedCounted'
<1> DEFINE q == next[next_mem_blk(hc)]
           b == Signed(r.blk, big)
<1>1. n \in 1 .. NPags /\ ListInv(next) /\ Tiles(next, GivenPags)
  BY SizeAssumption DEF IInv
<1>2. /\ next'[next_mem_blk(hc)] = Append(q, b)
      /\ \A hd \in HeapCtrl \ {hc} : next'[next_mem_blk(hd)] = next[next_mem_blk(hd)]
  BY <1>1, QueueTiles
<1>3. b \in CMemBlk /\ PagsOf(b) = PagsOf(r.blk)
  BY <1>1, AllocTiles, SignedBlk
<1>4. q \in Seq(CMemBlk)
  BY <1>1, Heads DEF ListInv
<1>5. QueuePags(hc)' = QueuePags(hc) \cup PagsOf(r.blk)
  <2>1. QueuePags(hc)' = SeqPags(Append(q, b)) /\ QueuePags(hc) = SeqPags(q)
    BY <1>2 DEF QueuePags, SeqPags
  <2> HIDE DEF q, b
  <2>2. QED BY <1>3, <1>4, <2>1, SeqPagsAppend
<1>6. \A hd \in HeapCtrl \ {hc} : QueuePags(hd)' = QueuePags(hd)
  BY <1>2, QueuePagsSame
<1>7. /\ r.blk.addr \in Addr /\ r.blk.pags \in 1 .. NPags
      /\ PagsOf(r.blk) \cap OwnedPags = {}
  BY <1>1, TakenIsNew
<1>8. /\ hc_state[hc] # "none" /\ UNCHANGED <<pool, hc_state>>
      /\ used_u8s' = used_u8s + r.blk.pags
      /\ hc_alloced' = [hc_alloced EXCEPT ![hc] = @ + r.blk.pags]
  BY DEF MemPagTaskAlloc
<1>9. QED BY <1>5, <1>6, <1>7, <1>8, CountedGrow

LEMMA CountedMerge ==
  ASSUME IInv, UsedCounted, NEW hc \in HeapCtrl, NEW n \in ChunkPags,
         NEW r \in MemPagAlloc(n), MemPagTaskAlloc(hc, r.blk),
         NEW k \in DOMAIN next[next_mem_blk(hc)], Mergable(hc, k, r.blk),
         next' = [r.next EXCEPT ![next_mem_blk(hc)] =
                    Append(RemoveAt(@, k), Joined(Signed(r.blk, FALSE), next[next_mem_blk(hc)][k]))]
  PROVE  UsedCounted'
<1> DEFINE q == next[next_mem_blk(hc)]
           c == q[k]
           m == Joined(Signed(r.blk, FALSE), c)
<1>1. n \in 1 .. NPags /\ ListInv(next) /\ Tiles(next, GivenPags)
  BY SizeAssumption DEF IInv
<1>2. /\ m \in CMemBlk /\ m.addr = r.blk.addr /\ m.pags = r.blk.pags + c.pags
      /\ next'[next_mem_blk(hc)] = Append(RemoveAt(q, k), m)
      /\ \A hd \in HeapCtrl \ {hc} : next'[next_mem_blk(hd)] = next[next_mem_blk(hd)]
  BY <1>1, MergeTiles
<1>3. q \in Seq(CMemBlk) /\ k \in DOMAIN q
  BY <1>1, Heads DEF ListInv
<1>4. RemoveAt(q, k) \in Seq(CMemBlk)
  BY <1>3, RemoveAtElements
<1>5. SeqPags(RemoveAt(q, k)) = SeqPags(q) \ PagsOf(c) /\ PagsOf(c) \subseteq SeqPags(q)
  BY <1>1, Heads, SeqPagsRemove
<1>6. /\ r.blk.addr \in Addr /\ r.blk.pags \in 1 .. NPags
      /\ PagsOf(r.blk) \cap OwnedPags = {}
  BY <1>1, TakenIsNew
<1>7. PagsOf(m) = PagsOf(r.blk) \cup PagsOf(c)
  <2>1. c.addr = r.blk.addr + r.blk.pags /\ c \in CMemBlk
    BY <1>3 DEF Mergable
  <2>2. r.blk.addr \in Int /\ r.blk.pags \in Nat \ {0} /\ c.pags \in Nat \ {0}
    BY <1>6, <2>1, BsrAssumption DEF CMemBlk, Addr
  <2> DEFINE x == r.blk.addr
             y == r.blk.pags
             z == c.pags
  <2>3. /\ PagsOf(m) = x .. x + (y + z) - 1
        /\ PagsOf(r.blk) = x .. x + y - 1 /\ PagsOf(c) = x + y .. x + y + z - 1
    <3> HIDE DEF c, m
    <3>1. QED BY <1>2, <2>1, Zenon DEF PagsOf
  <2>4. x \in Int /\ y \in Nat \ {0} /\ z \in Nat \ {0}
    BY <2>2
  <2> HIDE DEF x, y, z
  <2>5. x .. x + (y + z) - 1 = (x .. x + y - 1) \cup (x + y .. x + y + z - 1)
    BY <2>4
  <2>6. QED BY <2>3, <2>5
<1>8. QueuePags(hc)' = QueuePags(hc) \cup PagsOf(r.blk)
  <2>1. QueuePags(hc)' = SeqPags(Append(RemoveAt(q, k), m)) /\ QueuePags(hc) = SeqPags(q)
    BY <1>2 DEF QueuePags, SeqPags
  <2> HIDE DEF q, m, c
  <2>2. SeqPags(Append(RemoveAt(q, k), m)) = SeqPags(RemoveAt(q, k)) \cup PagsOf(m)
    BY <1>2, <1>4, SeqPagsAppend
  <2>3. QED BY <1>5, <1>7, <2>1, <2>2
<1>9. \A hd \in HeapCtrl \ {hc} : QueuePags(hd)' = QueuePags(hd)
  BY <1>2, QueuePagsSame
<1>10. /\ hc_state[hc] # "none" /\ UNCHANGED <<pool, hc_state>>
       /\ used_u8s' = used_u8s + r.blk.pags
       /\ hc_alloced' = [hc_alloced EXCEPT ![hc] = @ + r.blk.pags]
  BY DEF MemPagTaskAlloc
<1>11. QED BY <1>6, <1>8, <1>9, <1>10, CountedGrow

LEMMA CountedFree ==
  ASSUME IInv, UsedCounted, NEW hc \in HeapCtrl, NEW k \in DOMAIN next[next_mem_blk(hc)],
         MemPagTaskFree(hc, k), hc_state[hc] # "none", UNCHANGED hc_state
  PROVE  UsedCounted'
<1> DEFINE q == next[next_mem_blk(hc)]
           m == q[k]
<1>1. ListInv(next) /\ next_mem_blk(hc) \in ListHead
  BY Heads DEF IInv
<1>2. /\ next'[next_mem_blk(hc)] = RemoveAt(q, k)
      /\ \A hd \in HeapCtrl \ {hc} : next'[next_mem_blk(hd)] = next[next_mem_blk(hd)]
      /\ UNCHANGED pool
  BY FreeTiles
<1>3. q \in Seq(CMemBlk) /\ k \in DOMAIN q
  BY <1>1 DEF ListInv
<1>4. m.addr \in Addr /\ m.pags \in 1 .. NPags
  <2> HIDE DEF q
  <2>1. m \in CMemBlk
    BY <1>3
  <2>2. QED BY <2>1 DEF CMemBlk
<1>5. QueuePags(hc)' = QueuePags(hc) \ PagsOf(m) /\ PagsOf(m) \subseteq QueuePags(hc)
  <2>1. QueuePags(hc)' = SeqPags(RemoveAt(q, k)) /\ QueuePags(hc) = SeqPags(q)
    BY <1>2 DEF QueuePags, SeqPags
  <2>2. SeqPags(RemoveAt(q, k)) = SeqPags(q) \ PagsOf(m) /\ PagsOf(m) \subseteq SeqPags(q)
    BY <1>1, SeqPagsRemove
  <2>3. QED BY <2>1, <2>2
<1>6. \A hd \in HeapCtrl \ {hc} : QueuePags(hd)' = QueuePags(hd)
  BY <1>2, QueuePagsSame
<1>7. /\ used_u8s' = used_u8s - m.pags
      /\ hc_alloced' = [hc_alloced EXCEPT ![hc] = @ - m.pags]
  BY DEF MemPagTaskFree
<1>8. UNCHANGED <<pool, hc_state>>
  BY <1>2
<1> HIDE DEF m
<1>9. QED BY <1>4, <1>5, <1>6, <1>7, <1>8, CountedShrink

LEMMA NextCounted ==
  IInv /\ UsedCounted /\ [Next]_vars => UsedCounted'
<1> SUFFICES ASSUME IInv, UsedCounted, [Next]_vars PROVE UsedCounted'
  OBVIOUS
<1>1. CASE BlkPoolAdd
  BY <1>1, CountedBlkPoolAdd
<1>2. ASSUME NEW hc \in HeapCtrl, HeapCtrlInit(hc) PROVE UsedCounted'
  <2>1. UNCHANGED <<next, pool, used_u8s>>
    BY <1>2, HeapCtrlInitSame DEF HeapCtrlInit
  <2>2. next[next_mem_blk(hc)] = <<>>
    BY <1>2 DEF HeapCtrlInit, IInv, NoneOwnsNothing
  <2>3. /\ hc_state' = [hc_state EXCEPT ![hc] = "live"] /\ DOMAIN hc_state = HeapCtrl
        /\ hc_alloced' = [hc_alloced EXCEPT ![hc] = 0] /\ DOMAIN hc_alloced = HeapCtrl
    BY <1>2 DEF HeapCtrlInit, IInv, TypeOK
  <2>4. QED BY <2>1, <2>2, <2>3, CountedState
<1>3. ASSUME NEW hc \in HeapCtrl, NEW n \in Requests, MAllocBig(hc, n) PROVE UsedCounted'
  BY <1>3, CountedQueue DEF MAllocBig
<1>4. ASSUME NEW hc \in HeapCtrl, NEW n \in ChunkPags, MAllocChunk(hc, n) PROVE UsedCounted'
  BY <1>4, CountedQueue, CountedMerge DEF MAllocChunk
<1>5. ASSUME NEW hc \in HeapCtrl, NEW k \in DOMAIN next[next_mem_blk(hc)], FreeBig(hc, k)
      PROVE  UsedCounted'
  BY <1>5, CountedFree DEF FreeBig
<1>6. ASSUME NEW hc \in HeapCtrl, HeapCtrlDelStart(hc) PROVE UsedCounted'
  <2>1. /\ UNCHANGED <<next, pool, used_u8s, hc_alloced>> /\ hc_state[hc] = "live"
        /\ hc_state' = [hc_state EXCEPT ![hc] = "deleting"] /\ DOMAIN hc_state = HeapCtrl
    BY <1>6 DEF HeapCtrlDelStart, IInv, TypeOK
  <2>2. QED BY <2>1, CountedState
<1>7. ASSUME NEW hc \in HeapCtrl, HeapCtrlDelBlk(hc) PROVE UsedCounted'
  <2>1. 1 \in DOMAIN next[next_mem_blk(hc)]
    <3>1. next[next_mem_blk(hc)] \in Seq(CMemBlk) /\ next[next_mem_blk(hc)] # <<>>
      BY <1>7, Heads DEF HeapCtrlDelBlk, IInv, TypeOK
    <3>2. QED BY <3>1
  <2>2. QED BY <1>7, <2>1, CountedFree DEF HeapCtrlDelBlk
<1>8. ASSUME NEW hc \in HeapCtrl, HeapCtrlDelEnd(hc) PROVE UsedCounted'
  <2>1. /\ UNCHANGED <<next, pool, used_u8s, hc_alloced>>
        /\ hc_state' = [hc_state EXCEPT ![hc] = "none"] /\ DOMAIN hc_state = HeapCtrl
    BY <1>8 DEF HeapCtrlDelEnd, IInv, TypeOK
  <2>2. QED BY <2>1, CountedState
<1>9. CASE UNCHANGED vars
  <2>1. UNCHANGED <<next, pool, used_u8s, hc_alloced, hc_state>>
    BY <1>9 DEF vars, pool
  <2>2. QED BY <2>1, CountedState
<1>10. QED
  BY <1>1, <1>2, <1>3, <1>4, <1>5, <1>6, <1>7, <1>8, <1>9 DEF Next

\* What is in use is never miscounted: the pool counts as used exactly the pages
\* that heap controls own, and each of these as its own those of its queue, through
\* every merge and every deletion.
THEOREM MemoryIsCounted ==
  ASSUME ChunksDisjoint
  PROVE  Spec => []UsedCounted
<1>1. Init => UsedCounted
  <2> SUFFICES ASSUME Init PROVE UsedCounted
    OBVIOUS
  <2>1. \A hc \in HeapCtrl : QueuePags(hc) = {}
    BY Heads DEF Init, QueuePags
  <2>2. UNION {QueuePags(hc) : hc \in HeapCtrl} = {}
    BY <2>1
  <2>3. QED BY <2>1, <2>2, FS_EmptySet DEF Init, UsedCounted
<1>2. QED BY <1>1, Invariance, NextCounted, PTL DEF Spec
=============================================================================
