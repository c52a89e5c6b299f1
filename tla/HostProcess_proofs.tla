-------------------------- MODULE HostProcess_proofs --------------------------
(***************************************************************************)
(* Proofs about HostProcess, for every command line, layout of the address *)
(* space, patch table and behaviour of the host and the guest: every       *)
(* import that was read is bound or waits, by its own name; each module is *)
(* relocated once; the list of symbols is sorted (the first part, about    *)
(* Loader, whose steps are those of the process that load); and a guest    *)
(* that runs is in a process that is ready for it, with its task in FS.    *)
(***************************************************************************)
EXTENDS HostProcess, SeqLemmas, FiniteSetTheorems, TLAPS

LoaderNext ==
  \/ load_kernel \/ loader_enter
  \/ (\E t \in Task : inject_extra_symbols(t)) \/ Injected
  \/ (\E t \in Task, m \in Module : Load(t, m)) \/ LoadPass1

PatchEntry == [etype : EType, name : STRING, val : Nat]
TabEntry == [type : {"export", "import", "invalid"}, name : STRING, val : Nat,
             module : Modules \cup {NULL}, entry : Nat]
Sym == [name : STRING, address : Nat]

LoaderTypes ==
  /\ stage \in {"load_kernel", "inject", "load", "up", "failed"}
  /\ load \in [module : Modules, task : Task, src : Nat \ {0}]
  /\ load.src <= Len(PatchTable[load.module]) + 1
  /\ table \in [Task -> Seq(TabEntry)]
  /\ slot \in [Slot -> Nat]
  /\ relocs \in [Slot -> Nat]
  /\ syms \in Seq(Sym)
  /\ toInject \subseteq write_export_table
  /\ loaded \in [Modules -> Task \cup {"linker", NULL}]

\* What each stage leaves alone.
Stages ==
  /\ stage \in {"load_kernel", "failed"} => load.module = Kernel /\ \A m \in Modules : loaded[m] = NULL
  /\ stage = "load" => loaded[load.module] = NULL
  /\ stage \in {"inject", "up"} \/ (stage = "load" /\ load.module # Kernel) => loaded[Kernel] # NULL

\* A reader of a patch table is never inside of a group.
Reading == stage \in {"load_kernel", "load"}
AtBoundary ==
  Reading => \A h \in 1 .. load.src - 1 :
               Heads(load.module, h) => ~InGroup(load.module, h, load.src)

-----------------------------------------------------------------------------
(***************************************************************************)
(* Patch tables.                                                           *)
(***************************************************************************)
LEMMA MaxUpToIs ==
  ASSUME NEW S, S \subseteq Nat, NEW k \in S, \A i \in S : k >= i PROVE Max(S) = k
<1>1. PICK n : n = Max(S)
  OBVIOUS
<1>2. n \in S /\ \A i \in S : n >= i
  BY <1>1 DEF Max
<1>3. n >= k /\ k >= n /\ n \in Nat /\ k \in Nat
  BY <1>2
<1> QED BY <1>1, <1>3

LEMMA PatchEntries ==
  ASSUME NEW m \in Modules
  PROVE  /\ PatchTable[m] \in Seq(PatchEntry) /\ Len(PatchTable[m]) \in Nat
         /\ DOMAIN PatchTable[m] = 1 .. Len(PatchTable[m])
         /\ \A k \in DOMAIN PatchTable[m] : PatchTable[m][k] \in PatchEntry
<1>1. PatchTable[m] \in Seq(PatchEntry)
  BY Constants DEF PatchEntry
<1> QED BY <1>1

LEMMA Slots ==
  /\ \A m \in Modules : \A k : <<m, k>> \in Slot <=> k \in DOMAIN PatchTable[m]
  /\ \A x \in Slot : x[1] \in Modules /\ x[2] \in DOMAIN PatchTable[x[1]] /\ x = <<x[1], x[2]>>
<1>1. ASSUME NEW m \in Modules, NEW k PROVE <<m, k>> \in Slot <=> k \in DOMAIN PatchTable[m]
  <2>1. ASSUME <<m, k>> \in Slot PROVE k \in DOMAIN PatchTable[m]
    <3>1. PICK n \in Modules : <<m, k>> \in {n} \X DOMAIN PatchTable[n]
      BY <2>1 DEF Slot
    <3> QED BY <3>1
  <2>2. ASSUME k \in DOMAIN PatchTable[m] PROVE <<m, k>> \in Slot
    <3>1. <<m, k>> \in {m} \X DOMAIN PatchTable[m]
      BY <2>2
    <3> QED BY <3>1 DEF Slot
  <2> QED BY <2>1, <2>2
<1>2. ASSUME NEW x \in Slot
      PROVE  x[1] \in Modules /\ x[2] \in DOMAIN PatchTable[x[1]] /\ x = <<x[1], x[2]>>
  <2>1. PICK m \in Modules : x \in {m} \X DOMAIN PatchTable[m]
    BY DEF Slot
  <2> QED BY <2>1
<1> QED BY <1>1, <1>2

\* The group of a head goes to the next entry with a name, or to the end.
LEMMA GroupEnds ==
  ASSUME NEW m \in Modules, NEW k, Heads(m, k)
  PROVE  /\ k \in 1 .. Len(PatchTable[m]) /\ k \in Nat /\ k + 1 <= Len(PatchTable[m]) + 1
         /\ AfterGroup(m, k) \in k + 1 .. Len(PatchTable[m]) + 1
         /\ ~Unnamed(m, AfterGroup(m, k))
         /\ \A j \in k + 1 .. AfterGroup(m, k) - 1 : InGroup(m, k, j)
<1> DEFINE n == Len(PatchTable[m])
           S == {j \in k + 1 .. n + 1 : ~Unnamed(m, j)}
<1>1. n \in Nat /\ k \in 1 .. n /\ DOMAIN PatchTable[m] = 1 .. n
  BY PatchEntries DEF Heads
<1>2. n + 1 \in S
  BY <1>1 DEF Unnamed
<1>3. S \subseteq Nat /\ S # {}
  BY <1>1, <1>2
<1>4. AfterGroup(m, k) = Min(S)
  BY DEF AfterGroup
<1>5. AfterGroup(m, k) \in S /\ \A y \in S : AfterGroup(m, k) <= y
  <2> HIDE DEF S
  <2> QED BY <1>3, <1>4, MinIs
<1>6. \A i \in k + 1 .. AfterGroup(m, k) - 1 : Unnamed(m, i)
  BY <1>1, <1>5
<1>7. \A j \in k + 1 .. AfterGroup(m, k) - 1 : InGroup(m, k, j)
  BY <1>1, <1>5, <1>6 DEF InGroup
<1> QED BY <1>1, <1>5, <1>7

\* What it binds are imports of its name.
LEMMA GroupIs ==
  ASSUME NEW m \in Modules, NEW k, Heads(m, k), NEW x \in Group(m, k)
  PROVE  /\ x \in Slot /\ x[1] = m /\ Import(x) /\ x[2] \in k .. AfterGroup(m, k) - 1
         /\ NameAt(x) = PatchTable[m][k].name
<1> DEFINE a == AfterGroup(m, k)
           n == Len(PatchTable[m])
<1>1. /\ n \in Nat /\ k \in 1 .. n /\ DOMAIN PatchTable[m] = 1 .. n /\ a \in k + 1 .. n + 1
      /\ \A j \in k + 1 .. a - 1 : InGroup(m, k, j)
  BY PatchEntries, GroupEnds
<1>2. PICK j \in k .. a - 1 : x = <<m, j>> /\ PatchTable[m][j].etype = "import"
  BY DEF Group
<1> HIDE DEF a, n
<1>3. j \in 1 .. n /\ j \in Nat /\ k \in Nat /\ k <= j
  BY <1>1
<1>4. x \in Slot /\ x[1] = m /\ x[2] = j /\ Import(x)
  BY <1>1, <1>2, <1>3, Slots DEF Import
<1> DEFINE S == {i \in 1 .. j : PatchTable[m][i].name # NoName}
<1>5. k \in S
  BY <1>1, <1>3 DEF Heads
<1>6. \A i \in S : k >= i
  <2> SUFFICES ASSUME NEW i \in 1 .. j, i > k PROVE PatchTable[m][i].name = NoName
    BY <1>1, <1>3
  <2>1. Unnamed(m, i)
    BY <1>1, <1>3 DEF InGroup
  <2> QED BY <2>1 DEF Unnamed
<1>7. S \subseteq Nat
  BY <1>3
<1> HIDE DEF S
<1>8. Max(S) = k
  BY <1>5, <1>6, <1>7, MaxUpToIs
<1>9. NameAt(x) = PatchTable[m][k].name
  BY <1>4, <1>8 DEF NameAt, S
<1> QED BY <1>2, <1>4, <1>9 DEF a

\* An import belongs to one group.
LEMMA GroupsApart ==
  ASSUME NEW m \in Modules, NEW k, Heads(m, k), NEW h, Heads(m, h),
         NEW x, x \in Group(m, k), x \in Group(m, h)
  PROVE  k = h
<1>1. /\ k \in Nat /\ h \in Nat /\ x[2] \in k .. AfterGroup(m, k) - 1 /\ x[2] \in h .. AfterGroup(m, h) - 1
      /\ \A j \in k + 1 .. AfterGroup(m, k) - 1 : InGroup(m, k, j)
      /\ \A j \in h + 1 .. AfterGroup(m, h) - 1 : InGroup(m, h, j)
      /\ AfterGroup(m, k) \in Nat /\ AfterGroup(m, h) \in Nat
  BY GroupIs, GroupEnds
<1>2. ~Unnamed(m, k) /\ ~Unnamed(m, h)
  BY DEF Heads, Unnamed
<1>3. ~(k < h)
  <2> SUFFICES ASSUME k < h PROVE FALSE
    OBVIOUS
  <2>1. h \in k + 1 .. AfterGroup(m, k) - 1
    BY <1>1
  <2> QED BY <1>1, <1>2, <2>1 DEF InGroup
<1>4. ~(h < k)
  <2> SUFFICES ASSUME h < k PROVE FALSE
    OBVIOUS
  <2>1. k \in h + 1 .. AfterGroup(m, h) - 1
    BY <1>1
  <2> QED BY <1>1, <1>2, <2>1 DEF InGroup
<1> QED BY <1>1, <1>3, <1>4

LEMMA OwnGroup ==
  ASSUME NEW x \in Slot, Import(x)
  PROVE  \E k : Heads(x[1], k) /\ x \in Group(x[1], k)
<1> DEFINE m == x[1]
           j == x[2]
<1>1. /\ m \in Modules /\ j \in DOMAIN PatchTable[m] /\ PatchTable[m][j].etype = "import" /\ x = <<m, j>>
      /\ j \in Nat
  BY Slots, PatchEntries DEF Import
<1> HIDE DEF m, j
<1>2. CASE Heads(m, j)
  <2>1. j \in j .. AfterGroup(m, j) - 1
    BY <1>1, <1>2, GroupEnds
  <2>2. x \in Group(m, j)
    BY <1>1, <2>1 DEF Group
  <2> QED BY <1>2, <2>2 DEF m
<1>3. CASE ~Heads(m, j)
  <2>1. PICK h \in 1 .. j - 1 : Heads(m, h) /\ InGroup(m, h, j)
    BY <1>1, <1>3, PatchTables
  <2>2. ~Unnamed(m, AfterGroup(m, h)) /\ AfterGroup(m, h) \in h + 1 .. Len(PatchTable[m]) + 1
    BY <1>1, <2>1, GroupEnds
  <2>3. ~(AfterGroup(m, h) <= j)
    BY <1>1, <2>1, <2>2, PatchEntries DEF InGroup
  <2>4. j \in h .. AfterGroup(m, h) - 1
    BY <1>1, <2>1, <2>2, <2>3, PatchEntries
  <2>5. x \in Group(m, h)
    BY <1>1, <2>4 DEF Group
  <2> QED BY <2>1, <2>5 DEF m
<1> QED BY <1>2, <1>3

-----------------------------------------------------------------------------
(***************************************************************************)
(* Reading them.                                                           *)
(***************************************************************************)
\* A reader that is not at the end goes on behind the entry it is at, or behind the
\* group that entry heads, and stays out of the groups.
SkipsOne == Skip /\ This.etype # "import"
SkipsGroup == SkipGroup /\ Heads(load.module, load.src)
Reads == ~AtEnd /\ (SkipsOne \/ SkipsGroup)

LEMMA AtHead ==
  ASSUME LoaderTypes, AtBoundary, Reading, At("import") PROVE Heads(load.module, load.src)
<1> DEFINE m == load.module
           k == load.src
<1>1. m \in Modules /\ k \in Nat \ {0} /\ k \in DOMAIN PatchTable[m] /\ PatchTable[m][k].etype = "import"
  BY PatchEntries DEF LoaderTypes, At, AtEnd
<1>2. \A h \in 1 .. k - 1 : ~(Heads(m, h) /\ InGroup(m, h, k))
  BY DEF AtBoundary
<1> HIDE DEF m, k
<1>3. Heads(m, k)
  BY <1>1, <1>2, PatchTables
<1> QED BY <1>3 DEF m, k

LEMMA ReadersRead ==
  ASSUME LoaderTypes, AtBoundary
  PROVE  load_kernel \/ (LoadPass1 /\ ~LoadEnd) => Reading /\ Reads /\ UNCHANGED <<stage, loaded, toInject>>
<1>1. CASE KernelImport \/ LoadImport
  <2>1. Heads(load.module, load.src) /\ Reading
    BY <1>1, AtHead DEF KernelImport, LoadImport, Reading
  <2> QED BY <1>1, <2>1 DEF KernelImport, LoadImport, At, Reads, SkipsGroup
<1>2. CASE KernelExport \/ KernelAbsAddr \/ KernelMain \/ LoadExport \/ LoadAbsAddr \/ LoadHeap \/ LoadMain
  BY <1>2 DEF KernelExport, KernelAbsAddr, KernelMain, LoadExport, LoadAbsAddr, LoadHeap, LoadMain,
     Reading, At, Reads, SkipsOne, This
<1> QED BY <1>1, <1>2 DEF load_kernel, LoadPass1

\* It has read what lies between, and nothing else.
LEMMA Reader ==
  ASSUME LoaderTypes, AtBoundary, Reading, Reads
  PROVE  /\ load' = [load EXCEPT !.src = load'.src]
         /\ load.src \in 1 .. Len(PatchTable[load.module])
         /\ load'.src \in load.src + 1 .. Len(PatchTable[load.module]) + 1
         /\ SkipsOne => load'.src = load.src + 1
         /\ SkipsGroup => load'.src = AfterGroup(load.module, load.src)
         /\ \A h \in 1 .. load'.src - 1 : Heads(load.module, h) => ~InGroup(load.module, h, load'.src)
<1> DEFINE m == load.module
           k == load.src
           n == Len(PatchTable[m])
<1>1. /\ m \in Modules /\ k \in 1 .. n /\ n \in Nat /\ DOMAIN PatchTable[m] = 1 .. n
      /\ load \in [module : Modules, task : Task, src : Nat \ {0}]
  BY PatchEntries DEF LoaderTypes, Reads, AtEnd
<1>2. \A h \in 1 .. k - 1 : Heads(m, h) => ~InGroup(m, h, k)
  BY DEF AtBoundary
<1>3. CASE SkipsOne
  <2>1. load' = [load EXCEPT !.src = k + 1]
    BY <1>3 DEF SkipsOne, Skip, GoTo
  <2>2. load'.src = k + 1
    BY <1>1, <2>1
  <2>3. ~Heads(m, k)
    BY <1>3 DEF SkipsOne, This, Heads
  <2>4. ASSUME NEW h \in 1 .. k, Heads(m, h), InGroup(m, h, k + 1) PROVE FALSE
    <3>1. h \in 1 .. k - 1
      BY <1>1, <2>3, <2>4
    <3>2. InGroup(m, h, k)
      BY <1>1, <2>4, <3>1 DEF InGroup
    <3> QED BY <1>2, <2>4, <3>1, <3>2
  <2>5. ~SkipsGroup
    BY <2>3 DEF SkipsGroup
  <2> HIDE DEF n
  <2> QED BY <1>1, <2>1, <2>2, <2>4, <2>5 DEF n
<1>4. CASE SkipsGroup
  <2> DEFINE a == AfterGroup(m, k)
  <2>1. load' = [load EXCEPT !.src = a] /\ Heads(m, k)
    BY <1>4 DEF SkipsGroup, SkipGroup, GoTo
  <2>2. load'.src = a
    BY <1>1, <2>1
  <2>3. a \in k + 1 .. n + 1 /\ ~Unnamed(m, a)
    BY <1>1, <2>1, GroupEnds
  <2>4. ASSUME NEW h \in 1 .. a - 1, InGroup(m, h, a) PROVE FALSE
    <3>1. a \in h + 1 .. a
      BY <1>1, <2>3, <2>4
    <3> QED BY <2>3, <2>4, <3>1 DEF InGroup
  <2>5. ~SkipsOne
    BY <2>1 DEF SkipsOne, This, Heads
  <2> QED BY <1>1, <2>1, <2>2, <2>3, <2>4, <2>5
<1> QED BY <1>3, <1>4 DEF Reads

\* It passes its own entry, and after an import only other uses of the name and
\* IET_MAIN.
LEMMA Passes ==
  ASSUME LoaderTypes, AtBoundary, Reading, Reads, NEW k \in load.src + 1 .. load'.src - 1
  PROVE  /\ SkipsGroup /\ k \in DOMAIN PatchTable[load.module]
         /\ PatchTable[load.module][k].etype \in {"import", "main"}
<1> DEFINE m == load.module
           n == Len(PatchTable[m])
<1>1. /\ m \in Modules /\ n \in Nat /\ DOMAIN PatchTable[m] = 1 .. n /\ load.src \in 1 .. n
      /\ load'.src \in load.src + 1 .. n + 1
      /\ SkipsOne => load'.src = load.src + 1
      /\ SkipsGroup => load'.src = AfterGroup(m, load.src)
  BY Reader, PatchEntries DEF LoaderTypes
<1>2. SkipsGroup /\ Heads(m, load.src) /\ k \in load.src + 1 .. AfterGroup(m, load.src) - 1
  BY <1>1 DEF Reads, SkipsGroup
<1>3. InGroup(m, load.src, k)
  BY <1>1, <1>2, GroupEnds
<1>4. k \in DOMAIN PatchTable[m] /\ load.src \in DOMAIN PatchTable[m]
  BY <1>1, <1>2
<1> QED BY <1>1, <1>2, <1>3, <1>4, PatchTables

-----------------------------------------------------------------------------
(***************************************************************************)
(* The list of symbols and the hash tables.                                *)
(***************************************************************************)
LEMMA SymList ==
  ASSUME NEW sl \in Seq(Sym)
  PROVE  /\ Len(sl) \in Nat /\ DOMAIN sl = 1 .. Len(sl)
         /\ \A i \in DOMAIN sl : sl[i].address \in Nat
<1>1. Len(sl) \in Nat /\ DOMAIN sl = 1 .. Len(sl) /\ \A i \in DOMAIN sl : sl[i] \in Sym
  OBVIOUS
<1>2. \A s \in Sym : s.address \in Nat
  BY DEF Sym
<1> QED BY <1>1, <1>2

\* A symbol goes behind all that are above it.
LEMMA PlaceIs ==
  ASSUME NEW sl \in Seq(Sym), NEW a \in Nat
  PROVE  /\ PlaceOf(sl, a) \in 1 .. Len(sl) + 1
         /\ \A i \in 1 .. PlaceOf(sl, a) - 1 : sl[i].address > a
         /\ PlaceOf(sl, a) \in DOMAIN sl => a >= sl[PlaceOf(sl, a)].address
<1> DEFINE S == NotAbove(sl, a)
<1>1. /\ Len(sl) \in Nat /\ DOMAIN sl = 1 .. Len(sl) /\ \A i \in DOMAIN sl : sl[i].address \in Nat
      /\ S = {i \in DOMAIN sl : a >= sl[i].address}
  BY SymList DEF NotAbove
<1>2. CASE S = {}
  BY <1>1, <1>2 DEF PlaceOf
<1>3. CASE S # {}
  <2>1. S \subseteq Nat
    BY <1>1
  <2>2. PlaceOf(sl, a) = Min(S)
    BY <1>3 DEF PlaceOf
  <2> HIDE DEF S
  <2>3. PlaceOf(sl, a) \in S /\ \A i \in S : PlaceOf(sl, a) <= i
    BY <1>3, <2>1, <2>2, MinIs
  <2> QED BY <1>1, <2>3
<1> QED BY <1>2, <1>3

Sorted(sl) == \A i, j \in DOMAIN sl : i < j => sl[i].address > sl[j].address

LEMMA AddsymIs ==
  ASSUME syms \in Seq(Sym), Sorted(syms), NEW name \in STRING, NEW a \in Nat, addsym(name, a)
  PROVE  /\ syms' \in Seq(Sym) /\ Sorted(syms')
         /\ \A i \in DOMAIN syms : \E j \in DOMAIN syms' : syms'[j].address = syms[i].address
         /\ \E j \in DOMAIN syms' : syms'[j].address = a
<1> DEFINE k == PlaceOf(syms, a)
           e == [name |-> name, address |-> a]
           n == Len(syms)
<1>1. /\ n \in Nat /\ DOMAIN syms = 1 .. n /\ \A i \in DOMAIN syms : syms[i].address \in Nat
      /\ k \in 1 .. n + 1 /\ e \in Sym /\ e.address = a
      /\ \A i \in 1 .. k - 1 : syms[i].address > a
      /\ k \in DOMAIN syms => a >= syms[k].address
  <2>1. n \in Nat /\ DOMAIN syms = 1 .. n /\ \A i \in DOMAIN syms : syms[i].address \in Nat
    BY SymList
  <2>2. e \in Sym /\ e.address = a
    BY DEF Sym
  <2> QED BY <2>1, <2>2, PlaceIs
<1>2. CASE \E i \in DOMAIN syms : i = k /\ syms[i].address = a
  <2>1. syms' = syms /\ k \in DOMAIN syms /\ syms[k].address = a
    BY <1>2 DEF addsym
  <2> HIDE DEF k, e, n
  <2>2. syms' \in Seq(Sym) /\ Sorted(syms')
    BY <2>1
  <2>3. k \in DOMAIN syms' /\ syms'[k].address = a
    BY <2>1
  <2>4. \A i \in DOMAIN syms : i \in DOMAIN syms' /\ syms'[i].address = syms[i].address
    BY <2>1
  <2> QED BY <2>2, <2>3, <2>4
<1>3. CASE ~ \E i \in DOMAIN syms : i = k /\ syms[i].address = a
  <2>1. syms' = InsertAt(syms, k, e)
    BY <1>3 DEF addsym
  <2>2. k \in DOMAIN syms => a > syms[k].address
    BY <1>1, <1>3
  <2> HIDE DEF k, e
  <2>3. /\ syms' \in Seq(Sym) /\ Len(syms') = n + 1
        /\ \A i \in 1 .. n + 1 : syms'[i] = IF i < k THEN syms[i] ELSE IF i = k THEN e ELSE syms[i - 1]
    <3> DEFINE new == InsertAt(syms, k, e)
    <3>1. k \in 1 .. Len(syms) + 1 /\ e \in Sym
      BY <1>1
    <3>2. /\ new \in Seq(Sym) /\ Len(new) = n + 1
          /\ \A i \in 1 .. n + 1 : new[i] = IF i < k THEN syms[i] ELSE IF i = k THEN e ELSE syms[i - 1]
      <4>1. new \in Seq(Sym) /\ Len(new) = n + 1
        BY <3>1, InsertAtLen
      <4>2. SUFFICES ASSUME NEW i \in 1 .. n + 1
                     PROVE  new[i] = IF i < k THEN syms[i] ELSE IF i = k THEN e ELSE syms[i - 1]
        BY <4>1
      <4> QED BY <3>1, InsertAtElements
    <3> HIDE DEF new, n
    <3> QED BY <2>1, <3>2 DEF new
  <2>4. DOMAIN syms' = 1 .. n + 1
    BY <1>1, <2>3
  <2>5. \A j \in 1 .. n : j >= k => a > syms[j].address
    <3> SUFFICES ASSUME NEW j \in 1 .. n, j > k PROVE a > syms[j].address
      BY <1>1, <2>2
    <3>1. k \in DOMAIN syms /\ syms[k].address > syms[j].address
      BY <1>1 DEF Sorted
    <3> QED BY <1>1, <2>2, <3>1
  <2>6. Sorted(syms')
    <3> SUFFICES ASSUME NEW i \in 1 .. n + 1, NEW j \in 1 .. n + 1, i < j
                 PROVE  syms'[i].address > syms'[j].address
      BY <2>4 DEF Sorted
    <3>1. CASE j < k
      BY <1>1, <2>3, <3>1 DEF Sorted
    <3>2. CASE j = k
      BY <1>1, <2>3, <3>2
    <3>3. CASE j > k /\ i = k
      BY <1>1, <2>3, <2>5, <3>3
    <3>4. CASE j > k /\ i > k
      <4>1. i - 1 \in DOMAIN syms /\ j - 1 \in DOMAIN syms /\ i - 1 < j - 1
        BY <1>1, <3>4
      <4>2. syms'[i] = syms[i - 1] /\ syms'[j] = syms[j - 1]
        BY <1>1, <2>3, <3>4
      <4> QED BY <4>1, <4>2 DEF Sorted
    <3>5. CASE j > k /\ i < k
      <4>1. i \in DOMAIN syms /\ j - 1 \in DOMAIN syms /\ i < j - 1
        BY <1>1, <3>5
      <4>2. syms'[i] = syms[i] /\ syms'[j] = syms[j - 1]
        BY <1>1, <2>3, <3>5
      <4> QED BY <4>1, <4>2 DEF Sorted
    <3> QED BY <1>1, <3>1, <3>2, <3>3, <3>4, <3>5
  <2>7. \A i \in DOMAIN syms : \E j \in DOMAIN syms' : syms'[j].address = syms[i].address
    <3> SUFFICES ASSUME NEW i \in 1 .. n
                 PROVE  \E j \in 1 .. n + 1 : syms'[j].address = syms[i].address
      BY <1>1, <2>4
    <3>1. CASE i < k
      BY <1>1, <2>3, <3>1
    <3>2. CASE i >= k
      <4>1. i + 1 \in 1 .. n + 1 /\ syms'[i + 1] = syms[(i + 1) - 1] /\ (i + 1) - 1 = i
        BY <1>1, <2>3, <3>2
      <4> QED BY <4>1
    <3> QED BY <1>1, <3>1, <3>2
  <2>8. k \in DOMAIN syms' /\ syms'[k].address = a
    BY <1>1, <2>3, <2>4
  <2> QED BY <2>3, <2>6, <2>7, <2>8
<1> QED BY <1>2, <1>3

\* How the tables change, as sets of entries: N are the new ones and W those that
\* need not wait any longer, each with its task.
InTable(t, e) == \E i \in DOMAIN table[t] : table[t][i] = e
Waits(e, name) == e.type = "import" /\ e.name = name
TableMoves(N, W) ==
  /\ \A t \in Task, e \in TabEntry : InTable(t, e) /\ <<t, e>> \notin W => InTable(t, e)'
  /\ \A t \in Task, e \in TabEntry : InTable(t, e)' /\ e.type # "invalid" =>
       <<t, e>> \in N \/ (InTable(t, e) /\ <<t, e>> \notin W)
  /\ \A t \in Task, e \in TabEntry : <<t, e>> \in N => InTable(t, e)'

Tables == table \in [Task -> Seq(TabEntry)]
WaitsIn(t, name) == {<<t, e>> : e \in {f \in TabEntry : Waits(f, name)}}

LEMMA KeptTable == ASSUME UNCHANGED table PROVE TableMoves({}, {})
  BY DEF TableMoves, InTable

LEMMA HashAddIs ==
  ASSUME Tables, NEW t \in Task, NEW new \in TabEntry, table' = HashAdd(t, <<new>>)
  PROVE  Tables' /\ TableMoves({<<t, new>>}, {})
<1> DEFINE s == table[t]
           r == <<new>> \o s
<1>1. s \in Seq(TabEntry) /\ Len(s) \in Nat /\ DOMAIN s = 1 .. Len(s)
  BY DEF Tables
<1>2. /\ r \in Seq(TabEntry) /\ Len(r) = Len(s) + 1 /\ r[1] = new
      /\ \A i \in 1 .. Len(s) : r[i + 1] = s[i]
  <2> HIDE DEF s
  <2> QED BY <1>1, ConsElements
<1>3. table' = [table EXCEPT ![t] = r]
  BY DEF HashAdd
<1> HIDE DEF r
<1>4. DOMAIN r = 1 .. Len(s) + 1
  BY <1>1, <1>2
<1>5. Tables' /\ table'[t] = r /\ \A u \in Task : u # t => table'[u] = table[u]
  BY <1>2, <1>3 DEF Tables
<1>6. \A e : InTable(t, e)' <=> InTable(t, e) \/ e = new
  <2>1. ASSUME NEW e, NEW i \in DOMAIN r, r[i] = e PROVE e = new \/ \E j \in DOMAIN s : s[j] = e
    <3>1. CASE i = 1
      BY <1>2, <2>1, <3>1
    <3>2. CASE i # 1
      <4>1. i - 1 \in 1 .. Len(s) /\ (i - 1) + 1 = i
        BY <1>1, <1>4, <3>2
      <4>2. r[i] = s[i - 1]
        BY <1>2, <4>1
      <4> QED BY <1>1, <2>1, <4>1, <4>2
    <3> QED BY <3>1, <3>2
  <2>2. ASSUME NEW j \in DOMAIN s PROVE \E i \in DOMAIN r : r[i] = s[j]
    <3>1. j + 1 \in DOMAIN r /\ r[j + 1] = s[j]
      BY <1>1, <1>2, <1>4
    <3> QED BY <3>1
  <2>3. 1 \in DOMAIN r
    BY <1>1, <1>4
  <2> QED BY <1>2, <1>5, <2>1, <2>2, <2>3 DEF InTable
<1>7. \A u \in Task : \A e : u # t => (InTable(u, e)' <=> InTable(u, e))
  BY <1>5 DEF InTable
<1> QED BY <1>5, <1>6, <1>7 DEF TableMoves

LEMMA ResolveIs ==
  ASSUME Tables, NEW t \in Task, NEW name \in STRING, NEW val \in Nat,
         SysSymImportsResolve(t, name, val),
         NEW new, new = [type |-> "export", name |-> name, val |-> val, module |-> NULL, entry |-> 0]
  PROVE  Tables' /\ TableMoves({<<t, new>>}, WaitsIn(t, name)) /\ new \in TabEntry
<1> DEFINE s == table[t]
           woken == Waiting(t, name)
           d == [i \in DOMAIN s |-> IF i \in woken THEN Done(s[i]) ELSE s[i]]
           r == <<new>> \o d
<1>1. s \in Seq(TabEntry) /\ Len(s) \in Nat /\ DOMAIN s = 1 .. Len(s) /\ \A i \in DOMAIN s : s[i] \in TabEntry
  BY DEF Tables
<1>2. \A e \in TabEntry : Done(e) \in TabEntry /\ Done(e).type = "invalid"
  BY DEF TabEntry, Done
<1>3. new \in TabEntry
  BY DEF TabEntry
<1>4. woken = {i \in DOMAIN s : Waits(s[i], name)}
  BY DEF Waiting, Waits
<1>5. d \in Seq(TabEntry) /\ Len(d) = Len(s) /\ DOMAIN d = 1 .. Len(s)
  <2>1. \A i \in 1 .. Len(s) : d[i] \in TabEntry
    BY <1>1, <1>2
  <2>2. d \in [1 .. Len(s) -> TabEntry]
    BY <1>1, <2>1
  <2> HIDE DEF d
  <2>3. d \in Seq(TabEntry)
    BY <1>1, <2>2
  <2> QED BY <1>1, <2>2, <2>3
<1>6. /\ r \in Seq(TabEntry) /\ Len(r) = Len(d) + 1 /\ r[1] = new
      /\ \A i \in 1 .. Len(d) : r[i + 1] = d[i]
  <2> HIDE DEF d
  <2> QED BY <1>3, <1>5, ConsElements
<1>7. table' = [table EXCEPT ![t] = r]
  BY DEF SysSymImportsResolve
<1> HIDE DEF r
<1>8. DOMAIN r = 1 .. Len(s) + 1
  BY <1>1, <1>5, <1>6
<1>9. Tables' /\ table'[t] = r /\ \A u \in Task : u # t => table'[u] = table[u]
  BY <1>6, <1>7 DEF Tables
<1>10. ASSUME NEW e, InTable(t, e)', e.type # "invalid"
       PROVE  e = new \/ (InTable(t, e) /\ ~Waits(e, name))
  <2>1. PICK i \in DOMAIN r : r[i] = e
    BY <1>9, <1>10 DEF InTable
  <2>2. CASE i = 1
    BY <1>6, <2>1, <2>2
  <2>3. CASE i # 1
    <3>1. i - 1 \in DOMAIN s /\ (i - 1) + 1 = i
      BY <1>1, <1>8, <2>3
    <3>2. e = d[i - 1]
      BY <1>1, <1>5, <1>6, <2>1, <3>1
    <3>3. i - 1 \notin woken /\ e = s[i - 1]
      BY <1>1, <1>2, <1>10, <3>1, <3>2
    <3> QED BY <1>4, <3>1, <3>3 DEF InTable
  <2> QED BY <2>2, <2>3
<1>11. ASSUME NEW e, InTable(t, e), ~Waits(e, name) PROVE InTable(t, e)'
  <2>1. PICK j \in DOMAIN s : s[j] = e
    BY <1>11 DEF InTable
  <2>2. j \notin woken
    BY <1>4, <1>11, <2>1
  <2>3. d[j] = e /\ j \in 1 .. Len(d)
    BY <1>1, <1>5, <2>1, <2>2
  <2> HIDE DEF d
  <2>4. j + 1 \in DOMAIN r /\ r[j + 1] = e
    BY <1>1, <1>5, <1>6, <1>8, <2>3
  <2> QED BY <1>9, <2>4 DEF InTable
<1>12. InTable(t, new)'
  <2>1. 1 \in DOMAIN r
    BY <1>1, <1>8
  <2> QED BY <1>6, <1>9, <2>1 DEF InTable
<1>13. \A u \in Task : \A e : u # t => (InTable(u, e)' <=> InTable(u, e))
  BY <1>9 DEF InTable
<1>14. \A e \in TabEntry : \A u : <<u, e>> \in WaitsIn(t, name) <=> u = t /\ Waits(e, name)
  BY DEF WaitsIn
<1> QED BY <1>3, <1>9, <1>10, <1>11, <1>12, <1>13, <1>14 DEF TableMoves

\* What HashFind finds is an export of that name in one of the tables.
LEMMA HashFindIs ==
  ASSUME Tables, NEW t \in Task, NEW name, HashFind(t, name) # NULL
  PROVE  \E u \in Task, e \in TabEntry :
           InTable(u, e) /\ e.type = "export" /\ e.name = name /\ e.val = HashFind(t, name)
<1>1. ASSUME NEW u \in Task, ExportsOf(u, name) # {}
      PROVE  \E e \in TabEntry : /\ InTable(u, e) /\ e.type = "export" /\ e.name = name
                                 /\ e.val = table[u][Min(ExportsOf(u, name))].val
  <2> DEFINE S == ExportsOf(u, name)
  <2>1. table[u] \in Seq(TabEntry) /\ S \subseteq DOMAIN table[u] /\ DOMAIN table[u] \subseteq Nat
    BY DEF ExportsOf, Tables
  <2> HIDE DEF S
  <2>2. Min(S) \in S
    BY <1>1, <2>1, MinIs DEF S
  <2>3. PICK k : k = Min(S)
    OBVIOUS
  <2>4. k \in DOMAIN table[u] /\ table[u][k].type = "export" /\ table[u][k].name = name
    BY <2>2, <2>3 DEF S, ExportsOf
  <2>5. table[u][k] \in TabEntry
    BY <2>1, <2>4
  <2> QED BY <2>3, <2>4, <2>5 DEF InTable, S
<1>2. Adam \in Task
  BY DEF Task
<1> QED BY <1>1, <1>2 DEF HashFind

-----------------------------------------------------------------------------
(***************************************************************************)
(* Types and stages.                                                       *)
(***************************************************************************)
Base == LoaderTypes /\ Stages /\ AtBoundary /\ Sorted(syms)

\* Whatever is bound is bound to an address.
LEMMA BindIs ==
  ASSUME slot \in [Slot -> Nat], NEW xs, NEW val \in Nat, slot' = Bind(xs, val)
  PROVE  /\ slot' \in [Slot -> Nat]
         /\ \A x \in Slot : slot'[x] = IF x \in xs THEN val ELSE slot[x]
  BY DEF Bind

LEMMA ThisIs ==
  ASSUME LoaderTypes, ~AtEnd
  PROVE  /\ load.module \in Modules /\ load.task \in Task /\ load.src \in DOMAIN PatchTable[load.module]
         /\ This = PatchTable[load.module][load.src] /\ This \in PatchEntry
         /\ This.name \in STRING /\ This.val \in Nat /\ load.src \in Nat
<1>1. /\ load.module \in Modules /\ load.task \in Task /\ load.src \in Nat \ {0}
      /\ load.src <= Len(PatchTable[load.module])
  BY PatchEntries DEF LoaderTypes, AtEnd
<1>2. load.src \in DOMAIN PatchTable[load.module]
  BY <1>1, PatchEntries
<1>3. This \in PatchEntry
  BY <1>1, <1>2, PatchEntries DEF This
<1> QED BY <1>1, <1>2, <1>3 DEF PatchEntry, This

\* An address of the host's functions or thunks, and of what the linker sees.
LEMMA ExportsAre ==
  ASSUME NEW e, e \in UNION {ExportsIn(m) : m \in Static}
  PROVE  /\ e.name \in STRING /\ e.val \in Nat \ {0}
         /\ \E y \in Slot : /\ y[1] \in Static /\ PatchTable[y[1]][y[2]].etype = "export"
                            /\ PatchTable[y[1]][y[2]] = e
<1>1. Static \subseteq Modules
  BY Links DEF Static, Modules
<1>2. PICK m \in Static : e \in ExportsIn(m)
  OBVIOUS
<1> DEFINE D == DOMAIN PatchTable[m]
<1>3. PICK k \in D : e = PatchTable[m][k] /\ e.etype = "export"
  BY <1>2 DEF ExportsIn
<1>4. e \in PatchEntry /\ e.val # 0 /\ <<m, k>> \in Slot
  BY <1>1, <1>2, <1>3, PatchEntries, Addresses, Slots
<1> QED BY <1>2, <1>3, <1>4 DEF PatchEntry

LEMMA LinkedToIs ==
  ASSUME NEW x \in Slot, x[1] \in Static, Import(x)
  PROVE  /\ LinkedTo(NameAt(x)) \in Nat \ {0}
         /\ \/ \E e \in UNION {ExportsIn(m) : m \in Static} :
                 e.name = NameAt(x) /\ e.val = LinkedTo(NameAt(x))
            \/ NameAt(x) \in DOMAIN HostAPI /\ HostAPI[NameAt(x)] = LinkedTo(NameAt(x))
            \/ NameAt(x) \in DOMAIN Jit /\ Jit[NameAt(x)] = LinkedTo(NameAt(x))
<1> DEFINE defined == UNION {ExportsIn(m) : m \in Static}
           name == NameAt(x)
<1>1. PICK k : Heads(x[1], k) /\ x \in Group(x[1], k)
  BY OwnGroup
<1>2. /\ k \in DOMAIN PatchTable[x[1]] /\ PatchTable[x[1]][k].etype = "import"
      /\ PatchTable[x[1]][k].name = name /\ name # NoName
  BY <1>1, GroupIs, Slots DEF Heads
<1>3. (name \in Thunks) # (\E f \in defined : f.name = name)
  BY ZenonT(60), <1>2, Links
<1>4. CASE name \in DOMAIN HostAPI
  BY <1>4, Addresses DEF LinkedTo
<1>5. CASE name \notin DOMAIN HostAPI /\ name \in DOMAIN Jit
  BY <1>5, Addresses DEF LinkedTo
<1>6. CASE name \notin DOMAIN HostAPI /\ name \notin DOMAIN Jit
  <2>1. \E f \in defined : f.name = name
    <3> DEFINE here == \E f \in defined : f.name = name
    <3>1. SUFFICES ASSUME ~here PROVE FALSE
      OBVIOUS
    <3>2. (name \in Thunks) = FALSE /\ here = FALSE
      BY <1>6, <3>1 DEF Thunks
    <3> HIDE DEF here
    <3> QED BY <1>3, <3>2, Zenon DEF here
  <2>2. PICK e : e = CHOOSE f \in defined : f.name = name
    OBVIOUS
  <2>3. e \in defined /\ e.name = name
    BY <2>1, <2>2
  <2>4. LinkedTo(name) = e.val
    BY <1>6, <2>2 DEF LinkedTo
  <2> QED BY <2>3, <2>4, ExportsAre
<1> QED BY <1>4, <1>5, <1>6

LEMMA BaseInit == Init => Base
<1> SUFFICES ASSUME Init PROVE Base
  OBVIOUS
<1>1. Kernel \in Modules /\ Adam \in Task /\ Static \subseteq Modules /\ Kernel \in Static
  BY Links DEF Modules, Task, Static
<1>2. /\ load = [module |-> Kernel, task |-> Adam, src |-> 1] /\ syms = <<>>
      /\ table = [t \in Task |-> <<>>]
  BY DEF Init
<1>3. slot \in [Slot -> Nat]
  <2>1. CASE Dynamic
    BY <2>1 DEF Dynamic
  <2>2. CASE Linked
    <3>1. slot = [x \in Slot |-> IF x[1] \in Static /\ Import(x) THEN LinkedTo(NameAt(x)) ELSE 0]
      BY <2>2 DEF Linked, make_object
    <3> QED BY <3>1, LinkedToIs
  <2> QED BY <2>1, <2>2 DEF Init
<1>4. relocs \in [Slot -> Nat]
  BY DEF Init, Dynamic, Linked
<1>5. /\ stage \in {"load_kernel", "inject"} /\ toInject \subseteq write_export_table
      /\ loaded \in [Modules -> Task \cup {"linker", NULL}]
  BY DEF Init, Dynamic, Linked
<1>6. /\ stage = "load_kernel" => \A m \in Modules : loaded[m] = NULL
      /\ stage = "inject" => loaded[Kernel] # NULL
  BY <1>1, Constants DEF Init, Dynamic, Linked
<1>7. Len(PatchTable[Kernel]) \in Nat
  BY <1>1, PatchEntries
<1>8. LoaderTypes
  BY <1>1, <1>2, <1>3, <1>4, <1>5, <1>7 DEF LoaderTypes
<1>9. Sorted(syms)
  BY <1>2 DEF Sorted
<1> QED BY <1>2, <1>5, <1>6, <1>8, <1>9 DEF Base, Stages, AtBoundary, Reading

\* What LoadOneImport and SysSymImportsResolve do to the tables and slots.
LEMMA ImportTypes ==
  ASSUME LoaderTypes, ~AtEnd, LoadOneImport(load.task, load.module, load.src)
  PROVE  slot' \in [Slot -> Nat] /\ Tables'
<1> DEFINE t == load.task
           m == load.module
           k == load.src
           name == PatchTable[m][k].name
           new == [type |-> "import", name |-> name, val |-> 0, module |-> m, entry |-> k]
<1>1. t \in Task /\ m \in Modules /\ k \in Nat /\ name \in STRING /\ Tables /\ slot \in [Slot -> Nat]
  BY ThisIs DEF LoaderTypes, Tables
<1>2. CASE HashFind(t, name) # NULL
  <2>1. slot' = Bind(Group(m, k), HashFind(t, name)) /\ table' = table
    BY <1>2 DEF LoadOneImport
  <2> HIDE DEF t, name
  <2>2. HashFind(t, name) \in Nat
    BY <1>1, <1>2, HashFindIs DEF TabEntry
  <2> QED BY <1>1, <2>1, <2>2, BindIs DEF Tables
<1>3. CASE ~(HashFind(t, name) # NULL)
  <2>1. table' = HashAdd(t, <<new>>) /\ slot' = slot
    BY <1>3 DEF LoadOneImport
  <2>2. new \in TabEntry
    BY <1>1 DEF TabEntry
  <2> HIDE DEF t, new
  <2> QED BY <1>1, <2>1, <2>2, HashAddIs
<1> QED BY <1>2, <1>3

LEMMA ResolveTypes ==
  ASSUME LoaderTypes, NEW t \in Task, NEW name \in STRING, NEW val \in Nat,
         SysSymImportsResolve(t, name, val)
  PROVE  slot' \in [Slot -> Nat] /\ Tables'
<1>1. slot \in [Slot -> Nat] /\ Tables
  BY DEF LoaderTypes, Tables
<1>2. PICK xs : slot' = Bind(xs, val)
  BY DEF SysSymImportsResolve
<1>3. slot' \in [Slot -> Nat]
  BY <1>1, <1>2, BindIs
<1>4. PICK new : new = [type |-> "export", name |-> name, val |-> val, module |-> NULL, entry |-> 0]
  OBVIOUS
<1>5. Tables'
  BY <1>1, <1>4, ResolveIs
<1> QED BY <1>3, <1>5

LEMMA OneMoreTypes ==
  ASSUME NEW S, NEW f \in [S -> Nat], NEW x
  PROVE  [f EXCEPT ![x] = @ + 1] \in [S -> Nat]
<1> DEFINE g == [f EXCEPT ![x] = @ + 1]
<1>1. /\ DOMAIN g = S /\ g = [y \in S |-> g[y]]
      /\ \A y \in S : g[y] = IF y = x THEN f[y] + 1 ELSE f[y]
  BY Zenon
<1> HIDE DEF g
<1>2. ASSUME NEW y \in S PROVE g[y] \in Nat
  <2>1. f[y] \in Nat
    BY Zenon
  <2>2. f[y] + 1 \in Nat
    BY <2>1
  <2> QED BY Zenon, <1>1, <2>1, <2>2
<1>3. g \in [S -> Nat]
  BY Zenon, <1>1, <1>2
<1> QED BY Zenon, <1>3 DEF g

LEMMA ReaderTypes ==
  ASSUME LoaderTypes, Sorted(syms), ~AtEnd, load_kernel \/ (LoadPass1 /\ ~LoadEnd)
  PROVE  /\ table' \in [Task -> Seq(TabEntry)] /\ slot' \in [Slot -> Nat]
         /\ relocs' \in [Slot -> Nat] /\ syms' \in Seq(Sym) /\ Sorted(syms')
<1>1. /\ load.module \in Modules /\ load.task \in Task /\ load.src \in Nat
      /\ This \in PatchEntry /\ This.name \in STRING /\ This.val \in Nat
  BY ThisIs
<1>2. /\ Tables /\ slot \in [Slot -> Nat] /\ relocs \in [Slot -> Nat] /\ syms \in Seq(Sym)
  BY DEF LoaderTypes, Tables
<1>3. addsym(This.name, This.val) => syms' \in Seq(Sym) /\ Sorted(syms')
  BY <1>1, <1>2, AddsymIs
<1>4. CASE KernelExport
  BY <1>2, <1>3, <1>4 DEF KernelExport, Tables
<1>5. CASE KernelImport
  <2>1. UNCHANGED <<table, relocs, syms>>
    BY <1>5 DEF KernelImport
  <2>2. CASE This.name \in DOMAIN HostAPI
    <3>1. PICK xs : slot' = Bind(xs, HostAPI[This.name])
      BY <1>5, <2>2 DEF KernelImport
    <3>2. HostAPI[This.name] \in Nat
      BY <2>2, Addresses
    <3>3. slot' \in [Slot -> Nat]
      BY <1>2, <3>1, <3>2, BindIs
    <3> QED BY <1>2, <2>1, <3>3 DEF Tables
  <2>3. CASE This.name \notin DOMAIN HostAPI
    BY <1>2, <1>5, <2>1, <2>3 DEF KernelImport, Tables
  <2> QED BY <2>2, <2>3
<1>6. CASE KernelAbsAddr \/ KernelMain \/ LoadAbsAddr \/ LoadMain
  <2>1. UNCHANGED <<table, slot, syms>> /\ (Relocate \/ UNCHANGED relocs)
    BY <1>6 DEF KernelAbsAddr, KernelMain, LoadAbsAddr, LoadMain
  <2>2. ASSUME NEW x PROVE [relocs EXCEPT ![x] = @ + 1] \in [Slot -> Nat]
    <3>1. relocs \in [Slot -> Nat]
      BY <1>2
    <3> QED BY Zenon, <3>1, OneMoreTypes
  <2>3. relocs' \in [Slot -> Nat]
    BY <1>2, <2>1, <2>2 DEF Relocate
  <2> QED BY <1>2, <2>1, <2>3 DEF Tables
<1>7. CASE LoadExport
  <2>1. SysSymImportsResolve(load.task, This.name, This.val) /\ UNCHANGED relocs
    BY <1>7 DEF LoadExport
  <2>2. slot' \in [Slot -> Nat] /\ Tables'
    BY <1>1, <2>1, ResolveTypes
  <2> QED BY <1>2, <1>3, <1>7, <2>1, <2>2 DEF LoadExport, Tables
<1>8. CASE LoadImport
  <2>1. slot' \in [Slot -> Nat] /\ Tables'
    BY <1>8, ImportTypes DEF LoadImport
  <2> QED BY <1>2, <1>8, <2>1 DEF LoadImport, Tables
<1>9. CASE LoadHeap
  <2>1. UNCHANGED <<slot, relocs, syms>>
    BY <1>9 DEF LoadHeap
  <2>2. CASE This.name = NoName
    BY <1>2, <1>9, <2>1, <2>2 DEF LoadHeap, Tables
  <2>3. CASE This.name # NoName
    <3> DEFINE new == [type |-> "export", name |-> This.name, val |-> This.val,
                       module |-> load.module, entry |-> load.src]
    <3>1. table' = HashAdd(load.task, <<new>>)
      BY <1>9, <2>3 DEF LoadHeap
    <3>2. new \in TabEntry
      BY <1>1 DEF TabEntry
    <3> HIDE DEF new
    <3>3. Tables'
      BY <1>1, <1>2, <3>1, <3>2, HashAddIs
    <3> QED BY <1>2, <2>1, <3>3 DEF Tables
  <2> QED BY <2>2, <2>3
<1> QED BY <1>4, <1>5, <1>6, <1>7, <1>8, <1>9 DEF load_kernel, LoadPass1

LEMMA BaseNext ==
  ASSUME Base, LoaderNext \/ UNCHANGED vars PROVE Base'
<1> USE DEF Reading
<1>1. LoaderTypes /\ Stages /\ AtBoundary /\ Sorted(syms)
  BY DEF Base
<1>2. CASE load_kernel \/ (LoadPass1 /\ ~LoadEnd)
  <2>1. Reading /\ Reads /\ UNCHANGED <<stage, loaded, toInject>>
    BY <1>1, <1>2, ReadersRead
  <2>2. /\ load' = [load EXCEPT !.src = load'.src]
        /\ load'.src \in load.src + 1 .. Len(PatchTable[load.module]) + 1
        /\ load.src \in 1 .. Len(PatchTable[load.module])
        /\ \A h \in 1 .. load'.src - 1 : Heads(load.module, h) => ~InGroup(load.module, h, load'.src)
    BY <1>1, <2>1, Reader
  <2>3. /\ load' \in [module : Modules, task : Task, src : Nat \ {0}]
        /\ load'.module = load.module
        /\ load'.src <= Len(PatchTable[load.module]) + 1
    <3>1. load \in [module : Modules, task : Task, src : Nat \ {0}] /\ Len(PatchTable[load.module]) \in Nat
      BY <1>1, PatchEntries DEF LoaderTypes
    <3> QED BY <2>2, <3>1
  <2>4. AtBoundary'
    BY <2>2, <2>3 DEF AtBoundary
  <2>5. Stages'
    BY <1>1, <2>1, <2>3 DEF Stages
  <2>6. LoaderTypes' /\ Sorted(syms')
    <3>1. ~AtEnd
      BY <2>1 DEF Reads
    <3>2. /\ table' \in [Task -> Seq(TabEntry)] /\ slot' \in [Slot -> Nat]
          /\ relocs' \in [Slot -> Nat] /\ syms' \in Seq(Sym) /\ Sorted(syms')
      BY <1>1, <1>2, <3>1, ReaderTypes
    <3> QED BY <1>1, <2>1, <2>3, <3>2 DEF LoaderTypes
  <2> QED BY <2>4, <2>5, <2>6 DEF Base
<1>3. ASSUME GoTo(1) /\ UNCHANGED <<table, slot, relocs, syms, toInject, loaded>>,
             stage = "load_kernel", stage' \in {"load", "failed"}
      PROVE  Base'
  <2>1. load \in [module : Modules, task : Task, src : Nat \ {0}] /\ load' = [load EXCEPT !.src = 1]
    BY <1>1, <1>3 DEF LoaderTypes, GoTo
  <2>2. /\ load' \in [module : Modules, task : Task, src : Nat \ {0}]
        /\ load'.module = load.module /\ load'.src = 1 /\ Len(PatchTable[load.module]) \in Nat
    BY <2>1, PatchEntries
  <2>3. LoaderTypes' /\ Sorted(syms')
    BY <1>1, <1>3, <2>2 DEF LoaderTypes
  <2>4. Stages' /\ AtBoundary'
    BY <1>1, <1>3, <2>1, <2>2 DEF Stages, AtBoundary, LoaderTypes
  <2> QED BY <2>3, <2>4 DEF Base
<1>4. ASSUME NEW t \in Task, inject_extra_symbols(t) PROVE Base'
  <2>1. PICK e \in toInject : /\ SysSymImportsResolve(t, e.name, e.val)
                              /\ toInject' = toInject \ {e}
    BY <1>4 DEF inject_extra_symbols
  <2>2. e.name \in STRING /\ e.val \in Nat
    BY <1>1, ExportsAre DEF LoaderTypes, write_export_table
  <2>3. slot' \in [Slot -> Nat] /\ Tables'
    BY <1>1, <2>1, <2>2, ResolveTypes
  <2>4. UNCHANGED <<stage, load, relocs, syms, loaded>>
    BY <1>4 DEF inject_extra_symbols
  <2>5. LoaderTypes' /\ Sorted(syms')
    BY <1>1, <2>1, <2>3, <2>4 DEF LoaderTypes, Tables
  <2>6. Stages' /\ AtBoundary'
    BY <1>1, <2>4 DEF Stages, AtBoundary
  <2> QED BY <2>5, <2>6 DEF Base
<1>5. CASE Injected
  BY <1>1, <1>5 DEF Injected, Base, LoaderTypes, Stages, AtBoundary
<1>6. ASSUME NEW t \in Task, NEW m \in Module, Load(t, m) PROVE Base'
  <2>1. /\ stage = "up" /\ loaded[m] = NULL /\ stage' = "load"
        /\ load' = [module |-> m, task |-> t, src |-> 1]
        /\ UNCHANGED <<table, slot, relocs, syms, toInject, loaded>>
    BY <1>6 DEF Load
  <2>2. m \in Modules /\ Len(PatchTable[m]) \in Nat
    BY PatchEntries DEF Modules
  <2>3. LoaderTypes' /\ Sorted(syms')
    BY <1>1, <2>1, <2>2 DEF LoaderTypes
  <2>4. Stages' /\ AtBoundary'
    BY <1>1, <2>1 DEF Stages, AtBoundary
  <2> QED BY <2>3, <2>4 DEF Base
<1>7. CASE LoadEnd
  <2>1. /\ stage = "load" /\ stage' = "up" /\ loaded' = [loaded EXCEPT ![load.module] = load.task]
        /\ UNCHANGED <<load, table, slot, relocs, syms, toInject>>
    BY <1>7 DEF LoadEnd
  <2>2. load.module \in Modules /\ load.task \in Task /\ load.task # NULL
    BY <1>1, Constants DEF LoaderTypes
  <2>3. LoaderTypes' /\ Sorted(syms')
    BY <1>1, <2>1, <2>2 DEF LoaderTypes
  <2>4. Stages' /\ AtBoundary'
    BY <1>1, <2>1, <2>2 DEF Stages, AtBoundary, LoaderTypes
  <2> QED BY <2>3, <2>4 DEF Base
<1>8. CASE UNCHANGED vars
  BY <1>1, <1>8 DEF vars, Base, LoaderTypes, Stages, AtBoundary
<1>9. loader_enter => Base'
  <2> SUFFICES ASSUME loader_enter PROVE Base'
    OBVIOUS
  <2>1. /\ GoTo(1) /\ UNCHANGED <<table, slot, relocs, syms, toInject, loaded>>
        /\ stage = "load_kernel" /\ stage' \in {"load", "failed"}
    BY DEF loader_enter
  <2> QED BY <1>3, <2>1
<1> QED BY <1>2, <1>4, <1>5, <1>6, <1>7, <1>8, <1>9 DEF LoaderNext

-----------------------------------------------------------------------------
(***************************************************************************)
(* What is read stays read, and only the reader of LoadPass1 reads more.   *)
(***************************************************************************)
Here(x) == stage = "load" /\ x[1] = load.module /\ loaded[load.module] = NULL

LEMMA ReadsOn ==
  ASSUME Base, LoaderNext \/ UNCHANGED vars, NEW x \in Slot
  PROVE  /\ Read(x) => Read(x)' /\ ReadBy(x[1])' = ReadBy(x[1])
         /\ Read(x)' /\ ~Read(x) =>
              Here(x) /\ LoadPass1 /\ ~LoadEnd /\ x[2] \in load.src .. load'.src - 1
         /\ loaded[x[1]] # NULL => loaded'[x[1]] = loaded[x[1]]
         /\ loaded'[x[1]] # loaded[x[1]] => Here(x) /\ Read(x) /\ loaded'[x[1]] \in Task
<1>1. /\ LoaderTypes /\ Stages /\ AtBoundary /\ x[1] \in Modules /\ x[2] \in 1 .. Len(PatchTable[x[1]])
      /\ Len(PatchTable[x[1]]) \in Nat
  BY Slots, PatchEntries DEF Base
<1>2. /\ load \in [module : Modules, task : Task, src : Nat \ {0}]
      /\ loaded \in [Modules -> Task \cup {"linker", NULL}]
  BY <1>1 DEF LoaderTypes
<1>3. CASE load_kernel \/ (LoadPass1 /\ ~LoadEnd)
  <2>1. Reading /\ Reads /\ UNCHANGED <<stage, loaded, toInject>>
    BY <1>1, <1>3, ReadersRead
  <2>2. load' = [load EXCEPT !.src = load'.src] /\ load'.src \in load.src + 1 .. Len(PatchTable[load.module]) + 1
    BY <1>1, <2>1, Reader
  <2>3. load'.module = load.module /\ load'.task = load.task /\ load'.src > load.src /\ load'.src \in Int
    BY <1>1, <1>2, <2>2
  <2>4. CASE stage = "load"
    <3>1. LoadPass1 /\ ~LoadEnd
      BY <1>3, <2>4 DEF load_kernel, KernelExport, KernelImport, KernelAbsAddr, KernelMain
    <3>2. loaded[load.module] = NULL
      BY <1>1, <2>4 DEF Stages
    <3>3. Read(x) => Read(x)' /\ ReadBy(x[1])' = ReadBy(x[1])
      BY <1>1, <1>2, <2>1, <2>3 DEF Read, ReadBy
    <3>4. Read(x)' /\ ~Read(x) => x[1] = load.module /\ x[2] \in load.src .. load'.src - 1
      BY <1>1, <1>2, <2>1, <2>3 DEF Read
    <3> QED BY <2>1, <2>4, <3>1, <3>2, <3>3, <3>4 DEF Here
  <2>5. CASE stage # "load"
    BY <2>1, <2>3, <2>5 DEF Read, ReadBy
  <2> QED BY <2>4, <2>5
<1>4. CASE loader_enter
  <2>1. stage = "load_kernel" /\ GoTo(1) /\ UNCHANGED loaded
    BY <1>4 DEF loader_enter
  <2>2. load'.src = 1
    BY <1>2, <2>1 DEF GoTo
  <2>3. loaded[x[1]] = NULL
    BY <1>1, <2>1 DEF Stages
  <2> QED BY <1>1, <2>1, <2>2, <2>3 DEF Read
<1>5. CASE (\E t \in Task : inject_extra_symbols(t)) \/ Injected
  <2>1. stage \notin {"load"} /\ stage' \notin {"load"} /\ UNCHANGED <<load, loaded>>
    BY <1>5 DEF inject_extra_symbols, Injected
  <2> QED BY <2>1 DEF Read, ReadBy
<1>6. CASE \E t \in Task, m \in Module : Load(t, m)
  <2>1. stage = "up" /\ load'.src = 1 /\ UNCHANGED loaded
    BY <1>6 DEF Load
  <2> QED BY <1>1, <2>1 DEF Read, ReadBy
<1>7. CASE LoadEnd
  <2>1. /\ stage = "load" /\ stage' = "up" /\ loaded' = [loaded EXCEPT ![load.module] = load.task]
        /\ AtEnd /\ load' = load
    BY <1>7 DEF LoadEnd
  <2>2. load.module \in Modules /\ load.task \in Task /\ load.task # NULL /\ loaded[load.module] = NULL
    BY <1>1, <2>1, Constants DEF LoaderTypes, Stages
  <2>3. \A m \in Modules : loaded'[m] = IF m = load.module THEN load.task ELSE loaded[m]
    BY <1>2, <2>1
  <2>4. x[1] = load.module => Read(x) /\ ReadBy(x[1]) = load.task /\ Here(x)
    BY <1>1, <1>2, <2>1, <2>2 DEF Read, ReadBy, Here, AtEnd
  <2> QED BY <1>1, <2>1, <2>2, <2>3, <2>4 DEF Read, ReadBy
<1>8. CASE UNCHANGED vars
  BY <1>8 DEF vars, Read, ReadBy
<1> QED BY <1>3, <1>4, <1>5, <1>6, <1>7, <1>8 DEF LoaderNext

\* What a name may stand for it still may.
LEMMA ExportedStays ==
  ASSUME Base, LoaderNext \/ UNCHANGED vars, NEW name, NEW val, Exported(name, val)
  PROVE  Exported(name, val)'
<1>1. \A y \in Slot : Read(y) => Read(y)'
  BY ReadsOn
<1> QED BY <1>1 DEF Exported

\* An import that is read now is in the group that is read now.
LEMMA NewImports ==
  ASSUME Base, LoaderNext \/ UNCHANGED vars, NEW x \in Slot, Import(x), Read(x)', ~Read(x)
  PROVE  LoadImport /\ x \in Group(load.module, load.src) /\ Here(x)
<1>1. Here(x) /\ LoadPass1 /\ ~LoadEnd /\ x[2] \in load.src .. load'.src - 1
  BY ReadsOn
<1>2. LoaderTypes /\ AtBoundary
  BY DEF Base
<1>3. Reading /\ Reads
  BY <1>1, <1>2, ReadersRead
<1>4. /\ load.module \in Modules /\ load.src \in Nat /\ load.src \in DOMAIN PatchTable[load.module]
      /\ This = PatchTable[load.module][load.src] /\ x = <<load.module, x[2]>>
  BY <1>1, <1>2, <1>3, ThisIs, Slots DEF Reads, Here
<1>5. SkipsGroup
  <2>1. CASE x[2] = load.src
    <3>1. This.etype = "import"
      BY <1>1, <1>4, <2>1 DEF Import, Here
    <3> QED BY <1>3, <3>1 DEF Reads, SkipsOne
  <2>2. CASE x[2] # load.src
    <3>1. x[2] \in load.src + 1 .. load'.src - 1
      BY <1>1, <1>4, <2>2
    <3>2. PICK k : k = x[2]
      OBVIOUS
    <3> QED BY <1>2, <1>3, <3>1, <3>2, Passes
  <2> QED BY <2>1, <2>2
<1>6. This.etype = "import"
  BY <1>5 DEF SkipsGroup, Heads, This
<1>7. LoadImport
  BY <1>1, <1>6 DEF LoadPass1, LoadExport, LoadAbsAddr, LoadHeap, LoadMain, At, This
<1>8. load'.src = AfterGroup(load.module, load.src)
  BY <1>2, <1>3, <1>5, Reader
<1>9. x[2] \in load.src .. AfterGroup(load.module, load.src) - 1 /\ PatchTable[load.module][x[2]].etype = "import"
  BY <1>1, <1>8 DEF Import, Here
<1>10. x \in Group(load.module, load.src)
  BY <1>4, <1>9 DEF Group
<1> QED BY <1>1, <1>7, <1>10

\* Of what a task has read it has read whole groups.
LEMMA GroupRead ==
  ASSUME Base, NEW m \in Modules, NEW k, Heads(m, k), Read(<<m, k>>), NEW x \in Group(m, k)
  PROVE  Read(x)
<1>1. /\ x \in Slot /\ x[1] = m /\ x[2] \in k .. AfterGroup(m, k) - 1 /\ k \in Nat
      /\ AfterGroup(m, k) \in Int /\ k \in 1 .. Len(PatchTable[m])
      /\ \A j \in k + 1 .. AfterGroup(m, k) - 1 : InGroup(m, k, j)
  BY GroupIs, GroupEnds
<1>2. CASE loaded[m] # NULL
  BY <1>1, <1>2 DEF Read
<1>3. CASE loaded[m] = NULL
  <2>1. stage = "load" /\ load.module = m /\ k < load.src /\ load.src \in Nat
    BY <1>1, <1>3 DEF Read, Base, LoaderTypes
  <2>2. ~InGroup(m, k, load.src)
    BY <1>1, <2>1 DEF Base, AtBoundary, Reading
  <2>3. ~(load.src \in k + 1 .. AfterGroup(m, k) - 1)
    BY <1>1, <2>2
  <2> QED BY <1>1, <2>1, <2>3 DEF Read
<1> QED BY <1>2, <1>3

\* And nothing of the group that the reader of LoadPass1 is at.
LEMMA GroupUnread ==
  ASSUME Base, stage = "load", Heads(load.module, load.src), NEW x \in Group(load.module, load.src)
  PROVE  ~Read(x)
<1>1. /\ load.module \in Modules /\ load.src \in Nat /\ loaded[load.module] = NULL
  BY DEF Base, LoaderTypes, Stages
<1>2. x[1] = load.module /\ x[2] \in load.src .. AfterGroup(load.module, load.src) - 1
  BY <1>1, GroupIs
<1>3. AfterGroup(load.module, load.src) \in Int
  BY <1>1, GroupEnds
<1> QED BY <1>1, <1>2, <1>3 DEF Read

-----------------------------------------------------------------------------
(***************************************************************************)
(* Imports: the invariant.                                                 *)
(***************************************************************************)
\* An entry of a hash table exports what was exported, or is the head of a group
\* that the table's task has read and that is bound to nothing, or to the host.
HostName(x) == NameAt(x) \in DOMAIN HostAPI
Loose(x) == slot[x] = 0 \/ HostName(x)
ExportOk(e) == e.type = "export" => e.val # 0 /\ Exported(e.name, e.val)
ImportOk(t, e) ==
  e.type = "import" =>
    /\ e.module \in Modules /\ Heads(e.module, e.entry)
    /\ PatchTable[e.module][e.entry].name = e.name
    /\ Read(<<e.module, e.entry>>) /\ ReadBy(e.module) = t
    /\ \A x \in Group(e.module, e.entry) : Loose(x)
TableSound == \A t \in Task, e \in TabEntry : InTable(t, e) => ExportOk(e) /\ ImportOk(t, e)

\* What is not read yet is bound by load_kernel at most.
Unread == \A x \in Slot : slot[x] # 0 /\ ~Read(x) => HostName(x)

Kept(x) == \E t \in Task, e \in TabEntry :
             t = ReadBy(x[1]) /\ InTable(t, e) /\ e.type = "import" /\ x \in Group(e.module, e.entry)
Remembered == \A x \in Slot : Import(x) /\ Read(x) /\ slot[x] = 0 => Kept(x)

Prelinked == stage = "inject" => \A m \in Static : loaded[m] # NULL

Sound == TableSound /\ Unread /\ BoundByName /\ Remembered /\ Prelinked

Rebinds(x) == slot[x] # 0 /\ slot'[x] # slot[x]

\* A step that binds xs to val, adds the entries N to the tables and lets W wait no
\* longer, keeps all that if it binds what is loose to what its name stands for, if
\* it binds all that W waits for and nothing that others wait for, and if it binds
\* or notes what it reads.
BindsWell(xs, val) ==
  /\ val \in Nat \ {0} /\ slot' = Bind(xs, val)
  /\ \A x \in Slot : x \in xs => Loose(x) /\ Exported(NameAt(x), val)' /\ (Read(x)' \/ HostName(x))
NotesWell(N) == \A t \in Task, e \in TabEntry : <<t, e>> \in N => ExportOk(e)' /\ ImportOk(t, e)'
WakesWell(W, xs) ==
  \A t \in Task, e \in TabEntry : InTable(t, e) /\ e.type = "import" =>
    IF <<t, e>> \in W THEN Group(e.module, e.entry) \subseteq xs
    ELSE \A x \in Group(e.module, e.entry) : x \in xs => HostName(x)
ReadsWell(xs, N) ==
  \A x \in Slot : Import(x) /\ Read(x)' /\ ~Read(x) /\ x \notin xs =>
    \E t \in Task, e \in TabEntry : /\ t = ReadBy(x[1])' /\ <<t, e>> \in N
                                    /\ e.type = "import" /\ x \in Group(e.module, e.entry)

SoundNext == /\ TableSound' /\ Unread' /\ BoundByName' /\ Remembered'
             /\ \A x \in Slot : Rebinds(x) => HostName(x)

LEMMA SoundStep ==
  ASSUME Base, Sound, LoaderNext \/ UNCHANGED vars,
         NEW xs, NEW val, BindsWell(xs, val),
         NEW N, NEW W, TableMoves(N, W), NotesWell(N), WakesWell(W, xs), ReadsWell(xs, N)
  PROVE  SoundNext
<1>1. /\ TableSound /\ Unread /\ BoundByName /\ Remembered /\ val \in Nat \ {0}
      /\ slot \in [Slot -> Nat]
  BY DEF Sound, BindsWell, Base, LoaderTypes
<1>2. \A x \in Slot : slot'[x] = IF x \in xs THEN val ELSE slot[x]
  BY <1>1, BindIs DEF BindsWell
<1>3. \A x \in Slot : Read(x) => Read(x)' /\ ReadBy(x[1])' = ReadBy(x[1])
  BY ReadsOn
<1>4. \A x \in Slot : Rebinds(x) => HostName(x)
  BY <1>1, <1>2 DEF BindsWell, Rebinds, Loose
<1>5. Unread'
  <2> SUFFICES ASSUME NEW x \in Slot, slot'[x] # 0, ~Read(x)' PROVE HostName(x)
    BY DEF Unread, HostName
  <2>1. CASE x \in xs
    BY <2>1 DEF BindsWell
  <2>2. CASE x \notin xs
    <3>1. slot[x] # 0 /\ ~Read(x)
      BY <1>2, <1>3, <2>2
    <3> QED BY <1>1, <3>1 DEF Unread
  <2> QED BY <2>1, <2>2
<1>6. BoundByName'
  <2>1. SUFFICES ASSUME NEW x \in Slot, NEW v, v = slot'[x], v # 0, NEW name, name = NameAt(x)
                 PROVE  Exported(name, v)'
    BY DEF BoundByName, Exported
  <2>2. CASE x \in xs
    <3>1. v = val /\ Exported(NameAt(x), val)'
      BY <1>2, <2>1, <2>2 DEF BindsWell
    <3> QED BY <2>1, <3>1
  <2>3. CASE x \notin xs
    <3>1. v = slot[x]
      BY <1>2, <2>1, <2>3
    <3>2. Exported(name, v)
      BY <1>1, <2>1, <3>1 DEF BoundByName
    <3> QED BY <3>2, ExportedStays
  <2> QED BY <2>2, <2>3
<1>7. TableSound'
  <2> SUFFICES ASSUME NEW t \in Task, NEW e \in TabEntry, InTable(t, e)'
               PROVE  ExportOk(e)' /\ ImportOk(t, e)'
    BY DEF TableSound
  <2>1. CASE e.type = "invalid"
    BY <2>1 DEF ExportOk, ImportOk
  <2>2. CASE <<t, e>> \in N
    BY <2>2 DEF NotesWell
  <2>3. CASE e.type # "invalid" /\ <<t, e>> \notin N
    <3>1. InTable(t, e) /\ <<t, e>> \notin W
      BY <2>3 DEF TableMoves
    <3>2. ExportOk(e) /\ ImportOk(t, e)
      BY <1>1, <3>1 DEF TableSound
    <3>3. ExportOk(e)'
      BY <3>2, ExportedStays DEF ExportOk
    <3>4. ImportOk(t, e)'
      <4> SUFFICES ASSUME e.type = "import" PROVE ImportOk(t, e)'
        BY DEF ImportOk
      <4>1. /\ e.module \in Modules /\ Heads(e.module, e.entry)
            /\ PatchTable[e.module][e.entry].name = e.name
            /\ Read(<<e.module, e.entry>>) /\ ReadBy(e.module) = t
            /\ \A x \in Group(e.module, e.entry) : Loose(x)
        BY <3>2 DEF ImportOk
      <4>2. <<e.module, e.entry>> \in Slot
        BY <4>1, Slots DEF Heads
      <4>3. PICK y : y = <<e.module, e.entry>>
        OBVIOUS
      <4>4. Read(<<e.module, e.entry>>)' /\ ReadBy(e.module)' = t
        BY <1>3, <4>1, <4>2, <4>3
      <4>5. ASSUME NEW x \in Group(e.module, e.entry) PROVE Loose(x)'
        <5>1. x \in Slot /\ Loose(x)
          BY <4>1, <4>5, GroupIs
        <5>2. x \in xs => HostName(x)
          BY <3>1, <4>5 DEF WakesWell
        <5> QED BY <1>2, <5>1, <5>2 DEF Loose, HostName
      <4> QED BY <4>1, <4>4, <4>5 DEF ImportOk
    <3> QED BY <3>3, <3>4
  <2> QED BY <2>1, <2>2, <2>3
<1>8. Remembered'
  <2> SUFFICES ASSUME NEW x \in Slot, Import(x), Read(x)', slot'[x] = 0 PROVE Kept(x)'
    BY DEF Remembered, Import
  <2>1. x \notin xs /\ slot[x] = 0
    BY <1>1, <1>2
  <2>2. CASE Read(x)
    <3>1. PICK t \in Task, e \in TabEntry :
            t = ReadBy(x[1]) /\ InTable(t, e) /\ e.type = "import" /\ x \in Group(e.module, e.entry)
      BY <1>1, <2>1, <2>2 DEF Remembered, Kept
    <3>2. <<t, e>> \notin W
      BY <2>1, <3>1 DEF WakesWell
    <3>3. InTable(t, e)' /\ t = ReadBy(x[1])'
      BY <1>3, <2>2, <3>1, <3>2 DEF TableMoves
    <3> QED BY <3>1, <3>3 DEF Kept
  <2>3. CASE ~Read(x)
    <3>1. PICK t \in Task, e \in TabEntry : /\ t = ReadBy(x[1])' /\ <<t, e>> \in N
                                            /\ e.type = "import" /\ x \in Group(e.module, e.entry)
      BY <2>1, <2>3 DEF ReadsWell
    <3>2. InTable(t, e)'
      BY <3>1 DEF TableMoves
    <3> QED BY <3>1, <3>2 DEF Kept
  <2> QED BY <2>2, <2>3
<1> QED BY <1>4, <1>5, <1>6, <1>7, <1>8 DEF SoundNext

LEMMA NoBinding == ASSUME slot \in [Slot -> Nat], UNCHANGED slot PROVE BindsWell({}, 1) /\ WakesWell({}, {})
<1>1. slot = Bind({}, 1)
  BY DEF Bind
<1> QED BY <1>1 DEF BindsWell, WakesWell

LEMMA NothingRead ==
  ASSUME Base, LoaderNext \/ UNCHANGED vars, ~LoadImport, NEW xs, NEW N PROVE ReadsWell(xs, N)
  BY NewImports DEF ReadsWell

LEMMA SoundQuiet ==
  ASSUME Base, Sound, LoaderNext \/ UNCHANGED vars, ~LoadImport, UNCHANGED <<slot, table>>
  PROVE  SoundNext
<1>1. BindsWell({}, 1) /\ WakesWell({}, {})
  BY NoBinding DEF Base, LoaderTypes
<1>2. TableMoves({}, {}) /\ NotesWell({})
  BY KeptTable DEF NotesWell
<1>3. ReadsWell({}, {})
  BY NothingRead
<1> QED BY <1>1, <1>2, <1>3, SoundStep

\* An import that load_kernel binds is one of the host's.
LEMMA SoundKernelImport ==
  ASSUME Base, Sound, KernelImport PROVE SoundNext
<1>1. LoaderNext /\ ~LoadImport /\ UNCHANGED table /\ At("import") /\ stage = "load_kernel"
  BY DEF LoaderNext, load_kernel, KernelImport, LoadImport
<1>2. CASE This.name \notin DOMAIN HostAPI
  <2>1. UNCHANGED slot
    BY <1>2 DEF KernelImport
  <2> QED BY <1>1, <2>1, SoundQuiet
<1>3. CASE This.name \in DOMAIN HostAPI
  <2> DEFINE xs == Group(load.module, load.src)
  <2>1. Heads(load.module, load.src) /\ load.module = Kernel /\ load.module \in Modules
    BY <1>1, AtHead DEF Base, Stages, Reading, LoaderTypes
  <2>2. PICK val : val = HostAPI[This.name]
    OBVIOUS
  <2>3. slot' = Bind(xs, val) /\ val \in Nat \ {0}
    BY <1>3, <2>1, <2>2, Addresses DEF KernelImport
  <2>4. ASSUME NEW x, x \in xs PROVE x \in Slot /\ HostName(x) /\ Exported(NameAt(x), val)'
    <3>1. x \in Slot /\ NameAt(x) = This.name
      BY <2>1, <2>4, GroupIs DEF This
    <3>2. NameAt(x) \in DOMAIN HostAPI /\ HostAPI[NameAt(x)] = val
      BY <1>3, <2>2, <3>1
    <3> QED BY <3>1, <3>2 DEF HostName, Exported
  <2> HIDE DEF xs
  <2>6. BindsWell(xs, val) /\ WakesWell({}, xs)
    BY <2>3, <2>4 DEF BindsWell, WakesWell, Loose
  <2>7. TableMoves({}, {}) /\ NotesWell({})
    BY <1>1, KeptTable DEF NotesWell
  <2>8. ReadsWell(xs, {})
    BY <1>1, NothingRead
  <2> QED BY <1>1, <2>6, <2>7, <2>8, SoundStep
<1> QED BY <1>2, <1>3

\* What LoadPass1 exports, its name stands for.
LEMMA ThisExported ==
  ASSUME Base, stage = "load", stage' = "load", ~AtEnd, Skip, This.etype \in {"export", "heap"},
         NEW name, name = This.name, NEW val, val = This.val
  PROVE  name \in STRING /\ val \in Nat \ {0} /\ Exported(name, val)'
<1>1. /\ load.module \in Modules /\ load.src \in DOMAIN PatchTable[load.module] /\ load.src \in Nat
      /\ This = PatchTable[load.module][load.src] /\ name \in STRING /\ val \in Nat
      /\ load \in [module : Modules, task : Task, src : Nat \ {0}]
  BY ThisIs DEF Base, LoaderTypes
<1>2. val # 0
  BY <1>1, Addresses
<1>3. PICK y : y = <<load.module, load.src>>
  OBVIOUS
<1>4. y \in Slot /\ y[1] = load.module /\ y[2] = load.src
  BY <1>1, <1>3, Slots
<1>5. load'.module = load.module /\ load'.src = load.src + 1
  BY <1>1 DEF Skip, GoTo
<1>6. Read(y)'
  BY <1>1, <1>4, <1>5 DEF Read
<1>7. PatchTable[y[1]][y[2]].name = name /\ PatchTable[y[1]][y[2]].val = val
      /\ PatchTable[y[1]][y[2]].etype \in {"export", "heap"}
  BY <1>1, <1>4
<1> QED BY <1>1, <1>2, <1>4, <1>6, <1>7 DEF Exported

LEMMA SoundLoadHeap ==
  ASSUME Base, Sound, LoadHeap PROVE SoundNext
<1>1. LoaderNext /\ ~LoadImport /\ UNCHANGED slot /\ ~AtEnd /\ This.etype = "heap"
      /\ Skip /\ stage = "load" /\ stage' = "load"
  BY DEF LoaderNext, LoadPass1, LoadHeap, LoadImport, At, This
<1>2. CASE This.name = NoName
  <2>1. UNCHANGED table
    BY <1>2 DEF LoadHeap
  <2> QED BY <1>1, <2>1, SoundQuiet
<1>3. CASE This.name # NoName
  <2>1. PICK t : t = load.task
    OBVIOUS
  <2>2. PICK new : new = [type |-> "export", name |-> This.name, val |-> This.val,
                          module |-> load.module, entry |-> load.src]
    OBVIOUS
  <2>3. table' = HashAdd(t, <<new>>)
    BY <1>3, <2>1, <2>2 DEF LoadHeap
  <2>4. new \in TabEntry /\ t \in Task /\ Tables /\ slot \in [Slot -> Nat]
    BY <1>1, <2>1, <2>2, ThisIs DEF Base, TabEntry, LoaderTypes, Tables
  <2>5. TableMoves({<<t, new>>}, {})
    BY <2>3, <2>4, HashAddIs
  <2>6. new.type = "export" /\ new.name = This.name /\ new.val = This.val
    BY <2>2
  <2>7. new.val # 0 /\ Exported(new.name, new.val)'
    <3>1. PICK name, val : name = new.name /\ val = new.val
      OBVIOUS
    <3> QED BY <1>1, <2>6, <3>1, ThisExported
  <2>8. NotesWell({<<t, new>>})
    BY <2>6, <2>7 DEF NotesWell, ExportOk, ImportOk
  <2>9. BindsWell({}, 1) /\ WakesWell({}, {})
    BY <1>1, <2>4, NoBinding
  <2>10. ReadsWell({}, {<<t, new>>})
    BY <1>1, NothingRead
  <2> QED BY <1>1, <2>5, <2>8, <2>9, <2>10, SoundStep
<1> QED BY <1>2, <1>3

\* LoadOneImport binds or notes the group it is at, which is loose and which nobody
\* waits for.
LEMMA SoundLoadImport ==
  ASSUME Base, Sound, LoadImport PROVE SoundNext
<1>1. /\ LoaderNext /\ stage = "load" /\ stage' = "load" /\ At("import") /\ ~AtEnd /\ Tables
      /\ LoaderTypes /\ Stages /\ AtBoundary /\ TableSound /\ Unread
      /\ slot \in [Slot -> Nat]
  BY DEF LoaderNext, LoadPass1, LoadImport, At, Base, Sound, LoaderTypes, Tables
<1>2. PICK t, m, k, name : t = load.task /\ m = load.module /\ k = load.src /\ name = This.name
  OBVIOUS
<1>3. /\ t \in Task /\ m \in Modules /\ k \in Nat /\ name \in STRING
      /\ name = PatchTable[m][k].name /\ loaded[m] = NULL
      /\ load \in [module : Modules, task : Task, src : Nat \ {0}]
  BY <1>1, <1>2, ThisIs DEF Stages, LoaderTypes
<1>4. Heads(m, k)
  BY <1>1, <1>2, AtHead DEF Reading
<1>5. k \in DOMAIN PatchTable[m] /\ PatchTable[m][k].etype = "import"
  BY <1>4 DEF Heads
<1>6. load'.src = AfterGroup(m, k) /\ load'.module = m /\ load'.task = t /\ UNCHANGED <<loaded, stage>>
      /\ k < AfterGroup(m, k) /\ AfterGroup(m, k) \in Nat
  BY <1>2, <1>3, <1>4, GroupEnds DEF LoadImport, SkipGroup, GoTo
<1> DEFINE xs == Group(m, k)
<1>7. ASSUME NEW x, x \in xs
      PROVE  /\ x \in Slot /\ x[1] = m /\ NameAt(x) = name /\ Loose(x) /\ ~Read(x) /\ Read(x)'
  <2>1. x \in Slot /\ x[1] = m /\ NameAt(x) = name /\ x[2] \in k .. AfterGroup(m, k) - 1
    BY <1>3, <1>4, <1>7, GroupIs
  <2>2. ~Read(x)
    BY <1>1, <1>2, <1>4, <1>7, GroupUnread
  <2>3. Loose(x)
    BY <1>1, <2>1, <2>2 DEF Unread, Loose
  <2>4. Read(x)'
    BY <1>1, <1>3, <1>6, <2>1 DEF Read
  <2> QED BY <2>1, <2>2, <2>3, <2>4
<1>8. ReadBy(m)' = t
  BY <1>3, <1>6 DEF ReadBy
<1>9. ASSUME NEW x \in Slot, Import(x), Read(x)', ~Read(x) PROVE x \in xs
  BY <1>1, <1>2, <1>9, NewImports
<1> HIDE DEF xs
<1>10. CASE HashFind(t, name) # NULL
  <2>1. PICK val : val = HashFind(t, name)
    OBVIOUS
  <2>2. slot' = Bind(xs, val) /\ table' = table
    BY <1>2, <1>3, <1>10, <2>1 DEF LoadImport, LoadOneImport, xs
  <2>3. PICK u \in Task, e \in TabEntry :
          InTable(u, e) /\ e.type = "export" /\ e.name = name /\ e.val = val
    BY <1>1, <1>3, <1>10, <2>1, HashFindIs
  <2>4. val \in Nat \ {0} /\ Exported(name, val)
    BY <1>1, <2>3 DEF TableSound, ExportOk, TabEntry
  <2>5. Exported(name, val)'
    BY <1>1, <2>4, ExportedStays
  <2>6. BindsWell(xs, val)
    BY <1>7, <2>2, <2>4, <2>5 DEF BindsWell
  <2>7. WakesWell({}, xs)
    <3> SUFFICES ASSUME NEW w \in Task, NEW f \in TabEntry, InTable(w, f), f.type = "import",
                        NEW x \in Group(f.module, f.entry), x \in xs
                 PROVE  FALSE
      BY DEF WakesWell
    <3>1. f.module \in Modules /\ Heads(f.module, f.entry) /\ Read(<<f.module, f.entry>>)
      BY <1>1 DEF TableSound, ImportOk
    <3>2. Read(x)
      BY <3>1, GroupRead
    <3> QED BY <1>7, <3>2
  <2>8. TableMoves({}, {}) /\ NotesWell({})
    BY <2>2, KeptTable DEF NotesWell
  <2>9. ReadsWell(xs, {})
    BY <1>9 DEF ReadsWell
  <2> QED BY <1>1, <2>6, <2>7, <2>8, <2>9, SoundStep
<1>11. CASE ~(HashFind(t, name) # NULL)
  <2>1. PICK new : new = [type |-> "import", name |-> name, val |-> 0, module |-> m, entry |-> k]
    OBVIOUS
  <2>2. table' = HashAdd(t, <<new>>) /\ slot' = slot
    BY <1>2, <1>3, <1>11, <2>1 DEF LoadImport, LoadOneImport
  <2>3. /\ new \in TabEntry /\ new.type = "import" /\ new.name = name
        /\ new.module = m /\ new.entry = k
    BY <1>3, <2>1 DEF TabEntry
  <2>4. TableMoves({<<t, new>>}, {})
    BY <1>1, <1>3, <2>2, <2>3, HashAddIs
  <2>5. BindsWell({}, 1) /\ WakesWell({}, {})
    BY <1>1, <2>2, NoBinding
  <2>6. NotesWell({<<t, new>>})
    <3>1. PICK y : y = <<m, k>>
      OBVIOUS
    <3>2. y[1] = m /\ y[2] = k
      BY <3>1
    <3>3. Read(y)'
      BY <1>1, <1>3, <1>6, <3>2 DEF Read
    <3>4. \A x \in xs : Loose(x)'
      BY <1>7, <2>2 DEF Loose, HostName
    <3>5. ImportOk(t, new)'
      <4>1. Read(<<new.module, new.entry>>)'
        BY <2>3, <3>1, <3>3
      <4> QED BY <1>3, <1>4, <1>8, <2>3, <3>4, <4>1 DEF ImportOk, xs
    <3>6. ExportOk(new)'
      BY <2>3 DEF ExportOk
    <3> QED BY <3>5, <3>6 DEF NotesWell
  <2>7. ReadsWell({}, {<<t, new>>})
    <3> SUFFICES ASSUME NEW x \in Slot, Import(x), Read(x)', ~Read(x)
                 PROVE  \E u \in Task, e \in TabEntry :
                          /\ u = ReadBy(x[1])' /\ <<u, e>> \in {<<t, new>>}
                          /\ e.type = "import" /\ x \in Group(e.module, e.entry)
      BY DEF ReadsWell
    <3>1. x \in xs
      BY <1>9
    <3>2. x[1] = m
      BY <1>7, <3>1
    <3> QED BY <1>3, <1>8, <2>3, <3>1, <3>2 DEF xs
  <2> QED BY <1>1, <2>4, <2>5, <2>6, <2>7, SoundStep
<1> QED BY <1>10, <1>11

\* SysSymImportsResolve binds all groups that wait for the name in this table.
LEMMA SoundResolve ==
  ASSUME Base, Sound, LoaderNext, ~LoadImport,
         NEW t \in Task, NEW name \in STRING, NEW val \in Nat \ {0},
         SysSymImportsResolve(t, name, val), Exported(name, val)'
  PROVE  SoundNext
<1>1. Tables /\ TableSound
  BY DEF Base, Sound, LoaderTypes, Tables
<1>2. PICK new : new = [type |-> "export", name |-> name, val |-> val, module |-> NULL, entry |-> 0]
  OBVIOUS
<1>3. TableMoves({<<t, new>>}, WaitsIn(t, name)) /\ new \in TabEntry
  BY <1>1, <1>2, ResolveIs
<1> DEFINE xs == UNION {Group(table[t][i].module, table[t][i].entry) : i \in Waiting(t, name)}
<1>4. slot' = Bind(xs, val)
  BY DEF SysSymImportsResolve
<1>5. ASSUME NEW x, x \in xs
      PROVE  \E e \in TabEntry : InTable(t, e) /\ Waits(e, name) /\ x \in Group(e.module, e.entry)
  <2>1. PICK i \in Waiting(t, name) : x \in Group(table[t][i].module, table[t][i].entry)
    BY <1>5
  <2>2. /\ i \in DOMAIN table[t] /\ Waits(table[t][i], name) /\ table[t] \in Seq(TabEntry)
    BY <1>1, <2>1 DEF Waiting, Waits, Tables
  <2>3. table[t][i] \in TabEntry
    BY <2>2
  <2> QED BY <2>1, <2>2, <2>3 DEF InTable
<1>6. ASSUME NEW e, InTable(t, e), Waits(e, name) PROVE Group(e.module, e.entry) \subseteq xs
  <2>1. PICK i \in DOMAIN table[t] : table[t][i] = e
    BY <1>6 DEF InTable
  <2>2. i \in Waiting(t, name)
    BY <1>6, <2>1 DEF Waiting, Waits
  <2> QED BY <2>1, <2>2
<1> HIDE DEF xs
<1>7. ASSUME NEW x, x \in xs
      PROVE  x \in Slot /\ NameAt(x) = name /\ Loose(x) /\ Read(x)'
  <2>1. PICK e \in TabEntry : InTable(t, e) /\ Waits(e, name) /\ x \in Group(e.module, e.entry)
    BY <1>5, <1>7
  <2>2. /\ e.module \in Modules /\ Heads(e.module, e.entry)
        /\ PatchTable[e.module][e.entry].name = name
        /\ Read(<<e.module, e.entry>>) /\ Loose(x)
    BY <1>1, <2>1 DEF TableSound, ImportOk, Waits
  <2>3. x \in Slot /\ NameAt(x) = name /\ Read(x)
    BY <2>1, <2>2, GroupIs, GroupRead
  <2> QED BY <2>2, <2>3, ReadsOn
<1>8. BindsWell(xs, val)
  BY <1>4, <1>7 DEF BindsWell
<1>9. WakesWell(WaitsIn(t, name), xs)
  <2> SUFFICES ASSUME NEW u \in Task, NEW e \in TabEntry, InTable(u, e), e.type = "import"
               PROVE  IF <<u, e>> \in WaitsIn(t, name) THEN Group(e.module, e.entry) \subseteq xs
                      ELSE \A x \in Group(e.module, e.entry) : x \in xs => HostName(x)
    BY DEF WakesWell
  <2>1. CASE <<u, e>> \in WaitsIn(t, name)
    <3>1. u = t /\ Waits(e, name)
      BY <2>1 DEF WaitsIn
    <3> QED BY <1>6, <2>1, <3>1
  <2>2. CASE <<u, e>> \notin WaitsIn(t, name)
    <3>1. ASSUME NEW x \in Group(e.module, e.entry), x \in xs PROVE FALSE
      <4>1. /\ e.module \in Modules /\ Heads(e.module, e.entry) /\ ReadBy(e.module) = u
            /\ PatchTable[e.module][e.entry].name = e.name
        BY <1>1 DEF TableSound, ImportOk
      <4>2. PICK f \in TabEntry : InTable(t, f) /\ Waits(f, name) /\ x \in Group(f.module, f.entry)
        BY <1>5, <3>1
      <4>3. /\ f.module \in Modules /\ Heads(f.module, f.entry) /\ ReadBy(f.module) = t
            /\ PatchTable[f.module][f.entry].name = name
        BY <1>1, <4>2 DEF TableSound, ImportOk, Waits
      <4>4. x[1] = e.module /\ x[1] = f.module
        BY <4>1, <4>2, <4>3, GroupIs
      <4>5. e.entry = f.entry
        BY <4>1, <4>2, <4>3, <4>4, GroupsApart
      <4>6. u = t /\ e.name = name
        BY <4>1, <4>3, <4>4, <4>5
      <4> QED BY <2>2, <4>6 DEF WaitsIn, Waits
    <3> QED BY <2>2, <3>1
  <2> QED BY <2>1, <2>2
<1>10. NotesWell({<<t, new>>})
  <2>1. new.type = "export" /\ new.name = name /\ new.val = val
    BY <1>2
  <2> QED BY <2>1 DEF NotesWell, ExportOk, ImportOk
<1>11. ReadsWell(xs, {<<t, new>>})
  BY NothingRead
<1> QED BY <1>3, <1>8, <1>9, <1>10, <1>11, SoundStep

LEMMA SoundInit == Init => Sound
<1> SUFFICES ASSUME Init PROVE Sound
  OBVIOUS
<1>1. Base
  BY BaseInit
<1>2. table = [t \in Task |-> <<>>]
  BY DEF Init
<1>3. \A t \in Task : \A e : ~InTable(t, e)
  BY <1>2 DEF InTable
<1>4. TableSound
  BY <1>3 DEF TableSound
<1>5. CASE Dynamic
  <2>1. stage = "load_kernel" /\ slot = [x \in Slot |-> 0] /\ loaded = [m \in Modules |-> NULL]
    BY <1>5 DEF Dynamic
  <2>2. \A x \in Slot : ~Read(x)
    BY <2>1, Slots DEF Read
  <2> QED BY <1>4, <2>1, <2>2 DEF Sound, Unread, BoundByName, Remembered, Prelinked
<1>6. CASE Linked
  <2>1. /\ slot = [x \in Slot |-> IF x[1] \in Static /\ Import(x) THEN LinkedTo(NameAt(x)) ELSE 0]
        /\ loaded = [m \in Modules |-> IF m \in Static THEN "linker" ELSE NULL]
        /\ stage = "inject" /\ Static \subseteq Modules
    BY <1>6, Links DEF Linked, make_object, Static, Modules
  <2>2. \A x \in Slot : (Read(x) <=> x[1] \in Static)
    BY <2>1, Slots, Constants DEF Read
  <2>3. ASSUME NEW x \in Slot, slot[x] # 0 PROVE Read(x) /\ Exported(NameAt(x), slot[x])
    <3>1. x[1] \in Static /\ Import(x) /\ slot[x] = LinkedTo(NameAt(x))
      BY <2>1, <2>3
    <3>2. CASE \E e \in UNION {ExportsIn(m) : m \in Static} :
                 e.name = NameAt(x) /\ e.val = LinkedTo(NameAt(x))
      <4>1. PICK e \in UNION {ExportsIn(m) : m \in Static} :
              e.name = NameAt(x) /\ e.val = LinkedTo(NameAt(x))
        BY <3>2
      <4>2. PICK y \in Slot : /\ y[1] \in Static /\ PatchTable[y[1]][y[2]].etype = "export"
                              /\ PatchTable[y[1]][y[2]] = e
        BY ExportsAre
      <4> QED BY <2>2, <3>1, <4>1, <4>2 DEF Exported
    <3> QED BY <2>2, <3>1, <3>2, LinkedToIs DEF Exported
  <2>4. ASSUME NEW x \in Slot, Import(x), Read(x) PROVE slot[x] # 0
    BY <2>1, <2>2, <2>4, LinkedToIs
  <2>5. Prelinked
    BY <2>1, Constants DEF Prelinked
  <2> QED BY <1>4, <2>3, <2>4, <2>5 DEF Sound, Unread, BoundByName, Remembered
<1> QED BY <1>5, <1>6 DEF Init

LEMMA SoundKept ==
  ASSUME Base, Sound, LoaderNext \/ UNCHANGED vars PROVE SoundNext /\ Sound'
<1>1. Prelinked'
  <2>1. stage' = "inject" => stage = "inject" /\ UNCHANGED loaded
    BY DEF LoaderNext, vars, load_kernel, KernelExport, KernelImport, KernelAbsAddr, KernelMain,
       loader_enter, inject_extra_symbols, Injected, Load,
       LoadPass1, LoadExport, LoadImport, LoadAbsAddr, LoadHeap, LoadMain, LoadEnd
  <2> QED BY <2>1 DEF Sound, Prelinked
<1>2. SoundNext
  <2>1. CASE \/ KernelExport \/ KernelAbsAddr \/ KernelMain \/ loader_enter \/ Injected
             \/ (\E t \in Task, m \in Module : Load(t, m)) \/ LoadAbsAddr \/ LoadMain \/ LoadEnd
             \/ UNCHANGED vars
    <3>1. UNCHANGED <<slot, table>>
      BY <2>1 DEF vars, KernelExport, KernelAbsAddr, KernelMain, loader_enter, Injected, Load,
         LoadAbsAddr, LoadMain, LoadEnd
    <3>2. CASE LoadImport
      BY <3>2, SoundLoadImport
    <3> QED BY <3>1, <3>2, SoundQuiet
  <2>2. CASE \E t \in Task : inject_extra_symbols(t)
    <3>1. PICK t \in Task : inject_extra_symbols(t)
      BY <2>2
    <3>2. PICK e \in toInject : SysSymImportsResolve(t, e.name, e.val)
      BY <3>1 DEF inject_extra_symbols
    <3>3. PICK name, val : name = e.name /\ val = e.val
      OBVIOUS
    <3>4. stage = "inject" /\ ~LoadImport /\ LoaderNext
      BY <2>2 DEF inject_extra_symbols, LoadImport, LoaderNext
    <3>5. e \in UNION {ExportsIn(m) : m \in Static}
      BY DEF Base, LoaderTypes, write_export_table
    <3>6. PICK y \in Slot : /\ y[1] \in Static /\ PatchTable[y[1]][y[2]].etype = "export"
                            /\ PatchTable[y[1]][y[2]] = e
      BY <3>5, ExportsAre
    <3>7. name \in STRING /\ val \in Nat \ {0}
      BY <3>3, <3>5, ExportsAre
    <3>8. Read(y)
      BY <3>4, <3>6 DEF Sound, Prelinked, Read
    <3>9. Exported(name, val)
      BY <3>3, <3>6, <3>8 DEF Exported
    <3>10. Exported(name, val)'
      BY <3>4, <3>9, ExportedStays
    <3> QED BY <3>2, <3>3, <3>4, <3>7, <3>10, SoundResolve
  <2>3. CASE LoadExport
    <3>1. /\ stage = "load" /\ stage' = "load" /\ ~AtEnd /\ Skip /\ This.etype = "export"
          /\ ~LoadImport /\ LoaderNext
      BY <2>3 DEF LoadExport, LoadImport, LoaderNext, LoadPass1, At, This
    <3>2. PICK t, name, val : t = load.task /\ name = This.name /\ val = This.val
      OBVIOUS
    <3>3. name \in STRING /\ val \in Nat \ {0} /\ Exported(name, val)'
      BY <3>1, <3>2, ThisExported
    <3>4. t \in Task /\ SysSymImportsResolve(t, name, val)
      BY <2>3, <3>2 DEF LoadExport, Base, LoaderTypes
    <3> QED BY <3>1, <3>3, <3>4, SoundResolve
  <2> QED BY <2>1, <2>2, <2>3, SoundKernelImport, SoundLoadHeap, SoundLoadImport
          DEF LoaderNext, load_kernel, LoadPass1
<1> QED BY <1>1, <1>2 DEF SoundNext, Sound

\* So nothing is forgotten.
LEMMA SoundIsNoneForgotten == Base /\ Sound => NoneForgotten
<1> SUFFICES ASSUME Base, Sound, NEW x \in Slot, Import(x), Read(x), slot[x] = 0
             PROVE  \E i \in DOMAIN table[ReadBy(x[1])] :
                      LET e == table[ReadBy(x[1])][i]
                      IN  e.type = "import" /\ x \in Group(e.module, e.entry)
  BY DEF NoneForgotten
<1>1. PICK t \in Task, e \in TabEntry :
        t = ReadBy(x[1]) /\ InTable(t, e) /\ e.type = "import" /\ x \in Group(e.module, e.entry)
  BY DEF Sound, Remembered, Kept
<1>2. PICK i \in DOMAIN table[t] : table[t][i] = e
  BY <1>1 DEF InTable
<1> QED BY <1>1, <1>2

LEMMA SoundIsTypeOK == Base /\ Sound => TypeOK
<1> SUFFICES ASSUME Base, Sound PROVE TypeOK
  OBVIOUS
<1>1. LoaderTypes /\ TableSound
  BY DEF Base, Sound
<1>2. ASSUME NEW t \in Task, NEW i \in DOMAIN table[t], table[t][i].type = "import"
      PROVE  LET e == table[t][i] IN
             /\ PatchTable[e.module][e.entry].etype = "import"
             /\ PatchTable[e.module][e.entry].name = e.name
             /\ e.name # NoName
  <2>1. PICK e : e = table[t][i]
    OBVIOUS
  <2>2. table[t] \in Seq(TabEntry)
    BY <1>1 DEF LoaderTypes
  <2>3. e \in TabEntry /\ InTable(t, e)
    BY <2>1, <2>2 DEF InTable
  <2>4. Heads(e.module, e.entry) /\ PatchTable[e.module][e.entry].name = e.name
    BY <1>1, <1>2, <2>1, <2>3 DEF TableSound, ImportOk
  <2> QED BY <2>1, <2>4 DEF Heads
<1>3. /\ stage \in {"load_kernel", "inject", "load", "up", "failed"}
      /\ load.module \in Modules /\ load.task \in Task /\ load.src \in Nat \ {0}
      /\ slot \in [Slot -> Nat]
      /\ loaded \in [Modules -> Task \cup {"linker", NULL}]
  BY <1>1 DEF LoaderTypes
<1> QED BY <1>2, <1>3 DEF TypeOK

-----------------------------------------------------------------------------
(***************************************************************************)
(* Relocation: load_kernel relocates the kernel, LoadPass1 what it reads,  *)
(* the linker what make_object appends.                                    *)
(***************************************************************************)
Passed(x) ==
  \/ loaded[x[1]] # NULL
  \/ x[1] = Kernel /\ stage # "load_kernel"
  \/ Reading /\ load.module = x[1] /\ x[2] < load.src
Relocated(x) ==
  AbsAddr(x) /\ IF loaded[x[1]] = "linker" THEN x \in append_reloc ELSE Passed(x)
Relocs == \A x \in Slot : relocs[x] = IF Relocated(x) THEN 1 ELSE 0

LEMMA SlotOf ==
  ASSUME NEW x \in Slot
  PROVE  /\ x = <<x[1], x[2]>> /\ x[1] \in Modules /\ x[2] \in 1 .. Len(PatchTable[x[1]])
         /\ Len(PatchTable[x[1]]) \in Nat
<1>1. PICK m \in Modules : x \in {m} \X DOMAIN PatchTable[m]
  BY DEF Slot
<1> QED BY <1>1, PatchEntries

LEMMA RelocsInit == Init => Relocs
<1> SUFFICES ASSUME Init, NEW x \in Slot PROVE relocs[x] = IF Relocated(x) THEN 1 ELSE 0
  BY DEF Relocs
<1>1. load.src = 1 /\ load.module = Kernel /\ x[1] \in Modules /\ x[2] \in Nat \ {0}
  BY SlotOf DEF Init
<1>2. CASE Dynamic
  BY <1>1, <1>2, Constants DEF Dynamic, Relocated, Passed
<1>3. CASE Linked
  <2>1. /\ stage = "inject" /\ loaded[x[1]] = IF x[1] \in Static THEN "linker" ELSE NULL
        /\ relocs[x] = IF x \in append_reloc THEN 1 ELSE 0
    BY <1>1, <1>3 DEF Linked
  <2>2. CASE x[1] \in Static
    BY <2>1, <2>2 DEF Relocated, append_reloc
  <2>3. CASE x[1] \notin Static
    <3>1. x[1] # Kernel /\ x \notin append_reloc
      BY <2>3 DEF Static, append_reloc
    <3> QED BY <2>1, <2>3, <3>1, Constants DEF Relocated, Passed, Reading
  <2> QED BY <2>2, <2>3
<1> QED BY <1>2, <1>3 DEF Init

\* A reader has relocated what it was at, and nothing else.
LEMMA RelocatedByReader ==
  ASSUME Base, load_kernel \/ (LoadPass1 /\ ~LoadEnd), NEW x \in Slot
  PROVE  IF At("abs_addr") /\ x = <<load.module, load.src>> /\ ~(x[1] = Kernel /\ stage # "load_kernel")
         THEN Relocated(x)' /\ ~Relocated(x)
         ELSE Relocated(x)' = Relocated(x)
<1>1. LoaderTypes /\ AtBoundary /\ Stages
  BY DEF Base
<1>2. Reading /\ Reads /\ UNCHANGED <<stage, loaded, toInject>>
  BY <1>1, ReadersRead
<1>3. /\ load' = [load EXCEPT !.src = load'.src]
      /\ load'.src \in load.src + 1 .. Len(PatchTable[load.module]) + 1
      /\ load.src \in 1 .. Len(PatchTable[load.module])
      /\ load \in [module : Modules, task : Task, src : Nat \ {0}]
      /\ Len(PatchTable[load.module]) \in Nat /\ DOMAIN PatchTable[load.module] = 1 .. Len(PatchTable[load.module])
  BY <1>1, <1>2, Reader, PatchEntries DEF LoaderTypes
<1>4. load'.module = load.module /\ Reading'
  BY <1>2, <1>3 DEF Reading
<1>5. loaded[load.module] = NULL
  BY <1>1, <1>2, <1>3 DEF Stages, Reading
<1>6. x = <<x[1], x[2]>> /\ x[1] \in Modules /\ x[2] \in Nat
  BY SlotOf
<1>7. CASE x[1] # load.module \/ (x[1] = Kernel /\ stage # "load_kernel")
  <2>1. Passed(x)' = Passed(x)
    BY <1>2, <1>4, <1>7 DEF Passed
  <2>2. Relocated(x)' = Relocated(x)
    BY <1>2, <2>1 DEF Relocated
  <2> QED BY <1>7, <2>2
<1>8. CASE x[1] = load.module /\ ~(x[1] = Kernel /\ stage # "load_kernel")
  <2>1. loaded[x[1]] # "linker"
    BY <1>5, <1>8, Constants
  <2>2. Relocated(x) = (AbsAddr(x) /\ x[2] < load.src) /\ Relocated(x)' = (AbsAddr(x) /\ x[2] < load'.src)
    BY <1>2, <1>4, <1>5, <1>8, <2>1 DEF Relocated, Passed
  <2>3. ASSUME AbsAddr(x) PROVE x[2] < load'.src <=> x[2] < load.src \/ x[2] = load.src
    <3>1. ~(x[2] \in load.src + 1 .. load'.src - 1)
      BY <1>1, <1>2, <1>8, <2>3, SlotOf, PatchEntries, Passes DEF AbsAddr
    <3> QED BY <1>3, <1>6, <3>1
  <2>4. x[2] = load.src => (AbsAddr(x) <=> At("abs_addr"))
    BY <1>3, <1>8 DEF AbsAddr, At, AtEnd
  <2>5. x = <<load.module, load.src>> <=> x[2] = load.src
    BY <1>6, <1>8
  <2>6. ~(load.src < load.src) /\ load.src < load'.src
    BY <1>3
  <2> QED BY <1>8, <2>2, <2>3, <2>4, <2>5, <2>6
<1> QED BY <1>7, <1>8

LEMMA RelocsNext ==
  ASSUME Base, Relocs, LoaderNext \/ UNCHANGED vars PROVE Relocs'
<1> SUFFICES ASSUME NEW x \in Slot PROVE relocs'[x] = IF Relocated(x)' THEN 1 ELSE 0
  BY DEF Relocs
<1>1. /\ LoaderTypes /\ Stages /\ relocs \in [Slot -> Nat] /\ relocs[x] = IF Relocated(x) THEN 1 ELSE 0
      /\ load \in [module : Modules, task : Task, src : Nat \ {0}]
      /\ loaded \in [Modules -> Task \cup {"linker", NULL}]
  BY DEF Base, LoaderTypes, Relocs
<1>2. /\ x = <<x[1], x[2]>> /\ x[1] \in Modules /\ x[2] \in 1 .. Len(PatchTable[x[1]])
      /\ Len(PatchTable[x[1]]) \in Nat
  BY SlotOf
<1>3. ASSUME UNCHANGED relocs, loaded'[x[1]] = "linker" <=> loaded[x[1]] = "linker", Passed(x)' <=> Passed(x)
      PROVE  relocs'[x] = IF Relocated(x)' THEN 1 ELSE 0
  BY <1>1, <1>3 DEF Relocated
<1>4. CASE load_kernel \/ (LoadPass1 /\ ~LoadEnd)
  <2> DEFINE now == At("abs_addr") /\ x = <<load.module, load.src>> /\ ~(x[1] = Kernel /\ stage # "load_kernel")
  <2>1. IF now THEN Relocated(x)' /\ ~Relocated(x) ELSE Relocated(x)' = Relocated(x)
    BY <1>4, RelocatedByReader
  <2>2. relocs' = IF At("abs_addr") /\ ~(load.module = Kernel /\ stage # "load_kernel")
                  THEN [relocs EXCEPT ![<<load.module, load.src>>] = @ + 1] ELSE relocs
    <3>1. CASE KernelAbsAddr \/ LoadAbsAddr
      BY <3>1 DEF KernelAbsAddr, LoadAbsAddr, NoAbss, Relocate
    <3>2. CASE KernelExport \/ KernelImport \/ KernelMain \/ LoadExport \/ LoadImport \/ LoadHeap \/ LoadMain
      BY <3>2 DEF KernelExport, KernelImport, KernelMain, LoadExport, LoadImport, LoadHeap, LoadMain, At
    <3>3. ~(stage = "load_kernel" /\ LoadAbsAddr) /\ (KernelAbsAddr => stage = "load_kernel")
      BY DEF KernelAbsAddr, LoadAbsAddr
    <3> QED BY <1>4, <3>1, <3>2 DEF load_kernel, LoadPass1
  <2>3. relocs'[x] = IF now THEN relocs[x] + 1 ELSE relocs[x]
    <3> DEFINE y == <<load.module, load.src>>
    <3>1. x = y => x[1] = load.module
      OBVIOUS
    <3> HIDE DEF y
    <3>2. relocs' = IF At("abs_addr") /\ ~(load.module = Kernel /\ stage # "load_kernel")
                    THEN [relocs EXCEPT ![y] = @ + 1] ELSE relocs
      BY <2>2 DEF y
    <3>3. now <=> At("abs_addr") /\ x = y /\ ~(load.module = Kernel /\ stage # "load_kernel")
      BY <3>1 DEF y
    <3> HIDE DEF now
    <3> QED BY <1>1, <3>2, <3>3
  <2> QED BY <1>1, <2>1, <2>3
<1>5. CASE loader_enter
  <2>1. /\ stage = "load_kernel" /\ stage' # "load_kernel" /\ load'.module = load.module /\ load'.src = 1
        /\ UNCHANGED <<relocs, loaded>> /\ AtEnd /\ load.module = Kernel
        /\ \A m \in Modules : loaded[m] = NULL
    BY <1>1, <1>5 DEF loader_enter, GoTo, Stages
  <2>2. CASE x[1] = Kernel
    <3>1. x[2] < load.src
      BY <1>1, <1>2, <2>1, <2>2 DEF AtEnd
    <3>2. Passed(x) /\ Passed(x)'
      BY <2>1, <2>2, <3>1 DEF Passed, Reading
    <3> QED BY <1>3, <2>1, <3>2
  <2>3. CASE x[1] # Kernel
    <3>1. ~Passed(x) /\ ~Passed(x)'
      BY <1>2, <2>1, <2>3 DEF Passed, Reading
    <3> QED BY <1>3, <2>1, <3>1
  <2> QED BY <2>2, <2>3
<1>6. CASE (\E t \in Task : inject_extra_symbols(t)) \/ Injected
  <2>1. /\ UNCHANGED <<relocs, loaded>> /\ stage = "inject" /\ stage' \in {"inject", "up"}
    BY <1>6 DEF inject_extra_symbols, Injected
  <2> QED BY <1>3, <2>1 DEF Passed, Reading
<1>7. CASE \E t \in Task, n \in Module : Load(t, n)
  <2>1. /\ UNCHANGED <<relocs, loaded>> /\ stage = "up" /\ stage' = "load" /\ load'.src = 1
    BY <1>7 DEF Load
  <2> QED BY <1>2, <1>3, <2>1 DEF Passed, Reading
<1>8. CASE LoadEnd
  <2>1. /\ UNCHANGED <<load, relocs>> /\ stage = "load" /\ stage' = "up" /\ AtEnd
        /\ loaded' = [loaded EXCEPT ![load.module] = load.task]
        /\ load.task # NULL /\ load.task # "linker" /\ loaded[load.module] = NULL
    BY <1>1, <1>8, Constants DEF LoadEnd, Stages
  <2>2. CASE x[1] = load.module
    <3>1. x[2] < load.src
      BY <1>1, <1>2, <2>1, <2>2 DEF AtEnd
    <3>2. loaded'[x[1]] = load.task /\ loaded[x[1]] = NULL
      BY <1>1, <1>2, <2>1, <2>2
    <3>3. Passed(x) /\ Passed(x)'
      BY <2>1, <2>2, <3>1, <3>2 DEF Passed, Reading
    <3> QED BY <1>3, <2>1, <3>2, <3>3, Constants
  <2>3. CASE x[1] # load.module
    <3>1. loaded'[x[1]] = loaded[x[1]]
      BY <1>1, <1>2, <2>1, <2>3
    <3> QED BY <1>3, <2>1, <2>3, <3>1 DEF Passed, Reading
  <2> QED BY <2>2, <2>3
<1>9. CASE UNCHANGED vars
  BY <1>3, <1>9 DEF vars, Passed, Reading
<1> QED BY <1>4, <1>5, <1>6, <1>7, <1>8, <1>9 DEF LoaderNext

LEMMA RelocsAreOnce == Relocs => RelocatedOnce
<1> SUFFICES ASSUME Relocs, NEW x \in Slot
             PROVE  relocs[x] <= 1 /\ (AbsAddr(x) /\ loaded[x[1]] \in Task => relocs[x] = 1)
  BY DEF RelocatedOnce
<1>1. loaded[x[1]] \in Task => loaded[x[1]] \notin {"linker", NULL}
  BY Constants
<1>2. AbsAddr(x) /\ loaded[x[1]] \in Task => Relocated(x)
  BY <1>1 DEF Relocated, Passed
<1> QED BY <1>2 DEF Relocs

-----------------------------------------------------------------------------
(***************************************************************************)
(* Symbols: whatever was exported is in the list.                          *)
(***************************************************************************)
Named == \A a \in ExportAddresses : \E i \in DOMAIN syms : syms[i].address = a

Shown(y) == \/ Read(y) /\ loaded[y[1]] # "linker"
            \/ stage = "load_kernel" /\ y[1] = Kernel /\ y[2] < load.src

LEMMA ExportAddressesAre ==
  ExportAddresses = {PatchTable[x[1]][x[2]].val : x \in
                       {y \in Slot : PatchTable[y[1]][y[2]].etype = "export" /\ Shown(y)}}
  BY DEF ExportAddresses, Shown

\* Only the exports that a reader is at are added.
LEMMA NewExports ==
  ASSUME Base, LoaderNext \/ UNCHANGED vars, NEW y \in Slot,
         PatchTable[y[1]][y[2]].etype = "export", Shown(y)', ~Shown(y)
  PROVE  addsym(This.name, This.val) /\ ~AtEnd /\ PatchTable[y[1]][y[2]].val = This.val
<1>1. LoaderTypes /\ AtBoundary /\ Stages /\ y[1] \in Modules /\ y[2] \in Nat
      /\ y[2] \in DOMAIN PatchTable[y[1]]
      /\ load \in [module : Modules, task : Task, src : Nat \ {0}]
  BY Slots, PatchEntries DEF Base, LoaderTypes
<1>2. ASSUME load_kernel \/ (LoadPass1 /\ ~LoadEnd), y[1] = load.module, y[2] \in load.src .. load'.src - 1
      PROVE  KernelExport \/ LoadExport
  <2>1. Reading /\ Reads
    BY <1>1, <1>2, ReadersRead
  <2>2. y[2] = load.src
    <3> SUFFICES ASSUME y[2] # load.src PROVE FALSE
      OBVIOUS
    <3>1. PICK k : k = y[2]
      OBVIOUS
    <3>2. k \in load.src + 1 .. load'.src - 1
      BY <1>1, <1>2, <3>1
    <3>3. PatchTable[load.module][k].etype \in {"import", "main"}
      BY <1>1, <2>1, <3>2, Passes
    <3> QED BY <1>2, <3>1, <3>3
  <2>3. This.etype = "export"
    BY <1>2, <2>2 DEF This
  <2> QED BY <1>2, <2>3 DEF load_kernel, LoadPass1, KernelImport, KernelAbsAddr, KernelMain,
             LoadImport, LoadAbsAddr, LoadHeap, LoadMain, At, This
<1>3. ASSUME KernelExport \/ LoadExport, y[1] = load.module, y[2] \in load.src .. load'.src - 1
      PROVE  addsym(This.name, This.val) /\ ~AtEnd /\ PatchTable[y[1]][y[2]].val = This.val
  <2>1. load'.src = load.src + 1
    BY <1>1, <1>3 DEF KernelExport, LoadExport, Skip, GoTo
  <2>2. y[2] = load.src
    BY <1>1, <1>3, <2>1
  <2> QED BY <1>3, <2>2 DEF KernelExport, LoadExport, At, This
<1>4. CASE Read(y)'
  <2>1. ~Read(y)
    <3> SUFFICES ASSUME Read(y) PROVE FALSE
      OBVIOUS
    <3>1. stage' # "load_kernel"
      <4>1. Stages' /\ LoaderTypes'
        BY BaseNext DEF Base
      <4> QED BY <1>1, <1>4, <4>1 DEF Stages, Read
    <3>2. loaded[y[1]] = "linker" /\ loaded'[y[1]] # loaded[y[1]]
      BY <1>4, <3>1 DEF Shown
    <3>3. Here(y)
      BY <3>2, ReadsOn
    <3> QED BY <3>2, <3>3, Constants DEF Here
  <2>2. Here(y) /\ LoadPass1 /\ ~LoadEnd /\ y[2] \in load.src .. load'.src - 1
    BY <1>4, <2>1, ReadsOn
  <2> QED BY <1>2, <1>3, <2>2 DEF Here
<1>5. CASE ~Read(y)'
  <2>1. stage' = "load_kernel" /\ y[1] = Kernel /\ y[2] < load'.src
    BY <1>5 DEF Shown
  <2>2. load_kernel \/ UNCHANGED vars
    BY <2>1 DEF LoaderNext, loader_enter, inject_extra_symbols, Injected, Load,
       LoadPass1, LoadExport, LoadImport, LoadAbsAddr, LoadHeap, LoadMain, LoadEnd
  <2>3. load_kernel
    BY <2>1, <2>2 DEF vars, Shown
  <2>4. stage = "load_kernel"
    BY <2>3 DEF load_kernel, KernelExport, KernelImport, KernelAbsAddr, KernelMain
  <2>5. y[1] = load.module
    BY <1>1, <2>1, <2>4 DEF Stages
  <2>6. ~(y[2] < load.src)
    BY <2>1, <2>4 DEF Shown
  <2>7. load'.src \in load.src + 1 .. Len(PatchTable[load.module]) + 1
        /\ Len(PatchTable[load.module]) \in Nat
    BY <1>1, <2>3, ReadersRead, Reader, PatchEntries
  <2>8. y[2] \in load.src .. load'.src - 1
    BY <1>1, <2>1, <2>6, <2>7
  <2> QED BY <1>2, <1>3, <2>3, <2>5, <2>8
<1> QED BY <1>4, <1>5

LEMMA NamedInit == Init => Named
<1> SUFFICES ASSUME Init, NEW y \in Slot, Shown(y) PROVE FALSE
  BY ExportAddressesAre DEF Named
<1>1. y[1] \in Modules /\ y[2] \in Nat \ {0} /\ load.src = 1
  BY Slots, PatchEntries DEF Init
<1> QED BY <1>1 DEF Init, Dynamic, Linked, Shown, Read

LEMMA NamedNext ==
  ASSUME Base, Named, LoaderNext \/ UNCHANGED vars PROVE Named'
<1>1. LoaderTypes /\ Sorted(syms)
  BY DEF Base
<1>2. \A i \in DOMAIN syms : \E j \in DOMAIN syms' : syms'[j].address = syms[i].address
  <2>1. CASE ~AtEnd /\ addsym(This.name, This.val)
    BY <1>1, <2>1, ThisIs, AddsymIs DEF LoaderTypes
  <2>2. CASE ~(~AtEnd /\ addsym(This.name, This.val))
    <3>1. UNCHANGED syms
      BY <2>2 DEF LoaderNext, vars, load_kernel, KernelExport, KernelImport, KernelAbsAddr, KernelMain,
         loader_enter, inject_extra_symbols, Injected, Load, At,
         LoadPass1, LoadExport, LoadImport, LoadAbsAddr, LoadHeap, LoadMain, LoadEnd
    <3> QED BY <3>1
  <2> QED BY <2>1, <2>2
<1>3. SUFFICES ASSUME NEW y \in Slot, PatchTable[y[1]][y[2]].etype = "export", Shown(y)'
               PROVE  \E j \in DOMAIN syms' : syms'[j].address = PatchTable[y[1]][y[2]].val
  <2>1. ExportAddresses' = {PatchTable[x[1]][x[2]].val : x \in
                              {y \in Slot : PatchTable[y[1]][y[2]].etype = "export" /\ Shown(y)'}}
    BY DEF ExportAddresses, Shown
  <2> QED BY <2>1 DEF Named
<1>4. CASE Shown(y)
  <2>1. PatchTable[y[1]][y[2]].val \in ExportAddresses
    BY <1>3, <1>4, ExportAddressesAre
  <2> QED BY <1>2, <2>1 DEF Named
<1>5. CASE ~Shown(y)
  <2>1. addsym(This.name, This.val) /\ ~AtEnd /\ PatchTable[y[1]][y[2]].val = This.val
    BY <1>3, <1>5, NewExports
  <2>2. \E j \in DOMAIN syms' : syms'[j].address = This.val
    BY <1>1, <2>1, ThisIs, AddsymIs DEF LoaderTypes
  <2> QED BY <2>1, <2>2
<1> QED BY <1>4, <1>5

\* In a list that descends the first that is not above an address is the nearest.
LEMMA NamedIsNearest == Base /\ Named => NearestSymbol
<1> SUFFICES ASSUME Base, Named, NEW a \in ExportAddresses
             PROVE  lookupsym(a) # NULL /\ lookupsym(a).address = a
  BY DEF NearestSymbol
<1> DEFINE S == NotAbove(syms, a)
<1>1. /\ syms \in Seq(Sym) /\ Sorted(syms) /\ DOMAIN syms = 1 .. Len(syms) /\ Len(syms) \in Nat
      /\ \A i \in DOMAIN syms : syms[i].address \in Nat /\ syms[i] # NULL
  <2>1. syms \in Seq(Sym) /\ Sorted(syms)
    BY DEF Base, LoaderTypes
  <2>2. \A i \in DOMAIN syms : syms[i] \in Sym
    BY <2>1
  <2> QED BY <2>1, <2>2, SymList, Constants DEF Sym
<1>2. PICK j \in DOMAIN syms : syms[j].address = a
  BY DEF Named
<1>3. S = {i \in DOMAIN syms : a >= syms[i].address} /\ j \in S
  BY <1>1, <1>2 DEF NotAbove
<1>4. S \subseteq Nat /\ S # {}
  BY <1>1, <1>3
<1> HIDE DEF S
<1>5. PICK k : k = Min(S)
  OBVIOUS
<1>6. k \in S /\ k <= j
  BY <1>3, <1>4, <1>5, MinIs
<1>7. syms[k].address = a
  <2>1. CASE k = j
    BY <1>2, <2>1
  <2>2. CASE k < j
    <3>1. syms[k].address > a /\ a >= syms[k].address
      BY <1>1, <1>2, <1>3, <1>6, <2>2 DEF Sorted
    <3> QED BY <1>1, <1>2, <1>3, <1>6, <3>1
  <2> QED BY <1>1, <1>3, <1>6, <2>1, <2>2
<1>8. lookupsym(a) = syms[k]
  BY <1>4, <1>5 DEF lookupsym, S
<1> QED BY <1>1, <1>3, <1>6, <1>7, <1>8

-----------------------------------------------------------------------------
(***************************************************************************)
(* The invariant of loading.                                               *)
(***************************************************************************)
LoaderInv == Base /\ Sound /\ Relocs /\ Named

LEMMA LoaderInvInit == Init => LoaderInv
  BY BaseInit, SoundInit, RelocsInit, NamedInit DEF LoaderInv

LEMMA LoaderInvNext ==
  ASSUME LoaderInv, LoaderNext \/ UNCHANGED vars
  PROVE  /\ LoaderInv'
         /\ \A x \in Slot : slot[x] # 0 /\ slot'[x] # slot[x] => NameAt(x) \in DOMAIN HostAPI
<1>1. Base' /\ Relocs' /\ Named'
  BY BaseNext, RelocsNext, NamedNext DEF LoaderInv
<1>2. SoundNext /\ Sound'
  BY SoundKept DEF LoaderInv
<1> QED BY <1>1, <1>2 DEF LoaderInv, SoundNext, Rebinds, HostName

LEMMA LoaderInvImplies ==
  LoaderInv => TypeOK /\ NoneForgotten /\ BoundByName /\ RelocatedOnce /\ NearestSymbol
  BY SoundIsTypeOK, SoundIsNoneForgotten, RelocsAreOnce, NamedIsNearest DEF LoaderInv, Sound

-----------------------------------------------------------------------------
(***************************************************************************)
(* The process.                                                            *)
(***************************************************************************)
Mapped == {"arg_parse", "drives", "load_kernel", "install_trap_handlers",
           "loader_enter", "InitRuntime", "_VKSTART64"} \cup Runtime
WithDrives == Mapped \ {"arg_parse", "drives"}
WithFs == WithDrives \ {"load_kernel", "install_trap_handlers"}

Area == {"refused", "host", "kernel", "flat", "fixed"}
Apart == \A a, b \in Area : a # b => area[a] \cap area[b] = {}

\* What each stage of the start leaves behind for those that follow.
Placed ==
  /\ DOMAIN area = Area
  /\ Apart
  /\ area.kernel \in {{}, KernelArea}
  /\ at \in {"init_memory_map", "map flat"} =>
       /\ area.host = Image /\ area.refused \subseteq FixedArea \cup KernelArea
       /\ area.flat = {} /\ area.fixed = {}
  /\ at = "init_memory_map" => kernel_base = NULL
  /\ kernel_base # NULL => area.kernel = kernel_base
  /\ at = "map fixed" => area.flat = FlatArea /\ area.fixed = {}
  /\ at \in Mapped => area.flat = FlatArea /\ area.fixed = FixedArea
Ready ==
  /\ at \in WithDrives => drives = Letter
  /\ at \in WithFs => host_fs = "libc"
  /\ at \notin WithFs \cup {"ended"} => fs = "libc" /\ inside = Nothing
  /\ at # "ended" => status = NULL

-----------------------------------------------------------------------------
(***************************************************************************)
(* The start.                                                              *)
(***************************************************************************)
\* What MAP_FIXED may replace is known: the areas are apart.
LEMMA LayoutApart ==
  /\ FixedArea \cap KernelArea = {} /\ FixedArea \cap Image = {} /\ FixedArea \cap FlatArea = {}
  /\ KernelArea \cap Image = {} /\ KernelArea \cap FlatArea = {} /\ Image \cap FlatArea = {}
<1> DEFINE areas == <<FixedArea, KernelArea, Image, FlatArea>>
<1>1. \A i, j \in 1 .. 4 : i # j => areas[i] \cap areas[j] = {}
  BY Layout
<1>2. areas[1] = FixedArea /\ areas[2] = KernelArea /\ areas[3] = Image /\ areas[4] = FlatArea
  OBVIOUS
<1> HIDE DEF areas
<1> QED BY <1>1, <1>2

\* What mmap gives was free, and is what was asked for unless it is above it.
LEMMA MmapGives ==
  ASSUME NEW hint, NEW p \in Mmap(hint)
  PROVE  p \subseteq Free /\ (p = hint \/ Min(p) > Min(hint))
  BY Zenon DEF Mmap

LEMMA FreeIsApart ==
  ASSUME NEW p, p \subseteq Free, DOMAIN area = Area, NEW a \in Area
  PROVE  p \cap area[a] = {}
  BY DEF Free

LEMMA PlacedInit == ProcInit => Placed /\ Ready
<1> SUFFICES ASSUME ProcInit PROVE Placed /\ Ready
  OBVIOUS
<1>1. PICK refused \in SUBSET (FixedArea \cup KernelArea) :
        area = [refused |-> refused, host |-> Image,
                kernel |-> {}, flat |-> {}, fixed |-> {}]
  BY DEF ProcInit
<1>2. DOMAIN area = Area
  BY <1>1 DEF Area
<1>3. Apart
  BY <1>1, LayoutApart DEF Apart, Area
<1>4. at = "init_memory_map" /\ kernel_base = NULL /\ status = NULL /\ fs = "libc"
      /\ inside = Nothing
  BY DEF ProcInit
<1> QED BY <1>1, <1>2, <1>3, <1>4 DEF Placed, Ready, Mapped, WithDrives, WithFs, Runtime

\* What a step must leave alone that does not map memory.
LEMMA PlacedSame ==
  ASSUME Placed, UNCHANGED <<area, kernel_base>>,
         at' \notin {"init_memory_map", "map flat", "map fixed"},
         at' \in Mapped => at \in Mapped
  PROVE  Placed'
  BY DEF Placed, Apart

LEMMA ApartWith ==
  ASSUME DOMAIN area = Area, Apart, NEW n \in Area, NEW p,
         \A a \in Area : a # n => p \cap area[a] = {},
         area' = [area EXCEPT ![n] = p]
  PROVE  DOMAIN area' = Area /\ Apart'
<1>1. \A a \in Area : area'[a] = IF a = n THEN p ELSE area[a]
  OBVIOUS
<1>2. DOMAIN area' = Area
  OBVIOUS
<1> QED BY <1>1, <1>2 DEF Apart

LEMMA PlacedMapKernel == Placed /\ MapKernel => Placed'
<1> SUFFICES ASSUME Placed, MapKernel PROVE Placed'
  OBVIOUS
<1> USE DEF Goes, Map, exit
<1>1. CASE UNCHANGED <<area, kernel_base>> /\ at' \in {"map flat", "ended"}
  BY <1>1 DEF MapKernel, Placed, Apart, Mapped, Runtime
<1>2. CASE \E p \in Mmap(KernelArea) : KernelMapped(p) /\ at' = "map flat"
                 /\ Map("kernel", p) /\ kernel_base' = KernelArea
  <2>1. PICK p \in Mmap(KernelArea) : KernelMapped(p) /\ Map("kernel", p)
    BY <1>2
  <2>2. p = KernelArea /\ p \subseteq Free
    BY <2>1, MmapGives DEF KernelMapped
  <2>3. \A a \in Area : a # "kernel" => p \cap area[a] = {}
    BY <2>2, FreeIsApart DEF Placed
  <2>4. DOMAIN area' = Area /\ Apart'
    BY <2>1, <2>3, ApartWith DEF Placed, Area
  <2>5. /\ area'.kernel = KernelArea
        /\ \A a \in Area : a # "kernel" => area'[a] = area[a]
    BY <2>1, <2>2 DEF Placed, Area
  <2> QED BY <1>2, <2>4, <2>5 DEF MapKernel, Placed, Mapped, Runtime, Area
<1> QED BY <1>1, <1>2 DEF MapKernel

LEMMA PlacedMapFlat == Placed /\ MapFlat => Placed'
<1> SUFFICES ASSUME Placed, MapFlat PROVE Placed'
  OBVIOUS
<1> USE DEF Goes, Map
<1>1. \A a \in Area : a # "flat" => FlatArea \cap area[a] = {}
  BY LayoutApart DEF MapFlat, Placed, Area
<1>2. DOMAIN area' = Area /\ Apart'
  BY <1>1, ApartWith DEF MapFlat, Placed, Area
<1>3. /\ area'.flat = FlatArea
      /\ \A a \in Area : a # "flat" => area'[a] = area[a]
  BY DEF MapFlat, Placed, Area
<1> QED BY <1>2, <1>3 DEF MapFlat, Placed, Mapped, Runtime, Area

LEMMA PlacedMapFixed == Placed /\ MapFixed => Placed'
<1> SUFFICES ASSUME Placed, MapFixed PROVE Placed'
  OBVIOUS
<1> USE DEF Goes, Map, exit
<1>1. PICK p \in Mmap(FixedArea) :
        IF p = FixedArea THEN at' = "arg_parse" /\ Map("fixed", p)
        ELSE at' = "ended" /\ UNCHANGED area
  BY DEF MapFixed
<1>2. CASE p # FixedArea
  BY <1>1, <1>2 DEF MapFixed, Placed, Apart, Mapped, Runtime
<1>3. CASE p = FixedArea
  <2>1. p = FixedArea /\ p \subseteq Free
    BY <1>3, MmapGives
  <2>2. \A a \in Area : a # "fixed" => p \cap area[a] = {}
    BY <2>1, FreeIsApart DEF Placed
  <2>3. DOMAIN area' = Area /\ Apart'
    BY <1>1, <1>3, <2>2, ApartWith DEF Placed, Area
  <2>4. /\ area'.fixed = FixedArea
        /\ \A a \in Area : a # "fixed" => area'[a] = area[a]
    BY <1>1, <1>3, <2>1 DEF Placed, Area
  <2> QED BY <1>1, <1>3, <2>3, <2>4 DEF MapFixed, Placed, Mapped, Runtime, Area
<1> QED BY <1>2, <1>3

LEMMA PlacedArgParse == Placed /\ arg_parse => Placed'
<1> SUFFICES ASSUME Placed, arg_parse PROVE Placed'
  OBVIOUS
<1>1. PICK p \in Free : area' = [area EXCEPT !.host = @ \cup {p}]
  BY DEF arg_parse
<1>2. \A a \in Area : a # "host" => (area.host \cup {p}) \cap area[a] = {}
  BY ZenonT(60), <1>1, FreeIsApart DEF Placed, Apart, Area, Free
<1>3. area' = [area EXCEPT !["host"] = area.host \cup {p}]
  BY <1>1
<1>4. DOMAIN area' = Area /\ Apart'
  BY <1>2, <1>3, ApartWith DEF Placed, Area
<1>5. \A a \in Area : a # "host" => area'[a] = area[a]
  BY <1>3 DEF Placed
<1>6. at = "arg_parse" /\ at' \in {"ended", "drives"} /\ UNCHANGED kernel_base
  BY DEF arg_parse, exit, Goes
<1> QED BY <1>4, <1>5, <1>6 DEF Placed, Mapped, Runtime, Area

\* The steps of main that map nothing.
LEMMA PlacedMain ==
  ASSUME Placed, MmapFails \/ InitDrive \/ InitOtherDrives \/ LoadKernelFile
                   \/ install_trap_handlers \/ EnterGuest
  PROVE  Placed'
<1> USE DEF exit, Goes, boot
<1>1. CASE MmapFails
  BY <1>1, PlacedSame DEF MmapFails, Mapped, Runtime
<1>2. CASE InitDrive
  BY <1>2, PlacedSame DEF InitDrive, Mapped, Runtime
<1>3. CASE InitOtherDrives
  BY <1>3, PlacedSame DEF InitOtherDrives, Mapped, Runtime
<1>4. CASE LoadKernelFile
  BY <1>4, PlacedSame DEF LoadKernelFile, Mapped, Runtime
<1>5. CASE install_trap_handlers
  BY <1>5, PlacedSame DEF install_trap_handlers, Mapped, Runtime
<1>6. CASE EnterGuest
  BY <1>6, PlacedSame DEF EnterGuest, Mapped, Runtime
<1> QED BY <1>1, <1>2, <1>3, <1>4, <1>5, <1>6

\* Once the guest is entered nothing is mapped, and main is not gone back to.
Running ==
  \/ VSysCall \/ VSysCallReturns \/ VSysCallExits
  \/ Thunk \/ ThunkReturns \/ InjectSymbol \/ InjectReturns
  \/ Trap \/ HandlerReturns \/ bugcheck
  \/ GuestLoads \/ RuntimeStartOS

LEMMA RunningKeeps ==
  ASSUME Ready, Running
  PROVE  /\ UNCHANGED <<boot, host_fs>>
         /\ \/ UNCHANGED <<at, status>>
            \/ at' = "ended"
            \/ at \in WithFs /\ at' \in WithFs /\ UNCHANGED status
<1> USE DEF exit, Goes, boot, regs, WithFs, WithDrives, Mapped, Runtime
<1>1. CASE VSysCall
  BY <1>1 DEF VSysCall
<1>2. CASE VSysCallReturns
  <2>1. UNCHANGED <<boot, host_fs, status>>
    BY <1>2 DEF VSysCallReturns
  <2>2. at' = IF at = "InitRuntime" THEN "_VKSTART64"
              ELSE IF at = "_VKSTART64" THEN "InitRuntime3" ELSE at
    BY <1>2, Zenon DEF VSysCallReturns
  <2> QED BY <2>1, <2>2
<1>3. CASE VSysCallExits
  BY <1>3 DEF VSysCallExits
<1>4. CASE Thunk
  BY <1>4 DEF Thunk
<1>5. CASE ThunkReturns
  BY <1>5 DEF ThunkReturns
<1>6. CASE InjectSymbol
  BY <1>6 DEF InjectSymbol
<1>7. CASE InjectReturns
  BY <1>7 DEF InjectReturns, Injecting, Within, Ready, Nothing, Inside, Call
<1>8. CASE Trap
  BY <1>8 DEF Trap
<1>9. CASE HandlerReturns
  BY <1>9 DEF HandlerReturns
<1>10. CASE bugcheck
  BY <1>10 DEF bugcheck
<1>11. CASE GuestLoads
  BY <1>11 DEF GuestLoads
<1>12. CASE RuntimeStartOS
  BY <1>12 DEF RuntimeStartOS, Guest
<1> QED BY <1>1, <1>2, <1>3, <1>4, <1>5, <1>6, <1>7, <1>8, <1>9, <1>10, <1>11, <1>12
     DEF Running

\* All of them are steps of a guest that was entered; its process may have ended.
LEMMA RunningFromGuest ==
  ASSUME Ready, Running
  PROVE  at \in WithFs \cup {"ended"}
<1> SUFFICES ASSUME at \notin WithFs \cup {"ended"} PROVE FALSE
  OBVIOUS
<1>1. inside.fn = "nothing" /\ ~Guest /\ inside = Nothing
  BY DEF Ready, Nothing, Inside, Call, Guest, WithFs, WithDrives, Mapped, Runtime
<1>2. ~(VSysCall \/ Thunk \/ Trap \/ GuestLoads \/ RuntimeStartOS)
  BY <1>1 DEF VSysCall, Thunk, Trap, GuestLoads, RuntimeStartOS
<1>3. ~(VSysCallReturns \/ VSysCallExits \/ ThunkReturns)
  BY <1>1 DEF VSysCallReturns, VSysCallExits, ThunkReturns, Within
<1>4. ~(InjectSymbol \/ InjectReturns \/ HandlerReturns \/ bugcheck)
  BY <1>1 DEF InjectSymbol, InjectReturns, HandlerReturns, bugcheck, Injecting, Within
<1> QED BY <1>2, <1>3, <1>4 DEF Running

LEMMA ReadyNext == Ready /\ Next => Ready'
<1> SUFFICES ASSUME Ready, Next PROVE Ready'
  OBVIOUS
<1> USE DEF exit, Goes, boot, regs, WithFs, WithDrives, Mapped, Runtime
<1>1. CASE MapKernel
  BY <1>1 DEF MapKernel, Ready
<1>2. CASE MapFlat
  BY <1>2 DEF MapFlat, Ready
<1>3. CASE MapFixed
  BY <1>3 DEF MapFixed, Ready
<1>4. CASE MmapFails
  BY <1>4 DEF MmapFails, Ready
<1>5. CASE arg_parse
  BY <1>5 DEF arg_parse, Ready
<1>6. CASE InitDrive
  <2>1. /\ UNCHANGED regs /\ at = "drives"
        /\ UNCHANGED <<at, status>> \/ at' = "ended"
    BY <1>6, Zenon DEF InitDrive
  <2> QED BY <2>1 DEF Ready
<1>7. CASE InitOtherDrives
  BY <1>7 DEF InitOtherDrives, Ready
<1>8. CASE LoadKernelFile
  BY <1>8 DEF LoadKernelFile, Ready
<1>9. CASE install_trap_handlers
  BY <1>9 DEF install_trap_handlers, Ready
<1>10. CASE EnterGuest
  BY <1>10 DEF EnterGuest, Ready
<1>11. CASE Running
  <2>1. at \in WithFs \cup {"ended"}
    BY <1>11, RunningFromGuest
  <2>2. UNCHANGED <<drives, host_fs>>
    BY <1>11, RunningKeeps
  <2> QED BY <1>11, <2>1, <2>2, RunningKeeps DEF Ready
<1> QED BY <1>1, <1>2, <1>3, <1>4, <1>5, <1>6, <1>7, <1>8, <1>9, <1>10, <1>11
     DEF Next, Start, Running

LEMMA PlacedNext == Placed /\ Ready /\ Next => Placed'
<1> SUFFICES ASSUME Placed, Ready, Next PROVE Placed'
  OBVIOUS
<1>1. CASE Running
  <2>1. UNCHANGED <<area, kernel_base>>
    BY <1>1, RunningKeeps DEF boot
  <2>2. at \in WithFs \cup {"ended"}
    BY <1>1, RunningFromGuest
  <2> QED BY <1>1, <2>1, <2>2, RunningKeeps, PlacedSame
       DEF WithFs, WithDrives, Mapped, Runtime
<1> QED BY <1>1, PlacedMapKernel, PlacedMapFlat, PlacedMapFixed, PlacedArgParse, PlacedMain
     DEF Next, Start, Running

\* Stuttering.
LEMMA StartStutters == Placed /\ Ready /\ UNCHANGED procVars => Placed' /\ Ready'
  BY DEF procVars, boot, regs, Placed, Apart, Ready

\* The guest runs only in a process whose start has succeeded in every step.
THEOREM StartIsSound == Spec => []GuestIsReady
<1>1. ProcInit => Placed /\ Ready
  BY PlacedInit
<1>2. Placed /\ Ready /\ [Next]_procVars => (Placed /\ Ready)'
  BY PlacedNext, ReadyNext, StartStutters
<1>3. Placed /\ Ready => GuestIsReady
  BY DEF Placed, Ready, Apart, GuestIsReady, Guest, WithFs, WithDrives, Mapped, Runtime
<1> QED BY <1>1, <1>2, <1>3, PTL DEF Spec

-----------------------------------------------------------------------------
(***************************************************************************)
(* FS.                                                                     *)
(***************************************************************************)
\* What is loaded before the guest has a task is loaded for Adam; afterwards no
\* task is switched while a module is loaded; and what the dispatcher puts in FS
\* when it returns is the task in any case.
FsInv ==
  /\ load = [module |-> load.module, task |-> load.task, src |-> load.src]
  /\ at \notin Runtime \cup {"ended"} =>
       load.task = Adam /\ inside.fn # "HostInjectStaticallyLinkedSymbols"
  /\ at \in Runtime =>
       /\ emulated_fs = cur_task
       /\ inside.fn # "vsyscall_dispatcher" => fs = cur_task
       /\ stage = "load" => load.task = cur_task
       /\ inside.fn = "vsyscall_dispatcher" /\ inside.num = "SETFS" => stage # "load"
  /\ at = "_VKSTART64" /\ inside.fn = "vsyscall_dispatcher" =>
       inside.num = "SETFS" /\ inside.task = Adam

LEMMA FsInvInit == ProcInit => FsInv
  BY DEF ProcInit, Init, FsInv, Runtime, Nothing, Inside, Call

\* What every reader of patch tables leaves alone.
LEMMA ReadersKeep ==
  ASSUME load = [module |-> load.module, task |-> load.task, src |-> load.src],
         load_kernel \/ loader_enter \/ LoadPass1
  PROVE  /\ load' = [module |-> load.module, task |-> load.task, src |-> load'.src]
         /\ LoadPass1 => stage = "load"
<1>1. ASSUME NEW x, GoTo(x)
      PROVE  load' = [module |-> load.module, task |-> load.task, src |-> load'.src]
  BY <1>1 DEF GoTo
<1>2. \/ \E x : GoTo(x)
      \/ UNCHANGED load
  BY DEF load_kernel, KernelExport, KernelImport, KernelAbsAddr, KernelMain, loader_enter,
         LoadPass1, LoadExport, LoadImport, LoadAbsAddr, LoadHeap, LoadMain, LoadEnd,
         Skip, SkipGroup
<1>3. LoadPass1 => stage = "load"
  BY DEF LoadPass1, LoadExport, LoadImport, LoadAbsAddr, LoadHeap, LoadMain, LoadEnd
<1> QED BY <1>1, <1>2, <1>3

LEMMA FsInvStart == FsInv /\ Ready /\ Start => FsInv'
<1> SUFFICES ASSUME FsInv, Ready, Start PROVE FsInv'
  OBVIOUS
<1> USE DEF exit, Goes, boot, regs, vars, Runtime
<1>1. /\ at \notin Runtime \cup {"ended"} /\ at # "_VKSTART64"
      /\ at' \notin Runtime \cup {"_VKSTART64"}
      /\ load' = [module |-> load.module, task |-> load.task, src |-> load'.src]
      /\ UNCHANGED inside
  <2>1. CASE MapKernel \/ MapFlat \/ MapFixed \/ MmapFails
    BY <2>1, Zenon DEF MapKernel, MapFlat, MapFixed, MmapFails, FsInv
  <2>2. CASE arg_parse \/ InitDrive \/ InitOtherDrives \/ install_trap_handlers
    BY <2>2, Zenon DEF arg_parse, InitDrive, InitOtherDrives, install_trap_handlers, FsInv
  <2>3. CASE LoadKernelFile
    BY <2>3, ReadersKeep DEF LoadKernelFile, FsInv
  <2>4. CASE EnterGuest
    BY <2>4, ReadersKeep DEF EnterGuest, FsInv
  <2> QED BY <2>1, <2>2, <2>3, <2>4 DEF Start
<1> QED BY <1>1 DEF FsInv

LEMMA FsInvSysCalls ==
  ASSUME FsInv, Ready, VSysCall \/ VSysCallReturns \/ VSysCallExits
  PROVE  FsInv'
<1> USE DEF exit, boot, regs, vars, Runtime, Nothing, Inside, Call, VSys
<1>1. CASE VSysCall
  <2>1. /\ inside = Nothing /\ at # "ended"
        /\ inside' \in Calls
        /\ UNCHANGED <<load, stage, at, emulated_fs, cur_task>>
    BY <1>1 DEF VSysCall, Guest
  <2>2. inside'.fn = "vsyscall_dispatcher" /\ inside'.num = "SETFS" /\ at \in Runtime =>
          stage # "load"
    <3>1. CASE at = "RuntimeStartOS" /\ stage = "load"
      <4>1. Calls = {VSys(num, NULL) : num \in {"STAT", "EXIT"}}
        BY <3>1 DEF Calls
      <4> QED BY <2>1, <4>1
    <3>2. CASE at \in {"InitRuntime3", "RuntimeLoadCompiler"}
      <4>1. Calls = {VSys("STAT", NULL)}
        BY <3>2 DEF Calls
      <4> QED BY <2>1, <4>1
    <3> QED BY <3>1, <3>2
  <2>3. at = "_VKSTART64" => inside' = VSys("SETFS", Adam)
    <3>1. at = "_VKSTART64" => Calls = {VSys("SETFS", Adam)}
      BY DEF Calls
    <3> QED BY <2>1, <3>1
  <2>4. inside'.fn = "vsyscall_dispatcher"
    <3>1. \A c \in Calls : c.fn = "vsyscall_dispatcher"
      BY DEF Calls
    <3> QED BY <2>1, <3>1
  <2> QED BY <2>1, <2>2, <2>3, <2>4 DEF FsInv
<1>2. CASE VSysCallReturns
  <2>1. /\ inside.fn = "vsyscall_dispatcher" /\ inside' = Nothing
        /\ emulated_fs' = IF inside.num = "SETFS" THEN inside.task ELSE emulated_fs
        /\ fs' = emulated_fs'
        /\ cur_task' = IF inside.num = "SETFS" THEN inside.task ELSE cur_task
        /\ UNCHANGED <<load, stage>>
    BY <1>2 DEF VSysCallReturns, Within, SETFS, RestoreFs
  <2>2. at' = IF at = "InitRuntime" THEN "_VKSTART64"
              ELSE IF at = "_VKSTART64" THEN "InitRuntime3" ELSE at
    BY <1>2, Zenon DEF VSysCallReturns
  <2>3. CASE at = "_VKSTART64"
    BY <2>1, <2>2, <2>3 DEF FsInv
  <2>4. CASE at \in Runtime
    BY <2>1, <2>2, <2>4 DEF FsInv
  <2>5. CASE at \notin Runtime \cup {"_VKSTART64"}
    BY <2>1, <2>2, <2>5 DEF FsInv
  <2> QED BY <2>3, <2>4, <2>5
<1>3. CASE VSysCallExits
  BY <1>3 DEF VSysCallExits, FsInv
<1> QED BY <1>1, <1>2, <1>3

LEMMA FsInvThunks ==
  ASSUME FsInv, Ready, Thunk \/ ThunkReturns \/ Trap \/ HandlerReturns \/ bugcheck
  PROVE  FsInv'
<1> USE DEF exit, boot, regs, vars, Runtime, Nothing, Inside, Call
<1>1. CASE Thunk
  <2>1. /\ inside = Nothing /\ at \in Runtime /\ inside'.fn # "vsyscall_dispatcher"
        /\ UNCHANGED <<load, stage, at, fs, emulated_fs, cur_task>>
    <3>1. PICK f \in HostFunctions : inside' = Inside(f)
      BY <1>1 DEF Thunk
    <3>2. f # "vsyscall_dispatcher" /\ at \in Runtime
      BY <3>1, Zenon DEF HostFunctions
    <3> QED BY <1>1, <3>1, <3>2 DEF Thunk, Guest
  <2> QED BY <2>1 DEF FsInv
<1>2. CASE ThunkReturns
  BY <1>2 DEF ThunkReturns, Within, FsInv
<1>3. CASE Trap
  BY <1>3 DEF Trap, Guest, FsInv
<1>4. CASE HandlerReturns
  BY <1>4 DEF HandlerReturns, Within, FsInv
<1>5. CASE bugcheck
  BY <1>5 DEF bugcheck, FsInv
<1> QED BY <1>1, <1>2, <1>3, <1>4, <1>5

LEMMA FsInvLoads ==
  ASSUME FsInv, Ready, InjectSymbol \/ InjectReturns \/ GuestLoads \/ RuntimeStartOS
  PROVE  FsInv'
<1> USE DEF Goes, boot, regs, vars, Runtime, Nothing, Inside, Call
<1>1. CASE InjectSymbol
  BY <1>1 DEF InjectSymbol, Injecting, Within, inject_extra_symbols, FsInv
<1>2. CASE InjectReturns
  <2>1. /\ inside.fn = "HostInjectStaticallyLinkedSymbols" /\ at # "ended"
        /\ inside' = Nothing /\ at' = "RuntimeLoadCompiler" /\ stage' = "up"
        /\ UNCHANGED <<load, fs, emulated_fs, cur_task>>
    BY <1>2 DEF InjectReturns, Injecting, Within, Injected
  <2> QED BY <2>1 DEF FsInv
<1>3. CASE GuestLoads
  <2>1. /\ inside = Nothing /\ at \in Runtime
        /\ UNCHANGED <<at, fs, emulated_fs, inside, cur_task>>
    BY <1>3 DEF GuestLoads, Guest
  <2>2. CASE LoadPass1
    BY <2>1, <2>2, ReadersKeep DEF FsInv
  <2>3. CASE \E m : Load(fs, m)
    BY <2>1, <2>3 DEF Load, FsInv
  <2> QED BY <1>3, <2>2, <2>3, Zenon DEF GuestLoads
<1>4. CASE RuntimeStartOS
  BY <1>4 DEF RuntimeStartOS, Guest, FsInv
<1> QED BY <1>1, <1>2, <1>3, <1>4

\* Neither system calls, nor thunks, traps or loads make the guest lose its task.
THEOREM FsIsKept == Spec => []FsIsCurTask
<1>1. ProcInit => FsInv /\ Placed /\ Ready
  BY FsInvInit, PlacedInit
<1>2. FsInv /\ Placed /\ Ready /\ [Next]_procVars => (FsInv /\ Placed /\ Ready)'
  <2>1. FsInv /\ UNCHANGED procVars => FsInv'
    BY DEF FsInv, procVars, vars, regs
  <2>2. FsInv /\ Ready /\ Next => FsInv'
    BY FsInvStart, FsInvSysCalls, FsInvThunks, FsInvLoads DEF Next
  <2> QED BY <2>1, <2>2, PlacedNext, ReadyNext, StartStutters
<1>3. FsInv => FsIsCurTask
  BY DEF FsInv, FsIsCurTask, Injecting, Within, Nothing, Inside, Call
<1> QED BY <1>1, <1>2, <1>3, PTL DEF Spec

-----------------------------------------------------------------------------
(***************************************************************************)
(* Types.                                                                  *)
(***************************************************************************)
ProcTypes ==
  /\ area \in [Area -> SUBSET Pages]
  /\ drives \subseteq Letter /\ status \in {NULL, -1, 0, 1}
  /\ status = NULL <=> at # "ended"
  /\ {fs, host_fs} \subseteq {"libc", NULL} \cup Task /\ {emulated_fs, cur_task} \subseteq {NULL} \cup Task
  /\ inside.fn = "vsyscall_dispatcher" /\ inside.num = "SETFS" => inside.task \in Task

LEMMA ProcTypesInit == ProcInit => ProcTypes
<1> SUFFICES ASSUME ProcInit PROVE ProcTypes
  OBVIOUS
<1>1. FixedArea \subseteq Pages /\ KernelArea \subseteq Pages /\ Image \subseteq Pages
  <2> DEFINE areas == <<FixedArea, KernelArea, Image, FlatArea>>
  <2>1. \A i \in 1 .. 4 : areas[i] \subseteq Pages
    BY Layout
  <2>2. areas[1] = FixedArea /\ areas[2] = KernelArea /\ areas[3] = Image
    OBVIOUS
  <2> HIDE DEF areas
  <2> QED BY <2>1, <2>2
<1>2. area \in [Area -> SUBSET Pages]
  BY <1>1 DEF ProcInit, Area
<1>3. inside.fn = "nothing"
  BY DEF ProcInit, Nothing, Inside, Call
<1> QED BY <1>2, <1>3 DEF ProcInit, ProcTypes

\* The areas hold pages: what mmap gives are some of those that are free.
LEMMA AreaTypes ==
  ASSUME ProcTypes, Start PROVE area' \in [Area -> SUBSET Pages]
<1> USE DEF ProcTypes
<1>1. ASSUME NEW name \in Area, NEW p \in SUBSET Pages, area' = [area EXCEPT ![name] = p]
      PROVE  area' \in [Area -> SUBSET Pages]
  BY <1>1
<1>2. Free \subseteq Pages
  BY DEF Free
<1>3. CASE UNCHANGED area
  BY <1>3
<1>4. CASE MapKernel
  <2>1. UNCHANGED area \/ \E p \in Mmap(KernelArea) : area' = [area EXCEPT !.kernel = p]
    BY <1>4, Zenon DEF MapKernel, Map
  <2> QED BY <1>1, <1>2, <1>3, <2>1, MmapGives DEF Area
<1>5. CASE MapFlat
  <2>1. area' = [area EXCEPT !.flat = FlatArea]
    BY <1>5 DEF MapFlat, Map
  <2>2. FlatArea \in SUBSET Pages
    <3>1. <<FixedArea, KernelArea, Image, FlatArea>>[4] \subseteq Pages
      BY Layout
    <3> QED BY <3>1
  <2> QED BY <1>1, <2>1, <2>2 DEF Area
<1>6. CASE MapFixed
  <2>1. UNCHANGED area \/ \E p \in Mmap(FixedArea) : area' = [area EXCEPT !.fixed = p]
    BY <1>6, Zenon DEF MapFixed, Map
  <2> QED BY <1>1, <1>2, <1>3, <2>1, MmapGives DEF Area
<1>7. CASE arg_parse
  <2>1. PICK p \in Free : area' = [area EXCEPT !.host = area.host \cup {p}]
    BY <1>7 DEF arg_parse
  <2>2. area.host \cup {p} \in SUBSET Pages
    BY <1>2 DEF Area
  <2> QED BY <1>1, <2>1, <2>2 DEF Area
<1>8. CASE MmapFails \/ InitDrive \/ InitOtherDrives \/ LoadKernelFile \/ install_trap_handlers \/ EnterGuest
  BY <1>3, <1>8 DEF MmapFails, InitDrive, InitOtherDrives, LoadKernelFile, install_trap_handlers,
     EnterGuest, boot
<1> QED BY <1>4, <1>5, <1>6, <1>7, <1>8 DEF Start

\* The process ends with the step that gives it a status.
LEMMA StatusTypes ==
  ASSUME ProcTypes, Next PROVE status' \in {NULL, -1, 0, 1} /\ (status' = NULL <=> at' # "ended")
<1>1. ASSUME exit(-1) \/ exit(0) \/ exit(1)
      PROVE  status' \in {NULL, -1, 0, 1} /\ (status' = NULL <=> at' # "ended")
  BY <1>1, NullIsNoStatus DEF exit
<1>2. ASSUME at # "ended", at' # "ended", UNCHANGED status
      PROVE  status' \in {NULL, -1, 0, 1} /\ (status' = NULL <=> at' # "ended")
  BY <1>2 DEF ProcTypes
<1> USE DEF Goes
<1>3. CASE MapKernel \/ MapFlat \/ MapFixed \/ MmapFails
  <2>1. exit(-1) \/ (at # "ended" /\ at' # "ended" /\ UNCHANGED status)
    BY <1>3, Zenon DEF MapKernel, MapFlat, MapFixed, MmapFails
  <2> QED BY <1>1, <1>2, <2>1
<1>4. CASE arg_parse \/ InitDrive \/ InitOtherDrives \/ install_trap_handlers
  <2>1. exit(-1) \/ exit(0) \/ exit(1) \/ (at # "ended" /\ at' # "ended" /\ UNCHANGED status)
    BY <1>4 DEF arg_parse, InitDrive, InitOtherDrives, install_trap_handlers
  <2> QED BY <1>1, <1>2, <2>1
<1>5. CASE LoadKernelFile \/ EnterGuest
  <2>1. exit(-1) \/ exit(0) \/ (at # "ended" /\ at' # "ended" /\ UNCHANGED status)
    BY <1>5 DEF LoadKernelFile, EnterGuest
  <2> QED BY <1>1, <1>2, <2>1
<1>6. CASE VSysCallReturns
  <2>1. at # "ended" /\ UNCHANGED status
    BY <1>6 DEF VSysCallReturns, Within, boot
  <2>2. at' = IF at = "InitRuntime" THEN "_VKSTART64"
              ELSE IF at = "_VKSTART64" THEN "InitRuntime3" ELSE at
    BY <1>6, Zenon DEF VSysCallReturns
  <2> QED BY <1>2, <2>1, <2>2
<1>7. CASE VSysCall \/ Thunk \/ Trap \/ GuestLoads \/ RuntimeStartOS
  <2>1. at # "ended" /\ at' # "ended" /\ UNCHANGED status
    BY <1>7 DEF VSysCall, Thunk, Trap, GuestLoads, RuntimeStartOS, Guest, Runtime, boot
  <2> QED BY <1>2, <2>1
<1>8. CASE ThunkReturns \/ InjectSymbol \/ InjectReturns \/ HandlerReturns
  <2>1. at # "ended" /\ at' # "ended" /\ UNCHANGED status
    BY <1>8 DEF ThunkReturns, InjectSymbol, InjectReturns, HandlerReturns, Injecting, Within, boot
  <2> QED BY <1>2, <2>1
<1>9. CASE VSysCallExits \/ bugcheck
  BY <1>1, <1>9 DEF VSysCallExits, bugcheck
<1> QED BY <1>3, <1>4, <1>5, <1>6, <1>7, <1>8, <1>9 DEF Next, Start

\* FS is the host's or a task: of the host, what was saved; of the guest, what it
\* has asked for.
LEMMA FsTypes ==
  ASSUME ProcTypes, Next
  PROVE  /\ {fs', host_fs'} \subseteq {"libc", NULL} \cup Task
         /\ {emulated_fs', cur_task'} \subseteq {NULL} \cup Task
         /\ inside'.fn = "vsyscall_dispatcher" /\ inside'.num = "SETFS" => inside'.task \in Task
<1> USE DEF exit, Goes, boot, regs, vars, Runtime, Nothing, Inside, Call, VSys
<1>1. CASE Start
  <2>1. CASE install_trap_handlers
    BY <2>1 DEF install_trap_handlers, ProcTypes
  <2>2. CASE MapKernel \/ MapFlat \/ MapFixed \/ MmapFails
    <3>1. UNCHANGED regs
      BY <2>2, Zenon DEF MapKernel, MapFlat, MapFixed, MmapFails
    <3> QED BY <3>1 DEF ProcTypes
  <2>3. CASE arg_parse \/ InitDrive \/ InitOtherDrives \/ LoadKernelFile \/ EnterGuest
    <3>1. UNCHANGED regs
      BY <2>3, Zenon DEF arg_parse, InitDrive, InitOtherDrives, LoadKernelFile, EnterGuest
    <3> QED BY <3>1 DEF ProcTypes
  <2> QED BY <1>1, <2>1, <2>2, <2>3 DEF Start
<1>2. CASE VSysCall
  <2>1. fs' = host_fs /\ UNCHANGED <<host_fs, emulated_fs, cur_task>> /\ inside' \in Calls
    BY <1>2 DEF VSysCall
  <2>2. ASSUME NEW c \in Calls, c.num = "SETFS" PROVE c.task \in Task
    <3>1. CASE at = "_VKSTART64"
      <4>1. Calls = {VSys("SETFS", Adam)}
        BY <3>1 DEF Calls
      <4> QED BY <2>2, <4>1 DEF Task
    <3>2. CASE at = "RuntimeStartOS"
      <4>1. Calls \subseteq {VSys(num, NULL) : num \in {"STAT", "EXIT"}} \cup {VSys("SETFS", t) : t \in Task}
        BY <3>2 DEF Calls
      <4> QED BY <2>2, <4>1
    <3>3. CASE at \notin {"_VKSTART64", "RuntimeStartOS"}
      <4>1. Calls \subseteq {VSys("MEMSIZE", NULL), VSys("STAT", NULL)}
        BY <3>3 DEF Calls
      <4> QED BY <2>2, <4>1
    <3> QED BY <3>1, <3>2, <3>3
  <2> QED BY <2>1, <2>2 DEF ProcTypes
<1>3. CASE VSysCallReturns
  <2>1. /\ inside.fn = "vsyscall_dispatcher" /\ inside' = Nothing /\ UNCHANGED host_fs
        /\ emulated_fs' = IF inside.num = "SETFS" THEN inside.task ELSE emulated_fs
        /\ fs' = emulated_fs'
        /\ cur_task' = IF inside.num = "SETFS" THEN inside.task ELSE cur_task
    BY <1>3 DEF VSysCallReturns, Within, SETFS, RestoreFs
  <2> QED BY <2>1 DEF ProcTypes
<1>4. CASE Thunk
  <2>1. UNCHANGED <<fs, host_fs, emulated_fs, cur_task>> /\ \E f \in HostFunctions : inside' = Inside(f)
    BY <1>4 DEF Thunk
  <2>2. \A f \in HostFunctions : f # "vsyscall_dispatcher"
    BY Zenon DEF HostFunctions
  <2> QED BY <2>1, <2>2 DEF ProcTypes
<1>5. CASE ThunkReturns \/ InjectReturns \/ HandlerReturns \/ Trap
  <2>1. UNCHANGED <<fs, host_fs, emulated_fs, cur_task>> /\ inside'.fn \in {"nothing", "handler"}
    BY <1>5 DEF ThunkReturns, InjectReturns, HandlerReturns, Trap
  <2> QED BY <2>1 DEF ProcTypes
<1>6. CASE VSysCallExits \/ InjectSymbol \/ bugcheck \/ GuestLoads \/ RuntimeStartOS
  <2>1. UNCHANGED regs
    BY <1>6 DEF VSysCallExits, InjectSymbol, bugcheck, GuestLoads, RuntimeStartOS
  <2> QED BY <2>1 DEF ProcTypes
<1> QED BY <1>1, <1>2, <1>3, <1>4, <1>5, <1>6 DEF Next

LEMMA ProcTypesNext == ProcTypes /\ [Next]_procVars => ProcTypes'
<1> SUFFICES ASSUME ProcTypes, [Next]_procVars PROVE ProcTypes'
  OBVIOUS
<1>1. CASE UNCHANGED procVars
  BY <1>1 DEF procVars, boot, regs, ProcTypes
<1>2. CASE Next
  <2>1. area' \in [Area -> SUBSET Pages] /\ drives' \subseteq Letter
    <3>1. CASE Start
      <4>1. drives' \subseteq Letter
        <5>1. CASE MapKernel \/ MapFlat \/ MapFixed \/ MmapFails
          BY <5>1, Zenon DEF MapKernel, MapFlat, MapFixed, MmapFails, boot, ProcTypes
        <5>2. CASE InitDrive \/ InitOtherDrives
          BY <5>2 DEF InitDrive, InitOtherDrives, ProcTypes
        <5>3. CASE arg_parse \/ LoadKernelFile \/ install_trap_handlers \/ EnterGuest
          BY <5>3 DEF arg_parse, LoadKernelFile, install_trap_handlers, EnterGuest, boot, ProcTypes
        <5> QED BY <3>1, <5>1, <5>2, <5>3 DEF Start
      <4> QED BY <3>1, <4>1, AreaTypes
    <3>2. CASE ~Start
      <4>1. UNCHANGED boot
        BY <1>2, <3>2 DEF Next, VSysCall, VSysCallReturns, VSysCallExits, Thunk, ThunkReturns,
           InjectSymbol, InjectReturns, Trap, HandlerReturns, bugcheck, GuestLoads, RuntimeStartOS
      <4> QED BY <4>1 DEF boot, ProcTypes
    <3> QED BY <3>1, <3>2
  <2> QED BY <1>2, <2>1, FsTypes, StatusTypes DEF ProcTypes
<1> QED BY <1>1, <1>2

-----------------------------------------------------------------------------
(***************************************************************************)
(* Loading, by whoever does it.                                            *)
(***************************************************************************)
\* The process takes the steps of Loader and no others: main those of load_kernel,
\* the host those of inject_extra_symbols, the guest those of LoadPass1 and Load.
LEMMA StepsOfLoader == [Next]_procVars => LoaderNext \/ UNCHANGED vars
<1> SUFFICES ASSUME [Next]_procVars PROVE LoaderNext \/ UNCHANGED vars
  OBVIOUS
<1>1. CASE UNCHANGED procVars
  BY <1>1 DEF procVars
<1>2. CASE Start
  <2>1. CASE MapKernel \/ MapFlat \/ MapFixed \/ MmapFails
    BY <2>1, Zenon DEF MapKernel, MapFlat, MapFixed, MmapFails
  <2>2. CASE arg_parse \/ InitDrive \/ InitOtherDrives \/ install_trap_handlers
    BY <2>2, Zenon DEF arg_parse, InitDrive, InitOtherDrives, install_trap_handlers
  <2>3. CASE LoadKernelFile \/ EnterGuest
    BY <2>3, Zenon DEF LoadKernelFile, EnterGuest, LoaderNext
  <2> QED BY <1>2, <2>1, <2>2, <2>3 DEF Start
<1>3. CASE VSysCall \/ VSysCallReturns \/ VSysCallExits \/ Thunk \/ ThunkReturns
           \/ Trap \/ HandlerReturns \/ bugcheck \/ RuntimeStartOS
  BY <1>3, Zenon DEF VSysCall, VSysCallReturns, VSysCallExits, Thunk, ThunkReturns,
     Trap, HandlerReturns, bugcheck, RuntimeStartOS
<1>4. CASE InjectSymbol \/ InjectReturns
  BY <1>4 DEF InjectSymbol, InjectReturns, LoaderNext
<1>5. CASE GuestLoads
  <2>1. CASE LoadPass1
    BY <2>1 DEF LoaderNext
  <2>2. CASE ~LoadPass1
    <3>1. fs \in Task /\ \E m \in Module : Load(fs, m)
      BY <1>5, <2>2, Links DEF GuestLoads
    <3> QED BY <3>1 DEF LoaderNext
  <2> QED BY <2>1, <2>2
<1> QED BY <1>1, <1>2, <1>3, <1>4, <1>5 DEF Next

\* In every process the tables, slots, symbols and relocations are sound.
THEOREM LoadingIsSound == Spec => []LoaderInv
<1>1. ProcInit => LoaderInv
  BY LoaderInvInit DEF ProcInit
<1>2. LoaderInv /\ [Next]_procVars => LoaderInv'
  BY LoaderInvNext, StepsOfLoader
<1> QED BY <1>1, <1>2, PTL DEF Spec

\* Nothing but addresses, tasks, pages, drives and exit codes is found where they
\* belong, and what waits in a hash table is the head of a group of imports.
THEOREM TypeCorrect == Spec => []ProcTypeOK
<1>1. ProcInit => ProcTypes
  BY ProcTypesInit
<1>2. ProcTypes /\ LoaderInv => ProcTypeOK
  <2> SUFFICES ASSUME ProcTypes, LoaderInv PROVE ProcTypeOK
    OBVIOUS
  <2>1. TypeOK
    BY LoaderInvImplies
  <2>2. (status = NULL) = (at # "ended")
    BY DEF ProcTypes
  <2> QED BY <2>1, <2>2 DEF ProcTypes, ProcTypeOK, Area
<1> QED BY <1>1, <1>2, ProcTypesNext, LoadingIsSound, PTL DEF Spec

\* No import that was read is lost, also when modules that need each other are
\* loaded in any order, by any task: it is bound or waits with its group.
THEOREM NothingIsForgotten == Spec => []NoneForgotten
<1>1. LoaderInv => NoneForgotten
  BY LoaderInvImplies
<1> QED BY <1>1, LoadingIsSound, PTL

\* Nor bound to what another name stands for.
THEOREM ImportsAreBoundByName == Spec => []BoundByName
<1>1. LoaderInv => BoundByName
  BY LoaderInvImplies
<1> QED BY <1>1, LoadingIsSound, PTL

\* No absolute address is relocated twice, neither of the kernel, which is read
\* twice, nor of what was linked; what a task has loaded has been relocated.
THEOREM ModulesAreRelocatedOnce == Spec => []RelocatedOnce
<1>1. LoaderInv => RelocatedOnce
  BY LoaderInvImplies
<1> QED BY <1>1, LoadingIsSound, PTL

\* A backtrace finds the symbol of every export that was loaded.
THEOREM BacktracesNameExports == Spec => []NearestSymbol
<1>1. LoaderInv => NearestSymbol
  BY LoaderInvImplies
<1> QED BY <1>1, LoadingIsSound, PTL

\* What is bound stays bound to the same address, whatever is exported later, unless
\* it was bound to the host by load_kernel.
THEOREM BindingsStay == Spec => BoundForGood
<1>1. LoaderInv /\ [Next]_procVars =>
        [\A x \in Slot : slot[x] # 0 /\ slot'[x] # slot[x] => NameAt(x) \in DOMAIN HostAPI]_vars
  BY LoaderInvNext, StepsOfLoader
<1> QED BY <1>1, LoadingIsSound, PTL DEF Spec, BoundForGood
=============================================================================
