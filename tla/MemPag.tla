------------------------------- MODULE MemPag -------------------------------
(***************************************************************************)
(* The page pool of the HolyC runtime (Mem/MemPag.HC, Mem/BlkPool.HC) and  *)
(* the heap controls that draw blocks from it (Mem/HeapCtrl.HC and the     *)
(* block half of MAlloc and Free in Mem/MAllocFree.HC).                    *)
(*                                                                         *)
(* A block is a run of pages that starts with its CMemBlk header.  A free  *)
(* block is on one singly linked list of the pool, a used block on the     *)
(* queue of the heap control that owns it.  Addresses and sizes are        *)
(* counted in pages.  Every operation runs with the pool locked and        *)
(* interrupts off, so each is one step; only HeapCtrlDel, which takes the  *)
(* pool lock once per block, is a loop of steps.  A MAlloc that finds no   *)
(* memory changes nothing (it throws 'OutMem').                            *)
(*                                                                         *)
(* An operator Mut<Op>_<Bug> is <Op> with a bug it must not have, used to  *)
(* test that the properties notice.                                        *)
(***************************************************************************)
EXTENDS Integers, Sequences, SequencesExt, FiniteSetsExt

CONSTANTS
  HeapCtrl,    \* the heap controls (one or two per task)
  NPags,       \* the pages of the address space, 0 .. NPags-1
  BootChunks,  \* the runs of memory given to the pool at start-up, in order
  AllocedAtStart,  \* alloced_u8s before the first of them, in pages
  Requests,    \* the block sizes a big MAlloc asks for
  ChunkPags,   \* the block sizes a little MAlloc asks for (16 or 17 pages)
  HashSize,    \* MEM_FREE_PAG_HASH_SIZE
  ExtraPags,   \* MEM_EXTRA_HASH2_PAGS
  NClass,      \* the length of free_pag_hash2, 64-MEM_PAG_BITS
  Bsr,         \* the index of the highest set bit of a number
  NULL

Addr == 0 .. NPags - 1

\* Powers of two as the provers need them: they have no induction from which
\* to derive what 2^i is.
ASSUME BsrAssumption ==
  /\ NPags \in Nat \ {0}
  /\ NClass \in Nat
  /\ \A i \in 0 .. NClass : 2^i \in Nat
  /\ \A i, j \in 0 .. NClass : i <= j => 2^i <= 2^j
  /\ \A n \in 1 .. NPags : /\ Bsr[n] \in Nat
                           /\ Bsr[n] + 2 < NClass
                           /\ 2^Bsr[n] <= n
                           /\ n < 2^(Bsr[n] + 1)

ASSUME SizeAssumption ==
  /\ HashSize \in 1 .. NPags
  /\ ExtraPags \in 0 .. HashSize - 1
  /\ Requests \subseteq 1 .. NPags
  /\ ChunkPags \subseteq 1 .. NPags
  /\ AllocedAtStart \in Nat
  /\ NULL \notin Addr
  /\ BootChunks \in Seq([addr : Addr, pags : 1 .. NPags])
  /\ \A i \in DOMAIN BootChunks : BootChunks[i].addr + BootChunks[i].pags <= NPags

-----------------------------------------------------------------------------
\* The heads of the lists of blocks.
free_pag_hash(n)  == <<"free_pag_hash", n>>
free_pag_hash2(i) == <<"free_pag_hash2", i>>
mem_free_lst      == <<"mem_free_lst", 0>>
next_mem_blk(hc)  == <<"next_mem_blk", hc>>

FreeHead == {free_pag_hash(n) : n \in 0 .. HashSize - 1}
              \cup {free_pag_hash2(i) : i \in 0 .. NClass - 1}
              \cup {mem_free_lst}
UsedHead == {next_mem_blk(hc) : hc \in HeapCtrl}
ListHead == FreeHead \cup UsedHead

\* CMemBlk: where the block is and its header fields.  big: its first CMemUsed
\* has a size of at least MEM_HEAP_HASH_SIZE, so that Free takes it for a chunk
\* that fills the block.
CMemBlk == [addr : Addr, pags : 1 .. NPags, mb_signature : {"used", "unused"}, big : BOOLEAN]

VARIABLES
  next,           \* next[l]: the blocks on the list that starts at head l, in order
  chunks,         \* how many of BootChunks have been given to the pool
  alloced_u8s,    \* CBlkPool.alloced_u8s, in pages
  used_u8s,       \* CBlkPool.used_u8s, in pages
  hc_state,       \* whether the heap control exists, or is being deleted
  hc_alloced,     \* CHeapCtrl.alloced_u8s, in pages
  last_mergable   \* CHeapCtrl.last_mergable, the address of a block

pool == <<chunks, alloced_u8s>>
vars == <<next, chunks, alloced_u8s, used_u8s, hc_state, hc_alloced, last_mergable>>

\* alloced_u8s does not start at 0: BlkPoolInit counts its header, and InitRuntime
\* all the memory that is mapped ("coorect? incorrect? who knows?").
Init ==
  /\ next = [l \in ListHead |-> <<>>]
  /\ chunks = 0
  /\ alloced_u8s = AllocedAtStart
  /\ used_u8s = 0
  /\ hc_state = [hc \in HeapCtrl |-> "none"]
  /\ hc_alloced = [hc \in HeapCtrl |-> 0]
  /\ last_mergable = [hc \in HeapCtrl |-> NULL]

-----------------------------------------------------------------------------
(***************************************************************************)
(* Taking a block.  Small requests look in the list of their exact size;   *)
(* large ones are rounded up to a little more than a power of two and look *)
(* in the list of that class.  Then mem_free_lst is searched first-fit and *)
(* a larger block is split, the caller getting its top.  At last a larger  *)
(* class of free_pag_hash2 gives up a whole block.                         *)
(***************************************************************************)
Small(n) == n < HashSize
MutClass_RoundsDown(n) == IF Small(n) THEN Bsr[HashSize] ELSE Bsr[n - ExtraPags]
Class(n) == (IF Small(n) THEN Bsr[HashSize] ELSE Bsr[n - ExtraPags]) + 1
Want(n)  == IF Small(n) THEN n ELSE 2^Class(n) + ExtraPags
FastList(n) == IF Small(n) THEN free_pag_hash(n) ELSE free_pag_hash2(Class(n))

Fits(k, n) == next[mem_free_lst][k].pags >= Want(n)
FirstFit(n) == {k \in DOMAIN next[mem_free_lst] :
                  Fits(k, n) /\ \A j \in 1 .. k - 1 : ~Fits(j, n)}
LargerClass(n) == {i \in Class(n) + 1 .. NClass - 1 :
                     /\ next[free_pag_hash2(i)] # <<>>
                     /\ \A j \in Class(n) + 1 .. i - 1 : next[free_pag_hash2(j)] = <<>>}

\* Where MemPagAlloc(n) takes its block: the list and the position on it.
Sources(n) ==
  IF next[FastList(n)] # <<>> THEN {[head |-> FastList(n), pos |-> 1]}
  ELSE IF FirstFit(n) # {} THEN {[head |-> mem_free_lst, pos |-> k] : k \in FirstFit(n)}
  ELSE {[head |-> free_pag_hash2(i), pos |-> 1] : i \in LargerClass(n)}

\* The block at s is unlinked, or gives up its top.
MutSplits_Exact(s, n) == s.head = mem_free_lst
Splits(s, n) == s.head = mem_free_lst /\ next[s.head][s.pos].pags > Want(n)

Take(s, n) ==
  LET b == next[s.head][s.pos] IN
  IF Splits(s, n)
  THEN LET rest == b.pags - Want(n)
       IN  [blk  |-> [b EXCEPT !.addr = @ + rest, !.pags = Want(n)],
            next |-> [next EXCEPT ![s.head] = [@ EXCEPT ![s.pos] = [b EXCEPT !.pags = rest]]]]
  ELSE [blk |-> b, next |-> [next EXCEPT ![s.head] = RemoveAt(@, s.pos)]]

\* The outcomes of MemPagAlloc(n): a block and the lists it leaves, or none
\* when it returns NULL.
MemPagAlloc(n) == {Take(s, n) : s \in Sources(n)}

-----------------------------------------------------------------------------
\* BlkPoolAdd: the next run of memory joins the pool as one free block.
BlkPoolAdd ==
  /\ chunks < Len(BootChunks)
  /\ LET c == BootChunks[chunks + 1]
         m == [addr |-> c.addr, pags |-> c.pags, mb_signature |-> "unused", big |-> FALSE]
     IN  /\ next' = [next EXCEPT ![mem_free_lst] = <<m>> \o @]
         /\ alloced_u8s' = alloced_u8s + c.pags
  /\ chunks' = chunks + 1
  /\ UNCHANGED <<used_u8s, hc_state, hc_alloced, last_mergable>>

HeapCtrlInit(hc) ==
  /\ hc_state[hc] = "none"
  /\ hc_state' = [hc_state EXCEPT ![hc] = "live"]
  /\ next' = [next EXCEPT ![next_mem_blk(hc)] = <<>>]
  /\ last_mergable' = [last_mergable EXCEPT ![hc] = NULL]
  /\ hc_alloced' = [hc_alloced EXCEPT ![hc] = 0]
  /\ UNCHANGED <<pool, used_u8s>>

\* MemPagTaskAlloc: the block taken is signed, counted and queued at the end.
Signed(b, big) == [b EXCEPT !.mb_signature = "used", !.big = big]
MutMemPagTaskAlloc_Uncounted(hc, b) ==
  /\ hc_state[hc] = "live"
  /\ used_u8s' = used_u8s + b.pags
  /\ UNCHANGED <<pool, hc_state, hc_alloced>>
MemPagTaskAlloc(hc, b) ==
  /\ hc_state[hc] = "live"
  /\ used_u8s' = used_u8s + b.pags
  /\ hc_alloced' = [hc_alloced EXCEPT ![hc] = @ + b.pags]
  /\ UNCHANGED <<pool, hc_state>>

\* A big MAlloc: the block is the chunk.
MAllocBig(hc, n) ==
  \E r \in MemPagAlloc(n) :
    /\ MemPagTaskAlloc(hc, r.blk)
    /\ next' = [r.next EXCEPT ![next_mem_blk(hc)] = Append(@, Signed(r.blk, TRUE))]
    /\ UNCHANGED last_mergable

\* A little MAlloc with no chunk to cut from: the new block absorbs the last
\* one taken this way when that one begins where the new one ends.
MutMergable_NotAdjacent(hc, k, b) == next[next_mem_blk(hc)][k].addr = last_mergable[hc]
Mergable(hc, k, b) ==
  /\ next[next_mem_blk(hc)][k].addr = last_mergable[hc]
  /\ last_mergable[hc] = b.addr + b.pags

MutJoined_Dropped(b, c) == b
Joined(b, c) == [b EXCEPT !.pags = @ + c.pags]

MAllocChunk(hc, n) ==
  LET q == next_mem_blk(hc) IN
  \E r \in MemPagAlloc(n) :
    /\ MemPagTaskAlloc(hc, r.blk)
    /\ \/ \E k \in DOMAIN next[q] :
            /\ Mergable(hc, k, r.blk)
            /\ next' = [r.next EXCEPT ![q] =
                          Append(RemoveAt(@, k), Joined(Signed(r.blk, FALSE), next[q][k]))]
       \/ /\ \A k \in DOMAIN next[q] : ~Mergable(hc, k, r.blk)
          /\ next' = [r.next EXCEPT ![q] = Append(@, Signed(r.blk, FALSE))]
    /\ last_mergable' = [last_mergable EXCEPT ![hc] = r.blk.addr]

\* The list a block of n pages is freed to.  Unlike an allocation, a free
\* rounds down.
FreeList(n) ==
  IF Small(n) THEN free_pag_hash(n) ELSE free_pag_hash2(Bsr[n - ExtraPags])

\* MemPagTaskFree and the MemPagFree it calls, for the k-th block of hc.
MemPagTaskFree(hc, k) ==
  LET q == next_mem_blk(hc) m == next[q][k]
  IN  /\ m.mb_signature = "used"    \* otherwise SysBadFree stops the system
      /\ hc_alloced' = [hc_alloced EXCEPT ![hc] = @ - m.pags]
      /\ used_u8s' = used_u8s - m.pags
      /\ next' = [next EXCEPT ![q] = RemoveAt(@, k),
                              ![FreeList(m.pags)] =
                                  <<[m EXCEPT !.mb_signature = "unused"]>> \o @]
      /\ UNCHANGED <<pool, last_mergable>>

\* Free of a big chunk.  The chunks of any other block go to the heap's own
\* lists, never to the pool.
MutFreeBig_Chunk(hc, k) ==
  /\ hc_state[hc] = "live"
  /\ MemPagTaskFree(hc, k)
  /\ UNCHANGED hc_state
FreeBig(hc, k) ==
  /\ hc_state[hc] = "live"
  /\ next[next_mem_blk(hc)][k].big
  /\ MemPagTaskFree(hc, k)
  /\ UNCHANGED hc_state

\* HeapCtrlDel locks the heap control, frees the blocks from the first on and
\* frees the control itself.
HeapCtrlDelStart(hc) ==
  /\ hc_state[hc] = "live"
  /\ hc_state' = [hc_state EXCEPT ![hc] = "deleting"]
  /\ UNCHANGED <<next, pool, used_u8s, hc_alloced, last_mergable>>

HeapCtrlDelBlk(hc) ==
  /\ hc_state[hc] = "deleting"
  /\ next[next_mem_blk(hc)] # <<>>
  /\ MemPagTaskFree(hc, 1)
  /\ UNCHANGED hc_state

HeapCtrlDelEnd(hc) ==
  /\ hc_state[hc] = "deleting"
  /\ next[next_mem_blk(hc)] = <<>>
  /\ hc_state' = [hc_state EXCEPT ![hc] = "none"]
  /\ UNCHANGED <<next, pool, used_u8s, hc_alloced, last_mergable>>

Next ==
  \/ BlkPoolAdd
  \/ \E hc \in HeapCtrl :
       \/ HeapCtrlInit(hc)
       \/ \E n \in Requests : MAllocBig(hc, n)
       \/ \E n \in ChunkPags : MAllocChunk(hc, n)
       \/ \E k \in DOMAIN next[next_mem_blk(hc)] : FreeBig(hc, k)
       \/ HeapCtrlDelStart(hc)
       \/ HeapCtrlDelBlk(hc)
       \/ HeapCtrlDelEnd(hc)

Spec == Init /\ [][Next]_vars

-----------------------------------------------------------------------------
\* A list holds only blocks of at least one page: no split leaves an empty block
\* behind (MemPagAlloc unlinks a block it uses up).
TypeOK ==
  /\ next \in [ListHead -> Seq(CMemBlk)]
  /\ chunks \in 0 .. Len(BootChunks)
  /\ alloced_u8s \in Nat
  /\ used_u8s \in Int
  /\ hc_state \in [HeapCtrl -> {"none", "live", "deleting"}]
  /\ hc_alloced \in [HeapCtrl -> Int]
  /\ last_mergable \in [HeapCtrl -> Addr \cup {NULL}]

PagsOf(b) == b.addr .. b.addr + b.pags - 1

\* No page belongs to two blocks, wherever the blocks are listed: what MAlloc
\* returns is never memory that someone else has or that is still free.
BlksDisjoint ==
  \A l, m \in ListHead : \A i \in DOMAIN next[l], j \in DOMAIN next[m] :
    <<l, i>> # <<m, j>> => PagsOf(next[l][i]) \cap PagsOf(next[m][j]) = {}

GivenPags == UNION {PagsOf(BootChunks[i]) : i \in 1 .. chunks}

\* No page is ever lost: every page given to the pool is still in a block that
\* some list reaches, through every split, merge, rounding and deletion.
NoPagLost ==
  \A p \in GivenPags : \E l \in ListHead : \E i \in DOMAIN next[l] : p \in PagsOf(next[l][i])

\* A block is on the list its size belongs to, so what an allocation takes
\* from a list without looking at its size is large enough.
ListsBySize ==
  /\ \A n \in 0 .. HashSize - 1 : \A i \in DOMAIN next[free_pag_hash(n)] :
       next[free_pag_hash(n)][i].pags = n
  /\ \A c \in 0 .. NClass - 1 : \A i \in DOMAIN next[free_pag_hash2(c)] :
       next[free_pag_hash2(c)][i].pags >= 2^c + ExtraPags

\* A MAlloc that succeeds has got at least the pages it asked for ("It might
\* give you more than you asked for"), although blocks are filed by a size
\* rounded down and asked for by a size rounded up.
AllocEnough ==
  [][\A hc \in HeapCtrl : \A n \in Requests :
       MAllocBig(hc, n) => next'[next_mem_blk(hc)][Len(next[next_mem_blk(hc)]) + 1].pags >= n]_vars

\* The counters of what is in use agree with the queues after merges and partial
\* deletions: a pool never reports memory in use that no heap control owns, nor
\* does one give back less than it was counted for.  As no two blocks share a page
\* (BlksDisjoint), the sizes of the blocks of a queue add up to the number of pages
\* in them.  Nothing is said of alloced_u8s: it counts more than the pool was given.
QueuePags(hc) ==
  UNION {PagsOf(next[next_mem_blk(hc)][i]) : i \in DOMAIN next[next_mem_blk(hc)]}
UsedCounted ==
  /\ used_u8s = Cardinality(UNION {QueuePags(hc) : hc \in HeapCtrl})
  /\ \A hc \in HeapCtrl : hc_state[hc] # "none" => hc_alloced[hc] = Cardinality(QueuePags(hc))

\* A heap control's queue holds nothing that MemPagTaskFree would refuse, and
\* last_mergable is always a block of the queue that no Free can return to the
\* pool: a merge never adds freed memory to a block.
QueuesSound ==
  \A hc \in HeapCtrl :
    LET q == next[next_mem_blk(hc)] IN
    /\ \A i \in DOMAIN q : q[i].mb_signature = "used"
    /\ hc_state[hc] = "live" /\ last_mergable[hc] # NULL =>
         \E i \in DOMAIN q : q[i].addr = last_mergable[hc] /\ ~q[i].big

\* The allocator implements PagePool: each heap control owns the blocks of its
\* queue.
Extent(b) == [addr |-> b.addr, pags |-> b.pags]
Owned(q)  == {Extent(q[i]) : i \in DOMAIN q}
Pool == INSTANCE PagePool WITH
          mem <- GivenPags,
          own <- [hc \in HeapCtrl |-> Owned(next[next_mem_blk(hc)])]
ImplementsPagePool == Pool!Spec

\* MemPag.HC says of the last resort: "lets search for a freed larger size
\* block".  So MemPagAlloc returns NULL only if no list of free_pag_hash2 holds a
\* block of the size it looks for, the rounding included.
LargerBlockIsFound ==
  \A n \in Requests :
    MemPagAlloc(n) = {} =>
      \A c \in 0 .. NClass - 1 : \A i \in DOMAIN next[free_pag_hash2(c)] :
        next[free_pag_hash2(c)][i].pags < Want(n)
=============================================================================
