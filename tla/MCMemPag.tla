------------------------------ MODULE MCMemPag ------------------------------
(***************************************************************************)
(* Small instances of MemPag for TLC.                                      *)
(***************************************************************************)
EXTENDS MemPag, TLC

MCBsr == [n \in 1 .. 63 |-> CHOOSE i \in 0 .. 5 : 2^i <= n /\ n < 2^(i + 1)]

\* Heap controls are interchangeable.
HeapCtrlSymmetry == Permutations(HeapCtrl)

\* The start-up of the stand-alone kernel (Mem/PageTables.HC, Mem/BlkPool.HC):
\* the second run of memory begins where the first one ends.
TwoChunks == <<[addr |-> 0, pags |-> 1], [addr |-> 1, pags |-> 3]>>

\* A pool large enough for the classes of free_pag_hash2 to differ.
LargeChunk == <<[addr |-> 0, pags |-> 11]>>

\* The start-up of the hosted runtime: VKSTART64 gives the pool 0x1000000 bytes
\* at mem_heap_base, which InitRuntime set to 0x1000000; BlkPoolsInit then adds
\* VSYSCALL_MEMSIZE bytes at SYS_16MEG_AREA_LIMIT, the same address.
HostedChunks == <<[addr |-> 0, pags |-> 4], [addr |-> 0, pags |-> 10]>>
=============================================================================
