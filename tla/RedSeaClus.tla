------------------------------ MODULE RedSeaClus ------------------------------
(***************************************************************************)
(* The clusters of a RedSea drive and the runs of them that files and      *)
(* directories are (CFreeLst, CDirEntry.clus).                             *)
(***************************************************************************)
EXTENDS Integers

CONSTANTS
  DataArea,  \* data_area, the first cluster that has a bit: the bitmap's last block
  MaxBlk     \* the end of the drive

ASSUME DriveAssumption == DataArea \in Nat \ {0} /\ MaxBlk \in Nat /\ DataArea < MaxBlk

Clus == DataArea .. MaxBlk - 1
INVALID_CLUS == -1   \* where a file without a block lies
Run == [start : Clus \cup {INVALID_CLUS}, size : 0 .. MaxBlk]
EmptyRun == [start |-> INVALID_CLUS, size |-> 0]
Of(run) == run.start .. run.start + run.size - 1
Disjoint(r, q) == Of(r) \cap Of(q) = {}
=============================================================================
