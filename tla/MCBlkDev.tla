------------------------------ MODULE MCBlkDev ------------------------------
\* BlkDev with a RAM disk (A), a directory of the host (C) and an image that lies
\* on it (M).
EXTENDS BlkDev, TLC

CONSTANTS t1, t2, t3, f1, f2, A, C, M

MCType == (A :> "RAM") @@ (C :> "HOSTFS") @@ (M :> "ISO")
MCFileDrv == (A :> NULL) @@ (C :> NULL) @@ (M :> C)

Users(a, c, m) ==
  LET users == (A :> a) @@ (C :> c) @@ (M :> m)
  IN  [task \in Task |-> {d \in Drv : task \in users[d]}]
ShareImage == Users({}, {t1}, {t2, t3})
ShareRAM == Users({t1, t2}, {}, {})
MCUses == {ShareImage, ShareRAM}
OneUser == {Users({}, {}, {t1})}
RAMUsers == {Users({t1, t2}, {}, {})}
ImageUsers == {Users({}, {}, {t1, t2, t3})}
Others == Permutations({t2, t3})
=============================================================================
