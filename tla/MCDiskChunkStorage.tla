------------------------ MODULE MCDiskChunkStorage ------------------------
(* Small instances of DiskChunkStorage for TLC.                          *)
EXTENDS DiskChunkStorage, TLC

CONSTANTS c1, p1, p2, t1, t2, i1, i2, i3, i4

(* Threads and payloads are interchangeable.                             *)
MCSymmetry == Permutations({t1, t2}) \cup Permutations({p1, p2})

=============================================================================
