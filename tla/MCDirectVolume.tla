-------------------------- MODULE MCDirectVolume --------------------------
(***************************************************************************)
(* Model-checking instance of DirectVolume: one slot, major 179 (mmcblk), *)
(* arrays as small as the partition counts need.                          *)
(***************************************************************************)
EXTENDS DirectVolume

MC_MAX_PARTITIONS == 2
MC_MAX_PARTS == 2
MC_DiskMajor == 179
====
