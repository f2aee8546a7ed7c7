\* Every kind of medium (unpartitioned, empty readers, rescans, attribute changes), shared over the luns with another volume.
CONSTANTS
  MAX_PARTITIONS <- MC_MAX_PARTITIONS
  MAX_PARTS <- MC_MAX_PARTS
  DiskMajor <- MC_DiskMajor
  KernelPartCounts = {0, 1, 2}
  NpartsChoices = {TRUE, FALSE}
  SizeChoices = {0, 1}
  MaxInsertions = 2
  MaxRescans = 1
  MaxShares = 1
  MaxOtherShares = 1
  LunWriteMayFail = TRUE
SPECIFICATION Spec
INVARIANTS TypeOK
CHECK_DEADLOCK FALSE
