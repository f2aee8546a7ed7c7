\* A mount failing after removal leaves the volume Idle on an empty slot.
CONSTANTS
  MAX_PARTITIONS <- MC_MAX_PARTITIONS
  MAX_PARTS <- MC_MAX_PARTS
  DiskMajor <- MC_DiskMajor
  KernelPartCounts = {1}
  NpartsChoices = {TRUE}
  SizeChoices = {1}
  MaxInsertions = 1
  MaxRescans = 0
  MaxShares = 0
  MaxOtherShares = 0
  LunWriteMayFail = FALSE
SPECIFICATION Spec
INVARIANTS StateMatchesMedia
CHECK_DEADLOCK FALSE
