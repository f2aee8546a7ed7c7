\* Shares of two volumes over the three luns.
CONSTANTS
  MAX_PARTITIONS <- MC_MAX_PARTITIONS
  MAX_PARTS <- MC_MAX_PARTS
  DiskMajor <- MC_DiskMajor
  KernelPartCounts = {1, 2}
  NpartsChoices = {TRUE}
  SizeChoices = {1}
  MaxInsertions = 1
  MaxRescans = 0
  MaxShares = 3
  MaxOtherShares = 3
  LunWriteMayFail = FALSE
SPECIFICATION Spec
CHECK_DEADLOCK FALSE
PROPERTIES NoExportClobbered
