\* A two-partition medium mounted before its second partition uevent.
CONSTANTS
  MAX_PARTITIONS <- MC_MAX_PARTITIONS
  MAX_PARTS <- MC_MAX_PARTS
  DiskMajor <- MC_DiskMajor
  KernelPartCounts = {2}
  NpartsChoices = {TRUE}
  SizeChoices = {1}
  MaxInsertions = 1
  MaxRescans = 0
  MaxShares = 0
  MaxOtherShares = 0
  LunWriteMayFail = FALSE
SPECIFICATION Spec
PROPERTIES LeavesMountedOnlyByUnmount
CHECK_DEADLOCK FALSE
