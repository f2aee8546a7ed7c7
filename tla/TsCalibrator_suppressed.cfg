CONSTANTS
  XRes = 800
  YRes = 480
  TouchAt <- MCTouchAtShared
  ConfChoices <- MCConfChoices
  UninitValues = {0}
  IoMayFail = FALSE
  Uninit = Uninit
SPECIFICATION Spec
INVARIANT CalibrationMapsTargets
CHECK_DEADLOCK FALSE
