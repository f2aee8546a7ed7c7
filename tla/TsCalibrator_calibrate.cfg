CONSTANTS
  XRes = 800
  YRes = 480
  TouchAt <- MCTouchAt
  ConfChoices <- MCConfChoices
  UninitValues = {0}
  IoMayFail = TRUE
  Uninit = Uninit
SPECIFICATION Spec
INVARIANTS TypeOK GetInputReturnsTouch CalibrationMapsTargets
CHECK_DEADLOCK FALSE
PROPERTY TouchesComplete
