CONSTANTS
  Boards <- MC_SwitchOnly
  OtherEvents = {"switch_add"}
  MaxPlugs = 1
  MaxOthers = 1
  MaxCmds = 0
SPECIFICATION Spec
INVARIANTS NoCrash
CHECK_DEADLOCK FALSE
