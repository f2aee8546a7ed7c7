CONSTANTS
  Boards <- MC_AllBoards
  OtherEvents = {"h2w", "battery"}
  MaxPlugs = 2
  MaxOthers = 1
  MaxCmds = 3
SPECIFICATION Spec
INVARIANTS TypeOK FrameworkViewCurrent FrameworkViewOrdered
PROPERTIES ConnectedFollowsCable
CHECK_DEADLOCK FALSE
