CONSTANTS
  LineSize = 8
  FragChoices = {4, 6}
  DebugChoices = {0, 1}
  Cmds <- MCCmds
  Replies <- MCReplies
  MaxPackets = 3
  ShortWrites = TRUE
  OpenMayFail = TRUE
SPECIFICATION Spec
INVARIANTS TypeOK CommandsRelayed RepliesRelayed
PROPERTIES EveryCommandAnswered
CHECK_DEADLOCK FALSE
