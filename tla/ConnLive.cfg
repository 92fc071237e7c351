CONSTANTS
  Login = TRUE
  LoginRight = TRUE
  Invisible = TRUE
  Terminal = FALSE
  Given = TRUE
  GivenRight = TRUE
  Keeper = TRUE
  MaxChanges = 6
SPECIFICATION FairSpec
CHECK_DEADLOCK FALSE
PROPERTIES KeeperReturns Reconnects ClosedRoomEnds SignalEnds
