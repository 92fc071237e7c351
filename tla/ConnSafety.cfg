CONSTANTS
  Login = FALSE
  LoginRight = TRUE
  Invisible = FALSE
  Terminal = TRUE
  Given = TRUE
  GivenRight = FALSE
  Keeper = FALSE
  MaxChanges = 9
SPECIFICATION Spec
CHECK_DEADLOCK FALSE
INVARIANTS LoopInv StopsOnlyWhenBlocked AsksThrice
