SPECIFICATION Spec
CONSTANTS
  MaxClients = 2
  MaxMenus = 1
  MaxKeys = 1
INVARIANTS
  ScreensAreCurrent
PROPERTIES
  ScreensMoveForward
  ListedAreServed
CHECK_DEADLOCK FALSE
