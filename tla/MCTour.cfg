SPECIFICATION Spec
CONSTANTS
  a = a
  b = b
  Nowhere = Nowhere
  BadName = BadName
  Node <- Pair
  Launches <- Tours
  MAX_ARGS = 5
  NUM_PINGS = 1
  TO_EXIT = 3
  RtFd = 3
  PingFd = 4
  McastFd = 6
  Latecomers = {a, b}
  AlarmWindow = TRUE
  MaxPings = 3
  MaxMishaps = 2
INVARIANTS TypeOK RouteIntact OneCustodian EndIsEarned AnswersAreRead PingsPredecessors
PROPERTIES EndIsFinal Implements
