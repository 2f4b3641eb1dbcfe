SPECIFICATION TSpec
CONSTANTS
  a = a
  b = b
  c = c
  Nowhere = Nowhere
  BadName = BadName
  Node <- Three
  Launches <- LateTours
  MAX_ARGS = 50
  NUM_PINGS = 1
  TO_EXIT = 5
  TO_MCAST = 2
  RtFd = 3
  PingFd = 4
  McastFd = 6
  Latecomers = {c}
  AlarmWindow = FALSE
  MaxPings = 2
  MaxMishaps = 1
PROPERTIES EveryoneLeaves EndFollows
