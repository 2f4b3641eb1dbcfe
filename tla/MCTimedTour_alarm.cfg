SPECIFICATION TSpec
CONSTANTS
  a = a
  b = b
  c = c
  Nowhere = Nowhere
  BadName = BadName
  Node <- Three
  Launches <- OneLine
  MAX_ARGS = 50
  NUM_PINGS = 5
  TO_EXIT = 300
  TO_MCAST = 5
  RtFd = 3
  PingFd = 4
  McastFd = 6
  Latecomers = {}
  AlarmWindow = TRUE
  MaxPings = 8
  MaxMishaps = 1
PROPERTY EndFollows
