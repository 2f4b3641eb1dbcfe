SPECIFICATION FairSpec
CONSTANTS
  vm1 = vm1
  vm2 = vm2
  vm3 = vm3
  vm4 = vm4
  c1 = c1
  c2 = c2
  c3 = c3
  None = None
  Host <- Hosts
  Client <- Clients
  Asks <- Asked
  NUM_CACHE_ENTRIES = 2
  MaxLost = 2
CHECK_DEADLOCK FALSE
INVARIANTS TypeOK CacheSound NoClientForgotten RightIfAlone
PROPERTIES ServedIfAlone ServesClients
