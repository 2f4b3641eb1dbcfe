SPECIFICATION FairSpec
CONSTANTS
  vm1 = vm1
  vm2 = vm2
  vm3 = vm3
  Host = {vm1, vm2, vm3}
  Nowhere = Nowhere
  BadName = BadName
  Lists <- Arguments
  Stacks <- Alike
  MAX_ARGS = 5
  NUM_PINGS = 1
  TO_EXIT = 1
CHECK_DEADLOCK FALSE
INVARIANTS RouteIntact CrashIsStale
PROPERTIES AllLeave
