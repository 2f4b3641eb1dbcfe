SPECIFICATION BothSpec
CONSTANTS
  Name = {vm1, vm2, vm3}
  BadName = BadName
  Junk = Junk
  MAX_ARGS = 5
  MaxArgs = 5
INVARIANT SecondIgnored
