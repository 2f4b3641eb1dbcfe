SPECIFICATION FairSpec
CONSTANTS
  vm1 = vm1
  vm2 = vm2
  vm3 = vm3
  Host <- Three
  Plans <- Tours
  MaxMishaps = 2
CHECK_DEADLOCK FALSE
INVARIANTS StopsInOrder EndsForAReason
PROPERTY Completes
