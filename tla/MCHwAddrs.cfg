SPECIFICATION FairSpec
CONSTANTS
  lo = lo
  eth0 = eth0
  eth1 = eth1
  Device <- Devices
  Guess = 1
  Increment = 1
  Listings <- Starts
  HwNumber <- HwNumbers
  MaxListed = 4
  MaxChanges = 3
CHECK_DEADLOCK FALSE
INVARIANTS AliasRight InfoRight ExitsForAReason LinkIsEth0
PROPERTIES AcceptsWholeList Ends
