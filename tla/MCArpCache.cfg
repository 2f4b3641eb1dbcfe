SPECIFICATION Spec
CONSTANTS
  hwaA = hwaA
  hwaB = hwaB
  Hwa <- Hwas
  Address <- Addresses
  Fd <- Fds
  ARP_HASH = 2
INVARIANTS ChainsSound
PROPERTIES ImplementsTable
