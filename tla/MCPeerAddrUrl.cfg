CONSTANTS
  Addrs <- MCAddrs
  Received <- MCReceived
  MaxWrites = 2
SPECIFICATION Spec
INVARIANT NoPanic
