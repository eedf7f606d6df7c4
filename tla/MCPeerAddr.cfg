CONSTANTS
  Addrs <- MCAddrs
  Received <- MCReceived
  MaxWrites = 2
SPECIFICATION Spec
INVARIANTS
  TypeOK
  RoundTrip
