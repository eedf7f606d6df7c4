CONSTANTS
  Width <- MCWidth
  Exprs <- MCExprs
SPECIFICATION Spec
INVARIANTS
  TypeOK
  RoundTrip
