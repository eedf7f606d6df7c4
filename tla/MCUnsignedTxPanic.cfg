CONSTANTS
  i1 = i1
  d1 = d1
  o1 = o1
  o2 = o2
  h1 = h1
  h2 = h2
  Null = Null
  InputIds <- MCInputIds
  DataIds <- MCDataIds
  OutputIds <- MCOutputIds
  Handles <- MCHandles
  MaxIo = 2
  Unserializable = {o2}
SPECIFICATION Spec
INVARIANT FromJsonNeverPanics
