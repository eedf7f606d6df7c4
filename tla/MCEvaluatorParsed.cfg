CONSTANTS
  Width <- MCWidth
  Exprs <- MCParsedExprs
  CostLimits <- MCCostLimits
  EqConstSize = 1
SPECIFICATION Spec
INVARIANT ResultHasStaticType
