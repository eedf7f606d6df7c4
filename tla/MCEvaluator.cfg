CONSTANTS
  Width <- MCWidth
  Exprs <- MCExprs
  CostLimits <- MCCostLimits
  EqConstSize = 1
SPECIFICATION Spec
INVARIANT TypeOK
INVARIANT ResultHasStaticType
PROPERTY ImplementsEvalSpec
