CONSTANT Roots <- MCRoots
SPECIFICATION Spec
INVARIANTS
  TypeOK
  LowerMirrorsAst
