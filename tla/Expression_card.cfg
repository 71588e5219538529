SPECIFICATION ExpressionSpec
CONSTANTS
  Kinds = {"manager"}
  Runs = {r1}
  Operators = {o1}
  MaxArtifacts = 2
  MaxRules = 1
  MaxContracts = 1
INVARIANTS OneStatusCard
CHECK_DEADLOCK FALSE
