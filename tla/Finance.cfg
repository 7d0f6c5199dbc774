SPECIFICATION Spec
CONSTANTS
  Policy <- MCPolicy
  Catalogues <- MCCatalogues
  Contexts <- MCContexts
  Environments <- MCEnvironments
  IsExpression <- MCIsExpression
  ExpressionValue <- MCExpressionValue
  CacheLimit = 2
  CallLimit = 4
  None = none
  Leaves <- MCLeaves
  Operators = {"ADD", "DIVIDE", "LESS_THAN", "IF"}
  Declared <- MCDeclared
  Inputs <- MCInputs
  DependencySets = {{"x", "b"}, {"b", "if_state.0"}, {"x", "b", "y"}}
  SyntheticName <- MCSyntheticName
  NodeLimit = 6
  DepthLimit = 4
  DependencyLimit = 3
  BuildLimit = 7
  BaseRequest <- MCBaseRequest
  Edits <- MCEdits
  EditLimit = 2
CHECK_DEADLOCK FALSE
INVARIANTS
  EvaluatedIsCurrent
  RecentlyUsedAccepted
  ShortCircuit
  AgreesWithOracle
