CONSTANTS
  Nodes = {1, 2, 3, 4}
  Root = 1
  Names = {"a", "b"}
  Trees <- MCTrees
  Paths <- MCPaths
  MaxComponents = 3
  MaxDepth = 2
  MaxWalkDepth = 2
  MaxEntries = 10
SPECIFICATION FairSpec
CHECK_DEADLOCK FALSE
INVARIANTS
  BudgetSuffices
  CanonicalLeadsHere
  ReportsEntryOrItself
  AgreesWithMeaning
  WalkIsComplete
PROPERTY Ends
