SPECIFICATION FairCheckSpec
CONSTANTS
  MaxExprDepth = 4
  EvaluationDepth = 5
  StepLimit = 150
  Games <- TheGames
  PlanOf <- ThePlans
  RulesOf <- TheRules
  ShufflesOf <- TheOrders
  Eval <- Evaluate
CHECK_DEADLOCK FALSE
INVARIANTS
  TypeOK
  OneHome
  EveryCallIsRequired
  CapacityIsEnough
  
PROPERTIES
  RunsTheRule
  RefusalsAreDeserved
  Ends
