\* Validation, lowering and evaluation of every small expression.
SPECIFICATION Spec
CONSTANTS
  MaxExprDepth = 3
  EvaluationDepth = 4
  Trees <- MCTrees
  Types <- MCTypes
  Zones <- MCZones
  Worlds <- MCWorlds
INVARIANTS
  TypesAreSound
  MeaningIsKept
CHECK_DEADLOCK FALSE
