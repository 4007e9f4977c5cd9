SPECIFICATION FairSpec
CONSTANTS
  Tables <- SomeTables
  MinRaise = 1
CHECK_DEADLOCK FALSE
INVARIANTS
  TypeOK
  AskedHasToDecide
  CanBeSettled
PROPERTIES
  ChipsAreConserved
  NobodyWinsMoreThanMatched
  GameEnds
