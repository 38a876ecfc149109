SPECIFICATION Spec
CONSTANTS
  One = 8
  Top = 128
  Operands <- AllOperands
  Powers <- AllPowers
INVARIANTS
  TypeOK
  MultiplyFloors
  NothingLost
  DivideTruncates
  LoopsAreDivide
PROPERTIES
  Finishes
CHECK_DEADLOCK FALSE
