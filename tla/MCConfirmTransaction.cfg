SPECIFICATION FairSpec
CONSTANTS
  Level = "confirmed"
  Validity = 2
  Extra = 2
  MaxLag = 1
  MaxRetries = 2
  MaxTip = 6
INVARIANTS
  TypeOK
  TrueIsRight
  TimeoutIsFinal
PROPERTIES
  StandingLevelNoticed
  Returns
CHECK_DEADLOCK FALSE
