SPECIFICATION Spec
CONSTANTS
  Schedules <- AllSchedules
  MaxSlot = 3300
  Bits = 30
INVARIANTS
  SlotInItsEpoch
PROPERTY EpochsFollow
CHECK_DEADLOCK FALSE
