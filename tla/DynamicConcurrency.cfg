CONSTANTS
  Tasks = {t1, t2, t3, t4}
  RateUnit = 2
  MinRate = 1
  HardCap = 4
SPECIFICATION FairSpec
INVARIANTS SlotAccounting NoIdleSlot
PROPERTIES GateIsImplemented WaitersInOrder WaitersDrain
