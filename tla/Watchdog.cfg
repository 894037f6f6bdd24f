CONSTANTS
  POLL = 1
  LISTEN = 1
  PROC = 1
  CHECK = 2
  CAT = 2
  LIMIT = 5
  TempMisses = 3
  ListenMisses = 3
  Fault = {"crash", "freeze", "stick", "silence", "clock", "phone", "kernel"}
  MaxLost = 1
  Age <- SomeAges
  Back = 1
  Reach = 10
SPECIFICATION Spec
INVARIANTS TypeOK MissesAreCounted FrozenIsNoticed GoneIsBack
PROPERTY NoFalseAlarm
