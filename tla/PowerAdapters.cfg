CONSTANTS
  Adapter = {a1, a2, a3}
  a1 = a1
  a2 = a2
  a3 = a3
  Timer = {t1, t2}
  t1 = t1
  t2 = t2
  Num = {1}
  Plan <- OnePlan
  Uses = {{"autooff"}, {"schedule"}}
  MAXDEVICENUM = 2
  SCHEDULE_MAX_TARGET = 1
  DAY = 2
  ZONE = 1
SYMMETRY Alike
SPECIFICATION Spec
INVARIANTS TypeOK TimersAreTheirs
PROPERTIES EndsAreSent
