CONSTANTS
  Event = {"arm", "disarm", "motion", "tamper", "vibration", "testmode", "service", "fwupdate"}
  SirenFlag = {"st_arm"}
  CUSTOMER_ALC = FALSE
  Overlap = FALSE
  MaxOld = 1
SPECIFICATION Spec
INVARIANT DelayHasTimer
