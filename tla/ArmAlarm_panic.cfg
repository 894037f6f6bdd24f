CONSTANTS
  Event = {"arm", "disarm", "motion", "tamper", "setting", "panic", "restart"}
  SirenFlag = {"st_arm"}
  CUSTOMER_ALC = FALSE
  Overlap = FALSE
  MaxOld = 1
SPECIFICATION FairSpec
INVARIANT TypeOK RestartKeepsSide AlarmIsShown
PROPERTY ExitDelayEnds EntryDelayEnds
