CONSTANTS
  Event = {"arm", "disarm", "motion", "tamper", "setting"}
  SirenFlag = {"st_arm"}
  CUSTOMER_ALC = TRUE
  Overlap = FALSE
  MaxOld = 1
SPECIFICATION FairSpec
INVARIANT DisarmedIsQuiet
PROPERTY ExitTimerArms EntryTimerReverts SirenTimesOut
