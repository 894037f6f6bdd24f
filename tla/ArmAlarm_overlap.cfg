CONSTANTS
  Event = {"arm", "disarm", "panic"}
  SirenFlag = {"st_arm"}
  CUSTOMER_ALC = TRUE
  Overlap = TRUE
  MaxOld = 1
SPECIFICATION FairSpec
PROPERTY ExitDelayEnds
