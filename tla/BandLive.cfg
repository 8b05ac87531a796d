CONSTANTS
  Faults = {"pr","kickoff","redis","sendlost","blank"}
  MaxFailures = 2
  MaxReworks = 1
  DBEnabled = TRUE
  MaxChat = 17
SPECIFICATION FairSpec
PROPERTIES RunFinishes
CHECK_DEADLOCK FALSE
