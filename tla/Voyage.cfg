CONSTANTS
  Faults = {"start", "reload", "layout", "motion", "hide", "resize", "again"}
  MaxTrouble = 3
  Layouts = {3, 5}
SPECIFICATION FairSpec
INVARIANTS TypeOK ReactInStep
PROPERTIES LoadingOnce ArrivedMoors CutawayFits
CHECK_DEADLOCK FALSE
