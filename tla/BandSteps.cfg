CONSTANTS
  Faults = {"restart","mark","stage","terminal","send","kickoff","blank","store"}
  MaxFailures = 3
  MaxReworks = 1
  DBEnabled = FALSE
  MaxChat = 16
SPECIFICATION Spec
INVARIANTS TypeOK StepExclusive HandoffOnce InputsOfThisCycle
CHECK_DEADLOCK FALSE
