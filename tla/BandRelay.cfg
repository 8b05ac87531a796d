CONSTANTS
  Faults = {"restart","mark","terminal","pr","pubsub","ended"}
  MaxFailures = 3
  MaxReworks = 2
  DBEnabled = TRUE
  MaxChat = 21
SPECIFICATION Spec
INVARIANTS ReportMatchesPR SnapshotIsPrevious
PROPERTIES FollowsPipeline
CHECK_DEADLOCK FALSE
