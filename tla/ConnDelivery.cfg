CONSTANTS
  Rooms = {a,b}
  MaxMsgs = 1
  MaxDrops = 2
  Faults = {"latejoin","next","list","mark","stage","restart"}
SPECIFICATION FairSpec
INVARIANTS TypeOK NothingDark
PROPERTIES EveryMessageHandled
CHECK_DEADLOCK FALSE
