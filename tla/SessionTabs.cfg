CONSTANTS
  t1 = t1
  t2 = t2
  Tabs <- MCTabs
  Calls <- MCCalls
  Users = {g1}
  Guests = {g1}
  NoUser = NoUser
  MaxPairs = 3
  MaxTrouble = 1
  Faults = {"net", "db", "reload"}

SPECIFICATION FairSpec
INVARIANTS TypeOK NotStranded OnlyExpiredRefused
PROPERTIES CallsReturn
CHECK_DEADLOCK FALSE
