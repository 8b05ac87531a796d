CONSTANTS
  Agents = {"router", "coder"}
  Sender <- MCSender
  Words <- MCWords
  Second <- MCSecond
  Generators = {"coder"}
  Faults = {"poll", "drop", "rows", "chips", "shiki"}
  MaxTrouble = 2
  MaxFiles = 2
  Layouts = {FALSE}
SPECIFICATION PageSpec
INVARIANTS PageTypeOK OneStream EachOnce NothingLost SpokenOnce ViewerShowsFile
CHECK_DEADLOCK FALSE
