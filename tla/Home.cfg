CONSTANTS
  Repos = {"ledger", "claims", "notes", "site"}
  Kind <- MCKind
  Branches <- MCBranches
  Main <- MCMain
  Langs <- MCLangs
  Detected <- MCDetected
  HasDB <- MCHasDB
  NoRepo = "no repo"
  NoText = "no text"
  MaxAsks = 2
  MaxSeq = 2
  MaxForms = 2
SPECIFICATION Spec
INVARIANTS TypeOK ResolvedIsLatest LaunchFits
CHECK_DEADLOCK FALSE
