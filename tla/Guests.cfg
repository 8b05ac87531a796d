CONSTANTS
  ada = ada
  bob = bob
  zoe = zoe
  acme = acme
  q1 = q1
  q2 = q2
  Companies = {ada, bob, zoe, acme}
  Guests = {ada, bob, zoe}
  Addresses = {"home"}
  Address <- MCAddress
  Requests = {q1, q2}
  SessionLimit = 1
  GlobalLimit = 2
  RunLimit = 2
  Faults = {"call", "stray", "crash"}
  MaxRuns = 3
  MaxTrouble = 1
SPECIFICATION Spec
SYMMETRY MCSymmetry
INVARIANTS TypeOK LimitsHold NumberIsFree
CHECK_DEADLOCK FALSE
