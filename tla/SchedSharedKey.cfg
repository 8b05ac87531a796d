CONSTANTS
  r1 = r1
  r2 = r2
  r3 = r3
  q1 = q1
  q2 = q2
  q3 = q3
  c1 = c1
  Runs = {r1, r2}
  Reqs = {q1, q2}
  Cancels = {c1}
  NumSlots = 1
  Faults = {}
  GuestRefused = {}
  NoRun = NoRun
  Reconciler = Reconciler
  Unlocked = Unlocked
SPECIFICATION Spec
INVARIANTS KeyNotShared
