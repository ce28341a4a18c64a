SPECIFICATION YardSpec
CONSTANTS
  c1 = c1
  c2 = c2
  A = A
  B = B
  r1 = r1
  r2 = r2
  Stored = {c1, c2}
  Blocks = {A}
  Planners = {r1}
  MaxSlot = 4
  MaxDepartures = 1
INVARIANTS
  PlansDoNotCollide
CHECK_DEADLOCK FALSE
