SPECIFICATION Spec
CONSTANTS
  Containers = {c1}
  LegacyRows <- MCNoRows
  Bookings = {b1, b2}
  ExportRequests = {x1, x2}
  MortalExports = {x2}
  CargoCreates = TRUE
  Call = {v1}
  Craft = {t1, t2}
  NoCall = NoCall
  Messages <- MCMessages
  c1 = c1
  c2 = c2
  A = A
  r1 = r1
  r2 = r2
  v1 = v1
  Stored = {c1, c2}
  Blocks = {A}
  Planners = {r1, r2}
  MaxSlot = 3
  MaxDepartures = 1
  Meter = {"m1", "m2"}
  SlotCode = {"hour"}
  Truck = {"k1", "k2"}
  SlotOf <- MCSlotOf
  Covers <- MCCovers
  SlotCap <- MCSlotCap
  Capacities = {1, 2}
  MaxWindows = 2
  MaxRestarts = 1
  Nothing = Nothing
  gates = gates
  reads = reads
  Plan <- MCPlan
  Hyper = {reads}
  Tuple = {"k1", "h1", "h2", "h3"}
  TableOf <- MCTableOf
  Place <- MCPlace
  Value = {x, y}
  Fresh = x
  Absent = Absent
  BatchSize = 1
CHECK_DEADLOCK FALSE
INVARIANTS
  MirrorNeverAhead
  CollisionsNeedARace
  CraftStateNeedsARace
  ShadowedPilotNeedsAMiss
  InPortColumnsAreBacked
  LegsStartFromPort
  CapIsKept
  MetersSurviveRestarts
  SeatsAreCounted
  TargetIsAPrefix
  VerdictIsTrue
  MigratedKeysAreReserved
PROPERTIES
  LoadedIsMirrored
