SPECIFICATION FairSpec
CONSTANTS
  c1 = c1
  v1 = v1
  v2 = v2
  d1 = d1
  d2 = d2
  l1 = l1
  p1 = p1
  p2 = p2
  Containers = {c1}
  LegacyRows <- MCNoRows
  JobIds = {j1}
  Vehicles = {v1, v2}
  Drivers = {d1, d2}
  Licences = {l1}
  Plates = {p1, p2}
  Plate <- MCPlate
  LicenceOf <- MCLicenceOf
  Dispatchers = {a1}
  FieldRequests = {f1, f2}
  Mortal = {f2}
  Orders <- MCOneOrder
  CargoWrites = {"create"}
  Requests = {r1, r2}
  Ops <- MCNoDelete
  Patches <- MCPatches
INVARIANTS
  StatusBackedByFacts
  FlagImpliesReleased
PROPERTIES
  GateInTakesEffect
  YardAssignmentTakesEffect
