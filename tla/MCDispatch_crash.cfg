SPECIFICATION CrashSpec
CONSTANTS
  c1 = c1
  v1 = v1
  v2 = v2
  d1 = d1
  d2 = d2
  l1 = l1
  p1 = p1
  p2 = p2
  Containers = {c1}
  LegacyRows <- MCLegacyRows
  JobIds = {j1, j2}
  Vehicles = {v1, v2}
  Drivers = {d1, d2}
  Licences = {l1}
  Plates = {p1, p2}
  Plate <- MCPlate
  LicenceOf <- MCLicenceOf
  Dispatchers = {a1, a2}
  FieldRequests = {}
  Mortal = {}
  Orders <- MCOrders
  CargoWrites = {"create", "delete", "customs"}
  Requests = {r1, r2}
  Ops <- MCAllOps
  Patches <- MCPatches
PROPERTIES
  AuditIsFaithful
  LifecycleForwardOnly
  ImplementsReleaseGate
  NoDispatchUnderHold
  ImplementsJobRegister
