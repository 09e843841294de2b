SPECIFICATION Spec
CONSTANTS
  q1 = q1
  q2 = q2
  d1 = d1
  d2 = d2
  Queues = {q1, q2}
  Devices = {d1, d2}
  DeviceOf <- OneEach
  NoDevice = NoDevice
  Backends = {"rocm"}
  Routines <- OnlyPotrf
  Needs = {1, 2}
  Infos <- AllInfos
  Careless = {"rocm"}
  MaxCalls = 2
INVARIANT
  IllegalAsTested
