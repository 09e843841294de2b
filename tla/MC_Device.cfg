SPECIFICATION Spec
CONSTANTS
  q1 = q1
  q2 = q2
  d1 = d1
  d2 = d2
  Queues = {q1, q2}
  Devices = {d1, d2}
  DeviceOf <- OneEach
  NoDevice = NoDevice
  Backends = {"cuda10", "cuda11", "rocm", "onemkl", "stub"}
  Routines <- Distinct
  Needs = {1, 2}
  Infos <- SeenInfos
  Careless = {"cuda11", "onemkl"}
  MaxCalls = 2
INVARIANTS
  TypeOK
  OnItsDevice
  WorkspaceLive
  InfoDelivered
  IllegalThrows
  HandlesReleased
PROPERTIES
  ReleasedWhereMade
  KeepsOrder
  Completes
