SPECIFICATION Spec
CONSTANTS
  e1 = e1
  d1 = d1
  d2 = d2
  s1 = s1
  s2 = s2
  Endpoints = {e1, e2}
  Devices = {d1, d2}
  Streams = {s1, s2}
  Senders = {r1, r2}
  Events = {v1}
  EndpointOf <- AllOnE1
  DeviceOf <- OneEach
  BufferSize = 1
  MaxReplays = 1
  MaxFaults = 1
SYMMETRY AnyName
INVARIANTS TypeOK StoredBeforeSeen LogsTruthful LogsComplete AnsweredIsLogged
PROPERTIES ImplementsInbox QuietWhenOff
