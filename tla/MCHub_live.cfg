SPECIFICATION FairSpec
CONSTANTS
  e1 = e1
  e2 = e2
  d1 = d1
  d2 = d2
  s1 = s1
  s2 = s2
  s3 = s3
  Endpoints = {e1, e2}
  Devices = {d1, d2}
  Streams = {s1, s3}
  Senders = {g1, g2}
  Events = {m1}
  EndpointOf <- BothOnE1
  DeviceOf <- OneEach
  BufferSize = 1
INVARIANTS ConnectedDeviceIsReached
PROPERTIES FrozenWhileIterated CallsReturn
