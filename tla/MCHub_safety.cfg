SPECIFICATION Spec
CONSTANTS
  e1 = e1
  e2 = e2
  d1 = d1
  d2 = d2
  s1 = s1
  s2 = s2
  s3 = s3
  Endpoints = {e1, e2}
  Devices = {d1, d2}
  Streams = {s1, s2, s3}
  Senders = {g1}
  Events = {m1, m2}
  EndpointOf <- BothOnE1
  DeviceOf <- Reconnecting
  BufferSize = 2
SYMMETRY AnyEvent
INVARIANTS TypeOK NoSendOnClosed TableSound
PROPERTIES OneAttemptEach ImplementsFeeds
