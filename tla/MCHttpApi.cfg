SPECIFICATION ApiSpec
CONSTANTS
  Clients = {c1}
  Keys = {k1, k2}
  TTLs = {1, 3, 4}
  PerSecond = 2
  MaxTime = 6
  Requests = {r1}
  Sent = {"notFound", "GitHubExchange", "Me", "CreateEndpoint", "DeleteEndpoint", "GetEvent", "ReceiveWebhook", "Heartbeat"}
  MaxFaults = 2
SYMMETRY AnyKey
INVARIANTS ApiTypeOK DeadAfterExpiry LivesAsTold HonestAnswer NotTurnedAway
