SPECIFICATION Spec
CONSTANTS
  k1 = k1
  k2 = k2
  r1 = r1
  r2 = r2
  c1 = c1
  c2 = c2
  svc = svc
  NoRequest = NoRequest
  NoClient = NoClient
  RingSize = 8
  Names = {svc}
  NameLen = 1
  MaxConv = 3
  Keys = {k1, k2}
  Requests = {r1, r2}
  StreamIds = 2
  ReadLens = {0, 1}
  WriteLens = {1}
  Clients = {c1, c2}
  DataLens = {1}
  Workloads <- CrowdWorkloads
INVARIANT TypeOK
INVARIANT InOrderAndOwn
INVARIANT SocketsSound
INVARIANT DaemonSound
INVARIANT AgreeOnStreams
SYMMETRY Symmetry
CHECK_DEADLOCK FALSE
