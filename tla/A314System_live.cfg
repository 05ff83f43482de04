SPECIFICATION FairSpec
CONSTANTS
  k1 = k1
  k2 = k2
  r1 = r1
  r2 = r2
  c1 = c1
  c2 = c2
  svc = svc
  NoRequest = NoRequest
  NoClient = NoClient
  RingSize = 7
  Names = {svc}
  NameLen = 1
  MaxConv = 1
  Keys = {k1}
  Requests = {r1, r2}
  StreamIds = 4
  ReadLens = {1}
  WriteLens = {1}
  Clients = {c1}
  DataLens = {1}
  Workloads <- LiveWorkloads
PROPERTY SendsAnswered
PROPERTY WritesDelivered
PROPERTY ChannelsFreed
CHECK_DEADLOCK FALSE
