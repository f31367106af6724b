SPECIFICATION OrderlySpec
CONSTANTS
  sole = sole
  v = v
  w = w
  p1 = p1
  p2 = p2
  p3 = p3
  p4 = p4
  p5 = p5
  p6 = p6
  None = None
  Nobody = Nobody
  Unknown = Unknown
  Caches = {sole}
  Ips <- MCIps
  Ports <- MCPorts
  Places <- MCPlaces
  Pids = {p1, p2, p3, p4, p5, p6}
  Registrations <- MCRegistrations
  Deletions <- MCRegistrations
  PageSize = 2
  SearchLag = FALSE
  RiakMayFail = FALSE
  MayRestart = FALSE
INVARIANTS
  CacheIsStore
PROPERTIES
  ImplementsRegistry
