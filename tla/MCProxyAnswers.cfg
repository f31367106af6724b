SPECIFICATION FairProxySpec
CONSTANTS
  c1 = c1
  v = v
  w = w
  vm = vm
  inner = inner
  more = more
  address = address
  r1 = r1
  r2 = r2
  None = None
  Nobody = Nobody
  Unknown = Unknown
  IaaS = IaaS
  NoAuth = NoAuth
  Caches = {c1}
  Requests = {r1, r2}
  Ips = {v, w}
  Ports <- MCPorts
  Places <- SharedPlaces
  Pids = {vm, inner}
  Registrations <- SharedRegistrations
  Deletions <- SharedRegistrations
  Calls <- OtherCalls
  Cidr <- MCCidr
  PageSize = 3
  SearchLag = FALSE
  RiakMayFail = TRUE
  MayRestart = TRUE
INVARIANTS
  SpeakersWereStated
PROPERTIES
  EveryRequestAnswered
