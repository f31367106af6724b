SPECIFICATION ProxySpec
CONSTANTS
  c1 = c1
  v = v
  w = w
  vm = vm
  inner = inner
  more = more
  address = address
  r1 = r1
  r2 = r2
  None = None
  Nobody = Nobody
  Unknown = Unknown
  IaaS = IaaS
  NoAuth = NoAuth
  Caches = {c1}
  Requests = {r1, r2}
  Ips = {v, w}
  Ports <- MCPorts
  Places <- MCPlaces
  Pids = {vm, inner, more, address}
  Registrations <- MCRegistrations
  Deletions <- MCDeletions
  Calls <- MCCalls
  Cidr <- MCCidr
  PageSize = 3
  SearchLag = TRUE
  RiakMayFail = TRUE
  MayRestart = TRUE
SYMMETRY Swap
INVARIANTS
  ProxyTypeOK
  RootedInIaaS
  StoredIsStated
  ProxyInv
VIEW WithoutHistory
