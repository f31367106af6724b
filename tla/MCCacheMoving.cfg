SPECIFICATION Spec
CONSTANTS
  c1 = c1
  c2 = c2
  v = v
  w = w
  p1 = p1
  p2 = p2
  p3 = p3
  p4 = p4
  None = None
  Nobody = Nobody
  Unknown = Unknown
  Caches = {c1, c2}
  Ips = {v, w}
  Ports <- MCPorts
  Places <- Nested
  Pids = {p1, p2, p3}
  Registrations <- Moving
  Deletions <- Moving
  PageSize = 3
  SearchLag = FALSE
  RiakMayFail = FALSE
  MayRestart = FALSE
SYMMETRY Workers
INVARIANTS
  NeverPanics
