SPECIFICATION Spec
CONSTANTS
  c1 = c1
  c2 = c2
  v = v
  w = w
  p1 = p1
  p2 = p2
  p3 = p3
  p4 = p4
  None = None
  Nobody = Nobody
  Unknown = Unknown
  Caches = {c1, c2}
  Ips = {v, w}
  Ports <- MCPorts
  Places <- Nested
  Pids = {p1, p2, p3}
  Registrations <- Reused
  Deletions <- Reused
  PageSize = 1
  SearchLag = FALSE
  RiakMayFail = TRUE
  MayRestart = TRUE
SYMMETRY Alike
INVARIANTS
  TypeOK
  SoleWriterExact
  ExactInv
  RegistrationStays
