SPECIFICATION Spec
CONSTANTS
  c1 = c1
  c2 = c2
  v = v
  w = w
  p1 = p1
  p2 = p2
  p3 = p3
  p4 = p4
  None = None
  Nobody = Nobody
  Unknown = Unknown
  Caches = {c1, c2}
  Ips = {v, w}
  Ports <- MCPorts
  Places <- Crowd
  Pids = {p1, p2, p3, p4}
  Registrations <- Crowded
  Deletions <- Renewed
  PageSize = 2
  SearchLag = TRUE
  RiakMayFail = FALSE
  MayRestart = FALSE
VIEW WithoutWriter
SYMMETRY Alike
INVARIANTS
  NeverPanics
  AnswersAddress
  NoFalseNotFound
  RegistrationStays
PROPERTIES
  BringsUpPage
