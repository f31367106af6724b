SPECIFICATION ProcessSpec
CONSTANTS
  a1 = a1
  a2 = a2
  ip1 = ip1
  p1 = p1
  p2 = p2
  s1 = s1
  s2 = s2
  Addrs = {a1, a2}
  Ips = {ip1}
  IpOf <- MCIpOf
  Pods = {p1, p2}
  Slots = {s1, s2}
  None = None
  Torn = Torn
  Malformed = Malformed
SYMMETRY Swap
INVARIANTS
  ProcessTypeOK
  SearchableOrAbandoned
  RightAtSomeMoment
  PodInv
