----------------------------- MODULE MCSoleCache -----------------------------
(* One worker; ranges that cross and nest, and an inverted one.            *)
EXTENDS SoleCache

CONSTANTS v, w, p1, p2, p3, p4, p5, p6

MCIps    == {v, w}
MCPorts  == 1..4
Left     == [ip |-> v, lport |-> 1, rport |-> 3]
Right    == [ip |-> v, lport |-> 2, rport |-> 4]
Narrow   == [ip |-> v, lport |-> 3, rport |-> 3]
Other    == [ip |-> w, lport |-> 1, rport |-> 4]
Inverted == [ip |-> w, lport |-> 3, rport |-> -1]

MCPlaces == {Left, Right, Narrow, Other, Inverted}

At(A, p) == [place |-> A, pid |-> p]

MCRegistrations ==
  {At(Left, p1), At(Left, p2), At(Right, p3), At(Narrow, p4), At(Other, p5), At(Inverted, p6)}
=============================================================================
