--------------------------- MODULE MCInstanceCache ---------------------------
(***************************************************************************)
(* Small instances of InstanceCache: two workers.  On IP v a wide range (a *)
(* VM) holds a narrow one (a container); the wide range is used by two     *)
(* instances, one after the other.  In another instance the IP has one     *)
(* document more than a page: an address without a range, which the proxy  *)
(* parses as an inverted one.  Lookups go to a second IP, w, as well.      *)
(***************************************************************************)
EXTENDS InstanceCache, TLC

CONSTANTS c1, c2, v, w, p1, p2, p3, p4

MCPorts  == {1, 2}
Wide     == [ip |-> v, lport |-> 1, rport |-> 2]
Narrow   == [ip |-> v, lport |-> 2, rport |-> 2]
Inverted == [ip |-> v, lport |-> 1, rport |-> -1]

At(A, p) == [place |-> A, pid |-> p]

Nested  == {Wide, Narrow}
Reused  == {At(Wide, p1), At(Wide, p2), At(Narrow, p3)}

Crowd   == {Wide, Narrow, Inverted}
Crowded == {At(Wide, p1), At(Wide, p2), At(Narrow, p3), At(Inverted, p4)}
Renewed == {At(Wide, p1), At(Wide, p2)}

(* One uuid registered at two addresses: the callers break OneHome.        *)
Moving  == {At(Wide, p1), At(Narrow, p1)}

(* Who wrote what is left out where no property speaks of it.              *)
WithoutWriter == <<pmap, pending, riak, solr, reply, claim>>

Workers == Permutations({c1, c2})
Alike   == Workers \cup Permutations({p1, p2})
=============================================================================
