--------------------------- MODULE MCMetadataProxy ---------------------------
(***************************************************************************)
(* A small instance of MetadataProxy.  The provider creates a VM that has  *)
(* one port of its IP and is allocated another IP; the VM creates an       *)
(* instance there.  It also asks for more ports of its own IP, which it    *)
(* must not get.  Deletions name their target by place and uuid, by place  *)
(* only, or by uuid only.                                                  *)
(***************************************************************************)
EXTENDS MetadataProxy, TLC

CONSTANTS c1, v, w, vm, inner, more, address, r1, r2

MCPorts == {1, 2}
Host  == [ip |-> v, lport |-> 1, rport |-> 1]
More  == [ip |-> v, lport |-> 1, rport |-> 2]
Inner == [ip |-> w, lport |-> 1, rport |-> 2]

MCPlaces == {Host, More, Inner}

Inst(A, p) == [place |-> A, pid |-> p]

MCRegistrations == {Inst(Host, vm), Inst(More, more), Inst(Inner, inner)}

(* A deletion by place only has the address where others have the uuid.    *)
MCDeletions == {Inst(Host, vm), Inst(Inner, inner), Inst(Inner, address)}

MCCidr == [p \in Pids |-> IF p = vm THEN {w} ELSE {}]

Says(speaker, op, A, p) ==
  [op |-> op, speaker |-> speaker, place |-> A, pid |-> p, about |-> None]
From(ip, n) == [ip |-> ip, port |-> n]

MCCalls ==
  {Says(IaaS, "createVM", Host, vm),
   Says(From(v, 1), "create", Inner, inner),
   Says(vm, "create", More, more),
   Says(IaaS, "lazyDelete", None, inner),
   Says(From(v, 1), "lazyDelete", Inner, address),
   Says(From(w, 2), "delete", Inner, inner),
   Says(NoAuth, "delete", Inner, inner)}

(* The other handlers: what a speaker may do about the inner instance, one *)
(* call for each path they take; here it shares the IP of its host.        *)
Guest == [ip |-> v, lport |-> 1, rport |-> 1]
Outer == [ip |-> v, lport |-> 1, rport |-> 2]

SharedPlaces == {Outer, Guest}
SharedRegistrations == {Inst(Outer, vm), Inst(Guest, inner)}

SaysOf(speaker, op, x) ==
  [op |-> op, speaker |-> speaker, place |-> None, pid |-> None, about |-> x]

OtherCalls ==
  {Says(IaaS, "createVM", Outer, vm),
   Says(From(v, 2), "create", Guest, inner),
   SaysOf(vm, "config", From(v, 1)),
   SaysOf(IaaS, "member", inner),
   SaysOf(From(v, 1), "check", vm),
   SaysOf(NoAuth, "check", IaaS),
   SaysOf(inner, "selfConfig", None),
   SaysOf(From(v, 2), "ask", None),
   SaysOf(NoAuth, "garbled", None)}

(* Nothing here depends on the last answer of a cache, or on who wrote or  *)
(* claimed a place.                                                        *)
WithoutHistory == <<pmap, pending, riak, solr, req, safe, adrift, granted, contested, vouched>>

Swap == Permutations({r1, r2})
=============================================================================
