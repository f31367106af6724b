------------------------------ MODULE PortIndex ------------------------------
(***************************************************************************)
(* The port-range arithmetic of proxy/pmap.go.  An entry is registered     *)
(* with an inclusive range lport..rport; the code stores it in an interval *)
(* tree as the half-open interval [lport, rport+1).  An address written    *)
(* without a range ("ip:port") is parsed with rport = -1.                  *)
(***************************************************************************)
EXTENDS Integers

(* CreatePrincipalPP builds [Pmin, Pmax) = [lport, rport+1) and the tree   *)
(* refuses an interval that ends before it starts; the caller drops that   *)
(* error.                                                                  *)
Indexable(e) == e.lport <= e.rport + 1

(* Index.Overlap of the one-port query [port, port+1) with a stored entry. *)
Covers(e, port) == e.lport <= port /\ port <= e.rport

(* The id of an interval within its IP, whose bits stand above.  It is not *)
(* sixteen bits wide: the end 65536 carries into the start.                *)
ComputeID(e) == 65536 * e.lport + (e.rport + 1)

(* The tree keeps its entries by start, and by id where starts are equal.  *)
Before(e, f) == \/ e.lport < f.lport
                \/ e.lport = f.lport /\ ComputeID(e) < ComputeID(f)

(* The containment test of the loop in GetIndex.                           *)
Inside(e, f) == f.lport <= e.lport /\ e.rport <= f.rport

(* What GetIndex returns, without the loop: of the entries that end        *)
(* first, the one that starts last.  IndexSearch shows that the loop finds *)
(* exactly this entry.                                                     *)
Innermost(S) ==
  {e \in S : \A f \in S : \/ e.rport < f.rport
                          \/ e.rport = f.rport /\ f.lport <= e.lport}
=============================================================================
