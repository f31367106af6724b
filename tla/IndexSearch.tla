----------------------------- MODULE IndexSearch -----------------------------
(***************************************************************************)
(* The loop of Pmap.GetIndex (proxy/pmap.go), one iteration per step.      *)
(*                                                                         *)
(* The interval tree answers a query with the overlapping entries in       *)
(* (Start, ID) order.  The loop walks them and keeps the entry it has      *)
(* found, moving to a later one when that one lies inside it.              *)
(***************************************************************************)
EXTENDS PortIndex

CONSTANTS MaxPort,   \* ports are 0..MaxPort
          None       \* the nil index

Port    == 0..MaxPort
Entry   == {e \in [lport: Port, rport: Port \cup {-1}] : Indexable(e)}

ASSUME PortAssumption == MaxPort \in Nat /\ None \notin Entry

VARIABLES entries,   \* the tree of one IP: the ranges registered there
          port,      \* the port looked up
          rest,      \* overlapping entries the loop has not visited yet
          found      \* the variable of that name in GetIndex

vars == <<entries, port, rest, found>>

(* tree.Get(query): the entries that overlap the query.                    *)
Overlapping == {e \in entries : Covers(e, port)}

(* Mutant of Init: the tree returns every entry.                           *)
InitWholeTree ==
  /\ entries \in SUBSET Entry
  /\ port \in Port
  /\ rest = entries
  /\ found = None

Init ==
  /\ entries \in SUBSET Entry
  /\ port \in Port
  /\ rest = Overlapping
  /\ found = None

(* found := indexes[0]                                                     *)
TakeFirst ==
  /\ found = None
  /\ \E e \in rest :
       /\ \A f \in rest \ {e} : Before(e, f)
       /\ found' = e
       /\ rest' = rest \ {e}
  /\ UNCHANGED <<entries, port>>

(* Mutants of Visit: the outer entry is kept; the last one is kept; the end *)
(* of the range is not compared.                                           *)
VisitIf(replaces(_, _)) ==
  /\ found # None
  /\ \E e \in rest :
       /\ \A f \in rest \ {e} : Before(e, f)
       /\ found' = IF replaces(e, found) THEN e ELSE found
       /\ rest' = rest \ {e}
  /\ UNCHANGED <<entries, port>>

VisitOutermost == VisitIf(LAMBDA e, f : Inside(f, e))
VisitLast      == VisitIf(LAMBDA e, f : TRUE)
VisitByStart   == VisitIf(LAMBDA e, f : f.lport <= e.lport)

(* One iteration of the loop over indexes[1..].                            *)
Visit ==
  /\ found # None
  /\ \E e \in rest :
       /\ \A f \in rest \ {e} : Before(e, f)
       /\ found' = IF Inside(e, found) THEN e ELSE found
       /\ rest' = rest \ {e}
  /\ UNCHANGED <<entries, port>>

Next == TakeFirst \/ Visit

Spec == Init /\ [][Next]_vars

-----------------------------------------------------------------------------
TypeOK ==
  /\ entries \subseteq Entry
  /\ port \in Port
  /\ rest \subseteq Overlapping
  /\ found \in Overlapping \cup {None}

(* "find the inner most one" (pmap.go:136): when the loop ends, the index  *)
(* it returns is an entry that covers the port and no other entry covering *)
(* the port lies inside it; nil is returned only when no entry covers it.  *)
ReturnsInnermost ==
  rest = {} =>
    IF found = None
    THEN Overlapping = {}
    ELSE /\ found \in Overlapping
         /\ \A f \in Overlapping : Inside(f, found) => f = found

(* The loop computes the closed form the other modules use: its result is  *)
(* the one member of Innermost, whatever crossing or nested ranges the     *)
(* tree holds.                                                             *)
ReturnsClosedForm ==
  rest = {} => Innermost(Overlapping) = {found} \ {None}

(* The strengthening: the loop has found the innermost of what it visited, *)
(* and everything still to visit comes later in the order of the tree.     *)
Visited == Overlapping \ rest

IInv ==
  /\ TypeOK
  /\ found = None <=> Visited = {}
  /\ found # None => found \in Innermost(Visited)
  /\ \A e \in Visited, f \in rest : Before(e, f)
=============================================================================
