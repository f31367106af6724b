-------------------------- MODULE IndexSearchProofs --------------------------
(***************************************************************************)
(* Proofs about the loop of Pmap.GetIndex, for every MaxPort.              *)
(***************************************************************************)
EXTENDS IndexSearch, TLAPS

(* "Creating same Index is not a problem, since the key field in interval  *)
(* tree will always be the same" (cache.go:64-66) needs the converse too:  *)
(* two ranges of an IP with sixteen-bit ports never share an id, although  *)
(* the end of a range may carry into its start.  Inverted ranges do share  *)
(* ids with others, and the tree does not take them.                       *)
THEOREM IdsAreDistinct ==
  ASSUME NEW e \in [lport: Int, rport: Int], 0 <= e.lport, e.lport <= e.rport, e.rport <= 65535,
         NEW f \in [lport: Int, rport: Int], 0 <= f.lport, f.lport <= f.rport, f.rport <= 65535,
         ComputeID(e) = ComputeID(f)
  PROVE  e = f
<1>1. ASSUME NEW p \in Int, NEW q \in Int, NEW r \in Int, NEW s \in Int,
             0 <= q, q <= 65535, 0 <= s, s <= 65535,
             65536 * p + (q + 1) = 65536 * r + (s + 1)
      PROVE  p = r /\ q = s
  BY <1>1
<1>2. /\ e.lport \in Int /\ e.rport \in Int /\ 0 <= e.rport
      /\ f.lport \in Int /\ f.rport \in Int /\ 0 <= f.rport
  OBVIOUS
<1>3. 65536 * e.lport + (e.rport + 1) = 65536 * f.lport + (f.rport + 1)
  BY DEF ComputeID
<1>4. e.lport = f.lport /\ e.rport = f.rport
  BY <1>1, <1>2, <1>3
<1> QED
  BY <1>4

(* The order of the tree and the containment test, on the entries of one   *)
(* IP: an entry that comes later and lies inside ends no later; one that   *)
(* comes later and does not lie inside ends later.                         *)
LEMMA LaterEntry ==
  ASSUME NEW e \in Entry, NEW f \in Entry, Before(f, e)
  PROVE  /\ f.lport <= e.lport
         /\ Inside(e, f) <=> e.rport <= f.rport
BY PortAssumption DEF Entry, Port, Before, Inside, ComputeID

(* Choosing one more entry, later than all that were seen, keeps the       *)
(* choice of the loop innermost.                                           *)
LEMMA InnermostStep ==
  ASSUME NEW S \in SUBSET Entry, NEW e \in Entry, NEW g \in Innermost(S),
         \A f \in S : Before(f, e)
  PROVE  (IF Inside(e, g) THEN e ELSE g) \in Innermost(S \cup {e})
<1> USE DEF Innermost
<1>0. g \in S /\ g \in Entry
  OBVIOUS
<1>1. e.lport \in Int /\ e.rport \in Int /\ g.lport \in Int /\ g.rport \in Int
  BY <1>0, PortAssumption DEF Entry, Port
<1>2. \A f \in S : f.lport \in Int /\ f.rport \in Int /\ f.lport <= e.lport
  BY LaterEntry, PortAssumption DEF Entry, Port
<1>3. \A f \in S : g.rport < f.rport \/ (g.rport = f.rport /\ f.lport <= g.lport)
  OBVIOUS
<1>4. CASE Inside(e, g)
  <2>1. e.rport <= g.rport
    BY <1>4 DEF Inside
  <2>2. \A f \in S : e.rport < f.rport \/ (e.rport = f.rport /\ f.lport <= e.lport)
    BY <1>1, <1>2, <1>3, <2>1
  <2>3. e.rport = e.rport /\ e.lport <= e.lport
    BY <1>1
  <2> QED
    BY <1>4, <2>2, <2>3
<1>5. CASE ~Inside(e, g)
  <2>1. g.rport < e.rport
    BY <1>0, <1>1, <1>5, LaterEntry
  <2> QED
    BY <1>0, <1>3, <1>5, <2>1
<1> QED
  BY <1>4, <1>5

(* The strengthened invariant holds before the loop starts.                *)
LEMMA InitIInv == Init => IInv
BY DEF Init, IInv, TypeOK, Visited, Overlapping

(* The strengthened invariant is preserved by the first assignment and by  *)
(* every iteration of the loop.                                            *)
LEMMA NextIInv == IInv /\ [Next]_vars => IInv'
<1> SUFFICES ASSUME IInv, [Next]_vars PROVE IInv'
  OBVIOUS
<1> USE DEF IInv, TypeOK
<1>0. Overlapping \subseteq Entry
  BY DEF Overlapping
<1>1. CASE TakeFirst
  <2>1. PICK e \in rest : /\ \A f \in rest \ {e} : Before(e, f)
                          /\ found' = e
                          /\ rest' = rest \ {e}
    BY <1>1 DEF TakeFirst
  <2>2. entries' = entries /\ port' = port /\ Overlapping' = Overlapping
    BY <1>1 DEF TakeFirst, Overlapping
  <2>3. Visited = {} /\ Visited' = {e}
    BY <1>1, <2>1, <2>2 DEF Visited, TakeFirst
  <2>4. e \in Entry /\ e # None /\ e.lport \in Int
    BY <1>0, <2>1, PortAssumption DEF Entry, Port
  <2>5. TypeOK'
    BY <2>1, <2>2
  <2>6. found' \in Innermost(Visited')
    BY <2>1, <2>3, <2>4 DEF Innermost
  <2>7. \A x \in Visited', f \in rest' : Before(x, f)
    BY <2>1, <2>3
  <2>8. (found = None <=> Visited = {})'
    BY <2>1, <2>3, <2>4
  <2> QED
    BY <2>5, <2>6, <2>7, <2>8
<1>2. CASE Visit
  <2>1. PICK e \in rest : /\ \A f \in rest \ {e} : Before(e, f)
                          /\ found' = (IF Inside(e, found) THEN e ELSE found)
                          /\ rest' = rest \ {e}
    BY <1>2 DEF Visit
  <2>2. entries' = entries /\ port' = port /\ Overlapping' = Overlapping
    BY <1>2 DEF Visit, Overlapping
  <2>3. Visited' = Visited \cup {e}
    BY <2>1, <2>2 DEF Visited
  <2>4. e \in Entry /\ e # None
    BY <1>0, <2>1, PortAssumption
  <2>5. found # None /\ found \in Innermost(Visited)
    BY <1>2 DEF Visit
  <2>6. TypeOK'
    BY <2>1, <2>2, <2>5
  <2>7. found' \in Innermost(Visited')
    <3>1. Visited \in SUBSET Entry
      BY <1>0 DEF Visited
    <3>2. \A f \in Visited : Before(f, e)
      BY <2>1
    <3> QED
      BY <2>1, <2>3, <2>4, <2>5, <3>1, <3>2, InnermostStep
  <2>8. \A x \in Visited', f \in rest' : Before(x, f)
    BY <2>1, <2>3
  <2>9. (found = None <=> Visited = {})'
    BY <2>1, <2>3, <2>4, <2>5
  <2> QED
    BY <2>6, <2>7, <2>8, <2>9
<1>3. CASE UNCHANGED vars
  BY <1>3 DEF vars, Overlapping, Visited
<1> QED
  BY <1>1, <1>2, <1>3 DEF Next

(* The invariant at the end of the loop gives the two results.             *)
LEMMA IInvResult == IInv => ReturnsInnermost /\ ReturnsClosedForm
<1> SUFFICES ASSUME IInv, rest = {}
             PROVE  /\ IF found = None
                       THEN Overlapping = {}
                       ELSE /\ found \in Overlapping
                            /\ \A f \in Overlapping : Inside(f, found) => f = found
                    /\ Innermost(Overlapping) = {found} \ {None}
  BY DEF ReturnsInnermost, ReturnsClosedForm
<1> USE DEF IInv, TypeOK
<1>1. Visited = Overlapping /\ Overlapping \subseteq Entry
  BY DEF Visited, Overlapping
<1>2. \A f \in Overlapping : /\ f \in [lport : Port, rport : Port \cup {-1}]
                             /\ f.lport \in Int
                             /\ f.rport \in Int
                             /\ f # None
  BY <1>1, PortAssumption DEF Entry, Port
<1>3. CASE found = None
  BY <1>1, <1>3 DEF Innermost
<1>4. CASE found # None
  <2>1. found \in Innermost(Overlapping)
    BY <1>1, <1>4
  <2>2. \A f \in Overlapping : f.lport = found.lport /\ f.rport = found.rport
                                 => f = found
    BY <1>2, <2>1 DEF Innermost
  <2>3. \A f \in Overlapping : Inside(f, found) => f = found
    BY <1>2, <2>1, <2>2 DEF Innermost, Inside
  <2>4. \A f \in Innermost(Overlapping) : f = found
    BY <1>2, <2>1, <2>2 DEF Innermost
  <2> QED
    BY <1>4, <2>1, <2>3, <2>4 DEF Innermost
<1> QED
  BY <1>3, <1>4

(* The strengthened invariant of the loop of GetIndex.                     *)
THEOREM LoopInvariant == Spec => []IInv
BY InitIInv, NextIInv, PTL DEF Spec

(* "find the inner most one": whatever ranges an IP holds, nested or       *)
(* crossing, GetIndex returns an entry covering the port that no other     *)
(* such entry lies inside, and nil only if none covers it.                 *)
THEOREM FindsInnermost == Spec => []ReturnsInnermost
BY LoopInvariant, IInvResult, PTL

(* The loop computes the closed form Innermost, which the cache modules    *)
(* use in its place.                                                       *)
THEOREM FindsClosedForm == Spec => []ReturnsClosedForm
BY LoopInvariant, IInvResult, PTL

(* The index that the loop holds, and those it has still to visit, are     *)
(* always entries of the tree that cover the port.                         *)
THEOREM LoopTypes == Spec => []TypeOK
<1>1. IInv => TypeOK
  BY DEF IInv
<1> QED
  BY <1>1, LoopInvariant, PTL
=============================================================================
