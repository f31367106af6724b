-------------------------------- MODULE Pmap --------------------------------
(***************************************************************************)
(* The two maps every cache keeps (proxy/pmap.go): for each IP a tree of   *)
(* port ranges that names the instance registered there, and for each      *)
(* instance its cached record.  A Pmap is a record                         *)
(*   idx     the trees: the pid stored under each place, None if absent    *)
(*   pids    PidMap: the cached place of each pid, None if absent          *)
(*   loaded  the IPs that have a tree                                      *)
(* A place is an IP with a port range; an instance is a place with the pid *)
(* registered there.  The parent pid, type and CIDR of an instance travel  *)
(* with its pid and are left out.                                          *)
(***************************************************************************)
EXTENDS PortIndex, FiniteSets

CONSTANTS Ips, Ports, Places, Pids, None

ASSUME PlacesAssumption ==
  /\ Ports \subseteq Int
  /\ Places \subseteq [ip: Ips, lport: Int, rport: Int]
  /\ None \notin Pids
  /\ None \notin Places

Instance == [place: Places, pid: Pids]

(* What a caller looks up.                                                 *)
Address  == [ip: Ips, port: Ports]

PmapType ==
  [idx: [Places -> Pids \cup {None}],
   pids: [Pids -> Places \cup {None}],
   loaded: SUBSET Ips]

EmptyPmap ==
  [idx    |-> [A \in Places |-> None],
   pids   |-> [p \in Pids |-> None],
   loaded |-> {}]

(* Mutant of Loads: an IP that has a tree is taken to be complete.         *)
LoadsIfNew(m, x, S) ==
  LET T == {A \in S : A.ip \notin m.loaded}
  IN {[idx    |-> [A \in Places |-> IF A \in T /\ Indexable(A) THEN x[A] ELSE m.idx[A]],
       pids   |-> [p \in Pids |-> IF \E A \in T : x[A] = p
                                  THEN CHOOSE A \in T : x[A] = p ELSE m.pids[p]],
       loaded |-> m.loaded \cup {A.ip : A \in S}]}

(* Mutant of Loads: the IPs found are loaded into new trees.               *)
LoadsAfresh(m, x, S) ==
  LET ips == {A.ip : A \in S}
  IN {[idx    |-> [A \in Places |-> IF A \in S /\ Indexable(A) THEN x[A]
                                   ELSE IF A.ip \in ips THEN None ELSE m.idx[A]],
       pids   |-> [p \in Pids |-> IF \E A \in S : x[A] = p
                                  THEN CHOOSE A \in S : x[A] = p ELSE m.pids[p]],
       loaded |-> m.loaded \cup ips]}

(* Putting the instances that x names at the places S, in an order the     *)
(* caller does not choose: the tree keeps one entry per range and drops an *)
(* inverted one; PidMap keeps the last record of a pid, so a pid found at  *)
(* several places may end with any of them.                                *)
Loads(m, x, S) ==
  LET found == {x[A] : A \in S}
      lasts == {f \in [found -> S] : \A p \in found : x[f[p]] = p}
  IN {[idx    |-> [A \in Places |-> IF A \in S /\ Indexable(A) THEN x[A] ELSE m.idx[A]],
       pids   |-> [p \in Pids |-> IF p \in found THEN last[p] ELSE m.pids[p]],
       loaded |-> m.loaded \cup {A.ip : A \in S}] : last \in lasts}

(* Mutants of Put: the record is not kept; a range that is taken stays.    *)
PutForgetsRecord(m, i) == [m EXCEPT !.idx = [@ EXCEPT ![i.place] = i.pid]]
PutKeepsFirst(m, i) ==
  [m EXCEPT !.idx = [@ EXCEPT ![i.place] = IF @ = None THEN i.pid ELSE @],
            !.pids = [@ EXCEPT ![i.pid] = i.place]]

(* PutCachedInstance.                                                      *)
Put(m, i) ==
  [idx    |-> IF Indexable(i.place) THEN [m.idx EXCEPT ![i.place] = i.pid] ELSE m.idx,
   pids   |-> [m.pids EXCEPT ![i.pid] = i.place],
   loaded |-> m.loaded \cup {i.place.ip}]

(* Mutants of Del: only PidMap forgets, or only the tree.                  *)
DelKeepsIndex(m, i) == [m EXCEPT !.pids = [@ EXCEPT ![i.pid] = None]]
DelKeepsRecord(m, i) == [m EXCEPT !.idx = [@ EXCEPT ![i.place] = None]]

(* DelCachedInstanceAlt: the range and the pid are removed each on its own,*)
(* whatever pid the range is registered to.  The tree of the IP stays.     *)
Del(m, i) ==
  [idx    |-> [m.idx EXCEPT ![i.place] = None],
   pids   |-> [m.pids EXCEPT ![i.pid] = None],
   loaded |-> m.loaded]

(* Mutant of Hits: the trees of all IPs are searched.                      *)
HitsAnyIp(x, a) == {A \in Places : x[A] # None /\ Covers(A, a.port)}

(* The ranges in x that an address falls in, and the innermost of them,    *)
(* which GetIndex returns (IndexSearch).                                   *)
Hits(x, a)     == {A \in Places : x[A] # None /\ A.ip = a.ip /\ Covers(A, a.port)}
GetIndex(x, a) == Innermost(Hits(x, a))
=============================================================================
