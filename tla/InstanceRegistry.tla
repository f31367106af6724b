-------------------------- MODULE InstanceRegistry --------------------------
(***************************************************************************)
(* What the instance API promises when nothing is cached: one table of the *)
(* registered places, in which an instance is found by its address or by   *)
(* its pid, every answer reflecting every registration and deletion before *)
(* it.                                                                     *)
(***************************************************************************)
EXTENDS Pmap

CONSTANTS Registrations, Deletions

VARIABLES byPlace,  \* the pid registered at each place
          reply     \* the last answer

vars == <<byPlace, reply>>

NoReply == [ask |-> None, status |-> "none", inst |-> None]

Answer(ask, status, inst) == reply' = [ask |-> ask, status |-> status, inst |-> inst]

Init ==
  /\ byPlace = [A \in Places |-> None]
  /\ reply = NoReply

Register(i) ==
  /\ byPlace' = [byPlace EXCEPT ![i.place] = i.pid]
  /\ Answer(None, "ok", i)

Unregister(i) ==
  /\ byPlace' = [byPlace EXCEPT ![i.place] = None]
  /\ Answer(None, "ok", i)

(* The innermost range that holds the address.                             *)
Resolve(a) ==
  /\ \/ \E A \in GetIndex(byPlace, a) :
          Answer(a, "ok", [place |-> A, pid |-> byPlace[A]])
     \/ Hits(byPlace, a) = {} /\ Answer(a, "notfound", None)
  /\ UNCHANGED byPlace

(* A place where the pid is registered.                                    *)
ResolveID(p) ==
  /\ \/ \E A \in Places : byPlace[A] = p /\ Answer(p, "ok", [place |-> A, pid |-> p])
     \/ (\A A \in Places : byPlace[A] # p) /\ Answer(p, "notfound", None)
  /\ UNCHANGED byPlace

Next ==
  \/ \E i \in Registrations : Register(i)
  \/ \E i \in Deletions : Unregister(i)
  \/ \E a \in Address : Resolve(a)
  \/ \E p \in Pids : ResolveID(p)

Spec == Init /\ [][Next]_vars
=============================================================================
