----------------------------- MODULE MCPodTable -----------------------------
(***************************************************************************)
(* Two requests at a time about two addresses with a port and their IP,    *)
(* over any number of posts and starts of the program.                     *)
(***************************************************************************)
EXTENDS PodTable, TLC

CONSTANTS a1, a2, ip1, p1, p2, s1, s2

MCIpOf == [k \in Keys |-> ip1]

\* Nothing distinguishes the requests, the pods or the addresses
Swap == Permutations({s1, s2}) \cup Permutations({p1, p2}) \cup Permutations({a1, a2})
=============================================================================
