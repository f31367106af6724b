------------------------------ MODULE StartUp ------------------------------
(***************************************************************************)
(* The start of the program (proxy/server.go) up to the moment it serves   *)
(* requests.  It connects to Riak and sees to the search index: the caches *)
(* of InstanceCache need the index itself, and the bucket type of the      *)
(* instances to be associated with it.  A command of Riak that fails ends  *)
(* the program, which may also be killed at any moment; whether the        *)
(* command under way had its effect is then open.  What Riak has stays.    *)
(***************************************************************************)
EXTENDS Integers

VARIABLES stage,       \* how far the program is
          netmap,      \* Riak: the search index exists
          associated,  \* Riak: the bucket type is searched by that index
          abandoned    \* history: a start-up ended after it began to create it

startVars == <<stage, netmap, associated, abandoned>>

Stages == {"down", "fetch", "store", "associate", "serve"}

StartInit ==
  /\ stage = "down"
  /\ netmap = FALSE
  /\ associated = FALSE
  /\ abandoned = FALSE

(* The program is started; the client of Riak is made without a call.      *)
Launch ==
  /\ stage = "down"
  /\ stage' = "fetch"
  /\ UNCHANGED <<netmap, associated, abandoned>>

(* checkIndex finds the index and takes the association for granted.       *)
FetchFinds ==
  /\ stage = "fetch" /\ netmap
  /\ stage' = "serve"
  /\ UNCHANGED <<netmap, associated, abandoned>>

(* There is no index, or the fetch fails, which is the same to the code.   *)
FetchMisses ==
  /\ stage = "fetch"
  /\ stage' = "store"
  /\ UNCHANGED <<netmap, associated, abandoned>>

(* Mutant of StoreIndex: the bucket type is not associated with it.        *)
StoreIndexOnly ==
  /\ stage = "store"
  /\ netmap' = TRUE
  /\ stage' = "serve"
  /\ UNCHANGED <<associated, abandoned>>

StoreIndex ==
  /\ stage = "store"
  /\ netmap' = TRUE
  /\ stage' = "associate"
  /\ UNCHANGED <<associated, abandoned>>

Associate ==
  /\ stage = "associate"
  /\ associated' = TRUE
  /\ stage' = "serve"
  /\ UNCHANGED <<netmap, abandoned>>

(* The end of the program: by a command that fails, by a port it cannot    *)
(* listen on, or from outside.                                             *)
Stop ==
  /\ stage # "down"
  /\ stage' = "down"
  /\ netmap' \in {netmap, netmap \/ stage = "store"}
  /\ associated' \in {associated, associated \/ stage = "associate"}
  /\ abandoned' = (abandoned \/ stage \in {"store", "associate"})

StartTypeOK ==
  /\ stage \in Stages
  /\ {netmap, associated, abandoned} \subseteq BOOLEAN

(* A program that serves requests can search the instances, "Checking      *)
(* index on the bucket type" (riak.go:172), whatever was lost between the  *)
(* commands - unless an earlier start-up ended between creating the index  *)
(* and associating it: nothing makes up for that later.                    *)
SearchableOrAbandoned == stage = "serve" => (netmap /\ associated) \/ abandoned
=============================================================================
