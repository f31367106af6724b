------------------------------ MODULE SoleCache ------------------------------
(***************************************************************************)
(* A proxy with one worker (-nworker 1), over a Riak that does not fail    *)
(* and whose search index does not lag, until it is restarted.  For        *)
(* callers that keep to an order it implements InstanceRegistry: the cache *)
(* cannot be told from the store.                                          *)
(***************************************************************************)
EXTENDS InstanceCache

CONSTANT sole  \* the one cache

ASSUME SoleAssumption ==
  /\ Caches = {sole}
  /\ ~SearchLag /\ ~RiakMayFail /\ ~MayRestart

(* The order: whoever registers finds the place free or as it wants it,    *)
(* and whoever deletes finds its own instance there or nothing.  Nothing   *)
(* in the proxy enforces it.  A caller that registers over an instance, or *)
(* deletes what has replaced its own, leaves a record in PidMap            *)
(* (pmap.go:101, 195-199) by which the uuid is still found although Riak   *)
(* has it no more.                                                         *)
Orderly ==
  reply'.ask = None /\ reply'.status = "ok" =>
    riak[reply'.inst.place] \in {None, reply'.inst.pid}

OrderlySpec == Init /\ [][Next /\ Orderly]_vars

Registry == INSTANCE InstanceRegistry
            WITH byPlace <- riak,
                 reply   <- [ask |-> reply.ask, status |-> reply.status, inst |-> reply.inst]

(* One worker's cache above Riak answers every lookup, by address and by   *)
(* uuid, as a registry without a cache would that has the table of Riak:   *)
(* under SoleAssumption, OrderlySpec and OneHome.                          *)
ImplementsRegistry == Registry!Spec

(* Why: the index of the one cache has what Riak has, and PidMap knows the *)
(* pids that are in Riak, and no others.                                   *)
CacheIsStore ==
  /\ \A A \in Places :
       /\ riak[A] # None => pmap[sole].pids[riak[A]] = A
       /\ Indexable(A) => pmap[sole].idx[A] = riak[A]
       /\ solr[A] = riak[A]
  /\ \A p \in Pids : pmap[sole].pids[p] # None => riak[pmap[sole].pids[p]] = p
=============================================================================
