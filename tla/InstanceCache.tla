---------------------------- MODULE InstanceCache ----------------------------
(***************************************************************************)
(* The instance caches of the metadata proxy (proxy/cache.go) above their  *)
(* Riak store (proxy/riak.go).                                             *)
(*                                                                         *)
(* Every worker has a cache of its own; a request picks one by the hash of *)
(* its credentials and holds that cache's lock until it is answered, Riak  *)
(* calls included.  Nothing else can see a cache while it is locked, so an *)
(* operation that calls Riak once is one step, taken when Riak answers.    *)
(* reloadUUID calls it twice and is two steps, with other caches moving in *)
(* between.                                                                *)
(*                                                                         *)
(* Registrations are written to Riak by key and read back by searching its *)
(* index (GetAllNetID, SearchIDNet), so the model has both: riak, the      *)
(* stored values, and solr, what a search sees.                            *)
(***************************************************************************)
EXTENDS Pmap

CONSTANTS Caches,
          Registrations,  \* the instances callers register
          Deletions,      \* what callers ask to delete: a place and a pid
          PageSize,       \* how many documents a search returns at most
          SearchLag,      \* the search index follows the store later
          RiakMayFail,    \* a Riak call may return an error
          MayRestart,     \* the proxy may be restarted
          Nobody,         \* nobody wrote the place since the store was empty
          Unknown         \* the last write of the place was lost or is older than the proxy

ASSUME CacheAssumption ==
  /\ Registrations \subseteq Instance
  /\ Deletions \subseteq Instance
  /\ PageSize \in Nat \ {0}
  /\ {SearchLag, RiakMayFail, MayRestart} \subseteq BOOLEAN
  /\ None \notin Caches \cup Address
  /\ Pids \cap Address = {}
  /\ Caches \cap {Nobody, Unknown} = {}
  /\ Nobody # Unknown

VARIABLES
  pmap,     \* the Pmap of each cache
  pending,  \* per cache: the instance reloadUUID found and is loading the IP of
  riak,     \* the store: the pid under each (bucket, key)
  solr,     \* the search index over it
  reply,    \* the answer given by the last step, if it gave one
  writer,   \* history: who last wrote each place
  claim     \* history: the registration of each place, by the worker that made
            \* it when neither Riak nor its index had somebody else there

vars == <<pmap, pending, riak, solr, reply, writer, claim>>

(* An answer: who gave it, what was asked, the HTTP status, the instance.  *)
NoReply == [cache |-> None, ask |-> None, status |-> "none", inst |-> None]

Answer(c, ask, status, inst) ==
  reply' = [cache |-> c, ask |-> ask, status |-> status, inst |-> inst]

Init ==
  /\ pmap    = [c \in Caches |-> EmptyPmap]
  /\ pending = [c \in Caches |-> None]
  /\ riak    = [A \in Places |-> None]
  /\ solr    = [A \in Places |-> None]
  /\ reply   = NoReply
  /\ writer  = [A \in Places |-> Nobody]
  /\ claim   = [A \in Places |-> None]

(* The documents a search returns: all that match, or a page of them.      *)
Page(S) == {s \in SUBSET S : \/ s = S /\ Cardinality(S) <= PageSize
                             \/ Cardinality(s) = PageSize}

AtIp(ip)  == {A \in Places : A.ip = ip /\ solr[A] # None}
OfPid(p)  == {A \in Places : solr[A] = p}

Unlocked(c) == pending[c] = None

-----------------------------------------------------------------------------
(* PutNetIDMap and DelNetIDMap: one object is stored or removed, and the   *)
(* search index follows at once or later.                                  *)
Store(c, A, v) ==
  /\ riak' = [riak EXCEPT ![A] = v]
  /\ solr' = IF SearchLag THEN solr ELSE [solr EXCEPT ![A] = v]
  /\ writer' = [writer EXCEPT ![A] = c]

(* Riak reports an error; the write may have taken effect all the same.    *)
StoreFails(A, v) ==
  /\ RiakMayFail
  /\ \/ Store(Unknown, A, v)
     \/ UNCHANGED <<riak, solr>> /\ writer' = [writer EXCEPT ![A] = Unknown]

Claim(c, p) == [cache |-> c, pid |-> p]

PutInstance(c, i) ==
  /\ Unlocked(c)
  /\ pmap' = [pmap EXCEPT ![c] = Put(@, i)]
  /\ \/ Store(c, i.place, i.pid) /\ Answer(c, None, "ok", i)
     \/ StoreFails(i.place, i.pid) /\ Answer(c, None, "error", None)
  /\ claim' = [claim EXCEPT ![i.place] =
       IF {riak[i.place], solr[i.place]} \subseteq {None, i.pid} THEN Claim(c, i.pid) ELSE None]
  /\ UNCHANGED pending

DelInstance(c, i) ==
  /\ Unlocked(c)
  /\ pmap' = [pmap EXCEPT ![c] = Del(@, i)]
  /\ \/ Store(c, i.place, None) /\ Answer(c, None, "ok", i)
     \/ StoreFails(i.place, None) /\ Answer(c, None, "error", None)
  /\ claim' = [claim EXCEPT ![i.place] = None]
  /\ UNCHANGED pending

-----------------------------------------------------------------------------
(* The last lines of GetInstanceFromNetMap: the record of the pid found in *)
(* the index is copied; a nil record would panic.                          *)
AnswerRecord(c, a, m, A) ==
  LET p == m.idx[A]
  IN IF m.pids[p] = None
     THEN Answer(c, a, "panic", None)
     ELSE Answer(c, a, "ok", [place |-> m.pids[p], pid |-> p])

(* Mutant of LookupHit: any range that holds the address will do.          *)
LookupAny(c, a) ==
  /\ Unlocked(c)
  /\ \E A \in Hits(pmap[c].idx, a) : AnswerRecord(c, a, pmap[c], A)
  /\ UNCHANGED <<pmap, pending, riak, solr, writer, claim>>

(* GetInstanceFromNetMap when the cache has a range for the address.       *)
LookupHit(c, a) ==
  /\ Unlocked(c)
  /\ \E A \in GetIndex(pmap[c].idx, a) : AnswerRecord(c, a, pmap[c], A)
  /\ UNCHANGED <<pmap, pending, riak, solr, writer, claim>>

(* GetInstanceFromNetMap when it has none: reloadCache, then look again.   *)
LookupReload(c, a) ==
  /\ Unlocked(c)
  /\ Hits(pmap[c].idx, a) = {}
  /\ \E S \in Page(AtIp(a.ip)) : \E m \in Loads(pmap[c], solr, S) :
       /\ pmap' = [pmap EXCEPT ![c] = m]
       /\ \/ \E A \in GetIndex(m.idx, a) : AnswerRecord(c, a, m, A)
          \/ Hits(m.idx, a) = {} /\ Answer(c, a, "notfound", None)
  /\ UNCHANGED <<pending, riak, solr, writer, claim>>

(* The same when the search fails.                                         *)
LookupFails(c, a) ==
  /\ Unlocked(c)
  /\ RiakMayFail
  /\ Hits(pmap[c].idx, a) = {}
  /\ Answer(c, a, "error", None)
  /\ UNCHANGED <<pmap, pending, riak, solr, writer, claim>>

-----------------------------------------------------------------------------
(* Mutant of GetFromID: the error of GetCachedInstance is not looked at.   *)
GetFromIDUnchecked(c, p) ==
  /\ Unlocked(c)
  /\ Answer(c, p, "ok", [place |-> pmap[c].pids[p], pid |-> p])
  /\ UNCHANGED <<pmap, pending, riak, solr, writer, claim>>

(* GetInstanceFromID when the cache has the pid.                           *)
GetFromID(c, p) ==
  /\ Unlocked(c)
  /\ pmap[c].pids[p] # None
  /\ Answer(c, p, "ok", [place |-> pmap[c].pids[p], pid |-> p])
  /\ UNCHANGED <<pmap, pending, riak, solr, writer, claim>>

(* GetInstanceFromID when it has not: reloadUUID searches for the pid and  *)
(* goes on with the first document, keeping the lock.                      *)
SearchUUID(c, p) ==
  /\ Unlocked(c)
  /\ pmap[c].pids[p] = None
  /\ \/ /\ OfPid(p) = {}
        /\ Answer(c, p, "notfound", None)
        /\ UNCHANGED pending
     \/ \E A \in OfPid(p) :
          /\ pending' = [pending EXCEPT ![c] = [place |-> A, pid |-> p]]
          /\ reply' = NoReply
     \/ /\ RiakMayFail
        /\ Answer(c, p, "error", None)
        /\ UNCHANGED pending
  /\ UNCHANGED <<pmap, riak, solr, writer, claim>>

(* Mutant of ReloadUUID: only the instance itself is loaded.               *)
ReloadOne(c) ==
  /\ ~Unlocked(c)
  /\ pmap' = [pmap EXCEPT ![c] = Put(@, pending[c])]
  /\ Answer(c, pending[c].pid, "ok", pending[c])
  /\ pending' = [pending EXCEPT ![c] = None]
  /\ UNCHANGED <<riak, solr, writer, claim>>

(* The rest of reloadUUID: the whole IP is loaded, and the answer is the   *)
(* document of the first search, whatever the second one returned.         *)
ReloadUUID(c) ==
  /\ ~Unlocked(c)
  /\ \/ \E S \in Page(AtIp(pending[c].place.ip)) : \E m \in Loads(pmap[c], solr, S) :
          /\ pmap' = [pmap EXCEPT ![c] = m]
          /\ Answer(c, pending[c].pid, "ok", pending[c])
     \/ /\ RiakMayFail
        /\ Answer(c, pending[c].pid, "error", None)
        /\ UNCHANGED pmap
  /\ pending' = [pending EXCEPT ![c] = None]
  /\ UNCHANGED <<riak, solr, writer, claim>>

-----------------------------------------------------------------------------
(* Riak's search index catches up with one object.                         *)
IndexSync(A) ==
  /\ solr[A] # riak[A]
  /\ solr' = [solr EXCEPT ![A] = riak[A]]
  /\ reply' = NoReply
  /\ UNCHANGED <<pmap, pending, riak, writer, claim>>

(* The proxy process ends, in whatever state, and is started again: main   *)
(* makes every cache anew; Riak keeps its data.                            *)
Restart ==
  /\ MayRestart
  /\ pmap' = [c \in Caches |-> EmptyPmap]
  /\ pending' = [c \in Caches |-> None]
  /\ reply' = NoReply
  /\ writer' = [A \in Places |-> IF riak[A] = None /\ solr[A] = None
                                 THEN Nobody ELSE Unknown]
  /\ claim' = [A \in Places |-> None]
  /\ UNCHANGED <<riak, solr>>

Next ==
  \/ \E c \in Caches :
       \/ \E i \in Registrations : PutInstance(c, i)
       \/ \E i \in Deletions : DelInstance(c, i)
       \/ \E a \in Address : LookupHit(c, a) \/ LookupReload(c, a) \/ LookupFails(c, a)
       \/ \E p \in Pids : GetFromID(c, p) \/ SearchUUID(c, p)
       \/ ReloadUUID(c)
  \/ \E A \in Places : IndexSync(A)
  \/ Restart

Spec == Init /\ [][Next]_vars

-----------------------------------------------------------------------------
(* The discipline of the callers: a uuid belongs to one address, and a     *)
(* delete names the address the uuid belongs to.  Nothing in the proxy     *)
(* enforces it.                                                            *)
OneHome == \A i, j \in Registrations \cup Deletions : i.pid = j.pid => i.place = j.place

ReplyType ==
  [cache: Caches \cup {None}, ask: Address \cup Pids \cup {None},
   status: {"none", "ok", "error", "notfound", "panic"}, inst: Instance \cup {None}]

Claims == [Places -> [cache: Caches, pid: Pids] \cup {None}]

TypeOK ==
  /\ pmap \in [Caches -> PmapType]
  /\ pending \in [Caches -> Instance \cup {None}]
  /\ riak \in [Places -> Pids \cup {None}]
  /\ solr \in [Places -> Pids \cup {None}]
  /\ reply \in ReplyType
  /\ writer \in [Places -> Caches \cup {Nobody, Unknown}]
  /\ claim \in Claims

ForAddress == reply.ask \in Address
ForPid     == reply.ask \in Pids

(* "result should never be null!" (cache.go:139): a lookup by address does *)
(* not find, in the index, a pid that PidMap has lost.                     *)
NeverPanics == reply.status # "panic"

(* The instance returned for an address is registered at a range of that   *)
(* IP that holds the port: the record in PidMap is the one of the range    *)
(* the index answered with.                                                *)
AnswersAddress ==
  reply.status = "ok" /\ ForAddress =>
    /\ reply.inst.place.ip = reply.ask.ip
    /\ Covers(reply.inst.place, reply.ask.port)

(* A cache says 404 only when a search of Riak finds nothing: what the     *)
(* index shows, whichever worker registered it, is found by all others on  *)
(* a miss, also when their tree of the IP is there but not complete.  The  *)
(* search of an IP is one page (riak.go:327 asks for no number of rows, so *)
(* that Riak returns ten): of an IP with more documents than that, a range *)
(* that is registered may be answered by 404.                              *)
NoFalseNotFound ==
  reply.status = "notfound" =>
    /\ ForAddress /\ Cardinality(AtIp(reply.ask.ip)) <= PageSize => Hits(solr, reply.ask) = {}
    /\ ForPid => OfPid(reply.ask) = {}

(* "We are using write through strategy here ... won't affect read of the  *)
(* same instance" (cache.go:169-171): what a worker registers at a place   *)
(* that is free stays in its index, although the search index lags, Riak   *)
(* reports errors and the IP is loaded again and again, until somebody     *)
(* registers or deletes there or the proxy is restarted.  Of a place that  *)
(* was not free nothing is promised: a reload that still finds the former  *)
(* registration puts it over the new one (cache.go:63-69).                 *)
RegistrationStays ==
  \A A \in Places :
    claim[A] # None /\ Indexable(A) => pmap[claim[A].cache].idx[A] = claim[A].pid

(* As long as one cache alone writes the places of an IP, every write with *)
(* success and in this life of the proxy, its lookups at that IP are exact *)
(* if the search index does not lag: it returns the innermost range that   *)
(* is registered in Riak, with the pid stored there, and 404 only if Riak  *)
(* has none.  (After a restart, what was stored before is of Unknown       *)
(* origin until it is written again.)                                      *)
SoleWriter(c, ip) == \A A \in Places : A.ip = ip => writer[A] \in {c, Nobody}

SoleWriterExact ==
  ForAddress /\ SoleWriter(reply.cache, reply.ask.ip) =>
    /\ reply.status = "ok" => /\ reply.inst.place \in GetIndex(riak, reply.ask)
                              /\ reply.inst.pid = riak[reply.inst.place]
    /\ reply.status = "notfound" => Hits(riak, reply.ask) = {}

(* "When an instance is hot, bring up the entire VM" (cache.go:95): when a *)
(* lookup by uuid has reloaded, the cache has all that the index shows at  *)
(* the IP, or a page of it; and nothing was put there that the index does  *)
(* not show any more, though it showed it when the uuid was searched and   *)
(* other workers have written since.                                       *)
BroughtUp(c, ip) ==
  {A \in AtIp(ip) : Indexable(A) => pmap'[c].idx[A] = solr[A]}

BringsUpPage ==
  [][\A c \in Caches : ReloadUUID(c) /\ reply'.status = "ok" =>
       LET ip == pending[c].place.ip
       IN  /\ BroughtUp(c, ip) = AtIp(ip) \/ Cardinality(BroughtUp(c, ip)) >= PageSize
           /\ \A A \in Places : pmap'[c].idx[A] # pmap[c].idx[A] =>
                A \in AtIp(ip) /\ pmap'[c].idx[A] = solr[A]]_vars

(* What makes the lookups right: an indexed range is registered to a pid   *)
(* whose cached record is that range, and an inverted range is not indexed.*)
Agrees(m) ==
  \A A \in Places : m.idx[A] # None => m.pids[m.idx[A]] = A /\ Indexable(A)

IndexedHasRecord == \A c \in Caches : Agrees(pmap[c])

(* Every pid is stored, indexed and cached at the place it belongs to.     *)
Home(p) == {i.place : i \in {j \in Registrations : j.pid = p}}

StoredAtHome(x) == \A A \in Places : x[A] # None => A \in Home(x[A])
RecordAtHome(m) == \A p \in Pids : m.pids[p] # None => m.pids[p] \in Home(p)

AtHome ==
  /\ StoredAtHome(riak) /\ StoredAtHome(solr)
  /\ \A c \in Caches : RecordAtHome(pmap[c])

IInv == TypeOK /\ IndexedHasRecord /\ AtHome /\ NeverPanics /\ AnswersAddress

(* Whatever is stored, indexed, cached or being loaded is one of S.        *)
Holds(m, S) ==
  /\ \A A \in Places : m.idx[A] # None => [place |-> A, pid |-> m.idx[A]] \in S
  /\ \A p \in Pids : m.pids[p] # None => [place |-> m.pids[p], pid |-> p] \in S

StoreHolds(x, S) == \A A \in Places : x[A] # None => [place |-> A, pid |-> x[A]] \in S

Stocked(S) ==
  /\ StoreHolds(riak, S) /\ StoreHolds(solr, S)
  /\ \A c \in Caches : Holds(pmap[c], S) /\ (pending[c] # None => pending[c] \in S)

(* What keeps a registration where it is: a reload finds nothing or the    *)
(* same pid there.                                                         *)
ClaimHolds ==
  \A A \in Places : claim[A] # None => {riak[A], solr[A]} \subseteq {None, claim[A].pid}

(* What makes them exact where one cache writes, without search lag: the   *)
(* cache whose write was the last of a place, and was confirmed, has in    *)
(* its index what Riak has; and a place nobody has written is empty        *)
(* everywhere.                                                             *)
ConfirmedWritesCached ==
  \A c \in Caches, A \in Places :
    writer[A] = c /\ Indexable(A) => pmap[c].idx[A] = riak[A]

Unwritten ==
  \A A \in Places : writer[A] = Nobody =>
    riak[A] = None /\ \A c \in Caches : pmap[c].idx[A] = None

ExactInv == IInv /\ solr = riak /\ ConfirmedWritesCached /\ Unwritten /\ SoleWriterExact
=============================================================================
