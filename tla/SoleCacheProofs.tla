--------------------------- MODULE SoleCacheProofs ---------------------------
(***************************************************************************)
(* The refinement of InstanceRegistry by a proxy with one worker, for any  *)
(* ranges that orderly callers register and any page size.                 *)
(***************************************************************************)
EXTENDS SoleCache, InstanceCacheProofs

(* The cache is the store, and reloadUUID never has anything to load.      *)
SInv == IInv /\ CacheIsStore /\ pending[sole] = None

(* Where the index is the store, they answer alike.                        *)
LEMMA StoreAnswers ==
  ASSUME CacheIsStore, NEW a \in Address
  PROVE  /\ Hits(pmap[sole].idx, a) = Hits(riak, a)
         /\ GetIndex(pmap[sole].idx, a) = GetIndex(riak, a)
         /\ \A A \in GetIndex(riak, a) : pmap[sole].idx[A] = riak[A]
<1> DEFINE x == pmap[sole].idx
<1>1. \A A \in Places : A.ip = a.ip /\ Indexable(A) => x[A] = riak[A]
  BY DEF CacheIsStore
<1> HIDE DEF x
<1>2. /\ Hits(x, a) = Hits(riak, a) /\ GetIndex(x, a) = GetIndex(riak, a)
      /\ \A A \in GetIndex(riak, a) : x[A] = riak[A]
  BY <1>1, SameHits
<1> QED
  BY <1>2 DEF x

(* Each step of the one cache keeps the invariant and is a step of the     *)
(* registry.                                                               *)
LEMMA SoleStep ==
  ASSUME OneHome, SInv, Next, Orderly
  PROVE  SInv' /\ Registry!Next
<1> USE DEF SInv
<1>0. IInv'
  BY NextIInv
<1>1. /\ riak \in [Places -> Pids \cup {None}] /\ solr \in [Places -> Pids \cup {None}]
      /\ pmap \in [Caches -> PmapType] /\ sole \in Caches
      /\ Agrees(pmap[sole]) /\ StoredAtHome(riak)
      /\ pending \in [Caches -> Instance \cup {None}]
  BY SoleAssumption DEF IInv, TypeOK, IndexedHasRecord, AtHome
<1>2. ASSUME NEW i \in Registrations, PutInstance(sole, i)
      PROVE  SInv' /\ Registry!Next
  <2>1. i.place \in Places /\ i.pid \in Pids /\ i.place \in Home(i.pid) /\ i \in Instance
    BY PlaceFacts DEF Home
  <2>2. /\ riak' = [riak EXCEPT ![i.place] = i.pid] /\ solr' = [solr EXCEPT ![i.place] = i.pid]
        /\ reply' = [cache |-> sole, ask |-> None, status |-> "ok", inst |-> i]
        /\ pmap'[sole] = Put(pmap[sole], i) /\ pending' = pending
    BY <1>1, <1>2, SoleAssumption DEF PutInstance, Store, StoreFails, Answer
  <2>0. riak[i.place] \in {None, i.pid}
    BY <2>2 DEF Orderly
  <2>3. /\ \A A \in Places : Put(pmap[sole], i).idx[A] =
              IF A = i.place /\ Indexable(A) THEN i.pid ELSE pmap[sole].idx[A]
        /\ \A p \in Pids : Put(pmap[sole], i).pids[p] =
              IF p = i.pid THEN i.place ELSE pmap[sole].pids[p]
    BY <1>1, <2>1, PutFacts
  <2>4. \A A \in Places : A # i.place /\ riak[A] # None => riak[A] # i.pid
    BY <1>1, OnlyHome DEF StoredAtHome
  <2>5. CacheIsStore'
    <3>1. \A A \in Places :
            /\ riak'[A] # None => pmap'[sole].pids[riak'[A]] = A
            /\ Indexable(A) => pmap'[sole].idx[A] = riak'[A]
            /\ solr'[A] = riak'[A]
      BY <1>1, <2>1, <2>2, <2>3, <2>4 DEF CacheIsStore
    <3>2. ASSUME NEW p \in Pids, pmap'[sole].pids[p] # None
          PROVE  riak'[pmap'[sole].pids[p]] = p
      <4>1. CASE p = i.pid
        BY <1>1, <2>1, <2>2, <2>3, <3>2, <4>1
      <4>2. CASE p # i.pid
        <5>1. pmap'[sole].pids[p] = pmap[sole].pids[p]
          BY <2>2, <2>3, <4>2
        <5>2. pmap[sole].pids[p] \in Places /\ riak[pmap[sole].pids[p]] = p
          BY <1>1, <3>2, <5>1 DEF CacheIsStore, PmapType
        <5>3. p # None
          BY PlacesAssumption
        <5> QED
          BY <1>1, <2>0, <2>2, <4>2, <5>1, <5>2, <5>3
      <4> QED
        BY <4>1, <4>2
    <3> QED
      BY <3>1, <3>2 DEF CacheIsStore
  <2>6. Registry!Register(i)
    BY <2>2 DEF Registry!Register, Registry!Answer, Put
  <2> QED
    BY <1>0, <2>2, <2>5, <2>6 DEF Registry!Next
<1>3. ASSUME NEW i \in Deletions, DelInstance(sole, i)
      PROVE  SInv' /\ Registry!Next
  <2>1. i.place \in Places /\ i.pid \in Pids /\ i \in Instance
    BY PlaceFacts
  <2>2. /\ riak' = [riak EXCEPT ![i.place] = None] /\ solr' = [solr EXCEPT ![i.place] = None]
        /\ reply' = [cache |-> sole, ask |-> None, status |-> "ok", inst |-> i]
        /\ pmap'[sole] = Del(pmap[sole], i) /\ pending' = pending
    BY <1>1, <1>3, SoleAssumption DEF DelInstance, Store, StoreFails, Answer
  <2>0. riak[i.place] \in {None, i.pid}
    BY <2>2 DEF Orderly
  <2>3. /\ \A A \in Places : Del(pmap[sole], i).idx[A] =
              IF A = i.place THEN None ELSE pmap[sole].idx[A]
        /\ \A p \in Pids : Del(pmap[sole], i).pids[p] =
              IF p = i.pid THEN None ELSE pmap[sole].pids[p]
    BY <1>1, <2>1, DelFacts
  <2>4. \A A \in Places : A # i.place /\ riak[A] # None => riak[A] # i.pid
    BY <1>1, OnlyHome DEF StoredAtHome
  <2>5. CacheIsStore'
    <3>1. \A A \in Places :
            /\ riak'[A] # None => pmap'[sole].pids[riak'[A]] = A
            /\ Indexable(A) => pmap'[sole].idx[A] = riak'[A]
            /\ solr'[A] = riak'[A]
      BY <1>1, <2>1, <2>2, <2>3, <2>4 DEF CacheIsStore
    <3>2. ASSUME NEW p \in Pids, pmap'[sole].pids[p] # None
          PROVE  riak'[pmap'[sole].pids[p]] = p
      <4>1. CASE p = i.pid
        BY <1>1, <2>1, <2>2, <2>3, <3>2, <4>1
      <4>2. CASE p # i.pid
        <5>1. pmap'[sole].pids[p] = pmap[sole].pids[p]
          BY <2>2, <2>3, <4>2
        <5>2. pmap[sole].pids[p] \in Places /\ riak[pmap[sole].pids[p]] = p
          BY <1>1, <3>2, <5>1 DEF CacheIsStore, PmapType
        <5>3. p # None
          BY PlacesAssumption
        <5> QED
          BY <1>1, <2>0, <2>2, <4>2, <5>1, <5>2, <5>3
      <4> QED
        BY <4>1, <4>2
    <3> QED
      BY <3>1, <3>2 DEF CacheIsStore
  <2>6. Registry!Unregister(i)
    BY <2>2 DEF Registry!Unregister, Registry!Answer, Del
  <2> QED
    BY <1>0, <2>2, <2>5, <2>6 DEF Registry!Next
<1>4. ASSUME NEW a \in Address, LookupHit(sole, a)
      PROVE  SInv' /\ Registry!Next
  <2>1. UNCHANGED <<pmap, pending, riak, solr>> /\ CacheIsStore'
    BY <1>4 DEF LookupHit, CacheIsStore
  <2>2. PICK A \in GetIndex(pmap[sole].idx, a) :
          reply' = [cache |-> sole, ask |-> a, status |-> "ok",
                    inst |-> [place |-> A, pid |-> pmap[sole].idx[A]]]
    BY <1>1, <1>4, AnswerRecordStep DEF LookupHit
  <2>3. A \in GetIndex(riak, a) /\ pmap[sole].idx[A] = riak[A]
    BY <2>2, StoreAnswers
  <2>4. Registry!Resolve(a)
    BY <2>1, <2>2, <2>3 DEF Registry!Resolve, Registry!Answer, Registry!GetIndex,
       Registry!Hits, Registry!Innermost, Registry!Covers, GetIndex, Hits, Innermost, Covers
  <2> QED
    BY <1>0, <2>1, <2>4 DEF Registry!Next, Registry!Address, Address
<1>5. ASSUME NEW a \in Address, LookupReload(sole, a)
      PROVE  SInv' /\ Registry!Next
  <2>1. PICK S \in Page(AtIp(a.ip)) : \E n \in Loads(pmap[sole], solr, S) :
          /\ pmap' = [pmap EXCEPT ![sole] = n]
          /\ \/ \E A \in GetIndex(n.idx, a) : AnswerRecord(sole, a, n, A)
             \/ Hits(n.idx, a) = {} /\ Answer(sole, a, "notfound", None)
    BY <1>5 DEF LookupReload
  <2>2. PICK n \in Loads(pmap[sole], solr, S) :
          /\ pmap' = [pmap EXCEPT ![sole] = n]
          /\ \/ \E A \in GetIndex(n.idx, a) : AnswerRecord(sole, a, n, A)
             \/ Hits(n.idx, a) = {} /\ Answer(sole, a, "notfound", None)
    BY <2>1
  <2>3. /\ S \in SUBSET Places /\ \A A \in S : solr[A] # None
        /\ n \in PmapType
        /\ \A A \in Places : n.idx[A] =
             IF A \in S /\ Indexable(A) THEN solr[A] ELSE pmap[sole].idx[A]
        /\ \A p \in Pids : \/ n.pids[p] \in S /\ solr[n.pids[p]] = p
                           \/ n.pids[p] = pmap[sole].pids[p] /\ \A A \in S : solr[A] # p
    BY <1>1, PageFacts, LoadsFacts
  <2>4. \A A \in Places : n.idx[A] = pmap[sole].idx[A]
    BY <2>3 DEF CacheIsStore
  <2>5. \A p \in Pids : n.pids[p] = pmap[sole].pids[p]
    BY <2>3, PlaceFacts DEF CacheIsStore
  <2>6. n.idx = pmap[sole].idx /\ n.pids = pmap[sole].pids
    BY <1>1, <2>3, <2>4, <2>5 DEF PmapType
  <2>7. Hits(n.idx, a) = {} /\ Hits(riak, a) = {} /\ Answer(sole, a, "notfound", None)
    BY <1>5, <2>2, <2>6, StoreAnswers DEF LookupReload, GetIndex, Innermost
  <2>8. UNCHANGED <<pending, riak, solr>> /\ pmap'[sole] = n
    BY <1>1, <1>5, <2>2 DEF LookupReload
  <2>9. CacheIsStore'
    BY <2>6, <2>8 DEF CacheIsStore
  <2>10. Registry!Resolve(a)
    BY <2>6, <2>7, <2>8 DEF Registry!Resolve, Registry!Answer, Answer, Registry!Hits,
       Registry!Covers, Hits, Covers
  <2> QED
    BY <1>0, <2>8, <2>9, <2>10 DEF Registry!Next, Registry!Address, Address
<1>6. ASSUME NEW p \in Pids, GetFromID(sole, p)
      PROVE  SInv' /\ Registry!Next
  <2>1. UNCHANGED <<pmap, pending, riak, solr>> /\ CacheIsStore'
    BY <1>6 DEF GetFromID, CacheIsStore
  <2>2. /\ pmap[sole].pids[p] \in Places /\ riak[pmap[sole].pids[p]] = p
        /\ Answer(sole, p, "ok", [place |-> pmap[sole].pids[p], pid |-> p])
    BY <1>1, <1>6 DEF GetFromID, CacheIsStore, PmapType
  <2>3. Registry!ResolveID(p)
    BY <2>1, <2>2 DEF Registry!ResolveID, Registry!Answer, Answer
  <2> QED
    BY <1>0, <2>1, <2>3 DEF Registry!Next
<1>7. ASSUME NEW p \in Pids, SearchUUID(sole, p)
      PROVE  SInv' /\ Registry!Next
  <2>1. OfPid(p) = {}
    BY <1>7, PlaceFacts DEF OfPid, CacheIsStore, SearchUUID
  <2>2. UNCHANGED <<pmap, pending, riak, solr>> /\ Answer(sole, p, "notfound", None)
    BY <1>7, <2>1, SoleAssumption DEF SearchUUID
  <2>3. CacheIsStore'
    BY <2>2 DEF CacheIsStore
  <2>4. \A A \in Places : riak[A] # p
    BY <2>1 DEF OfPid, CacheIsStore
  <2>5. Registry!ResolveID(p)
    BY <2>2, <2>4 DEF Registry!ResolveID, Registry!Answer, Answer
  <2> QED
    BY <1>0, <2>2, <2>3, <2>5 DEF Registry!Next
<1>8. /\ ~Restart /\ ~ReloadUUID(sole)
      /\ \A a \in Address : ~LookupFails(sole, a)
      /\ \A A \in Places : ~IndexSync(A)
  BY SoleAssumption DEF LookupFails, Restart, ReloadUUID, Unlocked, IndexSync, CacheIsStore
<1> QED
  BY <1>2, <1>3, <1>4, <1>5, <1>6, <1>7, <1>8, SoleAssumption DEF Next

(* The first state and every step, seen from the registry.                 *)
LEMMA SoleSimulates ==
  ASSUME OneHome
  PROVE  /\ Init => SInv /\ Registry!Init
         /\ SInv /\ [Next /\ Orderly]_vars => SInv' /\ [Registry!Next]_(Registry!vars)
<1>1. Init => SInv /\ Registry!Init
  <2> SUFFICES ASSUME Init PROVE SInv /\ Registry!Init
    OBVIOUS
  <2>1. IInv
    BY InitIInv
  <2>2. CacheIsStore /\ pending[sole] = None
    BY SoleAssumption DEF Init, CacheIsStore, EmptyPmap
  <2>3. Registry!Init
    BY SoleAssumption DEF Init, Registry!Init, Registry!NoReply, NoReply, EmptyPmap
  <2> QED
    BY <2>1, <2>2, <2>3 DEF SInv
<1>2. SInv /\ [Next /\ Orderly]_vars => SInv' /\ [Registry!Next]_(Registry!vars)
  <2> SUFFICES ASSUME SInv, [Next /\ Orderly]_vars PROVE SInv' /\ [Registry!Next]_(Registry!vars)
    OBVIOUS
  <2>1. CASE Next /\ Orderly
    BY <2>1, SoleStep
  <2>2. CASE UNCHANGED vars
    BY <2>2 DEF vars, SInv, IInv, TypeOK, IndexedHasRecord, AtHome, NeverPanics,
                AnswersAddress, ForAddress, CacheIsStore, Registry!vars
  <2> QED
    BY <2>1, <2>2
<1> QED
  BY <1>1, <1>2

(* The one cache has what Riak has: a range for every stored instance, the *)
(* record of every pid that is stored, and no record of another.           *)
THEOREM SoleCacheIsStore ==
  ASSUME OneHome
  PROVE  OrderlySpec => []CacheIsStore
<1>1. SInv => CacheIsStore
  BY DEF SInv
<1>2. /\ Init => SInv /\ Registry!Init
      /\ SInv /\ [Next /\ Orderly]_vars => SInv' /\ [Registry!Next]_(Registry!vars)
  BY SoleSimulates
<1> QED
  BY <1>1, <1>2, PTL DEF OrderlySpec

(* Under SoleAssumption (one worker, no failure and no lag of Riak, and no *)
(* restart), and if the callers keep to OneHome and to the order, no       *)
(* caller can tell that lookups are answered from a cache.                 *)
THEOREM SoleCacheImplementsRegistry ==
  ASSUME OneHome
  PROVE  OrderlySpec => ImplementsRegistry
<1>1. /\ Init => SInv /\ Registry!Init
      /\ SInv /\ [Next /\ Orderly]_vars => SInv' /\ [Registry!Next]_(Registry!vars)
  BY SoleSimulates
<1> QED
  BY <1>1, PTL DEF OrderlySpec, ImplementsRegistry, Registry!Spec
=============================================================================
