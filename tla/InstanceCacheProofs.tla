------------------------- MODULE InstanceCacheProofs -------------------------
(***************************************************************************)
(* Proofs about InstanceCache: for any number of workers, any registered   *)
(* ranges and any page size, with failures, restarts and a lagging index.  *)
(***************************************************************************)
EXTENDS InstanceCache, FiniteSetTheorems, TLAPS

-----------------------------------------------------------------------------
(* The operations on one Pmap.                                             *)

LEMMA PlaceFacts ==
  /\ \A A \in Places : A # None /\ A.ip \in Ips /\ A.lport \in Int /\ A.rport \in Int
  /\ \A p \in Pids : p # None
  /\ \A i \in Registrations \cup Deletions :
       i \in Instance /\ i.place \in Places /\ i.pid \in Pids
  /\ \A i \in Instance : i.place \in Places /\ i.pid \in Pids
BY PlacesAssumption, CacheAssumption DEF Instance

(* An empty Pmap is a Pmap and has nothing to disagree about.              *)
LEMMA EmptyPmapFacts ==
  EmptyPmap \in PmapType /\ Agrees(EmptyPmap) /\ RecordAtHome(EmptyPmap)
BY DEF EmptyPmap, PmapType, Agrees, RecordAtHome

(* PutCachedInstance writes the range, if it is not inverted, and the      *)
(* record of the pid, and nothing else.                                    *)
LEMMA PutFacts ==
  ASSUME NEW m \in PmapType, NEW i \in Instance
  PROVE  /\ Put(m, i) \in PmapType
         /\ \A A \in Places : Put(m, i).idx[A] =
              IF A = i.place /\ Indexable(A) THEN i.pid ELSE m.idx[A]
         /\ \A p \in Pids : Put(m, i).pids[p] = IF p = i.pid THEN i.place ELSE m.pids[p]
BY PlaceFacts DEF Put, PmapType

(* DelCachedInstanceAlt clears the range and the record of the pid.        *)
LEMMA DelFacts ==
  ASSUME NEW m \in PmapType, NEW i \in Instance
  PROVE  /\ Del(m, i) \in PmapType
         /\ \A A \in Places : Del(m, i).idx[A] = IF A = i.place THEN None ELSE m.idx[A]
         /\ \A p \in Pids : Del(m, i).pids[p] = IF p = i.pid THEN None ELSE m.pids[p]
BY PlaceFacts DEF Del, PmapType

(* reloadCache writes the ranges it was given, and for each pid it was     *)
(* given the place of one of them.                                         *)
LEMMA LoadsFacts ==
  ASSUME NEW m \in PmapType, NEW x \in [Places -> Pids \cup {None}],
         NEW S \in SUBSET Places, \A A \in S : x[A] # None,
         NEW n \in Loads(m, x, S)
  PROVE  /\ n \in PmapType
         /\ \A A \in Places : n.idx[A] =
              IF A \in S /\ Indexable(A) THEN x[A] ELSE m.idx[A]
         /\ \A p \in Pids : \/ n.pids[p] \in S /\ x[n.pids[p]] = p
                            \/ n.pids[p] = m.pids[p] /\ \A A \in S : x[A] # p
<1> DEFINE found == {x[A] : A \in S}
<1>1. PICK last \in [found -> S] :
        /\ \A p \in found : x[last[p]] = p
        /\ n = [idx    |-> [A \in Places |-> IF A \in S /\ Indexable(A) THEN x[A] ELSE m.idx[A]],
                pids   |-> [p \in Pids |-> IF p \in found THEN last[p] ELSE m.pids[p]],
                loaded |-> m.loaded \cup {A.ip : A \in S}]
  BY DEF Loads
<1>2. \A p \in found : last[p] \in Places
  BY <1>1
<1>3. {A.ip : A \in S} \subseteq Ips
  BY PlaceFacts
<1>4. n \in PmapType
  BY <1>1, <1>2, <1>3 DEF PmapType
<1>5. \A A \in Places : n.idx[A] = IF A \in S /\ Indexable(A) THEN x[A] ELSE m.idx[A]
  BY <1>1
<1>6. \A p \in Pids : n.pids[p] = IF p \in found THEN last[p] ELSE m.pids[p]
  BY <1>1
<1>7. \A p \in Pids : \/ n.pids[p] \in S /\ x[n.pids[p]] = p
                      \/ n.pids[p] = m.pids[p] /\ \A A \in S : x[A] # p
  BY <1>1, <1>6
<1> QED
  BY <1>4, <1>5, <1>7

-----------------------------------------------------------------------------
(* Under the discipline a pid has one home, so the two maps of a Pmap      *)
(* cannot come apart.                                                      *)

LEMMA OnlyHome ==
  ASSUME OneHome, NEW i \in Registrations \cup Deletions, NEW A \in Home(i.pid)
  PROVE  A = i.place
BY DEF OneHome, Home

LEMMA SameHome ==
  ASSUME OneHome, NEW p, NEW A \in Home(p), NEW B \in Home(p)
  PROVE  A = B
BY DEF OneHome, Home

LEMMA PutAgrees ==
  ASSUME OneHome, NEW m \in PmapType, NEW i \in Registrations,
         Agrees(m), RecordAtHome(m)
  PROVE  Agrees(Put(m, i)) /\ RecordAtHome(Put(m, i))
<1> DEFINE n == Put(m, i)
<1>1. /\ \A A \in Places : n.idx[A] = IF A = i.place /\ Indexable(A) THEN i.pid ELSE m.idx[A]
      /\ \A p \in Pids : n.pids[p] = IF p = i.pid THEN i.place ELSE m.pids[p]
  BY PutFacts, PlaceFacts
<1>2. i.place \in Places /\ i.pid \in Pids /\ i.place \in Home(i.pid)
  BY PlaceFacts DEF Home
<1> HIDE DEF n
<1>3. RecordAtHome(n)
  BY <1>1, <1>2 DEF RecordAtHome
<1>4. ASSUME NEW A \in Places, n.idx[A] # None
      PROVE  n.pids[n.idx[A]] = A /\ Indexable(A)
  <2>1. CASE A = i.place /\ Indexable(A)
    BY <1>1, <1>2, <2>1
  <2>2. CASE ~(A = i.place /\ Indexable(A))
    <3>1. n.idx[A] = m.idx[A] /\ m.idx[A] \in Pids /\ m.pids[m.idx[A]] = A /\ Indexable(A)
      BY <1>1, <1>4, <2>2 DEF Agrees, PmapType
    <3>2. m.idx[A] # i.pid
      <4>1. A # i.place
        BY <2>2, <3>1
      <4>2. A \in Home(m.idx[A])
        BY <3>1, PlaceFacts DEF RecordAtHome
      <4> QED
        BY <4>1, <4>2, OnlyHome
    <3> QED
      BY <1>1, <3>1, <3>2
  <2> QED
    BY <2>1, <2>2
<1> QED
  BY <1>3, <1>4 DEF Agrees, n

LEMMA DelAgrees ==
  ASSUME NEW m \in PmapType, NEW i \in Instance, \A A \in Home(i.pid) : A = i.place,
         Agrees(m), RecordAtHome(m)
  PROVE  Agrees(Del(m, i)) /\ RecordAtHome(Del(m, i))
<1> DEFINE n == Del(m, i)
<1>1. /\ \A A \in Places : n.idx[A] = IF A = i.place THEN None ELSE m.idx[A]
      /\ \A p \in Pids : n.pids[p] = IF p = i.pid THEN None ELSE m.pids[p]
  BY DelFacts
<1> HIDE DEF n
<1>2. RecordAtHome(n)
  BY <1>1 DEF RecordAtHome
<1>3. ASSUME NEW A \in Places, n.idx[A] # None
      PROVE  n.pids[n.idx[A]] = A /\ Indexable(A)
  <2>1. A # i.place /\ n.idx[A] = m.idx[A]
    BY <1>1, <1>3
  <2>2. m.idx[A] \in Pids /\ m.pids[m.idx[A]] = A /\ Indexable(A)
    BY <1>3, <2>1 DEF Agrees, PmapType
  <2>3. A \in Home(m.idx[A])
    BY <2>2, PlaceFacts DEF RecordAtHome
  <2>4. m.idx[A] # i.pid
    BY <2>1, <2>3
  <2> QED
    BY <1>1, <2>1, <2>2, <2>4
<1> QED
  BY <1>2, <1>3 DEF Agrees, n

LEMMA LoadsAgrees ==
  ASSUME OneHome, NEW m \in PmapType, NEW x \in [Places -> Pids \cup {None}],
         NEW S \in SUBSET Places, \A A \in S : x[A] # None,
         NEW n \in Loads(m, x, S),
         Agrees(m), RecordAtHome(m), StoredAtHome(x)
  PROVE  n \in PmapType /\ Agrees(n) /\ RecordAtHome(n)
<1>1. /\ n \in PmapType
      /\ \A A \in Places : n.idx[A] = IF A \in S /\ Indexable(A) THEN x[A] ELSE m.idx[A]
      /\ \A p \in Pids : \/ n.pids[p] \in S /\ x[n.pids[p]] = p
                         \/ n.pids[p] = m.pids[p] /\ \A A \in S : x[A] # p
  BY LoadsFacts
<1>2. RecordAtHome(n)
  BY <1>1 DEF RecordAtHome, StoredAtHome
<1>3. ASSUME NEW A \in Places, n.idx[A] # None
      PROVE  n.pids[n.idx[A]] = A /\ Indexable(A)
  <2>1. CASE A \in S /\ Indexable(A)
    <3>1. n.idx[A] = x[A] /\ x[A] \in Pids
      BY <1>1, <2>1
    <3>2. n.pids[x[A]] \in S /\ x[n.pids[x[A]]] = x[A]
      BY <1>1, <2>1, <3>1
    <3>3. A \in Home(x[A]) /\ n.pids[x[A]] \in Home(x[A])
      BY <2>1, <3>2 DEF StoredAtHome
    <3> QED
      BY <2>1, <3>1, <3>3, SameHome
  <2>2. CASE ~(A \in S /\ Indexable(A))
    <3>1. n.idx[A] = m.idx[A] /\ m.idx[A] \in Pids /\ m.pids[m.idx[A]] = A /\ Indexable(A)
      BY <1>1, <1>3, <2>2 DEF Agrees, PmapType
    <3>2. A \in Home(m.idx[A])
      BY <3>1, PlaceFacts DEF RecordAtHome
    <3>3. CASE n.pids[m.idx[A]] \in S /\ x[n.pids[m.idx[A]]] = m.idx[A]
      <4>1. n.pids[m.idx[A]] \in Home(m.idx[A])
        BY <3>1, <3>3, PlaceFacts DEF StoredAtHome
      <4> QED
        BY <3>1, <3>2, <4>1, SameHome
    <3>4. CASE n.pids[m.idx[A]] = m.pids[m.idx[A]]
      BY <3>1, <3>4
    <3> QED
      BY <1>1, <3>1, <3>3, <3>4
  <2> QED
    BY <2>1, <2>2
<1> QED
  BY <1>1, <1>2, <1>3 DEF Agrees

-----------------------------------------------------------------------------
(* The pieces of a step.                                                   *)

(* One cache changes, to a Pmap that agrees with itself.                   *)
LEMMA CacheStep ==
  ASSUME TypeOK, IndexedHasRecord, AtHome,
         NEW c \in Caches, NEW n \in PmapType, Agrees(n), RecordAtHome(n),
         pmap' = [pmap EXCEPT ![c] = n]
  PROVE  /\ pmap' \in [Caches -> PmapType]
         /\ IndexedHasRecord'
         /\ \A d \in Caches : RecordAtHome(pmap'[d])
<1>1. pmap' \in [Caches -> PmapType] /\ \A d \in Caches : pmap'[d] = IF d = c THEN n ELSE pmap[d]
  BY DEF TypeOK
<1>2. \A d \in Caches : Agrees(pmap'[d]) /\ RecordAtHome(pmap'[d])
  BY <1>1 DEF IndexedHasRecord, AtHome
<1> QED
  BY <1>1, <1>2 DEF IndexedHasRecord

(* A write of Riak, if it takes place, puts a pid at its home or clears.   *)
LEMMA StoreStep ==
  ASSUME TypeOK, AtHome, NEW c \in Caches, NEW A \in Places, NEW v \in Pids \cup {None},
         v # None => A \in Home(v), Store(c, A, v) \/ StoreFails(A, v)
  PROVE  /\ riak' \in [Places -> Pids \cup {None}] /\ solr' \in [Places -> Pids \cup {None}]
         /\ writer' \in [Places -> Caches \cup {Nobody, Unknown}]
         /\ StoredAtHome(riak') /\ StoredAtHome(solr')
BY DEF TypeOK, AtHome, StoredAtHome, Store, StoreFails

(* The address was answered from a range found in a Pmap that agrees.      *)
LEMMA AnswerRecordStep ==
  ASSUME NEW c \in Caches, NEW a \in Address, NEW m \in PmapType, Agrees(m),
         NEW A \in GetIndex(m.idx, a), AnswerRecord(c, a, m, A)
  PROVE  /\ reply' = [cache |-> c, ask |-> a, status |-> "ok",
                      inst |-> [place |-> A, pid |-> m.idx[A]]]
         /\ reply' \in ReplyType /\ NeverPanics' /\ AnswersAddress'
<1>1. A \in Places /\ m.idx[A] \in Pids /\ A.ip = a.ip /\ Covers(A, a.port)
  BY DEF GetIndex, Innermost, Hits, PmapType
<1>2. m.pids[m.idx[A]] = A /\ A # None
  BY <1>1, PlaceFacts DEF Agrees
<1>3. reply' = [cache |-> c, ask |-> a, status |-> "ok", inst |-> [place |-> A, pid |-> m.idx[A]]]
  BY <1>2 DEF AnswerRecord, Answer
<1>4. reply' \in ReplyType
  BY <1>1, <1>3 DEF ReplyType, Instance
<1>5. NeverPanics'
  BY <1>3 DEF NeverPanics
<1>6. AnswersAddress'
  <2>1. reply'.ask = a /\ reply'.inst.place = A
    BY <1>3
  <2> QED
    BY <1>1, <2>1 DEF AnswersAddress, ForAddress
<1> QED
  BY <1>3, <1>4, <1>5, <1>6

(* Every other answer: no panic, and no instance returned for an address.  *)
LEMMA AnswerStep ==
  ASSUME NEW c \in Caches, NEW ask \in Address \cup Pids \cup {None},
         NEW s \in {"ok", "error", "notfound"}, NEW i \in Instance \cup {None},
         Answer(c, ask, s, i), s # "ok" \/ ask \notin Address
  PROVE  reply' \in ReplyType /\ NeverPanics' /\ AnswersAddress'
<1>1. reply' = [cache |-> c, ask |-> ask, status |-> s, inst |-> i]
  BY DEF Answer
<1>2. reply' \in ReplyType /\ reply'.status = s /\ reply'.ask = ask
  BY <1>1 DEF ReplyType
<1> QED
  BY <1>2 DEF NeverPanics, AnswersAddress, ForAddress

LEMMA NoReplyStep ==
  ASSUME reply' = NoReply
  PROVE  reply' \in ReplyType /\ NeverPanics' /\ AnswersAddress'
BY DEF NoReply, ReplyType, NeverPanics, AnswersAddress

(* A page holds only places the search matches.                            *)
LEMMA PageFacts ==
  ASSUME NEW ip, NEW S \in Page(AtIp(ip))
  PROVE  S \in SUBSET Places /\ \A A \in S : solr[A] # None /\ A.ip = ip
BY DEF Page, AtIp

-----------------------------------------------------------------------------
(* Types, and where instances come from: whatever set S a put takes its    *)
(* instance from, nothing else is ever stored, cached or answered.         *)

LEMMA PutHolds ==
  ASSUME NEW m \in PmapType, NEW S, Holds(m, S), NEW i \in Instance, i \in S
  PROVE  Holds(Put(m, i), S)
<1>1. i = [place |-> i.place, pid |-> i.pid]
  BY DEF Instance
<1> QED
  BY <1>1, PutFacts, PlaceFacts DEF Holds

LEMMA DelHolds ==
  ASSUME NEW m \in PmapType, NEW S, Holds(m, S), NEW i \in Instance
  PROVE  Holds(Del(m, i), S)
BY DelFacts, PlaceFacts DEF Holds

LEMMA LoadsHolds ==
  ASSUME NEW m \in PmapType, NEW x \in [Places -> Pids \cup {None}],
         NEW T \in SUBSET Places, \A A \in T : x[A] # None,
         NEW n \in Loads(m, x, T),
         NEW S, Holds(m, S), StoreHolds(x, S)
  PROVE  n \in PmapType /\ Holds(n, S)
<1>1. /\ n \in PmapType
      /\ \A A \in Places : n.idx[A] =
            IF A \in T /\ Indexable(A) THEN x[A] ELSE m.idx[A]
      /\ \A p \in Pids : \/ n.pids[p] \in T /\ x[n.pids[p]] = p
                         \/ n.pids[p] = m.pids[p] /\ \A A \in T : x[A] # p
  BY LoadsFacts
<1>2. \A A \in Places : n.idx[A] # None => [place |-> A, pid |-> n.idx[A]] \in S
  BY <1>1 DEF Holds, StoreHolds
<1>3. \A p \in Pids : n.pids[p] # None => [place |-> n.pids[p], pid |-> p] \in S
  BY <1>1 DEF Holds, StoreHolds
<1> QED
  BY <1>1, <1>2, <1>3 DEF Holds

(* One cache takes another Pmap, Riak stays.                               *)
LEMMA CacheStocked ==
  ASSUME TypeOK, NEW S, Stocked(S), NEW c \in Caches, NEW n \in PmapType, Holds(n, S),
         pmap' = [pmap EXCEPT ![c] = n]
  PROVE  /\ pmap' \in [Caches -> PmapType]
         /\ \A d \in Caches : Holds(pmap'[d], S)
<1>1. pmap' \in [Caches -> PmapType] /\ \A d \in Caches : pmap'[d] = IF d = c THEN n ELSE pmap[d]
  BY DEF TypeOK
<1> QED
  BY <1>1 DEF Stocked

LEMMA StoreStocked ==
  ASSUME TypeOK, NEW S, Stocked(S), NEW c \in Caches, NEW A \in Places,
         NEW v \in Pids \cup {None}, v # None => [place |-> A, pid |-> v] \in S,
         Store(c, A, v) \/ StoreFails(A, v)
  PROVE  /\ riak' \in [Places -> Pids \cup {None}] /\ solr' \in [Places -> Pids \cup {None}]
         /\ writer' \in [Places -> Caches \cup {Nobody, Unknown}]
         /\ StoreHolds(riak', S) /\ StoreHolds(solr', S)
BY DEF TypeOK, Stocked, StoreHolds, Store, StoreFails

(* The answer of an operation that succeeds.                               *)
LEMMA AnswerType ==
  ASSUME NEW c \in Caches, NEW ask \in Address \cup Pids \cup {None},
         NEW s \in {"ok", "error", "notfound", "panic"}, NEW i \in Instance \cup {None},
         Answer(c, ask, s, i)
  PROVE  reply' \in ReplyType /\ reply'.status = s /\ reply'.inst = i /\ reply'.ask = ask
BY DEF Answer, ReplyType

LEMMA AnswerRecordType ==
  ASSUME NEW c \in Caches, NEW a \in Address, NEW m \in PmapType, NEW S, Holds(m, S),
         NEW A \in GetIndex(m.idx, a), AnswerRecord(c, a, m, A)
  PROVE  reply' \in ReplyType /\ (reply'.status = "ok" => reply'.inst \in S)
<1>1. A \in Places /\ m.idx[A] \in Pids
  BY DEF GetIndex, Innermost, Hits, PmapType
<1>2. CASE m.pids[m.idx[A]] = None
  BY <1>2, AnswerType DEF AnswerRecord
<1>3. CASE m.pids[m.idx[A]] # None
  <2>1. /\ [place |-> m.pids[m.idx[A]], pid |-> m.idx[A]] \in S
        /\ [place |-> m.pids[m.idx[A]], pid |-> m.idx[A]] \in Instance
    BY <1>1, <1>3 DEF Holds, PmapType, Instance
  <2> QED
    BY <1>3, <2>1, AnswerType DEF AnswerRecord
<1> QED
  BY <1>2, <1>3

(* Who claims a place, after a write.                                      *)
LEMMA ClaimStep ==
  ASSUME TypeOK, NEW c \in Caches, NEW i \in Instance, PutInstance(c, i) \/ DelInstance(c, i)
  PROVE  claim' \in Claims
BY PlaceFacts DEF TypeOK, Claims, Claim, PutInstance, DelInstance

(* The operations, one lemma each: types are kept, S is kept, and what is  *)
(* answered is in S.                                                       *)
LEMMA PutStocked ==
  ASSUME TypeOK, NEW S, Stocked(S), NEW c \in Caches, NEW i \in Instance, i \in S,
         PutInstance(c, i)
  PROVE  TypeOK' /\ Stocked(S)'
<1>0. i = [place |-> i.place, pid |-> i.pid]
  BY DEF Instance
<1>1. pmap[c] \in PmapType /\ Holds(pmap[c], S) /\ i.place \in Places /\ i.pid \in Pids
  BY PlaceFacts DEF TypeOK, Stocked
<1>2. Put(pmap[c], i) \in PmapType /\ Holds(Put(pmap[c], i), S)
  BY <1>1, PutFacts, PutHolds
<1>3. pmap' = [pmap EXCEPT ![c] = Put(pmap[c], i)]
  BY DEF PutInstance
<1>4. pmap' \in [Caches -> PmapType] /\ \A d \in Caches : Holds(pmap'[d], S)
  BY <1>2, <1>3, CacheStocked
<1>5. Store(c, i.place, i.pid) \/ StoreFails(i.place, i.pid)
  BY DEF PutInstance
<1>6. /\ riak' \in [Places -> Pids \cup {None}] /\ solr' \in [Places -> Pids \cup {None}]
      /\ writer' \in [Places -> Caches \cup {Nobody, Unknown}]
      /\ StoreHolds(riak', S) /\ StoreHolds(solr', S)
  BY <1>0, <1>1, <1>5, StoreStocked
<1>7. reply' \in ReplyType
  BY AnswerType DEF PutInstance
<1> QED
  BY <1>4, <1>6, <1>7, ClaimStep DEF TypeOK, Stocked, PutInstance

LEMMA DelStocked ==
  ASSUME TypeOK, NEW S, Stocked(S), NEW c \in Caches, NEW i \in Instance,
         DelInstance(c, i)
  PROVE  TypeOK' /\ Stocked(S)'
<1>1. pmap[c] \in PmapType /\ Holds(pmap[c], S) /\ i.place \in Places
  BY PlaceFacts DEF TypeOK, Stocked
<1>2. Del(pmap[c], i) \in PmapType /\ Holds(Del(pmap[c], i), S)
  BY <1>1, DelFacts, DelHolds
<1>3. pmap' = [pmap EXCEPT ![c] = Del(pmap[c], i)]
  BY DEF DelInstance
<1>4. pmap' \in [Caches -> PmapType] /\ \A d \in Caches : Holds(pmap'[d], S)
  BY <1>2, <1>3, CacheStocked
<1>5. Store(c, i.place, None) \/ StoreFails(i.place, None)
  BY DEF DelInstance
<1>6. /\ riak' \in [Places -> Pids \cup {None}] /\ solr' \in [Places -> Pids \cup {None}]
      /\ writer' \in [Places -> Caches \cup {Nobody, Unknown}]
      /\ StoreHolds(riak', S) /\ StoreHolds(solr', S)
  BY <1>1, <1>5, StoreStocked
<1>7. reply' \in ReplyType
  BY AnswerType DEF DelInstance
<1> QED
  BY <1>4, <1>6, <1>7, ClaimStep DEF TypeOK, Stocked, DelInstance

(* Every lookup.                                                           *)
Looks(c) ==
  \/ \E a \in Address : LookupHit(c, a) \/ LookupReload(c, a) \/ LookupFails(c, a)
  \/ \E p \in Pids : GetFromID(c, p) \/ SearchUUID(c, p)
  \/ ReloadUUID(c)

LEMMA LooksStocked ==
  ASSUME TypeOK, NEW S, Stocked(S), NEW c \in Caches, Looks(c)
  PROVE  /\ TypeOK' /\ Stocked(S)'
         /\ reply'.status = "ok" => reply'.inst \in S
         /\ UNCHANGED <<riak, solr, writer, claim>>
         /\ \A d \in Caches \ {c} : pending'[d] = pending[d]
<1>0. /\ riak \in [Places -> Pids \cup {None}] /\ solr \in [Places -> Pids \cup {None}]
      /\ StoreHolds(riak, S) /\ StoreHolds(solr, S)
      /\ pmap[c] \in PmapType /\ Holds(pmap[c], S)
      /\ pending[c] \in Instance \cup {None} /\ (pending[c] # None => pending[c] \in S)
      /\ pending \in [Caches -> Instance \cup {None}]
      /\ \A d \in Caches : pending[d] # None => pending[d] \in S
  BY DEF TypeOK, Stocked
<1> DEFINE Kept == UNCHANGED <<riak, solr, writer, claim>>
           Mine == /\ pending' \in [Caches -> Instance \cup {None}]
                   /\ pending'[c] # None => pending'[c] \in S
                   /\ \A d \in Caches \ {c} : pending'[d] = pending[d]
           Said == reply' \in ReplyType /\ (reply'.status = "ok" => reply'.inst \in S)
           Goal == /\ TypeOK' /\ Stocked(S)'
                   /\ reply'.status = "ok" => reply'.inst \in S
                   /\ UNCHANGED <<riak, solr, writer, claim>>
                   /\ \A d \in Caches \ {c} : pending'[d] = pending[d]
<1>same. ASSUME Kept, Mine, Said, UNCHANGED pmap
         PROVE  Goal
  BY <1>0, <1>same DEF TypeOK, Stocked
<1>other. ASSUME Kept, Mine, Said, NEW n \in PmapType, Holds(n, S), pmap' = [pmap EXCEPT ![c] = n]
          PROVE  Goal
  <2>1. pmap' \in [Caches -> PmapType] /\ \A d \in Caches : Holds(pmap'[d], S)
    BY <1>other, CacheStocked
  <2> QED
    BY <1>0, <1>other, <2>1 DEF TypeOK, Stocked
<1>loads. ASSUME NEW ip, NEW T \in Page(AtIp(ip)), NEW n \in Loads(pmap[c], solr, T)
          PROVE  n \in PmapType /\ Holds(n, S)
  BY <1>0, PageFacts, LoadsHolds
<1>1. ASSUME NEW a \in Address, LookupHit(c, a)
      PROVE  Goal
  <2>1. Said
    BY <1>0, <1>1, AnswerRecordType DEF LookupHit
  <2> QED
    BY <1>0, <1>1, <2>1, <1>same DEF LookupHit
<1>2. ASSUME NEW a \in Address, LookupReload(c, a)
      PROVE  Goal
  <2>1. PICK T \in Page(AtIp(a.ip)) : \E n \in Loads(pmap[c], solr, T) :
          /\ pmap' = [pmap EXCEPT ![c] = n]
          /\ \/ \E A \in GetIndex(n.idx, a) : AnswerRecord(c, a, n, A)
             \/ Hits(n.idx, a) = {} /\ Answer(c, a, "notfound", None)
    BY <1>2 DEF LookupReload
  <2>2. PICK n \in Loads(pmap[c], solr, T) :
          /\ pmap' = [pmap EXCEPT ![c] = n]
          /\ \/ \E A \in GetIndex(n.idx, a) : AnswerRecord(c, a, n, A)
             \/ Hits(n.idx, a) = {} /\ Answer(c, a, "notfound", None)
    BY <2>1
  <2>3. n \in PmapType /\ Holds(n, S)
    BY <1>loads
  <2>4. Said
    BY <2>2, <2>3, AnswerRecordType, AnswerType
  <2> QED
    BY <1>0, <1>2, <2>2, <2>3, <2>4, <1>other DEF LookupReload
<1>3. ASSUME NEW a \in Address, LookupFails(c, a)
      PROVE  Goal
  <2>1. Said
    BY <1>3, AnswerType DEF LookupFails
  <2> QED
    BY <1>0, <1>3, <2>1, <1>same DEF LookupFails
<1>4. ASSUME NEW p \in Pids, GetFromID(c, p)
      PROVE  Goal
  <2>1. /\ [place |-> pmap[c].pids[p], pid |-> p] \in S
        /\ [place |-> pmap[c].pids[p], pid |-> p] \in Instance
    BY <1>0, <1>4 DEF GetFromID, PmapType, Instance, Holds
  <2>2. Said
    BY <1>4, <2>1, AnswerType DEF GetFromID
  <2> QED
    BY <1>0, <1>4, <2>2, <1>same DEF GetFromID
<1>5. ASSUME NEW p \in Pids, SearchUUID(c, p)
      PROVE  Goal
  <2>1. \A A \in OfPid(p) : /\ [place |-> A, pid |-> p] \in Instance
                            /\ [place |-> A, pid |-> p] \in S
    BY <1>0, PlaceFacts DEF OfPid, Instance, StoreHolds
  <2>2. Mine
    BY <1>0, <1>5, <2>1 DEF SearchUUID
  <2>3. Said
    <3>1. CASE reply' = NoReply
      BY <3>1 DEF NoReply, ReplyType
    <3>2. CASE Answer(c, p, "notfound", None) \/ Answer(c, p, "error", None)
      BY <3>2, AnswerType
    <3> QED
      BY <1>5, <3>1, <3>2 DEF SearchUUID
  <2> QED
    BY <1>5, <2>2, <2>3, <1>same DEF SearchUUID
<1>6. ASSUME ReloadUUID(c)
      PROVE  Goal
  <2>1. pending[c] \in Instance /\ pending[c].pid \in Pids /\ pending[c] \in S
    BY <1>0, <1>6, PlaceFacts DEF ReloadUUID, Unlocked
  <2>2. Mine
    BY <1>0, <1>6 DEF ReloadUUID
  <2>3. Said
    BY <1>6, <2>1, AnswerType DEF ReloadUUID
  <2>4. CASE UNCHANGED pmap
    BY <1>6, <2>2, <2>3, <2>4, <1>same DEF ReloadUUID
  <2>5. ASSUME NEW T \in Page(AtIp(pending[c].place.ip)), NEW n \in Loads(pmap[c], solr, T),
               pmap' = [pmap EXCEPT ![c] = n]
        PROVE  Goal
    BY <1>6, <2>2, <2>3, <2>5, <1>loads, <1>other DEF ReloadUUID
  <2> QED
    BY <1>6, <2>4, <2>5 DEF ReloadUUID
<1> QED
  BY <1>1, <1>2, <1>3, <1>4, <1>5, <1>6 DEF Looks

(* The rest of what happens.                                               *)
LEMMA SyncStocked ==
  ASSUME TypeOK, NEW S, Stocked(S), NEW A \in Places, IndexSync(A)
  PROVE  TypeOK' /\ Stocked(S)'
BY DEF TypeOK, Stocked, StoreHolds, IndexSync, NoReply, ReplyType

LEMMA RestartStocked ==
  ASSUME TypeOK, NEW S, Stocked(S), Restart
  PROVE  TypeOK' /\ Stocked(S)'
<1>1. pmap' \in [Caches -> PmapType] /\ \A c \in Caches : Holds(pmap'[c], S)
  BY EmptyPmapFacts DEF Restart, EmptyPmap, Holds
<1>2. /\ reply' \in ReplyType /\ writer' \in [Places -> Caches \cup {Nobody, Unknown}]
      /\ claim' \in Claims
  BY DEF Restart, NoReply, ReplyType, Claims
<1> QED
  BY <1>1, <1>2 DEF Restart, TypeOK, Stocked

LEMMA InitStocked ==
  ASSUME NEW S, Init
  PROVE  TypeOK /\ Stocked(S)
<1>1. TypeOK
  BY EmptyPmapFacts DEF Init, TypeOK, NoReply, ReplyType, Claims
<1>2. Stocked(S)
  BY DEF Init, Stocked, StoreHolds, Holds, EmptyPmap
<1> QED
  BY <1>1, <1>2

LEMMA NextStocked ==
  ASSUME TypeOK, Stocked(Registrations), Next
  PROVE  TypeOK' /\ Stocked(Registrations)'
<1>1. ASSUME NEW c \in Caches, NEW i \in Registrations, PutInstance(c, i)
      PROVE  TypeOK' /\ Stocked(Registrations)'
  BY <1>1, PlaceFacts, PutStocked
<1>2. ASSUME NEW c \in Caches, NEW i \in Deletions, DelInstance(c, i)
      PROVE  TypeOK' /\ Stocked(Registrations)'
  BY <1>2, PlaceFacts, DelStocked
<1>3. ASSUME NEW c \in Caches, Looks(c)
      PROVE  TypeOK' /\ Stocked(Registrations)'
  BY <1>3, LooksStocked
<1>4. ASSUME NEW A \in Places, IndexSync(A)
      PROVE  TypeOK' /\ Stocked(Registrations)'
  BY <1>4, SyncStocked
<1> QED
  BY <1>1, <1>2, <1>3, <1>4, RestartStocked DEF Next, Looks

(* Whatever callers do, with or without discipline, what a worker has      *)
(* stored, cached or is loading is an instance that was registered, at the *)
(* place it was registered at: the caches mix up no two of them            *)
(* (cache.go:63-105), whatever Riak loses, delays or cuts short.           *)
THEOREM OnlyRegistered == Spec => [](TypeOK /\ Stocked(Registrations))
<1>1. TypeOK /\ Stocked(Registrations) /\ [Next]_vars => TypeOK' /\ Stocked(Registrations)'
  <2>1. CASE UNCHANGED vars
    BY <2>1 DEF vars, TypeOK, Stocked, StoreHolds, Holds
  <2> QED
    BY <2>1, NextStocked
<1>2. Init => TypeOK /\ Stocked(Registrations)
  BY InitStocked
<1> QED
  BY <1>1, <1>2, PTL DEF Spec

(* The types of the caches, their store and its index.                     *)
THEOREM CacheTypes == Spec => []TypeOK
BY OnlyRegistered, PTL

-----------------------------------------------------------------------------
(* The invariant.                                                          *)

LEMMA InitIInv == Init => IInv
<1> SUFFICES ASSUME Init PROVE IInv
  OBVIOUS
<1>1. TypeOK
  BY EmptyPmapFacts DEF Init, TypeOK, NoReply, ReplyType, Claims
<1>2. IndexedHasRecord /\ AtHome
  BY EmptyPmapFacts DEF Init, IndexedHasRecord, AtHome, StoredAtHome
<1>3. NeverPanics /\ AnswersAddress
  BY DEF Init, NoReply, NeverPanics, AnswersAddress
<1> QED
  BY <1>1, <1>2, <1>3 DEF IInv

(* A deletion leaves the maps in agreement, whatever it names, unless the  *)
(* pid was registered somewhere else.                                      *)
LEMMA DelIInv ==
  ASSUME IInv, NEW c \in Caches, NEW i \in Instance, \A A \in Home(i.pid) : A = i.place,
         DelInstance(c, i)
  PROVE  IInv'
<1>0. pmap[c] \in PmapType /\ Agrees(pmap[c]) /\ RecordAtHome(pmap[c]) /\ i.place \in Places
  BY PlaceFacts DEF IInv, TypeOK, AtHome, IndexedHasRecord
<1>1. Del(pmap[c], i) \in PmapType
  BY <1>0, DelFacts
<1>2. Agrees(Del(pmap[c], i)) /\ RecordAtHome(Del(pmap[c], i))
  BY <1>0, DelAgrees
<1>3. pmap' = [pmap EXCEPT ![c] = Del(pmap[c], i)]
  BY DEF DelInstance
<1>4. /\ pmap' \in [Caches -> PmapType] /\ IndexedHasRecord'
      /\ \A d \in Caches : RecordAtHome(pmap'[d])
  BY <1>1, <1>2, <1>3, CacheStep DEF IInv
<1>5. Store(c, i.place, None) \/ StoreFails(i.place, None)
  BY DEF DelInstance
<1>6. /\ riak' \in [Places -> Pids \cup {None}] /\ solr' \in [Places -> Pids \cup {None}]
      /\ writer' \in [Places -> Caches \cup {Nobody, Unknown}]
      /\ StoredAtHome(riak') /\ StoredAtHome(solr')
  BY <1>0, <1>5, StoreStep DEF IInv
<1>7. reply' \in ReplyType /\ NeverPanics' /\ AnswersAddress'
  BY CacheAssumption, AnswerStep DEF DelInstance
<1> QED
  BY <1>4, <1>6, <1>7, ClaimStep DEF IInv, TypeOK, AtHome, DelInstance

LEMMA NextIInv ==
  ASSUME OneHome, IInv, Next
  PROVE  IInv'
<1> USE DEF IInv
<1>0. /\ riak \in [Places -> Pids \cup {None}] /\ solr \in [Places -> Pids \cup {None}]
      /\ StoredAtHome(riak) /\ StoredAtHome(solr)
      /\ \A c \in Caches : pmap[c] \in PmapType /\ Agrees(pmap[c]) /\ RecordAtHome(pmap[c])
      /\ \A c \in Caches : pending[c] \in Instance \cup {None}
  BY DEF TypeOK, AtHome, IndexedHasRecord
<1> DEFINE Rest == UNCHANGED <<pmap, riak, solr, writer, claim>>
<1>unchanged. ASSUME Rest, pending' \in [Caches -> Instance \cup {None}],
                     reply' \in ReplyType /\ NeverPanics' /\ AnswersAddress'
              PROVE  IInv'
  BY <1>unchanged DEF TypeOK, AtHome, IndexedHasRecord
<1>1. ASSUME NEW c \in Caches, NEW i \in Registrations, PutInstance(c, i)
      PROVE  IInv'
  <2>1. i \in Instance /\ i.place \in Places /\ i.pid \in Pids /\ i.place \in Home(i.pid)
    BY PlaceFacts DEF Home
  <2>2. Put(pmap[c], i) \in PmapType
    BY <1>0, <2>1, PutFacts
  <2>3. Agrees(Put(pmap[c], i)) /\ RecordAtHome(Put(pmap[c], i))
    BY <1>0, PutAgrees
  <2>4. pmap' = [pmap EXCEPT ![c] = Put(pmap[c], i)]
    BY <1>1 DEF PutInstance
  <2>5. /\ pmap' \in [Caches -> PmapType] /\ IndexedHasRecord'
        /\ \A d \in Caches : RecordAtHome(pmap'[d])
    BY <2>2, <2>3, <2>4, CacheStep
  <2>6. Store(c, i.place, i.pid) \/ StoreFails(i.place, i.pid)
    BY <1>1 DEF PutInstance
  <2>7. /\ riak' \in [Places -> Pids \cup {None}] /\ solr' \in [Places -> Pids \cup {None}]
        /\ writer' \in [Places -> Caches \cup {Nobody, Unknown}]
        /\ StoredAtHome(riak') /\ StoredAtHome(solr')
    BY <2>1, <2>6, StoreStep
  <2>8. reply' \in ReplyType /\ NeverPanics' /\ AnswersAddress'
    BY <1>1, <2>1, CacheAssumption, AnswerStep DEF PutInstance
  <2> QED
    BY <1>1, <2>1, <2>5, <2>7, <2>8, ClaimStep DEF TypeOK, AtHome, PutInstance
<1>2. ASSUME NEW c \in Caches, NEW i \in Deletions, DelInstance(c, i)
      PROVE  IInv'
  <2>1. i \in Instance /\ \A A \in Home(i.pid) : A = i.place
    BY PlaceFacts, OnlyHome
  <2> QED
    BY <1>2, <2>1, DelIInv
<1>3. ASSUME NEW c \in Caches, NEW a \in Address, LookupHit(c, a)
      PROVE  IInv'
  <2>1. reply' \in ReplyType /\ NeverPanics' /\ AnswersAddress'
    BY <1>0, <1>3, AnswerRecordStep DEF LookupHit
  <2> QED
    BY <1>3, <2>1, <1>unchanged DEF LookupHit, TypeOK
<1>4. ASSUME NEW c \in Caches, NEW a \in Address, LookupReload(c, a)
      PROVE  IInv'
  <2>0. PICK S \in Page(AtIp(a.ip)) : \E n \in Loads(pmap[c], solr, S) :
          /\ pmap' = [pmap EXCEPT ![c] = n]
          /\ \/ \E A \in GetIndex(n.idx, a) : AnswerRecord(c, a, n, A)
             \/ Hits(n.idx, a) = {} /\ Answer(c, a, "notfound", None)
    BY <1>4 DEF LookupReload
  <2>1. PICK n \in Loads(pmap[c], solr, S) :
          /\ pmap' = [pmap EXCEPT ![c] = n]
          /\ \/ \E A \in GetIndex(n.idx, a) : AnswerRecord(c, a, n, A)
             \/ Hits(n.idx, a) = {} /\ Answer(c, a, "notfound", None)
    BY <2>0
  <2>2. n \in PmapType /\ Agrees(n) /\ RecordAtHome(n)
    BY <1>0, PageFacts, LoadsAgrees
  <2>3. /\ pmap' \in [Caches -> PmapType] /\ IndexedHasRecord'
        /\ \A d \in Caches : RecordAtHome(pmap'[d])
    BY <2>1, <2>2, CacheStep
  <2>4. reply' \in ReplyType /\ NeverPanics' /\ AnswersAddress'
    BY <2>1, <2>2, AnswerStep, AnswerRecordStep
  <2> QED
    BY <1>4, <2>3, <2>4 DEF LookupReload, TypeOK, AtHome
<1>5. ASSUME NEW c \in Caches, NEW a \in Address, LookupFails(c, a)
      PROVE  IInv'
  <2>1. reply' \in ReplyType /\ NeverPanics' /\ AnswersAddress'
    BY <1>5, AnswerStep DEF LookupFails
  <2> QED
    BY <1>5, <2>1, <1>unchanged DEF LookupFails, TypeOK
<1>6. ASSUME NEW c \in Caches, NEW p \in Pids, GetFromID(c, p)
      PROVE  IInv'
  <2>1. [place |-> pmap[c].pids[p], pid |-> p] \in Instance
    BY <1>0, <1>6 DEF GetFromID, PmapType, Instance
  <2>2. reply' \in ReplyType /\ NeverPanics' /\ AnswersAddress'
    BY <1>6, <2>1, CacheAssumption, AnswerStep DEF GetFromID
  <2> QED
    BY <1>6, <2>2, <1>unchanged DEF GetFromID, TypeOK
<1>7. ASSUME NEW c \in Caches, NEW p \in Pids, SearchUUID(c, p)
      PROVE  IInv'
  <2>1. reply' \in ReplyType /\ NeverPanics' /\ AnswersAddress'
    BY <1>7, CacheAssumption, AnswerStep, NoReplyStep DEF SearchUUID
  <2>2. \A A \in OfPid(p) : [place |-> A, pid |-> p] \in Instance
    BY DEF OfPid, Instance
  <2>3. pending' \in [Caches -> Instance \cup {None}]
    BY <1>7, <2>2 DEF SearchUUID, TypeOK
  <2> QED
    BY <1>7, <2>1, <2>3, <1>unchanged DEF SearchUUID
<1>8. ASSUME NEW c \in Caches, ReloadUUID(c)
      PROVE  IInv'
  <2>1. pending[c] \in Instance /\ pending[c].pid \in Pids
    BY <1>0, <1>8 DEF ReloadUUID, Unlocked, Instance
  <2>2. reply' \in ReplyType /\ NeverPanics' /\ AnswersAddress'
    BY <1>8, <2>1, CacheAssumption, AnswerStep DEF ReloadUUID
  <2>3. pending' \in [Caches -> Instance \cup {None}]
    BY <1>8 DEF ReloadUUID, TypeOK
  <2>4. CASE UNCHANGED pmap
    BY <1>8, <2>2, <2>3, <2>4, <1>unchanged DEF ReloadUUID
  <2>5. ASSUME NEW S \in Page(AtIp(pending[c].place.ip)), NEW n \in Loads(pmap[c], solr, S),
               pmap' = [pmap EXCEPT ![c] = n]
        PROVE  IInv'
    <3>1. n \in PmapType /\ Agrees(n) /\ RecordAtHome(n)
      BY <1>0, PageFacts, LoadsAgrees
    <3>2. /\ pmap' \in [Caches -> PmapType] /\ IndexedHasRecord'
          /\ \A d \in Caches : RecordAtHome(pmap'[d])
      BY <2>5, <3>1, CacheStep
    <3> QED
      BY <1>8, <2>2, <2>3, <3>2 DEF ReloadUUID, TypeOK, AtHome
  <2> QED
    BY <1>8, <2>4, <2>5 DEF ReloadUUID
<1>9. ASSUME NEW A \in Places, IndexSync(A)
      PROVE  IInv'
  <2>1. solr' \in [Places -> Pids \cup {None}] /\ StoredAtHome(solr')
    BY <1>0, <1>9 DEF IndexSync, StoredAtHome
  <2>2. reply' \in ReplyType /\ NeverPanics' /\ AnswersAddress'
    BY <1>9, NoReplyStep DEF IndexSync
  <2> QED
    BY <1>9, <2>1, <2>2 DEF IndexSync, TypeOK, AtHome, IndexedHasRecord
<1>10. ASSUME Restart
       PROVE  IInv'
  <2>1. reply' \in ReplyType /\ NeverPanics' /\ AnswersAddress'
    BY <1>10, NoReplyStep DEF Restart
  <2>2. writer' \in [Places -> Caches \cup {Nobody, Unknown}] /\ claim' \in Claims
    BY <1>10 DEF Restart, Claims
  <2>3. pmap' \in [Caches -> PmapType] /\ \A d \in Caches : Agrees(pmap'[d]) /\ RecordAtHome(pmap'[d])
    BY <1>10, EmptyPmapFacts DEF Restart
  <2> QED
    BY <1>10, <2>1, <2>2, <2>3 DEF Restart, TypeOK, AtHome, IndexedHasRecord
<1> QED
  BY <1>1, <1>2, <1>3, <1>4, <1>5, <1>6, <1>7, <1>8, <1>9, <1>10 DEF Next

(* The two maps of every cache agree and nothing leaves its home, whatever *)
(* the workers, the faults, the restarts and the lag of the index.         *)
THEOREM CachesAgree ==
  ASSUME OneHome
  PROVE  Spec => []IInv
<1>1. IInv /\ [Next]_vars => IInv'
  <2> SUFFICES ASSUME IInv, [Next]_vars PROVE IInv'
    OBVIOUS
  <2>1. CASE Next
    BY <2>1, NextIInv
  <2>2. CASE UNCHANGED vars
    BY <2>2 DEF vars, IInv, TypeOK, IndexedHasRecord, AtHome, NeverPanics,
                AnswersAddress, ForAddress
  <2> QED
    BY <2>1, <2>2
<1> QED
  BY <1>1, InitIInv, PTL DEF Spec

(* "result should never be null!": it is not, if callers keep a uuid at    *)
(* one address.                                                            *)
THEOREM LookupNeverPanics ==
  ASSUME OneHome
  PROVE  Spec => []NeverPanics
<1>1. IInv => NeverPanics
  BY DEF IInv
<1> QED
  BY <1>1, CachesAgree, PTL

(* A lookup by address answers with an instance registered at a range      *)
(* around that address.                                                    *)
THEOREM LookupAnswersAddress ==
  ASSUME OneHome
  PROVE  Spec => []AnswersAddress
<1>1. IInv => AnswersAddress
  BY DEF IInv
<1> QED
  BY <1>1, CachesAgree, PTL

-----------------------------------------------------------------------------
(* Exactness, when the search index does not lag.                          *)

(* Two indexes that agree on the ranges of an IP that are not inverted     *)
(* answer alike there.                                                     *)
LEMMA SameHits ==
  ASSUME NEW x, NEW y, NEW a \in Address,
         \A A \in Places : A.ip = a.ip /\ Indexable(A) => x[A] = y[A]
  PROVE  /\ Hits(x, a) = Hits(y, a) /\ GetIndex(x, a) = GetIndex(y, a)
         /\ \A A \in GetIndex(y, a) : x[A] = y[A]
<1>1. ASSUME NEW A \in Places, A.ip = a.ip, Covers(A, a.port)
      PROVE  x[A] = y[A]
  <2>1. A.lport \in Int /\ A.rport \in Int /\ a.port \in Int
    BY PlaceFacts, PlacesAssumption DEF Address
  <2> QED
    BY <1>1, <2>1 DEF Covers, Indexable
<1>2. Hits(x, a) = Hits(y, a)
  BY <1>1 DEF Hits
<1> QED
  BY <1>1, <1>2 DEF GetIndex, Innermost, Hits

(* Over the places it alone has written, the index of a cache is the store.*)
LEMMA SoleWriterIndex ==
  ASSUME ConfirmedWritesCached, Unwritten, NEW c \in Caches, NEW ip, SoleWriter(c, ip),
         NEW A \in Places, A.ip = ip, Indexable(A)
  PROVE  pmap[c].idx[A] = riak[A]
BY DEF ConfirmedWritesCached, Unwritten, SoleWriter

(* The three parts of the exactness invariant are kept when one cache      *)
(* changes its index and the store does not move.                          *)
LEMMA ReloadExact ==
  ASSUME IInv, solr = riak, ConfirmedWritesCached, Unwritten, NEW c \in Caches, NEW ip,
         NEW S \in Page(AtIp(ip)), NEW n \in Loads(pmap[c], solr, S),
         pmap' = [pmap EXCEPT ![c] = n], UNCHANGED <<riak, solr, writer, claim>>
  PROVE  ConfirmedWritesCached' /\ Unwritten'
<1>1. /\ \A A \in S : solr[A] # None
      /\ \A A \in Places : n.idx[A] =
            IF A \in S /\ Indexable(A) THEN solr[A] ELSE pmap[c].idx[A]
  BY PageFacts, LoadsFacts DEF IInv, TypeOK
<1>2. \A d \in Caches : pmap'[d] = IF d = c THEN n ELSE pmap[d]
  BY DEF IInv, TypeOK
<1>3. ConfirmedWritesCached'
  BY <1>1, <1>2 DEF ConfirmedWritesCached
<1>4. Unwritten'
  BY <1>1, <1>2 DEF Unwritten
<1> QED
  BY <1>3, <1>4

(* An answer to no address says nothing about the index.                   *)
LEMMA NotForAddress ==
  ASSUME reply'.ask \notin Address
  PROVE  SoleWriterExact'
BY DEF SoleWriterExact, ForAddress

LEMMA NextExactInv ==
  ASSUME OneHome, ~SearchLag, ExactInv, Next
  PROVE  ExactInv'
<1> USE DEF ExactInv
<1>0. IInv'
  BY NextIInv
<1> DEFINE Exact == solr = riak /\ ConfirmedWritesCached /\ Unwritten
<1>fixed. ASSUME UNCHANGED <<pmap, riak, solr, writer, claim>> PROVE Exact'
  BY <1>fixed DEF ConfirmedWritesCached, Unwritten
<1>1. ASSUME NEW c \in Caches, NEW i \in Registrations, PutInstance(c, i)
      PROVE  Exact' /\ SoleWriterExact'
  <2>1. /\ i.place \in Places /\ i.pid \in Pids
        /\ \A A \in Places : Put(pmap[c], i).idx[A] =
              IF A = i.place /\ Indexable(A) THEN i.pid ELSE pmap[c].idx[A]
    BY PlaceFacts, PutFacts DEF IInv, TypeOK
  <2>2. \A d \in Caches : pmap'[d] = IF d = c THEN Put(pmap[c], i) ELSE pmap[d]
    BY <1>1 DEF PutInstance, IInv, TypeOK
  <2>3. \/ riak' = [riak EXCEPT ![i.place] = i.pid] /\ writer' = [writer EXCEPT ![i.place] = c]
        \/ riak' = [riak EXCEPT ![i.place] = i.pid] /\ writer' = [writer EXCEPT ![i.place] = Unknown]
        \/ riak' = riak /\ writer' = [writer EXCEPT ![i.place] = Unknown]
    BY <1>1 DEF PutInstance, Store, StoreFails
  <2>4. riak \in [Places -> Pids \cup {None}] /\ writer \in [Places -> Caches \cup {Nobody, Unknown}]
    BY DEF IInv, TypeOK
  <2>5. solr' = riak'
    BY <1>1 DEF PutInstance, Store, StoreFails
  <2>6. ConfirmedWritesCached'
    BY <2>1, <2>2, <2>3, <2>4, CacheAssumption DEF ConfirmedWritesCached
  <2>7. Unwritten'
    BY <2>1, <2>2, <2>3, <2>4, CacheAssumption DEF Unwritten
  <2>8. SoleWriterExact'
    BY <1>1, NotForAddress, CacheAssumption DEF PutInstance, Answer
  <2> QED
    BY <2>5, <2>6, <2>7, <2>8
<1>2. ASSUME NEW c \in Caches, NEW i \in Deletions, DelInstance(c, i)
      PROVE  Exact' /\ SoleWriterExact'
  <2>1. /\ i.place \in Places
        /\ \A A \in Places : Del(pmap[c], i).idx[A] =
              IF A = i.place THEN None ELSE pmap[c].idx[A]
    BY PlaceFacts, DelFacts DEF IInv, TypeOK
  <2>2. \A d \in Caches : pmap'[d] = IF d = c THEN Del(pmap[c], i) ELSE pmap[d]
    BY <1>2 DEF DelInstance, IInv, TypeOK
  <2>3. \/ riak' = [riak EXCEPT ![i.place] = None] /\ writer' = [writer EXCEPT ![i.place] = c]
        \/ riak' = [riak EXCEPT ![i.place] = None] /\ writer' = [writer EXCEPT ![i.place] = Unknown]
        \/ riak' = riak /\ writer' = [writer EXCEPT ![i.place] = Unknown]
    BY <1>2 DEF DelInstance, Store, StoreFails
  <2>4. riak \in [Places -> Pids \cup {None}] /\ writer \in [Places -> Caches \cup {Nobody, Unknown}]
    BY DEF IInv, TypeOK
  <2>5. solr' = riak'
    BY <1>2 DEF DelInstance, Store, StoreFails
  <2>6. ConfirmedWritesCached'
    BY <2>1, <2>2, <2>3, <2>4, CacheAssumption DEF ConfirmedWritesCached
  <2>7. Unwritten'
    BY <2>1, <2>2, <2>3, <2>4, CacheAssumption DEF Unwritten
  <2>8. SoleWriterExact'
    BY <1>2, NotForAddress, CacheAssumption DEF DelInstance, Answer
  <2> QED
    BY <2>5, <2>6, <2>7, <2>8
<1>3. ASSUME NEW c \in Caches, NEW a \in Address, LookupHit(c, a)
      PROVE  Exact' /\ SoleWriterExact'
  <2>1. Exact' /\ UNCHANGED <<pmap, riak, writer>>
    BY <1>3, <1>fixed DEF LookupHit
  <2>2. PICK A \in GetIndex(pmap[c].idx, a) :
          reply' = [cache |-> c, ask |-> a, status |-> "ok",
                    inst |-> [place |-> A, pid |-> pmap[c].idx[A]]]
    BY <1>3, AnswerRecordStep DEF LookupHit, IInv, TypeOK, IndexedHasRecord
  <2>3. ASSUME SoleWriter(c, a.ip)
        PROVE  A \in GetIndex(riak, a) /\ pmap[c].idx[A] = riak[A]
    BY <2>2, <2>3, SoleWriterIndex, SameHits
  <2>4. (SoleWriter(c, a.ip))' <=> SoleWriter(c, a.ip)
    BY <2>1 DEF SoleWriter
  <2> QED
    BY <2>1, <2>2, <2>3, <2>4 DEF SoleWriterExact
<1>4. ASSUME NEW c \in Caches, NEW a \in Address, LookupReload(c, a)
      PROVE  Exact' /\ SoleWriterExact'
  <2>0. PICK S \in Page(AtIp(a.ip)) : \E n \in Loads(pmap[c], solr, S) :
          /\ pmap' = [pmap EXCEPT ![c] = n]
          /\ \/ \E A \in GetIndex(n.idx, a) : AnswerRecord(c, a, n, A)
             \/ Hits(n.idx, a) = {} /\ Answer(c, a, "notfound", None)
    BY <1>4 DEF LookupReload
  <2>1. PICK n \in Loads(pmap[c], solr, S) :
          /\ pmap' = [pmap EXCEPT ![c] = n]
          /\ \/ \E A \in GetIndex(n.idx, a) : AnswerRecord(c, a, n, A)
             \/ Hits(n.idx, a) = {} /\ Answer(c, a, "notfound", None)
    BY <2>0
  <2>2. Exact' /\ UNCHANGED <<riak, solr, writer, claim>>
    BY <1>4, <2>1, ReloadExact DEF LookupReload
  <2>3. pmap'[c] = n /\ n \in PmapType /\ Agrees(n)
    BY <1>0, <2>1 DEF IInv, TypeOK, IndexedHasRecord
  <2>4. ASSUME SoleWriter(c, a.ip)'
        PROVE  /\ Hits(n.idx, a) = Hits(riak', a)
               /\ \A A \in GetIndex(n.idx, a) : A \in GetIndex(riak', a) /\ n.idx[A] = riak'[A]
    <3>1. \A A \in Places : A.ip = a.ip /\ Indexable(A) => n.idx[A] = riak'[A]
      BY <2>2, <2>3, <2>4 DEF ConfirmedWritesCached, Unwritten, SoleWriter
    <3> QED
      BY <3>1, SameHits
  <2>5. CASE Hits(n.idx, a) = {} /\ Answer(c, a, "notfound", None)
    <3>1. reply' = [cache |-> c, ask |-> a, status |-> "notfound", inst |-> None]
      BY <2>5 DEF Answer
    <3> QED
      BY <2>2, <2>4, <2>5, <3>1 DEF SoleWriterExact
  <2>6. ASSUME NEW A \in GetIndex(n.idx, a), AnswerRecord(c, a, n, A)
        PROVE  SoleWriterExact'
    <3>1. reply' = [cache |-> c, ask |-> a, status |-> "ok",
                    inst |-> [place |-> A, pid |-> n.idx[A]]]
      BY <2>3, <2>6, AnswerRecordStep
    <3>2. SoleWriter(c, a.ip)' => A \in GetIndex(riak', a) /\ n.idx[A] = riak'[A]
      BY <2>4, <2>6
    <3> QED
      BY <3>1, <3>2 DEF SoleWriterExact
  <2> QED
    BY <2>1, <2>2, <2>5, <2>6
<1>5. ASSUME NEW c \in Caches, NEW a \in Address, LookupFails(c, a)
      PROVE  Exact' /\ SoleWriterExact'
  BY <1>5, <1>fixed DEF LookupFails, SoleWriterExact, Answer
<1>6. ASSUME NEW c \in Caches, NEW p \in Pids, GetFromID(c, p)
      PROVE  Exact' /\ SoleWriterExact'
  BY <1>6, <1>fixed, NotForAddress, CacheAssumption DEF GetFromID, Answer
<1>7. ASSUME NEW c \in Caches, NEW p \in Pids, SearchUUID(c, p)
      PROVE  Exact' /\ SoleWriterExact'
  BY <1>7, <1>fixed, NotForAddress, CacheAssumption DEF SearchUUID, Answer, NoReply
<1>8. ASSUME NEW c \in Caches, ReloadUUID(c)
      PROVE  Exact' /\ SoleWriterExact'
  <2>1. pending[c].pid \in Pids
    BY <1>8 DEF ReloadUUID, Unlocked, IInv, TypeOK, Instance
  <2>2. SoleWriterExact'
    BY <1>8, <2>1, NotForAddress, CacheAssumption DEF ReloadUUID, Answer
  <2>3. Exact'
    BY <1>8, <1>fixed, ReloadExact DEF ReloadUUID
  <2> QED
    BY <2>2, <2>3
<1>9. ASSUME NEW A \in Places, IndexSync(A)
      PROVE  Exact' /\ SoleWriterExact'
  BY <1>9 DEF IndexSync
<1>10. ASSUME Restart
       PROVE  Exact' /\ SoleWriterExact'
  <2>1. UNCHANGED <<riak, solr>> /\ \A c \in Caches, A \in Places : pmap'[c].idx[A] = None
    BY <1>10 DEF Restart, EmptyPmap
  <2>2. \A A \in Places : writer'[A] = IF riak[A] = None /\ solr[A] = None THEN Nobody ELSE Unknown
    BY <1>10 DEF Restart
  <2>3. ConfirmedWritesCached'
    BY <2>1, <2>2, CacheAssumption DEF ConfirmedWritesCached
  <2>4. Unwritten'
    BY <2>1, <2>2, CacheAssumption DEF Unwritten
  <2>5. SoleWriterExact'
    BY <1>10, NotForAddress, CacheAssumption DEF Restart, NoReply
  <2> QED
    BY <2>1, <2>3, <2>4, <2>5
<1> QED
  BY <1>0, <1>1, <1>2, <1>3, <1>4, <1>5, <1>6, <1>7, <1>8, <1>9, <1>10 DEF Next

(* With a search index that does not lag, every place a worker wrote last  *)
(* is in its own cache as it is in Riak.                                   *)
THEOREM CachesExact ==
  ASSUME OneHome, ~SearchLag
  PROVE  Spec => []ExactInv
<1>1. Init => ExactInv
  <2> SUFFICES ASSUME Init PROVE ExactInv
    OBVIOUS
  <2>1. IInv
    BY InitIInv
  <2>2. ConfirmedWritesCached /\ Unwritten
    BY CacheAssumption DEF Init, ConfirmedWritesCached, Unwritten, EmptyPmap
  <2>3. SoleWriterExact
    BY CacheAssumption DEF Init, SoleWriterExact, ForAddress, NoReply
  <2> QED
    BY <2>1, <2>2, <2>3 DEF Init, ExactInv
<1>2. ExactInv /\ [Next]_vars => ExactInv'
  <2> SUFFICES ASSUME ExactInv, [Next]_vars PROVE ExactInv'
    OBVIOUS
  <2>1. CASE Next
    BY <2>1, NextExactInv
  <2>2. CASE UNCHANGED vars
    BY <2>2 DEF vars, ExactInv, IInv, TypeOK, IndexedHasRecord, AtHome, NeverPanics,
                AnswersAddress, ForAddress, ConfirmedWritesCached, Unwritten,
                SoleWriterExact, SoleWriter
  <2> QED
    BY <2>1, <2>2
<1> QED
  BY <1>1, <1>2, PTL DEF Spec

(* Without search lag: while one worker alone writes at an IP, and its     *)
(* writes succeed, its answers there are those of the store.               *)
THEOREM SoleWriterIsExact ==
  ASSUME OneHome, ~SearchLag
  PROVE  Spec => []SoleWriterExact
<1>1. ExactInv => SoleWriterExact
  BY DEF ExactInv
<1> QED
  BY <1>1, CachesExact, PTL

-----------------------------------------------------------------------------
(* Registrations at places that are free, whatever Riak and its index do.  *)

(* A lookup changes its own cache at most, by loading what it has found.   *)
LoadsSome(c) ==
  \E S \in SUBSET Places : \E n \in Loads(pmap[c], solr, S) :
    (\A A \in S : solr[A] # None) /\ pmap' = [pmap EXCEPT ![c] = n]

LEMMA LooksLoads ==
  ASSUME NEW c \in Caches, Looks(c)
  PROVE  /\ UNCHANGED <<riak, solr, writer, claim>>
         /\ UNCHANGED pmap \/ LoadsSome(c)
<1>1. ASSUME NEW ip, NEW S \in Page(AtIp(ip)), NEW n \in Loads(pmap[c], solr, S),
             pmap' = [pmap EXCEPT ![c] = n]
      PROVE  LoadsSome(c)
  <2>1. S \in SUBSET Places /\ \A A \in S : solr[A] # None
    BY <1>1, PageFacts
  <2> QED
    BY <1>1, <2>1 DEF LoadsSome
<1>2. ASSUME NEW a \in Address, LookupReload(c, a)
      PROVE  UNCHANGED <<riak, solr, writer, claim>> /\ LoadsSome(c)
  BY <1>1, <1>2 DEF LookupReload
<1>3. ASSUME ReloadUUID(c)
      PROVE  UNCHANGED <<riak, solr, writer, claim>> /\ (UNCHANGED pmap \/ LoadsSome(c))
  BY <1>1, <1>3 DEF ReloadUUID
<1>4. ASSUME NEW a \in Address, LookupHit(c, a) \/ LookupFails(c, a)
      PROVE  UNCHANGED <<riak, solr, writer, claim>> /\ UNCHANGED pmap
  BY <1>4 DEF LookupHit, LookupFails
<1>5. ASSUME NEW p \in Pids, GetFromID(c, p) \/ SearchUUID(c, p)
      PROVE  UNCHANGED <<riak, solr, writer, claim>> /\ UNCHANGED pmap
  BY <1>5 DEF GetFromID, SearchUUID
<1> QED
  BY <1>2, <1>3, <1>4, <1>5 DEF Looks

(* What a step does at one place keeps the registration there: nothing     *)
(* happened, or the place is claimed no more, or the index of the claiming *)
(* cache has the pid, and Riak and its search index have that or nothing.  *)
Kept(A) ==
  claim'[A] # None =>
    /\ {riak'[A], solr'[A]} \subseteq {None, claim'[A].pid}
    /\ Indexable(A) => pmap'[claim'[A].cache].idx[A] = claim'[A].pid

LEMMA PutKeeps ==
  ASSUME TypeOK, ClaimHolds, RegistrationStays, NEW A \in Places,
         NEW c \in Caches, NEW i \in Instance, PutInstance(c, i)
  PROVE  Kept(A)
<1>1. /\ i.place \in Places /\ i.pid \in Pids /\ pmap[c] \in PmapType
      /\ \A d \in Caches : pmap'[d] = IF d = c THEN Put(pmap[c], i) ELSE pmap[d]
  BY PlaceFacts DEF TypeOK, PutInstance
<1>2. Put(pmap[c], i).idx[A] = IF A = i.place /\ Indexable(A) THEN i.pid ELSE pmap[c].idx[A]
  BY <1>1, PutFacts
<1>3. Store(c, i.place, i.pid) \/ StoreFails(i.place, i.pid)
  BY DEF PutInstance
<1>4. riak'[A] = riak[A] \/ (A = i.place /\ riak'[A] = i.pid)
  BY <1>3 DEF TypeOK, Store, StoreFails
<1>5. solr'[A] = solr[A] \/ (A = i.place /\ solr'[A] = i.pid)
  BY <1>3 DEF TypeOK, Store, StoreFails
<1>6. CASE A # i.place
  <2>1. claim'[A] = claim[A] /\ riak'[A] = riak[A] /\ solr'[A] = solr[A]
    BY <1>4, <1>5, <1>6 DEF TypeOK, Claims, PutInstance
  <2>2. \A d \in Caches : pmap'[d].idx[A] = pmap[d].idx[A]
    BY <1>1, <1>2, <1>6
  <2>3. claim[A] # None => claim[A].cache \in Caches
    BY DEF TypeOK, Claims
  <2> QED
    BY <2>1, <2>2, <2>3 DEF Kept, ClaimHolds, RegistrationStays
<1>7. CASE A = i.place
  <2>1. claim'[A] = IF {riak[A], solr[A]} \subseteq {None, i.pid} THEN Claim(c, i.pid) ELSE None
    BY <1>7 DEF TypeOK, Claims, PutInstance
  <2>2. SUFFICES ASSUME claim'[A] # None PROVE Kept(A)
    BY DEF Kept
  <2>3. {riak[A], solr[A]} \subseteq {None, i.pid} /\ claim'[A] = Claim(c, i.pid)
    BY <2>1, <2>2
  <2>4. claim'[A].pid = i.pid /\ claim'[A].cache = c
    BY <2>3 DEF Claim
  <2> QED
    BY <1>1, <1>2, <1>4, <1>5, <1>7, <2>3, <2>4 DEF Kept
<1> QED
  BY <1>6, <1>7

LEMMA DelKeeps ==
  ASSUME TypeOK, ClaimHolds, RegistrationStays, NEW A \in Places,
         NEW c \in Caches, NEW i \in Instance, DelInstance(c, i)
  PROVE  Kept(A)
<1>1. /\ i.place \in Places /\ pmap[c] \in PmapType
      /\ \A d \in Caches : pmap'[d] = IF d = c THEN Del(pmap[c], i) ELSE pmap[d]
  BY PlaceFacts DEF TypeOK, DelInstance
<1>2. CASE A # i.place
  <2>1. claim'[A] = claim[A] /\ riak'[A] = riak[A] /\ solr'[A] = solr[A]
    BY <1>2 DEF TypeOK, Claims, DelInstance, Store, StoreFails
  <2>2. \A d \in Caches : pmap'[d].idx[A] = pmap[d].idx[A]
    BY <1>1, <1>2, DelFacts
  <2>3. claim[A] # None => claim[A].cache \in Caches
    BY DEF TypeOK, Claims
  <2> QED
    BY <2>1, <2>2, <2>3 DEF Kept, ClaimHolds, RegistrationStays
<1>3. CASE A = i.place
  BY <1>3 DEF TypeOK, Claims, DelInstance, Kept
<1> QED
  BY <1>2, <1>3

LEMMA LooksKeeps ==
  ASSUME TypeOK, ClaimHolds, RegistrationStays, NEW A \in Places,
         NEW c \in Caches, Looks(c)
  PROVE  Kept(A)
<1>1. UNCHANGED <<riak, solr, writer, claim>> /\ (UNCHANGED pmap \/ LoadsSome(c))
  BY LooksLoads
<1>2. SUFFICES ASSUME claim[A] # None, Indexable(A)
               PROVE  pmap'[claim[A].cache].idx[A] = claim[A].pid
  BY <1>1 DEF Kept, ClaimHolds
<1>3. claim[A].cache \in Caches /\ pmap[claim[A].cache].idx[A] = claim[A].pid
  BY <1>2 DEF TypeOK, Claims, RegistrationStays
<1>4. CASE UNCHANGED pmap
  BY <1>3, <1>4
<1>5. CASE LoadsSome(c)
  <2>1. PICK S \in SUBSET Places : \E n \in Loads(pmap[c], solr, S) :
          (\A B \in S : solr[B] # None) /\ pmap' = [pmap EXCEPT ![c] = n]
    BY <1>5 DEF LoadsSome
  <2>2. PICK n \in Loads(pmap[c], solr, S) :
          (\A B \in S : solr[B] # None) /\ pmap' = [pmap EXCEPT ![c] = n]
    BY <2>1
  <2>3. n.idx[A] = IF A \in S THEN solr[A] ELSE pmap[c].idx[A]
    BY <1>2, <2>2, LoadsFacts DEF TypeOK
  <2>4. A \in S => solr[A] = claim[A].pid
    BY <1>2, <2>2 DEF ClaimHolds
  <2>5. \A d \in Caches : pmap'[d] = IF d = c THEN n ELSE pmap[d]
    BY <2>2 DEF TypeOK
  <2> QED
    BY <1>3, <2>3, <2>4, <2>5
<1> QED
  BY <1>1, <1>4, <1>5

(* "Write through" (cache.go:169): a registration at a place that is free  *)
(* stays in the cache of its worker.  Nothing is assumed: not OneHome, nor *)
(* anything of Riak, whose index may lag and whose calls may fail.         *)
THEOREM RegistrationsStay == Spec => []RegistrationStays
<1> DEFINE Inv == ClaimHolds /\ RegistrationStays
<1>1. Init => Inv
  BY DEF Init, ClaimHolds, RegistrationStays
<1>2. ASSUME TypeOK, Inv, [Next]_vars PROVE Inv'
  <2>1. SUFFICES ASSUME NEW A \in Places PROVE Kept(A)
    BY DEF Kept, ClaimHolds, RegistrationStays
  <2>2. ASSUME NEW c \in Caches, NEW i \in Registrations, PutInstance(c, i) PROVE Kept(A)
    BY <1>2, <2>2, PutKeeps, PlaceFacts
  <2>3. ASSUME NEW c \in Caches, NEW i \in Deletions, DelInstance(c, i) PROVE Kept(A)
    BY <1>2, <2>3, DelKeeps, PlaceFacts
  <2>4. ASSUME NEW c \in Caches, Looks(c) PROVE Kept(A)
    BY <1>2, <2>4, LooksKeeps
  <2>5. ASSUME NEW B \in Places, IndexSync(B) PROVE Kept(A)
    BY <1>2, <2>5 DEF IndexSync, Kept, ClaimHolds, RegistrationStays, TypeOK
  <2>6. CASE Restart
    BY <2>6 DEF Restart, Kept
  <2>7. CASE UNCHANGED vars
    BY <1>2, <2>7 DEF vars, Kept, ClaimHolds, RegistrationStays
  <2> QED
    BY <1>2, <2>2, <2>3, <2>4, <2>5, <2>6, <2>7 DEF Next, Looks
<1>3. TypeOK /\ Inv /\ [Next]_vars => Inv'
  BY <1>2
<1>4. Inv => RegistrationStays
  OBVIOUS
<1> HIDE DEF Inv
<1> QED
  BY <1>1, <1>3, <1>4, CacheTypes, PTL DEF Spec

-----------------------------------------------------------------------------
(* Pages.                                                                  *)

(* A page that has room for all documents has all.                         *)
LEMMA FullPage ==
  ASSUME NEW S, IsFiniteSet(S), Cardinality(S) <= PageSize, NEW s \in Page(S)
  PROVE  s = S
<1>1. s \subseteq S /\ Cardinality(S) \in Nat /\ Cardinality(s) \in Nat
      /\ Cardinality(s) <= Cardinality(S)
      /\ (Cardinality(s) = Cardinality(S) => s = S)
  BY FS_Subset, FS_CardinalityType DEF Page
<1> QED
  BY <1>1, CacheAssumption DEF Page

LEMMA FiniteSearch ==
  ASSUME IsFiniteSet(Places), NEW ip
  PROVE  IsFiniteSet(AtIp(ip))
BY FS_Subset DEF AtIp

(* 404 is answered only when a search finds nothing, at an IP of which a   *)
(* search shows everything.  Riak returns ten documents: with more of them *)
(* at an IP, the theorem says nothing of a lookup by address there.        *)
THEOREM NotFoundIsTrue ==
  ASSUME IsFiniteSet(Places)
  PROVE  Spec => []NoFalseNotFound
<1>1. Init => NoFalseNotFound
  BY DEF Init, NoReply, NoFalseNotFound
<1>2. ASSUME TypeOK, NoFalseNotFound, [Next]_vars
      PROVE  NoFalseNotFound'
  <2>1. ASSUME NEW c \in Caches, NEW a \in Address, LookupReload(c, a)
        PROVE  NoFalseNotFound'
    <3>1. PICK S \in Page(AtIp(a.ip)) : \E n \in Loads(pmap[c], solr, S) :
            \/ \E A \in GetIndex(n.idx, a) : AnswerRecord(c, a, n, A)
            \/ Hits(n.idx, a) = {} /\ Answer(c, a, "notfound", None)
      BY <2>1 DEF LookupReload
    <3>2. PICK n \in Loads(pmap[c], solr, S) :
            \/ \E A \in GetIndex(n.idx, a) : AnswerRecord(c, a, n, A)
            \/ Hits(n.idx, a) = {} /\ Answer(c, a, "notfound", None)
      BY <3>1
    <3>3. Cardinality(AtIp(a.ip)) <= PageSize => S = AtIp(a.ip)
      BY FullPage, FiniteSearch
    <3>4. \A A \in Places : n.idx[A] =
            IF A \in S /\ Indexable(A) THEN solr[A] ELSE pmap[c].idx[A]
      BY <1>2, PageFacts, LoadsFacts DEF TypeOK
    <3>5. CASE \E A \in GetIndex(n.idx, a) : AnswerRecord(c, a, n, A)
      BY <3>5 DEF AnswerRecord, Answer, NoFalseNotFound
    <3>6. CASE Hits(n.idx, a) = {} /\ Answer(c, a, "notfound", None)
      <4>1. Cardinality(AtIp(a.ip)) <= PageSize => Hits(solr, a) = {}
        <5>1. SUFFICES ASSUME S = AtIp(a.ip), NEW A \in Hits(solr, a)
                       PROVE  A \in Hits(n.idx, a)
          BY <3>3, <3>6
        <5>2. A \in S /\ A \in Places /\ Covers(A, a.port)
          BY <5>1 DEF Hits, AtIp
        <5>3. Indexable(A)
          <6>1. A.lport \in Int /\ A.rport \in Int /\ a.port \in Int
            BY <5>2, PlaceFacts, PlacesAssumption DEF Address
          <6> QED
            BY <5>2, <6>1 DEF Covers, Indexable
        <5> QED
          BY <3>4, <5>2, <5>3 DEF Hits
      <4>2. reply'.ask = a /\ a \notin Pids /\ solr' = solr
        BY <2>1, <3>6, CacheAssumption DEF Answer, LookupReload
      <4>3. AtIp(a.ip)' = AtIp(a.ip)
        BY <4>2 DEF AtIp
      <4>4. ~ForPid' /\ reply'.ask.ip = a.ip
        BY <4>2 DEF ForPid
      <4> QED
        BY <4>1, <4>2, <4>3, <4>4 DEF NoFalseNotFound, AtIp
    <3> QED
      BY <3>2, <3>5, <3>6
  <2>2. ASSUME NEW c \in Caches, NEW p \in Pids, SearchUUID(c, p)
        PROVE  NoFalseNotFound'
    <3>1. CASE OfPid(p) = {} /\ Answer(c, p, "notfound", None)
      <4>1. reply'.ask = p /\ p \notin Address /\ solr' = solr
        BY <2>2, <3>1, CacheAssumption DEF Answer, SearchUUID
      <4> QED
        BY <3>1, <4>1 DEF NoFalseNotFound, ForAddress, OfPid
    <3>2. CASE reply' = NoReply \/ Answer(c, p, "error", None)
      BY <3>2 DEF NoReply, Answer, NoFalseNotFound
    <3> QED
      BY <2>2, <3>1, <3>2 DEF SearchUUID
  <2>3. ASSUME NEW c \in Caches
        PROVE  /\ \A i \in Registrations : PutInstance(c, i) => NoFalseNotFound'
               /\ \A i \in Deletions : DelInstance(c, i) => NoFalseNotFound'
               /\ \A a \in Address : LookupHit(c, a) \/ LookupFails(c, a) => NoFalseNotFound'
               /\ \A p \in Pids : GetFromID(c, p) => NoFalseNotFound'
               /\ ReloadUUID(c) => NoFalseNotFound'
    BY DEF PutInstance, DelInstance, LookupHit, LookupFails, GetFromID, ReloadUUID,
           AnswerRecord, Answer, NoFalseNotFound
  <2>4. ASSUME (\E A \in Places : IndexSync(A)) \/ Restart
        PROVE  NoFalseNotFound'
    BY <2>4 DEF IndexSync, Restart, NoReply, NoFalseNotFound
  <2>5. CASE UNCHANGED vars
    BY <1>2, <2>5 DEF vars, NoFalseNotFound, ForAddress, ForPid, OfPid, AtIp
  <2> QED
    BY <1>2, <2>1, <2>2, <2>3, <2>4, <2>5 DEF Next
<1>3. TypeOK /\ NoFalseNotFound /\ [Next]_vars => NoFalseNotFound'
  BY <1>2
<1> QED
  BY <1>1, <1>3, CacheTypes, PTL DEF Spec

(* A lookup by uuid brings in all that is registered at the IP or a page   *)
(* of it, and nothing that others deleted or replaced between its two      *)
(* searches (cache.go:77-105).                                             *)
THEOREM ReloadBringsUpPage ==
  ASSUME IsFiniteSet(Places)
  PROVE  Spec => BringsUpPage
<1> DEFINE Brings(c) ==
       LET ip == pending[c].place.ip
       IN  /\ BroughtUp(c, ip) = AtIp(ip) \/ Cardinality(BroughtUp(c, ip)) >= PageSize
           /\ \A A \in Places : pmap'[c].idx[A] # pmap[c].idx[A] =>
                A \in AtIp(ip) /\ pmap'[c].idx[A] = solr[A]
<1>1. ASSUME TypeOK, NEW c \in Caches, ReloadUUID(c), reply'.status = "ok"
      PROVE  Brings(c)
  <2> DEFINE ip == pending[c].place.ip
  <2>1. PICK S \in Page(AtIp(ip)) :
          \E n \in Loads(pmap[c], solr, S) : pmap' = [pmap EXCEPT ![c] = n]
    BY <1>1 DEF ReloadUUID, Answer
  <2>2. PICK n \in Loads(pmap[c], solr, S) : pmap' = [pmap EXCEPT ![c] = n]
    BY <2>1
  <2>3. S \subseteq AtIp(ip) /\ (S = AtIp(ip) \/ Cardinality(S) = PageSize)
    BY DEF Page
  <2>4. \A A \in Places : n.idx[A] =
          IF A \in S /\ Indexable(A) THEN solr[A] ELSE pmap[c].idx[A]
    BY <1>1, PageFacts, LoadsFacts DEF TypeOK
  <2>5. pmap'[c] = n
    BY <1>1, <2>2 DEF TypeOK
  <2>6. S \subseteq BroughtUp(c, ip) /\ BroughtUp(c, ip) \subseteq AtIp(ip)
    BY <2>3, <2>4, <2>5 DEF BroughtUp, AtIp
  <2>7. /\ IsFiniteSet(BroughtUp(c, ip)) /\ Cardinality(S) <= Cardinality(BroughtUp(c, ip))
        /\ Cardinality(BroughtUp(c, ip)) \in Nat
    BY <2>6, FiniteSearch, FS_Subset, FS_CardinalityType
  <2>8. BroughtUp(c, ip) = AtIp(ip) \/ Cardinality(BroughtUp(c, ip)) >= PageSize
    BY <2>3, <2>6, <2>7
  <2>9. \A A \in Places : pmap'[c].idx[A] # pmap[c].idx[A] =>
          A \in AtIp(ip) /\ pmap'[c].idx[A] = solr[A]
    BY <2>3, <2>4, <2>5
  <2> QED
    BY <2>8, <2>9
<1>2. TypeOK => [\A c \in Caches : ReloadUUID(c) /\ reply'.status = "ok" => Brings(c)]_vars
  BY <1>1
<1> QED
  BY <1>2, CacheTypes, PTL DEF BringsUpPage
=============================================================================
