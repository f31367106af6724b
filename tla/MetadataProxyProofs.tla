------------------------- MODULE MetadataProxyProofs -------------------------
(***************************************************************************)
(* Proofs about MetadataProxy: for any number of requests, workers, calls  *)
(* and instances, with the failures, restarts and late answers of its      *)
(* steps.  The caches bring their own lemmas (InstanceCacheProofs).        *)
(***************************************************************************)
EXTENDS MetadataProxy, InstanceCacheProofs

-----------------------------------------------------------------------------
(* Calls and requests.                                                     *)

Phases == {"auth", "reload", "find", "findReload", "call", "post"}

LEMMA NoneFacts ==
  /\ IaaS # NoAuth /\ IaaS # None /\ NoAuth # None
  /\ IaaS \notin Address \cup Pids /\ NoAuth \notin Address \cup Pids
  /\ IaaS \notin Instance /\ None \notin Instance
  /\ None \notin Places /\ None \notin Pids /\ None \notin Address
  /\ None \notin RequestType
  /\ Pids \cap Address = {}
BY CallsAssumption, PlacesAssumption, CacheAssumption

LEMMA CallFacts ==
  ASSUME NEW call \in Calls
  PROVE  /\ call.op \in Ops
         /\ call.speaker \in Address \cup Pids \cup {IaaS, NoAuth}
         /\ call.place \in Places \cup {None}
         /\ call.pid \in Pids \cup {None}
         /\ call.about \in Address \cup Pids \cup {IaaS, None}
         /\ call.op \in TargetOps => call.pid \in Pids /\ call.about = None
         /\ call.op \in TargetOps /\ call.place = None => call.op = "lazyDelete"
         /\ call.op \notin TargetOps => call.place = None
         /\ call.op = "create" => Cidr[call.pid] = {}
         /\ call.op \in {"create", "createVM"} =>
              /\ call.op \in TargetOps /\ call.place \in Places
              /\ [place |-> call.place, pid |-> call.pid] \in Registrations
         /\ call.op \in {"delete", "deleteVM", "lazyDelete"} /\ call.place # None =>
              [place |-> call.place, pid |-> call.pid] \in Deletions
<1>1. call \in Call
  BY CallsAssumption
<1>2. /\ call.op \in Ops
      /\ call.speaker \in Address \cup Pids \cup {IaaS, NoAuth}
      /\ call.place \in Places \cup {None}
      /\ call.pid \in Pids \cup {None}
      /\ call.about \in Address \cup Pids \cup {IaaS, None}
  BY <1>1 DEF Call
<1>3. /\ call.op \in TargetOps => call.pid \in Pids /\ call.about = None
      /\ call.op \in TargetOps /\ call.place = None => call.op = "lazyDelete"
      /\ call.op \notin TargetOps => call.place = None
      /\ call.op = "create" => Cidr[call.pid] = {}
  BY <1>2, CallsAssumption
<1>4. call.op \in {"create", "createVM"} =>
              /\ call.op \in TargetOps /\ call.place \in Places
              /\ [place |-> call.place, pid |-> call.pid] \in Registrations
  BY <1>2, <1>3, CallsAssumption DEF TargetOps
<1>5. call.op \in {"delete", "deleteVM", "lazyDelete"} /\ call.place # None =>
              [place |-> call.place, pid |-> call.pid] \in Deletions
  BY CallsAssumption
<1> QED
  BY <1>2, <1>3, <1>4, <1>5

LEMMA RequestFacts ==
  ASSUME NEW q \in RequestType
  PROVE  /\ q.phase \in Phases /\ q.worker \in Caches /\ q.call \in Calls
         /\ q.by \in Instance \cup {IaaS, None} /\ q.place \in Places \cup {None}
         /\ q.about \in Instance \cup {None} /\ q.left \in {1, 2}
BY DEF RequestType, Phases

(* A request that goes on: the call and the worker stay, and what is known *)
(* so far.                                                                 *)
Follows(n, q) ==
  /\ n \in RequestType
  /\ n.worker = q.worker /\ n.call = q.call
  /\ n.by = q.by /\ n.place = q.place /\ n.about = q.about

LEMMA SameCall ==
  ASSUME NEW n, NEW q, n.call = q.call
  PROVE  /\ HasTarget(n) = HasTarget(q) /\ Creates(n) = Creates(q) /\ Strict(n) = Strict(q)
         /\ Sought(n) = Sought(q)
         /\ n.place = q.place => Target(n) = Target(q) /\ Aimed(n) = Aimed(q)
BY DEF HasTarget, Creates, Strict, Sought, Target, Aimed

LEMMA InPhaseFacts ==
  ASSUME NEW q \in RequestType, NEW phase \in Phases
  PROVE  Follows(InPhase(q, phase), q) /\ InPhase(q, phase).phase = phase
BY DEF InPhase, RequestType, Phases, Follows

LEMMA SpokenByFacts ==
  ASSUME NEW q \in RequestType, NEW i \in Instance \cup {IaaS, None}
  PROVE  LET n == SpokenBy(q, i) IN
         /\ n \in RequestType
         /\ n.phase = q.phase /\ n.worker = q.worker /\ n.call = q.call
         /\ n.by = i /\ n.place = q.place /\ n.about = q.about
BY DEF SpokenBy, RequestType

LEMMA PlacedAtFacts ==
  ASSUME NEW q \in RequestType, NEW A \in Places
  PROVE  LET n == PlacedAt(q, A) IN
         /\ n \in RequestType
         /\ n.phase = q.phase /\ n.worker = q.worker /\ n.call = q.call
         /\ n.by = q.by /\ n.place = A /\ n.about = q.about
BY DEF PlacedAt, RequestType

LEMMA RegardingFacts ==
  ASSUME NEW q \in RequestType, NEW i \in Instance
  PROVE  LET n == Regarding(q, i) IN
         /\ n \in RequestType
         /\ n.phase = q.phase /\ n.worker = q.worker /\ n.call = q.call
         /\ n.by = q.by /\ n.place = q.place /\ n.about = i
BY DEF Regarding, RequestType

LEMMA OneLessFacts ==
  ASSUME NEW q \in RequestType, q.left > 1
  PROVE  Follows(OneLess(q), q) /\ OneLess(q).phase = q.phase
<1>1. q.left = 2 /\ q.left - 1 = 1
  BY DEF RequestType
<1>2. OneLess(q) = [phase |-> q.phase, worker |-> q.worker, call |-> q.call, by |-> q.by,
                    place |-> q.place, about |-> q.about, left |-> 1]
  BY <1>1 DEF OneLess, RequestType
<1> QED
  BY <1>2 DEF Follows, RequestType

LEMMA NewRequestFacts ==
  ASSUME NEW call \in Calls, NEW c \in Caches, NEW k \in Posts(call.op)
  PROVE  LET n == NewRequest(call, c, k) IN
         /\ n \in RequestType /\ n.phase = "auth" /\ n.worker = c /\ n.call = call
         /\ n.by = None /\ n.place = call.place /\ n.about = None
BY CallFacts DEF NewRequest, RequestType, Posts

(* One slot changes.                                                       *)
LEMMA SlotFacts ==
  ASSUME req \in [Requests -> RequestType \cup {None}], NEW r \in Requests,
         NEW n \in RequestType \cup {None}, req' = [req EXCEPT ![r] = n]
  PROVE  /\ req' \in [Requests -> RequestType \cup {None}]
         /\ req'[r] = n
         /\ \A s \in Requests : s # r => req'[s] = req[s]
OBVIOUS

-----------------------------------------------------------------------------
(* What a handler does before it calls SAFE, whichever step it is: it      *)
(* learns something, and goes on, waits or refuses.                        *)

(* The cache has answered for x.                                           *)
Told(x) ==
  /\ reply'.status = "ok"
  /\ x \in Address \cup Pids
  /\ x \in Pids => reply'.inst.pid = x
  /\ x \in Address => reply'.ask = x

(* q is the request in slot r with what it has just learnt.                *)
Learnt(r, q) ==
  LET o == req[r] IN
  /\ q \in RequestType /\ q.worker = o.worker /\ q.call = o.call
  /\ \/ q.by = o.by /\ q.place = o.place /\ q.about = o.about
     \/ q.by = IaaS /\ q.place = o.place /\ q.about = o.about
     \/ Told(o.call.speaker) /\ q.by = reply'.inst /\ q.place = o.place /\ q.about = o.about
     \/ /\ HasTarget(o) /\ Told(Sought(o)) /\ o.place = None
        /\ q.by = o.by /\ q.place = reply'.inst.place /\ q.about = o.about
     \/ /\ ~HasTarget(o) /\ Told(Sought(o))
        /\ q.by = o.by /\ q.place = o.place /\ q.about = reply'.inst

(* Slot r becomes n: free, or q waiting for an answer, or q at SAFE.       *)
Goes(r, q, n) ==
  /\ req' = [req EXCEPT ![r] = n]
  /\ \/ n = None /\ UNCHANGED <<contested, granted>>
     \/ /\ Follows(n, q) /\ WellFormed(n) /\ n.phase = "find"
        /\ UNCHANGED <<contested, granted>>
     \/ /\ Follows(n, q) /\ WellFormed(n) /\ n.phase \in {"reload", "findReload"}
        /\ pending[q.worker] = None
        /\ pending'[q.worker] # None /\ pending'[q.worker].pid = Awaited(n)
        /\ UNCHANGED <<contested, granted>>
     \/ /\ Follows(n, q) /\ WellFormed(n) /\ n.phase = "call"
        /\ HasTarget(q) => Authorised(q)
        /\ contested' = contested \cup ({q.place} \cap Busy)
        /\ granted' = granted \cup {i \in {Target(q)} : Creates(q) /\ q.by = IaaS}

(* A request that may go on.                                               *)
Ready(q) ==
  /\ q \in RequestType
  /\ HasTarget(q) => Aimed(q) /\ q.by # None
  /\ ~HasTarget(q) => q.place = None

LEMMA SendGoes ==
  ASSUME NEW r \in Requests, NEW q, Ready(q), HasTarget(q) => Authorised(q) /\ q.place # None,
         Send(r, q)
  PROVE  \E n : Goes(r, q, n)
<1> DEFINE n == InPhase(q, "call")
<1>1. Follows(n, q) /\ n.phase = "call"
  BY InPhaseFacts DEF Ready, Phases
<1>2. WellFormed(n)
  BY <1>1, SameCall DEF WellFormed, Ready, Follows
<1>3. req' = [req EXCEPT ![r] = n]
  BY DEF Send, GoOn
<1> HIDE DEF n
<1> QED
  BY <1>1, <1>2, <1>3 DEF Goes, Send, Contest

LEMMA ProceedGoes ==
  ASSUME NEW r \in Requests, NEW q, Ready(q), Proceed(r, q)
  PROVE  \E n : Goes(r, q, n)
<1>1. CASE Unresolved(q) /\ Wait(r, q, "find")
  <2> DEFINE n == InPhase(q, "find")
  <2>1. Follows(n, q) /\ n.phase = "find"
    BY InPhaseFacts DEF Ready, Phases
  <2>2. WellFormed(n)
    BY <1>1, <2>1, SameCall DEF WellFormed, Ready, Follows, Unresolved
  <2>3. req' = [req EXCEPT ![r] = n] /\ UNCHANGED <<contested, granted>>
    BY <1>1 DEF Wait, GoOn
  <2> HIDE DEF n
  <2> QED
    BY <2>1, <2>2, <2>3 DEF Goes
<1>2. CASE ~Unresolved(q) /\ MayPass(q) /\ Send(r, q)
  <2>1. HasTarget(q) => Authorised(q) /\ q.place # None
    BY <1>2 DEF Unresolved, MayPass
  <2> QED
    BY <1>2, <2>1, SendGoes
<1>3. CASE Refuse(r)
  BY <1>3 DEF Refuse, Reply, Goes
<1> QED
  BY <1>1, <1>2, <1>3 DEF Proceed

LEMMA UnknowingGoes ==
  ASSUME NEW r \in Requests, NEW q \in RequestType, WellFormed(q), Unknowing(r, q)
  PROVE  \E n : Goes(r, q, n)
<1>1. CASE Strict(q)
  BY <1>1 DEF Unknowing, Refuse, Reply, Goes
<1>2. CASE ~Strict(q)
  <2>1. ~HasTarget(q)
    BY <1>2 DEF Strict, HasTarget, TargetOps
  <2> QED
    BY <1>2, <2>1, ProceedGoes DEF Unknowing, Ready, WellFormed
<1> QED
  BY <1>1, <1>2

(* The caches, as far as a handler depends on them.                        *)
LEMMA AsksFacts ==
  ASSUME TypeOK, NEW c \in Caches, NEW x, Asks(c, x)
  PROVE  /\ Looks(c) /\ pending[c] = None
         /\ x \in Address \cup Pids
         /\ reply'.status = "ok" => Told(x)
         /\ pending'[c] # None => x \in Pids /\ pending'[c].pid = x
<1>1. ASSUME x \in Address, LookupHit(c, x) \/ LookupReload(c, x) \/ LookupFails(c, x)
      PROVE  /\ Looks(c) /\ pending[c] = None /\ pending'[c] = None
             /\ reply'.status = "ok" => Told(x)
  <2>1. reply'.ask = x
    BY <1>1 DEF LookupHit, LookupReload, LookupFails, AnswerRecord, Answer
  <2>2. pending[c] = None /\ pending'[c] = None
    BY <1>1 DEF LookupHit, LookupReload, LookupFails, Unlocked
  <2>3. Looks(c)
    BY <1>1 DEF Looks
  <2> QED
    BY <1>1, <2>1, <2>2, <2>3, NoneFacts DEF Told
<1>2. ASSUME x \in Pids, GetFromID(c, x)
      PROVE  /\ Looks(c) /\ pending[c] = None /\ pending'[c] = None
             /\ reply'.status = "ok" => Told(x)
  <2>1. reply'.inst.pid = x
    BY <1>2 DEF GetFromID, Answer
  <2>2. pending[c] = None /\ pending'[c] = None
    BY <1>2 DEF GetFromID, Unlocked
  <2>3. Looks(c)
    BY <1>2 DEF Looks
  <2> QED
    BY <1>2, <2>1, <2>2, <2>3, NoneFacts DEF Told
<1>3. ASSUME x \in Pids, SearchUUID(c, x)
      PROVE  /\ Looks(c) /\ pending[c] = None
             /\ reply'.status # "ok"
             /\ pending'[c] # None => pending'[c].pid = x
  <2>1. reply'.status # "ok"
    BY <1>3 DEF SearchUUID, Answer, NoReply
  <2>2. pending[c] = None /\ (pending'[c] # None => pending'[c].pid = x)
    BY <1>3 DEF SearchUUID, Unlocked, TypeOK
  <2>3. Looks(c)
    BY <1>3 DEF Looks
  <2> QED
    BY <2>1, <2>2, <2>3
<1> QED
  BY <1>1, <1>2, <1>3 DEF Asks

LEMMA ReloadFacts ==
  ASSUME TypeOK, NEW c \in Caches, ReloadUUID(c), pending[c].pid \in Pids
  PROVE  /\ Looks(c)
         /\ reply'.status = "ok" => Told(pending[c].pid)
<1>1. Looks(c)
  BY DEF Looks
<1>2. reply'.status = "ok" => reply'.inst = pending[c]
  BY DEF ReloadUUID, Answer
<1> QED
  BY <1>1, <1>2, NoneFacts DEF Told

(* The six steps before the call.                                          *)
Hears(r) ==
  \/ AuthIaaS(r) \/ AuthUnnamed(r)
  \/ Authenticate(r) \/ Authenticated(r)
  \/ FindTarget(r) \/ TargetFound(r)

LEMMA WaitGoes ==
  ASSUME NEW r \in Requests, NEW q \in RequestType, WellFormed(q),
         NEW phase \in {"reload", "findReload"}, Wait(r, q, phase),
         pending[q.worker] = None, pending'[q.worker] # None,
         pending'[q.worker].pid = IF phase = "reload" THEN q.call.speaker ELSE Sought(q),
         phase = "findReload" => q.phase = "find"
  PROVE  \E n : Goes(r, q, n)
<1> DEFINE n == InPhase(q, phase)
<1>1. Follows(n, q) /\ n.phase = phase
  BY InPhaseFacts DEF Phases
<1>2. Sought(n) = Sought(q) /\ n.call = q.call
  BY <1>1, SameCall DEF Follows
<1>3. Awaited(n) = IF phase = "reload" THEN q.call.speaker ELSE Sought(q)
  BY <1>1, <1>2 DEF Awaited
<1>4. WellFormed(n)
  BY <1>1, SameCall DEF WellFormed, Follows
<1>5. req' = [req EXCEPT ![r] = n] /\ UNCHANGED <<contested, granted>>
  BY DEF Wait, GoOn
<1> HIDE DEF n
<1> QED
  BY <1>1, <1>3, <1>4, <1>5 DEF Goes

LEMMA HeardGoes ==
  ASSUME NEW r \in Requests, req[r] \in RequestType, WellFormed(req[r]), Heard(r),
         reply'.status = "ok" => Told(req[r].call.speaker) /\ reply'.inst \in Instance
  PROVE  \E q, n : Learnt(r, q) /\ Goes(r, q, n)
<1>1. CASE reply'.status = "ok"
  <2> DEFINE q == SpokenBy(req[r], reply'.inst)
  <2>1. /\ q \in RequestType /\ q.worker = req[r].worker /\ q.call = req[r].call
        /\ q.by = reply'.inst /\ q.place = req[r].place /\ q.about = req[r].about
    BY <1>1, SpokenByFacts
  <2>2. Proceed(r, q)
    BY <1>1 DEF Heard
  <2> HIDE DEF q
  <2>3. Ready(q)
    BY <1>1, <2>1, SameCall, NoneFacts DEF Ready, WellFormed
  <2>4. Learnt(r, q)
    BY <1>1, <2>1 DEF Learnt
  <2> QED
    BY <2>2, <2>3, <2>4, ProceedGoes
<1>2. CASE reply'.status # "ok"
  <2>1. Learnt(r, req[r])
    BY DEF Learnt
  <2> QED
    BY <1>2, <2>1, UnknowingGoes DEF Heard
<1> QED
  BY <1>1, <1>2

LEMMA FoundGoes ==
  ASSUME NEW r \in Requests, req[r] \in RequestType, WellFormed(req[r]), Found(r),
         req[r].phase \in {"find", "findReload"},
         reply'.status = "ok" => Told(Sought(req[r])) /\ reply'.inst \in Registrations
  PROVE  \E q, n : Learnt(r, q) /\ Goes(r, q, n)
<1>1. CASE reply'.status = "ok" /\ HasTarget(req[r])
  <2> DEFINE q == PlacedAt(req[r], reply'.inst.place)
  <2>0. reply'.inst \in Instance /\ reply'.inst.place \in Places
    BY <1>1, PlaceFacts
  <2>1. /\ q \in RequestType /\ q.worker = req[r].worker /\ q.call = req[r].call
        /\ q.by = req[r].by /\ q.place = reply'.inst.place /\ q.about = req[r].about
    BY <2>0, PlacedAtFacts
  <2>2. Proceed(r, q)
    BY <1>1 DEF Found
  <2> HIDE DEF q
  <2>3. HasTarget(q) /\ Sought(req[r]) = q.call.pid /\ q.call.pid \in Pids
    BY <1>1, <2>1, SameCall, CallFacts, RequestFacts DEF HasTarget, Sought
  <2>4. req[r].place = None /\ req[r].call.place = None /\ req[r].by # None
    BY <1>1 DEF WellFormed, Aimed
  <2>5. reply'.inst.pid = q.call.pid
    BY <1>1, <2>3 DEF Told
  <2>6. Target(q) = reply'.inst
    BY <2>0, <2>1, <2>5 DEF Target, Instance
  <2>7. Ready(q)
    BY <1>1, <2>1, <2>3, <2>4, <2>6 DEF Ready, Aimed
  <2>8. Learnt(r, q)
    BY <1>1, <2>1, <2>4 DEF Learnt
  <2> QED
    BY <2>2, <2>7, <2>8, ProceedGoes
<1>2. CASE reply'.status = "ok" /\ ~HasTarget(req[r])
  <2> DEFINE q == Regarding(req[r], reply'.inst)
  <2>1. /\ q \in RequestType /\ q.worker = req[r].worker /\ q.call = req[r].call
        /\ q.by = req[r].by /\ q.place = req[r].place /\ q.about = reply'.inst
    BY <1>2, PlaceFacts, RegardingFacts
  <2>2. Proceed(r, q)
    BY <1>2 DEF Found
  <2> HIDE DEF q
  <2>3. ~HasTarget(q)
    BY <1>2, <2>1, SameCall
  <2>4. Ready(q)
    BY <1>2, <2>1, <2>3 DEF Ready, WellFormed
  <2>5. Learnt(r, q)
    BY <1>2, <2>1 DEF Learnt
  <2> QED
    BY <2>2, <2>4, <2>5, ProceedGoes
<1>3. CASE reply'.status # "ok"
  <2>1. Learnt(r, req[r])
    BY DEF Learnt
  <2>2. CASE Refuse(r)
    <3>1. Goes(r, req[r], None)
      BY <2>2 DEF Refuse, Reply, Goes
    <3> QED
      BY <2>1, <3>1
  <2>3. CASE req[r].call.op = "check" /\ Send(r, req[r])
    <3>1. ~HasTarget(req[r])
      BY <2>3 DEF HasTarget, TargetOps
    <3> QED
      BY <2>1, <2>3, <3>1, SendGoes DEF Ready, WellFormed
  <2> QED
    BY <1>3, <2>2, <2>3 DEF Found
<1> QED
  BY <1>1, <1>2, <1>3

(* What all six have in common.                                            *)
LEMMA HearsGoes ==
  ASSUME RequestInv, NEW r \in Requests, Hears(r)
  PROVE  /\ req[r] \in RequestType /\ WellFormed(req[r])
         /\ \E q, n : Learnt(r, q) /\ Goes(r, q, n)
         /\ \/ NoCache
            \/ Looks(req[r].worker) /\ (pending[req[r].worker] = None \/ Waits(r))
         /\ UNCHANGED <<safe, adrift, vouched>>
<1> DEFINE w == req[r].worker
<1>1. req[r] # None
  BY DEF Hears, AuthIaaS, AuthUnnamed, Authenticate, Authenticated, FindTarget, TargetFound, At
<1>2. req[r] \in RequestType /\ WellFormed(req[r]) /\ TypeOK /\ Stocked(Registrations)
  BY <1>1 DEF RequestInv, ProxyTypeOK
<1>3. w \in Caches /\ req[r].call \in Calls
  BY <1>2, RequestFacts
<1>4. UNCHANGED <<safe, adrift, vouched>>
  BY DEF Hears, AuthIaaS, AuthUnnamed, Authenticate, Authenticated, FindTarget, TargetFound
<1>5. ASSUME Looks(w), reply'.status = "ok"
      PROVE  reply'.inst \in Registrations /\ reply'.inst \in Instance
  BY <1>2, <1>3, <1>5, LooksStocked, PlaceFacts
<1> HIDE DEF w
<1> DEFINE Goal == /\ \E q, n : Learnt(r, q) /\ Goes(r, q, n)
                   /\ NoCache \/ (Looks(w) /\ (pending[w] = None \/ Waits(r)))
<1>6. ASSUME AuthIaaS(r) PROVE Goal
  <2> DEFINE q == SpokenBy(req[r], IaaS)
  <2>1. /\ q \in RequestType /\ q.worker = req[r].worker /\ q.call = req[r].call
        /\ q.by = IaaS /\ q.place = req[r].place /\ q.about = req[r].about
    BY <1>2, SpokenByFacts
  <2>2. Proceed(r, q) /\ NoCache
    BY <1>6 DEF AuthIaaS
  <2> HIDE DEF q
  <2>3. Ready(q)
    BY <1>2, <2>1, SameCall, NoneFacts DEF Ready, WellFormed
  <2>4. Learnt(r, q)
    BY <2>1 DEF Learnt
  <2> QED
    BY <2>2, <2>3, <2>4, ProceedGoes
<1>7. ASSUME AuthUnnamed(r) PROVE Goal
  <2>1. Learnt(r, req[r])
    BY <1>2 DEF Learnt
  <2> QED
    BY <1>2, <1>7, <2>1, UnknowingGoes DEF AuthUnnamed
<1>8. ASSUME Authenticate(r) PROVE Goal
  <2>1. Asks(w, req[r].call.speaker)
    BY <1>8 DEF Authenticate, w
  <2>2. /\ Looks(w) /\ pending[w] = None
        /\ reply'.status = "ok" => Told(req[r].call.speaker)
        /\ pending'[w] # None => pending'[w].pid = req[r].call.speaker
    BY <1>2, <1>3, <2>1, AsksFacts
  <2>3. CASE pending'[w] = None
    <3>1. Heard(r)
      BY <1>8, <2>3 DEF Authenticate, w
    <3> QED
      BY <1>2, <1>5, <2>2, <3>1, HeardGoes
  <2>4. CASE pending'[w] # None
    <3>1. Wait(r, req[r], "reload") /\ w = req[r].worker
      BY <1>8, <2>4 DEF Authenticate, w
    <3>2. \E n : Goes(r, req[r], n)
      BY <1>2, <2>2, <2>4, <3>1, WaitGoes
    <3>3. Learnt(r, req[r])
      BY <1>2 DEF Learnt
    <3> QED
      BY <2>2, <3>2, <3>3
  <2> QED
    BY <2>3, <2>4
<1>9. ASSUME Authenticated(r) PROVE Goal
  <2>1. ReloadUUID(w) /\ Heard(r) /\ Waits(r) /\ req[r].phase = "reload"
    BY <1>9 DEF Authenticated, Waits, At, w
  <2>2. pending[w] # None /\ pending[w].pid = req[r].call.speaker
    BY <2>1 DEF RequestInv, WaitsAlone, Awaited, w
  <2>3. pending[w].pid \in Pids
    BY <1>2, <1>3, <2>2, PlaceFacts DEF TypeOK
  <2>4. Looks(w) /\ (reply'.status = "ok" => Told(req[r].call.speaker))
    BY <1>2, <1>3, <2>1, <2>2, <2>3, ReloadFacts
  <2> QED
    BY <1>2, <1>5, <2>1, <2>4, HeardGoes
<1>10. ASSUME FindTarget(r) PROVE Goal
  <2>1. Asks(w, Sought(req[r])) /\ req[r].phase = "find"
    BY <1>10 DEF FindTarget, At, w
  <2>2. /\ Looks(w) /\ pending[w] = None
        /\ reply'.status = "ok" => Told(Sought(req[r]))
        /\ pending'[w] # None => pending'[w].pid = Sought(req[r])
    BY <1>2, <1>3, <2>1, AsksFacts
  <2>3. CASE pending'[w] = None
    <3>1. Found(r)
      BY <1>10, <2>3 DEF FindTarget, w
    <3> QED
      BY <1>2, <1>5, <2>1, <2>2, <3>1, FoundGoes
  <2>4. CASE pending'[w] # None
    <3>1. Wait(r, req[r], "findReload") /\ w = req[r].worker
      BY <1>10, <2>4 DEF FindTarget, w
    <3>2. \E n : Goes(r, req[r], n)
      BY <1>2, <2>1, <2>2, <2>4, <3>1, WaitGoes
    <3>3. Learnt(r, req[r])
      BY <1>2 DEF Learnt
    <3> QED
      BY <2>2, <3>2, <3>3
  <2> QED
    BY <2>3, <2>4
<1>11. ASSUME TargetFound(r) PROVE Goal
  <2>1. ReloadUUID(w) /\ Found(r) /\ Waits(r) /\ req[r].phase = "findReload"
    BY <1>11 DEF TargetFound, Waits, At, w
  <2>2. pending[w] # None /\ pending[w].pid = Sought(req[r])
    BY <2>1 DEF RequestInv, WaitsAlone, Awaited, w
  <2>3. pending[w].pid \in Pids
    BY <1>2, <1>3, <2>2, PlaceFacts DEF TypeOK
  <2>4. Looks(w) /\ (reply'.status = "ok" => Told(Sought(req[r])))
    BY <1>2, <1>3, <2>1, <2>2, <2>3, ReloadFacts
  <2> QED
    BY <1>2, <1>5, <2>1, <2>4, FoundGoes
<1> QED
  BY <1>2, <1>4, <1>6, <1>7, <1>8, <1>9, <1>10, <1>11 DEF Hears, w

-----------------------------------------------------------------------------
(* Every request is well-formed, every reload has one request waiting.     *)

LEMMA CreatesTarget ==
  ASSUME NEW q \in RequestType, HasTarget(q) => Aimed(q), Creates(q)
  PROVE  /\ HasTarget(q) /\ q.place \in Places /\ q.call.pid \in Pids
         /\ Target(q) \in Registrations
<1>1. q.call \in Calls
  BY RequestFacts
<1>2. HasTarget(q) /\ q.call.place \in Places /\ q.call.pid \in Pids
      /\ [place |-> q.call.place, pid |-> q.call.pid] \in Registrations
  BY <1>1, CallFacts DEF Creates, HasTarget
<1>3. q.place = q.call.place
  BY <1>2, NoneFacts DEF Aimed
<1> QED
  BY <1>2, <1>3 DEF Target

(* What an acting request acts on.                                         *)
LEMMA ActingFacts ==
  ASSUME RequestInv, NEW r \in Requests, At(r, "call") \/ At(r, "post"), HasTarget(req[r])
  PROVE  /\ req[r] \in RequestType /\ WellFormed(req[r])
         /\ r \in Acting /\ req[r].place \in Busy
         /\ req[r].place \in Places /\ Target(req[r]) \in Instance
<1>1. req[r] \in RequestType /\ WellFormed(req[r])
  BY DEF RequestInv, ProxyTypeOK, At
<1>2. req[r].place \in Places /\ req[r].call \in Calls
  BY <1>1, RequestFacts DEF WellFormed, At
<1>3. req[r].call.pid \in Pids
  BY <1>2, CallFacts DEF HasTarget
<1>4. r \in Acting
  BY DEF Acting
<1>5. req[r].place \in Busy
  BY <1>4 DEF Busy
<1>6. Target(req[r]) \in Instance
  BY <1>2, <1>3 DEF Target, Instance
<1> QED
  BY <1>1, <1>2, <1>4, <1>5, <1>6

LEMMA BusyPlaces == RequestInv => Busy \subseteq Places
<1> SUFFICES ASSUME RequestInv, NEW r \in Acting PROVE req[r].place \in Places
  BY DEF Busy
<1>1. r \in Requests /\ (At(r, "call") \/ At(r, "post")) /\ HasTarget(req[r])
  BY DEF Acting
<1> QED
  BY <1>1, ActingFacts

LEMMA NoCacheStocked ==
  ASSUME TypeOK, NEW S, Stocked(S), NoCache
  PROVE  TypeOK' /\ Stocked(S)' /\ UNCHANGED pending
<1>1. reply' \in ReplyType
  BY DEF NoCache, NoReply, ReplyType
<1>2. TypeOK'
  BY <1>1 DEF NoCache, TypeOK
<1>3. Stocked(S)'
  BY DEF NoCache, Stocked, StoreHolds, Holds
<1> QED
  BY <1>2, <1>3 DEF NoCache

(* One slot changes and the rest of the proxy keeps its types.             *)
LEMMA SlotInv ==
  ASSUME RequestInv, TypeOK', Stocked(Registrations)',
         NEW r \in Requests, NEW n \in RequestType \cup {None},
         req' = [req EXCEPT ![r] = n],
         n # None => WellFormed(n),
         \A s \in Requests \ {r} : Waits(s) =>
           pending'[req[s].worker] = pending[req[s].worker],
         n # None /\ n.phase \in {"reload", "findReload"} =>
           /\ pending'[n.worker] # None /\ pending'[n.worker].pid = Awaited(n)
           /\ \A s \in Requests \ {r} : Waits(s) => req[s].worker # n.worker,
         safe' \subseteq Registrations, granted' \subseteq Registrations,
         vouched' \subseteq Registrations, contested' \subseteq Places,
         adrift' \subseteq RequestType, \A q \in adrift' : HasTarget(q) /\ Aimed(q)
  PROVE  RequestInv'
<1>1. req \in [Requests -> RequestType \cup {None}]
  BY DEF RequestInv, ProxyTypeOK
<1>2. /\ req' \in [Requests -> RequestType \cup {None}]
      /\ req'[r] = n
      /\ \A s \in Requests : s # r => req'[s] = req[s]
  BY <1>1, SlotFacts
<1>3. ProxyTypeOK'
  BY <1>2 DEF ProxyTypeOK
<1>4. \A s \in Requests : req'[s] # None => WellFormed(req'[s])
  BY <1>2 DEF RequestInv
<1>5. /\ Waits(r)' <=> (n # None /\ n.phase \in {"reload", "findReload"})
      /\ \A s \in Requests \ {r} : Waits(s)' <=> Waits(s)
  BY <1>2 DEF Waits, At
<1>6. WaitsAlone'
  <2>1. ASSUME NEW s \in Requests, Waits(s)', s # r
        PROVE  /\ pending'[req'[s].worker] # None
               /\ pending'[req'[s].worker].pid = Awaited(req'[s])
               /\ \A t \in Requests \ {s} : Waits(t)' => req'[t].worker # req'[s].worker
    <3>1. Waits(s) /\ req'[s] = req[s]
      BY <1>2, <1>5, <2>1
    <3>2. /\ pending[req[s].worker] # None /\ pending[req[s].worker].pid = Awaited(req[s])
          /\ \A t \in Requests \ {s} : Waits(t) => req[t].worker # req[s].worker
      BY <3>1 DEF RequestInv, WaitsAlone
    <3>3. \A t \in Requests \ {s} : Waits(t)' => req'[t].worker # req'[s].worker
      BY <1>2, <1>5, <2>1, <3>1, <3>2
    <3> QED
      BY <2>1, <3>1, <3>2, <3>3
  <2>2. ASSUME Waits(r)'
        PROVE  /\ pending'[req'[r].worker] # None
               /\ pending'[req'[r].worker].pid = Awaited(req'[r])
               /\ \A t \in Requests \ {r} : Waits(t)' => req'[t].worker # req'[r].worker
    BY <1>2, <1>5, <2>2
  <2> QED
    BY <2>1, <2>2 DEF WaitsAlone
<1> QED
  BY <1>3, <1>4, <1>6 DEF RequestInv

(* No cache is used, and the slot does not begin to wait.                  *)
LEMMA QuietSlotInv ==
  ASSUME RequestInv, NoCache, NEW r \in Requests, NEW n \in RequestType \cup {None},
         req' = [req EXCEPT ![r] = n],
         n # None => WellFormed(n) /\ n.phase \notin {"reload", "findReload"},
         safe' \subseteq Registrations, granted' \subseteq Registrations,
         vouched' \subseteq Registrations, contested' \subseteq Places,
         adrift' \subseteq RequestType, \A q \in adrift' : HasTarget(q) /\ Aimed(q)
  PROVE  RequestInv'
<1>1. TypeOK' /\ Stocked(Registrations)' /\ UNCHANGED pending
  BY NoCacheStocked DEF RequestInv, ProxyTypeOK
<1> QED
  BY <1>1, SlotInv

(* What the step before the call records.                                  *)
LEMMA GoesRecords ==
  ASSUME RequestInv, NEW r \in Requests, NEW q, NEW n, Learnt(r, q), Goes(r, q, n)
  PROVE  /\ n \in RequestType \cup {None}
         /\ n # None => WellFormed(n) /\ n.worker = req[r].worker
         /\ contested' \subseteq Places /\ granted' \subseteq Registrations
<1>1. contested \subseteq Places /\ granted \subseteq Registrations
  BY DEF RequestInv, ProxyTypeOK
<1>2. CASE n = None /\ UNCHANGED <<contested, granted>>
  BY <1>1, <1>2
<1>3. CASE Follows(n, q) /\ WellFormed(n) /\ UNCHANGED <<contested, granted>>
  BY <1>1, <1>3 DEF Follows, Learnt
<1>4. CASE /\ Follows(n, q) /\ WellFormed(n)
           /\ contested' = contested \cup ({q.place} \cap Busy)
           /\ granted' = granted \cup {i \in {Target(q)} : Creates(q) /\ q.by = IaaS}
  <2>1. /\ n \in RequestType /\ WellFormed(n) /\ n.call = q.call /\ n.place = q.place
        /\ n.worker = q.worker
    BY <1>4 DEF Follows
  <2>2. Creates(q) => Target(q) \in Registrations
    BY <2>1, SameCall, CreatesTarget DEF WellFormed
  <2>3. contested' \subseteq Places
    BY <1>1, <1>4, BusyPlaces
  <2>4. granted' \subseteq Registrations
    BY <1>1, <1>4, <2>2
  <2> QED
    BY <2>1, <2>3, <2>4 DEF Learnt
<1> QED
  BY <1>2, <1>3, <1>4 DEF Goes

LEMMA HearsRequestInv ==
  ASSUME RequestInv, NEW r \in Requests, Hears(r)
  PROVE  RequestInv'
<1> DEFINE w == req[r].worker
<1>1. /\ req[r] \in RequestType
      /\ NoCache \/ (Looks(w) /\ (pending[w] = None \/ Waits(r)))
      /\ UNCHANGED <<safe, adrift, vouched>>
  BY HearsGoes
<1>2. PICK q, n : Learnt(r, q) /\ Goes(r, q, n)
  BY HearsGoes
<1>3. /\ n \in RequestType \cup {None}
      /\ n # None => WellFormed(n) /\ n.worker = w
      /\ contested' \subseteq Places /\ granted' \subseteq Registrations
  BY <1>2, GoesRecords
<1>4. w \in Caches
  BY <1>1, RequestFacts
<1> HIDE DEF w
<1>5. TypeOK /\ Stocked(Registrations)
  BY DEF RequestInv, ProxyTypeOK
<1>6. TypeOK' /\ Stocked(Registrations)'
  BY <1>1, <1>4, <1>5, NoCacheStocked, LooksStocked
<1>7. ASSUME NEW s \in Requests \ {r}, Waits(s)
      PROVE  /\ req[s].worker \in Caches /\ pending[req[s].worker] # None
             /\ Waits(r) => req[s].worker # w
  <2>1. req[s] \in RequestType
    BY <1>7 DEF RequestInv, ProxyTypeOK, Waits, At
  <2> QED
    BY <1>7, <2>1, RequestFacts DEF RequestInv, WaitsAlone, w
<1>8. \A s \in Requests \ {r} : Waits(s) => pending'[req[s].worker] = pending[req[s].worker]
  <2>1. CASE NoCache
    BY <2>1 DEF NoCache
  <2>2. CASE Looks(w) /\ (pending[w] = None \/ Waits(r))
    <3>1. \A d \in Caches \ {w} : pending'[d] = pending[d]
      BY <1>4, <1>5, <2>2, LooksStocked
    <3> QED
      BY <1>7, <2>2, <3>1
  <2> QED
    BY <1>1, <2>1, <2>2
<1>9. ASSUME n # None, n.phase \in {"reload", "findReload"}
      PROVE  /\ pending'[n.worker] # None /\ pending'[n.worker].pid = Awaited(n)
             /\ \A s \in Requests \ {r} : Waits(s) => req[s].worker # n.worker
  <2>1. /\ pending[q.worker] = None /\ n.worker = q.worker
        /\ pending'[q.worker] # None /\ pending'[q.worker].pid = Awaited(n)
    BY <1>2, <1>9 DEF Goes, Follows
  <2> QED
    BY <1>7, <2>1
<1>10. req' = [req EXCEPT ![r] = n]
  BY <1>2 DEF Goes
<1>11. /\ safe' \subseteq Registrations /\ vouched' \subseteq Registrations
       /\ adrift' \subseteq RequestType /\ \A a \in adrift' : HasTarget(a) /\ Aimed(a)
  BY <1>1 DEF RequestInv, ProxyTypeOK
<1> QED
  BY <1>3, <1>6, <1>8, <1>9, <1>10, <1>11, SlotInv

LEMMA ArriveRequestInv ==
  ASSUME RequestInv, NEW r \in Requests, NEW call \in Calls, NEW c \in Caches,
         Arrive(r, call, c)
  PROVE  RequestInv'
<1> PICK k \in Posts(call.op) : GoOn(r, NewRequest(call, c, k))
  BY DEF Arrive
<1> DEFINE n == NewRequest(call, c, k)
<1>1. /\ n \in RequestType /\ n.phase = "auth" /\ n.call = call
      /\ n.place = call.place /\ n.by = None
  BY NewRequestFacts
<1>2. /\ req' = [req EXCEPT ![r] = n] /\ NoCache
      /\ UNCHANGED <<safe, adrift, granted, contested, vouched>>
  BY DEF Arrive, GoOn
<1> HIDE DEF n
<1>3. WellFormed(n)
  BY <1>1, CallFacts, NoneFacts DEF WellFormed, HasTarget, Aimed
<1> QED
  BY <1>1, <1>2, <1>3, QuietSlotInv DEF RequestInv, ProxyTypeOK

(* The request at SAFE, and what becomes of it.                            *)
LEMMA AtSafeFacts ==
  ASSUME RequestInv, NEW r \in Requests, At(r, "call")
  PROVE  /\ req[r] \in RequestType /\ WellFormed(req[r]) /\ req[r].phase = "call"
         /\ req[r].place \in Places \cup {None} /\ req[r].left \in {1, 2}
         /\ Creates(req[r]) => HasTarget(req[r]) /\ Target(req[r]) \in Registrations
<1>1. req[r] \in RequestType /\ WellFormed(req[r]) /\ req[r].phase = "call"
  BY DEF RequestInv, ProxyTypeOK, At
<1> QED
  BY <1>1, RequestFacts, CreatesTarget DEF WellFormed

(* The request whose call SAFE accepted goes on to its hook.               *)
LEMMA PostFacts ==
  ASSUME RequestInv, NEW r \in Requests, At(r, "call"), HasTarget(req[r])
  PROVE  LET n == SpokenBy(InPhase(req[r], "post"), None) IN
         /\ n \in RequestType /\ n.phase = "post" /\ n.worker = req[r].worker
         /\ n.call = req[r].call /\ n.by = None /\ n.place = req[r].place
         /\ n.about = req[r].about /\ WellFormed(n)
<1> DEFINE m == InPhase(req[r], "post")
<1> DEFINE n == SpokenBy(m, None)
<1>1. req[r] \in RequestType /\ WellFormed(req[r]) /\ req[r].phase = "call"
  BY AtSafeFacts
<1>2. Follows(m, req[r]) /\ m.phase = "post"
  BY <1>1, InPhaseFacts DEF Phases
<1> HIDE DEF m
<1>3. /\ n \in RequestType /\ n.phase = m.phase /\ n.worker = m.worker /\ n.call = m.call
      /\ n.by = None /\ n.place = m.place /\ n.about = m.about
  BY <1>2, SpokenByFacts DEF Follows
<1> HIDE DEF n
<1>4. WellFormed(n)
  BY <1>1, <1>2, <1>3, SameCall DEF WellFormed, Follows
<1>5. /\ n \in RequestType /\ n.phase = "post" /\ n.worker = req[r].worker
      /\ n.call = req[r].call /\ n.by = None /\ n.place = req[r].place
      /\ n.about = req[r].about
  BY <1>2, <1>3 DEF Follows
<1> QED
  BY <1>4, <1>5 DEF n, m

LEMMA SafeAcceptsRequestInv ==
  ASSUME RequestInv, NEW r \in Requests, SafeAccepts(r)
  PROVE  RequestInv'
<1> DEFINE q == req[r]
<1>1. /\ q \in RequestType /\ WellFormed(q) /\ q.phase = "call" /\ q.left \in {1, 2}
      /\ Creates(q) => HasTarget(q) /\ Target(q) \in Registrations
      /\ At(r, "call")
  BY AtSafeFacts DEF SafeAccepts
<1>2. /\ safe' = IF HasTarget(q) THEN Stated(q) ELSE safe
      /\ vouched' = vouched \cup {i \in {Target(q)} : Creates(q)}
      /\ NoCache /\ UNCHANGED <<adrift, granted, contested>>
  BY DEF SafeAccepts
<1>3. /\ safe \subseteq Registrations /\ vouched \subseteq Registrations
      /\ granted \subseteq Registrations /\ contested \subseteq Places
      /\ adrift \subseteq RequestType /\ \A a \in adrift : HasTarget(a) /\ Aimed(a)
  BY DEF RequestInv, ProxyTypeOK
<1>4. safe' \subseteq Registrations /\ vouched' \subseteq Registrations
  BY <1>1, <1>2, <1>3 DEF Stated
<1>5. PICK n \in RequestType \cup {None} :
        /\ req' = [req EXCEPT ![r] = n]
        /\ n # None => WellFormed(n) /\ n.phase \in {"call", "post"}
  <2>1. CASE HasTarget(q) /\ GoOn(r, SpokenBy(InPhase(q, "post"), None))
    BY <1>1, <2>1, PostFacts DEF GoOn
  <2>2. CASE ~HasTarget(q) /\ q.left > 1 /\ GoOn(r, OneLess(q))
    <3> DEFINE n == OneLess(q)
    <3>1. Follows(n, q) /\ n.phase = "call"
      BY <1>1, <2>2, OneLessFacts
    <3>2. req' = [req EXCEPT ![r] = n]
      BY <2>2 DEF GoOn
    <3> HIDE DEF n
    <3>3. WellFormed(n)
      BY <1>1, <2>2, <3>1, SameCall DEF WellFormed, Follows
    <3> QED
      BY <3>1, <3>2, <3>3 DEF Follows
  <2>3. CASE Reply(r)
    BY <2>3 DEF Reply
  <2> QED
    BY <2>1, <2>2, <2>3 DEF SafeAccepts
<1> QED
  BY <1>2, <1>3, <1>4, <1>5, QuietSlotInv

(* What may reach SAFE when nobody waits for it any more.                  *)
LEMMA LateFacts ==
  ASSUME RequestInv, NEW R \in SUBSET Requests, NEW a \in Late(R)
  PROVE  /\ a \in RequestType /\ HasTarget(a) /\ Aimed(a)
         /\ \E r \in R : /\ At(r, "call") /\ HasTarget(req[r]) /\ r \in Acting
                         /\ a.place = req[r].place /\ a.call = req[r].call
<1>1. PICK r \in R : At(r, "call") /\ HasTarget(req[r]) /\ a = SpokenBy(req[r], None)
  BY DEF Late
<1>2. req[r] \in RequestType /\ WellFormed(req[r]) /\ r \in Acting
  BY <1>1, ActingFacts
<1>3. a \in RequestType /\ a.call = req[r].call /\ a.place = req[r].place
  BY <1>1, <1>2, SpokenByFacts
<1>4. HasTarget(a) /\ Aimed(a)
  BY <1>1, <1>2, <1>3, SameCall DEF WellFormed
<1> QED
  BY <1>1, <1>2, <1>3, <1>4

LEMMA TimeoutRequestInv ==
  ASSUME RequestInv, NEW r \in Requests, Timeout(r)
  PROVE  RequestInv'
<1>1. \A a \in adrift' : a \in RequestType /\ HasTarget(a) /\ Aimed(a)
  <2>1. \A a \in Late({r}) : a \in RequestType /\ HasTarget(a) /\ Aimed(a)
    BY LateFacts
  <2> QED
    BY <2>1 DEF Timeout, RequestInv, ProxyTypeOK
<1>2. contested' \subseteq Places
  BY BusyPlaces DEF Timeout, Contest, RequestInv, ProxyTypeOK
<1> QED
  BY <1>1, <1>2, QuietSlotInv DEF Timeout, Reply, RequestInv, ProxyTypeOK

LEMMA SafeRefusesRequestInv ==
  ASSUME RequestInv, NEW r \in Requests, SafeRefuses(r)
  PROVE  RequestInv'
BY QuietSlotInv DEF SafeRefuses, Reply, RequestInv, ProxyTypeOK

LEMMA SafeLateRequestInv ==
  ASSUME RequestInv, NEW q, SafeLate(q)
  PROVE  RequestInv'
<1>1. q \in RequestType /\ HasTarget(q) /\ Aimed(q)
  BY DEF RequestInv, ProxyTypeOK, SafeLate
<1>2. safe' \subseteq Registrations
  BY <1>1, CreatesTarget DEF RequestInv, ProxyTypeOK, SafeLate, Stated
<1>3. TypeOK' /\ Stocked(Registrations)' /\ UNCHANGED pending
  BY NoCacheStocked DEF RequestInv, ProxyTypeOK, SafeLate
<1>4. /\ UNCHANGED <<req, granted, contested, vouched>> /\ adrift' \subseteq adrift
  BY DEF SafeLate
<1>5. ProxyTypeOK'
  BY <1>2, <1>3, <1>4 DEF RequestInv, ProxyTypeOK
<1>6. WaitsAlone'
  BY <1>3, <1>4 DEF RequestInv, WaitsAlone, Waits, At
<1> QED
  BY <1>3, <1>4, <1>5, <1>6 DEF RequestInv

LEMMA PostRequestInv ==
  ASSUME RequestInv, NEW r \in Requests, Post(r)
  PROVE  RequestInv'
<1> DEFINE q == req[r]
<1>1. q \in RequestType /\ WellFormed(q) /\ At(r, "post") /\ q.phase = "post"
  BY DEF Post, RequestInv, ProxyTypeOK, At
<1>2. HasTarget(q) /\ q.worker \in Caches
  BY <1>1, RequestFacts DEF WellFormed
<1>3. Target(q) \in Instance /\ q.place \in Places
  BY <1>1, <1>2, ActingFacts
<1>4. Creates(q) => Target(q) \in Registrations
  BY <1>1, CreatesTarget DEF WellFormed
<1>5. TypeOK /\ Stocked(Registrations)
  BY DEF RequestInv, ProxyTypeOK
<1>6. /\ IF Creates(q) THEN PutInstance(q.worker, Target(q))
                       ELSE DelInstance(q.worker, Target(q))
      /\ req' = [req EXCEPT ![r] = None]
      /\ contested' = contested \cup {A \in {q.place} : reply'.status = "error"}
      /\ UNCHANGED <<safe, adrift, granted, vouched>>
  BY DEF Post, Reply, Contest
<1>7. TypeOK' /\ Stocked(Registrations)'
  BY <1>2, <1>3, <1>4, <1>5, <1>6, PutStocked, DelStocked
<1>8. UNCHANGED pending
  BY <1>6 DEF PutInstance, DelInstance
<1>9. contested' \subseteq Places
  BY <1>3, <1>6 DEF RequestInv, ProxyTypeOK
<1> QED
  BY <1>6, <1>7, <1>8, <1>9, SlotInv DEF RequestInv, ProxyTypeOK

LEMMA SearchSyncRequestInv ==
  ASSUME RequestInv, NEW A \in Places, SearchSync(A)
  PROVE  RequestInv'
<1>1. TypeOK' /\ Stocked(Registrations)'
  BY SyncStocked DEF SearchSync, RequestInv, ProxyTypeOK
<1>2. UNCHANGED <<pending, req, safe, adrift, granted, contested, vouched>>
  BY DEF SearchSync, IndexSync
<1> QED
  BY <1>1, <1>2 DEF RequestInv, ProxyTypeOK, WaitsAlone, Waits, At

LEMMA ProxyRestartRequestInv ==
  ASSUME RequestInv, ProxyRestart
  PROVE  RequestInv'
<1>1. TypeOK' /\ Stocked(Registrations)'
  BY RestartStocked DEF ProxyRestart, RequestInv, ProxyTypeOK
<1>2. /\ req' = [r \in Requests |-> None] /\ adrift' = adrift \cup Late(Requests)
      /\ contested' = contested \cup Busy /\ UNCHANGED <<safe, granted, vouched>>
  BY DEF ProxyRestart, Contest
<1>3. \A a \in adrift' : a \in RequestType /\ HasTarget(a) /\ Aimed(a)
  <2>1. \A a \in Late(Requests) : a \in RequestType /\ HasTarget(a) /\ Aimed(a)
    BY LateFacts
  <2> QED
    BY <1>2, <2>1 DEF RequestInv, ProxyTypeOK
<1>4. ProxyTypeOK'
  BY <1>1, <1>2, <1>3, BusyPlaces DEF RequestInv, ProxyTypeOK
<1>5. WaitsAlone' /\ \A r \in Requests : req'[r] = None
  BY <1>2 DEF WaitsAlone, Waits, At
<1> QED
  BY <1>1, <1>3, <1>4, <1>5 DEF RequestInv

LEMMA NextRequestInv ==
  ASSUME RequestInv, [ProxyNext]_proxyVars
  PROVE  RequestInv'
<1>1. CASE UNCHANGED proxyVars
  BY <1>1 DEF proxyVars, vars, RequestInv, ProxyTypeOK, TypeOK, Stocked, StoreHolds, Holds,
              WaitsAlone, Waits, At
<1>2. ASSUME NEW r \in Requests,
             \/ \E call \in Calls, c \in Caches : Arrive(r, call, c)
             \/ AuthIaaS(r) \/ AuthUnnamed(r) \/ UsesCache(r)
             \/ SafeAccepts(r) \/ SafeRefuses(r) \/ Timeout(r)
      PROVE  RequestInv'
  BY <1>2, ArriveRequestInv, HearsRequestInv, PostRequestInv, SafeAcceptsRequestInv,
     SafeRefusesRequestInv, TimeoutRequestInv DEF UsesCache, Hears
<1>3. ASSUME NEW q \in adrift, SafeLate(q) PROVE RequestInv'
  BY <1>3, SafeLateRequestInv
<1>4. ASSUME NEW A \in Places, SearchSync(A) PROVE RequestInv'
  BY <1>4, SearchSyncRequestInv
<1> QED
  BY <1>1, <1>2, <1>3, <1>4, ProxyRestartRequestInv DEF ProxyNext

LEMMA InitRequestInv ==
  ASSUME ProxyInit
  PROVE  RequestInv
<1>1. TypeOK /\ Stocked(Registrations)
  BY InitStocked DEF ProxyInit
<1> QED
  BY <1>1 DEF ProxyInit, RequestInv, ProxyTypeOK, WaitsAlone, Waits, At

(* Every request under way is well-formed, and of the requests of a worker *)
(* one at most waits for a reload, which is the reload of the pid that it  *)
(* asked for (cache.go:100, newapi.go:112): the answer that ends the wait  *)
(* is an answer to its question.                                           *)
THEOREM RequestsWellFormed == ProxySpec => []RequestInv
<1>1. ProxyInit => RequestInv
  BY InitRequestInv
<1>2. RequestInv /\ [ProxyNext]_proxyVars => RequestInv'
  BY NextRequestInv
<1> QED
  BY <1>1, <1>2, PTL DEF ProxySpec

(* The types of the proxy, its caches, Riak and SAFE: nothing but what     *)
(* callers register is ever granted, confirmed or stated.                  *)
THEOREM ProxyTypes == ProxySpec => []ProxyTypeOK
<1>1. RequestInv => ProxyTypeOK
  BY DEF RequestInv
<1> QED
  BY <1>1, RequestsWellFormed, PTL

-----------------------------------------------------------------------------
(* Every port that is registered was given out by IaaS.                    *)

LEMMA GrantedGrows ==
  ASSUME granted \subseteq granted'
  PROVE  /\ Trusted \subseteq Trusted'
         /\ \A A : GivenOut(A) => GivenOut(A)'
BY DEF Trusted, GivenOut

(* What a speaker controls was given out if what it is itself was          *)
(* (authzControl): ranges contain each other, and a CIDR came from IaaS.   *)
LEMMA ControlIsGivenOut ==
  ASSUME NEW i \in Trusted, NEW A \in Places, MayControl(i, A)
  PROVE  GivenOut(A)
<1>1. i \in Instance /\ i.place \in Places /\ i # IaaS
  BY PlaceFacts, CallsAssumption, NoneFacts DEF Trusted
<1>2. GivenOut(i.place)
  BY DEF Trusted
<1>3. ASSUME i.place.ip = A.ip, i.place.lport <= A.lport, A.rport <= i.place.rport
      PROVE  GivenOut(A)
  <2>1. ASSUME NEW n \in Ports, Covers(A, n)
        PROVE  Covers(i.place, n)
    <3>1. /\ A.lport \in Int /\ A.rport \in Int /\ i.place.lport \in Int /\ i.place.rport \in Int
          /\ n \in Int
      BY <1>1, PlaceFacts, PlacesAssumption
    <3>2. A.lport <= n /\ n <= A.rport
      BY <2>1 DEF Covers
    <3>3. i.place.lport <= n /\ n <= i.place.rport
      BY <1>3, <3>1, <3>2
    <3> QED
      BY <3>3 DEF Covers
  <2> QED
    BY <1>2, <1>3, <2>1 DEF GivenOut
<1>4. ASSUME A.ip \in Cidr[i.pid]
      PROVE  GivenOut(A)
  <2>1. PICK g \in granted : g.pid = i.pid
    BY <1>4 DEF Trusted
  <2> QED
    BY <1>4, <2>1 DEF GivenOut
<1> QED
  BY <1>1, <1>3, <1>4 DEF MayControl

(* A request that may act: what it creates was given out.                  *)
LEMMA AuthorisedIsTrusted ==
  ASSUME RequestInv, NEW q \in RequestType, WellFormed(q), q.phase = "call",
         Creates(q), Authorised(q), q.by \in Instance => q.by \in Trusted,
         granted \subseteq granted', q.by = IaaS => Target(q) \in granted'
  PROVE  Target(q) \in Trusted'
<1>1. /\ HasTarget(q) /\ q.place \in Places /\ q.call.pid \in Pids
      /\ Target(q) \in Registrations /\ q.by # None
  BY CreatesTarget DEF WellFormed
<1>2. /\ Target(q) \in Instance /\ Target(q).place = q.place /\ Target(q).pid = q.call.pid
  BY <1>1, PlaceFacts DEF Target
<1>3. CASE q.by = IaaS
  <2>1. Target(q) \in granted'
    BY <1>3
  <2>2. GivenOut(q.place)'
    BY <1>2, <2>1 DEF GivenOut
  <2> QED
    BY <1>2, <2>1, <2>2 DEF Trusted
<1>4. CASE q.by # IaaS
  <2>1. q.by \in Trusted /\ MayControl(q.by, q.place)
    BY <1>1, <1>4, RequestFacts DEF Authorised
  <2>2. GivenOut(q.place)'
    BY <1>1, <2>1, ControlIsGivenOut, GrantedGrows
  <2>3. q.call \in Calls /\ q.call.op = "create"
    BY <1>4, RequestFacts DEF Creates, Authorised
  <2>4. Cidr[q.call.pid] = {}
    BY <2>3, CallFacts
  <2> QED
    BY <1>2, <2>2, <2>4 DEF Trusted
<1> QED
  BY <1>3, <1>4

(* A request speaks, and acts, only for instances in T.                    *)
RootedReq(n, T) ==
  /\ n.by \in Instance => n.by \in T
  /\ n.phase \in {"call", "post"} /\ Creates(n) => Target(n) \in T

LEMMA RootedReqs ==
  RootedInv <=> /\ Stocked(Trusted) /\ safe \subseteq Trusted
                /\ \A q \in adrift : Creates(q) => Target(q) \in Trusted
                /\ \A r \in Requests : req[r] # None => RootedReq(req[r], Trusted)
BY DEF RootedInv, RootedReq, At

LEMMA StockGrows ==
  ASSUME NEW S, Stocked(S)', S \subseteq Trusted'
  PROVE  Stocked(Trusted)'
BY DEF Stocked, StoreHolds, Holds

LEMMA SlotRooted ==
  ASSUME RequestInv, RootedInv, granted \subseteq granted',
         NEW r \in Requests, NEW n \in RequestType \cup {None},
         req' = [req EXCEPT ![r] = n], n # None => RootedReq(n, Trusted'),
         NEW S, S = Trusted, Stocked(S)', safe' \subseteq Trusted',
         \A q \in adrift' : Creates(q) => Target(q) \in Trusted'
  PROVE  RootedInv'
<1>1. Trusted \subseteq Trusted'
  BY GrantedGrows
<1>2. Stocked(Trusted)'
  BY <1>1, StockGrows
<1>3. \A s \in Requests : req'[s] # None => RootedReq(req'[s], Trusted')
  <2> TAKE s \in Requests
  <2>1. CASE s = r
    BY <2>1, SlotFacts DEF RequestInv, ProxyTypeOK
  <2>2. CASE s # r
    <3>1. req'[s] = req[s]
      BY <2>2, SlotFacts DEF RequestInv, ProxyTypeOK
    <3>2. req[s] # None => RootedReq(req[s], Trusted)
      BY RootedReqs
    <3> QED
      BY <1>1, <3>1, <3>2 DEF RootedReq
  <2> QED
    BY <2>1, <2>2
<1> QED
  BY <1>2, <1>3 DEF RootedInv, RootedReq, At

(* An answer of a cache is one of the instances it may hold.               *)
LEMMA HearsStocked ==
  ASSUME RequestInv, NEW r \in Requests, Hears(r), NEW S, Stocked(S)
  PROVE  Stocked(S)' /\ (reply'.status = "ok" => reply'.inst \in S)
<1>1. TypeOK /\ req[r] \in RequestType /\ (NoCache \/ Looks(req[r].worker))
  BY HearsGoes DEF RequestInv, ProxyTypeOK
<1>2. CASE NoCache
  BY <1>1, <1>2, NoCacheStocked DEF NoCache, NoReply
<1>3. CASE Looks(req[r].worker)
  BY <1>1, <1>3, RequestFacts, LooksStocked
<1> QED
  BY <1>1, <1>2, <1>3

LEMMA HearsRooted ==
  ASSUME RequestInv, RootedInv, NEW r \in Requests, Hears(r)
  PROVE  RootedInv'
<1>1. PICK q, n : Learnt(r, q) /\ Goes(r, q, n)
  BY HearsGoes
<1>2. PICK S : S = Trusted
  OBVIOUS
<1>3. Stocked(S)
  BY <1>2 DEF RootedInv
<1>4. Stocked(S)' /\ (reply'.status = "ok" => reply'.inst \in S)
  BY <1>3, HearsStocked
<1>5. /\ n \in RequestType \cup {None} /\ req' = [req EXCEPT ![r] = n]
      /\ UNCHANGED <<safe, adrift>> /\ granted \subseteq granted'
  BY <1>1, GoesRecords, HearsGoes DEF Goes
<1>6. Trusted \subseteq Trusted'
  BY <1>5, GrantedGrows
<1>7. q.by \in Instance => q.by \in Trusted
  <2>1. req[r] # None /\ (req[r].by \in Instance => req[r].by \in Trusted)
    BY NoneFacts DEF RootedInv, Hears, AuthIaaS, AuthUnnamed, Authenticate, Authenticated,
                     FindTarget, TargetFound, At
  <2> QED
    BY <1>1, <1>2, <1>4, <2>1, NoneFacts DEF Learnt, Told
<1>8. ASSUME n # None
      PROVE  RootedReq(n, Trusted')
  <2>1. /\ n \in RequestType /\ WellFormed(n)
        /\ n.call = q.call /\ n.by = q.by /\ n.place = q.place
    BY <1>1, <1>8 DEF Goes, Follows
  <2>2. ASSUME n.phase \in {"call", "post"}, Creates(n)
        PROVE  Target(n) \in Trusted'
    <3>1. /\ n.phase = "call" /\ (HasTarget(q) => Authorised(q))
          /\ granted' = granted \cup {i \in {Target(q)} : Creates(q) /\ q.by = IaaS}
      BY <1>1, <1>8, <2>2 DEF Goes
    <3>2. HasTarget(n) /\ HasTarget(q) /\ Creates(q) /\ Target(n) = Target(q)
      BY <2>1, <2>2, SameCall, CreatesTarget DEF WellFormed
    <3>3. Authorised(n)
      BY <2>1, <3>1, <3>2 DEF Authorised
    <3>4. n.by = IaaS => Target(n) \in granted'
      BY <2>1, <3>1, <3>2
    <3> QED
      BY <1>5, <1>7, <2>1, <2>2, <3>1, <3>3, <3>4, AuthorisedIsTrusted
  <2> QED
    BY <1>6, <1>7, <2>1, <2>2 DEF RootedReq
<1> QED
  BY <1>2, <1>4, <1>5, <1>6, <1>8, SlotRooted DEF RootedInv, Creates, Target

(* A step that leaves what IaaS granted as it is, and one slot at most     *)
(* changes, without learning anything.                                     *)
LEMMA QuietRooted ==
  ASSUME RequestInv, RootedInv, UNCHANGED granted,
         NEW r \in Requests, NEW n \in RequestType \cup {None},
         req' = [req EXCEPT ![r] = n], n # None => RootedReq(n, Trusted),
         NEW S, S = Trusted, Stocked(S)', safe' \subseteq Trusted,
         \A q \in adrift' : Creates(q) => Target(q) \in Trusted
  PROVE  RootedInv'
<1>1. Trusted' = Trusted
  BY DEF Trusted, GivenOut
<1> QED
  BY <1>1, SlotRooted

LEMMA NoCacheKeeps ==
  ASSUME RequestInv, NEW S, Stocked(S), NoCache
  PROVE  Stocked(S)'
BY NoCacheStocked DEF RequestInv, ProxyTypeOK

LEMMA RootedFacts ==
  ASSUME RequestInv, RootedInv
  PROVE  /\ Stocked(Trusted) /\ safe \subseteq Trusted
         /\ \A q \in adrift : Creates(q) => Target(q) \in Trusted
         /\ \A r \in Requests : At(r, "call") \/ At(r, "post") =>
              /\ req[r] \in RequestType
              /\ Creates(req[r]) => Target(req[r]) \in Trusted
BY DEF RootedInv, RequestInv, ProxyTypeOK, At

(* The steps of a request that is at SAFE, or enters, leave the caches.    *)
LEMMA SafeRooted ==
  ASSUME RequestInv, RootedInv, NEW r \in Requests,
         \/ \E call \in Calls, c \in Caches : Arrive(r, call, c)
         \/ SafeAccepts(r) \/ SafeRefuses(r) \/ Timeout(r)
  PROVE  RootedInv'
<1>1. PICK S : S = Trusted
  OBVIOUS
<1>2. Stocked(S)' /\ UNCHANGED granted
  <2>1. NoCache /\ UNCHANGED granted
    BY DEF Arrive, SafeAccepts, SafeRefuses, Timeout
  <2> QED
    BY <1>1, <2>1, NoCacheKeeps, RootedFacts
<1>3. ASSUME NEW call \in Calls, NEW c \in Caches, Arrive(r, call, c)
      PROVE  RootedInv'
  <2> PICK k \in Posts(call.op) : GoOn(r, NewRequest(call, c, k))
    BY <1>3 DEF Arrive
  <2> DEFINE n == NewRequest(call, c, k)
  <2>1. n \in RequestType /\ n.phase = "auth" /\ n.by = None
    BY NewRequestFacts
  <2>2. req' = [req EXCEPT ![r] = n] /\ UNCHANGED <<safe, adrift>>
    BY <1>3 DEF Arrive, GoOn
  <2> HIDE DEF n
  <2>3. RootedReq(n, Trusted)
    BY <2>1, NoneFacts DEF RootedReq
  <2> QED
    BY <1>1, <1>2, <2>1, <2>2, <2>3, RootedFacts, QuietRooted
<1>4. ASSUME SafeAccepts(r)
      PROVE  RootedInv'
  <2> DEFINE q == req[r]
  <2>1. /\ At(r, "call") /\ q \in RequestType /\ q.phase = "call" /\ q.left \in {1, 2}
        /\ Creates(q) => Target(q) \in Trusted
        /\ q.by \in Instance => q.by \in Trusted
    BY <1>4, AtSafeFacts, RootedFacts DEF SafeAccepts, RootedInv, At
  <2>2. safe' \subseteq Trusted /\ UNCHANGED adrift
    BY <1>4, <2>1, RootedFacts DEF SafeAccepts, Stated
  <2>3. PICK n \in RequestType \cup {None} :
          req' = [req EXCEPT ![r] = n] /\ (n # None => RootedReq(n, Trusted))
    <3>1. CASE HasTarget(q) /\ GoOn(r, SpokenBy(InPhase(q, "post"), None))
      <4> DEFINE n == SpokenBy(InPhase(q, "post"), None)
      <4>1. n \in RequestType /\ n.call = q.call /\ n.by = None /\ n.place = q.place
        BY <2>1, <3>1, PostFacts
      <4>2. req' = [req EXCEPT ![r] = n]
        BY <3>1 DEF GoOn
      <4> HIDE DEF n
      <4>3. RootedReq(n, Trusted)
        BY <2>1, <4>1, NoneFacts, SameCall DEF RootedReq
      <4> QED
        BY <4>1, <4>2, <4>3
    <3>2. CASE ~HasTarget(q) /\ q.left > 1 /\ GoOn(r, OneLess(q))
      <4> DEFINE n == OneLess(q)
      <4>1. Follows(n, q)
        BY <2>1, <3>2, OneLessFacts
      <4>2. req' = [req EXCEPT ![r] = n]
        BY <3>2 DEF GoOn
      <4> HIDE DEF n
      <4>3. RootedReq(n, Trusted)
        BY <2>1, <4>1, SameCall DEF RootedReq, Follows
      <4> QED
        BY <4>1, <4>2, <4>3 DEF Follows
    <3>3. CASE Reply(r)
      BY <3>3 DEF Reply
    <3> QED
      BY <1>4, <3>1, <3>2, <3>3 DEF SafeAccepts
  <2> QED
    BY <1>1, <1>2, <2>2, <2>3, RootedFacts, QuietRooted
<1>5. ASSUME SafeRefuses(r)
      PROVE  RootedInv'
  BY <1>1, <1>2, <1>5, RootedFacts, QuietRooted DEF SafeRefuses, Reply
<1>6. ASSUME Timeout(r)
      PROVE  RootedInv'
  <2>1. \A q \in Late({r}) : Creates(q) => Target(q) \in Trusted
    BY LateFacts, RootedFacts, SameCall
  <2> QED
    BY <1>1, <1>2, <1>6, <2>1, RootedFacts, QuietRooted DEF Timeout, Reply
<1> QED
  BY <1>3, <1>4, <1>5, <1>6

LEMMA PostRooted ==
  ASSUME RequestInv, RootedInv, NEW r \in Requests, Post(r)
  PROVE  RootedInv'
<1>1. PICK S : S = Trusted
  OBVIOUS
<1>2. /\ At(r, "post") /\ HasTarget(req[r]) /\ req[r].worker \in Caches
      /\ Target(req[r]) \in Instance /\ TypeOK
      /\ Creates(req[r]) => Target(req[r]) \in Trusted
  <2>1. At(r, "post") /\ req[r] \in RequestType /\ WellFormed(req[r]) /\ TypeOK
    BY DEF Post, RequestInv, ProxyTypeOK, At
  <2>2. HasTarget(req[r])
    BY <2>1 DEF WellFormed, At
  <2> QED
    BY <2>1, <2>2, RequestFacts, ActingFacts, RootedFacts
<1>3. Stocked(S)'
  BY <1>1, <1>2, RootedFacts, PutStocked, DelStocked DEF Post
<1> QED
  BY <1>1, <1>3, RootedFacts, QuietRooted DEF Post, Reply

(* The rest: no request goes on.                                           *)
LEMMA OutsideRooted ==
  ASSUME RequestInv, RootedInv,
         \/ \E q \in adrift : SafeLate(q)
         \/ \E A \in Places : SearchSync(A)
         \/ ProxyRestart
  PROVE  RootedInv'
<1>0. TypeOK
  BY DEF RequestInv, ProxyTypeOK
<1>1. PICK S : S = Trusted
  OBVIOUS
<1>2. UNCHANGED granted
  BY DEF SafeLate, SearchSync, ProxyRestart
<1>3. Trusted' = Trusted
  BY <1>2 DEF Trusted, GivenOut
<1>4. ASSUME NEW q \in adrift, SafeLate(q)
      PROVE  RootedInv'
  <2>1. Stocked(S)'
    BY <1>1, <1>4, RootedFacts, NoCacheKeeps DEF SafeLate
  <2>2. safe' \subseteq Trusted /\ adrift' \subseteq adrift /\ UNCHANGED req
    BY <1>4, RootedFacts DEF SafeLate, Stated
  <2> QED
    BY <1>1, <1>3, <2>1, <2>2, StockGrows DEF RootedInv, At
<1>5. ASSUME NEW A \in Places, SearchSync(A)
      PROVE  RootedInv'
  <2>1. Stocked(S)'
    BY <1>0, <1>1, <1>5, RootedFacts, SyncStocked DEF SearchSync
  <2> QED
    BY <1>1, <1>3, <1>5, <2>1, StockGrows DEF RootedInv, At, SearchSync
<1>6. ASSUME ProxyRestart
      PROVE  RootedInv'
  <2>1. Stocked(S)'
    BY <1>0, <1>1, <1>6, RootedFacts, RestartStocked DEF ProxyRestart
  <2>2. \A q \in Late(Requests) : Creates(q) => Target(q) \in Trusted
    BY LateFacts, RootedFacts, SameCall
  <2> QED
    BY <1>1, <1>3, <1>6, <2>1, <2>2, StockGrows DEF RootedInv, At, ProxyRestart
<1> QED
  BY <1>4, <1>5, <1>6

LEMMA NextRooted ==
  ASSUME RequestInv, RootedInv, [ProxyNext]_proxyVars
  PROVE  RootedInv'
<1>1. CASE UNCHANGED proxyVars
  <2>1. UNCHANGED <<riak, solr, pmap, pending, req, safe, adrift, granted>>
    BY <1>1 DEF proxyVars, vars
  <2>2. Trusted' = Trusted
    BY <2>1 DEF Trusted, GivenOut
  <2>3. Stocked(Trusted)'
    BY <2>1, <2>2 DEF RootedInv, Stocked
  <2> QED
    BY <2>1, <2>2, <2>3 DEF RootedInv, At
<1>2. ASSUME NEW r \in Requests,
             \/ \E call \in Calls, c \in Caches : Arrive(r, call, c)
             \/ AuthIaaS(r) \/ AuthUnnamed(r) \/ UsesCache(r)
             \/ SafeAccepts(r) \/ SafeRefuses(r) \/ Timeout(r)
      PROVE  RootedInv'
  BY <1>2, HearsRooted, SafeRooted, PostRooted DEF UsesCache, Hears
<1> QED
  BY <1>1, <1>2, OutsideRooted DEF ProxyNext

LEMMA InitRooted == ProxyInit => RootedInv
BY InitStocked DEF ProxyInit, RootedInv, At

(* Whatever is stored, cached, found or stated, and whatever a request is  *)
(* about to make, has only ports that IaaS gave out.                       *)
LEMMA RootedMeans ==
  ASSUME RequestInv, RootedInv
  PROVE  RootedInIaaS
<1>1. ASSUME NEW A \in Places, NEW p, [place |-> A, pid |-> p] \in Trusted
      PROVE  GivenOut(A)
  BY <1>1 DEF Trusted
<1>2. /\ StoreHolds(riak, Trusted) /\ StoreHolds(solr, Trusted)
      /\ \A c \in Caches : Holds(pmap[c], Trusted)
  BY DEF RootedInv, Stocked
<1>3. \A i \in safe : GivenOut(i.place)
  BY DEF RootedInv, Trusted
<1> QED
  BY <1>1, <1>2, <1>3, PlaceFacts DEF RootedInIaaS, Occupied, StoreHolds, Holds

(* "the targetIp, targetLport, targetRport is to be checked"               *)
(* (newapi.go:117): no port is registered, cached or stated that IaaS has  *)
(* not given out, however long the chain of instances that created each    *)
(* other, whoever answers late and whatever the proxy forgot.              *)
THEOREM PortsComeFromIaaS == ProxySpec => []RootedInIaaS
<1>1. ProxyInit => RootedInv
  BY InitRooted
<1>2. RequestInv /\ RootedInv /\ [ProxyNext]_proxyVars => RootedInv'
  BY NextRooted
<1>3. RequestInv /\ RootedInv => RootedInIaaS
  BY RootedMeans
<1> QED
  BY <1>1, <1>2, <1>3, RequestsWellFormed, PTL DEF ProxySpec

-----------------------------------------------------------------------------
(* The caches of the proxy agree, as those of InstanceCache by themselves: *)
(* a request that acts names the home of its pid.                          *)

LEMMA ActsAtHome ==
  ASSUME OneHome, NEW q \in RequestType, HasTarget(q), Aimed(q), q.place # None
  PROVE  \A A \in Home(q.call.pid) : A = q.place
<1>1. q.call \in Calls /\ q.call.pid \in Pids /\ q.place \in Places
  BY RequestFacts, CallFacts DEF HasTarget
<1>2. Target(q) \in Registrations \cup Deletions
  <2>1. CASE q.call.place = None
    BY <2>1 DEF Aimed
  <2>2. CASE q.call.place # None
    <3>1. Target(q) = [place |-> q.call.place, pid |-> q.call.pid]
      BY <2>2 DEF Aimed, Target
    <3>2. q.call.op \in {"create", "createVM", "delete", "deleteVM", "lazyDelete"}
      BY DEF HasTarget, TargetOps
    <3> QED
      BY <1>1, <2>2, <3>1, <3>2, CallFacts
  <2> QED
    BY <2>1, <2>2
<1>3. Target(q).place = q.place /\ Target(q).pid = q.call.pid
  BY DEF Target
<1> QED
  BY <1>2, <1>3 DEF OneHome, Home

LEMMA NoCacheIInv ==
  ASSUME IInv, NoCache
  PROVE  IInv'
<1>1. reply' \in ReplyType /\ NeverPanics' /\ AnswersAddress'
  BY NoReplyStep DEF NoCache
<1> QED
  BY <1>1 DEF NoCache, IInv, TypeOK, IndexedHasRecord, AtHome

LEMMA HearsIInv ==
  ASSUME OneHome, RequestInv, IInv, NEW r \in Requests, Hears(r)
  PROVE  IInv'
<1>1. req[r].worker \in Caches /\ (NoCache \/ Looks(req[r].worker))
  BY HearsGoes, RequestFacts
<1>2. CASE Looks(req[r].worker)
  <2>1. Next
    BY <1>1, <1>2 DEF Looks, Next
  <2> QED
    BY <2>1, NextIInv
<1> QED
  BY <1>1, <1>2, NoCacheIInv

(* What Post acts on.                                                      *)
LEMMA PostActs ==
  ASSUME RequestInv, NEW r \in Requests, Post(r)
  PROVE  /\ req[r] \in RequestType /\ At(r, "post") /\ HasTarget(req[r]) /\ Aimed(req[r])
         /\ req[r].worker \in Caches /\ req[r].place \in Places /\ r \in Acting
         /\ req[r].call.pid \in Pids /\ Target(req[r]) \in Instance
         /\ Creates(req[r]) => Target(req[r]) \in Registrations
<1>1. At(r, "post") /\ req[r] \in RequestType /\ WellFormed(req[r])
  BY DEF Post, RequestInv, ProxyTypeOK, At
<1>2. HasTarget(req[r]) /\ Aimed(req[r])
  BY <1>1 DEF WellFormed, At
<1>3. req[r].call.pid \in Pids
  BY <1>1, <1>2, RequestFacts, CallFacts DEF HasTarget
<1> QED
  BY <1>1, <1>2, <1>3, RequestFacts, ActingFacts, CreatesTarget

LEMMA PostIInv ==
  ASSUME OneHome, RequestInv, IInv, NEW r \in Requests, Post(r)
  PROVE  IInv'
<1>1. CASE Creates(req[r])
  <2>1. Next
    BY <1>1, PostActs DEF Post, Next
  <2> QED
    BY <2>1, NextIInv
<1>2. CASE ~Creates(req[r])
  <2>1. DelInstance(req[r].worker, Target(req[r]))
    BY <1>2 DEF Post
  <2>2. \A A \in Home(Target(req[r]).pid) : A = Target(req[r]).place
    BY PostActs, PlaceFacts, ActsAtHome DEF Target
  <2> QED
    BY <2>1, <2>2, PostActs, DelIInv
<1> QED
  BY <1>1, <1>2

LEMMA NextProxyIInv ==
  ASSUME OneHome, RequestInv, IInv, [ProxyNext]_proxyVars
  PROVE  IInv'
<1>1. CASE UNCHANGED proxyVars
  BY <1>1 DEF proxyVars, vars, IInv, TypeOK, IndexedHasRecord, AtHome, NeverPanics,
              AnswersAddress, ForAddress
<1>2. ASSUME NEW r \in Requests,
             \/ \E call \in Calls, c \in Caches : Arrive(r, call, c)
             \/ AuthIaaS(r) \/ AuthUnnamed(r) \/ UsesCache(r)
             \/ SafeAccepts(r) \/ SafeRefuses(r) \/ Timeout(r)
      PROVE  IInv'
  <2>1. CASE Hears(r)
    BY <2>1, HearsIInv
  <2>2. CASE Post(r)
    BY <2>2, PostIInv
  <2>3. CASE NoCache
    BY <2>3, NoCacheIInv
  <2> QED
    BY <1>2, <2>1, <2>2, <2>3 DEF Hears, UsesCache, Arrive, SafeAccepts, SafeRefuses, Timeout
<1>3. ASSUME NEW q \in adrift, SafeLate(q) PROVE IInv'
  BY <1>3, NoCacheIInv DEF SafeLate
<1>4. ASSUME NEW A \in Places, SearchSync(A) PROVE IInv'
  <2>1. Next
    BY <1>4 DEF SearchSync, Next
  <2> QED
    BY <2>1, NextIInv
<1>5. ASSUME ProxyRestart PROVE IInv'
  <2>1. Next
    BY <1>5 DEF ProxyRestart, Next
  <2> QED
    BY <2>1, NextIInv
<1> QED
  BY <1>1, <1>2, <1>3, <1>4, <1>5 DEF ProxyNext

(* What holds of the caches under any callers of theirs that keep a pid at *)
(* one place holds under the handlers: their deletions by uuid name places *)
(* that no caller of the cache alone would.                                *)
THEOREM CachesAgreeInProxy ==
  ASSUME OneHome
  PROVE  ProxySpec => []IInv
<1>1. ProxyInit => IInv
  BY InitIInv DEF ProxyInit
<1>2. RequestInv /\ IInv /\ [ProxyNext]_proxyVars => IInv'
  BY NextProxyIInv
<1> QED
  BY <1>1, <1>2, RequestsWellFormed, PTL DEF ProxySpec

(* No handler meets a range without a record, which would end its request  *)
(* in a panic (cache.go:137-140), although requests of one worker take     *)
(* turns at its cache between any two of their steps.                      *)
THEOREM HandlersNeverPanic ==
  ASSUME OneHome
  PROVE  ProxySpec => []NeverPanics
<1>1. IInv => NeverPanics
  BY DEF IInv
<1>2. ProxySpec => []IInv
  BY CachesAgreeInProxy
<1> QED
  BY <1>1, <1>2, PTL

-----------------------------------------------------------------------------
(* Who speaks to SAFE, and of whom.                                        *)

VouchedReq(n, V) ==
  /\ n.by \in Instance => n.by \in V /\ Matches(n.by, n.call.speaker)
  /\ n.about # None => n.about \in V /\ Matches(n.about, n.call.about)
  /\ n.phase = "post" /\ Creates(n) => Target(n) \in V

LEMMA VouchedFacts ==
  VouchedInv <=> /\ Stocked(vouched)
                 /\ \A r \in Requests : req[r] # None => VouchedReq(req[r], vouched)
BY DEF VouchedInv, VouchedReq

(* The instance of an answer is the one that was asked for.                *)
LEMMA ToldMatches ==
  ASSUME IInv', NEW x, Told(x), reply'.inst \in Instance
  PROVE  Matches(reply'.inst, x)
<1>1. CASE x \in Pids
  BY <1>1 DEF Told, Matches
<1>2. CASE x \in Address
  <2>1. AnswersAddress' /\ reply'.ask = x /\ reply'.status = "ok"
    BY <1>2 DEF IInv, Told
  <2> QED
    BY <1>2, <2>1 DEF AnswersAddress, ForAddress, Matches
<1> QED
  BY <1>1, <1>2 DEF Told

LEMMA SlotVouched ==
  ASSUME RequestInv, VouchedInv, vouched \subseteq vouched', Stocked(vouched)',
         NEW r \in Requests, NEW n \in RequestType \cup {None},
         req' = [req EXCEPT ![r] = n], n # None => VouchedReq(n, vouched')
  PROVE  VouchedInv'
<1>1. \A s \in Requests : req'[s] # None => VouchedReq(req'[s], vouched')
  <2> TAKE s \in Requests
  <2>1. CASE s = r
    BY <2>1, SlotFacts DEF RequestInv, ProxyTypeOK
  <2>2. CASE s # r
    <3>1. req'[s] = req[s] /\ (req[s] # None => VouchedReq(req[s], vouched))
      BY <2>2, SlotFacts, VouchedFacts DEF RequestInv, ProxyTypeOK
    <3> QED
      BY <3>1 DEF VouchedReq
  <2> QED
    BY <2>1, <2>2
<1> QED
  BY <1>1 DEF VouchedInv, VouchedReq

LEMMA StockVouched ==
  ASSUME NEW S, Stocked(S)', S \subseteq vouched'
  PROVE  Stocked(vouched)'
BY DEF Stocked, StoreHolds, Holds

LEMMA HearsVouched ==
  ASSUME OneHome, RequestInv, IInv, VouchedInv, NEW r \in Requests, Hears(r)
  PROVE  VouchedInv'
<1>1. PICK q, n : Learnt(r, q) /\ Goes(r, q, n)
  BY HearsGoes
<1>2. n \in RequestType \cup {None} /\ req' = [req EXCEPT ![r] = n] /\ UNCHANGED vouched
  BY <1>1, GoesRecords, HearsGoes DEF Goes
<1>3. PICK S : S = vouched
  OBVIOUS
<1>4. Stocked(S)' /\ (reply'.status = "ok" => reply'.inst \in S)
  BY <1>3, HearsStocked DEF VouchedInv
<1>5. Stocked(vouched)'
  BY <1>2, <1>3, <1>4, StockVouched
<1>6. req[r] # None
  BY DEF Hears, AuthIaaS, AuthUnnamed, Authenticate, Authenticated, FindTarget, TargetFound, At
<1>7. VouchedReq(req[r], vouched) /\ vouched \subseteq Instance
  BY <1>6, VouchedFacts, PlaceFacts DEF RequestInv, ProxyTypeOK
<1>8. ASSUME NEW x, Told(x)
      PROVE  reply'.inst \in vouched /\ reply'.inst \in Instance /\ Matches(reply'.inst, x)
  BY <1>3, <1>4, <1>7, <1>8, HearsIInv, ToldMatches DEF Told
<1>9. /\ q.by \in Instance => q.by \in vouched /\ Matches(q.by, q.call.speaker)
      /\ q.about # None => q.about \in vouched /\ Matches(q.about, q.call.about)
  <2>1. ~HasTarget(req[r]) => Sought(req[r]) = req[r].call.about
    BY DEF Sought
  <2>2. q.call = req[r].call
    BY <1>1 DEF Learnt
  <2>3. \/ q.by = req[r].by \/ q.by = IaaS
        \/ Told(req[r].call.speaker) /\ q.by = reply'.inst
    BY <1>1 DEF Learnt
  <2>4. \/ q.about = req[r].about
        \/ Told(req[r].call.about) /\ q.about = reply'.inst
    BY <1>1, <2>1 DEF Learnt
  <2>5. q.by \in Instance => q.by \in vouched /\ Matches(q.by, q.call.speaker)
    BY <1>7, <1>8, <2>2, <2>3, NoneFacts DEF VouchedReq
  <2>6. q.about # None => q.about \in vouched /\ Matches(q.about, q.call.about)
    BY <1>7, <1>8, <2>2, <2>4 DEF VouchedReq
  <2> QED
    BY <2>5, <2>6
<1>10. ASSUME n # None PROVE VouchedReq(n, vouched')
  <2>1. n.call = q.call /\ n.by = q.by /\ n.about = q.about /\ n.phase # "post"
    BY <1>1, <1>10 DEF Goes, Follows
  <2> QED
    BY <1>2, <1>9, <2>1 DEF VouchedReq
<1> QED
  BY <1>2, <1>5, <1>10, SlotVouched

LEMMA SafeVouched ==
  ASSUME RequestInv, VouchedInv, NEW r \in Requests,
         \/ \E call \in Calls, c \in Caches : Arrive(r, call, c)
         \/ SafeAccepts(r) \/ SafeRefuses(r) \/ Timeout(r)
  PROVE  VouchedInv'
<1>1. PICK S : S = vouched
  OBVIOUS
<1>2. NoCache /\ vouched \subseteq vouched'
  BY DEF Arrive, SafeAccepts, SafeRefuses, Timeout
<1>3. Stocked(vouched)'
  <2>1. Stocked(S)'
    BY <1>1, <1>2, NoCacheKeeps DEF VouchedInv
  <2> QED
    BY <1>1, <1>2, <2>1, StockVouched
<1>4. ASSUME NEW call \in Calls, NEW c \in Caches, Arrive(r, call, c)
      PROVE  VouchedInv'
  <2> PICK k \in Posts(call.op) : GoOn(r, NewRequest(call, c, k))
    BY <1>4 DEF Arrive
  <2> DEFINE n == NewRequest(call, c, k)
  <2>1. n \in RequestType /\ n.phase = "auth" /\ n.by = None /\ n.about = None
    BY NewRequestFacts
  <2>2. req' = [req EXCEPT ![r] = n]
    BY <1>4 DEF Arrive, GoOn
  <2> HIDE DEF n
  <2>3. VouchedReq(n, vouched')
    BY <2>1, NoneFacts DEF VouchedReq
  <2> QED
    BY <1>2, <1>3, <2>1, <2>2, <2>3, SlotVouched
<1>5. ASSUME SafeAccepts(r)
      PROVE  VouchedInv'
  <2> DEFINE q == req[r]
  <2>1. At(r, "call") /\ q \in RequestType /\ q.phase = "call" /\ q.left \in {1, 2}
    BY <1>5, AtSafeFacts DEF SafeAccepts
  <2>2. VouchedReq(q, vouched)
    BY <2>1, VouchedFacts DEF At
  <2>3. Creates(q) => Target(q) \in vouched'
    BY <1>5 DEF SafeAccepts
  <2>4. PICK n \in RequestType \cup {None} :
          req' = [req EXCEPT ![r] = n] /\ (n # None => VouchedReq(n, vouched'))
    <3>1. CASE HasTarget(q) /\ GoOn(r, SpokenBy(InPhase(q, "post"), None))
      <4> DEFINE n == SpokenBy(InPhase(q, "post"), None)
      <4>1. /\ n \in RequestType /\ n.call = q.call /\ n.by = None /\ n.place = q.place
            /\ n.about = q.about
        BY <2>1, <3>1, PostFacts
      <4>2. req' = [req EXCEPT ![r] = n]
        BY <3>1 DEF GoOn
      <4> HIDE DEF n
      <4>3. VouchedReq(n, vouched')
        BY <1>2, <2>2, <2>3, <4>1, NoneFacts, SameCall DEF VouchedReq
      <4> QED
        BY <4>1, <4>2, <4>3
    <3>2. CASE ~HasTarget(q) /\ q.left > 1 /\ GoOn(r, OneLess(q))
      <4> DEFINE n == OneLess(q)
      <4>1. Follows(n, q) /\ n.phase = "call"
        BY <2>1, <3>2, OneLessFacts
      <4>2. req' = [req EXCEPT ![r] = n]
        BY <3>2 DEF GoOn
      <4> HIDE DEF n
      <4>3. VouchedReq(n, vouched')
        BY <1>2, <2>2, <4>1 DEF VouchedReq, Follows
      <4> QED
        BY <4>1, <4>2, <4>3 DEF Follows
    <3>3. CASE Reply(r)
      BY <3>3 DEF Reply
    <3> QED
      BY <1>5, <3>1, <3>2, <3>3 DEF SafeAccepts
  <2> QED
    BY <1>2, <1>3, <2>4, SlotVouched
<1>6. ASSUME SafeRefuses(r) \/ Timeout(r)
      PROVE  VouchedInv'
  <2>1. req' = [req EXCEPT ![r] = None]
    BY <1>6 DEF SafeRefuses, Timeout, Reply
  <2> QED
    BY <1>2, <1>3, <2>1, SlotVouched
<1> QED
  BY <1>4, <1>5, <1>6

LEMMA PostVouched ==
  ASSUME RequestInv, VouchedInv, NEW r \in Requests, Post(r)
  PROVE  VouchedInv'
<1>1. PICK S : S = vouched
  OBVIOUS
<1>2. TypeOK /\ (Creates(req[r]) => Target(req[r]) \in S) /\ Stocked(S)
  BY <1>1, PostActs DEF RequestInv, ProxyTypeOK, VouchedInv, At
<1>3. Stocked(S)'
  BY <1>2, PostActs, PutStocked, DelStocked DEF Post
<1>4. UNCHANGED vouched /\ req' = [req EXCEPT ![r] = None]
  BY DEF Post, Reply
<1>5. Stocked(vouched)'
  BY <1>1, <1>3, <1>4, StockVouched
<1> QED
  BY <1>4, <1>5, SlotVouched

LEMMA OutsideVouched ==
  ASSUME RequestInv, VouchedInv,
         \/ \E q \in adrift : SafeLate(q)
         \/ \E A \in Places : SearchSync(A)
         \/ ProxyRestart
  PROVE  VouchedInv'
<1>1. PICK S : S = vouched
  OBVIOUS
<1>2. TypeOK /\ Stocked(S)
  BY <1>1 DEF RequestInv, ProxyTypeOK, VouchedInv
<1>3. Stocked(S)'
  BY <1>2, NoCacheKeeps, SyncStocked, RestartStocked DEF SafeLate, SearchSync, ProxyRestart
<1>4. UNCHANGED vouched
  BY DEF SafeLate, SearchSync, ProxyRestart
<1>5. Stocked(vouched)'
  BY <1>1, <1>3, <1>4, StockVouched
<1>6. \A r \in Requests : req'[r] # None => req'[r] = req[r]
  BY DEF SafeLate, SearchSync, ProxyRestart
<1> QED
  BY <1>4, <1>5, <1>6 DEF VouchedInv

LEMMA NextVouched ==
  ASSUME OneHome, RequestInv, IInv, VouchedInv, [ProxyNext]_proxyVars
  PROVE  VouchedInv'
<1>1. CASE UNCHANGED proxyVars
  BY <1>1 DEF proxyVars, vars, VouchedInv, Stocked, StoreHolds, Holds
<1>2. ASSUME NEW r \in Requests,
             \/ \E call \in Calls, c \in Caches : Arrive(r, call, c)
             \/ AuthIaaS(r) \/ AuthUnnamed(r) \/ UsesCache(r)
             \/ SafeAccepts(r) \/ SafeRefuses(r) \/ Timeout(r)
      PROVE  VouchedInv'
  BY <1>2, HearsVouched, SafeVouched, PostVouched DEF UsesCache, Hears
<1> QED
  BY <1>1, <1>2, OutsideVouched DEF ProxyNext

LEMMA InitVouched == ProxyInit => VouchedInv
BY InitStocked DEF ProxyInit, VouchedInv

(* Whoever is passed on to SAFE as speaker, or as what a call is about, is *)
(* an instance whose creation SAFE confirmed, and the one that the caller  *)
(* named by address or uuid (newapi.go:107-113, 355-358, 531-533), whatever*)
(* the caches lost, reloaded or were told late.                            *)
THEOREM SpeakersAreVouched ==
  ASSUME OneHome
  PROVE  ProxySpec => []SpeakersWereStated
<1>1. ProxyInit => VouchedInv
  BY InitVouched
<1>2. RequestInv /\ IInv /\ VouchedInv /\ [ProxyNext]_proxyVars => VouchedInv'
  BY NextVouched
<1>3. VouchedInv => SpeakersWereStated
  BY DEF VouchedInv, SpeakersWereStated, At
<1> QED
  BY <1>1, <1>2, <1>3, RequestsWellFormed, CachesAgreeInProxy, PTL DEF ProxySpec

-----------------------------------------------------------------------------
(* SAFE and Riak.                                                          *)

LEMMA SlotAt ==
  ASSUME RequestInv, NEW r \in Requests, NEW n \in RequestType \cup {None},
         req' = [req EXCEPT ![r] = n]
  PROVE  \A s \in Requests \ {r} :
           /\ req'[s] = req[s]
           /\ \A phase : At(s, phase)' <=> At(s, phase)
           /\ s \in Acting' <=> s \in Acting
<1>1. \A s \in Requests \ {r} : req'[s] = req[s]
  BY SlotFacts DEF RequestInv, ProxyTypeOK
<1> QED
  BY <1>1 DEF At, Acting

(* A slot changes at most, and neither Riak nor SAFE does.                 *)
LEMMA SlotStated ==
  ASSUME RequestInv, StatedInv, NEW r \in Requests, NEW n \in RequestType \cup {None},
         req' = [req EXCEPT ![r] = n], UNCHANGED <<riak, safe>>,
         contested \subseteq contested', ~At(r, "post"),
         n # None => n.phase # "post",
         n # None /\ n.phase = "call" /\ HasTarget(n) =>
           n.place \in contested' \/ n.place \notin Busy,
         \A q \in adrift' : q.place \in contested'
  PROVE  StatedInv'
<1>1. \A s \in Requests \ {r} :
        /\ req'[s] = req[s]
        /\ \A phase : At(s, phase)' <=> At(s, phase)
        /\ s \in Acting' <=> s \in Acting
  BY SlotAt
<1>2. req'[r] = n
  BY DEF RequestInv, ProxyTypeOK
<1>3. /\ ~At(r, "post")'
      /\ r \in Acting' => n.place \in contested' \/ n.place \notin Busy
  BY <1>2 DEF At, Acting
<1>4. \A s \in Acting : req[s].place \in Busy
  BY DEF Busy
<1>5. \A s, t \in Acting' : s # t /\ req'[s].place = req'[t].place => req'[s].place \in contested'
  <2> TAKE s, t \in Acting'
  <2>0. s \in Requests /\ t \in Requests
    BY DEF Acting
  <2>1. CASE s # r /\ t # r
    BY <1>1, <2>0, <2>1 DEF StatedInv
  <2>2. CASE s = r /\ t # r
    BY <1>1, <1>2, <1>3, <1>4, <2>0, <2>2
  <2>3. CASE s # r /\ t = r
    BY <1>1, <1>2, <1>3, <1>4, <2>0, <2>3
  <2> QED
    BY <2>1, <2>2, <2>3
<1>6. \A s \in Requests : At(s, "post")' /\ Creates(req'[s]) /\ req'[s].place \notin contested' =>
        Target(req'[s]) \in safe'
  BY <1>1, <1>3 DEF StatedInv
<1>7. StillStated'
  BY <1>1, <1>3 DEF StatedInv, StillStated, Creates
<1> QED
  BY <1>5, <1>6, <1>7 DEF StatedInv, Creates, Target

LEMMA HearsStated ==
  ASSUME RequestInv, StatedInv, NEW r \in Requests, Hears(r)
  PROVE  StatedInv'
<1>1. PICK q, n : Learnt(r, q) /\ Goes(r, q, n)
  BY HearsGoes
<1>2. /\ n \in RequestType \cup {None} /\ req' = [req EXCEPT ![r] = n]
      /\ contested \subseteq contested' /\ UNCHANGED <<safe, adrift>>
  BY <1>1, GoesRecords, HearsGoes DEF Goes
<1>3. UNCHANGED riak
  <2>1. TypeOK /\ Stocked(Registrations) /\ req[r].worker \in Caches
    BY HearsGoes, RequestFacts DEF RequestInv, ProxyTypeOK
  <2> QED
    BY <2>1, HearsGoes, LooksStocked DEF NoCache
<1>4. ~At(r, "post")
  BY DEF Hears, AuthIaaS, AuthUnnamed, Authenticate, Authenticated, FindTarget, TargetFound, At
<1>5. n # None => n.phase # "post"
  BY <1>1 DEF Goes
<1>6. n # None /\ n.phase = "call" => n.place \in contested' \/ n.place \notin Busy
  BY <1>1 DEF Goes, Follows
<1> QED
  BY <1>2, <1>3, <1>4, <1>5, <1>6, SlotStated DEF StatedInv

LEMMA ArriveStated ==
  ASSUME RequestInv, StatedInv, NEW r \in Requests, NEW call \in Calls, NEW c \in Caches,
         Arrive(r, call, c)
  PROVE  StatedInv'
<1> PICK k \in Posts(call.op) : GoOn(r, NewRequest(call, c, k))
  BY DEF Arrive
<1> DEFINE n == NewRequest(call, c, k)
<1>1. n \in RequestType /\ n.phase = "auth"
  BY NewRequestFacts
<1>2. /\ req' = [req EXCEPT ![r] = n] /\ UNCHANGED <<riak, safe, adrift, contested>>
      /\ ~At(r, "post")
  BY DEF Arrive, GoOn, NoCache, At
<1> HIDE DEF n
<1> QED
  BY <1>1, <1>2, SlotStated DEF StatedInv

LEMMA RefusesStated ==
  ASSUME RequestInv, StatedInv, NEW r \in Requests, SafeRefuses(r) \/ Timeout(r)
  PROVE  StatedInv'
<1>1. /\ req' = [req EXCEPT ![r] = None] /\ UNCHANGED <<riak, safe>> /\ ~At(r, "post")
      /\ contested \subseteq contested' /\ At(r, "call")
  BY DEF SafeRefuses, Timeout, Reply, NoCache, At, Contest
<1>2. \A q \in adrift' : q.place \in contested'
  <2>1. CASE SafeRefuses(r)
    BY <2>1 DEF SafeRefuses, StatedInv
  <2>2. CASE Timeout(r)
    <3>1. \A q \in Late({r}) : q.place = req[r].place /\ q.place \in Busy
      BY LateFacts DEF Busy
    <3> QED
      BY <2>2, <3>1 DEF Timeout, Contest, StatedInv
  <2> QED
    BY <2>1, <2>2
<1> QED
  BY <1>1, <1>2, SlotStated

(* A deletion takes away from SAFE what is at the place it acts on only.   *)
LEMMA StatedSpares ==
  ASSUME OneHome, NEW q \in RequestType, HasTarget(q), Aimed(q), q.place # None,
         NEW i \in Registrations, i \in safe, i.place # q.place \/ Creates(q)
  PROVE  i \in Stated(q)
<1>1. CASE Creates(q)
  BY <1>1 DEF Stated
<1>2. CASE ~Creates(q)
  <2>1. i.place \in Home(i.pid)
    BY DEF Home
  <2>2. i.pid # q.call.pid
    BY <1>2, <2>1, ActsAtHome
  <2> QED
    BY <1>2, <2>2 DEF Stated
<1> QED
  BY <1>1, <1>2

LEMMA SafeAcceptsStated ==
  ASSUME OneHome, RequestInv, StatedInv, NEW r \in Requests, SafeAccepts(r)
  PROVE  StatedInv'
<1> DEFINE q == req[r]
<1>1. /\ At(r, "call") /\ q \in RequestType /\ WellFormed(q) /\ q.phase = "call"
      /\ q.left \in {1, 2} /\ ~At(r, "post")
  BY AtSafeFacts DEF SafeAccepts, At
<1>2. UNCHANGED <<riak, adrift, contested>>
  BY DEF SafeAccepts, NoCache
<1>3. CASE ~HasTarget(q)
  <2>1. UNCHANGED safe
    BY <1>3 DEF SafeAccepts
  <2>2. CASE q.left > 1 /\ GoOn(r, OneLess(q))
    <3> DEFINE n == OneLess(q)
    <3>1. Follows(n, q) /\ n.phase = "call" /\ req' = [req EXCEPT ![r] = n]
      BY <1>1, <2>2, OneLessFacts DEF GoOn
    <3> HIDE DEF n
    <3>2. n \in RequestType /\ ~HasTarget(n)
      BY <1>3, <3>1, SameCall DEF Follows
    <3> QED
      BY <1>1, <1>2, <2>1, <3>1, <3>2, SlotStated DEF StatedInv
  <2>3. CASE Reply(r)
    BY <1>1, <1>2, <2>1, <2>3, SlotStated DEF StatedInv, Reply
  <2> QED
    BY <1>3, <2>2, <2>3 DEF SafeAccepts
<1>4. CASE HasTarget(q)
  <2> DEFINE n == SpokenBy(InPhase(q, "post"), None)
  <2>1. /\ n \in RequestType /\ n.phase = "post" /\ n.call = q.call /\ n.place = q.place
        /\ WellFormed(n)
    BY <1>1, <1>4, PostFacts
  <2>2. req' = [req EXCEPT ![r] = n] /\ safe' = Stated(q)
    BY <1>4 DEF SafeAccepts, GoOn
  <2> HIDE DEF n
  <2>3. HasTarget(n) /\ Creates(n) = Creates(q) /\ Target(n) = Target(q)
    BY <1>4, <2>1, SameCall
  <2>4. /\ \A s \in Requests \ {r} :
             /\ req'[s] = req[s]
             /\ \A phase : At(s, phase)' <=> At(s, phase)
             /\ s \in Acting' <=> s \in Acting
        /\ req'[r] = n
    BY <2>1, <2>2, SlotAt, SlotFacts DEF RequestInv, ProxyTypeOK
  <2>5. /\ r \in Acting /\ Aimed(q) /\ q.place # None /\ q.place \in Places
        /\ At(r, "post")'
    BY <1>1, <1>4, <2>1, <2>4, ActingFacts, NoneFacts DEF WellFormed, At
  <2>6. \A s, t \in Acting' : s # t /\ req'[s].place = req'[t].place =>
          req'[s].place \in contested'
    <3>1. \A s \in Acting' : s \in Acting /\ req'[s].place = req[s].place
      BY <2>1, <2>4, <2>5 DEF Acting
    <3> QED
      BY <1>2, <3>1 DEF StatedInv
  <2>7. ASSUME NEW s \in Requests, At(s, "post")', Creates(req'[s]), req'[s].place \notin contested'
        PROVE  Target(req'[s]) \in safe'
    <3>1. CASE s = r
      BY <2>2, <2>3, <2>4, <2>7, <3>1 DEF Stated
    <3>2. CASE s # r
      <4>1. At(s, "post") /\ req'[s] = req[s] /\ req[s].place \notin contested
        BY <1>2, <2>4, <2>7, <3>2
      <4>2. /\ req[s] \in RequestType /\ WellFormed(req[s])
            /\ HasTarget(req[s]) /\ Target(req[s]) \in Registrations
        <5>1. req[s] \in RequestType /\ WellFormed(req[s])
          BY <4>1 DEF RequestInv, ProxyTypeOK, At
        <5> QED
          BY <2>7, <4>1, <5>1, CreatesTarget DEF WellFormed
      <4>3. s \in Acting /\ Target(req[s]) \in safe
        BY <2>7, <4>1, <4>2 DEF StatedInv, Acting
      <4>4. req[s].place # q.place /\ Target(req[s]).place = req[s].place
        BY <2>5, <3>2, <4>1, <4>3 DEF StatedInv, Target
      <4> QED
        BY <1>1, <1>4, <2>2, <2>5, <4>1, <4>2, <4>3, <4>4, StatedSpares
    <3> QED
      BY <3>1, <3>2
  <2>8. ASSUME NEW A \in Places, A \notin contested, riak[A] # None,
               ~\E s \in Requests : At(s, "post")' /\ ~Creates(req'[s]) /\ req'[s].place = A
        PROVE  [place |-> A, pid |-> riak[A]] \in safe'
    <3>1. ~\E s \in Requests : At(s, "post") /\ ~Creates(req[s]) /\ req[s].place = A
      BY <1>1, <2>4, <2>8
    <3>2. [place |-> A, pid |-> riak[A]] \in safe
      BY <2>8, <3>1 DEF StatedInv, StillStated
    <3>3. [place |-> A, pid |-> riak[A]] \in Registrations
      BY <3>2 DEF RequestInv, ProxyTypeOK
    <3>4. A # q.place \/ Creates(q)
      BY <2>1, <2>3, <2>4, <2>5, <2>8
    <3> QED
      BY <1>1, <1>4, <2>2, <2>5, <3>2, <3>3, <3>4, StatedSpares
  <2>9. StillStated'
    BY <1>2, <2>8 DEF StillStated, Creates
  <2> QED
    BY <1>2, <2>6, <2>7, <2>9 DEF StatedInv, Creates, Target
<1> QED
  BY <1>3, <1>4

(* What is about to be registered, and will be stated there.               *)
LEMMA PostingFacts ==
  ASSUME RequestInv, StatedInv, NEW s \in Requests, At(s, "post"), Creates(req[s]),
         req[s].place \notin contested
  PROVE  /\ s \in Acting /\ Target(req[s]) \in safe /\ Target(req[s]) \in Registrations
         /\ Target(req[s]).place = req[s].place
<1>1. req[s] \in RequestType /\ WellFormed(req[s])
  BY DEF RequestInv, ProxyTypeOK, At
<1>2. HasTarget(req[s]) /\ Target(req[s]) \in Registrations
  BY <1>1, CreatesTarget DEF WellFormed
<1> QED
  BY <1>2, ActingFacts DEF StatedInv, Target

LEMMA SafeLateStated ==
  ASSUME OneHome, RequestInv, StatedInv, NEW q \in adrift, SafeLate(q)
  PROVE  StatedInv'
<1>1. q \in RequestType /\ HasTarget(q) /\ Aimed(q) /\ q.place \in contested /\ q.place # None
  BY NoneFacts DEF RequestInv, ProxyTypeOK, StatedInv
<1>2. /\ UNCHANGED <<riak, req, contested>> /\ adrift' \subseteq adrift
      /\ safe' \in {safe, Stated(q)}
  BY DEF SafeLate, NoCache
<1>3. ASSUME NEW i \in Registrations, i \in safe, i.place \notin contested
      PROVE  i \in safe'
  BY <1>1, <1>2, <1>3, StatedSpares
<1>4. \A s \in Requests : At(s, "post") /\ Creates(req[s]) /\ req[s].place \notin contested =>
        Target(req[s]) \in safe'
  BY <1>3, PostingFacts
<1>5. \A A \in Places \ contested :
        [place |-> A, pid |-> riak[A]] \in safe => [place |-> A, pid |-> riak[A]] \in safe'
  BY <1>3 DEF RequestInv, ProxyTypeOK
<1>6. StillStated'
  BY <1>2, <1>5 DEF StatedInv, StillStated, At
<1> QED
  BY <1>2, <1>4, <1>6 DEF StatedInv, Acting, At

LEMMA PostStated ==
  ASSUME RequestInv, StatedInv, NEW r \in Requests, Post(r)
  PROVE  StatedInv'
<1> DEFINE q == req[r]
<1>1. /\ At(r, "post") /\ q.place \in Places /\ r \in Acting /\ q.worker \in Caches
      /\ q.call.pid \in Pids
  BY PostActs
<1>2. /\ req' = [req EXCEPT ![r] = None] /\ UNCHANGED <<safe, adrift>>
      /\ contested' = contested \cup {A \in {q.place} : reply'.status = "error"}
  BY DEF Post, Reply, Contest
<1>3. /\ \A s \in Requests \ {r} :
           /\ req'[s] = req[s]
           /\ \A phase : At(s, phase)' <=> At(s, phase)
           /\ s \in Acting' <=> s \in Acting
      /\ req'[r] = None
  BY <1>2, SlotAt, SlotFacts DEF RequestInv, ProxyTypeOK
<1>4. r \notin Acting' /\ ~At(r, "post")'
  BY <1>3 DEF Acting, At
<1>5. \A s \in Acting' : s \in Acting /\ s \in Requests \ {r}
  BY <1>3, <1>4 DEF Acting
<1>6. /\ \A A \in Places : A # q.place => riak'[A] = riak[A]
      /\ q.place \notin contested' =>
           riak'[q.place] = IF Creates(q) THEN q.call.pid ELSE None
  <2>1. riak \in [Places -> Pids \cup {None}]
    BY DEF RequestInv, ProxyTypeOK, TypeOK
  <2>2. ASSUME NEW v, NEW c, NEW i,
               \/ Store(c, q.place, v)
               \/ StoreFails(q.place, v) /\ Answer(c, None, "error", i)
        PROVE  /\ \A A \in Places : A # q.place => riak'[A] = riak[A]
               /\ q.place \notin contested' => riak'[q.place] = v
    <3>1. CASE Store(c, q.place, v)
      BY <1>1, <2>1, <3>1 DEF Store
    <3>2. CASE StoreFails(q.place, v) /\ Answer(c, None, "error", i)
      <4>1. q.place \in contested'
        BY <1>2, <3>2 DEF Answer
      <4>2. riak' = [riak EXCEPT ![q.place] = v] \/ riak' = riak
        BY <3>2 DEF StoreFails, Store
      <4> QED
        BY <1>1, <2>1, <4>1, <4>2
    <3> QED
      BY <2>2, <3>1, <3>2
  <2>3. Target(q).place = q.place /\ Target(q).pid = q.call.pid
    BY DEF Target
  <2>4. CASE Creates(q)
    <3>1. \/ Store(q.worker, q.place, q.call.pid)
          \/ /\ StoreFails(q.place, q.call.pid)
             /\ Answer(q.worker, None, "error", None)
      BY <2>3, <2>4 DEF Post, PutInstance
    <3> QED
      BY <2>2, <2>4, <3>1
  <2>5. CASE ~Creates(q)
    <3>1. \/ Store(q.worker, q.place, None)
          \/ StoreFails(q.place, None) /\ Answer(q.worker, None, "error", None)
      BY <2>3, <2>5 DEF Post, DelInstance
    <3> QED
      BY <2>2, <2>5, <3>1
  <2> QED
    BY <2>4, <2>5
<1>7. ASSUME NEW A \in Places, A \notin contested', riak'[A] # None
      PROVE  \/ [place |-> A, pid |-> riak'[A]] \in safe'
             \/ \E s \in Requests : At(s, "post")' /\ ~Creates(req'[s]) /\ req'[s].place = A
  <2>1. A \notin contested
    BY <1>2, <1>7
  <2>2. CASE A = q.place
    <3>1. Creates(q) /\ riak'[A] = q.call.pid
      BY <1>6, <1>7, <2>2
    <3> QED
      BY <1>1, <1>2, <2>1, <2>2, <3>1 DEF StatedInv, Target
  <2>3. CASE A # q.place
    <3>1. riak'[A] = riak[A]
      BY <1>6, <2>3
    <3>2. CASE [place |-> A, pid |-> riak[A]] \in safe
      BY <1>2, <3>1, <3>2
    <3>3. ASSUME NEW s \in Requests, At(s, "post"), ~Creates(req[s]), req[s].place = A
          PROVE  At(s, "post")' /\ ~Creates(req'[s]) /\ req'[s].place = A
      BY <1>3, <2>3, <3>3
    <3> QED
      BY <1>7, <2>1, <3>1, <3>2, <3>3 DEF StatedInv, StillStated
  <2> QED
    BY <2>2, <2>3
<1>8. StillStated'
  BY <1>7 DEF StillStated, Creates
<1>9. \A s, t \in Acting' : s # t /\ req'[s].place = req'[t].place => req'[s].place \in contested'
  BY <1>2, <1>3, <1>5 DEF StatedInv
<1>10. \A s \in Requests : At(s, "post")' /\ Creates(req'[s]) /\ req'[s].place \notin contested' =>
         Target(req'[s]) \in safe'
  BY <1>2, <1>3, <1>4 DEF StatedInv
<1>11. \A a \in adrift' : a.place \in contested'
  BY <1>2 DEF StatedInv
<1> QED
  BY <1>8, <1>9, <1>10, <1>11 DEF StatedInv, Creates, Target

LEMMA ProxyRestartStated ==
  ASSUME RequestInv, StatedInv, ProxyRestart
  PROVE  StatedInv'
<1>1. /\ req' = [r \in Requests |-> None] /\ adrift' = adrift \cup Late(Requests)
      /\ contested' = contested \cup Busy /\ UNCHANGED <<riak, safe>>
  BY DEF ProxyRestart, Contest, Restart
<1>2. \A q \in Late(Requests) : q.place \in Busy
  BY LateFacts DEF Busy
<1>3. \A r \in Requests : \A phase : ~At(r, phase)'
  BY <1>1 DEF At
<1>4. StillStated'
  <2>1. ASSUME NEW s \in Requests, At(s, "post"), ~Creates(req[s])
        PROVE  req[s].place \in Busy
    <3>1. WellFormed(req[s])
      BY <2>1 DEF RequestInv, At
    <3> QED
      BY <2>1, <3>1, ActingFacts DEF WellFormed, At
  <2> QED
    BY <1>1, <2>1 DEF StatedInv, StillStated
<1> QED
  BY <1>1, <1>2, <1>3, <1>4 DEF StatedInv, Acting

LEMMA NextStated ==
  ASSUME OneHome, RequestInv, StatedInv, [ProxyNext]_proxyVars
  PROVE  StatedInv'
<1>1. CASE UNCHANGED proxyVars
  BY <1>1 DEF proxyVars, vars, StatedInv, StillStated, Acting, At
<1>2. ASSUME NEW r \in Requests,
             \/ \E call \in Calls, c \in Caches : Arrive(r, call, c)
             \/ AuthIaaS(r) \/ AuthUnnamed(r) \/ UsesCache(r)
             \/ SafeAccepts(r) \/ SafeRefuses(r) \/ Timeout(r)
      PROVE  StatedInv'
  BY <1>2, ArriveStated, HearsStated, PostStated, SafeAcceptsStated, RefusesStated
     DEF UsesCache, Hears
<1>3. ASSUME NEW q \in adrift, SafeLate(q) PROVE StatedInv'
  BY <1>3, SafeLateStated
<1>4. ASSUME NEW A \in Places, SearchSync(A) PROVE StatedInv'
  BY <1>4 DEF SearchSync, IndexSync, StatedInv, StillStated, Acting, At
<1> QED
  BY <1>1, <1>2, <1>3, <1>4, ProxyRestartStated DEF ProxyNext

LEMMA InitStated == ProxyInit => StatedInv
BY DEF ProxyInit, Init, StatedInv, StillStated, Acting, At

(* Riak runs behind SAFE (newapi.go:182-213), in every interleaving of the *)
(* handlers with each other and with SAFE's late answers: whatever it has  *)
(* registered SAFE has confirmed, and still has a statement of where no    *)
(* two requests met and none failed.                                       *)
THEOREM StoreFollowsSafe ==
  ASSUME OneHome
  PROVE  ProxySpec => []StoredIsStated
<1>1. ProxyInit => VouchedInv /\ StatedInv
  BY InitVouched, InitStated
<1>2. RequestInv /\ IInv /\ (VouchedInv /\ StatedInv) /\ [ProxyNext]_proxyVars =>
        (VouchedInv /\ StatedInv)'
  BY NextVouched, NextStated
<1>3. VouchedInv /\ StatedInv => StoredIsStated
  BY DEF VouchedInv, StatedInv, StoredIsStated, Stocked
<1> QED
  BY <1>1, <1>2, <1>3, RequestsWellFormed, CachesAgreeInProxy, PTL DEF ProxySpec

(* Why they hold: the four parts of the invariant, of which each step of a *)
(* handler, of SAFE, of the search index and of the operator keeps every   *)
(* one.                                                                    *)
THEOREM ProxyInvariant ==
  ASSUME OneHome
  PROVE  ProxySpec => []ProxyInv
<1>1. ProxyInit => RootedInv /\ VouchedInv /\ StatedInv
  BY InitRooted, InitVouched, InitStated
<1>2. RequestInv /\ IInv /\ (RootedInv /\ VouchedInv /\ StatedInv) /\ [ProxyNext]_proxyVars =>
        (RootedInv /\ VouchedInv /\ StatedInv)'
  BY NextRooted, NextVouched, NextStated
<1>3. RequestInv /\ RootedInv /\ VouchedInv /\ StatedInv => ProxyInv
  BY DEF ProxyInv
<1> QED
  BY <1>1, <1>2, <1>3, RequestsWellFormed, CachesAgreeInProxy, PTL DEF ProxySpec
=============================================================================
