--------------------------- MODULE MetadataProxy ---------------------------
(***************************************************************************)
(* The handlers of the metadata proxy (proxy/newapi.go) above the caches   *)
(* of InstanceCache and in front of SAFE, the server that keeps the        *)
(* statements about instances.                                             *)
(*                                                                         *)
(* A request runs in a goroutine of its own.  It authenticates its speaker *)
(* by address or uuid.  A handler that creates or deletes an instance then *)
(* checks that the speaker may control the target, calls SAFE, and writes  *)
(* the cache that its credentials chose; the others replace the names in   *)
(* the request by what the cache says of them and pass it on to SAFE.      *)
(* Nothing is locked across these steps.  A call to SAFE ends with an      *)
(* answer or with the timeout of the client; SAFE may carry out a call     *)
(* that timed out later, or never.                                         *)
(*                                                                         *)
(* Of the statements that SAFE keeps the model has those about instances.  *)
(***************************************************************************)
EXTENDS InstanceCache

CONSTANTS Requests,  \* the requests that may be under way at a time
          Calls,     \* what callers ask for
          IaaS,      \* the speaker at IaaSProvider, trusted as it is
          NoAuth,    \* a speaker whose name starts with noauth_
          Cidr       \* the IPs allocated to each pid, none unless it is a VM

(* The handlers with a target.                                             *)
TargetOps == {"create", "createVM", "delete", "deleteVM", "lazyDelete"}

(* The others.  "forward" is handleOther, "forwardAny" handleOtherNoAuth   *)
(* and createEndorsement, "check" handleCheckInstance and                  *)
(* createEndorsementLink, "member" createMembership, "config"              *)
(* createInstanceConfig and createInstanceKvConfig, "selfConfig"           *)
(* createSelfConfig, "ask" authenticateAddr, "legacy"                      *)
(* createInstanceLegacy, "garbled" any with a body that does not parse.    *)
Ops == TargetOps \cup {"forward", "forwardAny", "check", "member", "config",
                       "selfConfig", "ask", "legacy", "garbled"}

(* The place of a target is None when the call names it by uuid; about is  *)
(* the instance that a call without a target speaks about, if it does.     *)
Call == [op: Ops, speaker: Address \cup Pids \cup {IaaS, NoAuth},
         place: Places \cup {None}, pid: Pids \cup {None},
         about: Address \cup Pids \cup {IaaS, None}]

(* A request: how far it is, the worker whose cache it uses, the call, the *)
(* speaker once it is known, the place of its target, which is looked up   *)
(* if the call names it by uuid, the instance it is about once that is     *)
(* known, and how many calls to SAFE are left.                             *)
RequestType ==
  [phase: {"auth", "reload", "find", "findReload", "call", "post"}, worker: Caches,
   call: Calls, by: Instance \cup {IaaS, None}, place: Places \cup {None},
   about: Instance \cup {None}, left: {1, 2}]

(* The discipline of callers: only the creation of a VM by IaaS names a    *)
(* pid that has a CIDR, only lazyDeleteInstance takes a uuid, what is      *)
(* created or deleted is one of Registrations or Deletions, and only       *)
(* handleCheckInstance is asked about IaaS.                                *)
ASSUME CallsAssumption ==
  /\ Calls \subseteq Call
  /\ Cidr \in [Pids -> SUBSET Ips]
  /\ IaaS # NoAuth /\ {IaaS, NoAuth} \cap (Address \cup Pids \cup {None}) = {}
  /\ {IaaS, None} \cap Instance = {} /\ None \notin RequestType
  /\ \A call \in Calls :
       /\ call.op \in TargetOps =>
            /\ call.pid # None /\ call.about = None
            /\ call.place = None => call.op = "lazyDelete"
       /\ call.op \notin TargetOps => call.place = None
       /\ call.op \in {"member", "config"} => call.about \in Address \cup Pids
       /\ call.op = "check" => call.about # None
       /\ call.op \in {"forward", "forwardAny", "selfConfig", "ask"} => call.about = None
       /\ call.op = "ask" => call.speaker \in Address
       /\ call.op = "garbled" => call.speaker = NoAuth
       /\ call.op = "create" => Cidr[call.pid] = {}
       /\ call.op \in {"create", "createVM"} =>
            [place |-> call.place, pid |-> call.pid] \in Registrations
       /\ call.op \in {"delete", "deleteVM", "lazyDelete"} /\ call.place # None =>
            [place |-> call.place, pid |-> call.pid] \in Deletions

VARIABLES
  req,        \* the request in each slot, None if it is free
  safe,       \* SAFE: the instances it has a statement of
  adrift,     \* SAFE: the requests whose call timed out before it answered
  granted,    \* history: what IaaS was authorised to create
  contested,  \* history: places where requests overlapped or a call failed
  vouched     \* history: the instances whose creation SAFE has confirmed

proxyVars == <<vars, req, safe, adrift, granted, contested, vouched>>

(* How many calls to SAFE a handler may make: a configuration is posted in *)
(* one or more, by its length (ConfigChunks); two stand for several.       *)
Posts(op) == IF op \in {"config", "selfConfig"} THEN {1, 2} ELSE {1}

NewRequest(call, c, n) ==
  [phase |-> "auth", worker |-> c, call |-> call, by |-> None,
   place |-> call.place, about |-> None, left |-> n]

InPhase(q, phase) == [q EXCEPT !.phase = phase]
SpokenBy(q, i)    == [q EXCEPT !.by = i]
PlacedAt(q, A)    == [q EXCEPT !.place = A]
Regarding(q, i)   == [q EXCEPT !.about = i]
OneLess(q)        == [q EXCEPT !.left = @ - 1]

Target(q) == [place |-> q.place, pid |-> q.call.pid]

HasTarget(q) == q.call.op \in TargetOps

(* authPrincipal: whether the speaker must be known.                       *)
Strict(q) == q.call.op \notin {"forwardAny", "check"}

(* Mutant of Creates: lazyDeleteInstance is given the wrong hook.          *)
CreatesLazily(q) == q.call.op \in {"create", "createVM", "lazyDelete"}

Creates(q) == q.call.op \in {"create", "createVM"}

ProxyInit ==
  /\ Init
  /\ req = [r \in Requests |-> None]
  /\ safe = {}
  /\ adrift = {}
  /\ granted = {}
  /\ contested = {}
  /\ vouched = {}

At(r, phase) == req[r] # None /\ req[r].phase = phase

GoOn(r, q) == req' = [req EXCEPT ![r] = q]
Reply(r)   == req' = [req EXCEPT ![r] = None]

(* A step that does not use a cache: there is no answer of one.            *)
NoCache == reply' = NoReply /\ UNCHANGED <<pmap, pending, riak, solr, writer, claim>>

(* The places whose target another request is acting on.                   *)
Acting == {r \in Requests : (At(r, "call") \/ At(r, "post")) /\ HasTarget(req[r])}
Busy == {req[r].place : r \in Acting}

Contest(S) == contested' = contested \cup S

-----------------------------------------------------------------------------
(* The handler is entered.                                                 *)
Arrive(r, call, c) ==
  /\ req[r] = None
  /\ \E n \in Posts(call.op) : GoOn(r, NewRequest(call, c, n))
  /\ NoCache
  /\ UNCHANGED <<safe, adrift, granted, contested, vouched>>

(* Mutant of MayControl: the end of the range is not looked at.            *)
MayControlFrom(by, A) ==
  by # IaaS => \/ by.place.ip = A.ip /\ by.place.lport <= A.lport
               \/ A.ip \in Cidr[by.pid]

(* authzControl: the speaker is IaaS, or its own range contains the target,*)
(* or it is a VM to which the IP of the target is allocated.               *)
MayControl(by, A) ==
  by # IaaS =>
    \/ /\ by.place.ip = A.ip
       /\ by.place.lport <= A.lport /\ A.rport <= by.place.rport
    \/ A.ip \in Cidr[by.pid]

Authorised(q) ==
  /\ q.call.op \in {"createVM", "deleteVM"} => q.by = IaaS
  /\ MayControl(q.by, q.place)

(* What the hook before the call may find.  The CIDR that comes with a VM  *)
(* may not parse.  A configuration may only come from the parent of its    *)
(* instance, which the model does not keep; the legacy creation refuses    *)
(* IaaS and ends in a panic for everybody else; authenticateAddr has no    *)
(* call, the answer of the cache is its reply.                             *)
MayPass(q) ==
  IF HasTarget(q) THEN Authorised(q) ELSE q.call.op \notin {"ask", "legacy"}
MayFail(q) ==
  \/ HasTarget(q) /\ ~Authorised(q)
  \/ q.call.op \in {"createVM", "deleteVM", "config", "ask", "legacy"}

(* What is still to be looked up before the verdict; IaaS is no instance.  *)
Sought(q) == IF HasTarget(q) THEN q.call.pid ELSE q.call.about
Unresolved(q) ==
  IF HasTarget(q) THEN q.place = None ELSE q.call.about \notin {None, IaaS} /\ q.about = None

Send(r, q) ==
  /\ GoOn(r, InPhase(q, "call"))
  /\ Contest({q.place} \cap Busy)
  /\ granted' = granted \cup {i \in {Target(q)} : Creates(q) /\ q.by = IaaS}

Refuse(r) == Reply(r) /\ UNCHANGED <<contested, granted>>
Wait(r, q, phase) ==
  GoOn(r, InPhase(q, phase)) /\ UNCHANGED <<contested, granted>>

(* What a handler does when it has heard who speaks.                       *)
Proceed(r, q) ==
  \/ Unresolved(q) /\ Wait(r, q, "find")
  \/ ~Unresolved(q) /\ MayPass(q) /\ Send(r, q)
  \/ ~Unresolved(q) /\ MayFail(q) /\ Refuse(r)

(* A speaker who is not known: a handler that does not insist goes on with *)
(* the name as it is given.                                                *)
Unknowing(r, q) == IF Strict(q) THEN Refuse(r) ELSE Proceed(r, q)

(* newAuth: the speaker is IaaS, or must not authenticate.  A body that    *)
(* does not parse ends its request in a panic here.                        *)
AuthIaaS(r) ==
  /\ At(r, "auth") /\ req[r].call.speaker = IaaS
  /\ Proceed(r, SpokenBy(req[r], IaaS))
  /\ NoCache
  /\ UNCHANGED <<safe, adrift, vouched>>

AuthUnnamed(r) ==
  /\ At(r, "auth") /\ req[r].call.speaker = NoAuth
  /\ Unknowing(r, req[r])
  /\ NoCache
  /\ UNCHANGED <<safe, adrift, vouched>>

(* The cache is asked for an address or a uuid; one that is not cached     *)
(* keeps the request waiting in reloadUUID, with the cache locked.         *)
Asks(c, x) ==
  \/ x \in Address /\ (LookupHit(c, x) \/ LookupReload(c, x) \/ LookupFails(c, x))
  \/ x \in Pids /\ (GetFromID(c, x) \/ SearchUUID(c, x))

(* authenticate, for the speaker.                                          *)
Heard(r) ==
  IF reply'.status = "ok" THEN Proceed(r, SpokenBy(req[r], reply'.inst))
                          ELSE Unknowing(r, req[r])

Authenticate(r) ==
  LET q == req[r] IN
  /\ At(r, "auth")
  /\ Asks(q.worker, q.call.speaker)
  /\ IF pending'[q.worker] = None THEN Heard(r) ELSE Wait(r, q, "reload")
  /\ UNCHANGED <<safe, adrift, vouched>>

Authenticated(r) ==
  /\ At(r, "reload")
  /\ ReloadUUID(req[r].worker)
  /\ Heard(r)
  /\ UNCHANGED <<safe, adrift, vouched>>

(* Mutant of Found: the error of the lookup is not looked at.              *)
FoundUnseen(r) ==
  LET q == req[r] IN
  \/ reply'.status = "ok" /\ HasTarget(q) /\ Proceed(r, PlacedAt(q, reply'.inst.place))
  \/ reply'.status = "ok" /\ ~HasTarget(q) /\ Proceed(r, Regarding(q, reply'.inst))
  \/ reply'.status # "ok" /\ Send(r, q)

(* authzControl with allowUUID: the place of the target is the one that is *)
(* recorded for its uuid.  A call about an instance passes on what the     *)
(* cache says of it; only a check goes on without.                         *)
Found(r) ==
  LET q == req[r] IN
  \/ reply'.status = "ok" /\ HasTarget(q) /\ Proceed(r, PlacedAt(q, reply'.inst.place))
  \/ reply'.status = "ok" /\ ~HasTarget(q) /\ Proceed(r, Regarding(q, reply'.inst))
  \/ reply'.status # "ok" /\ (IF q.call.op = "check" THEN Send(r, q) ELSE Refuse(r))

FindTarget(r) ==
  LET q == req[r] IN
  /\ At(r, "find")
  /\ Asks(q.worker, Sought(q))
  /\ IF pending'[q.worker] = None THEN Found(r) ELSE Wait(r, q, "findReload")
  /\ UNCHANGED <<safe, adrift, vouched>>

TargetFound(r) ==
  /\ At(r, "findReload")
  /\ ReloadUUID(req[r].worker)
  /\ Found(r)
  /\ UNCHANGED <<safe, adrift, vouched>>

-----------------------------------------------------------------------------
(* What SAFE makes of a call it accepts.                                   *)
Stated(q) == IF Creates(q) THEN safe \cup {Target(q)}
                           ELSE {i \in safe : i.pid # q.call.pid}

SafeAccepts(r) ==
  LET q == req[r] IN
  /\ At(r, "call")
  /\ safe' = IF HasTarget(q) THEN Stated(q) ELSE safe
  /\ vouched' = vouched \cup {i \in {Target(q)} : Creates(q)}
  /\ \/ HasTarget(q) /\ GoOn(r, SpokenBy(InPhase(q, "post"), None))
     \/ ~HasTarget(q) /\ q.left > 1 /\ GoOn(r, OneLess(q))
     \/ ~HasTarget(q) /\ q.left = 1 /\ Reply(r)
  /\ NoCache
  /\ UNCHANGED <<adrift, granted, contested>>

(* Mutant of SafeRefuses: the hook after the call does not look at the     *)
(* status.                                                                 *)
SafeRefusesUnseen(r) ==
  /\ At(r, "call")
  /\ IF HasTarget(req[r]) THEN GoOn(r, SpokenBy(InPhase(req[r], "post"), None))
                          ELSE Reply(r)
  /\ NoCache
  /\ UNCHANGED <<safe, adrift, granted, contested, vouched>>

(* Another status than 200, or no connection: it becomes the reply.        *)
SafeRefuses(r) ==
  /\ At(r, "call")
  /\ Reply(r)
  /\ NoCache
  /\ UNCHANGED <<safe, adrift, granted, contested, vouched>>

(* What SAFE may still carry out when the client has given up.             *)
Late(R) == {SpokenBy(req[r], None) : r \in {s \in R : At(s, "call") /\ HasTarget(req[s])}}

(* Mutant of Timeout: a client without one.                                *)
TimeoutNever(r) == FALSE /\ UNCHANGED proxyVars

(* The client gives up, or loses the answer on its way; the call may still *)
(* reach SAFE.                                                             *)
Timeout(r) ==
  /\ At(r, "call")
  /\ Reply(r)
  /\ adrift' = adrift \cup Late({r})
  /\ Contest({req[r].place} \cap Busy)
  /\ NoCache
  /\ UNCHANGED <<safe, granted, vouched>>

(* SAFE carries out or drops a call nobody waits for any more.             *)
SafeLate(q) ==
  /\ q \in adrift
  /\ safe' \in {safe, Stated(q)}
  /\ adrift' = adrift \ {q}
  /\ NoCache
  /\ UNCHANGED <<req, granted, contested, vouched>>

(* postInstanceCreationHandler and postInstanceDeletionHandler: the cache  *)
(* is told, and the reply is 200 whatever it says.                         *)
Post(r) ==
  LET q == req[r] IN
  /\ At(r, "post")
  /\ IF Creates(q) THEN PutInstance(q.worker, Target(q)) ELSE DelInstance(q.worker, Target(q))
  /\ Reply(r)
  /\ Contest({A \in {q.place} : reply'.status = "error"})
  /\ UNCHANGED <<safe, adrift, granted, vouched>>

-----------------------------------------------------------------------------
(* The search index catches up.                                            *)
SearchSync(A) ==
  IndexSync(A) /\ UNCHANGED <<req, safe, adrift, granted, contested, vouched>>

(* The program ends with the requests it works on, and is started again.   *)
ProxyRestart ==
  /\ Restart
  /\ req' = [r \in Requests |-> None]
  /\ adrift' = adrift \cup Late(Requests)
  /\ Contest(Busy)
  /\ UNCHANGED <<safe, granted, vouched>>

UsesCache(r) == Authenticate(r) \/ Authenticated(r) \/ FindTarget(r) \/ TargetFound(r) \/ Post(r)

ProxyNext ==
  \/ \E r \in Requests :
       \/ \E call \in Calls, c \in Caches : Arrive(r, call, c)
       \/ AuthIaaS(r) \/ AuthUnnamed(r) \/ UsesCache(r)
       \/ SafeAccepts(r) \/ SafeRefuses(r) \/ Timeout(r)
  \/ \E q \in adrift : SafeLate(q)
  \/ \E A \in Places : SearchSync(A)
  \/ ProxyRestart

ProxySpec == ProxyInit /\ [][ProxyNext]_proxyVars

(* A goroutine that is not waiting goes on; the lock of a cache comes to   *)
(* everybody who waits for it, as a Go mutex hands itself to a goroutine   *)
(* that has waited a millisecond; the client gives up after fifteen        *)
(* seconds.  Nothing is assumed of callers, of SAFE, of the search index   *)
(* or of restarts.                                                         *)
ProxyFairness ==
  \A r \in Requests : /\ WF_proxyVars(AuthIaaS(r) \/ AuthUnnamed(r))
                      /\ SF_proxyVars(UsesCache(r))
                      /\ WF_proxyVars(Timeout(r))

FairProxySpec == ProxySpec /\ ProxyFairness

-----------------------------------------------------------------------------
(* What the state looks like.                                              *)
ProxyTypeOK ==
  /\ TypeOK
  /\ req \in [Requests -> RequestType \cup {None}]
  /\ safe \subseteq Registrations
  /\ adrift \subseteq RequestType
  /\ granted \subseteq Registrations
  /\ contested \subseteq Places
  /\ vouched \subseteq Registrations

(* "the targetIp, targetLport, targetRport is to be checked"               *)
(* (newapi.go:117): whatever is registered, cached or stated, at whatever  *)
(* distance from the provider, has no port that IaaS has not given out, in *)
(* a range it created or on an IP allocated to a VM it created.            *)
Occupied(A) ==
  \/ riak[A] # None \/ solr[A] # None
  \/ \E c \in Caches : pmap[c].idx[A] # None \/ \E p \in Pids : pmap[c].pids[p] = A
  \/ \E i \in safe : i.place = A

GivenOut(A) ==
  \E i \in granted :
    \/ A.ip \in Cidr[i.pid]
    \/ A.ip = i.place.ip /\ \A n \in Ports : Covers(A, n) => Covers(i.place, n)

RootedInIaaS == \A A \in Places : Occupied(A) => GivenOut(A)

(* Where no requests overlapped and no call failed, SAFE still has a       *)
(* statement of what Riak has; between the call and the write of a         *)
(* deletion SAFE is ahead.                                                 *)
StillStated ==
  \A A \in Places \ contested :
    riak[A] # None =>
      \/ [place |-> A, pid |-> riak[A]] \in safe
      \/ \E r \in Requests : At(r, "post") /\ ~Creates(req[r]) /\ req[r].place = A

(* Riak runs behind SAFE (newapi.go:182-213).  Whatever Riak has, SAFE has *)
(* confirmed the creation of it some time, however requests overlapped,    *)
(* timed out, or were cut short; and SAFE has not dropped the statement    *)
(* since, except at the contested places.                                  *)
StoredIsStated == StoreHolds(riak, vouched) /\ StillStated

(* Who speaks to SAFE: an instance that a request passes on, as its        *)
(* speaker or as what it is about, is one whose creation SAFE confirmed,   *)
(* and is registered around the address, or under the uuid, that the       *)
(* caller gave (newapi.go:107-113, 355-358, 531-533), however often the    *)
(* caches lost and reloaded it since.                                      *)
Matches(i, x) == \/ x \in Pids /\ i.pid = x
                 \/ x \in Address /\ i.place.ip = x.ip /\ Covers(i.place, x.port)

SpeakersWereStated ==
  \A r \in Requests : At(r, "call") =>
    LET q == req[r] IN
    /\ q.by \in Instance => q.by \in vouched /\ Matches(q.by, q.call.speaker)
    /\ q.about # None => q.about \in vouched /\ Matches(q.about, q.call.about)

(* What makes them hold.  A request acts on the place that its call names, *)
(* or on one registered for the uuid that it names, and has a speaker by   *)
(* then.                                                                   *)
Aimed(q) ==
  /\ q.call.place # None => q.place = q.call.place
  /\ q.call.place = None /\ q.place # None => Target(q) \in Registrations

WellFormed(q) ==
  /\ HasTarget(q) => Aimed(q)
  /\ HasTarget(q) /\ q.phase \in {"find", "findReload"} => q.place = None
  /\ HasTarget(q) /\ q.phase \in {"find", "findReload", "call"} => q.by # None
  /\ HasTarget(q) /\ q.phase \in {"call", "post"} => q.place # None
  /\ ~HasTarget(q) => q.place = None /\ q.phase # "post"

(* The request that waits for a reload of its cache is the only one, and   *)
(* the reload is of the pid that it asked for.                             *)
Waits(r) == At(r, "reload") \/ At(r, "findReload")
Awaited(q) == IF q.phase = "reload" THEN q.call.speaker ELSE Sought(q)

WaitsAlone ==
  \A r \in Requests : Waits(r) =>
    /\ pending[req[r].worker] # None
    /\ pending[req[r].worker].pid = Awaited(req[r])
    /\ \A s \in Requests \ {r} : Waits(s) => req[s].worker # req[r].worker

RequestInv ==
  /\ ProxyTypeOK
  /\ Stocked(Registrations)
  /\ \A r \in Requests : req[r] # None => WellFormed(req[r])
  /\ \A q \in adrift : HasTarget(q) /\ Aimed(q)
  /\ WaitsAlone

(* An instance whose ports are given out, and whose CIDR, if it has one,   *)
(* IaaS gave it.  All there is, and all that may yet be made, is like that.*)
Trusted ==
  {i \in Instance : GivenOut(i.place) /\ (Cidr[i.pid] # {} => \E g \in granted : g.pid = i.pid)}

RootedInv ==
  /\ Stocked(Trusted)
  /\ safe \subseteq Trusted
  /\ \A q \in adrift : Creates(q) => Target(q) \in Trusted
  /\ \A r \in Requests : req[r] # None =>
       /\ req[r].by \in Instance => req[r].by \in Trusted
       /\ (At(r, "call") \/ At(r, "post")) /\ Creates(req[r]) => Target(req[r]) \in Trusted

(* What a request says, from when it knows it, and the caches say no more. *)
VouchedInv ==
  /\ Stocked(vouched)
  /\ \A r \in Requests : req[r] # None =>
       LET q == req[r] IN
       /\ q.by \in Instance => q.by \in vouched /\ Matches(q.by, q.call.speaker)
       /\ q.about # None => q.about \in vouched /\ Matches(q.about, q.call.about)
       /\ q.phase = "post" /\ Creates(q) => Target(q) \in vouched

(* Two requests act on one place, or a call is adrift, only where it is    *)
(* contested; elsewhere SAFE knows what is about to be registered.         *)
StatedInv ==
  /\ \A r, s \in Acting : r # s /\ req[r].place = req[s].place => req[r].place \in contested
  /\ \A q \in adrift : q.place \in contested
  /\ \A r \in Requests : At(r, "post") /\ Creates(req[r]) /\ req[r].place \notin contested =>
       Target(req[r]) \in safe
  /\ StillStated

ProxyInv == RequestInv /\ RootedInv /\ VouchedInv /\ StatedInv

(* Every request is answered or ends with the program: no handler waits    *)
(* for ever for the lock of its cache, although reloadUUID keeps it over   *)
(* two calls of Riak, nor for SAFE (newapi.go:597, server.go:201).         *)
EveryRequestAnswered == \A r \in Requests : (req[r] # None) ~> (req[r] = None)
=============================================================================
