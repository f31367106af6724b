--------------------------- MODULE PodTableProofs ---------------------------
(***************************************************************************)
(* Proofs about StartUp and PodTable, for all addresses, pods and numbers  *)
(* of requests.                                                            *)
(***************************************************************************)
EXTENDS PodTable, TLAPS

(* A step of the start-up keeps what is known of the index.                *)
LEMMA StartKeepsIndex ==
  ASSUME IndexInv, Starting \/ Stop \/ UNCHANGED startVars
  PROVE  IndexInv'
<1>1. CASE Launch      BY <1>1 DEF Launch, IndexInv, SearchableOrAbandoned
<1>2. CASE FetchFinds  BY <1>2 DEF FetchFinds, IndexInv, SearchableOrAbandoned
<1>3. CASE FetchMisses BY <1>3 DEF FetchMisses, IndexInv, SearchableOrAbandoned
<1>4. CASE StoreIndex  BY <1>4 DEF StoreIndex, IndexInv, SearchableOrAbandoned
<1>5. CASE Associate   BY <1>5 DEF Associate, IndexInv, SearchableOrAbandoned
<1>6. CASE Stop
  <2>1. stage' = "down" /\ abandoned' = (abandoned \/ stage \in {"store", "associate"})
    BY <1>6 DEF Stop
  <2>2. netmap' => netmap \/ stage = "store"
    BY <1>6 DEF Stop
  <2>3. associated => associated'
    BY <1>6 DEF Stop
  <2> QED BY <2>1, <2>2, <2>3 DEF IndexInv, SearchableOrAbandoned
<1>7. CASE UNCHANGED startVars BY <1>7 DEF IndexInv, SearchableOrAbandoned, startVars
<1> QED BY <1>1, <1>2, <1>3, <1>4, <1>5, <1>6, <1>7 DEF Starting

(* The start-up keeps its types.                                           *)
LEMMA StartKeepsType ==
  ASSUME StartTypeOK, Starting \/ Stop \/ UNCHANGED startVars
  PROVE  StartTypeOK'
<1>1. CASE Starting
  BY <1>1 DEF Starting, Launch, FetchFinds, FetchMisses, StoreIndex, Associate, StartTypeOK, Stages
<1>2. CASE Stop
  BY <1>2 DEF Stop, StartTypeOK, Stages
<1>3. CASE UNCHANGED startVars
  BY <1>3 DEF startVars, StartTypeOK
<1> QED BY <1>1, <1>2, <1>3

(* What an address stands for is an answer.                                *)
LEMMA MostSpecificType ==
  ASSUME NEW table \in [Keys -> Pods \cup {None}], NEW k \in Keys
  PROVE  MostSpecific(table, k) \in Answers
BY PodsAssumption DEF MostSpecific, Answers, Keys

(* A look-up that is not raced yields what the map has.                    *)
LEMMA YieldsType ==
  ASSUME ProcessTypeOK, NEW k \in Keys, NEW p \in Yields(k)
  PROVE  p \in Pods \cup {None, Torn}
BY DEF Yields, ProcessTypeOK

(* An answer, or the step to the IP, keeps the types.                      *)
LEMMA AnswerKeepsType ==
  ASSUME ProcessTypeOK, NEW s \in Slots, job[s] \in Job, NEW p \in Answers, Answer(s, p),
         UNCHANGED <<startVars, pods, damaged>>, stage = "serve"
  PROVE  ProcessTypeOK'
<1>1. job' \in [Slots -> Job \cup {None}]
  BY DEF Answer, ProcessTypeOK
<1>2. answer' \in [pod: Answers, truths: SUBSET Answers, calm: BOOLEAN]
  <2>1. job[s].truths \in SUBSET Answers
    BY DEF Job
  <2> QED BY <2>1 DEF Answer
<1>3. StartTypeOK'
  BY StartKeepsType DEF ProcessTypeOK
<1> QED BY <1>1, <1>2, <1>3 DEF ProcessTypeOK, startVars

(* The state looks as ProcessTypeOK says, however often the program starts. *)
THEOREM ProcessType == ProcessSpec => []ProcessTypeOK
<1>1. ASSUME ProcessInit PROVE ProcessTypeOK
  <2>1. StartTypeOK
    BY <1>1 DEF ProcessInit, StartInit, StartTypeOK, Stages
  <2>2. answer \in [pod: Answers, truths: SUBSET Answers, calm: BOOLEAN]
    BY <1>1 DEF ProcessInit, NoAnswer, Answers
  <2> QED BY <1>1, <2>1, <2>2 DEF ProcessInit, ProcessTypeOK
<1>2. ASSUME ProcessTypeOK, [ProcessNext]_processVars PROVE ProcessTypeOK'
  <2>1. CASE Starting /\ UNCHANGED podVars
    <3>1. StartTypeOK'
      BY <1>2, <2>1, StartKeepsType DEF ProcessTypeOK
    <3>2. stage # "serve"
      BY <2>1 DEF Starting, Launch, FetchFinds, FetchMisses, StoreIndex, Associate
    <3> QED BY <1>2, <2>1, <3>1, <3>2 DEF ProcessTypeOK, podVars
  <2>2. CASE ProcessStop
    <3>1. StartTypeOK'
      BY <1>2, <2>2, StartKeepsType DEF ProcessTypeOK, ProcessStop
    <3> QED BY <1>2, <2>2, <3>1 DEF ProcessTypeOK, ProcessStop
  <2>3. ASSUME NEW s \in Slots, NEW k \in Keys, PodArrive(s, k) PROVE ProcessTypeOK'
    <3>1. MostSpecific(pods, k) \in Answers
      BY <1>2, MostSpecificType DEF ProcessTypeOK
    <3>2. [step |-> "full", key |-> k, pod |-> None, truths |-> {MostSpecific(pods, k)},
           posts |-> 0, raced |-> FALSE] \in Job
      BY <3>1 DEF Job
    <3>3. job' \in [Slots -> Job \cup {None}]
      BY <1>2, <2>3, <3>2 DEF PodArrive, ProcessTypeOK
    <3>4. StartTypeOK'
      BY <1>2, <2>3, StartKeepsType DEF PodArrive, ProcessTypeOK
    <3> QED BY <1>2, <2>3, <3>3, <3>4 DEF PodArrive, ProcessTypeOK, startVars
  <2>4. ASSUME NEW s \in Slots, NEW k \in Keys, NEW p \in Pods, PostArrive(s, k, p)
        PROVE  ProcessTypeOK'
    <3>1. [step |-> "write", key |-> k, pod |-> p, truths |-> {}, posts |-> 0, raced |-> FALSE]
            \in Job
      BY DEF Job
    <3>2. job' \in [Slots -> Job \cup {None}]
      BY <1>2, <2>4, <3>1 DEF PostArrive, ProcessTypeOK
    <3>3. StartTypeOK'
      BY <1>2, <2>4, StartKeepsType DEF PostArrive, ProcessTypeOK
    <3>4. damaged' \in BOOLEAN
      BY <1>2, <2>4 DEF PostArrive, ProcessTypeOK
    <3> QED BY <1>2, <2>4, <3>2, <3>3, <3>4 DEF PostArrive, ProcessTypeOK, startVars
  <2>5. ASSUME NEW s \in Slots, LookupFull(s) PROVE ProcessTypeOK'
    <3>1. job[s] \in Job /\ job[s].key \in Keys /\ stage = "serve"
      BY <1>2, <2>5 DEF LookupFull, Doing, ProcessTypeOK, Job
    <3>2. PICK p \in Yields(job[s].key) :
            \/ p # None /\ Answer(s, p)
            \/ p = None /\ job[s].key \in Addrs /\ GoOnTo(s, "ip")
            \/ p = None /\ job[s].key \in Ips /\ Answer(s, Malformed)
      BY <2>5 DEF LookupFull
    <3>3. p \in Pods \cup {None, Torn}
      BY <1>2, <3>1, YieldsType
    <3>4. CASE p # None
      BY <1>2, <2>5, <3>1, <3>2, <3>3, <3>4, AnswerKeepsType DEF LookupFull, Answers
    <3>5. CASE p = None /\ job[s].key \in Addrs
      <4>1. GoOnTo(s, "ip")
        BY <3>2, <3>5, PodsAssumption
      <4>2. Raced(s) \in BOOLEAN
        BY <1>2, <3>1 DEF Raced, ProcessTypeOK, Job
      <4>3. [job[s] EXCEPT !.step = "ip", !.raced = Raced(s)] \in Job
        BY <3>1, <4>2 DEF Job
      <4>4. job' = [job EXCEPT ![s] = [job[s] EXCEPT !.step = "ip", !.raced = Raced(s)]]
        BY <1>2, <3>1, <4>1 DEF GoOnTo, ProcessTypeOK
      <4>5. StartTypeOK'
        BY <1>2, <2>5, StartKeepsType DEF LookupFull, ProcessTypeOK
      <4> QED BY <1>2, <2>5, <3>1, <4>1, <4>3, <4>4, <4>5
              DEF GoOnTo, LookupFull, ProcessTypeOK, startVars
    <3>6. CASE p = None /\ job[s].key \in Ips
      <4>1. job[s].key \notin Addrs
        BY <3>6, PodsAssumption
      <4>2. Answer(s, Malformed)
        BY <3>2, <3>6, <4>1
      <4> QED BY <1>2, <2>5, <3>1, <4>2, AnswerKeepsType DEF LookupFull, Answers
    <3> QED BY <3>1, <3>4, <3>5, <3>6 DEF Keys
  <2>6. ASSUME NEW s \in Slots, LookupIp(s) PROVE ProcessTypeOK'
    <3>1. job[s] \in Job /\ stage = "serve"
      BY <1>2, <2>6 DEF LookupIp, Doing, ProcessTypeOK
    <3>2. PICK p \in Yields(IpOf[job[s].key]) : Answer(s, p)
      BY <2>6 DEF LookupIp
    <3>3. p \in Pods \cup {None, Torn}
      <4>1. IpOf[job[s].key] \in Keys
        BY <3>1, PodsAssumption DEF Job, Keys
      <4> QED BY <1>2, <3>2, <4>1, YieldsType
    <3> QED BY <1>2, <2>6, <3>1, <3>2, <3>3, AnswerKeepsType DEF LookupIp, Answers
  <2>7. ASSUME NEW s \in Slots, PostDone(s) PROVE ProcessTypeOK'
    <3>1. job[s] \in Job /\ stage = "serve"
      BY <1>2, <2>7 DEF PostDone, Doing, ProcessTypeOK
    <3>2. pods' \in [Keys -> Pods \cup {None}]
      BY <1>2, <2>7, <3>1 DEF PostDone, Written, ProcessTypeOK, Job
    <3>3. ASSUME NEW t \in Slots PROVE job'[t] \in Job \cup {None}
      <4>1. CASE t # s /\ Asking(t)
        <5>1. job[t] \in Job
          BY <1>2, <4>1 DEF Asking, Doing, ProcessTypeOK
        <5>2. MostSpecific(pods', job[t].key) \in Answers
          BY <3>2, <5>1, MostSpecificType DEF Job
        <5>3. job'[t] = [job[t] EXCEPT !.truths = @ \cup {MostSpecific(pods', job[t].key)},
                                       !.posts = IF @ = 0 THEN 1 ELSE 2]
          BY <2>7, <4>1 DEF PostDone
        <5>4. job[t].truths \cup {MostSpecific(pods', job[t].key)} \in SUBSET Answers
          BY <5>1, <5>2 DEF Job
        <5>5. (IF job[t].posts = 0 THEN 1 ELSE 2) \in {0, 1, 2}
          OBVIOUS
        <5>6. job'[t] = [step |-> job[t].step, key |-> job[t].key, pod |-> job[t].pod,
                         truths |-> job[t].truths \cup {MostSpecific(pods', job[t].key)},
                         posts |-> IF job[t].posts = 0 THEN 1 ELSE 2, raced |-> job[t].raced]
          BY <5>1, <5>3 DEF Job
        <5> QED BY <5>1, <5>4, <5>5, <5>6 DEF Job
      <4>2. CASE ~(t # s /\ Asking(t))
        BY <1>2, <2>7, <4>2 DEF PostDone, ProcessTypeOK
      <4> QED BY <4>1, <4>2
    <3>4. job' \in [Slots -> Job \cup {None}]
      BY <2>7, <3>3 DEF PostDone
    <3>5. StartTypeOK'
      BY <1>2, <2>7, StartKeepsType DEF PostDone, ProcessTypeOK
    <3> QED BY <1>2, <2>7, <3>1, <3>2, <3>4, <3>5 DEF PostDone, ProcessTypeOK, startVars
  <2>8. CASE UNCHANGED processVars
    BY <1>2, <2>8 DEF processVars, startVars, podVars, ProcessTypeOK, StartTypeOK
  <2> QED BY <1>2, <2>1, <2>2, <2>3, <2>4, <2>5, <2>6, <2>7, <2>8 DEF ProcessNext
<1> QED BY <1>1, <1>2, PTL DEF ProcessSpec

-----------------------------------------------------------------------------
(* What a post that is done leaves to the others.                          *)
LEMMA PostKeepsTracks ==
  ASSUME ProcessTypeOK, TruthsInv, NEW s \in Slots, PostDone(s), NEW t \in Slots, Asking(t)'
  PROVE  Tracks(job[t])'
<1>1. t # s /\ Asking(t) /\ job[t] \in Job
  BY DEF PostDone, Asking, Doing, ProcessTypeOK
<1>2. job'[t] = [step |-> job[t].step, key |-> job[t].key, pod |-> job[t].pod,
                 truths |-> job[t].truths \cup {MostSpecific(pods', job[t].key)},
                 posts |-> IF job[t].posts = 0 THEN 1 ELSE 2, raced |-> job[t].raced]
  <2>1. job'[t] = [job[t] EXCEPT !.truths = @ \cup {MostSpecific(pods', job[t].key)},
                                 !.posts = IF @ = 0 THEN 1 ELSE 2]
    BY <1>1 DEF PostDone
  <2> QED BY <1>1, <2>1 DEF Job
<1>3. MostSpecific(pods', job'[t].key) \in job'[t].truths
  BY <1>2
<1>4. ASSUME job'[t].step = "ip"
      PROVE  /\ job'[t].key \in Addrs
             /\ ~job'[t].raced /\ job'[t].posts # 2 => pods'[IpOf[job'[t].key]] \in job'[t].truths
             /\ ~job'[t].raced /\ job'[t].posts = 0 => pods'[job'[t].key] = None
  <2> DEFINE a == job[t].key
  <2>1. /\ a \in Addrs
        /\ ~job[t].raced /\ job[t].posts = 0 => pods[a] = None
        /\ ~job[t].raced /\ job[t].posts # 2 => pods[IpOf[a]] \in job[t].truths
    BY <1>1, <1>2, <1>4 DEF TruthsInv, Tracks
  <2>2. a \in Keys /\ IpOf[a] \in Keys /\ a # IpOf[a]
    BY <2>1, PodsAssumption DEF Keys
  <2>3. SUFFICES ASSUME ~job[t].raced, job[t].posts = 0
                 PROVE  pods'[IpOf[a]] \in job'[t].truths
    BY <1>2, <2>1
  <2>4. pods[a] = None /\ pods[IpOf[a]] \in job[t].truths
    BY <2>1, <2>3
  <2>5. pods' = pods \/ pods' = [pods EXCEPT ![job[s].key] = job[s].pod]
    BY DEF PostDone, Written
  <2>6. CASE pods' = pods \/ job[s].key # IpOf[a]
    <3>1. pods'[IpOf[a]] = pods[IpOf[a]]
      BY <2>2, <2>5, <2>6 DEF ProcessTypeOK
    <3> QED BY <1>2, <2>4, <3>1
  <2>7. CASE pods' = [pods EXCEPT ![job[s].key] = job[s].pod] /\ job[s].key = IpOf[a]
    <3>1. pods'[a] = None
      BY <2>2, <2>4, <2>7 DEF ProcessTypeOK
    <3>2. MostSpecific(pods', a) = pods'[IpOf[a]]
      BY <2>1, <3>1 DEF MostSpecific
    <3> QED BY <1>2, <3>2
  <2> QED BY <2>5, <2>6, <2>7
<1> QED BY <1>3, <1>4 DEF Tracks

(* A request that has answered, or that another one leaves alone.          *)
LEMMA OthersKeepTracks ==
  ASSUME ProcessTypeOK, TruthsInv, NEW s \in Slots, UNCHANGED pods,
         \A t \in Slots \ {s} : job'[t] = job[t],
         Asking(s)' => Tracks(job[s])'
  PROVE  TruthsInv'
BY DEF TruthsInv, Tracks, Asking, Doing, MostSpecific

(* The answer to an address that is found in the map, or to its IP.        *)
LEMMA FirstLookIsRight ==
  ASSUME ProcessTypeOK, TruthsInv, NEW s \in Slots, LookupFull(s)
  PROVE  TruthsInv' /\ (RightAtSomeMoment => RightAtSomeMoment')
<1>1. job[s] \in Job /\ Asking(s) /\ MostSpecific(pods, job[s].key) \in job[s].truths
  BY DEF LookupFull, Asking, Doing, ProcessTypeOK, TruthsInv, Tracks
<1>2. PICK p \in Yields(job[s].key) :
        \/ p # None /\ Answer(s, p)
        \/ p = None /\ job[s].key \in Addrs /\ GoOnTo(s, "ip")
        \/ p = None /\ job[s].key \in Ips /\ Answer(s, Malformed)
  BY DEF LookupFull
<1>3. ~Raced(s) => p = pods[job[s].key]
  BY <1>2 DEF Raced, Yields
<1>4. UNCHANGED pods
  BY DEF LookupFull
<1>5. CASE p # None /\ Answer(s, p)
  <2>1. ~Raced(s) => MostSpecific(pods, job[s].key) = p
    BY <1>3, <1>5 DEF MostSpecific
  <2>2. RightAtSomeMoment'
    BY <1>1, <1>5, <2>1 DEF Answer, RightAtSomeMoment
  <2>3. ~Asking(s)' /\ \A t \in Slots \ {s} : job'[t] = job[t]
    BY <1>5 DEF Answer, Asking, Doing, ProcessTypeOK
  <2> QED BY <1>4, <2>2, <2>3, OthersKeepTracks
<1>6. CASE p = None /\ job[s].key \in Addrs /\ GoOnTo(s, "ip")
  <2>1. job'[s] = [step |-> "ip", key |-> job[s].key, pod |-> job[s].pod, truths |-> job[s].truths,
                   posts |-> job[s].posts, raced |-> Raced(s)]
    <3>1. job'[s] = [job[s] EXCEPT !.step = "ip", !.raced = Raced(s)]
      BY <1>6 DEF GoOnTo, ProcessTypeOK
    <3> QED BY <1>1, <3>1 DEF Job
  <2>2. ~Raced(s) => pods[job[s].key] = None /\ MostSpecific(pods, job[s].key) = pods[IpOf[job[s].key]]
    BY <1>3, <1>6 DEF MostSpecific
  <2>3. Tracks(job[s])'
    BY <1>1, <1>4, <1>6, <2>1, <2>2 DEF Tracks, MostSpecific
  <2>4. \A t \in Slots \ {s} : job'[t] = job[t]
    BY <1>6 DEF GoOnTo, ProcessTypeOK
  <2> QED BY <1>4, <1>6, <2>3, <2>4, OthersKeepTracks DEF GoOnTo, RightAtSomeMoment
<1>7. CASE p = None /\ job[s].key \in Ips /\ Answer(s, Malformed)
  <2>1. ~Raced(s) => MostSpecific(pods, job[s].key) = Malformed
    BY <1>3, <1>7, PodsAssumption DEF MostSpecific
  <2>2. RightAtSomeMoment'
    BY <1>1, <1>7, <2>1 DEF Answer, RightAtSomeMoment
  <2>3. ~Asking(s)' /\ \A t \in Slots \ {s} : job'[t] = job[t]
    BY <1>7 DEF Answer, Asking, Doing, ProcessTypeOK
  <2> QED BY <1>4, <2>2, <2>3, OthersKeepTracks
<1> QED BY <1>2, <1>5, <1>6, <1>7

LEMMA SecondLookIsRight ==
  ASSUME ProcessTypeOK, TruthsInv, NEW s \in Slots, LookupIp(s)
  PROVE  TruthsInv' /\ RightAtSomeMoment'
<1>1. job[s] \in Job /\ Tracks(job[s]) /\ job[s].step = "ip"
  BY DEF LookupIp, Asking, Doing, ProcessTypeOK, TruthsInv
<1>2. PICK p \in Yields(IpOf[job[s].key]) : Answer(s, p)
  BY DEF LookupIp
<1>3. ~Raced(s) => p = pods[IpOf[job[s].key]] /\ ~job[s].raced
  BY <1>2 DEF Raced, Yields
<1>4. RightAtSomeMoment'
  BY <1>1, <1>2, <1>3 DEF Answer, Tracks, RightAtSomeMoment
<1>5. ~Asking(s)' /\ \A t \in Slots \ {s} : job'[t] = job[t]
  BY <1>2 DEF Answer, Asking, Doing, ProcessTypeOK
<1> QED BY <1>4, <1>5, OthersKeepTracks DEF LookupIp

(* The inductive invariant: what the requests have seen, and what Riak     *)
(* knows of the index.                                                     *)
THEOREM ProcessInvariant == ProcessSpec => []PodInv
<1>1. ASSUME ProcessInit PROVE PodInv
  <2>1. IndexInv
    BY <1>1 DEF ProcessInit, StartInit, IndexInv, SearchableOrAbandoned
  <2>2. TruthsInv
    BY <1>1 DEF ProcessInit, TruthsInv, Asking, Doing
  <2>3. RightAtSomeMoment
    BY <1>1 DEF ProcessInit, NoAnswer, RightAtSomeMoment
  <2> QED BY <2>1, <2>2, <2>3 DEF PodInv
<1>2. ASSUME PodInv, ProcessTypeOK, [ProcessNext]_processVars PROVE PodInv'
  <2>1. CASE Starting /\ UNCHANGED podVars
    <3>1. TruthsInv'
      BY <1>2, <2>1 DEF PodInv, TruthsInv, Tracks, MostSpecific, Asking, Doing, podVars
    <3> QED BY <1>2, <2>1, <3>1, StartKeepsIndex DEF PodInv, RightAtSomeMoment, podVars
  <2>2. CASE ProcessStop
    <3>1. TruthsInv'
      BY <2>2 DEF ProcessStop, TruthsInv, Asking, Doing
    <3> QED BY <1>2, <2>2, <3>1, StartKeepsIndex DEF ProcessStop, PodInv, RightAtSomeMoment
  <2>3. ASSUME NEW s \in Slots, NEW k \in Keys, PodArrive(s, k) PROVE PodInv'
    <3>1. job'[s] = [step |-> "full", key |-> k, pod |-> None,
                     truths |-> {MostSpecific(pods, k)}, posts |-> 0, raced |-> FALSE]
      BY <1>2, <2>3 DEF PodArrive, ProcessTypeOK
    <3>2. Tracks(job[s])'
      BY <2>3, <3>1 DEF Tracks, PodArrive, MostSpecific
    <3>3. \A t \in Slots \ {s} : job'[t] = job[t]
      BY <1>2, <2>3 DEF PodArrive, ProcessTypeOK
    <3>4. TruthsInv'
      BY <1>2, <2>3, <3>2, <3>3, OthersKeepTracks DEF PodInv, PodArrive
    <3> QED BY <1>2, <2>3, <3>4, StartKeepsIndex DEF PodInv, PodArrive, RightAtSomeMoment
  <2>4. ASSUME NEW s \in Slots, NEW k \in Keys, NEW p \in Pods, PostArrive(s, k, p)
        PROVE  PodInv'
    <3>1. ~Asking(s)'
      BY <1>2, <2>4 DEF PostArrive, ProcessTypeOK, Asking, Doing
    <3>2. \A t \in Slots \ {s} : job'[t] = job[t]
      BY <1>2, <2>4 DEF PostArrive, ProcessTypeOK
    <3>3. TruthsInv'
      BY <1>2, <2>4, <3>1, <3>2, OthersKeepTracks DEF PodInv, PostArrive
    <3> QED BY <1>2, <2>4, <3>3, StartKeepsIndex DEF PodInv, PostArrive, RightAtSomeMoment
  <2>5. ASSUME NEW s \in Slots, LookupFull(s) PROVE PodInv'
    BY <1>2, <2>5, FirstLookIsRight, StartKeepsIndex DEF PodInv, LookupFull
  <2>6. ASSUME NEW s \in Slots, LookupIp(s) PROVE PodInv'
    BY <1>2, <2>6, SecondLookIsRight, StartKeepsIndex DEF PodInv, LookupIp
  <2>7. ASSUME NEW s \in Slots, PostDone(s) PROVE PodInv'
    <3>1. TruthsInv'
      BY <1>2, <2>7, PostKeepsTracks DEF PodInv, TruthsInv
    <3> QED BY <1>2, <2>7, <3>1, StartKeepsIndex DEF PodInv, PostDone, RightAtSomeMoment
  <2>8. CASE UNCHANGED processVars
    <3>1. TruthsInv'
      BY <1>2, <2>8 DEF PodInv, TruthsInv, Tracks, MostSpecific, Asking, Doing, processVars, podVars
    <3> QED BY <1>2, <2>8, <3>1, StartKeepsIndex DEF PodInv, RightAtSomeMoment, processVars, podVars
  <2> QED BY <1>2, <2>1, <2>2, <2>3, <2>4, <2>5, <2>6, <2>7, <2>8 DEF ProcessNext
<1> QED BY <1>1, <1>2, ProcessType, PTL DEF ProcessSpec

(* A program that serves has a searched index, unless a start-up was       *)
(* abandoned between the commands that make it (riak.go:109-153).          *)
THEOREM ServesSearchable == ProcessSpec => []SearchableOrAbandoned
<1>1. PodInv => SearchableOrAbandoned
  BY DEF PodInv, IndexInv
<1> QED BY <1>1, ProcessInvariant, PTL

(* For any number of requests, addresses and pods, /authPod answers what   *)
(* was right at some moment, unless it met a race or two posts             *)
(* (pod.go:62-86).                                                         *)
THEOREM AnswersRight == ProcessSpec => []RightAtSomeMoment
<1>1. PodInv => RightAtSomeMoment
  BY DEF PodInv
<1> QED BY <1>1, ProcessInvariant, PTL
=============================================================================
