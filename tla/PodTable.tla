------------------------------ MODULE PodTable ------------------------------
(***************************************************************************)
(* The pods of the proxy (proxy/pod.go): a Go map from addresses to pods   *)
(* that /postPod writes and /authPod reads, each request in a goroutine of *)
(* its own, and nothing is locked.  The map is as old as the program.      *)
(*                                                                         *)
(* A write takes two steps here.  An access between them is a data race:   *)
(* Go ends the program when it notices; when it does not, a read may find  *)
(* any pod or none, or one made of two (Torn), and two writes may lose     *)
(* either and leave a map that is damaged.                                 *)
(***************************************************************************)
EXTENDS StartUp

CONSTANTS Slots,     \* the requests that may be under way at a time
          Addrs,     \* addresses with a port
          Ips,       \* addresses without
          IpOf,      \* the IP of an address
          Pods,      \* what is posted
          None,      \* no pod: also the answer 404
          Torn,      \* a pod made of two
          Malformed  \* the answer 400

Keys == Addrs \cup Ips

ASSUME PodsAssumption ==
  /\ IpOf \in [Keys -> Ips]
  /\ Addrs \cap Ips = {}
  /\ None \notin Pods /\ Torn \notin Pods /\ Malformed \notin Pods
  /\ None # Torn /\ None # Malformed /\ Torn # Malformed

VARIABLES pods,     \* the map, None where it has no entry
          job,      \* the request in each slot, None if it is free
          damaged,  \* two writes have overlapped
          answer    \* the last answer of /authPod

podVars == <<pods, job, damaged, answer>>
processVars == <<startVars, podVars>>

NoAnswer == [pod |-> None, truths |-> {None}, calm |-> TRUE]

(* The pod that an address stands for: the one posted under the address    *)
(* itself, or else the one posted under its IP.                            *)
MostSpecific(table, a) ==
  IF table[a] # None THEN table[a] ELSE IF a \in Addrs THEN table[IpOf[a]] ELSE Malformed

ProcessInit ==
  /\ StartInit
  /\ pods = [k \in Keys |-> None]
  /\ job = [s \in Slots |-> None]
  /\ damaged = FALSE
  /\ answer = NoAnswer

Doing(s, step) == job[s] # None /\ job[s].step = step

Writing == {s \in Slots : Doing(s, "write")}
Asking(s) == Doing(s, "full") \/ Doing(s, "ip")

(* truths: what would have been right at some moment since the request     *)
(* came; posts: how many were completed since, counted to two.             *)
PodArrive(s, k) ==
  /\ stage = "serve" /\ job[s] = None
  /\ job' = [job EXCEPT ![s] =
       [step |-> "full", key |-> k, pod |-> None, truths |-> {MostSpecific(pods, k)},
        posts |-> 0, raced |-> FALSE]]
  /\ UNCHANGED <<startVars, pods, damaged, answer>>

PostArrive(s, k, p) ==
  /\ stage = "serve" /\ job[s] = None
  /\ job' = [job EXCEPT ![s] =
       [step |-> "write", key |-> k, pod |-> p, truths |-> {}, posts |-> 0, raced |-> FALSE]]
  /\ damaged' = (damaged \/ Writing # {})
  /\ UNCHANGED <<startVars, pods, answer>>

(* What a look-up in the map may yield.                                    *)
Yields(k) == IF Writing = {} /\ ~damaged THEN {pods[k]} ELSE Pods \cup {None, Torn}

Raced(s) == job[s].raced \/ damaged \/ Writing # {}

Answer(s, p) ==
  /\ job' = [job EXCEPT ![s] = None]
  /\ answer' = [pod |-> p, truths |-> job[s].truths, calm |-> ~Raced(s) /\ job[s].posts # 2]

GoOnTo(s, step) ==
  /\ job' = [job EXCEPT ![s] = [@ EXCEPT !.step = step, !.raced = Raced(s)]]
  /\ UNCHANGED answer

(* Mutant of LookupFull: the IP is looked up first.                        *)
LookupIpFirst(s) ==
  /\ Doing(s, "full")
  /\ LET k == job[s].key IN
     \E p \in Yields(IF k \in Addrs THEN IpOf[k] ELSE k) :
       IF p # None \/ k \notin Addrs THEN Answer(s, p) ELSE GoOnTo(s, "ip")
  /\ UNCHANGED <<startVars, pods, damaged>>

(* authPodNew looks for the address as it is given; what has no port is    *)
(* malformed unless it was posted like that.                               *)
LookupFull(s) ==
  /\ Doing(s, "full")
  /\ \E p \in Yields(job[s].key) :
       \/ p # None /\ Answer(s, p)
       \/ p = None /\ job[s].key \in Addrs /\ GoOnTo(s, "ip")
       \/ p = None /\ job[s].key \in Ips /\ Answer(s, Malformed)
  /\ UNCHANGED <<startVars, pods, damaged>>

(* ... and then for its IP.                                                *)
LookupIp(s) ==
  /\ Doing(s, "ip")
  /\ \E p \in Yields(IpOf[job[s].key]) : Answer(s, p)
  /\ UNCHANGED <<startVars, pods, damaged>>

(* The write is done; the requests under way have one more answer that is  *)
(* right.                                                                  *)
Written(s) ==
  LET table == [pods EXCEPT ![job[s].key] = job[s].pod] IN
  IF Writing = {s} /\ ~damaged THEN {table} ELSE {table, pods}

PostDone(s) ==
  /\ Doing(s, "write")
  /\ pods' \in Written(s)
  /\ job' = [t \in Slots |->
       IF t = s THEN None
       ELSE IF Asking(t) THEN [job[t] EXCEPT !.truths = @ \cup {MostSpecific(pods', job[t].key)},
                                             !.posts = IF @ = 0 THEN 1 ELSE 2]
       ELSE job[t]]
  /\ UNCHANGED <<startVars, damaged, answer>>

(* Mutant of ProcessStop: the pods outlive the program.                    *)
ProcessStopKeepsPods ==
  /\ Stop
  /\ job' = [s \in Slots |-> None]
  /\ UNCHANGED <<pods, damaged, answer>>

(* The program ends, also when Go notices a race, and its map with it.     *)
ProcessStop ==
  /\ Stop
  /\ pods' = [k \in Keys |-> None]
  /\ job' = [s \in Slots |-> None]
  /\ damaged' = FALSE
  /\ UNCHANGED answer

Starting == Launch \/ FetchFinds \/ FetchMisses \/ StoreIndex \/ Associate

ProcessNext ==
  \/ Starting /\ UNCHANGED podVars
  \/ ProcessStop
  \/ \E s \in Slots :
       \/ \E k \in Keys : PodArrive(s, k) \/ \E p \in Pods : PostArrive(s, k, p)
       \/ LookupFull(s) \/ LookupIp(s) \/ PostDone(s)

ProcessSpec == ProcessInit /\ [][ProcessNext]_processVars

-----------------------------------------------------------------------------
Answers == Pods \cup {None, Torn, Malformed}

Job ==
  [step: {"full", "ip", "write"}, key: Keys, pod: Pods \cup {None},
   truths: SUBSET Answers, posts: {0, 1, 2}, raced: BOOLEAN]

(* What the state looks like; a program that does not serve has neither    *)
(* pods nor requests.                                                      *)
ProcessTypeOK ==
  /\ StartTypeOK
  /\ pods \in [Keys -> Pods \cup {None}]
  /\ job \in [Slots -> Job \cup {None}]
  /\ damaged \in BOOLEAN
  /\ answer \in [pod: Answers, truths: SUBSET Answers, calm: BOOLEAN]
  /\ stage # "serve" => pods = [k \in Keys |-> None] /\ job = [s \in Slots |-> None]

(* /authPod answers with the most specific pod that was posted for its     *)
(* address at some moment of the request, although it takes two looks at   *)
(* the map (pod.go:66, 79): it looks for the address before the IP, and    *)
(* nothing is ever taken out of the map.  That holds of requests that met  *)
(* no race and at most one post.  With two, the address and then its IP,   *)
(* it may answer with a pod of the IP that never stood for the address.    *)
RightAtSomeMoment == answer.calm => answer.pod \in answer.truths

(* Why that is so.  What is right now is among the truths of a request; if *)
(* it has not found the address, the same goes for the pod of the IP until *)
(* a second post is completed, and until a first the address stays empty.  *)
Tracks(j) ==
  /\ MostSpecific(pods, j.key) \in j.truths
  /\ j.step = "ip" =>
       /\ j.key \in Addrs
       /\ ~j.raced /\ j.posts # 2 => pods[IpOf[j.key]] \in j.truths
       /\ ~j.raced /\ j.posts = 0 => pods[j.key] = None

TruthsInv == \A s \in Slots : Asking(s) => Tracks(job[s])

(* Why an index is searched: a start-up that creates it has it associated  *)
(* before anything else, and a Riak with an index that is not associated   *)
(* is one where that was cut short.                                        *)
IndexInv ==
  /\ stage = "associate" => netmap
  /\ netmap => associated \/ abandoned \/ stage = "associate"
  /\ SearchableOrAbandoned

PodInv == IndexInv /\ TruthsInv /\ RightAtSomeMoment
=============================================================================
