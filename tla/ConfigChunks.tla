---------------------------- MODULE ConfigChunks ----------------------------
(***************************************************************************)
(* How a list of configuration values becomes calls to SAFE                *)
(* (createSelfConfig and createInstanceConfig of proxy/newapi.go).  SAFE   *)
(* takes at most five name-value pairs at a time, by the routes            *)
(* postInstanceConfig1 to postInstanceConfig5, so the handler posts ten    *)
(* values after ten and leaves the rest to the call that every handler     *)
(* ends with.                                                              *)
(*                                                                         *)
(* The values are numbered 1 to count, behind OtherValues[0], the instance.*)
(* The handler is one goroutine with a copy of the request: nothing it     *)
(* reads here is shared.  A call that fails, because of SAFE's status, an  *)
(* error or the timeout of the client, may have taken effect or not.       *)
(***************************************************************************)
EXTENDS Integers, Sequences

CONSTANT MaxValues  \* bounds the length of a configuration

ASSUME MaxValuesAssumption == MaxValues \in Nat

VARIABLES count,    \* how many values the request has
          current,  \* the first value that is not posted yet
          remain,   \* how many are left
          posted,   \* the calls SAFE has carried out, oldest first
          status    \* what the handler answers: "none" while it works

vars == <<count, current, remain, posted, status>>

(* A call: the values it carries, and the number its route ends in.        *)
Call(first, last, pairs) == [first |-> first, last |-> last, pairs |-> pairs]

Init ==
  /\ count \in 0..MaxValues
  /\ current = 1
  /\ remain = count
  /\ posted = <<>>
  /\ status = "none"

(* Mutants: a full chunk is taken when just ten are left, or any; the next *)
(* chunk starts with the last value of this one.                           *)
MoreEager == status = "none" /\ remain >= 10
MoreWhileAny == status = "none" /\ remain > 0
AdvanceShort == current' = current + 9 /\ remain' = remain - 9

(* The condition and the step of the loop.                                 *)
More    == status = "none" /\ remain > 10
Advance == current' = current + 10 /\ remain' = remain - 10

PostChunk ==
  /\ More
  /\ posted' = Append(posted, Call(current, current + 9, 5))
  /\ Advance
  /\ UNCHANGED <<count, status>>

(* Mutant of ChunkFails: the loop goes on after a failure.                 *)
ChunkFailsOn ==
  /\ More
  /\ Advance
  /\ UNCHANGED <<count, posted, status>>

(* The handler gives up and answers the status of the chunk that failed.   *)
ChunkFails ==
  /\ More
  /\ \/ posted' = Append(posted, Call(current, current + 9, 5))
     \/ UNCHANGED posted
  /\ status' = "failed"
  /\ UNCHANGED <<count, current, remain>>

Rest == Call(current, count, remain \div 2)

PostRest ==
  /\ status = "none" /\ ~More
  /\ posted' = Append(posted, Rest)
  /\ status' = "ok"
  /\ UNCHANGED <<count, current, remain>>

RestFails ==
  /\ status = "none" /\ ~More
  /\ posted' = Append(posted, Rest) \/ UNCHANGED posted
  /\ status' = "failed"
  /\ UNCHANGED <<count, current, remain>>

Next == PostChunk \/ ChunkFails \/ PostRest \/ RestFails

Spec == Init /\ [][Next]_vars

-----------------------------------------------------------------------------
(* What the state looks like.                                              *)
TypeOK ==
  /\ count \in Nat /\ current \in Nat /\ remain \in Nat
  /\ posted \in Seq([first: Nat, last: Nat, pairs: Nat])
  /\ status \in {"none", "ok", "failed"}

(* Where SAFE is in the list: up to which value it has it.                 *)
Reached == IF posted = <<>> THEN 0 ELSE posted[Len(posted)].last

(* The values that SAFE has, in whichever of the calls they came.          *)
Has == UNION {posted[k].first..posted[k].last : k \in 1..Len(posted)}

(* SAFE gets every value once and in order, whichever call fails: each     *)
(* call goes on where the one before it ended (newapi.go:376, 395-398).    *)
InOrderOnce ==
  \A k \in 1..Len(posted) :
    posted[k].first = IF k = 1 THEN 1 ELSE posted[k - 1].last + 1

(* The caller is answered 200 only when SAFE has every value of its list:  *)
(* the last chunk answers for all those before it (newapi.go:388-404).  An *)
(* answer of failure is that of one chunk: it says nothing of the others,  *)
(* and SAFE may have any part of the list from its start, all of it too.   *)
OkMeansAll == status = "ok" => Has = 1..count

(* A list of pairs is posted by routes SAFE has, postInstanceConfig1 to 5, *)
(* each with as many pairs as its name says; never by postInstanceConfig0  *)
(* (newapi.go:400-401, 708-712).                                           *)
WholePairs == count % 2 = 0 /\ count > 0

RouteFits ==
  WholePairs =>
    \A k \in 1..Len(posted) :
      /\ posted[k].pairs \in 1..5
      /\ posted[k].last - posted[k].first + 1 = 2 * posted[k].pairs

(* What the loop keeps: the cursor and the number of values left agree     *)
(* with each other and with what SAFE has; there is always something left. *)
LoopInv ==
  /\ current + remain = count + 1
  /\ current % 2 = 1
  /\ count > 0 => remain > 0
  /\ status = "none" => Reached = current - 1
  /\ status = "ok" => Reached = count
  /\ Has = 1..Reached

IInv == TypeOK /\ LoopInv /\ InOrderOnce /\ RouteFits /\ OkMeansAll
=============================================================================
