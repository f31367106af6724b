------------------------- MODULE ConfigChunksProofs -------------------------
(***************************************************************************)
(* Configurations of every length: SAFE gets each value once and in order, *)
(* by routes it has, and the answer tells how far it got.                  *)
(***************************************************************************)
EXTENDS ConfigChunks, TLAPS

(* What a call added to the posted ones changes: a value further down the  *)
(* list becomes the one reached, and SAFE has everything before it.        *)
LEMMA PostingCall ==
  ASSUME TypeOK, InOrderOnce, RouteFits, Reached \in Nat, Has = 1..Reached,
         NEW c \in [first: Nat, last: Nat, pairs: Nat],
         c.first = Reached + 1, c.last >= Reached,
         WholePairs => /\ c.pairs \in 1..5
                       /\ c.last - c.first + 1 = 2 * c.pairs,
         posted' = Append(posted, c), UNCHANGED count
  PROVE  /\ posted' \in Seq([first: Nat, last: Nat, pairs: Nat])
         /\ InOrderOnce' /\ RouteFits'
         /\ Reached' = c.last
         /\ Has' = 1..Reached'
<1>1. posted \in Seq([first: Nat, last: Nat, pairs: Nat])
  BY DEF TypeOK
<1>2. /\ Len(posted') = Len(posted) + 1
      /\ \A k \in 1..Len(posted) : posted'[k] = posted[k]
      /\ posted'[Len(posted) + 1] = c
      /\ posted' \in Seq([first: Nat, last: Nat, pairs: Nat])
  BY <1>1
<1>3. Len(posted) \in Nat /\ (posted = <<>> <=> Len(posted) = 0)
  BY <1>1
<1>4. InOrderOnce'
  <2> SUFFICES ASSUME NEW k \in 1..Len(posted')
               PROVE  posted'[k].first = IF k = 1 THEN 1 ELSE posted'[k - 1].last + 1
    BY DEF InOrderOnce
  <2>1. CASE k \in 1..Len(posted)
    <3>1. posted[k].first = IF k = 1 THEN 1 ELSE posted[k - 1].last + 1
      BY <2>1 DEF InOrderOnce
    <3>2. k # 1 => k - 1 \in 1..Len(posted)
      BY <2>1, <1>3
    <3> QED
      BY <2>1, <3>1, <3>2, <1>2
  <2>2. CASE k = Len(posted) + 1
    <3>1. posted'[k] = c
      BY <2>2, <1>2
    <3>2. CASE posted = <<>>
      BY <3>1, <3>2, <2>2, <1>3 DEF Reached
    <3>3. CASE posted # <<>>
      <4>1. k # 1 /\ k - 1 = Len(posted) /\ k - 1 \in 1..Len(posted)
        BY <3>3, <2>2, <1>3
      <4> QED
        BY <3>1, <3>3, <4>1, <1>2 DEF Reached
    <3> QED
      BY <3>2, <3>3
  <2> QED
    BY <2>1, <2>2, <1>2, <1>3
<1>5. RouteFits'
  <2> SUFFICES ASSUME WholePairs', NEW k \in 1..Len(posted')
               PROVE  /\ posted'[k].pairs \in 1..5
                      /\ posted'[k].last - posted'[k].first + 1 = 2 * posted'[k].pairs
    BY DEF RouteFits
  <2>1. WholePairs
    BY DEF WholePairs
  <2>2. CASE k \in 1..Len(posted)
    BY <1>2, <2>1, <2>2 DEF RouteFits
  <2>3. CASE k = Len(posted) + 1
    BY <1>2, <2>1, <2>3
  <2>4. k \in 1..Len(posted) \/ k = Len(posted) + 1
    BY <1>2, <1>3
  <2> QED
    BY <2>2, <2>3, <2>4
<1>6. Reached' = c.last
  <2>1. posted' # <<>>
    BY <1>2, <1>3
  <2>2. posted'[Len(posted')] = c
    BY <1>2
  <2> QED
    BY <2>1, <2>2 DEF Reached
<1>7. Has' = Has \cup (c.first..c.last)
  <2>1. 1..Len(posted') = 1..Len(posted) \cup {Len(posted) + 1}
    BY <1>2, <1>3
  <2>2. \A k \in 1..Len(posted) :
          posted'[k].first..posted'[k].last = posted[k].first..posted[k].last
    BY <1>2
  <2>3. posted'[Len(posted) + 1].first..posted'[Len(posted) + 1].last = c.first..c.last
    BY <1>2
  <2> QED
    BY <2>1, <2>2, <2>3 DEF Has
<1>8. Has' = 1..Reached'
  BY <1>6, <1>7
<1> QED
  BY <1>2, <1>4, <1>5, <1>6, <1>8

(* The call the loop is about to make, and the one after it, fit.          *)
LEMMA NextCallFits ==
  ASSUME TypeOK, LoopInv, status = "none",
         NEW c \in {Call(current, current + 9, 5), Rest},
         c = Rest <=> ~More
  PROVE  /\ c \in [first: Nat, last: Nat, pairs: Nat]
         /\ Reached \in Nat /\ c.first = Reached + 1 /\ c.last >= Reached
         /\ WholePairs => c.pairs \in 1..5 /\ c.last - c.first + 1 = 2 * c.pairs
<1> USE DEF TypeOK, LoopInv
<1>1. /\ current \in Nat \ {0} /\ count \in Nat /\ remain \in Nat
      /\ current + remain = count + 1 /\ Reached + 1 = current
  OBVIOUS
<1>2. CASE More
  <2>1. c = Call(current, current + 9, 5)
    BY <1>2
  <2>2. c.first = current /\ c.last = current + 9 /\ c.pairs = 5
    BY <2>1 DEF Call
  <2>3. c \in [first: Nat, last: Nat, pairs: Nat]
    BY <1>1, <2>1 DEF Call
  <2> QED
    BY <1>1, <2>2, <2>3
<1>3. CASE ~More
  <2>1. c = Rest /\ remain <= 10
    BY <1>3 DEF More
  <2>2. c.first = current /\ c.last = count /\ c.pairs = remain \div 2
    BY <2>1 DEF Rest, Call
  <2>3. remain \div 2 \in Nat
    BY <1>1
  <2>4. c \in [first: Nat, last: Nat, pairs: Nat]
    BY <1>1, <2>1, <2>3 DEF Rest, Call
  <2>5. ASSUME WholePairs
        PROVE  remain \div 2 \in 1..5 /\ remain = 2 * (remain \div 2)
    BY <1>1, <2>1, <2>5 DEF WholePairs
  <2> QED
    BY <1>1, <2>2, <2>4, <2>5
<1> QED
  BY <1>2, <1>3

(* The invariant is inductive.                                             *)
THEOREM LoopInvariant == Spec => []IInv
<1>1. Init => IInv
  BY MaxValuesAssumption DEF Init, IInv, TypeOK, LoopInv, InOrderOnce, RouteFits,
     OkMeansAll, Reached, Has
<1>2. IInv /\ [Next]_vars => IInv'
  <2> SUFFICES ASSUME IInv, [Next]_vars
               PROVE  IInv'
    OBVIOUS
  <2> USE DEF IInv
  <2>0. Has = 1..Reached
    BY DEF LoopInv
  <2>1. CASE UNCHANGED vars
    <3>1. InOrderOnce' /\ RouteFits'
      BY <2>1 DEF vars, InOrderOnce, RouteFits, WholePairs
    <3>2. TypeOK' /\ LoopInv' /\ OkMeansAll'
      BY <2>1 DEF vars, TypeOK, LoopInv, OkMeansAll, Reached, Has
    <3> QED
      BY <3>1, <3>2
  <2>2. CASE PostChunk
    <3> DEFINE c == Call(current, current + 9, 5)
    <3>1. status = "none" /\ More /\ posted' = Append(posted, c) /\ Advance
          /\ UNCHANGED <<count, status>>
      BY <2>2 DEF PostChunk, More
    <3>2. c # Rest
      BY <3>1 DEF TypeOK, LoopInv, Call, Rest, More
    <3>3. /\ posted' \in Seq([first: Nat, last: Nat, pairs: Nat])
          /\ InOrderOnce' /\ RouteFits' /\ Reached' = c.last /\ Has' = 1..Reached'
      BY <3>1, <3>2, <2>0, NextCallFits, PostingCall
    <3>4. c.last = current + 9
      BY DEF Call
    <3>5. TypeOK'
      BY <3>1, <3>3 DEF TypeOK, Advance, More
    <3>6. LoopInv'
      BY <3>1, <3>3, <3>4 DEF LoopInv, TypeOK, Advance, More
    <3>7. OkMeansAll'
      BY <3>1 DEF OkMeansAll
    <3> QED
      BY <3>3, <3>5, <3>6, <3>7
  <2>3. CASE ChunkFails
    <3> DEFINE c == Call(current, current + 9, 5)
    <3>1. status = "none" /\ More /\ status' = "failed"
          /\ UNCHANGED <<count, current, remain>>
      BY <2>3 DEF ChunkFails, More
    <3>2. CASE posted' = Append(posted, c)
      <4>1. c # Rest
        BY <3>1 DEF TypeOK, LoopInv, Call, Rest, More
      <4>2. /\ posted' \in Seq([first: Nat, last: Nat, pairs: Nat])
            /\ InOrderOnce' /\ RouteFits' /\ Reached' = c.last /\ Has' = 1..Reached'
        BY <3>1, <3>2, <4>1, <2>0, NextCallFits, PostingCall
      <4>3. c.last = current + 9
        BY DEF Call
      <4> QED
        BY <3>1, <4>2, <4>3 DEF TypeOK, LoopInv, OkMeansAll
    <3>3. CASE UNCHANGED posted
      BY <3>1, <3>3 DEF TypeOK, LoopInv, InOrderOnce, RouteFits, WholePairs,
         OkMeansAll, Reached, Has
    <3> QED
      BY <2>3, <3>2, <3>3 DEF ChunkFails
  <2>4. ASSUME PostRest \/ RestFails
        PROVE  IInv'
    <3>1. /\ status = "none" /\ ~More /\ status' \in {"ok", "failed"}
          /\ UNCHANGED <<count, current, remain>>
      BY <2>4 DEF PostRest, RestFails
    <3>2. CASE posted' = Append(posted, Rest)
      <4>1. /\ posted' \in Seq([first: Nat, last: Nat, pairs: Nat])
            /\ InOrderOnce' /\ RouteFits' /\ Reached' = Rest.last
            /\ Has' = 1..Reached'
        BY <3>1, <3>2, <2>0, NextCallFits, PostingCall
      <4>2. Rest.last = count
        BY DEF Rest, Call
      <4> QED
        BY <3>1, <4>1, <4>2 DEF TypeOK, LoopInv, OkMeansAll
    <3>3. CASE UNCHANGED posted /\ status' = "failed"
      BY <3>1, <3>3 DEF TypeOK, LoopInv, InOrderOnce, RouteFits, WholePairs,
         OkMeansAll, Reached, Has
    <3> QED
      BY <2>4, <3>2, <3>3 DEF PostRest, RestFails
  <2> QED
    BY <2>1, <2>2, <2>3, <2>4 DEF Next
<1> QED
  BY <1>1, <1>2, PTL DEF Spec

(* SAFE gets every value once and in order (newapi.go:376, 395-398).       *)
THEOREM ValuesInOrder == Spec => []InOrderOnce
<1>1. IInv => InOrderOnce
  BY DEF IInv
<1> QED
  BY <1>1, LoopInvariant, PTL

(* A list of pairs is posted by routes SAFE has (newapi.go:401, 708-712).  *)
THEOREM RoutesFit == Spec => []RouteFits
<1>1. IInv => RouteFits
  BY DEF IInv
<1> QED
  BY <1>1, LoopInvariant, PTL

(* The last chunk answers for those before it: 200 says that SAFE has the  *)
(* whole list (newapi.go:388-404).                                         *)
THEOREM OkMeansEverything == Spec => []OkMeansAll
<1>1. IInv => OkMeansAll
  BY DEF IInv
<1> QED
  BY <1>1, LoopInvariant, PTL

(* The cursor and what is left stay natural numbers, though the loop takes *)
(* ten away, and SAFE is sent calls and nothing else.                      *)
THEOREM ChunkTypes == Spec => []TypeOK
<1>1. IInv => TypeOK
  BY DEF IInv
<1> QED
  BY <1>1, LoopInvariant, PTL
=============================================================================
