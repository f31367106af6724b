---------------------------- MODULE KvStoreProofs ----------------------------
(***************************************************************************)
(* Proofs about KvStore, for any paths, items, lists and readers: the      *)
(* index is the inverse of the data, and what a request reads from a slice *)
(* of it without the lock was true once.                                   *)
(***************************************************************************)
EXTENDS KvStore, FiniteSetTheorems, SequenceTheorems, WellFoundedInduction, TLAPS

-----------------------------------------------------------------------------
(* Counting the occurrences of x among the first n elements of s.          *)

LEMMA OccurrencesNat ==
  ASSUME NEW s, NEW n \in Nat, NEW x
  PROVE  /\ IsFiniteSet({j \in 1..n : s[j] = x})
         /\ Occurrences(s, n, x) \in Nat
         /\ Occurrences(s, n, x) = 0 <=> \A j \in 1..n : s[j] # x
<1> DEFINE S == {j \in 1..n : s[j] = x}
<1>1. IsFiniteSet(1..n)
  BY FS_Interval
<1>2. IsFiniteSet(S)
  BY <1>1, FS_Subset
<1>3. Cardinality(S) \in Nat /\ (Cardinality(S) = 0 <=> S = {})
  BY <1>2, FS_CardinalityType, FS_EmptySet
<1>4. S = {} <=> \A j \in 1..n : s[j] # x
  OBVIOUS
<1> QED
  BY <1>2, <1>3, <1>4 DEF Occurrences

(* One element is added behind the others.                                 *)
Copied(s, t, n) == \A j \in 1..n : t[j] = s[j]

LEMMA OccurrencesAdded ==
  ASSUME NEW s, NEW t, NEW n \in Nat, Copied(s, t, n), NEW x
  PROVE  Occurrences(t, n + 1, x) = Occurrences(s, n, x) + (IF t[n + 1] = x THEN 1 ELSE 0)
<1> DEFINE S == {j \in 1..n : s[j] = x}
           T == {j \in 1..(n + 1) : t[j] = x}
<1>1. IsFiniteSet(S) /\ Cardinality(S) \in Nat
  BY OccurrencesNat DEF Occurrences
<1>2. Occurrences(s, n, x) = Cardinality(S) /\ Occurrences(t, n + 1, x) = Cardinality(T)
  BY DEF Occurrences
<1>3. t[n + 1] = x => T = S \cup {n + 1} /\ n + 1 \notin S
  BY DEF Copied
<1>4. t[n + 1] # x => T = S
  BY DEF Copied
<1> HIDE DEF S, T
<1>5. Cardinality(S \cup {n + 1}) = IF n + 1 \in S THEN Cardinality(S) ELSE Cardinality(S) + 1
  BY <1>1, FS_AddElement
<1>6. CASE t[n + 1] = x
  <2>1. Cardinality(T) = Cardinality(S) + 1
    BY <1>3, <1>5, <1>6
  <2> QED
    BY <1>2, <1>6, <2>1
<1>7. CASE t[n + 1] # x
  BY <1>1, <1>2, <1>4, <1>7
<1> QED
  BY <1>6, <1>7

(* One element is taken out and those behind it move down.                 *)
Taken(s, t, n, f) == \A j \in 1..(n - 1) : t[j] = IF j < f THEN s[j] ELSE s[j + 1]

LEMMA OccurrencesTaken ==
  ASSUME NEW s, NEW t, NEW n \in Nat \ {0}, NEW f \in 1..n,
         Taken(s, t, n, f), NEW x
  PROVE  Occurrences(t, n - 1, x) = Occurrences(s, n, x) - (IF s[f] = x THEN 1 ELSE 0)
<1> DEFINE S == {j \in 1..n : s[j] = x}
           T == {j \in 1..(n - 1) : t[j] = x}
           m == [j \in T |-> IF j < f THEN j ELSE j + 1]
<1>0. n - 1 \in Nat /\ n \in Nat
  OBVIOUS
<1>1. /\ IsFiniteSet(S) /\ Cardinality(S) \in Nat /\ IsFiniteSet(T)
      /\ Occurrences(s, n, x) = Cardinality(S) /\ Occurrences(t, n - 1, x) = Cardinality(T)
  <2>1. IsFiniteSet(S) /\ Occurrences(s, n, x) \in Nat
    BY <1>0, OccurrencesNat
  <2>2. IsFiniteSet(T)
    BY <1>0, OccurrencesNat
  <2> QED
    BY <2>1, <2>2 DEF Occurrences
<1>2. m \in Bijection(T, S \ {f})
  <2>1. m \in [T -> S \ {f}]
    BY DEF Taken
  <2>2. \A j, k \in T : m[j] = m[k] => j = k
    OBVIOUS
  <2>3. \A k \in S \ {f} : \E j \in T : m[j] = k
    <3> TAKE k \in S \ {f}
    <3>1. CASE k < f
      <4>1. k \in T /\ m[k] = k
        BY <3>1 DEF Taken
      <4> QED
        BY <4>1
    <3>2. CASE k > f
      <4>1. k - 1 \in T /\ m[k - 1] = k
        BY <3>2 DEF Taken
      <4> QED
        BY <4>1
    <3> QED
      BY <3>1, <3>2
  <2> HIDE DEF m, S, T
  <2> QED
    BY <2>1, <2>2, <2>3 DEF Bijection, Injection, Surjection, IsInjective
<1>3. Cardinality(T) = Cardinality(S \ {f})
  BY <1>1, <1>2, FS_Bijection DEF ExistsBijection
<1>4. Cardinality(S \ {f}) = IF f \in S THEN Cardinality(S) - 1 ELSE Cardinality(S)
  BY <1>1, FS_RemoveElement
<1>5. f \in S <=> s[f] = x
  OBVIOUS
<1> HIDE DEF S, T
<1> QED
  BY <1>1, <1>3, <1>4, <1>5

(* A list is gone through from its head.                                   *)
LEMMA OccurrencesTail ==
  ASSUME NEW S, NEW s \in Seq(S), s # <<>>, NEW x
  PROVE  /\ Tail(s) \in Seq(S) /\ Head(s) \in S /\ Head(s) = s[1]
         /\ \A j \in DOMAIN Tail(s) : \E k \in DOMAIN s : s[k] = Tail(s)[j]
         /\ Occurrences(Tail(s), Len(Tail(s)), x) =
              Occurrences(s, Len(s), x) - (IF Head(s) = x THEN 1 ELSE 0)
<1>1. /\ Head(s) \in S /\ Tail(s) \in Seq(S) /\ Len(Tail(s)) = Len(s) - 1
      /\ \A j \in 1..Len(Tail(s)) : Tail(s)[j] = s[j + 1]
      /\ Len(s) \in Nat \ {0} /\ Head(s) = s[1]
      /\ DOMAIN s = 1..Len(s) /\ DOMAIN Tail(s) = 1..Len(Tail(s))
  BY HeadTailProperties, EmptySeq, LenProperties
<1>2. Occurrences(Tail(s), Len(s) - 1, x) =
        Occurrences(s, Len(s), x) - (IF s[1] = x THEN 1 ELSE 0)
  <2> DEFINE t == Tail(s)
             n == Len(s)
  <2>1. n \in Nat \ {0} /\ 1 \in 1..n
    BY <1>1
  <2>2. PICK f \in 1..n : f = 1
    BY <2>1
  <2>4. Taken(s, t, n, f)
    BY <1>1, <2>2 DEF Taken
  <2> HIDE DEF t, n
  <2>3. Occurrences(t, n - 1, x) = Occurrences(s, n, x) - (IF s[f] = x THEN 1 ELSE 0)
    BY <2>1, <2>2, <2>4, OccurrencesTaken
  <2> QED
    BY <2>2, <2>3 DEF t, n
<1>3. \A j \in 1..Len(Tail(s)) : j + 1 \in 1..Len(s)
  BY <1>1
<1> QED
  BY <1>1, <1>2, <1>3

-----------------------------------------------------------------------------
(* The slices of the index, and what writers do to them.                   *)

LEMMA SeqOfLength ==
  ASSUME NEW S, NEW n \in Nat, NEW f \in [1..n -> S]
  PROVE  f \in Seq(S) /\ Len(f) = n
<1>1. f \in Seq(S)
  BY SeqDef
<1>2. Len(f) \in Nat /\ 1..Len(f) = 1..n
  BY <1>1, LenProperties
<1>3. Len(f) = n
  <2>1. Len(f) \in 1..Len(f) \/ Len(f) = 0
    BY <1>2
  <2>2. n \in 1..n \/ n = 0
    OBVIOUS
  <2> QED
    BY <1>2, <2>1, <2>2
<1> QED
  BY <1>1, <1>3

(* An entry has a first cell.                                              *)
LEMMA FirstFacts ==
  ASSUME NEW slice, slice.len \in Nat, NEW p \in Entries(slice)
  PROVE  First(slice, p) \in 1..slice.len /\ slice.cells[First(slice, p)] = p
<1> DEFINE T == {j \in 1..slice.len : slice.cells[j] = p}
           IsFirst(j) == slice.cells[j] = p /\ \A k \in 1..(j - 1) : slice.cells[k] # p
<1>1. T \subseteq Nat /\ T # {}
  BY DEF Entries
<1>2. \E j \in T : \A k \in T : ~ (<<k, j>> \in OpToRel(<, Nat))
  <2> HIDE DEF T
  <2> QED
    BY <1>1, NatLessThanWellFounded, WFMin
<1>3. PICK j \in T : \A k \in T : ~ (k < j)
  BY <1>1, <1>2 DEF OpToRel
<1>4. \A k \in 1..(j - 1) : slice.cells[k] # p
  BY <1>3
<1>5. \E k \in 1..slice.len : IsFirst(k)
  BY <1>3, <1>4
<1>6. First(slice, p) = CHOOSE k \in 1..slice.len : IsFirst(k)
  BY DEF First
<1> HIDE DEF IsFirst
<1>7. First(slice, p) \in 1..slice.len /\ IsFirst(First(slice, p))
  BY <1>5, <1>6
<1> QED
  BY <1>7 DEF IsFirst

(* A slice that writers may leave in the index.                            *)
Sound(slice) ==
  /\ slice \in Slices
  /\ slice.len <= Len(slice.cells)
  /\ Entries(slice) \subseteq Paths

Count(slice, p) == Occurrences(slice.cells, slice.len, p)

LEMMA SoundFacts ==
  ASSUME NEW slice, Sound(slice)
  PROVE  /\ slice = [cells |-> slice.cells, len |-> slice.len]
         /\ slice.cells \in [1..Len(slice.cells) -> Cells] /\ slice.cells \in Seq(Cells)
         /\ DOMAIN slice.cells = 1..Len(slice.cells)
         /\ Len(slice.cells) \in Nat /\ slice.len \in Nat /\ slice.len <= Len(slice.cells)
         /\ \A j \in 1..slice.len : slice.cells[j] \in Paths
         /\ \A p : Count(slice, p) \in Nat /\ (Count(slice, p) > 0 <=> p \in Entries(slice))
<1>1. slice.cells \in Seq(Cells) /\ slice.len \in Nat /\ slice.len <= Len(slice.cells)
      /\ slice = [cells |-> slice.cells, len |-> slice.len]
  BY DEF Sound, Slices
<1>2. \A j \in 1..slice.len : slice.cells[j] \in Paths
  BY DEF Sound, Entries
<1>3. ASSUME NEW p
      PROVE  Count(slice, p) \in Nat /\ (Count(slice, p) > 0 <=> p \in Entries(slice))
  <2>1. Count(slice, p) \in Nat
        /\ (Count(slice, p) = 0 <=> \A j \in 1..slice.len : slice.cells[j] # p)
    BY <1>1, OccurrencesNat DEF Count
  <2> QED
    BY <2>1 DEF Entries
<1> QED
  BY <1>1, <1>2, <1>3, LenProperties

(* RemoveIndex takes one entry out, and brings no other cell in.           *)
LEMMA ShiftedFacts ==
  ASSUME NEW slice, Sound(slice), NEW p \in Entries(slice), NEW t, t = Shifted(slice, p)
  PROVE  /\ Sound(t) /\ t.len = slice.len - 1 /\ Len(t.cells) = Len(slice.cells)
         /\ \A q : Count(t, q) = Count(slice, q) - (IF q = p THEN 1 ELSE 0)
         /\ \A j \in 1..Len(slice.cells) :
              t.cells[j] = slice.cells[j] \/ t.cells[j] \in Entries(slice)
         /\ Entries(t) \subseteq Entries(slice)
<1> DEFINE n == slice.len
           N == Len(slice.cells)
           f == First(slice, p)
<1>1. /\ slice.cells \in [1..N -> Cells] /\ DOMAIN slice.cells = 1..N /\ N \in Nat /\ n \in Nat
      /\ n <= N /\ \A j \in 1..n : slice.cells[j] \in Paths
  BY SoundFacts
<1>2. f \in 1..n /\ slice.cells[f] = p
  BY <1>1, FirstFacts
<1>3. /\ t.cells = [j \in 1..N |-> IF f <= j /\ j < n THEN slice.cells[j + 1] ELSE slice.cells[j]]
      /\ t.len = n - 1 /\ t = [cells |-> t.cells, len |-> t.len]
  BY <1>1 DEF Shifted
<1> HIDE DEF n, N, f
<1>4. t.cells \in [1..N -> Cells]
  <2>1. \A j \in 1..N : f <= j /\ j < n => j + 1 \in 1..N
    BY <1>1, <1>2
  <2> QED
    BY <1>1, <1>3, <2>1
<1>5. t.cells \in Seq(Cells) /\ Len(t.cells) = N
  BY <1>1, <1>4, SeqOfLength
<1>6. \A j \in 1..N : t.cells[j] = slice.cells[j] \/ \E k \in 1..n : t.cells[j] = slice.cells[k]
  <2>1. \A j \in 1..N : f <= j /\ j < n => j + 1 \in 1..n
    BY <1>1, <1>2
  <2> QED
    BY <1>3, <2>1
<1>7. Taken(slice.cells, t.cells, n, f)
  <2> SUFFICES ASSUME NEW j \in 1..(n - 1)
               PROVE  t.cells[j] = IF j < f THEN slice.cells[j] ELSE slice.cells[j + 1]
    BY DEF Taken
  <2>1. j \in 1..N /\ j < n
    BY <1>1
  <2> QED
    BY <1>1, <1>2, <1>3, <2>1
<1>8. \A q : Occurrences(t.cells, n - 1, q) =
               Occurrences(slice.cells, n, q) - (IF slice.cells[f] = q THEN 1 ELSE 0)
  <2>1. n \in Nat \ {0}
    BY <1>1, <1>2
  <2> QED
    BY <1>2, <1>7, <2>1, OccurrencesTaken
<1>9. \A j \in 1..(n - 1) : \E k \in 1..n : t.cells[j] = slice.cells[k]
  <2> SUFFICES ASSUME NEW j \in 1..(n - 1)
               PROVE  \E k \in 1..n : t.cells[j] = slice.cells[k]
    OBVIOUS
  <2>1. j \in 1..N /\ j \in 1..n
    BY <1>1
  <2> QED
    BY <1>6, <2>1
<1>10. \A j \in 1..t.len : t.cells[j] \in Paths
  BY <1>1, <1>3, <1>9
<1>11. Sound(t)
  <2>1. t.len \in Nat /\ t.len <= Len(t.cells)
    BY <1>1, <1>2, <1>3, <1>5
  <2> QED
    BY <1>3, <1>5, <1>10, <2>1 DEF Sound, Slices, Entries
<1>12. \A q : Count(t, q) = Count(slice, q) - (IF q = p THEN 1 ELSE 0)
  BY <1>2, <1>3, <1>8 DEF Count, n
<1>13. Entries(t) \subseteq Entries(slice)
  BY <1>3, <1>9 DEF Entries, n
<1>14. \A j \in 1..N : t.cells[j] = slice.cells[j] \/ t.cells[j] \in Entries(slice)
  BY <1>6 DEF Entries, n
<1> QED
  BY <1>3, <1>5, <1>11, <1>12, <1>13, <1>14 DEF n, N

(* AddIndex in the array that is there writes behind the entries.          *)
LEMMA AppendedFacts ==
  ASSUME NEW slice, Sound(slice), slice.len < Len(slice.cells), NEW p \in Paths,
         NEW t, t = Appended(slice, p)
  PROVE  /\ Sound(t) /\ t.len = slice.len + 1 /\ Len(t.cells) = Len(slice.cells)
         /\ \A q : Count(t, q) = Count(slice, q) + (IF q = p THEN 1 ELSE 0)
         /\ \A j \in 1..Len(slice.cells) :
              t.cells[j] = IF j = slice.len + 1 THEN p ELSE slice.cells[j]
         /\ Entries(t) = Entries(slice) \cup {p}
<1> DEFINE n == slice.len
           N == Len(slice.cells)
<1>1. /\ slice.cells \in Seq(Cells) /\ DOMAIN slice.cells = 1..N /\ N \in Nat /\ n \in Nat
      /\ n < N /\ \A j \in 1..n : slice.cells[j] \in Paths
  BY SoundFacts
<1>2. t.cells = [slice.cells EXCEPT ![n + 1] = p] /\ t.len = n + 1
      /\ t = [cells |-> t.cells, len |-> t.len]
  BY DEF Appended
<1>3. n + 1 \in 1..N /\ p \in Cells
  BY <1>1 DEF Cells
<1> HIDE DEF n, N
<1>4. /\ t.cells \in Seq(Cells) /\ Len(t.cells) = N
      /\ \A j \in 1..N : t.cells[j] = IF j = n + 1 THEN p ELSE slice.cells[j]
  BY <1>1, <1>2, <1>3, ExceptSeq DEF N
<1>5. \A j \in 1..n : t.cells[j] = slice.cells[j]
  BY <1>1, <1>4
<1>6. t.cells[n + 1] = p
  BY <1>3, <1>4
<1>7. \A q : Occurrences(t.cells, n + 1, q) =
               Occurrences(slice.cells, n, q) + (IF t.cells[n + 1] = q THEN 1 ELSE 0)
  <2>1. Copied(slice.cells, t.cells, n)
    BY <1>5 DEF Copied
  <2> QED
    BY <1>1, <2>1, OccurrencesAdded
<1>8. Entries(t) = Entries(slice) \cup {p}
  <2>1. 1..t.len = (1..n) \cup {n + 1}
    BY <1>1, <1>2
  <2> QED
    BY <1>5, <1>6, <2>1 DEF Entries, n
<1>9. Sound(t)
  <2>1. t.len \in Nat /\ t.len <= Len(t.cells)
    BY <1>1, <1>2, <1>4
  <2> QED
    BY <1>2, <1>4, <1>8, <2>1 DEF Sound, Slices
<1> QED
  BY <1>2, <1>4, <1>6, <1>7, <1>8, <1>9 DEF Count, n, N

(* AddIndex in a larger array copies the entries and writes behind them.   *)
LEMMA LargerFacts ==
  ASSUME NEW slice, Sound(slice), ~ (slice.len < Len(slice.cells)), NEW p \in Paths,
         NEW t, t = Larger(slice, p)
  PROVE  /\ Sound(t) /\ t.len = slice.len + 1
         /\ \A q : Count(t, q) = Count(slice, q) + (IF q = p THEN 1 ELSE 0)
<1> DEFINE n == slice.len
           G == Grown(Len(slice.cells))
<1>1. n \in Nat /\ Len(slice.cells) = n /\ \A j \in 1..n : slice.cells[j] \in Paths
  BY SoundFacts
<1>2. /\ t.cells = [j \in 1..G |-> IF j <= n THEN slice.cells[j] ELSE IF j = n + 1 THEN p ELSE Zero]
      /\ t.len = n + 1 /\ t = [cells |-> t.cells, len |-> t.len]
  BY DEF Larger
<1>3. G \in Nat /\ n < G
  BY <1>1 DEF Grown
<1> HIDE DEF n, G
<1>4. t.cells \in [1..G -> Cells]
  <2>1. \A j \in 1..G : j <= n => j \in 1..n
    BY <1>1, <1>3
  <2> QED
    BY <1>1, <1>2, <2>1 DEF Cells
<1>5. t.cells \in Seq(Cells) /\ Len(t.cells) = G
  BY <1>3, <1>4, SeqOfLength
<1>6. (\A j \in 1..n : t.cells[j] = slice.cells[j]) /\ t.cells[n + 1] = p
  <2>1. n + 1 \in 1..G /\ \A j \in 1..n : j \in 1..G /\ j <= n
    BY <1>1, <1>3
  <2>2. ~ (n + 1 <= n)
    BY <1>1
  <2> QED
    BY <1>2, <2>1, <2>2
<1>7. \A q : Occurrences(t.cells, n + 1, q) =
               Occurrences(slice.cells, n, q) + (IF t.cells[n + 1] = q THEN 1 ELSE 0)
  <2>1. Copied(slice.cells, t.cells, n)
    BY <1>6 DEF Copied
  <2> QED
    BY <1>1, <2>1, OccurrencesAdded
<1>8. Entries(t) \subseteq Paths
  <2>1. 1..t.len = (1..n) \cup {n + 1}
    BY <1>1, <1>2
  <2> QED
    BY <1>1, <1>6, <2>1 DEF Entries
<1>9. Sound(t)
  <2>1. t.len \in Nat /\ t.len <= Len(t.cells)
    BY <1>1, <1>2, <1>3, <1>5
  <2> QED
    BY <1>2, <1>5, <1>8, <2>1 DEF Sound, Slices
<1> QED
  BY <1>2, <1>6, <1>7, <1>9 DEF Count, n

-----------------------------------------------------------------------------
(* The types and the index.                                                *)

Jobs == [step: {"remove", "append"}, path: Paths, list: Seq(Items) \cup {Absent}, todo: Seq(Items)]

(* A writer in one of its loops has a path and a list.                     *)
LEMMA WriterFacts ==
  ASSUME TypeOK, writer.step \in {"remove", "append"}
  PROVE  /\ writer \in Jobs /\ writer # NoLock
         /\ writer.path \in Paths /\ writer.list \in Seq(Items) \cup {Absent}
         /\ writer.todo \in Seq(Items)
<1>1. writer # NoLock
  BY DEF NoLock
<1> QED
  BY <1>1 DEF TypeOK, Jobs

(* What the invariants say of the slices of the index.                     *)
LEMMA SlicesSound ==
  (TypeOK /\ \A i \in Items : Entries(index[i]) \subseteq Paths) <=>
  /\ TypeOK
  /\ \A i \in Items : Sound(index[i])
BY DEF TypeOK, Sound

(* A step leaves sound slices in the index.                                *)
LEMMA IndexNext ==
  ASSUME TypeOK, IInv, [Next]_vars
  PROVE  /\ index' \in [Items -> Slices]
         /\ \A i \in Items : Sound(index[i]) /\ Sound(index'[i])
<1>1. index \in [Items -> Slices] /\ \A i \in Items : Sound(index[i])
  BY SlicesSound DEF IInv, TypeOK
<1>2. CASE index' = index
  BY <1>1, <1>2
<1>3. ASSUME NEW item \in Items, NEW slice, Sound(slice), index' = [index EXCEPT ![item] = slice]
      PROVE  index' \in [Items -> Slices] /\ \A i \in Items : Sound(index'[i])
  BY <1>1, <1>3 DEF Sound
<1>4. CASE RemoveOneIndex
  <2>1. writer.todo \in Seq(Items) /\ writer.todo # <<>>
    BY <1>4, WriterFacts DEF RemoveOneIndex
  <2>2. Head(writer.todo) \in Items
    BY <2>1, OccurrencesTail
  <2>3. PICK item \in Items : item = Head(writer.todo)
    BY <2>2
  <2>4. CASE writer.path \in Entries(index[item])
    <3>1. PICK slice : slice = Shifted(index[item], writer.path)
      OBVIOUS
    <3>2. Sound(slice)
      BY <1>1, <2>4, <3>1, ShiftedFacts
    <3>3. index' = [index EXCEPT ![item] = slice]
      BY <1>4, <2>3, <2>4, <3>1 DEF RemoveOneIndex
    <3> QED
      BY <1>1, <1>3, <3>2, <3>3
  <2>5. CASE writer.path \notin Entries(index[item])
    BY <1>2, <1>4, <2>3, <2>5 DEF RemoveOneIndex
  <2> QED
    BY <2>4, <2>5
<1>5. CASE AppendOneIndex
  <2>1. writer.todo \in Seq(Items) /\ writer.todo # <<>> /\ writer.path \in Paths
    BY <1>5, WriterFacts DEF AppendOneIndex
  <2>2. Head(writer.todo) \in Items
    BY <2>1, OccurrencesTail
  <2>3. PICK item \in Items : item = Head(writer.todo)
    BY <2>2
  <2>4. CASE index[item].len < Len(index[item].cells)
    <3>1. PICK slice : slice = Appended(index[item], writer.path)
      OBVIOUS
    <3>2. Sound(slice)
      BY <1>1, <2>1, <2>4, <3>1, AppendedFacts
    <3>3. index' = [index EXCEPT ![item] = slice]
      BY <1>5, <2>3, <2>4, <3>1 DEF AppendOneIndex
    <3> QED
      BY <1>1, <1>3, <3>2, <3>3
  <2>5. CASE ~ (index[item].len < Len(index[item].cells))
    <3>1. PICK slice : slice = Larger(index[item], writer.path)
      OBVIOUS
    <3>2. Sound(slice)
      BY <1>1, <2>1, <2>5, <3>1, LargerFacts
    <3>3. index' = [index EXCEPT ![item] = slice]
      BY <1>5, <2>3, <2>5, <3>1 DEF AppendOneIndex
    <3> QED
      BY <1>1, <1>3, <3>2, <3>3
  <2> QED
    BY <2>4, <2>5
<1> QED
  BY <1>2, <1>4, <1>5
     DEF Next, vars, Upload, Put, Del, Lock, Assign, Unlock, GetKey, Answer

(* A step leaves the data and the writer of their types.                   *)
LEMMA WriterNext ==
  ASSUME TypeOK, [Next]_vars
  PROVE  data' \in [Paths -> Seq(Items) \cup {Absent}] /\ writer' \in {NoLock} \cup Jobs
<1>0. data \in [Paths -> Seq(Items) \cup {Absent}] /\ writer \in {NoLock} \cup Jobs
  BY DEF TypeOK, Jobs
<1>1. ASSUME NEW p \in Paths, NEW list \in Seq(Items) \cup {Absent}, Lock(p, list)
      PROVE  data' = data /\ writer' \in Jobs
  <2>1. (IF BuildIndex /\ data[p] # Absent THEN data[p] ELSE <<>>) \in Seq(Items)
    BY <1>0, EmptySeq
  <2> QED
    BY <1>1, <2>1 DEF Lock, Jobs
<1>2. CASE \E p \in Paths, list \in Lists : Upload(p, list)
  BY <1>0, <1>1, <1>2, KvAssumption DEF Upload, Put
<1>3. CASE \E p \in Paths : Del(p)
  BY <1>0, <1>1, <1>3 DEF Del
<1>4. CASE RemoveOneIndex
  <2>1. writer.todo \in Seq(Items) /\ writer.todo # <<>> /\ writer \in Jobs
    BY <1>4, WriterFacts DEF RemoveOneIndex
  <2>2. Tail(writer.todo) \in Seq(Items)
    BY <2>1, OccurrencesTail
  <2> QED
    BY <1>0, <1>4, <2>1, <2>2 DEF RemoveOneIndex, Jobs
<1>5. CASE AppendOneIndex
  <2>1. writer.todo \in Seq(Items) /\ writer.todo # <<>> /\ writer \in Jobs
    BY <1>5, WriterFacts DEF AppendOneIndex
  <2>2. Tail(writer.todo) \in Seq(Items)
    BY <2>1, OccurrencesTail
  <2> QED
    BY <1>0, <1>5, <2>1, <2>2 DEF AppendOneIndex, Jobs
<1>6. CASE Assign
  <2>1. writer.list \in Seq(Items) \cup {Absent} /\ writer \in Jobs
    BY <1>6, WriterFacts DEF Assign
  <2>2. (IF BuildIndex /\ writer.list # Absent THEN writer.list ELSE <<>>) \in Seq(Items)
    BY <2>1, EmptySeq
  <2> QED
    BY <1>0, <1>6, <2>1, <2>2 DEF Assign, Jobs
<1>7. CASE Unlock
  BY <1>0, <1>7 DEF Unlock
<1>8. CASE UNCHANGED <<data, writer>>
  BY <1>0, <1>8
<1> QED
  BY <1>2, <1>3, <1>4, <1>5, <1>6, <1>7, <1>8 DEF Next, vars, GetKey, Answer

-----------------------------------------------------------------------------
(* The index follows the data.                                             *)

(* Going through nothing, and how often the items of a list remain.        *)
LEMMA NoOccurrences ==
  ASSUME NEW x
  PROVE  Occurrences(<<>>, Len(<<>>), x) = 0
<1>1. Len(<<>>) = 0
  BY EmptySeq
<1>2. 0 \in Nat /\ \A j \in 1..0 : FALSE
  OBVIOUS
<1>3. Occurrences(<<>>, 0, x) = 0 <=> \A j \in 1..0 : <<>>[j] # x
  BY <1>2, OccurrencesNat
<1> QED
  BY <1>1, <1>2, <1>3

(* While the store is indexed, the first loop finds what it is to remove.  *)
LEMMA RemovalsFound ==
  ASSUME TypeOK, IInv, RemoveOneIndex
  PROVE  /\ BuildIndex /\ Head(writer.todo) \in Items /\ writer.path \in Paths
         /\ writer.path \in Entries(index[Head(writer.todo)])
<1>1. writer.todo \in Seq(Items) /\ writer.todo # <<>> /\ writer.path \in Paths /\ writer # NoLock
      /\ writer.step = "remove"
  BY WriterFacts DEF RemoveOneIndex
<1>2. BuildIndex
  BY <1>1 DEF IInv, NotIndexed
<1>3. PICK item \in Items : item = Head(writer.todo)
  BY <1>1, OccurrencesTail
<1>4. InIndex(writer.path, item) = ToDo(item)
  BY <1>1, <1>2 DEF IInv, IndexFollows
<1>5. Tail(writer.todo) \in Seq(Items)
      /\ Occurrences(Tail(writer.todo), Len(Tail(writer.todo)), item) = ToDo(item) - 1
  BY <1>1, <1>3, OccurrencesTail DEF ToDo
<1>6. Occurrences(Tail(writer.todo), Len(Tail(writer.todo)), item) \in Nat
  BY <1>5, LenProperties, OccurrencesNat
<1>7. ToDo(item) \in Nat
  <2>1. Len(writer.todo) \in Nat
    BY <1>1, LenProperties
  <2> QED
    BY <2>1, OccurrencesNat DEF ToDo
<1>8. Sound(index[item]) /\ InIndex(writer.path, item) = Count(index[item], writer.path)
  BY SlicesSound DEF IInv, InIndex, Count
<1>9. writer.path \in Entries(index[item])
  BY <1>4, <1>5, <1>6, <1>7, <1>8, SoundFacts
<1> QED
  BY <1>1, <1>2, <1>3, <1>9

(* What IndexFollows says of one path and one item.                        *)
Follows(p, item) ==
  InIndex(p, item) =
    IF writer = NoLock \/ writer.path # p THEN InData(p, item)
    ELSE IF writer.step = "remove" THEN ToDo(item)
    ELSE InData(p, item) - ToDo(item)

LEMMA FollowsNext ==
  ASSUME TypeOK, IInv, [Next]_vars
  PROVE  IndexFollows'
<1> SUFFICES ASSUME BuildIndex, NEW p \in Paths, NEW item \in Items
             PROVE  Follows(p, item)'
  BY DEF IndexFollows, Follows
<1>0. Follows(p, item) /\ Sound(index[item]) /\ index \in [Items -> Slices]
  BY SlicesSound DEF IInv, IndexFollows, Follows, TypeOK
<1>1. data \in [Paths -> Seq(Items) \cup {Absent}] /\ InData(p, item) \in Nat
  <2>1. data \in [Paths -> Seq(Items) \cup {Absent}]
    BY DEF TypeOK
  <2>2. data[p] # Absent => Len(data[p]) \in Nat
    BY <2>1, LenProperties
  <2> QED
    BY <2>1, <2>2, OccurrencesNat DEF InData
<1>2. ASSUME NEW path \in Paths, NEW list, Lock(path, list)
      PROVE  Follows(p, item)'
  <2>1. writer = NoLock /\ data' = data /\ index' = index /\ InIndex(p, item) = InData(p, item)
    BY <1>0, <1>2 DEF Lock, Follows
  <2>2. writer' # NoLock /\ writer'.path = path /\ writer'.step = "remove"
        /\ writer'.todo = IF data[path] # Absent THEN data[path] ELSE <<>>
    BY <1>2 DEF Lock, NoLock
  <2>3. ToDo(item)' = InData(path, item)
    <3>1. CASE data[path] # Absent
      BY <2>2, <3>1 DEF ToDo, InData
    <3>2. CASE data[path] = Absent
      BY <2>2, <3>2, NoOccurrences DEF ToDo, InData
    <3> QED
      BY <3>1, <3>2
  <2>4. InIndex(p, item)' = InIndex(p, item) /\ InData(p, item)' = InData(p, item)
    BY <2>1 DEF InIndex, InData
  <2> QED
    BY <2>1, <2>2, <2>3, <2>4 DEF Follows
<1>3. CASE RemoveOneIndex
  <2>1. /\ Head(writer.todo) \in Items /\ writer.path \in Paths
        /\ writer.path \in Entries(index[Head(writer.todo)])
    BY <1>3, RemovalsFound
  <2>2. /\ index' = [index EXCEPT ![Head(writer.todo)] = Shifted(@, writer.path)]
        /\ writer' = [writer EXCEPT !.todo = Tail(@)] /\ data' = data
    BY <1>3, <2>1 DEF RemoveOneIndex
  <2>3. writer.todo \in Seq(Items) /\ writer.todo # <<>> /\ writer \in Jobs /\ writer # NoLock
        /\ writer.step = "remove"
    BY <1>3, WriterFacts DEF RemoveOneIndex
  <2>4. /\ writer'.path = writer.path /\ writer'.step = "remove" /\ writer'.todo = Tail(writer.todo)
        /\ writer' # NoLock
    BY <2>2, <2>3 DEF Jobs, NoLock
  <2>5. InIndex(p, item)' =
          InIndex(p, item) - (IF Head(writer.todo) = item /\ writer.path = p THEN 1 ELSE 0)
    <3>1. CASE Head(writer.todo) = item
      <4>1. PICK slice : slice = Shifted(index[item], writer.path)
        OBVIOUS
      <4>2. index'[item] = slice
        BY <1>0, <2>2, <3>1, <4>1
      <4>3. Count(slice, p) = Count(index[item], p) - (IF p = writer.path THEN 1 ELSE 0)
        BY <1>0, <2>1, <3>1, <4>1, ShiftedFacts
      <4> QED
        BY <3>1, <4>2, <4>3 DEF Count, InIndex
    <3>2. CASE Head(writer.todo) # item
      <4>1. index'[item] = index[item]
        BY <1>0, <2>2, <3>2
      <4>2. Count(index[item], p) \in Nat
        BY <1>0, SoundFacts
      <4> QED
        BY <3>2, <4>1, <4>2 DEF Count, InIndex
    <3> QED
      BY <3>1, <3>2
  <2>6. ToDo(item)' = ToDo(item) - (IF Head(writer.todo) = item THEN 1 ELSE 0)
    BY <2>3, <2>4, OccurrencesTail DEF ToDo
  <2>7. InData(p, item)' = InData(p, item)
    BY <2>2 DEF InData
  <2>8. CASE writer.path = p
    BY <1>0, <2>3, <2>4, <2>5, <2>6, <2>8 DEF Follows
  <2>9. CASE writer.path # p
    BY <1>0, <1>1, <2>3, <2>4, <2>5, <2>7, <2>9 DEF Follows
  <2> QED
    BY <2>8, <2>9
<1>4. CASE Assign
  <2>1. writer \in Jobs /\ writer # NoLock /\ writer.path \in Paths /\ writer.todo = <<>>
        /\ writer.step = "remove" /\ index' = index
        /\ data' = [data EXCEPT ![writer.path] = writer.list]
        /\ writer' = [writer EXCEPT !.step = "append",
                                    !.todo = IF writer.list # Absent THEN writer.list ELSE <<>>]
    BY <1>4, WriterFacts DEF Assign
  <2>2. /\ writer'.path = writer.path /\ writer'.step = "append" /\ writer' # NoLock
        /\ writer'.todo = IF writer.list # Absent THEN writer.list ELSE <<>>
    BY <2>1 DEF Jobs, NoLock
  <2>3. InIndex(p, item)' = InIndex(p, item)
    BY <2>1 DEF InIndex
  <2>4. CASE writer.path = p
    <3>1. data'[p] = writer.list
      BY <1>1, <2>1, <2>4
    <3>2. InData(p, item)' = ToDo(item)'
      <4>1. CASE writer.list = Absent
        BY <2>2, <3>1, <4>1, NoOccurrences DEF InData, ToDo
      <4>2. CASE writer.list # Absent
        BY <2>2, <3>1, <4>2 DEF InData, ToDo
      <4> QED
        BY <4>1, <4>2
    <3>3. ToDo(item)' \in Nat
      <4>1. writer'.todo \in Seq(Items)
        BY <2>1, <2>2, EmptySeq DEF Jobs
      <4>2. Len(writer'.todo) \in Nat
        BY <4>1, LenProperties
      <4> QED
        BY <4>2, OccurrencesNat DEF ToDo
    <3>4. InIndex(p, item) = 0
      <4>1. ToDo(item) = 0
        BY <2>1, NoOccurrences DEF ToDo
      <4> QED
        BY <1>0, <2>1, <2>4, <4>1 DEF Follows
    <3> QED
      BY <2>2, <2>3, <2>4, <3>2, <3>3, <3>4 DEF Follows
  <2>5. CASE writer.path # p
    <3>1. InData(p, item)' = InData(p, item)
      BY <1>1, <2>1, <2>5 DEF InData
    <3> QED
      BY <1>0, <2>1, <2>2, <2>3, <2>5, <3>1 DEF Follows
  <2> QED
    BY <2>4, <2>5
<1>5. CASE AppendOneIndex
  <2>1. writer.todo \in Seq(Items) /\ writer.todo # <<>> /\ writer \in Jobs /\ writer # NoLock
        /\ writer.step = "append" /\ writer.path \in Paths
    BY <1>5, WriterFacts DEF AppendOneIndex
  <2>2. Head(writer.todo) \in Items
    BY <2>1, OccurrencesTail
  <2>3. writer' = [writer EXCEPT !.todo = Tail(@)] /\ data' = data
    BY <1>5 DEF AppendOneIndex
  <2>4. /\ writer'.path = writer.path /\ writer'.step = "append" /\ writer'.todo = Tail(writer.todo)
        /\ writer' # NoLock
    BY <2>1, <2>3 DEF Jobs, NoLock
  <2>5. InIndex(p, item)' =
          InIndex(p, item) + (IF Head(writer.todo) = item /\ writer.path = p THEN 1 ELSE 0)
    <3>1. CASE Head(writer.todo) = item
      <4>1. PICK slice : slice = IF index[item].len < Len(index[item].cells)
                                 THEN Appended(index[item], writer.path)
                                 ELSE Larger(index[item], writer.path)
        OBVIOUS
      <4>2. index'[item] = slice
        BY <1>0, <1>5, <3>1, <4>1 DEF AppendOneIndex
      <4>3. Count(slice, p) = Count(index[item], p) + (IF p = writer.path THEN 1 ELSE 0)
        <5>1. CASE index[item].len < Len(index[item].cells)
          BY <1>0, <2>1, <4>1, <5>1, AppendedFacts
        <5>2. CASE ~ (index[item].len < Len(index[item].cells))
          BY <1>0, <2>1, <4>1, <5>2, LargerFacts
        <5> QED
          BY <5>1, <5>2
      <4> QED
        BY <3>1, <4>2, <4>3 DEF Count, InIndex
    <3>2. CASE Head(writer.todo) # item
      <4>1. index'[item] = index[item]
        BY <1>0, <1>5, <2>2, <3>2 DEF AppendOneIndex
      <4>2. Count(index[item], p) \in Nat
        BY <1>0, SoundFacts
      <4> QED
        BY <3>2, <4>1, <4>2 DEF Count, InIndex
    <3> QED
      BY <3>1, <3>2
  <2>6. ToDo(item)' = ToDo(item) - (IF Head(writer.todo) = item THEN 1 ELSE 0)
    BY <2>1, <2>4, OccurrencesTail DEF ToDo
  <2>7. InData(p, item)' = InData(p, item)
    BY <2>3 DEF InData
  <2>8. ToDo(item) \in Nat
    <3>1. Len(writer.todo) \in Nat
      BY <2>1, LenProperties
    <3> QED
      BY <3>1, OccurrencesNat DEF ToDo
  <2>9. CASE writer.path = p
    <3>1. InIndex(p, item) = InData(p, item) - ToDo(item)
      BY <1>0, <2>1, <2>9 DEF Follows
    <3>2. InIndex(p, item)' = InData(p, item)' - ToDo(item)'
      BY <1>1, <2>5, <2>6, <2>7, <2>8, <2>9, <3>1
    <3> QED
      BY <2>4, <2>9, <3>2 DEF Follows
  <2>10. CASE writer.path # p
    BY <1>0, <1>1, <2>1, <2>4, <2>5, <2>7, <2>10 DEF Follows
  <2> QED
    BY <2>9, <2>10
<1>6. CASE Unlock
  <2>1. ToDo(item) = 0
    BY <1>6, NoOccurrences DEF Unlock, ToDo
  <2>2. InIndex(p, item) = InData(p, item)
    BY <1>0, <1>1, <1>6, <2>1 DEF Follows, Unlock
  <2>3. InIndex(p, item)' = InIndex(p, item) /\ InData(p, item)' = InData(p, item)
    BY <1>6 DEF Unlock, InIndex, InData
  <2> QED
    BY <1>6, <2>2, <2>3 DEF Unlock, Follows
<1>7. CASE UNCHANGED <<data, index, writer>>
  BY <1>0, <1>7 DEF Follows, InIndex, InData, ToDo
<1> QED
  BY <1>2, <1>3, <1>4, <1>5, <1>6, <1>7
     DEF Next, vars, Upload, Put, Del, GetKey, Answer

(* A store that is not indexed leaves its loops at once.                   *)
LEMMA NotIndexedNext ==
  ASSUME TypeOK, IInv, [Next]_vars
  PROVE  NotIndexed'
<1> SUFFICES ASSUME ~BuildIndex
             PROVE  /\ writer' # NoLock => writer'.todo = <<>>
                    /\ \A i \in Items : index'[i].len = 0
                    /\ \A r \in Readers : request'[r] # NoSlice => request'[r].seen = <<>>
  BY DEF NotIndexed
<1>1. /\ writer # NoLock => writer.todo = <<>>
      /\ \A i \in Items : index[i].len = 0
      /\ \A r \in Readers : request[r] # NoSlice => request[r].seen = <<>>
  BY DEF IInv, NotIndexed
<1>2. request \in [Readers -> {NoSlice} \cup Requests] /\ writer \in {NoLock} \cup Jobs
  BY DEF TypeOK, Jobs
<1>3. ASSUME NEW p \in Paths, NEW list, Lock(p, list)
      PROVE  writer'.todo = <<>> /\ index' = index
             /\ \A r \in Readers : request'[r] # NoSlice => request'[r].seen = <<>>
  BY <1>1, <1>2, <1>3 DEF Lock, Requests
<1>4. ~RemoveOneIndex
  BY RemovalsFound
<1>5. ~AppendOneIndex
  BY <1>1, WriterFacts DEF AppendOneIndex
<1>6. CASE Assign
  <2>1. writer \in Jobs
    BY <1>6, WriterFacts DEF Assign
  <2>2. writer'.todo = <<>> /\ index' = index
    BY <1>6, <2>1 DEF Assign, Jobs
  <2>3. \A r \in Readers : request'[r] # NoSlice => request'[r].seen = <<>>
    BY <1>1, <1>2, <1>6 DEF Assign, Requests
  <2> QED
    BY <1>1, <2>2, <2>3
<1>7. CASE Unlock
  BY <1>1, <1>7 DEF Unlock
<1>8. ASSUME NEW r \in Readers, NEW item \in Items, GetKey(r, item)
      PROVE  UNCHANGED <<index, writer>>
             /\ \A q \in Readers : request'[q] # NoSlice => request'[q].seen = <<>>
  BY <1>1, <1>2, <1>8 DEF GetKey
<1>9. ASSUME NEW r \in Readers, Answer(r)
      PROVE  UNCHANGED <<index, writer>>
             /\ \A q \in Readers : request'[q] # NoSlice => request'[q].seen = <<>>
  BY <1>1, <1>2, <1>9 DEF Answer
<1>10. CASE UNCHANGED vars
  BY <1>1, <1>10 DEF vars
<1> QED
  BY <1>1, <1>3, <1>4, <1>5, <1>6, <1>7, <1>8, <1>9, <1>10 DEF Next, Upload, Put, Del

-----------------------------------------------------------------------------
(* One request: q reads slice, while w is the writer.                      *)

SharesIn(q, slice, w) ==
  /\ Len(q.seen) <= Len(slice.cells)
  /\ \A j \in DOMAIN q.seen : slice.cells[j] \in q.ever
  /\ Entries(slice) \subseteq q.ever
  /\ w.step = "append" /\ (\E j \in DOMAIN w.todo : w.todo[j] = q.item) => w.path \in q.ever

SteadyIn(q, slice) ==
  /\ \A j \in DOMAIN q.seen : \E p \in Paths : q.seen[j] = {p}
  /\ q.untouched \subseteq UNION {q.seen[j] : j \in DOMAIN q.seen}
  /\ q.shared =>
       /\ Len(q.seen) <= slice.len
       /\ \A j \in DOMAIN q.seen : slice.cells[j] \in q.seen[j]

ReadingIn(q, slice, w) ==
  /\ q \in Requests
  /\ \A j \in DOMAIN q.seen : q.seen[j] \subseteq q.ever
  /\ q.shared => SharesIn(q, slice, w)
  /\ ~q.moved => SteadyIn(q, slice)

RequestFine(r) == request[r] # NoSlice => ReadingIn(request[r], index[request[r].item], writer)

LEMMA RequestsFine ==
  /\ TypeOK /\ IInv => \A r \in Readers : RequestFine(r)
  /\ (\A r \in Readers : RequestFine(r)') =>
       \A r \in Readers : (request[r] # NoSlice => Reading(request[r]))'
<1>1. ASSUME TypeOK, IInv, NEW r \in Readers, request[r] # NoSlice
      PROVE  ReadingIn(request[r], index[request[r].item], writer)
  <2>1. request[r] \in Requests
    BY <1>1 DEF TypeOK
  <2>2. Reading(request[r])
    BY <1>1 DEF IInv
  <2> QED
    BY <2>1, <2>2 DEF Reading, Shares, Steady, ReadingIn, SharesIn, SteadyIn
<1>2. ASSUME NEW r \in Readers, RequestFine(r)', (request[r] # NoSlice)'
      PROVE  Reading(request[r])'
  BY <1>2 DEF RequestFine, Reading, Shares, Steady, ReadingIn, SharesIn, SteadyIn
<1> QED
  BY <1>1, <1>2 DEF RequestFine

(* The fields of a request.                                                *)
LEMMA RequestFacts ==
  ASSUME NEW q \in Requests
  PROVE  /\ q.seen \in Seq(SUBSET Cells) /\ Len(q.seen) \in Nat /\ DOMAIN q.seen = 1..Len(q.seen)
         /\ q.seen \in [1..Len(q.seen) -> SUBSET Cells]
         /\ q.item \in Items /\ q.shared \in BOOLEAN /\ q.moved \in BOOLEAN
         /\ q.ever \subseteq Paths /\ q.untouched \subseteq Paths
<1>1. q.seen \in Seq(SUBSET Cells)
  BY DEF Requests
<1> QED
  BY <1>1, LenProperties DEF Requests

(* A writer that starts may touch a path, and appends nothing yet.         *)
LEMMA ReadingAtLock ==
  ASSUME NEW q, NEW slice, NEW w, ReadingIn(q, slice, w), NEW p, NEW v, v.step = "remove",
         NEW q1, q1 = [q EXCEPT !.untouched = @ \ {p}]
  PROVE  ReadingIn(q1, slice, v)
<1>1. q \in Requests
  BY DEF ReadingIn
<1>2. /\ q1 \in Requests /\ q1.item = q.item /\ q1.shared = q.shared /\ q1.moved = q.moved
      /\ q1.seen = q.seen /\ q1.ever = q.ever /\ q1.untouched = q.untouched \ {p}
  BY <1>1 DEF Requests
<1>3. q.shared => SharesIn(q1, slice, v)
  BY <1>2 DEF ReadingIn, SharesIn
<1>4. ~q.moved => SteadyIn(q1, slice)
  BY <1>2 DEF ReadingIn, SteadyIn
<1> QED
  BY <1>2, <1>3, <1>4 DEF ReadingIn

HasToDo(w, item) == \E j \in DOMAIN w.todo : w.todo[j] = item

(* More paths have held the item once a list is assigned.                  *)
LEMMA ReadingAtAssign ==
  ASSUME NEW q, NEW slice, NEW w, ReadingIn(q, slice, w), NEW H \in SUBSET Paths, NEW v,
         HasToDo(v, q.item) => v.path \in H,
         NEW q1, q1 = [q EXCEPT !.ever = @ \cup H]
  PROVE  ReadingIn(q1, slice, v)
<1>1. q \in Requests
  BY DEF ReadingIn
<1>2. /\ q1 \in Requests /\ q1.item = q.item /\ q1.shared = q.shared /\ q1.moved = q.moved
      /\ q1.seen = q.seen /\ q1.ever = q.ever \cup H /\ q1.untouched = q.untouched
  BY <1>1 DEF Requests
<1>3. q.shared => SharesIn(q1, slice, v)
  BY <1>2 DEF ReadingIn, SharesIn, HasToDo
<1>4. ~q.moved => SteadyIn(q1, slice)
  BY <1>2 DEF ReadingIn, SteadyIn
<1> QED
  BY <1>2, <1>3, <1>4 DEF ReadingIn

(* A step of a writer on another item, or in an array the request left,    *)
(* which leaves less to append.                                            *)
LEMMA ReadingAside ==
  ASSUME NEW q, NEW slice, NEW w, ReadingIn(q, slice, w), NEW s, s = slice \/ ~q.shared, NEW v,
         v.step = "append" /\ (\E j \in DOMAIN v.todo : v.todo[j] = q.item) =>
           /\ w.step = "append" /\ v.path = w.path
           /\ \E j \in DOMAIN w.todo : w.todo[j] = q.item
  PROVE  ReadingIn(q, s, v)
BY DEF ReadingIn, SharesIn, SteadyIn

(* The request keeps the array that the index leaves.                      *)
LEMMA ReadingAtLeave ==
  ASSUME NEW q, NEW slice, NEW w, ReadingIn(q, slice, w), NEW s, NEW v,
         NEW q1, q1 = [q EXCEPT !.shared = FALSE]
  PROVE  ReadingIn(q1, s, v)
<1>1. q \in Requests
  BY DEF ReadingIn
<1>2. /\ q1 \in Requests /\ q1.item = q.item /\ q1.shared = FALSE /\ q1.moved = q.moved
      /\ q1.seen = q.seen /\ q1.ever = q.ever /\ q1.untouched = q.untouched
  BY <1>1 DEF Requests
<1>3. ~q.moved => SteadyIn(q1, s)
  BY <1>2 DEF ReadingIn, SteadyIn
<1> QED
  BY <1>2, <1>3 DEF ReadingIn

(* What a request sees of the cells of its array.                          *)
Seeing(q, cells, moved) ==
  [q EXCEPT !.seen = [j \in DOMAIN @ |-> @[j] \cup {cells[j]}], !.moved = moved]

Sees(q, cells, moved, q1) ==
  /\ q1 \in Requests /\ q1.item = q.item /\ q1.shared = q.shared /\ q1.ever = q.ever
  /\ q1.untouched = q.untouched /\ q1.moved = moved
  /\ Len(q1.seen) = Len(q.seen) /\ DOMAIN q1.seen = DOMAIN q.seen
  /\ \A j \in DOMAIN q.seen : q1.seen[j] = q.seen[j] \cup {cells[j]}

LEMMA SeeingFacts ==
  ASSUME NEW q \in Requests, NEW s, Sound(s), Len(q.seen) <= Len(s.cells),
         NEW moved \in BOOLEAN, NEW q1, q1 = Seeing(q, s.cells, moved)
  PROVE  Sees(q, s.cells, moved, q1)
<1> DEFINE n == Len(q.seen)
           seen == [j \in DOMAIN q.seen |-> q.seen[j] \cup {s.cells[j]}]
<1>1. n \in Nat /\ DOMAIN q.seen = 1..n /\ q.seen \in [1..n -> SUBSET Cells]
  BY RequestFacts
<1>0. \A j \in 1..n : s.cells[j] \in Cells
  <2>1. Len(s.cells) \in Nat /\ \A j \in 1..Len(s.cells) : s.cells[j] \in Cells
    BY SoundFacts
  <2>2. \A j \in 1..n : j \in 1..Len(s.cells)
    BY <1>1, <2>1
  <2> QED
    BY <2>1, <2>2
<1>2. q1.seen = seen /\ q1.item = q.item /\ q1.shared = q.shared /\ q1.ever = q.ever
      /\ q1.untouched = q.untouched
  BY DEF Seeing, Requests
<1>3. q1.moved = moved
  BY DEF Seeing, Requests
<1>4. seen \in [1..n -> SUBSET Cells]
  BY <1>0, <1>1
<1>5. seen \in Seq(SUBSET Cells) /\ Len(seen) = n /\ DOMAIN seen = 1..n
  <2> HIDE DEF seen, n
  <2> QED
    BY <1>1, <1>4, SeqOfLength
<1>6. q1 \in Requests
  <2> HIDE DEF seen, n
  <2>1. q1 = [item |-> q1.item, shared |-> q1.shared, moved |-> q1.moved, seen |-> q1.seen,
              ever |-> q1.ever, untouched |-> q1.untouched]
    BY DEF Seeing, Requests
  <2> QED
    BY <1>2, <1>3, <1>5, <2>1, RequestFacts DEF Requests
<1> QED
  BY <1>1, <1>2, <1>3, <1>5, <1>6 DEF Sees

(* Entries are shifted in the array the request goes through.              *)
LEMMA ReadingAtRemoval ==
  ASSUME NEW q, NEW slice, Sound(slice), NEW w, ReadingIn(q, slice, w), q.shared,
         NEW p \in Entries(slice), NEW s, s = Shifted(slice, p), NEW v, v.step = "remove",
         NEW moved \in BOOLEAN, moved, NEW q1, q1 = Seeing(q, s.cells, moved)
  PROVE  ReadingIn(q1, s, v)
<1> DEFINE N == Len(slice.cells)
<1>1. q \in Requests /\ SharesIn(q, slice, w) /\ Len(q.seen) \in Nat /\ DOMAIN q.seen = 1..Len(q.seen)
  BY RequestFacts DEF ReadingIn
<1>2. /\ Sound(s) /\ Len(s.cells) = N /\ N \in Nat /\ Entries(s) \subseteq Entries(slice)
      /\ \A j \in 1..N : s.cells[j] = slice.cells[j] \/ s.cells[j] \in Entries(slice)
  BY ShiftedFacts, SoundFacts
<1>4. Len(q.seen) <= N
  BY <1>1 DEF SharesIn
<1>5. /\ q1 \in Requests /\ q1.item = q.item /\ q1.shared = q.shared /\ q1.ever = q.ever
      /\ q1.moved /\ Len(q1.seen) = Len(q.seen) /\ DOMAIN q1.seen = DOMAIN q.seen
      /\ \A j \in DOMAIN q.seen : q1.seen[j] = q.seen[j] \cup {s.cells[j]}
  <2>1. Sees(q, s.cells, moved, q1)
    BY <1>1, <1>2, <1>4, SeeingFacts
  <2> QED
    BY <2>1 DEF Sees
<1>6. \A j \in DOMAIN q.seen : j \in 1..N
  BY <1>1, <1>2, <1>4
<1>7. \A j \in DOMAIN q.seen : s.cells[j] \in q.ever
  BY <1>1, <1>2, <1>6 DEF SharesIn
<1>8. SharesIn(q1, s, v)
  BY <1>1, <1>2, <1>4, <1>5, <1>7 DEF SharesIn
<1>9. \A j \in DOMAIN q1.seen : q1.seen[j] \subseteq q1.ever
  <2>1. \A j \in DOMAIN q.seen : q.seen[j] \subseteq q.ever
    BY DEF ReadingIn
  <2>2. \A j \in DOMAIN q.seen : q1.seen[j] = q.seen[j] \cup {s.cells[j]}
    BY <1>5
  <2>3. ASSUME NEW j \in DOMAIN q.seen
        PROVE  q1.seen[j] \subseteq q.ever
    <3>1. q.seen[j] \subseteq q.ever /\ s.cells[j] \in q.ever
      BY <1>7, <2>1
    <3> QED
      BY <2>2, <3>1
  <2> QED
    BY <1>5, <2>3
<1> QED
  BY <1>5, <1>8, <1>9 DEF ReadingIn

(* An entry is written behind the others in the array the request goes     *)
(* through.                                                                *)
LEMMA ReadingAtAppend ==
  ASSUME NEW q, NEW slice, Sound(slice), slice.len < Len(slice.cells),
         NEW w, ReadingIn(q, slice, w), q.shared, w.step = "append",
         \E j \in DOMAIN w.todo : w.todo[j] = q.item, w.path \in Paths,
         NEW s, s = Appended(slice, w.path), NEW v, v.path = w.path,
         NEW q1, q1 = Seeing(q, s.cells, q.moved)
  PROVE  ReadingIn(q1, s, v)
<1> DEFINE N == Len(slice.cells)
<1>1. q \in Requests /\ SharesIn(q, slice, w) /\ Len(q.seen) \in Nat /\ DOMAIN q.seen = 1..Len(q.seen)
  BY RequestFacts DEF ReadingIn
<1>2. /\ Sound(s) /\ Len(s.cells) = N /\ N \in Nat /\ Entries(s) = Entries(slice) \cup {w.path}
      /\ s.len = slice.len + 1 /\ slice.len \in Nat
      /\ \A j \in 1..N : s.cells[j] = IF j = slice.len + 1 THEN w.path ELSE slice.cells[j]
  BY AppendedFacts, SoundFacts
<1>4. Len(q.seen) <= N /\ w.path \in q.ever
  BY <1>1 DEF SharesIn
<1>5. /\ q1 \in Requests /\ q1.item = q.item /\ q1.shared = q.shared /\ q1.ever = q.ever
      /\ q1.untouched = q.untouched /\ q1.moved = q.moved
      /\ Len(q1.seen) = Len(q.seen) /\ DOMAIN q1.seen = DOMAIN q.seen
      /\ \A j \in DOMAIN q.seen : q1.seen[j] = q.seen[j] \cup {s.cells[j]}
  <2>1. q.moved \in BOOLEAN
    BY <1>1, RequestFacts
  <2>2. Sees(q, s.cells, q.moved, q1)
    BY <1>1, <1>2, <1>4, <2>1, SeeingFacts
  <2> QED
    BY <2>2 DEF Sees
<1>6. \A j \in DOMAIN q.seen : j \in 1..N
  BY <1>1, <1>2, <1>4
<1>7. \A j \in DOMAIN q.seen : s.cells[j] \in q.ever
  BY <1>1, <1>2, <1>4, <1>6 DEF SharesIn
<1>8. SharesIn(q1, s, v)
  BY <1>1, <1>2, <1>4, <1>5, <1>7 DEF SharesIn
<1>9. \A j \in DOMAIN q1.seen : q1.seen[j] \subseteq q1.ever
  <2>1. \A j \in DOMAIN q.seen : q.seen[j] \subseteq q.ever
    BY DEF ReadingIn
  <2>2. \A j \in DOMAIN q.seen : q1.seen[j] = q.seen[j] \cup {s.cells[j]}
    BY <1>5
  <2>3. ASSUME NEW j \in DOMAIN q.seen
        PROVE  q1.seen[j] \subseteq q.ever
    <3>1. q.seen[j] \subseteq q.ever /\ s.cells[j] \in q.ever
      BY <1>7, <2>1
    <3> QED
      BY <2>2, <3>1
  <2> QED
    BY <1>5, <2>3
<1>10. ASSUME ~q.moved
       PROVE  SteadyIn(q1, s)
  <2>1. /\ \A j \in DOMAIN q.seen : \E p \in Paths : q.seen[j] = {p}
        /\ q.untouched \subseteq UNION {q.seen[j] : j \in DOMAIN q.seen}
        /\ Len(q.seen) <= slice.len
        /\ \A j \in DOMAIN q.seen : slice.cells[j] \in q.seen[j]
    BY <1>10 DEF ReadingIn, SteadyIn
  <2>2. \A j \in DOMAIN q.seen : s.cells[j] = slice.cells[j]
    <3>1. \A j \in DOMAIN q.seen : j # slice.len + 1
      BY <1>1, <1>2, <2>1
    <3> QED
      BY <1>2, <1>6, <3>1
  <2>3. \A j \in DOMAIN q.seen : q1.seen[j] = q.seen[j]
    <3> TAKE j \in DOMAIN q.seen
    <3>1. q1.seen[j] = q.seen[j] \cup {s.cells[j]}
      BY <1>5
    <3>2. s.cells[j] \in q.seen[j]
      BY <2>1, <2>2
    <3> QED
      BY <3>1, <3>2
  <2>4. Len(q1.seen) <= s.len
    BY <1>1, <1>2, <1>5, <2>1
  <2>5. q1.untouched \subseteq UNION {q1.seen[j] : j \in DOMAIN q1.seen}
    BY <1>5, <2>1, <2>3
  <2>6. \A j \in DOMAIN q1.seen : s.cells[j] \in q1.seen[j] /\ \E x \in Paths : q1.seen[j] = {x}
    <3>1. \A j \in DOMAIN q.seen : s.cells[j] \in q.seen[j]
      BY <2>1, <2>2
    <3> QED
      BY <1>5, <2>1, <2>3, <3>1
  <2> QED
    BY <2>4, <2>5, <2>6 DEF SteadyIn
<1> QED
  BY <1>5, <1>8, <1>9, <1>10 DEF ReadingIn

(* GetKey fetches what holds the item.                                     *)
Fetched(item, slice, H) ==
  [item |-> item, shared |-> TRUE, moved |-> FALSE,
   seen |-> IF BuildIndex THEN [j \in 1..slice.len |-> {slice.cells[j]}] ELSE <<>>,
   ever |-> H, untouched |-> Entries(slice)]

LEMMA ReadingAtGetKey ==
  ASSUME NEW item \in Items, NEW slice, Sound(slice), NEW H \in SUBSET Paths,
         Entries(slice) \subseteq H, ~BuildIndex => slice.len = 0, NEW w, w.step = "none", NEW q,
         q = Fetched(item, slice, H)
  PROVE  ReadingIn(q, slice, w)
<1>1. slice.len \in Nat /\ Len(slice.cells) \in Nat /\ slice.len <= Len(slice.cells)
      /\ \A j \in 1..slice.len : slice.cells[j] \in Paths
  BY SoundFacts
<1>2. q.item = item /\ q.shared /\ ~q.moved /\ q.ever = H /\ q.untouched = Entries(slice)
      /\ q.seen = IF BuildIndex THEN [j \in 1..slice.len |-> {slice.cells[j]}] ELSE <<>>
  BY DEF Fetched
<1>3. /\ q.seen \in Seq(SUBSET Cells) /\ Len(q.seen) = slice.len /\ DOMAIN q.seen = 1..slice.len
      /\ \A j \in 1..slice.len : q.seen[j] = {slice.cells[j]}
  <2>1. CASE BuildIndex
    <3> DEFINE seen == [j \in 1..slice.len |-> {slice.cells[j]}]
    <3>1. seen \in [1..slice.len -> SUBSET Cells] /\ DOMAIN seen = 1..slice.len
      BY <1>1 DEF Cells
    <3>2. seen \in Seq(SUBSET Cells) /\ Len(seen) = slice.len
      <4> HIDE DEF seen
      <4> QED
        BY <1>1, <3>1, SeqOfLength
    <3> QED
      BY <1>2, <2>1, <3>1, <3>2
  <2>2. CASE ~BuildIndex
    <3>1. q.seen = <<>> /\ slice.len = 0
      BY <1>2, <2>2
    <3>2. <<>> \in Seq(SUBSET Cells) /\ Len(<<>>) = 0
      BY EmptySeq
    <3>3. DOMAIN <<>> = 1..0
      BY <3>2, LenProperties
    <3> QED
      BY <3>1, <3>2, <3>3
  <2> QED
    BY <2>1, <2>2
<1>4. q \in Requests
  <2>1. Entries(slice) \subseteq Paths
    BY DEF Sound
  <2> QED
    BY <1>3, <2>1 DEF Requests, Fetched
<1>5. \A j \in 1..slice.len : slice.cells[j] \in Entries(slice)
  BY DEF Entries
<1>6. SharesIn(q, slice, w)
  BY <1>1, <1>2, <1>3, <1>5 DEF SharesIn
<1>7. SteadyIn(q, slice)
  <2>1. Entries(slice) \subseteq UNION {q.seen[j] : j \in DOMAIN q.seen}
    <3> SUFFICES ASSUME NEW j \in 1..slice.len
                 PROVE  slice.cells[j] \in UNION {q.seen[k] : k \in DOMAIN q.seen}
      BY DEF Entries
    <3>1. j \in DOMAIN q.seen
      BY <1>3
    <3>2. q.seen[j] = {slice.cells[j]}
      BY <1>3
    <3>3. slice.cells[j] \in q.seen[j]
      BY <3>2
    <3> QED
      BY <3>1, <3>3
  <2>2. q.untouched \subseteq UNION {q.seen[j] : j \in DOMAIN q.seen}
    BY <1>2, <2>1
  <2>3. \A j \in DOMAIN q.seen : slice.cells[j] \in Paths /\ q.seen[j] = {slice.cells[j]}
    BY <1>1, <1>3
  <2>4. Len(q.seen) <= slice.len
    BY <1>1, <1>3
  <2> QED
    BY <2>2, <2>3, <2>4 DEF SteadyIn
<1> QED
  BY <1>2, <1>3, <1>4, <1>5, <1>6, <1>7 DEF ReadingIn

-----------------------------------------------------------------------------
(* Every request, through every step.                                      *)

LEMMA RequestNext ==
  ASSUME TypeOK, IInv, [Next]_vars, NEW r \in Readers
  PROVE  RequestFine(r)'
<1> DEFINE q == request[r]
           q1 == request'[r]
<1>0. /\ request \in [Readers -> {NoSlice} \cup Requests]
      /\ q # NoSlice => ReadingIn(q, index[q.item], writer) /\ q \in Requests
      /\ index \in [Items -> Slices] /\ \A i \in Items : Sound(index[i])
  <2>1. request \in [Readers -> {NoSlice} \cup Requests] /\ index \in [Items -> Slices]
    BY DEF TypeOK
  <2>2. RequestFine(r)
    BY RequestsFine
  <2>3. \A i \in Items : Sound(index[i])
    BY SlicesSound DEF IInv
  <2> QED
    BY <2>1, <2>2, <2>3 DEF RequestFine
<1> SUFFICES ASSUME q1 # NoSlice
             PROVE  ReadingIn(q1, index'[q1.item], writer')
  BY DEF RequestFine
<1>1. ASSUME NEW p \in Paths, NEW list, Lock(p, list)
      PROVE  ReadingIn(q1, index'[q1.item], writer')
  <2>1. q # NoSlice /\ q1 = [q EXCEPT !.untouched = @ \ {p}] /\ index' = index
        /\ writer'.step = "remove"
    BY <1>1 DEF Lock
  <2>2. q1.item = q.item
    BY <1>0, <2>1 DEF Requests
  <2> HIDE DEF q, q1
  <2>3. ReadingIn(q1, index[q.item], writer')
    BY <1>0, <2>1, ReadingAtLock
  <2> QED
    BY <2>1, <2>2, <2>3
<1>2. CASE RemoveOneIndex
  <2>1. writer.todo \in Seq(Items) /\ writer.todo # <<>> /\ writer \in Jobs /\ writer.step = "remove"
    BY <1>2, WriterFacts DEF RemoveOneIndex
  <2>2. PICK item \in Items : item = Head(writer.todo)
    BY <2>1, OccurrencesTail
  <2>3. writer.path \in Entries(index[item])
    BY <1>2, <2>2, RemovalsFound
  <2>4. PICK s : s = Shifted(index[item], writer.path)
    OBVIOUS
  <2>5. /\ index' = [index EXCEPT ![item] = s]
        /\ Show(item, index'[item].cells, TRUE)
        /\ writer' = [writer EXCEPT !.todo = Tail(@)]
    BY <1>2, <2>2, <2>3, <2>4 DEF RemoveOneIndex
  <2>6. index'[item] = s /\ writer'.step = "remove"
    BY <1>0, <2>1, <2>5 DEF Jobs
  <2>7. CASE q # NoSlice /\ q.item = item /\ q.shared
    <3>1. q1 = [q EXCEPT !.seen = [j \in DOMAIN @ |-> @[j] \cup {s.cells[j]}],
                         !.moved = @ \/ TRUE]
      BY <2>5, <2>6, <2>7 DEF Show
    <3>2. PICK moved : moved = (q.moved \/ TRUE)
      OBVIOUS
    <3>3. q1 = Seeing(q, s.cells, moved) /\ moved \in BOOLEAN /\ moved
      BY <3>1, <3>2 DEF Seeing
    <3>4. q1.item = item
      BY <1>0, <2>7, <3>3 DEF Seeing, Requests
    <3> HIDE DEF q, q1
    <3>5. ReadingIn(q1, s, writer')
      BY <1>0, <2>3, <2>4, <2>6, <2>7, <3>3, ReadingAtRemoval
    <3> QED
      BY <2>6, <3>4, <3>5
  <2>8. CASE ~ (q # NoSlice /\ q.item = item /\ q.shared)
    <3>1. q1 = q /\ q # NoSlice
      BY <2>5, <2>8 DEF Show
    <3>2. index'[q.item] = index[q.item] \/ ~q.shared
      BY <1>0, <2>5, <2>8, <3>1 DEF Requests
    <3> HIDE DEF q, q1
    <3>3. ReadingIn(q, index'[q.item], writer')
      BY <1>0, <2>6, <3>1, <3>2, ReadingAside
    <3> QED
      BY <3>1, <3>3
  <2> QED
    BY <2>7, <2>8
<1>3. CASE Assign
  <2>1. writer \in Jobs /\ writer.path \in Paths /\ writer.list \in Seq(Items) \cup {Absent}
        /\ data \in [Paths -> Seq(Items) \cup {Absent}]
    BY <1>3, WriterFacts DEF Assign, TypeOK
  <2>2. /\ index' = index /\ data' = [data EXCEPT ![writer.path] = writer.list]
        /\ writer' = [writer EXCEPT !.step = "append",
                                    !.todo = IF BuildIndex /\ writer.list # Absent THEN writer.list
                                                                                   ELSE <<>>]
        /\ q # NoSlice /\ q1 = [q EXCEPT !.ever = @ \cup Holders(data', q.item)]
    BY <1>3 DEF Assign
  <2>3. PICK H : H = Holders(data', q.item)
    OBVIOUS
  <2>4. H \in SUBSET Paths /\ q1 = [q EXCEPT !.ever = @ \cup H]
    BY <2>2, <2>3 DEF Holders
  <2>5. writer'.path = writer.path
        /\ writer'.todo = IF BuildIndex /\ writer.list # Absent THEN writer.list ELSE <<>>
    BY <2>1, <2>2 DEF Jobs
  <2>6. HasToDo(writer', q.item) => writer'.path \in H
    <3> SUFFICES ASSUME NEW j \in DOMAIN writer'.todo, writer'.todo[j] = q.item
                 PROVE  writer.path \in H
      BY <2>5 DEF HasToDo
    <3>1. DOMAIN <<>> = {}
      BY EmptySeq, LenProperties
    <3>2. writer.list # Absent /\ writer'.todo = writer.list
      BY <2>5, <3>1
    <3>3. data'[writer.path] = writer.list
      BY <2>1, <2>2
    <3> QED
      BY <2>1, <2>3, <3>2, <3>3 DEF Holders
  <2>7. q1.item = q.item
    BY <1>0, <2>2, <2>4 DEF Requests
  <2> HIDE DEF q, q1
  <2>8. ReadingIn(q1, index[q.item], writer')
    BY <1>0, <2>2, <2>4, <2>6, ReadingAtAssign
  <2> QED
    BY <2>2, <2>7, <2>8
<1>4. CASE AppendOneIndex
  <2>1. writer.todo \in Seq(Items) /\ writer.todo # <<>> /\ writer \in Jobs /\ writer.step = "append"
        /\ writer.path \in Paths
    BY <1>4, WriterFacts DEF AppendOneIndex
  <2>2. PICK item \in Items : item = Head(writer.todo)
    BY <2>1, OccurrencesTail
  <2>3. writer' = [writer EXCEPT !.todo = Tail(@)]
    BY <1>4 DEF AppendOneIndex
  <2>4. writer'.path = writer.path /\ writer'.step = "append" /\ writer'.todo = Tail(writer.todo)
    BY <2>1, <2>3 DEF Jobs
  <2>5. /\ \E j \in DOMAIN writer.todo : writer.todo[j] = item
        /\ \A j \in DOMAIN writer'.todo : \E k \in DOMAIN writer.todo : writer.todo[k] = writer'.todo[j]
    <3>1. writer.todo[1] = item
          /\ \A j \in DOMAIN writer'.todo : \E k \in DOMAIN writer.todo : writer.todo[k] = writer'.todo[j]
      BY <2>1, <2>2, <2>4, OccurrencesTail
    <3>2. 1 \in DOMAIN writer.todo
      <4>1. Len(writer.todo) \in Nat \ {0} /\ DOMAIN writer.todo = 1..Len(writer.todo)
        BY <2>1, EmptySeq, LenProperties
      <4> QED
        BY <4>1
    <3> QED
      BY <3>1, <3>2
  <2>6. (\E j \in DOMAIN writer'.todo : writer'.todo[j] = q.item) =>
          \E j \in DOMAIN writer.todo : writer.todo[j] = q.item
    BY <2>5
  <2>7. CASE index[item].len < Len(index[item].cells)
    <3>1. PICK s : s = Appended(index[item], writer.path)
      OBVIOUS
    <3>2. index' = [index EXCEPT ![item] = s] /\ Show(item, index'[item].cells, FALSE)
      BY <1>4, <2>2, <2>7, <3>1 DEF AppendOneIndex
    <3>3. index'[item] = s
      BY <1>0, <3>2
    <3>4. CASE q # NoSlice /\ q.item = item /\ q.shared
      <4>1. q1 = [q EXCEPT !.seen = [j \in DOMAIN @ |-> @[j] \cup {s.cells[j]}],
                           !.moved = @ \/ FALSE]
        BY <3>2, <3>3, <3>4 DEF Show
      <4>2. PICK moved : moved = (q.moved \/ FALSE)
        OBVIOUS
      <4>3. moved = q.moved
        BY <1>0, <3>4, <4>2, RequestFacts
      <4>4. q1 = Seeing(q, s.cells, moved)
        BY <4>1, <4>2 DEF Seeing
      <4>5. q1.item = item
        BY <1>0, <3>4, <4>4 DEF Seeing, Requests
      <4> HIDE DEF q, q1
      <4>6. ReadingIn(q1, s, writer')
        BY <1>0, <2>1, <2>4, <2>5, <2>7, <3>1, <3>4, <4>3, <4>4, ReadingAtAppend
      <4> QED
        BY <3>3, <4>5, <4>6
    <3>5. CASE ~ (q # NoSlice /\ q.item = item /\ q.shared)
      <4>1. q1 = q /\ q # NoSlice
        BY <3>2, <3>5 DEF Show
      <4>2. index'[q.item] = index[q.item] \/ ~q.shared
        BY <1>0, <3>2, <3>5, <4>1 DEF Requests
      <4> HIDE DEF q, q1
      <4>3. ReadingIn(q, index'[q.item], writer')
        BY <1>0, <2>1, <2>4, <2>6, <4>1, <4>2, ReadingAside
      <4> QED
        BY <4>1, <4>3
    <3> QED
      BY <3>4, <3>5
  <2>8. CASE ~ (index[item].len < Len(index[item].cells))
    <3>1. PICK s : s = Larger(index[item], writer.path)
      OBVIOUS
    <3>2. index' = [index EXCEPT ![item] = s] /\ Leave(item)
      BY <1>4, <2>2, <2>8, <3>1 DEF AppendOneIndex
    <3>3. CASE q # NoSlice /\ q.item = item
      <4>1. q1 = [q EXCEPT !.shared = FALSE]
        BY <3>2, <3>3 DEF Leave
      <4> HIDE DEF q, q1
      <4> QED
        BY <1>0, <3>3, <4>1, ReadingAtLeave
    <3>4. CASE ~ (q # NoSlice /\ q.item = item)
      <4>1. q1 = q /\ q # NoSlice
        BY <3>2, <3>4 DEF Leave
      <4>2. index'[q.item] = index[q.item]
        BY <1>0, <3>2, <3>4, <4>1 DEF Requests
      <4> HIDE DEF q, q1
      <4>3. ReadingIn(q, index'[q.item], writer')
        BY <1>0, <2>1, <2>4, <2>6, <4>1, <4>2, ReadingAside
      <4> QED
        BY <4>1, <4>3
    <3> QED
      BY <3>3, <3>4
  <2> QED
    BY <2>7, <2>8
<1>5. CASE Unlock
  <2>1. q1 = q /\ index' = index /\ writer' = NoLock /\ writer'.step # "append"
    BY <1>5 DEF Unlock, NoLock
  <2> HIDE DEF q, q1
  <2> QED
    BY <1>0, <2>1, ReadingAside
<1>6. ASSUME NEW z \in Readers, NEW item \in Items, GetKey(z, item)
      PROVE  ReadingIn(q1, index'[q1.item], writer')
  <2>1. index' = index /\ writer' = writer /\ writer = NoLock
    BY <1>6 DEF GetKey
  <2>2. CASE z = r
    <3>1. q1 = [item |-> item, shared |-> TRUE, moved |-> FALSE,
                seen |-> IF BuildIndex THEN [j \in 1..index[item].len |-> {index[item].cells[j]}]
                                       ELSE <<>>,
                ever |-> Holders(data, item), untouched |-> Entries(index[item])]
      BY <1>0, <1>6, <2>2 DEF GetKey
    <3>2. PICK H : H = Holders(data, item)
      OBVIOUS
    <3>3. PICK slice : slice = index[item]
      OBVIOUS
    <3>4. Sound(slice) /\ H \in SUBSET Paths
      BY <1>0, <3>2, <3>3 DEF Holders
    <3>5. ~BuildIndex => slice.len = 0
      BY <3>3 DEF IInv, NotIndexed
    <3>6. Entries(slice) \subseteq H
      <4> SUFFICES ASSUME NEW p \in Entries(slice)
                   PROVE  p \in H
        OBVIOUS
      <4>1. BuildIndex
        BY <3>5 DEF Entries
      <4>2. p \in Paths
        BY <3>4 DEF Sound
      <4>3. InIndex(p, item) = InData(p, item)
        BY <2>1, <4>1, <4>2 DEF IInv, IndexFollows
      <4>4. InIndex(p, item) > 0
        BY <3>3, <3>4, SoundFacts DEF InIndex, Count
      <4>5. data[p] # Absent /\ data[p] \in Seq(Items)
        BY <4>2, <4>3, <4>4 DEF InData, TypeOK
      <4>6. Len(data[p]) \in Nat /\ DOMAIN data[p] = 1..Len(data[p])
        BY <4>5, LenProperties
      <4>7. ~ \A j \in 1..Len(data[p]) : data[p][j] # item
        <5>1. PICK d : d = data[p]
          OBVIOUS
        <5>2. Occurrences(d, Len(d), item) > 0
          BY <4>3, <4>4, <4>5, <5>1 DEF InData
        <5>3. Occurrences(d, Len(d), item) = 0 <=> \A j \in 1..Len(d) : d[j] # item
          BY <4>6, <5>1, OccurrencesNat
        <5> QED
          BY <5>1, <5>2, <5>3
      <4> QED
        BY <3>2, <4>2, <4>5, <4>6, <4>7 DEF Holders
    <3>7. q1.item = item /\ writer'.step = "none"
      BY <2>1, <3>1 DEF NoLock
    <3>8. q1 = Fetched(item, slice, H)
      BY <3>1, <3>2, <3>3 DEF Fetched
    <3> HIDE DEF q1
    <3>9. ReadingIn(q1, slice, writer')
      BY <3>4, <3>5, <3>6, <3>7, <3>8, ReadingAtGetKey
    <3> QED
      BY <2>1, <3>3, <3>7, <3>9
  <2>3. CASE z # r
    <3>1. q1 = q
      BY <1>0, <1>6, <2>3 DEF GetKey
    <3> QED
      BY <1>0, <2>1, <3>1
  <2> QED
    BY <2>2, <2>3
<1>7. ASSUME NEW z \in Readers, Answer(z)
      PROVE  ReadingIn(q1, index'[q1.item], writer')
  <2>1. index' = index /\ writer' = writer /\ q1 = q
    BY <1>0, <1>7 DEF Answer
  <2> QED
    BY <1>0, <2>1
<1>8. CASE UNCHANGED vars
  BY <1>0, <1>8 DEF vars
<1> HIDE DEF q1, q
<1> QED
  BY <1>1, <1>2, <1>3, <1>4, <1>5, <1>6, <1>7, <1>8 DEF Next, Upload, Put, Del

-----------------------------------------------------------------------------
(* The theorems.                                                           *)

LEMMA InitIInv == Init => TypeOK /\ IInv
<1> SUFFICES ASSUME Init
             PROVE  TypeOK /\ IInv
  OBVIOUS
<1>1. <<>> \in Seq(Cells) /\ Len(<<>>) = 0
  BY EmptySeq
<1>2. TypeOK
  BY <1>1 DEF Init, TypeOK, Slices
<1>3. IndexFollows
  <2> SUFFICES ASSUME NEW p \in Paths, NEW item \in Items
               PROVE  InIndex(p, item) = 0 /\ InData(p, item) = 0
    BY DEF Init, IndexFollows
  <2>1. InIndex(p, item) = Occurrences(<<>>, Len(<<>>), p)
    BY <1>1 DEF Init, InIndex
  <2> QED
    BY <2>1, NoOccurrences DEF Init, InData
<1>4. NotIndexed
  BY DEF Init, NotIndexed
<1>5. \A i \in Items : Entries(index[i]) \subseteq Paths
  BY DEF Init, Entries
<1> QED
  BY <1>2, <1>3, <1>4, <1>5 DEF Init, IInv

LEMMA NextIInv == TypeOK /\ IInv /\ [Next]_vars => TypeOK' /\ IInv'
<1> SUFFICES ASSUME TypeOK, IInv, [Next]_vars
             PROVE  TypeOK' /\ IInv'
  OBVIOUS
<1>1. index' \in [Items -> Slices] /\ \A i \in Items : Sound(index'[i])
  BY IndexNext
<1>2. \A r \in Readers : RequestFine(r)'
  BY RequestNext
<1>3. request' \in [Readers -> {NoSlice} \cup Requests]
  <2>1. \A r \in Readers : request'[r] \in {NoSlice} \cup Requests
    BY <1>2 DEF RequestFine, ReadingIn
  <2>2. request' = [r \in Readers |-> request'[r]]
    <3>1. request = [r \in Readers |-> request[r]]
      BY DEF TypeOK
    <3> QED
      BY <3>1 DEF Next, vars, Upload, Put, Del, Lock, RemoveOneIndex, Show, Assign, AppendOneIndex,
                  Leave, Unlock, GetKey, Answer
  <2> QED
    BY <2>1, <2>2
<1>4. TypeOK'
  <2>1. data' \in [Paths -> Seq(Items) \cup {Absent}] /\ writer' \in {NoLock} \cup Jobs
    BY WriterNext
  <2> QED
    BY <1>1, <1>3, <2>1 DEF TypeOK, Jobs, Sound
<1>5. \A i \in Items : Entries(index'[i]) \subseteq Paths
  BY <1>1 DEF Sound
<1>6. \A r \in Readers : (request[r] # NoSlice => Reading(request[r]))'
  BY <1>2, RequestsFine
<1> QED
  BY <1>4, <1>5, <1>6, FollowsNext, NotIndexedNext DEF IInv

(* The variables keep their types: no slice of the index counts more cells *)
(* than its array has.  By the invariant below, without which a request    *)
(* could look for a cell that the array does not have.                     *)
THEOREM KvTypes == Spec => []TypeOK
BY InitIInv, NextIInv, PTL DEF Spec

(* At every step of a writer the index is what the loops of Put and Del    *)
(* have left of it, and every open request has seen only what held the     *)
(* item.                                                                   *)
THEOREM KvInvariant == Spec => []IInv
BY InitIInv, NextIInv, PTL DEF Spec

(* Between two writers the index is the inverse of the data, repetitions   *)
(* included: Put and Del take out exactly what an earlier Put appended.    *)
THEOREM InverseOfData == Spec => []IndexIsInverse
<1>1. IInv => IndexIsInverse
  BY DEF IInv, IndexFollows, IndexIsInverse
<1> QED
  BY <1>1, KvInvariant, PTL

(* GetKey answers with nothing but paths that held the item when it        *)
(* fetched the slice or since, and torn strings, although the handler      *)
(* reads the slice without the lock.                                       *)
THEOREM NothingMadeUp == Spec => []AnswersOnceHeld
<1>1. IInv => AnswersOnceHeld
  <2> SUFFICES ASSUME IInv, NEW r \in Readers, request[r] # NoSlice,
                      NEW a \in Answers(request[r]), NEW j \in DOMAIN request[r].seen
               PROVE  a[j] \in request[r].ever \cup {Torn}
    BY DEF AnswersOnceHeld
  <2>1. request[r].seen[j] \subseteq request[r].ever
    BY DEF IInv, Reading
  <2>2. a[j] \in Yields(request[r].seen[j])
    BY DEF Answers
  <2> QED
    BY <2>1, <2>2 DEF Yields
<1> QED
  BY <1>1, KvInvariant, PTL

(* A path that GetKey fetched and that no writer has touched since is in   *)
(* the answer, as long as writers did not shift entries in the array.      *)
THEOREM AppendsHideNothing == Spec => []UntouchedUnlessMoved
<1>1. IInv => UntouchedUnlessMoved
  <2> SUFFICES ASSUME IInv, NEW r \in Readers, request[r] # NoSlice, ~request[r].moved,
                      NEW a \in Answers(request[r]), NEW x \in request[r].untouched
               PROVE  \E j \in DOMAIN a : x = a[j]
    BY DEF UntouchedUnlessMoved
  <2>1. Steady(request[r])
    BY DEF IInv, Reading
  <2>2. PICK j \in DOMAIN request[r].seen : x \in request[r].seen[j]
    BY <2>1 DEF Steady
  <2>3. request[r].seen[j] = {x}
    BY <2>1, <2>2 DEF Steady
  <2>4. Cardinality({x}) = 1
    BY FS_Singleton
  <2>5. Yields(request[r].seen[j]) = {x}
    BY <2>3, <2>4 DEF Yields
  <2>6. DOMAIN a = DOMAIN request[r].seen /\ a[j] \in Yields(request[r].seen[j])
    BY <2>2 DEF Answers
  <2> QED
    BY <2>2, <2>5, <2>6
<1> QED
  BY <1>1, KvInvariant, PTL
=============================================================================
