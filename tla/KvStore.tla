------------------------------ MODULE KvStore ------------------------------
(***************************************************************************)
(* The content store behind /upload_image, /get_content and /get_index     *)
(* (kvstore/store.go).  It maps a path to its list of items and, when it   *)
(* is indexed, an item to the paths whose lists hold it.                   *)
(*                                                                         *)
(* A writer holds the lock of the store from its first step to its last,   *)
(* so the loops over a list are taken one iteration at a time.  GetKey     *)
(* takes the lock only to fetch a slice of the index: the caller goes      *)
(* through that slice later, without the lock, while writers shift and     *)
(* append in the same array.  A Go program may then read, in each cell,    *)
(* any of the strings the cell has held since, or, a string being two      *)
(* words, a mixture of two of them (Torn).                                 *)
(***************************************************************************)
EXTENDS Integers, Sequences, FiniteSets

CONSTANTS Paths,       \* keys of the store
          Items,       \* values of the store
          Lists,       \* the lists of items that callers put
          Readers,     \* requests that go through a slice of the index
          BuildIndex,  \* the flag given to NewStore
          Absent,      \* a path without an entry
          Zero,        \* a cell of an array nothing was written to
          Torn         \* a string made of two

ASSUME KvAssumption ==
  /\ Lists \subseteq Seq(Items)
  /\ BuildIndex \in BOOLEAN
  /\ Absent \notin Seq(Items)
  /\ Zero \notin Paths /\ Torn \notin Paths

VARIABLES data,     \* path -> list
          index,    \* item -> slice: the cells of its array, how many count
          writer,   \* the writer that holds the lock
          request   \* reader -> the slice it goes through

vars == <<data, index, writer, request>>

Cells  == Paths \cup {Zero}
Slices == [cells: Seq(Cells), len: Nat]
NoLock == [step |-> "none"]
NoSlice == [step |-> "none"]

Entries(slice) == {slice.cells[j] : j \in 1..slice.len}

Holders(d, item) == {p \in Paths : d[p] # Absent /\ \E j \in DOMAIN d[p] : d[p][j] = item}

Init ==
  /\ data = [p \in Paths |-> Absent]
  /\ index = [i \in Items |-> [cells |-> <<>>, len |-> 0]]
  /\ writer = NoLock
  /\ request = [r \in Readers |-> NoSlice]

-----------------------------------------------------------------------------
(* Writers.  todo is what is left of the list a loop goes through.         *)

\* Mutant of Lock: the loop goes through the new list instead of the old one
LockRemovesNew(p, list) ==
  /\ writer = NoLock
  /\ writer' = [step |-> "remove", path |-> p, list |-> list,
                todo |-> IF BuildIndex /\ list # Absent THEN list ELSE <<>>]
  /\ request' = [r \in Readers |->
       IF request[r] = NoSlice THEN NoSlice
                               ELSE [request[r] EXCEPT !.untouched = @ \ {p}]]
  /\ UNCHANGED <<data, index>>

Lock(p, list) ==
  /\ writer = NoLock
  /\ writer' = [step |-> "remove", path |-> p, list |-> list,
                todo |-> IF BuildIndex /\ data[p] # Absent THEN data[p] ELSE <<>>]
  /\ request' = [r \in Readers |->
       IF request[r] = NoSlice THEN NoSlice
                               ELSE [request[r] EXCEPT !.untouched = @ \ {p}]]
  /\ UNCHANGED <<data, index>>

Put(p, list) == Lock(p, list)
Del(p) == Lock(p, Absent)

\* The handler of /upload_image stores what it has read of the body, the
\* whole of it or not: after the reply 400 a list may be stored as empty
Upload(p, list) == Put(p, list)

\* What the open requests may see of the array of item from now on, and
\* whether entries of theirs have moved in it
Show(item, cells, moves) ==
  request' = [r \in Readers |->
    IF request[r] # NoSlice /\ request[r].item = item /\ request[r].shared
    THEN [request[r] EXCEPT !.seen = [j \in DOMAIN @ |-> @[j] \cup {cells[j]}],
                            !.moved = @ \/ moves]
    ELSE request[r]]

\* A request keeps the old array when the index moves to a larger one
Leave(item) ==
  request' = [r \in Readers |->
    IF request[r] # NoSlice /\ request[r].item = item
    THEN [request[r] EXCEPT !.shared = FALSE]
    ELSE request[r]]

First(slice, p) ==
  CHOOSE j \in 1..slice.len :
    /\ slice.cells[j] = p
    /\ \A k \in 1..(j - 1) : slice.cells[k] # p

\* Mutant of Shifted: the first entry goes, whichever it is
ShiftedFromStart(slice, p) ==
  [cells |-> [j \in DOMAIN slice.cells |->
                IF j < slice.len THEN slice.cells[j + 1] ELSE slice.cells[j]],
   len |-> slice.len - 1]

\* Mutant of Shifted: the cell that is freed is cleared
ShiftedClears(slice, p) ==
  [cells |-> [j \in DOMAIN slice.cells |->
                IF j = slice.len THEN Zero
                ELSE IF First(slice, p) <= j /\ j < slice.len THEN slice.cells[j + 1]
                                                              ELSE slice.cells[j]],
   len |-> slice.len - 1]

\* The entries behind the first of p move down; the last cell stays as it is
Shifted(slice, p) ==
  [cells |-> [j \in DOMAIN slice.cells |->
                IF First(slice, p) <= j /\ j < slice.len THEN slice.cells[j + 1]
                                                         ELSE slice.cells[j]],
   len |-> slice.len - 1]

RemoveOneIndex ==
  /\ writer.step = "remove" /\ writer.todo # <<>>
  /\ LET item == Head(writer.todo)
     IN  IF writer.path \in Entries(index[item])
         THEN /\ index' = [index EXCEPT ![item] = Shifted(@, writer.path)]
              /\ Show(item, index'[item].cells, TRUE)
         ELSE UNCHANGED <<index, request>>
  /\ writer' = [writer EXCEPT !.todo = Tail(@)]
  /\ UNCHANGED data

Assign ==
  /\ writer.step = "remove" /\ writer.todo = <<>>
  /\ data' = [data EXCEPT ![writer.path] = writer.list]
  /\ writer' = [writer EXCEPT !.step = "append",
                              !.todo = IF BuildIndex /\ writer.list # Absent THEN writer.list
                                                                             ELSE <<>>]
  /\ request' = [r \in Readers |->
       IF request[r] = NoSlice THEN NoSlice
                               ELSE [request[r] EXCEPT !.ever = @ \cup Holders(data', request[r].item)]]
  /\ UNCHANGED index

\* Mutant of Grown: an array of no cells is not made larger
GrownTwice(n) == 2 * n

\* Go doubles the array of a short slice
Grown(n) == IF n = 0 THEN 1 ELSE 2 * n

Larger(slice, p) ==
  [cells |-> [j \in 1..Grown(Len(slice.cells)) |->
                IF j <= slice.len THEN slice.cells[j] ELSE IF j = slice.len + 1 THEN p ELSE Zero],
   len |-> slice.len + 1]

\* Mutant of Appended: the last entry is written over
AppendedOver(slice, p) ==
  [cells |-> [slice.cells EXCEPT ![slice.len] = p], len |-> slice.len + 1]

\* There is a cell left
Appended(slice, p) ==
  [cells |-> [slice.cells EXCEPT ![slice.len + 1] = p], len |-> slice.len + 1]

AppendOneIndex ==
  /\ writer.step = "append" /\ writer.todo # <<>>
  /\ LET item  == Head(writer.todo)
         slice == index[item]
     IN  IF slice.len < Len(slice.cells)
         THEN /\ index' = [index EXCEPT ![item] = Appended(slice, writer.path)]
              /\ Show(item, index'[item].cells, FALSE)
         ELSE /\ index' = [index EXCEPT ![item] = Larger(slice, writer.path)]
              /\ Leave(item)
  /\ writer' = [writer EXCEPT !.todo = Tail(@)]
  /\ UNCHANGED data

Unlock ==
  /\ writer.step = "append" /\ writer.todo = <<>>
  /\ writer' = NoLock
  /\ UNCHANGED <<data, index, request>>

-----------------------------------------------------------------------------
(* Readers of the index.  ever: the paths that have held the item since    *)
(* GetKey; untouched: those it fetched that no writer took up since;       *)
(* moved: entries were shifted in the array since.                         *)

GetKey(r, item) ==
  /\ writer = NoLock /\ request[r] = NoSlice
  /\ request' = [request EXCEPT ![r] =
       [item |-> item, shared |-> TRUE, moved |-> FALSE,
        seen |-> IF BuildIndex THEN [j \in 1..index[item].len |-> {index[item].cells[j]}]
                               ELSE <<>>,
        ever |-> Holders(data, item), untouched |-> Entries(index[item])]]
  /\ UNCHANGED <<data, index, writer>>

\* What the handler may read in a cell, and the answers it may send
Yields(cell) == IF Cardinality(cell) > 1 THEN cell \cup {Torn} ELSE cell

Answers(req) ==
  {a \in [DOMAIN req.seen -> UNION {Yields(req.seen[j]) : j \in DOMAIN req.seen}] :
     \A j \in DOMAIN a : a[j] \in Yields(req.seen[j])}

Answer(r) ==
  /\ request[r] # NoSlice
  /\ request' = [request EXCEPT ![r] = NoSlice]
  /\ UNCHANGED <<data, index, writer>>

Next ==
  \/ \E p \in Paths, list \in Lists : Upload(p, list)
  \/ \E p \in Paths : Del(p)
  \/ RemoveOneIndex
  \/ Assign
  \/ AppendOneIndex
  \/ Unlock
  \/ \E r \in Readers, item \in Items : GetKey(r, item)
  \/ \E r \in Readers : Answer(r)

Spec == Init /\ [][Next]_vars

-----------------------------------------------------------------------------
(* Properties                                                              *)

Requests ==
  [item: Items, shared: BOOLEAN, moved: BOOLEAN, seen: Seq(SUBSET Cells), ever: SUBSET Paths,
   untouched: SUBSET Paths]

(* The types of the variables: the index counts no more cells than its     *)
(* array has, and the writer's lists are lists of items.                   *)
TypeOK ==
  /\ data \in [Paths -> Seq(Items) \cup {Absent}]
  /\ index \in [Items -> Slices]
  /\ \A i \in Items : index[i].len <= Len(index[i].cells)
  /\ writer \in {NoLock} \cup
       [step: {"remove", "append"}, path: Paths, list: Seq(Items) \cup {Absent}, todo: Seq(Items)]
  /\ request \in [Readers -> {NoSlice} \cup Requests]

Occurrences(s, n, x) == Cardinality({j \in 1..n : s[j] = x})

InData(p, item) == IF data[p] = Absent THEN 0 ELSE Occurrences(data[p], Len(data[p]), item)
InIndex(p, item) == Occurrences(index[item].cells, index[item].len, p)
ToDo(item) == Occurrences(writer.todo, Len(writer.todo), item)

(* While no writer holds the lock, the index is the inverse of the data,   *)
(* repetitions included: an item indexes a path as many times as the list  *)
(* of the path holds the item.  Overwriting a list removes exactly the     *)
(* entries that its predecessor had appended.                              *)
IndexIsInverse ==
  BuildIndex /\ writer = NoLock =>
    \A p \in Paths, item \in Items : InIndex(p, item) = InData(p, item)

(* The same at every step of a writer: its own path has still the entries  *)
(* that the first loop has to remove, or those that the second appended.   *)
IndexFollows ==
  BuildIndex =>
    \A p \in Paths, item \in Items :
      InIndex(p, item) =
        IF writer = NoLock \/ writer.path # p THEN InData(p, item)
        ELSE IF writer.step = "remove" THEN ToDo(item)
        ELSE InData(p, item) - ToDo(item)

(* A store that is not indexed has nothing in its index, ever.             *)
NotIndexed ==
  ~BuildIndex =>
    /\ writer # NoLock => writer.todo = <<>>
    /\ \A i \in Items : index[i].len = 0
    /\ \A r \in Readers : request[r] # NoSlice => request[r].seen = <<>>

(* A request with a slice of an array that writers still use: what is in   *)
(* its cells, what they will shift there and what they will append there,  *)
(* held the item.                                                          *)
Shares(q) ==
  LET slice == index[q.item] IN
  /\ Len(q.seen) <= Len(slice.cells)
  /\ \A j \in DOMAIN q.seen : slice.cells[j] \in q.ever
  /\ Entries(slice) \subseteq q.ever
  /\ writer.step = "append" /\ (\E j \in DOMAIN writer.todo : writer.todo[j] = q.item) =>
       writer.path \in q.ever

(* Nothing was shifted under a request: each of its cells has one path, as *)
(* it has still, and what is appended is appended behind them.             *)
Steady(q) ==
  /\ \A j \in DOMAIN q.seen : \E p \in Paths : q.seen[j] = {p}
  /\ q.untouched \subseteq UNION {q.seen[j] : j \in DOMAIN q.seen}
  /\ q.shared =>
       /\ Len(q.seen) <= index[q.item].len
       /\ \A j \in DOMAIN q.seen : index[q.item].cells[j] \in q.seen[j]

Reading(q) ==
  /\ \A j \in DOMAIN q.seen : q.seen[j] \subseteq q.ever
  /\ q.shared => Shares(q)
  /\ ~q.moved => Steady(q)

(* What the index owes to the writers, and the readers to the index.       *)
IInv ==
  /\ IndexFollows /\ NotIndexed
  /\ \A i \in Items : Entries(index[i]) \subseteq Paths
  /\ \A r \in Readers : request[r] # NoSlice => Reading(request[r])

(* What GetKey answers is never made up, although its slice is read while  *)
(* writers shift and reuse the array: every path in the answer held the    *)
(* item at the time of GetKey or since, unless it is a torn string.        *)
AnswersOnceHeld ==
  \A r \in Readers : request[r] # NoSlice =>
    \A a \in Answers(request[r]), j \in DOMAIN request[r].seen :
      a[j] \in request[r].ever \cup {Torn}

(* A path that GetKey fetched, and that no writer has touched since, is in *)
(* the answer (store_test.go:69-72 asks for every path of an item) as long *)
(* as writers only append to the array: they do so behind the slice that   *)
(* the reader has.  Once a removal shifts the array, the answer may have   *)
(* one path twice and another, which nobody touched, not at all.           *)
UntouchedUnlessMoved ==
  \A r \in Readers : request[r] # NoSlice /\ ~request[r].moved =>
    \A a \in Answers(request[r]) : request[r].untouched \subseteq {a[j] : j \in DOMAIN a}
=============================================================================
