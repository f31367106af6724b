--------------------------- MODULE KvFilesProofs ---------------------------
(***************************************************************************)
(* The store and its file, for every set of paths and lists.               *)
(***************************************************************************)
EXTENDS KvFiles, TLAPS

(* What Save and Restore make of a store: another store, with the same     *)
(* paths, that a second round leaves as it is.                             *)
LEMMA SavedIsStable ==
  ASSUME NEW f \in Stores
  PROVE  /\ Saved(f) \in Stores
         /\ Present(Saved(f)) = Present(f)
         /\ Saved(Saved(f)) = Saved(f)
<1>1. \A p \in Paths : f[p] \in Lists => ReadBack[f[p]] \in Lists
  BY FilesAssumption
<1>2. Saved(f) \in Stores
  BY <1>1 DEF Saved, Stores
<1>3. Present(Saved(f)) = Present(f)
  BY <1>1, FilesAssumption DEF Saved, Present, Stores
<1>4. \A p \in Paths : Saved(Saved(f))[p] = Saved(f)[p]
  BY <1>1, FilesAssumption DEF Saved, Stores
<1> QED
  BY <1>2, <1>3, <1>4 DEF Saved

(* The invariant holds when the program has not been started yet.          *)
LEMMA InitIInv == Init => IInv
BY FilesAssumption
   DEF Init, IInv, TypeOK, SavedWhenClean, BufferIsFresh, FileIsStable, StoredIsHeld, OnDisk,
       Nothing, Stores

(* Every step keeps the invariant.                                         *)
LEMMA NextIInv == IInv /\ [Next]_vars => IInv'
<1> SUFFICES ASSUME IInv, [Next]_vars PROVE IInv'
  OBVIOUS
<1> USE DEF IInv
<1>0. Nothing \in Stores /\ Present(Nothing) = {} /\ Saved(Nothing) = Nothing
  BY DEF Nothing, Stores, Present, Saved
<1>1. CASE Start
  BY <1>1, <1>0, FilesAssumption
     DEF Start, TypeOK, SavedWhenClean, BufferIsFresh, FileIsStable, StoredIsHeld, OnDisk
<1>2. CASE Crash
  BY <1>2, <1>0
     DEF Crash, TypeOK, SavedWhenClean, BufferIsFresh, FileIsStable, StoredIsHeld, OnDisk
<1>3. ASSUME NEW p \in Paths, NEW list \in Lists, Put(p, list) PROVE IInv'
  <2>1. data' \in Stores /\ Present(data) \subseteq Present(data')
    BY <1>3, FilesAssumption DEF Put, TypeOK, Stores, Present
  <2> QED
    BY <1>3, <2>1
       DEF Put, TypeOK, SavedWhenClean, BufferIsFresh, FileIsStable, StoredIsHeld, OnDisk
<1>4. ASSUME NEW p \in Paths, Del(p) PROVE IInv'
  <2>1. /\ data' \in Stores
        /\ Present(data') = Present(data) \ {p}
        /\ \A q \in Present(data') : data'[q] = data[q] /\ Saved(data')[q] = Saved(data)[q]
    BY <1>4 DEF Del, TypeOK, Stores, Present, Saved
  <2> QED
    BY <1>4, <2>1
       DEF Del, TypeOK, SavedWhenClean, BufferIsFresh, FileIsStable, StoredIsHeld, OnDisk
<1>5. CASE Snapshot
  BY <1>5
     DEF Snapshot, TypeOK, SavedWhenClean, BufferIsFresh, FileIsStable, StoredIsHeld, OnDisk
<1>6. CASE Open
  BY <1>6, <1>0
     DEF Open, TypeOK, SavedWhenClean, BufferIsFresh, FileIsStable, StoredIsHeld, OnDisk
<1>7. CASE OpenFails
  BY <1>7, <1>0
     DEF OpenFails, TypeOK, SavedWhenClean, BufferIsFresh, FileIsStable, StoredIsHeld, OnDisk
<1>8. CASE Write
  <2>1. /\ file' \in Stores /\ Present(file') = Present(buffer) /\ Saved(file') = file'
    BY <1>8, SavedIsStable DEF Write, TypeOK
  <2>2. file' # NoFile
    BY <2>1, FilesAssumption DEF Stores
  <2>3. ~changed => \A p \in Present(data) : file'[p] = Saved(data)[p]
    BY <1>8 DEF Write, BufferIsFresh, Saved, Present
  <2> QED
    BY <1>8, <1>0, <2>1, <2>2, <2>3
       DEF Write, TypeOK, SavedWhenClean, BufferIsFresh, FileIsStable, StoredIsHeld, OnDisk,
           Present
<1>9. CASE WriteFails
  <2>1. PICK some \in SUBSET Present(buffer) :
          file' = [p \in Paths |-> IF p \in some THEN Saved(buffer)[p] ELSE Absent]
    BY <1>9 DEF WriteFails
  <2>2. /\ Saved(buffer) \in Stores
        /\ Present(Saved(buffer)) = Present(buffer)
        /\ Saved(Saved(buffer)) = Saved(buffer)
    BY SavedIsStable DEF TypeOK
  <2>3. file' \in Stores /\ Present(file') = some
    BY <2>1, <2>2 DEF Stores, Present
  <2>4. \A p \in Paths : Saved(file')[p] = file'[p]
    BY <2>1, <2>2 DEF Saved
  <2>5. Saved(file') = file'
    BY <2>3, <2>4 DEF Saved, Stores
  <2>6. file' # NoFile
    BY <2>3, FilesAssumption DEF Stores
  <2> QED
    BY <1>9, <1>0, <2>1, <2>3, <2>5, <2>6
       DEF WriteFails, TypeOK, SavedWhenClean, BufferIsFresh, FileIsStable, StoredIsHeld, OnDisk
<1>10. CASE UNCHANGED vars
  BY <1>10
     DEF vars, TypeOK, SavedWhenClean, BufferIsFresh, FileIsStable, StoredIsHeld, OnDisk,
         Present, Saved
<1> QED
  BY <1>1, <1>2, <1>3, <1>4, <1>5, <1>6, <1>7, <1>8, <1>9, <1>10 DEF Next

(* What the callers, the flag, the buffer of the watcher and the file owe  *)
(* each other, through every interleaving of puts, writes and crashes.     *)
THEOREM FilesInvariant == Spec => []IInv
BY InitIInv, NextIInv, PTL DEF Spec

(* The watcher saves only while the program runs, and what it saves is a   *)
(* store.                                                                  *)
THEOREM FilesTypes == Spec => []TypeOK
<1>1. IInv => TypeOK
  BY DEF IInv
<1> QED
  BY <1>1, FilesInvariant, PTL

(* An update is never lost between the callers, who set the flag, and the  *)
(* watcher, which clears it before the file is written.                    *)
THEOREM CleanStoreIsSaved == Spec => []SavedWhenClean
<1>1. IInv => SavedWhenClean
  BY DEF IInv
<1> QED
  BY <1>1, FilesInvariant, PTL

(* What a completed write put on disk is lost by a deletion or by the end  *)
(* of the process while the file is cut short; or else by a save of the    *)
(* watcher in a program that did not restore its store, as the one that    *)
(* main starts (kvstore/server.go:78 calls NewStore only).                 *)
THEOREM StoredIsLostOnlyBy ==
  Spec => [][\A p \in stored \ stored' : Del(p) \/ CutsWrite \/ Forgets]_vars
<1> DEFINE Lost == \A p \in stored \ stored' : Del(p) \/ CutsWrite \/ Forgets
<1>1. ASSUME IInv, Next PROVE Lost
  <2> SUFFICES ASSUME NEW p \in stored \ stored', ~CutsWrite, ~Forgets PROVE Del(p)
    OBVIOUS
  <2>1. CASE Crash
    <3>1. watcher # "write" /\ ~failed
      BY <2>1 DEF Crash, CutsWrite
    <3>2. OnDisk
      BY <1>1, <3>1 DEF IInv, StoredIsHeld
    <3> QED
      BY <2>1, <3>2 DEF Crash, OnDisk
  <2>2. CASE Open
    <3>1. RestoreFirst /\ watcher = "open"
      BY <2>2 DEF Open, Forgets
    <3>2. stored \subseteq Present(buffer)
      BY <1>1, <3>1 DEF IInv, StoredIsHeld
    <3> QED
      BY <2>2, <3>2 DEF Open
  <2>3. ASSUME NEW q \in Paths, Del(q) PROVE Del(p)
    BY <2>3 DEF Del
  <2>4. CASE Start \/ (\E q \in Paths, list \in Lists : Put(q, list))
             \/ Snapshot \/ OpenFails \/ Write \/ WriteFails
    BY <2>4 DEF Start, Put, Snapshot, OpenFails, Write, WriteFails
  <2> QED
    BY <1>1, <2>1, <2>2, <2>3, <2>4 DEF Next
<1>2. IInv /\ [Next]_vars => [Lost]_vars
  BY <1>1
<1> QED
  BY <1>2, FilesInvariant, PTL DEF Spec

(* The same of a program that restores its store, as the tests do          *)
(* (store_test.go:179): its saves lose nothing.                            *)
THEOREM RestoredStoreKeeps ==
  ASSUME RestoreFirst PROVE Spec => StoredStays
<1>1. ASSUME \A p \in stored \ stored' : Del(p) \/ CutsWrite \/ Forgets
      PROVE  \A p \in stored \ stored' : Del(p) \/ CutsWrite
  BY <1>1, RestoreFirst DEF Forgets
<1> QED
  BY <1>1, StoredIsLostOnlyBy, PTL DEF StoredStays
=============================================================================
