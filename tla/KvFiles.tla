------------------------------ MODULE KvFiles ------------------------------
(***************************************************************************)
(* How the content store reaches its file and comes back from it           *)
(* (kvstore/store.go).  Every writeTimeout seconds the watcher saves a     *)
(* store that changed: it takes a snapshot under the lock of the store,    *)
(* lets go of the lock, and writes the file.  Puts, deletions and crashes  *)
(* happen meanwhile.  KvStore details what Put and Del do under the lock.  *)
(*                                                                         *)
(* The file is modelled as what Restore would read in it.  When a write    *)
(* stops halfway, the line it stops in is taken as missing.                *)
(***************************************************************************)
CONSTANTS Paths,         \* keys of the store
          Lists,         \* the lists of items that callers put
          ReadBack,      \* list -> what Restore reads in the line Save wrote
          RestoreFirst,  \* whether the program calls RestartStore at start
          Absent,        \* a path without an entry
          NoFile         \* the store was never saved

ASSUME FilesAssumption ==
  /\ ReadBack \in [Lists -> Lists]
  /\ \A list \in Lists : ReadBack[ReadBack[list]] = ReadBack[list]
  /\ RestoreFirst \in BOOLEAN
  /\ Absent \notin Lists
  /\ NoFile \notin [Paths -> Lists \cup {Absent}]

VARIABLES up,       \* the program runs
          data,     \* path -> list, in memory
          changed,  \* the flag that the watcher looks at
          watcher,  \* what the watcher does next
          buffer,   \* the snapshot it writes
          file,     \* path -> list, on disk
          failed,   \* history: the last write did not complete
          stored    \* history: paths a completed write put on disk and that are
                    \* not lost: a path is lost when it is deleted, when the
                    \* program ends without it in the file, and when the file
                    \* is overwritten by a snapshot without it

vars == <<up, data, changed, watcher, buffer, file, failed, stored>>

Nothing == [p \in Paths |-> Absent]

\* The store that Restore would build from what Save wrote of f
Saved(f) == [p \in Paths |-> IF f[p] = Absent THEN Absent ELSE ReadBack[f[p]]]

Present(f) == {p \in Paths : f[p] # Absent}

Init ==
  /\ up = FALSE
  /\ data = Nothing /\ changed = FALSE
  /\ watcher = "idle" /\ buffer = Nothing
  /\ file = NoFile
  /\ failed = FALSE /\ stored = {}

-----------------------------------------------------------------------------
(* The program starts and stops                                            *)

\* Mutant of Start: NewStore takes no notice of a store that was restored
StartFresh ==
  /\ ~up
  /\ up' = TRUE /\ data' = Nothing /\ changed' = TRUE
  /\ UNCHANGED <<watcher, buffer, file, failed, stored>>

\* NewStore: a store that RestartStore brought back is left as it is
Start ==
  /\ ~up
  /\ up' = TRUE
  /\ IF RestoreFirst /\ file # NoFile
     THEN data' = file /\ changed' = FALSE
     ELSE data' = Nothing /\ changed' = TRUE
  /\ UNCHANGED <<watcher, buffer, file, failed, stored>>

\* Mutant of Crash: the write of the file outlives the program
CrashButWatcher ==
  /\ up
  /\ up' = FALSE
  /\ data' = Nothing /\ changed' = FALSE
  /\ UNCHANGED <<watcher, buffer, file, failed, stored>>

\* The process ends, killed or by an error.  The file stays as it is, empty
\* when the end comes between open and write.
Crash ==
  /\ up
  /\ up' = FALSE
  /\ data' = Nothing /\ changed' = FALSE
  /\ watcher' = "idle" /\ buffer' = Nothing
  /\ failed' = (failed \/ watcher = "write")
  /\ stored' = IF file = NoFile THEN {} ELSE stored \cap Present(file)
  /\ UNCHANGED file

-----------------------------------------------------------------------------
(* Callers                                                                 *)

\* Mutant of Put: the flag is left alone, as Del leaves it
PutUnmarked(p, list) ==
  /\ up
  /\ data' = [data EXCEPT ![p] = list]
  /\ UNCHANGED <<up, changed, watcher, buffer, file, failed, stored>>

Put(p, list) ==
  /\ up
  /\ data' = [data EXCEPT ![p] = list]
  /\ changed' = TRUE
  /\ UNCHANGED <<up, watcher, buffer, file, failed, stored>>

Del(p) ==
  /\ up
  /\ data' = [data EXCEPT ![p] = Absent]
  /\ stored' = stored \ {p}
  /\ UNCHANGED <<up, changed, watcher, buffer, file, failed>>

-----------------------------------------------------------------------------
(* The watcher.  It ignores the error of Save.                             *)

Snapshot ==
  /\ up /\ watcher = "idle" /\ changed
  /\ buffer' = data /\ changed' = FALSE
  /\ watcher' = "open"
  /\ UNCHANGED <<up, data, file, failed, stored>>

\* WriteFile truncates the file when it opens it
Open ==
  /\ watcher = "open"
  /\ file' = Nothing
  /\ watcher' = "write"
  /\ stored' = stored \cap Present(buffer)
  /\ UNCHANGED <<up, data, changed, buffer, failed>>

OpenFails ==
  /\ watcher = "open"
  /\ watcher' = "idle" /\ buffer' = Nothing
  /\ failed' = TRUE
  /\ UNCHANGED <<up, data, changed, file, stored>>

\* Mutant of Write: the flag is cleared when the file is written
WriteClearsFlag ==
  /\ watcher = "write"
  /\ file' = Saved(buffer)
  /\ watcher' = "idle" /\ buffer' = Nothing
  /\ failed' = FALSE /\ changed' = FALSE
  /\ stored' = stored \cup (Present(buffer) \cap Present(data))
  /\ UNCHANGED <<up, data>>

Write ==
  /\ watcher = "write"
  /\ file' = Saved(buffer)
  /\ watcher' = "idle" /\ buffer' = Nothing
  /\ failed' = FALSE
  /\ stored' = stored \cup (Present(buffer) \cap Present(data))
  /\ UNCHANGED <<up, data, changed>>

\* Some lines of the buffer reach the disk
WriteFails ==
  /\ watcher = "write"
  /\ \E some \in SUBSET Present(buffer) :
       file' = [p \in Paths |-> IF p \in some THEN Saved(buffer)[p] ELSE Absent]
  /\ watcher' = "idle" /\ buffer' = Nothing
  /\ failed' = TRUE
  /\ UNCHANGED <<up, data, changed, stored>>

Next ==
  \/ Start \/ Crash
  \/ \E p \in Paths, list \in Lists : Put(p, list)
  \/ \E p \in Paths : Del(p)
  \/ Snapshot \/ Open \/ OpenFails \/ Write \/ WriteFails

Spec == Init /\ [][Next]_vars

\* The watcher is a goroutine that wakes up by a timer as long as the program
\* runs, and a write that was begun ends; nothing says that writes succeed,
\* that callers come or that the program is started again.
Fairness == WF_vars(Snapshot) /\ WF_vars(Open \/ OpenFails) /\ WF_vars(Write \/ WriteFails)

FairSpec == Spec /\ Fairness

-----------------------------------------------------------------------------
(* Properties                                                              *)

Stores == [Paths -> Lists \cup {Absent}]

(* The types of the variables; the watcher has a buffer only while it      *)
(* saves, and it saves only while the program runs.                        *)
TypeOK ==
  /\ up \in BOOLEAN /\ changed \in BOOLEAN /\ failed \in BOOLEAN
  /\ data \in Stores /\ buffer \in Stores
  /\ file \in Stores \cup {NoFile}
  /\ watcher \in {"idle", "open", "write"}
  /\ watcher # "idle" => up
  /\ stored \subseteq Paths

(* No update is lost between Save, which clears the flag, and the callers, *)
(* who set it: when the flag is clear, nothing is being written and the    *)
(* last write succeeded, the file has every list that is in memory.        *)
SavedWhenClean ==
  up /\ ~changed /\ watcher = "idle" /\ ~failed =>
    file # NoFile /\ \A p \in Present(data) : file[p] = Saved(data)[p]

(* The process ends while its file is cut short: in the middle of a write, *)
(* which truncates the file first (store.go:323), or after a write that    *)
(* failed and that no other has followed (store.go:83 ignores the error).  *)
CutsWrite == up /\ ~up' /\ (watcher = "write" \/ failed)

(* The store is "file backed storage" (store.go:17): what a completed      *)
(* write put on disk is lost by a deletion or by the end of the process    *)
(* while the file is cut short, and by nothing else; not by later saves,   *)
(* however puts, failing writes and restarts come between them.            *)
StoredStays ==
  [][\A p \in stored \ stored' : Del(p) \/ CutsWrite]_vars

(* The other way to lose it, which a program has that does not restore.    *)
Forgets == ~RestoreFirst /\ Open

(* The inductive invariant behind these.  The buffer of the watcher has    *)
(* what the flag promises; what was stored is on disk, or in the buffer    *)
(* while the file is written, and after a restore in memory too, so that   *)
(* each can replace the next; and what the file says is read back as it    *)
(* is, so that a store just restored is a clean one.                       *)
BufferIsFresh ==
  watcher # "idle" /\ ~changed => \A p \in Present(data) : buffer[p] = data[p]

FileIsStable == file # NoFile => Saved(file) = file

OnDisk == stored = {} \/ (file # NoFile /\ stored \subseteq Present(file))

StoredIsHeld ==
  /\ ~up => OnDisk
  /\ watcher # "write" /\ ~failed => OnDisk
  /\ watcher = "write" => stored \subseteq Present(buffer)
  /\ RestoreFirst => /\ up => stored \subseteq Present(data)
                     /\ watcher # "idle" => stored \subseteq Present(buffer)

IInv == TypeOK /\ SavedWhenClean /\ BufferIsFresh /\ FileIsStable /\ StoredIsHeld

(* If writes fail no more from some time on, a list that was put is        *)
(* written, unless it is overwritten or deleted first, or the program goes *)
(* down, or its write had failed and nothing was put since: after a failed *)
(* write the watcher waits for the next put.                               *)
PutsReachDisk ==
  <>[]~failed =>
    \A p \in Paths, list \in Lists :
      (up /\ data[p] = list)
        ~> \/ file # NoFile /\ file[p] = ReadBack[list]
           \/ data[p] # list
           \/ ~up
           \/ failed /\ ~changed /\ watcher = "idle"
=============================================================================
