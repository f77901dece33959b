------------------------------ MODULE FileLock ------------------------------
(* A lock on a file that its holder removes (filelock, dbschema/lock.go,     *)
(* serverlock.go).  The operating system locks the open file, not its name:  *)
(* a process that opened the file before it was removed can lock what the    *)
(* name no longer denotes.  acquireLock looks again (samePath) and starts    *)
(* over; AcquireServerLock does not.  Unix removes a file somebody has open, *)
(* Windows refuses, and the holder tries again once it has closed it.        *)
EXTENDS Naturals

CONSTANTS
  Procs,
  Files,           \* the files themselves (inodes), whatever their name
  NoFile,          \* no file has the name; no file is open
  Nobody,          \* nobody holds the lock
  Checked          \* the name is looked up again after the lock was taken

\* What is asked of the constants; Startup assumes it of both locks.
FileLockAssumption ==
  /\ Files \subseteq Nat /\ NoFile \notin Files
  /\ Nobody \notin Procs /\ Checked \in BOOLEAN

VARIABLES
  windows,         \* the platform
  file,            \* the file the name denotes
  owner,           \* file -> who has it locked
  fd,              \* process -> the file it has open
  phase            \* process -> how far it is

vars == <<windows, file, owner, fd, phase>>

Holding == {"locked", "in", "removed", "kept"}
Phases == {"out", "opened", "again"} \cup Holding

Init ==
  /\ windows \in BOOLEAN /\ file = NoFile
  /\ owner = [f \in Files |-> Nobody] /\ fd = [p \in Procs |-> NoFile]
  /\ phase = [p \in Procs |-> "out"]

Moves(p, to) == phase' = [phase EXCEPT ![p] = to]
Opened(f) == \E p \in Procs : fd[p] = f
Free(f) == owner' = [owner EXCEPT ![f] = Nobody]
Shuts(p) == fd' = [fd EXCEPT ![p] = NoFile]

\* A file nobody has open and no name denotes; its number means nothing.
Fresh == {f \in Files : ~Opened(f) /\ \A g \in Files : g < f => Opened(g)}

\* os.OpenFile creates the file when there is none.
Open(p) ==
  /\ phase[p] = "out" /\ Moves(p, "opened")
  /\ \/ file # NoFile /\ file' = file
     \/ file = NoFile /\ file' \in Fresh
  /\ fd' = [fd EXCEPT ![p] = file'] /\ UNCHANGED <<windows, owner>>

\* filelock.TryLock.
Try(p) ==
  /\ phase[p] = "opened" /\ owner[fd[p]] = Nobody
  /\ owner' = [owner EXCEPT ![fd[p]] = p] /\ Moves(p, IF Checked THEN "locked" ELSE "in")
  /\ UNCHANGED <<windows, file, fd>>

Held(p) ==
  /\ phase[p] = "opened" /\ owner[fd[p]] # Nobody
  /\ Shuts(p) /\ Moves(p, "out") /\ UNCHANGED <<windows, file, owner>>

M_Same(p) == phase[p] = "locked" /\ Moves(p, "in") /\ UNCHANGED <<windows, file, owner, fd>>

\* samePath: the lock of a file that was removed meanwhile is worth nothing.
Same(p) ==
  /\ phase[p] = "locked" /\ UNCHANGED <<windows, file>>
  /\ \/ file = fd[p] /\ Moves(p, "in") /\ UNCHANGED <<owner, fd>>
     \/ file # fd[p] /\ Moves(p, "out") /\ Free(fd[p]) /\ Shuts(p)

\* os.Remove: Windows keeps a file somebody has open.
Removable == file # NoFile /\ (windows => ~Opened(file))

\* The release: removed while still locked, ...
Remove(p) ==
  /\ phase[p] = "in" /\ UNCHANGED <<windows, owner, fd>>
  /\ file' = IF Removable THEN NoFile ELSE file
  /\ Moves(p, IF Removable THEN "removed" ELSE "kept")

\* ... unlocked and closed, ...
Close(p) ==
  /\ phase[p] \in {"removed", "kept"} /\ Free(fd[p]) /\ Shuts(p)
  /\ Moves(p, IF phase[p] = "kept" THEN "again" ELSE "out") /\ UNCHANGED <<windows, file>>

\* ... and removed once more when that failed.
Again(p) ==
  /\ phase[p] = "again" /\ Moves(p, "out")
  /\ file' = IF Removable THEN NoFile ELSE file
  /\ UNCHANGED <<windows, owner, fd>>

\* The process ends: the system closes its file and frees the lock.
Die(p) ==
  /\ phase[p] # "out" /\ Moves(p, "out") /\ Shuts(p)
  /\ IF phase[p] \in Holding THEN Free(fd[p]) ELSE owner' = owner
  /\ UNCHANGED <<windows, file>>

Acquire(p) == Open(p) \/ Try(p) \/ Held(p) \/ Same(p)
Release(p) == Remove(p) \/ Close(p) \/ Again(p)
Next == \E p \in Procs : Acquire(p) \/ Release(p) \/ Die(p)

Spec == Init /\ [][Next]_vars

-----------------------------------------------------------------------------
TypeOK ==
  /\ windows \in BOOLEAN /\ file \in Files \cup {NoFile}
  /\ owner \in [Files -> Procs \cup {Nobody}] /\ fd \in [Procs -> Files \cup {NoFile}]
  /\ phase \in [Procs -> Phases]

\* Two processes never both take themselves for the holder.
OneHolder == \A p, q \in Procs : phase[p] = "in" /\ phase[q] = "in" => p = q

\* They cannot where the name is looked up again, nor on Windows.
Excludes == Checked \/ windows => OneHolder
=============================================================================
