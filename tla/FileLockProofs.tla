--------------------------- MODULE FileLockProofs ---------------------------
(* The lock of FileLock excludes, for any number of processes and files,     *)
(* where the name is looked up again after locking (dbschema/lock.go) and on *)
(* Windows (where serverlock.go is safe as well).                            *)
EXTENDS FileLock, TLAPS

-----------------------------------------------------------------------------
(* The inductive invariant.                                                  *)

\* Who locked a file has it open, and nobody else locked it.
Owned ==
  /\ \A p \in Procs : phase[p] \in Holding => fd[p] \in Files /\ owner[fd[p]] = p
  /\ \A f \in Files, p \in Procs : owner[f] = p => fd[p] = f /\ phase[p] \in Holding

\* A process has a file open from Open to Close.
HasOpen == \A p \in Procs : fd[p] = NoFile <=> phase[p] \in {"out", "again"}

\* The holder's file is the one the name denotes.
Named == Checked \/ windows => \A p \in Procs : phase[p] = "in" => fd[p] = file

\* Windows never removes an open file, ...
Kept == windows => \A p \in Procs : fd[p] \in {NoFile, file}

\* ... Unix always does.
Gone == Checked /\ ~windows => \A p \in Procs : phase[p] \notin {"kept", "again"}

IInv == TypeOK /\ Owned /\ HasOpen /\ Named /\ Kept /\ Gone

LEMMA InitIInv == ASSUME FileLockAssumption PROVE Init => IInv
  BY DEF FileLockAssumption, Init, IInv, TypeOK, Owned, HasOpen, Named, Kept, Gone, Phases, Holding

\* The processes that hold the lock hold it on the file that has the name.
LEMMA Exclusive == IInv => Excludes
<1> SUFFICES ASSUME IInv, Checked \/ windows, NEW p \in Procs, NEW q \in Procs,
                    phase[p] = "in", phase[q] = "in"
             PROVE  p = q
  BY DEF Excludes, OneHolder
<1>1. fd[p] = file /\ fd[q] = file
  BY DEF IInv, Named
<1>2. owner[fd[p]] = p /\ owner[fd[q]] = q
  BY DEF IInv, Owned, Holding
<1> QED
  BY <1>1, <1>2

-----------------------------------------------------------------------------
(* One step per action.                                                      *)

LEMMA OpenStep == ASSUME FileLockAssumption, IInv, NEW p \in Procs, Open(p) PROVE IInv'
<1> USE DEF FileLockAssumption
<1>1. file' \in Files /\ fd' = [fd EXCEPT ![p] = file'] /\ phase' = [phase EXCEPT ![p] = "opened"]
      /\ owner' = owner /\ windows' = windows /\ phase[p] = "out" /\ (file # NoFile => file' = file)
  BY DEF Open, Fresh, Moves, IInv, TypeOK
<1>2. TypeOK'
  BY <1>1 DEF IInv, TypeOK, Phases, Holding
<1>3. Owned'
  BY <1>1 DEF IInv, TypeOK, Owned, HasOpen, Phases, Holding
<1>4. HasOpen'
  BY <1>1 DEF IInv, TypeOK, HasOpen, Phases, Holding
<1>5. Named'
  BY <1>1 DEF IInv, TypeOK, HasOpen, Named, Phases, Holding
<1>6. Kept'
  BY <1>1 DEF IInv, TypeOK, Kept
<1>7. Gone'
  BY <1>1 DEF IInv, TypeOK, Gone, Phases, Holding
<1> QED
  BY <1>2, <1>3, <1>4, <1>5, <1>6, <1>7 DEF IInv

LEMMA TryStep == ASSUME FileLockAssumption, IInv, NEW p \in Procs, Try(p) PROVE IInv'
<1> USE DEF FileLockAssumption
<1>1. fd[p] \in Files /\ owner[fd[p]] = Nobody /\ phase[p] = "opened"
  BY DEF Try, IInv, TypeOK, HasOpen
<1>2. owner' = [owner EXCEPT ![fd[p]] = p] /\ UNCHANGED <<windows, file, fd>>
      /\ phase' = [phase EXCEPT ![p] = IF Checked THEN "locked" ELSE "in"]
  BY DEF Try, Moves
<1>3. TypeOK'
  BY <1>1, <1>2 DEF IInv, TypeOK, Phases, Holding
<1>4. Owned'
  BY <1>1, <1>2 DEF IInv, TypeOK, Owned, Phases, Holding
<1>5. HasOpen'
  BY <1>1, <1>2 DEF IInv, TypeOK, HasOpen, Phases, Holding
<1>6. Named'
  BY <1>1, <1>2 DEF IInv, TypeOK, Named, Kept, Phases, Holding
<1>7. Kept' /\ Gone'
  BY <1>1, <1>2 DEF IInv, TypeOK, Kept, Gone, Phases, Holding
<1> QED
  BY <1>3, <1>4, <1>5, <1>6, <1>7 DEF IInv

LEMMA HeldStep == ASSUME FileLockAssumption, IInv, NEW p \in Procs, Held(p) PROVE IInv'
<1> USE DEF FileLockAssumption
<1>1. phase[p] = "opened" /\ fd' = [fd EXCEPT ![p] = NoFile] /\ phase' = [phase EXCEPT ![p] = "out"]
      /\ UNCHANGED <<windows, file, owner>>
  BY DEF Held, Shuts, Moves
<1>2. TypeOK' /\ HasOpen' /\ Kept' /\ Gone'
  BY <1>1 DEF IInv, TypeOK, HasOpen, Kept, Gone, Phases, Holding
<1>3. Owned' /\ Named'
  BY <1>1 DEF IInv, TypeOK, Owned, Named, Phases, Holding
<1> QED
  BY <1>2, <1>3 DEF IInv

LEMMA FreeStep ==
  ASSUME FileLockAssumption, IInv, NEW p \in Procs, NEW to \in {"out", "again"}, phase[p] \in Holding,
         phase' = [phase EXCEPT ![p] = to], Free(fd[p]), Shuts(p), UNCHANGED <<windows, file>>,
         Checked /\ ~windows => to = "out"
  PROVE  IInv'
<1> USE DEF FileLockAssumption
<1>1. fd[p] \in Files /\ owner[fd[p]] = p
  BY DEF IInv, Owned
<1>2. owner' = [owner EXCEPT ![fd[p]] = Nobody] /\ fd' = [fd EXCEPT ![p] = NoFile]
  BY DEF Free, Shuts
<1>3. TypeOK' /\ HasOpen'
  BY <1>1, <1>2 DEF IInv, TypeOK, HasOpen, Phases, Holding
<1>4. Owned'
  BY <1>1, <1>2 DEF IInv, TypeOK, Owned, Phases, Holding
<1>5. Named' /\ Kept' /\ Gone'
  BY <1>1, <1>2 DEF IInv, TypeOK, Named, Kept, Gone, Phases, Holding
<1> QED
  BY <1>3, <1>4, <1>5 DEF IInv

LEMMA SameStep == ASSUME FileLockAssumption, IInv, NEW p \in Procs, Same(p) PROVE IInv'
<1> USE DEF FileLockAssumption
<1>1. CASE file = fd[p] /\ Moves(p, "in") /\ UNCHANGED <<owner, fd>>
  <2>1. phase' = [phase EXCEPT ![p] = "in"] /\ phase[p] = "locked" /\ UNCHANGED <<windows, file, owner, fd>>
    BY <1>1 DEF Same, Moves
  <2>2. TypeOK' /\ HasOpen' /\ Kept' /\ Gone'
    BY <2>1 DEF IInv, TypeOK, HasOpen, Kept, Gone, Phases, Holding
  <2>3. Owned' /\ Named'
    BY <1>1, <2>1 DEF IInv, TypeOK, Owned, Named, Phases, Holding
  <2> QED
    BY <2>2, <2>3 DEF IInv
<1>2. CASE file # fd[p] /\ Moves(p, "out") /\ Free(fd[p]) /\ Shuts(p)
  BY <1>2, FreeStep DEF Same, Moves, Holding
<1> QED
  BY <1>1, <1>2 DEF Same

\* On Unix the holder removes its own file; on Windows none, since it is open.
LEMMA RemoveStep == ASSUME FileLockAssumption, IInv, NEW p \in Procs, Remove(p) PROVE IInv'
<1> USE DEF FileLockAssumption
<1>1. phase[p] = "in" /\ UNCHANGED <<windows, owner, fd>>
  BY DEF Remove
<1>2. fd[p] \in Files
  BY <1>1 DEF IInv, Owned, Holding
<1>3. CASE Removable
  <2>1. file' = NoFile /\ phase' = [phase EXCEPT ![p] = "removed"]
    BY <1>3 DEF Remove, Moves
  <2>2. ~windows
    BY <1>1, <1>2, <1>3 DEF Removable, Opened, IInv, Kept, TypeOK
  <2>3. TypeOK' /\ HasOpen' /\ Owned' /\ Kept' /\ Gone'
    BY <1>1, <2>1, <2>2 DEF IInv, TypeOK, HasOpen, Owned, Kept, Gone, Phases, Holding
  <2>4. Named'
    <3> SUFFICES ASSUME Checked, NEW q \in Procs, phase'[q] = "in" PROVE FALSE
      BY <1>1, <2>2 DEF Named
    <3>1. q # p /\ phase[q] = "in"
      BY <2>1 DEF IInv, TypeOK
    <3> QED
      BY <3>1, <1>1, Exclusive DEF Excludes, OneHolder
  <2> QED
    BY <2>3, <2>4 DEF IInv
<1>4. CASE ~Removable
  <2>1. file' = file /\ phase' = [phase EXCEPT ![p] = "kept"]
    BY <1>4 DEF Remove, Moves
  <2>2. Checked => windows
    BY <1>1, <1>2, <1>4 DEF Removable, IInv, Named
  <2>3. TypeOK' /\ HasOpen' /\ Owned' /\ Kept' /\ Gone' /\ Named'
    BY <1>1, <2>1, <2>2 DEF IInv, TypeOK, HasOpen, Owned, Kept, Gone, Named, Phases, Holding
  <2> QED
    BY <2>3 DEF IInv
<1> QED
  BY <1>3, <1>4

LEMMA CloseStep == ASSUME FileLockAssumption, IInv, NEW p \in Procs, Close(p) PROVE IInv'
<1>1. PICK to \in {"out", "again"} :
        phase' = [phase EXCEPT ![p] = to] /\ (to = "again" => phase[p] = "kept")
  BY DEF Close, Moves
<1>2. Checked /\ ~windows => to = "out"
  BY <1>1 DEF IInv, Gone
<1> QED
  BY <1>1, <1>2, FreeStep DEF Close, Holding

\* What is removed now nobody has open: it is not the file of a holder.
LEMMA AgainStep == ASSUME FileLockAssumption, IInv, NEW p \in Procs, Again(p) PROVE IInv'
<1> USE DEF FileLockAssumption
<1>1. phase[p] = "again" /\ phase' = [phase EXCEPT ![p] = "out"] /\ UNCHANGED <<windows, owner, fd>>
      /\ file' = IF Removable THEN NoFile ELSE file
  BY DEF Again, Moves
<1>2. TypeOK' /\ HasOpen' /\ Owned' /\ Gone'
  BY <1>1 DEF IInv, TypeOK, HasOpen, Owned, Gone, Phases, Holding
<1>3. Kept'
  BY <1>1 DEF IInv, TypeOK, Kept, Removable, Opened
<1>4. Named'
  <2> SUFFICES ASSUME Checked \/ windows, NEW q \in Procs, phase'[q] = "in" PROVE fd[q] = file'
    BY <1>1 DEF Named
  <2>1. phase[q] = "in" /\ fd[q] = file
    BY <1>1 DEF IInv, TypeOK, Named
  <2>2. windows
    BY <1>1 DEF IInv, Gone
  <2> QED
    BY <1>1, <2>1, <2>2 DEF Removable, Opened
<1> QED
  BY <1>2, <1>3, <1>4 DEF IInv

LEMMA DieStep == ASSUME FileLockAssumption, IInv, NEW p \in Procs, Die(p) PROVE IInv'
<1> USE DEF FileLockAssumption
<1>1. CASE phase[p] \in Holding
  BY <1>1, FreeStep DEF Die, Moves
<1>2. CASE phase[p] \notin Holding
  <2>1. fd' = [fd EXCEPT ![p] = NoFile] /\ phase' = [phase EXCEPT ![p] = "out"]
        /\ UNCHANGED <<windows, file, owner>>
    BY <1>2 DEF Die, Shuts, Moves
  <2>2. TypeOK' /\ HasOpen' /\ Kept' /\ Gone'
    BY <2>1 DEF IInv, TypeOK, HasOpen, Kept, Gone, Phases, Holding
  <2>3. Owned' /\ Named'
    BY <1>2, <2>1 DEF IInv, TypeOK, Owned, Named, Phases, Holding
  <2> QED
    BY <2>2, <2>3 DEF IInv
<1> QED
  BY <1>1, <1>2

LEMMA NextIInv == ASSUME FileLockAssumption PROVE IInv /\ [Next]_vars => IInv'
<1> SUFFICES ASSUME IInv, [Next]_vars PROVE IInv'
  OBVIOUS
<1>1. CASE UNCHANGED vars
  BY <1>1 DEF vars, IInv, TypeOK, Owned, HasOpen, Named, Kept, Gone
<1>2. CASE Next
  BY <1>2, OpenStep, TryStep, HeldStep, SameStep, RemoveStep, CloseStep, AgainStep, DieStep
  DEF Next, Acquire, Release
<1> QED
  BY <1>1, <1>2

-----------------------------------------------------------------------------
\* Two processes never both hold the lock of a name that is looked up again
\* after locking, nor of any name on Windows (acquireLock, AcquireServerLock).
THEOREM LockExcludes == ASSUME FileLockAssumption PROVE Spec => []Excludes
  BY InitIInv, NextIInv, Exclusive, PTL DEF Spec
=============================================================================
