---------------------------- MODULE ServerProofs ----------------------------
(***************************************************************************)
(* Proofs about the processes on one data directory (Startup), the settings *)
(* they change (Settings) and the clock of the server (Scheduler), three     *)
(* parts without common state.                                              *)
(*                                                                         *)
(* For any number of servers, commands and migrations the two locks         *)
(* exclude, every migration is applied once, all work with one key, and the *)
(* tokens that were written stay usable.                                    *)
(*                                                                         *)
(* The stored settings are a combination the validation accepts, whatever   *)
(* changes are asked for, the providers known and the requests of the Web   *)
(* that come together, when a command runs alone, without the server and    *)
(* without another command: each process has a settingsMu of its own, and   *)
(* what holds under one mutex fails under two (the run settings_commands    *)
(* shows it).                                                               *)
(*                                                                         *)
(* The clock fires each time once, runs the cleanup once a day, sends the   *)
(* notification mails when they are announced and takes up what a usage     *)
(* limit put off, whatever the times of a day and the interval are, however *)
(* the clock is set and whenever the process dies.                          *)
(***************************************************************************)
EXTENDS Startup, Settings, Scheduler, FiniteSetTheorems, WellFoundedInduction, TLAPS

SrvP == INSTANCE FileLockProofs WITH Checked <- FALSE,
          file <- sFile, owner <- sOwner, fd <- sFd, phase <- sPhase
MigP == INSTANCE FileLockProofs WITH Checked <- TRUE,
          file <- mFile, owner <- mOwner, fd <- mFd, phase <- mPhase

LEMMA Constants == SrvP!FileLockAssumption /\ MigP!FileLockAssumption
  BY StartupAssumption DEF SrvP!FileLockAssumption, MigP!FileLockAssumption

-----------------------------------------------------------------------------
(* The locks are FileLocks.                                                  *)

\* A step of a process is a step of the lock it takes or frees, or of neither.
LEMMA LockStep ==
  ASSUME NEW p \in Procs, Begin(p) \/ Step(p) \/ CreateToken(p) \/ DeleteToken(p) \/ Quit(p) \/ Crash(p)
  PROVE  /\ Srv!Acquire(p) \/ Srv!Release(p) \/ Srv!Die(p) \/ UNCHANGED <<windows, srv>>
         /\ Mig!Acquire(p) \/ Mig!Release(p) \/ Mig!Die(p) \/ UNCHANGED <<windows, mig>>
<1>1. CASE ServerLock(p) \/ ServerUnlock(p)
  <2>1. Srv!Acquire(p) \/ Srv!Release(p)
    BY <1>1 DEF ServerLock, ServerUnlock
  <2>2. windows' = windows
    BY <2>1 DEF Srv!Acquire, Srv!Release, Srv!Open, Srv!Try, Srv!Held, Srv!Same, Srv!Remove, Srv!Close, Srv!Again
  <2> QED
    BY <1>1, <2>1, <2>2 DEF ServerLock, ServerUnlock, mig
<1>2. CASE MigrationLock(p) \/ MigrationUnlock(p)
  <2>1. Mig!Acquire(p) \/ Mig!Release(p)
    BY <1>2 DEF MigrationLock, MigrationUnlock
  <2>2. windows' = windows
    BY <2>1 DEF Mig!Acquire, Mig!Release, Mig!Open, Mig!Try, Mig!Held, Mig!Same, Mig!Remove, Mig!Close, Mig!Again
  <2> QED
    BY <1>2, <2>1, <2>2 DEF MigrationLock, MigrationUnlock, srv
<1>3. CASE Crash(p)
  BY <1>3 DEF Crash
<1>4. CASE UNCHANGED locks
  BY <1>4 DEF locks, srv, mig
<1> QED
  BY <1>1, <1>2, <1>3, <1>4
  DEF Begin, Step, CreateToken, DeleteToken, Quit, UpToDate, Pending, Apply, ApplyFails, Migrated, ReadKey,
      StoreKey, EnsureDefaultToken, CountTokens, InsertToken, SetDefaultToken, StatementFails,
      WriteControlToken, RemoveControlToken, RemoveFile

\* The two readings of FileLock, the one of Startup and the one of its proofs, agree.
LEMMA SameLocks ==
  ASSUME NEW p \in Procs
  PROVE  /\ SrvP!Acquire(p) <=> Srv!Acquire(p)
         /\ SrvP!Release(p) <=> Srv!Release(p)
         /\ SrvP!Die(p) <=> Srv!Die(p)
         /\ MigP!Acquire(p) <=> Mig!Acquire(p)
         /\ MigP!Release(p) <=> Mig!Release(p)
         /\ MigP!Die(p) <=> Mig!Die(p)
  BY DEF SrvP!Acquire, Srv!Acquire, MigP!Acquire, Mig!Acquire, SrvP!Release, Srv!Release, MigP!Release,
         Mig!Release, SrvP!Die, Srv!Die, MigP!Die, Mig!Die, SrvP!Open, Srv!Open, MigP!Open, Mig!Open,
         SrvP!Try, Srv!Try, MigP!Try, Mig!Try, SrvP!Held, Srv!Held, MigP!Held, Mig!Held, SrvP!Same,
         Srv!Same, MigP!Same, Mig!Same, SrvP!Remove, Srv!Remove, MigP!Remove, Mig!Remove, SrvP!Close,
         Srv!Close, MigP!Close, Mig!Close, SrvP!Again, Srv!Again, MigP!Again, Mig!Again,
         SrvP!Removable, Srv!Removable, MigP!Removable, Mig!Removable, SrvP!Opened, Srv!Opened,
         MigP!Opened, Mig!Opened, SrvP!Fresh, Srv!Fresh, MigP!Fresh, Mig!Fresh, SrvP!Moves, Srv!Moves,
         MigP!Moves, Mig!Moves, SrvP!Shuts, Srv!Shuts, MigP!Shuts, Mig!Shuts, SrvP!Free, Srv!Free,
         MigP!Free, Mig!Free, SrvP!Holding, Srv!Holding, MigP!Holding, Mig!Holding

LEMMA LockSteps == [Next]_vars => [SrvP!Next]_(SrvP!vars) /\ [MigP!Next]_(MigP!vars)
<1>1. ASSUME Next PROVE [Srv!Next]_(Srv!vars) /\ [Mig!Next]_(Mig!vars)
  BY <1>1, LockStep DEF Next, Srv!Next, Mig!Next, Srv!vars, Mig!vars, srv, mig
<1>2. ASSUME UNCHANGED vars PROVE UNCHANGED <<Srv!vars, Mig!vars>>
  BY <1>2 DEF vars, locks, srv, mig, Srv!vars, Mig!vars
<1>3. [Srv!Next]_(Srv!vars) => [SrvP!Next]_(SrvP!vars)
  BY SameLocks DEF Srv!Next, Srv!vars, SrvP!Next, SrvP!vars
<1>4. [Mig!Next]_(Mig!vars) => [MigP!Next]_(MigP!vars)
  BY SameLocks DEF Mig!Next, Mig!vars, MigP!Next, MigP!vars
<1> QED
  BY <1>1, <1>2, <1>3, <1>4

-----------------------------------------------------------------------------
(* The inductive invariant of the migrations and of the master key.          *)

\* Who looks the pending migrations up or applies them has the lock, ...
MigrationLocked == \A p \in Procs : pc[p] \in {"pending", "migrate"} => mPhase[p] = "in"

\* ... and what it has left to apply is what nobody has applied.
RestIsLeft == \A p \in Procs : pc[p] = "migrate" => todo[p] = (Len(applied) + 1)..Versions

Shape ==
  /\ pc \in [Procs -> Places] /\ todo \in [Procs -> SUBSET (1..Versions)]
  /\ applied \in Seq(1..Versions) /\ Len(applied) <= Versions
  /\ stored \in Procs \cup {NoKey} /\ key \in [Procs -> Procs \cup {NoKey}]

\* A process has a token in hand only while it makes it.
InHand ==
  /\ mine = [p \in Procs |-> mine[p]]
  /\ \A p \in Procs : mine[p].then \in {"announce", "working"} /\ (pc[p] \notin Working => mine[p] = None)

MigP_IInv == MigP!IInv
IInv == Shape /\ InHand /\ MigP_IInv /\ MigrationLocked /\ RestIsLeft /\ AppliedOnce /\ SameKey

LEMMA InitIInv == Init => IInv
<1> SUFFICES ASSUME Init PROVE IInv
  OBVIOUS
<1>1. MigP!Init
  BY DEF Init, Mig!Init, MigP!Init
<1>2. MigP_IInv
  BY <1>1, Constants, MigP!InitIInv DEF MigP_IInv
<1>3. PICK n \in 0..Versions : applied = [i \in 1..n |-> i]
  BY DEF Init
<1>4. applied \in Seq(1..Versions) /\ Len(applied) = n /\ DOMAIN applied = 1..n
  BY <1>3, StartupAssumption
<1>5. AppliedOnce
  BY <1>3, <1>4 DEF AppliedOnce
<1>6. Shape /\ MigrationLocked /\ RestIsLeft /\ SameKey
  BY <1>4, StartupAssumption DEF Init, Shape, MigrationLocked, RestIsLeft, SameKey, Places
<1>7. InHand
  BY DEF Init, InHand, None
<1> QED
  BY <1>2, <1>5, <1>6, <1>7 DEF IInv

\* One process at a time has the migration lock.
LEMMA OneMigrator ==
  ASSUME IInv, NEW p \in Procs, NEW q \in Procs, mPhase[p] = "in", mPhase[q] = "in"
  PROVE  p = q
<1>1. MigP!Excludes
  BY Constants, MigP!Exclusive DEF IInv, MigP_IInv
<1> QED
  BY <1>1 DEF MigP!Excludes, MigP!OneHolder

\* Taking and freeing a lock leaves the phase of the other processes alone.
LEMMA OthersPhase ==
  ASSUME IInv, NEW p \in Procs, NEW q \in Procs, q # p,
         Mig!Acquire(p) \/ Mig!Release(p) \/ Mig!Die(p)
  PROVE  mPhase'[q] = mPhase[q]
<1>1. mPhase \in [Procs -> MigP!Phases]
  BY DEF IInv, MigP_IInv, MigP!IInv, MigP!TypeOK
<1>2. \E to : mPhase' = [mPhase EXCEPT ![p] = to]
  BY DEF Mig!Acquire, Mig!Release, Mig!Die, Mig!Open, Mig!Try, Mig!Held, Mig!Same, Mig!Remove,
         Mig!Close, Mig!Again, Mig!Moves
<1> QED
  BY <1>1, <1>2

\* Whatever a process does but look up and apply migrations.
LEMMA QuietStep ==
  ASSUME IInv, NEW p \in Procs, NEW to \in Places, to # "migrate",
         to = "pending" => mPhase'[p] = "in",
         Goes(p, to), applied' = applied,
         \A q \in Procs : q # p => todo'[q] = todo[q] /\ mPhase'[q] = mPhase[q],
         todo' \in [Procs -> SUBSET (1..Versions)],
         stored' \in Procs \cup {NoKey}, key' \in [Procs -> Procs \cup {NoKey}]
  PROVE  Shape' /\ MigrationLocked' /\ RestIsLeft' /\ AppliedOnce'
<1>1. pc' = [pc EXCEPT ![p] = to] /\ pc \in [Procs -> Places]
  BY DEF Goes, IInv, Shape
<1>2. Shape' /\ AppliedOnce'
  BY <1>1 DEF IInv, Shape, AppliedOnce
<1>3. MigrationLocked' /\ RestIsLeft'
  BY <1>1 DEF IInv, MigrationLocked, RestIsLeft
<1> QED
  BY <1>2, <1>3

LEMMA PendingStep ==
  ASSUME IInv, NEW p \in Procs, Pending(p)
  PROVE  Shape' /\ MigrationLocked' /\ RestIsLeft' /\ AppliedOnce'
<1>1. /\ pc[p] = "pending" /\ pc' = [pc EXCEPT ![p] = "migrate"]
      /\ todo' = [todo EXCEPT ![p] = Missing]
      /\ UNCHANGED <<mPhase, applied, stored, key>>
  BY DEF Pending, Goes, locks, mig, database
<1>2. DOMAIN applied = 1..Len(applied) /\ \A i \in DOMAIN applied : applied[i] = i
  BY DEF IInv, Shape, AppliedOnce
<1>3. Missing = (Len(applied) + 1)..Versions
  BY <1>2, StartupAssumption DEF Missing, Done, IInv, Shape
<1>4. Missing \in SUBSET (1..Versions)
  BY DEF Missing
<1>5. Shape' /\ AppliedOnce'
  BY <1>1, <1>4 DEF IInv, Shape, AppliedOnce, Places
<1>6. MigrationLocked' /\ RestIsLeft'
  BY <1>1, <1>3 DEF IInv, Shape, MigrationLocked, RestIsLeft
<1> QED
  BY <1>5, <1>6

LEMMA ApplyStep ==
  ASSUME IInv, NEW p \in Procs, Apply(p)
  PROVE  Shape' /\ MigrationLocked' /\ RestIsLeft' /\ AppliedOnce'
<1> DEFINE n == Len(applied)
<1>1. n \in Nat /\ n <= Versions /\ Versions \in Nat
  BY StartupAssumption DEF IInv, Shape
<1>2. todo[p] = (n + 1)..Versions /\ todo[p] # {}
  BY DEF Apply, IInv, RestIsLeft
<1>3. n + 1 \in todo[p] /\ n + 1 <= Versions
  BY <1>1, <1>2
<1>4. (CHOOSE v \in todo[p] : \A w \in todo[p] : v <= w) = n + 1
  BY <1>1, <1>2, <1>3
<1>5. applied' = Append(applied, n + 1) /\ todo' = [todo EXCEPT ![p] = @ \ {n + 1}]
  BY <1>4 DEF Apply
<1>6. UNCHANGED <<pc, mPhase, stored, key>>
  BY DEF Apply, locks, mig
<1>7. applied' \in Seq(1..Versions) /\ Len(applied') = n + 1
  BY <1>1, <1>3, <1>5 DEF IInv, Shape
<1>8. Shape' /\ MigrationLocked'
  BY <1>1, <1>3, <1>5, <1>6, <1>7 DEF IInv, Shape, MigrationLocked
<1>9. RestIsLeft'
  <2> SUFFICES ASSUME NEW q \in Procs, pc[q] = "migrate"
               PROVE  todo'[q] = (n + 2)..Versions
    BY <1>1, <1>6, <1>7 DEF RestIsLeft
  <2>1. pc[p] = "migrate"
    BY DEF Apply
  <2>2. q = p
    BY <2>1, OneMigrator DEF IInv, MigrationLocked
  <2> QED
    BY <1>1, <1>2, <1>5, <2>2 DEF IInv, Shape
<1>10. AppliedOnce'
  <2>1. \A i \in 1..n : applied[i] = i
    BY <1>1 DEF IInv, Shape, AppliedOnce
  <2>2. \A i \in 1..(n + 1) : applied'[i] = i
    BY <1>1, <1>5, <2>1 DEF IInv, Shape
  <2> QED
    BY <1>1, <1>7, <2>2 DEF AppliedOnce
<1> QED
  BY <1>8, <1>9, <1>10

\* The steps that touch neither a migration nor its lock.
LEMMA OtherStep ==
  ASSUME IInv, NEW p \in Procs, UNCHANGED <<mig, applied>>,
         NEW to \in Places \ {"pending", "migrate"}, Goes(p, to),
         todo' = todo \/ todo' = [todo EXCEPT ![p] = {}],
         stored' \in Procs \cup {NoKey}, key' \in [Procs -> Procs \cup {NoKey}]
  PROVE  Shape' /\ MigrationLocked' /\ RestIsLeft' /\ AppliedOnce'
<1>1. todo' \in [Procs -> SUBSET (1..Versions)] /\ \A q \in Procs : q # p => todo'[q] = todo[q]
  BY DEF IInv, Shape
<1>2. mPhase' = mPhase
  BY DEF mig
<1> QED
  BY <1>1, <1>2, QuietStep

LEMMA MigrationLockStep ==
  ASSUME IInv, NEW p \in Procs, MigrationLock(p) \/ MigrationUnlock(p)
  PROVE  Shape' /\ MigrationLocked' /\ RestIsLeft' /\ AppliedOnce'
<1>1. Mig!Acquire(p) \/ Mig!Release(p)
  BY DEF MigrationLock, MigrationUnlock
<1>2. \A q \in Procs : q # p => mPhase'[q] = mPhase[q]
  BY <1>1, OthersPhase
<1>3. UNCHANGED <<applied, todo, stored, key>>
  BY DEF MigrationLock, MigrationUnlock, database, own
<1>4. PICK to \in Places \ {"migrate"} : Goes(p, to) /\ (to = "pending" => mPhase'[p] = "in")
  <2>1. CASE MigrationLock(p)
    BY <2>1 DEF MigrationLock, Places
  <2>2. CASE MigrationUnlock(p) /\ mPhase'[p] # "out"
    BY <2>2 DEF MigrationUnlock, Goes, IInv, Shape, Places
  <2>3. CASE MigrationUnlock(p) /\ mPhase'[p] = "out"
    BY <2>3 DEF MigrationUnlock, Ends, Places
  <2> QED
    BY <2>1, <2>2, <2>3
<1> QED
  BY <1>2, <1>3, <1>4, QuietStep DEF IInv, Shape

LEMMA CrashStep ==
  ASSUME IInv, NEW p \in Procs, Crash(p)
  PROVE  Shape' /\ MigrationLocked' /\ RestIsLeft' /\ AppliedOnce'
<1>1. \A q \in Procs : q # p => mPhase'[q] = mPhase[q]
  BY OthersPhase DEF Crash, mig
<1>2. todo' = [todo EXCEPT ![p] = {}] /\ key' = [key EXCEPT ![p] = NoKey] /\ stored' = stored
      /\ applied' = applied /\ Goes(p, "off") /\ "off" \in Places
  BY DEF Crash, Forgets, Places
<1>3. todo' \in [Procs -> SUBSET (1..Versions)] /\ key' \in [Procs -> Procs \cup {NoKey}]
  BY <1>2 DEF IInv, Shape
<1> QED
  BY <1>1, <1>2, <1>3, QuietStep DEF IInv, Shape

\* The steps that write the key or move on within a start.
LEMMA KeyStep ==
  ASSUME IInv, NEW p \in Procs, ReadKey(p) \/ StoreKey(p)
  PROVE  Shape' /\ MigrationLocked' /\ RestIsLeft' /\ AppliedOnce' /\ SameKey'
<1>1. CASE ReadKey(p)
  <2>1. PICK to \in Places \ {"pending", "migrate"} : Goes(p, to)
    BY <1>1 DEF ReadKey, Ready, Places
  <2>2. UNCHANGED <<mig, applied, todo, stored>> /\ (key' = key \/ key' = [key EXCEPT ![p] = stored])
    BY <1>1 DEF ReadKey, locks, database
  <2>3. key' \in [Procs -> Procs \cup {NoKey}] /\ SameKey'
    BY <2>2 DEF IInv, Shape, SameKey
  <2> QED
    BY <2>1, <2>2, <2>3, OtherStep DEF IInv, Shape
<1>2. CASE StoreKey(p)
  <2>1. Goes(p, "key") /\ "key" \in Places \ {"pending", "migrate"} /\ UNCHANGED <<mig, applied, todo, key>>
    BY <1>2 DEF StoreKey, locks, own, Places
  <2>2. stored' = IF stored = NoKey THEN p ELSE stored
    BY <1>2 DEF StoreKey
  <2>3. SameKey'
    BY <2>1, <2>2 DEF IInv, SameKey
  <2> QED
    BY <2>1, <2>2, <2>3, OtherStep DEF IInv, Shape
<1> QED
  BY <1>1, <1>2

\* Whatever else a process does.
LEMMA RestStep ==
  ASSUME IInv, NEW p \in Procs,
         \/ Begin(p) \/ ServerLock(p) \/ UpToDate(p) \/ ApplyFails(p) \/ Migrated(p)
         \/ EnsureDefaultToken(p) \/ CreateToken(p) \/ CountTokens(p) \/ InsertToken(p)
         \/ SetDefaultToken(p) \/ StatementFails(p) \/ WriteControlToken(p) \/ Quit(p)
         \/ RemoveControlToken(p) \/ RemoveFile(p) \/ ServerUnlock(p)
  PROVE  Shape' /\ MigrationLocked' /\ RestIsLeft' /\ AppliedOnce' /\ SameKey'
<1>1. PICK to \in Places \ {"pending", "migrate"} : Goes(p, to)
  <2>1. CASE Begin(p) \/ UpToDate(p) \/ ApplyFails(p) \/ Migrated(p) \/ WriteControlToken(p) \/ Quit(p)
             \/ RemoveControlToken(p) \/ RemoveFile(p) \/ ServerUnlock(p)
    BY <2>1 DEF Begin, UpToDate, ApplyFails, Migrated, WriteControlToken, Quit, RemoveControlToken,
                RemoveFile, ServerUnlock, Places
  <2>2. CASE ServerLock(p)
    BY <2>2 DEF ServerLock, Places
  <2>3. CASE EnsureDefaultToken(p) \/ CreateToken(p) \/ CountTokens(p)
    BY <2>3 DEF EnsureDefaultToken, CreateToken, CountTokens, Creates, Places, Working
  <2>4. CASE InsertToken(p) \/ SetDefaultToken(p) \/ StatementFails(p)
    <3>1. mine[p].then \in {"announce", "working"}
      BY DEF IInv, InHand
    <3>2. PICK at \in {"promote", "announce", "working", "leaving", "off"} : Goes(p, at)
      BY <2>4, <3>1 DEF InsertToken, SetDefaultToken, StatementFails, Resumes, Fails, Ends
    <3> QED
      BY <3>2 DEF Places, Working
  <2> QED
    BY <2>1, <2>2, <2>3, <2>4
<1>2. UNCHANGED <<mig, applied, stored>>
  BY DEF Begin, ServerLock, UpToDate, ApplyFails, Migrated, EnsureDefaultToken, CreateToken, CountTokens,
         InsertToken, SetDefaultToken, StatementFails, WriteControlToken, Quit, RemoveControlToken, RemoveFile,
         ServerUnlock, locks, database
<1>3. \/ todo' = todo /\ key' = key
      \/ todo' = [todo EXCEPT ![p] = {}] /\ key' = [key EXCEPT ![p] = NoKey]
  BY DEF Begin, ServerLock, UpToDate, ApplyFails, Migrated, EnsureDefaultToken, CreateToken, CountTokens,
         InsertToken, SetDefaultToken, StatementFails, WriteControlToken, Quit, RemoveControlToken, RemoveFile,
         ServerUnlock, own, Forgets
<1>4. key' \in [Procs -> Procs \cup {NoKey}] /\ SameKey'
  BY <1>2, <1>3 DEF IInv, Shape, SameKey
<1> QED
  BY <1>1, <1>2, <1>3, <1>4, OtherStep DEF IInv, Shape

\* Where a step leads the others and itself, and whose token it changes.
LEMMA OthersStay ==
  ASSUME IInv, NEW p \in Procs,
         Begin(p) \/ Step(p) \/ CreateToken(p) \/ DeleteToken(p) \/ Quit(p) \/ Crash(p)
  PROVE  /\ \A q \in Procs : q # p => pc'[q] = pc[q] /\ mine'[q] = mine[q]
         /\ mine' = [q \in Procs |-> mine'[q]]
<1>1. pc \in [Procs -> Places] /\ mine = [q \in Procs |-> mine[q]]
  BY DEF IInv, Shape, InHand
<1>2. pc' = pc \/ \E to : pc' = [pc EXCEPT ![p] = to]
  BY DEF Begin, Step, CreateToken, DeleteToken, Quit, Crash, ServerLock, UpToDate, MigrationLock, Pending,
         Apply, ApplyFails, Migrated, MigrationUnlock, Ends, ReadKey, StoreKey, Ready, EnsureDefaultToken,
         CountTokens, InsertToken, SetDefaultToken, StatementFails, Creates, Resumes, Fails,
         WriteControlToken, RemoveControlToken, RemoveFile, ServerUnlock, Goes, locks
<1>3. mine' = mine \/ \E t : mine' = [mine EXCEPT ![p] = t]
  <2>1. CASE CountTokens(p)
    BY <2>1 DEF CountTokens, Creates
  <2>2. CASE InsertToken(p) \/ SetDefaultToken(p) \/ StatementFails(p) \/ Quit(p) \/ Crash(p)
    BY <2>2 DEF InsertToken, SetDefaultToken, StatementFails, Resumes, Fails, Finished, Quit, Crash, Forgets
  <2>3. CASE EnsureDefaultToken(p) \/ CreateToken(p)
    BY <2>3 DEF EnsureDefaultToken, CreateToken, Creates
  <2>4. CASE ~(CountTokens(p) \/ InsertToken(p) \/ SetDefaultToken(p) \/ StatementFails(p) \/ Quit(p)
               \/ Crash(p) \/ EnsureDefaultToken(p) \/ CreateToken(p))
    BY <2>4 DEF Begin, Step, DeleteToken, ServerLock, UpToDate, MigrationLock, Pending, Apply, ApplyFails,
                Migrated, MigrationUnlock, ReadKey, StoreKey, WriteControlToken, RemoveControlToken,
                RemoveFile, ServerUnlock, own
  <2> QED
    BY <2>1, <2>2, <2>3, <2>4
<1>4. \A q \in Procs : q # p => pc'[q] = pc[q]
  BY <1>1, <1>2
<1>5. (\A q \in Procs : q # p => mine'[q] = mine[q]) /\ mine' = [q \in Procs |-> mine'[q]]
  BY <1>1, <1>3
<1> QED
  BY <1>4, <1>5

\* Counting the tokens changes whether the new one is to be the default.
LEMMA CountGives ==
  ASSUME IInv, NEW p \in Procs, CountTokens(p)
  PROVE  pc[p] = "count" /\ pc'[p] = "insert" /\ mine'[p].then = mine[p].then
<1>1. p \in DOMAIN pc /\ p \in DOMAIN mine
  BY DEF IInv, Shape, InHand
<1>2. pc[p] = "count" /\ pc'[p] = "insert"
  BY <1>1 DEF CountTokens, Creates, Goes
<1>3. \E d : mine' = [mine EXCEPT ![p] = [id |-> mine[p].id, default |-> d, then |-> mine[p].then]]
  BY Zenon DEF CountTokens, Creates
<1>4. mine'[p].then = mine[p].then
  BY <1>1, <1>3
<1> QED
  BY <1>2, <1>4

LEMMA HandStep ==
  ASSUME IInv, NEW p \in Procs,
         Begin(p) \/ Step(p) \/ CreateToken(p) \/ DeleteToken(p) \/ Quit(p) \/ Crash(p)
  PROVE  InHand'
<1> USE DEF InHand
<1>1. pc \in [Procs -> Places] /\ p \in DOMAIN pc /\ p \in DOMAIN mine
  BY DEF IInv, Shape
<1>2. mine[p].then \in {"announce", "working"} /\ (pc[p] \notin Working => mine[p] = None)
  BY DEF IInv
<1> SUFFICES mine'[p].then \in {"announce", "working"} /\ (pc'[p] \notin Working => mine'[p] = None)
  BY OthersStay DEF IInv
<1>3. None.then = "announce"
  BY DEF None
<1>4. CASE CountTokens(p)
  BY <1>2, <1>4, CountGives DEF Working
<1>5. CASE EnsureDefaultToken(p)
  BY <1>1, <1>2, <1>3, <1>5 DEF EnsureDefaultToken, Creates, Goes, Working
<1>6. CASE CreateToken(p)
  BY <1>1, <1>6 DEF CreateToken, Creates, Goes, Working
<1>7. CASE InsertToken(p) \/ SetDefaultToken(p) \/ StatementFails(p)
  <2>1. CASE mine' = mine
    <3>1. (InsertToken(p) /\ pc'[p] = "promote") \/ mine'[p] = None
      BY <1>1, <1>7, <2>1 DEF InsertToken, SetDefaultToken, StatementFails, Resumes, Fails, Finished, Goes
    <3> QED
      BY <1>2, <1>3, <2>1, <3>1 DEF Working
  <2>2. CASE mine' # mine
    <3>1. mine'[p] = None
      BY <1>1, <1>7, <2>2 DEF InsertToken, SetDefaultToken, StatementFails, Resumes, Fails, Finished
    <3> QED
      BY <1>3, <3>1
  <2> QED
    BY <2>1, <2>2
<1>8. CASE Quit(p) \/ Crash(p)
  BY <1>1, <1>3, <1>8 DEF Quit, Crash, Forgets
<1>9. CASE ~(CountTokens(p) \/ EnsureDefaultToken(p) \/ CreateToken(p) \/ InsertToken(p)
             \/ SetDefaultToken(p) \/ StatementFails(p) \/ Quit(p) \/ Crash(p))
  <2>1. mine' = mine
    BY <1>9 DEF Begin, Step, DeleteToken, ServerLock, UpToDate, MigrationLock, Pending, Apply, ApplyFails,
                Migrated, MigrationUnlock, ReadKey, StoreKey, WriteControlToken, RemoveControlToken,
                RemoveFile, ServerUnlock, own
  <2>2. pc[p] \notin Working \/ pc' = pc
    BY <1>9 DEF Begin, Step, DeleteToken, ServerLock, UpToDate, MigrationLock, Pending, Apply, ApplyFails,
                Migrated, MigrationUnlock, ReadKey, StoreKey, WriteControlToken, RemoveControlToken,
                RemoveFile, ServerUnlock, Working
  <2> QED
    BY <1>2, <2>1, <2>2
<1> QED
  BY <1>4, <1>5, <1>6, <1>7, <1>8, <1>9

LEMMA NextIInv == IInv /\ [Next]_vars => IInv'
<1> SUFFICES ASSUME IInv, [Next]_vars PROVE IInv'
  OBVIOUS
<1>1. MigP_IInv'
  BY Constants, LockSteps, MigP!NextIInv DEF IInv, MigP_IInv
<1>2. CASE UNCHANGED vars
  <2>1. Shape' /\ MigrationLocked' /\ RestIsLeft' /\ AppliedOnce' /\ SameKey'
    BY <1>2 DEF vars, locks, mig, database, own, IInv, Shape, MigrationLocked, RestIsLeft, AppliedOnce, SameKey
  <2>2. InHand'
    BY <1>2 DEF vars, own, IInv, InHand
  <2> QED
    BY <1>1, <2>1, <2>2 DEF IInv
<1>3. ASSUME NEW p \in Procs,
             Begin(p) \/ Step(p) \/ CreateToken(p) \/ DeleteToken(p) \/ Quit(p) \/ Crash(p)
      PROVE  Shape' /\ InHand' /\ MigrationLocked' /\ RestIsLeft' /\ AppliedOnce' /\ SameKey'
  <2> SUFFICES Shape' /\ MigrationLocked' /\ RestIsLeft' /\ AppliedOnce' /\ SameKey'
    BY <1>3, HandStep
  <2>1. CASE Pending(p)
    BY <2>1, PendingStep DEF Pending, IInv, SameKey, database
  <2>2. CASE Apply(p)
    BY <2>2, ApplyStep DEF Apply, IInv, SameKey
  <2>3. CASE MigrationLock(p) \/ MigrationUnlock(p)
    BY <2>3, MigrationLockStep DEF MigrationLock, MigrationUnlock, IInv, SameKey, database, own
  <2>4. CASE Crash(p)
    <3>1. stored' = stored /\ key' = [key EXCEPT ![p] = NoKey]
      BY <2>4 DEF Crash, Forgets
    <3>2. SameKey'
      BY <3>1 DEF IInv, Shape, SameKey
    <3> QED
      BY <2>4, <3>2, CrashStep
  <2>5. CASE ReadKey(p) \/ StoreKey(p)
    BY <2>5, KeyStep
  <2>6. CASE DeleteToken(p)
    BY <2>6 DEF DeleteToken, locks, mig, own, IInv, Shape, MigrationLocked, RestIsLeft, AppliedOnce, SameKey
  <2> QED
    BY <1>3, <2>1, <2>2, <2>3, <2>4, <2>5, <2>6, RestStep DEF Step
<1> QED
  BY <1>1, <1>2, <1>3 DEF IInv, Next

-----------------------------------------------------------------------------
LEMMA LocksRefine == Spec => SrvP!Spec /\ MigP!Spec
<1>1. Init => SrvP!Init /\ MigP!Init
  BY DEF Init, Srv!Init, Mig!Init, SrvP!Init, MigP!Init
<1> QED
  BY <1>1, LockSteps, PTL DEF Spec, SrvP!Spec, MigP!Spec

\* The migration lock excludes everywhere, the server lock on Windows.
THEOREM StartsExclude == Spec => []LocksExclude
<1>1. SrvP!Spec => []SrvP!Excludes
  BY Constants, SrvP!LockExcludes
<1>2. MigP!Spec => []MigP!Excludes
  BY Constants, MigP!LockExcludes
<1>3. SrvP!Excludes /\ MigP!Excludes => LocksExclude
  BY DEF LocksExclude, Srv!Excludes, Mig!Excludes, SrvP!Excludes, MigP!Excludes,
         Srv!OneHolder, Mig!OneHolder, SrvP!OneHolder, MigP!OneHolder
<1> QED
  BY <1>1, <1>2, <1>3, LocksRefine, PTL

\* However many processes open the database and whichever are killed: every
\* migration is applied once, in order (ApplyLocked).
THEOREM MigratesOnce == Spec => []AppliedOnce
<1>1. IInv => AppliedOnce
  BY DEF IInv
<1> QED
  BY <1>1, InitIInv, NextIInv, PTL DEF Spec

\* No two processes ever work with different master keys (LoadSecretKey).
THEOREM OneKey == Spec => []SameKey
<1>1. IInv => SameKey
  BY DEF IInv
<1> QED
  BY <1>1, InitIInv, NextIInv, PTL DEF Spec

-----------------------------------------------------------------------------
(* The tokens.  That a server at work keeps its control token rests on every *)
(* server past the lock having it: a second one that writes or removes the   *)
(* file means that two run.                                                  *)

\* Between the server lock and its release.
Inside == Places \ {"off", "locking", "leaving"}
ServersHaveLock == \A p \in Servers : pc[p] \in Inside => sPhase[p] = "in"

\* Only servers make a default token at their start and announce themselves.
ServersAnnounce ==
  \A p \in Procs :
    pc[p] \in {"ensure", "announce", "stopping", "removing"} \/ (pc[p] \in Working /\ mine[p].then = "announce") =>
      p \in Servers

\* The file a server is about to remove holds its token, or one that was
\* written since it looked.
OwnOrCrossed == \A p \in Procs : pc[p] = "removing" => control \in {p, Nobody} \cup crossed

SrvP_IInv == SrvP!IInv
TokenInv ==
  IInv /\ SrvP_IInv /\ ServersHaveLock /\ ServersAnnounce /\ OneDefaultToken /\ OwnOrCrossed /\ ControlTokenThere

LEMMA InitTokenInv == Init => TokenInv
<1> SUFFICES ASSUME Init PROVE TokenInv
  OBVIOUS
<1>1. SrvP!Init
  BY DEF Init, Srv!Init, SrvP!Init
<1>2. SrvP_IInv
  BY <1>1, Constants, SrvP!InitIInv DEF SrvP_IInv
<1>3. ServersHaveLock /\ ServersAnnounce /\ OneDefaultToken /\ OwnOrCrossed /\ ControlTokenThere
  BY DEF Init, ServersHaveLock, Inside, ServersAnnounce, OneDefaultToken, OwnOrCrossed, ControlTokenThere,
         AtWork, Procs, Working
<1> QED
  BY <1>2, <1>3, InitIInv DEF TokenInv

\* Where a step leads, and what it does to the server lock.
LEMMA ServerPlaces ==
  ASSUME TokenInv, NEW p \in Procs,
         Begin(p) \/ Step(p) \/ CreateToken(p) \/ DeleteToken(p) \/ Quit(p) \/ Crash(p)
  PROVE  /\ \A q \in Procs : q # p => sPhase'[q] = sPhase[q]
         /\ p \in Servers /\ pc'[p] \in Inside => sPhase'[p] = "in"
<1>1. pc \in [Procs -> Places] /\ sPhase \in [Procs -> SrvP!Phases]
  BY DEF TokenInv, IInv, Shape, SrvP_IInv, SrvP!IInv, SrvP!TypeOK
<1>2. sPhase' = sPhase \/ \E to : sPhase' = [sPhase EXCEPT ![p] = to]
  <2>1. Srv!Acquire(p) \/ Srv!Release(p) \/ Srv!Die(p) \/ UNCHANGED <<windows, srv>>
    BY LockStep
  <2> QED
    BY <2>1 DEF Srv!Acquire, Srv!Release, Srv!Die, Srv!Open, Srv!Try, Srv!Held, Srv!Same, Srv!Remove,
                Srv!Close, Srv!Again, Srv!Moves, srv
<1>3. ASSUME p \in Servers, pc'[p] \in Inside PROVE sPhase'[p] = "in"
  <2>1. CASE ServerLock(p)
    BY <1>1, <1>3, <2>1 DEF ServerLock, Goes, Inside
  <2>2. CASE Begin(p) \/ ServerUnlock(p) \/ Crash(p)
    BY <1>1, <1>3, <2>2 DEF Begin, ServerUnlock, Crash, Goes, Inside
  <2>3. CASE ~(ServerLock(p) \/ Begin(p) \/ ServerUnlock(p) \/ Crash(p))
    <3>1. sPhase' = sPhase
      BY <2>3 DEF Step, CreateToken, DeleteToken, Quit, UpToDate, MigrationLock, Pending, Apply, ApplyFails,
                  Migrated, MigrationUnlock, ReadKey, StoreKey, EnsureDefaultToken, CountTokens, InsertToken,
                  SetDefaultToken, StatementFails, WriteControlToken, RemoveControlToken, RemoveFile, locks, srv
    <3>2. pc[p] \in Inside
      BY <2>3 DEF Step, CreateToken, DeleteToken, Quit, UpToDate, MigrationLock, Pending, Apply, ApplyFails,
                  Migrated, MigrationUnlock, ReadKey, StoreKey, EnsureDefaultToken, CountTokens, InsertToken,
                  SetDefaultToken, StatementFails, WriteControlToken, RemoveControlToken, RemoveFile,
                  Inside, Places, Working
    <3> QED
      BY <1>3, <3>1, <3>2 DEF TokenInv, ServersHaveLock
  <2> QED
    BY <2>1, <2>2, <2>3
<1> QED
  BY <1>1, <1>2, <1>3

LEMMA AnnounceStep ==
  ASSUME TokenInv, NEW p \in Procs,
         Begin(p) \/ Step(p) \/ CreateToken(p) \/ DeleteToken(p) \/ Quit(p) \/ Crash(p)
  PROVE  ServersAnnounce'
<1>1. pc \in [Procs -> Places] /\ p \in DOMAIN pc /\ p \in DOMAIN mine
  BY DEF TokenInv, IInv, Shape, InHand
<1>2. /\ pc[p] \in {"ensure", "announce", "stopping", "removing"} => p \in Servers
      /\ pc[p] \in Working /\ mine[p].then = "announce" => p \in Servers
  BY DEF TokenInv, ServersAnnounce
<1> SUFFICES ASSUME p \notin Servers
             PROVE  /\ pc'[p] \notin {"ensure", "announce", "stopping", "removing"}
                    /\ pc'[p] \in Working => mine'[p].then # "announce"
  BY OthersStay DEF TokenInv, ServersAnnounce
<1>3. CASE CreateToken(p)
  BY <1>1, <1>3 DEF CreateToken, Creates, Goes, Working
<1>6. CASE CountTokens(p)
  <2>1. pc[p] = "count" /\ pc'[p] = "insert" /\ mine'[p].then = mine[p].then
    BY <1>6, CountGives DEF TokenInv
  <2> QED
    BY <1>2, <2>1 DEF Working
<1>4. CASE InsertToken(p) \/ SetDefaultToken(p) \/ StatementFails(p)
  <2>1. mine[p].then = "working" \/ StatementFails(p)
    BY <1>2, <1>4 DEF InsertToken, SetDefaultToken, Working, TokenInv, IInv, InHand
  <2>2. pc'[p] \in {"working", "off"} \/ (pc[p] = "insert" /\ pc'[p] = "promote" /\ mine' = mine)
    <3>1. CASE InsertToken(p)
      BY <1>1, <2>1, <3>1 DEF InsertToken, StatementFails, Resumes, Fails, Ends, Goes
    <3>2. CASE SetDefaultToken(p)
      BY <1>1, <2>1, <3>2 DEF SetDefaultToken, StatementFails, Resumes, Fails, Ends, Goes
    <3>3. CASE StatementFails(p)
      BY <1>1, <3>3 DEF StatementFails, Fails, Ends, Goes
    <3> QED
      BY <1>4, <3>1, <3>2, <3>3
  <2> QED
    BY <1>2, <2>2 DEF Working
<1>5. CASE ~(CreateToken(p) \/ CountTokens(p) \/ InsertToken(p) \/ SetDefaultToken(p) \/ StatementFails(p))
  <2>1. pc[p] \in Working => (pc' = pc /\ mine' = mine) \/ Crash(p)
    BY <1>5 DEF Begin, Step, DeleteToken, Quit, ServerLock, UpToDate, MigrationLock, Pending, Apply, ApplyFails,
                Migrated, MigrationUnlock, ReadKey, StoreKey, EnsureDefaultToken, WriteControlToken,
                RemoveControlToken, RemoveFile, ServerUnlock, Working
  <2>2. pc[p] \notin Working => pc'[p] \notin {"ensure", "announce", "stopping", "removing"} \cup Working
    BY <1>1, <1>2, <1>5
    DEF Begin, Step, DeleteToken, Quit, Crash, ServerLock, UpToDate, MigrationLock, Pending, Apply, ApplyFails,
        Migrated, MigrationUnlock, Ends, ReadKey, StoreKey, Ready, EnsureDefaultToken, WriteControlToken,
        RemoveControlToken, RemoveFile, ServerUnlock, Goes, locks, Working, Procs
  <2>3. Crash(p) => pc'[p] = "off"
    BY <1>1 DEF Crash, Goes
  <2> QED
    BY <1>2, <2>1, <2>2, <2>3 DEF Working
<1> QED
  BY <1>3, <1>4, <1>5, <1>6

\* Only InsertToken makes a second default token, and it goes on to
\* SetDefaultToken, which leaves one, or fails or is killed before.
LEMMA OneDefaultStep ==
  ASSUME TokenInv, NEW p \in Procs,
         Begin(p) \/ Step(p) \/ CreateToken(p) \/ DeleteToken(p) \/ Quit(p) \/ Crash(p)
  PROVE  OneDefaultToken'
<1>1. /\ OneDefaultToken
      /\ \A q \in Procs : q # p => pc'[q] = pc[q] /\ mine'[q] = mine[q]
      /\ p \in DOMAIN pc
  BY OthersStay DEF TokenInv, IInv, Shape
<1>2. CASE InsertToken(p)
  <2>1. pc[p] # "promote" /\ cut' = cut
    BY <1>2 DEF InsertToken
  <2>2. CASE UNCHANGED tokens
    BY <1>1, <2>1, <2>2 DEF OneDefaultToken
  <2>3. CASE mine[p].default /\ tokens' # tokens
    <3>1. pc'[p] = "promote" /\ mine' = mine
      BY <1>1, <1>2, <2>3 DEF InsertToken, Goes
    <3>3. \E to : tokens' = [tokens EXCEPT ![mine[p].id] = to]
      BY <1>2, <2>3, Zenon DEF InsertToken
    <3>2. \A i \in Ids : i # mine[p].id /\ tokens'[i] = "default" => tokens[i] = "default"
      BY <3>3
    <3> QED
      BY <1>1, <2>1, <3>1, <3>2 DEF OneDefaultToken
  <2>4. CASE ~mine[p].default /\ tokens' # tokens
    <3>1. tokens' = [tokens EXCEPT ![mine[p].id] = "plain"]
      BY <1>2, <2>4 DEF InsertToken
    <3>2. \A i \in Ids : tokens'[i] = "default" => tokens[i] = "default"
      BY <3>1
    <3> QED
      BY <1>1, <2>1, <3>2 DEF OneDefaultToken
  <2> QED
    BY <2>2, <2>3, <2>4
<1>3. CASE SetDefaultToken(p)
  <2>1. \A i \in Ids : tokens'[i] = "default" => i = mine[p].id
    BY <1>3 DEF SetDefaultToken, SetDefault
  <2> QED
    BY <2>1 DEF OneDefaultToken
<1>4. CASE DeleteToken(p)
  <2>1. \A i \in Ids : tokens'[i] = "default" => tokens[i] = "default"
    BY <1>4 DEF DeleteToken
  <2>2. UNCHANGED <<pc, mine, cut>>
    BY <1>4 DEF DeleteToken, own
  <2> QED
    BY <1>1, <2>1, <2>2 DEF OneDefaultToken
<1>5. CASE StatementFails(p) \/ Crash(p)
  <2>1. (cut \/ Inserted(p) => cut') /\ tokens' = tokens
    BY <1>5, Zenon DEF StatementFails, Crash
  <2> SUFFICES ASSUME NEW i \in Ids, NEW j \in Ids, tokens[i] = "default", tokens[j] = "default", i # j, ~cut'
               PROVE  \E q \in Procs : pc'[q] = "promote" /\ mine'[q].id \in {i, j}
    BY <2>1, Zenon DEF OneDefaultToken
  <2>2. ~cut /\ ~Inserted(p)
    BY <2>1, Zenon
  <2>3. PICK q \in Procs : pc[q] = "promote" /\ mine[q].id \in {i, j}
    BY <1>1, <2>2 DEF OneDefaultToken
  <2>4. q # p
    BY <2>2, <2>3 DEF Inserted
  <2> QED
    BY <1>1, <2>3, <2>4
<1>6. CASE ~(InsertToken(p) \/ SetDefaultToken(p) \/ DeleteToken(p) \/ StatementFails(p) \/ Crash(p))
  <2>1. UNCHANGED <<tokens, cut>> /\ pc[p] # "promote"
    BY <1>6 DEF Begin, Step, CreateToken, Quit, ServerLock, UpToDate, MigrationLock, Pending, Apply, ApplyFails,
                Migrated, MigrationUnlock, ReadKey, StoreKey, EnsureDefaultToken, CountTokens,
                WriteControlToken, RemoveControlToken, RemoveFile, ServerUnlock, database
  <2> QED
    BY <1>1, <2>1 DEF OneDefaultToken
<1> QED
  BY <1>2, <1>3, <1>4, <1>5, <1>6

\* What a step does to the control token.
LEMMA ControlStep ==
  ASSUME NEW p \in Procs, p \in DOMAIN pc,
         Begin(p) \/ Step(p) \/ CreateToken(p) \/ DeleteToken(p) \/ Quit(p) \/ Crash(p)
  PROVE  \/ control' = control /\ crossed' = crossed
         \/ /\ pc[p] = "announce" /\ control' = p /\ pc'[p] = "working"
            /\ crossed' = IF \E q \in Procs : pc[q] = "removing" THEN crossed \cup {p} ELSE crossed \ {p}
         \/ pc[p] = "removing" /\ control' \in {control, Nobody} /\ crossed' = crossed /\ pc'[p] = "leaving"
         \/ control = p /\ control' = Nobody /\ crossed' = crossed /\ pc'[p] = "off"
<1>1. CASE WriteControlToken(p) \/ RemoveFile(p) \/ Crash(p)
  BY <1>1 DEF WriteControlToken, RemoveFile, Crash, Goes, tokenFile
<1>2. CASE ~(WriteControlToken(p) \/ RemoveFile(p) \/ Crash(p))
  BY <1>2 DEF Begin, Step, CreateToken, DeleteToken, Quit, ServerLock, UpToDate, MigrationLock, Pending, Apply,
         ApplyFails, Migrated, MigrationUnlock, ReadKey, StoreKey, EnsureDefaultToken, CountTokens,
         InsertToken, SetDefaultToken, StatementFails, RemoveControlToken, ServerUnlock, tokenFile
<1> QED
  BY <1>1, <1>2

\* A server looks at the file before it removes it.
LEMMA CrossedStep ==
  ASSUME TokenInv, NEW p \in Procs,
         Begin(p) \/ Step(p) \/ CreateToken(p) \/ DeleteToken(p) \/ Quit(p) \/ Crash(p)
  PROVE  OwnOrCrossed'
<1>1. /\ p \in DOMAIN pc /\ \A q \in Procs : q # p => pc'[q] = pc[q]
      /\ \A q \in Procs : pc[q] = "removing" => control \in {q, Nobody} \cup crossed
  BY OthersStay DEF TokenInv, IInv, Shape, OwnOrCrossed
<1>2. pc'[p] = "removing" => pc[p] = "stopping" /\ control = p /\ UNCHANGED <<control, crossed>>
  <2>1. CASE RemoveControlToken(p)
    BY <1>1, <2>1 DEF RemoveControlToken, Goes, tokenFile
  <2>2. CASE InsertToken(p) \/ SetDefaultToken(p) \/ StatementFails(p) \/ CountTokens(p) \/ CreateToken(p)
             \/ EnsureDefaultToken(p)
    <3>1. mine[p].then \in {"announce", "working"}
      BY DEF TokenInv, IInv, InHand
    <3> QED
      BY <1>1, <2>2, <3>1 DEF InsertToken, SetDefaultToken, StatementFails, CountTokens, CreateToken,
         EnsureDefaultToken, Creates, Resumes, Fails, Ends, Goes
  <2>3. CASE DeleteToken(p) \/ Apply(p)
    BY <2>3 DEF DeleteToken, Apply
  <2>4. CASE MigrationUnlock(p)
    BY <1>1, <2>4 DEF MigrationUnlock, Ends, Goes
  <2> QED
    BY <1>1, <2>1, <2>2, <2>3, <2>4
    DEF Begin, Step, Quit, Crash, ServerLock, UpToDate, MigrationLock, Pending, ApplyFails, Migrated,
        ReadKey, StoreKey, Ready, WriteControlToken, RemoveFile, ServerUnlock, Goes
<1>3. SUFFICES ASSUME NEW q \in Procs, pc'[q] = "removing" PROVE control' \in {q, Nobody} \cup crossed'
  BY DEF OwnOrCrossed
<1>4. CASE q = p
  BY <1>2, <1>3, <1>4
<1>5. CASE q # p
  <2>1. pc[q] = "removing" /\ control \in {q, Nobody} \cup crossed
    BY <1>1, <1>3, <1>5
  <2> QED
    BY <1>1, <2>1, ControlStep
<1> QED
  BY <1>4, <1>5

\* Where the server lock excludes, two servers past it are one.
LEMMA OneInside ==
  ASSUME TokenInv, windows, NEW p \in Servers, NEW q \in Servers, pc[p] \in Inside, pc[q] \in Inside
  PROVE  p = q
<1>1. SrvP!Excludes
  BY Constants, SrvP!Exclusive DEF TokenInv, SrvP_IInv
<1> QED
  BY <1>1 DEF SrvP!Excludes, SrvP!OneHolder, TokenInv, ServersHaveLock, Procs

\* A server gets to work by writing its control token.
LEMMA WorkStarts ==
  ASSUME TokenInv, NEW p \in Procs, ~AtWork(p), AtWork(p)',
         Begin(p) \/ Step(p) \/ CreateToken(p) \/ DeleteToken(p) \/ Quit(p) \/ Crash(p)
  PROVE  control' = p
<1>1. p \in Servers /\ p \in DOMAIN pc /\ p \in DOMAIN mine
  BY DEF AtWork, TokenInv, IInv, Shape, InHand
<1>2. pc[p] # "working" /\ (pc[p] \in Working => mine[p].then = "announce")
  BY <1>1 DEF AtWork, TokenInv, IInv, InHand
<1>3. pc[p] \notin Working => mine[p].then = "announce"
  BY DEF TokenInv, IInv, InHand, None
<1>4. CASE WriteControlToken(p)
  BY <1>1, <1>4 DEF WriteControlToken, AtWork, Goes, Working
<1>5. CASE InsertToken(p) \/ SetDefaultToken(p) \/ StatementFails(p)
  <2>0. mine[p].then = "announce"
    BY <1>2, <1>3
  <2>1. pc'[p] \in {"announce", "leaving"} \/ (pc'[p] = "promote" /\ mine' = mine)
    <3>1. CASE InsertToken(p)
      BY <1>1, <2>0, <3>1 DEF InsertToken, Resumes, Fails, Ends, Goes
    <3>2. CASE SetDefaultToken(p)
      BY <1>1, <2>0, <3>2 DEF SetDefaultToken, Resumes, Fails, Ends, Goes
    <3>3. CASE StatementFails(p)
      BY <1>1, <2>0, <3>3 DEF StatementFails, Fails, Ends, Goes
    <3> QED
      BY <1>5, <3>1, <3>2, <3>3
  <2> QED
    BY <1>2, <1>3, <2>1 DEF AtWork, Working
<1>6. CASE CountTokens(p) \/ EnsureDefaultToken(p)
  <2>1. mine'[p].then = "announce" /\ pc'[p] # "working"
    <3>1. mine[p].then = "announce"
      BY <1>2, <1>3
    <3>2. CASE CountTokens(p)
      BY <3>1, <3>2, CountGives DEF TokenInv
    <3>3. CASE EnsureDefaultToken(p)
      BY <1>1, <3>1, <3>3 DEF EnsureDefaultToken, Creates, Goes
    <3> QED
      BY <1>6, <3>2, <3>3
  <2> QED
    BY <2>1 DEF AtWork
<1>7. CASE ~(WriteControlToken(p) \/ InsertToken(p) \/ SetDefaultToken(p) \/ StatementFails(p)
             \/ CountTokens(p) \/ EnsureDefaultToken(p))
  <2>1. pc'[p] \notin Working \cup {"working"} \/ (pc' = pc /\ mine' = mine)
    BY <1>1, <1>2, <1>7
    DEF Begin, Step, CreateToken, DeleteToken, Quit, Crash, ServerLock, UpToDate, MigrationLock, Pending, Apply,
        ApplyFails, Migrated, MigrationUnlock, Ends, ReadKey, StoreKey, Ready, RemoveControlToken, RemoveFile,
        ServerUnlock, Goes, locks, Working, own, Procs
  <2> QED
    BY <2>1 DEF AtWork
<1> QED
  BY <1>4, <1>5, <1>6, <1>7

\* While a server is at work, the file changes by another one that runs.
LEMMA WorkKept ==
  ASSUME TokenInv, NEW p \in Procs, NEW q \in Procs, AtWork(q), AtWork(q)', control = q, control' # q,
         Begin(p) \/ Step(p) \/ CreateToken(p) \/ DeleteToken(p) \/ Quit(p) \/ Crash(p)
  PROVE  /\ p # q /\ p \in Servers /\ q \in Servers /\ pc[p] \in Inside /\ pc[q] \in Inside
         /\ control' = Nobody => q \in crossed
<1>1. p \in DOMAIN pc /\ p # Nobody /\ q # Nobody
  BY StartupAssumption DEF TokenInv, IInv, Shape
<1>2. q \in Servers /\ pc[q] \in {"count", "insert", "promote", "working"} /\ pc[q] \in Inside
  BY DEF AtWork, Working, Inside, Places
<1>3. pc'[q] \in {"count", "insert", "promote", "working"}
  BY DEF AtWork, Working
<1>4. \/ pc[p] = "announce" /\ control' = p
      \/ pc[p] = "removing" /\ control' \in {control, Nobody} /\ pc'[p] = "leaving"
      \/ control = p /\ pc'[p] = "off"
  BY <1>1, ControlStep
<1>5. p # q
  BY <1>2, <1>3, <1>4
<1>6. pc[p] \in {"announce", "removing"}
  BY <1>4, <1>5
<1>7. p \in Servers /\ pc[p] \in Inside
  BY <1>6 DEF TokenInv, ServersAnnounce, Inside, Places
<1>8. pc[p] = "removing" => q \in crossed
  BY <1>1, <1>5 DEF TokenInv, OwnOrCrossed
<1> QED
  BY <1>1, <1>2, <1>4, <1>5, <1>6, <1>7, <1>8

LEMMA ThereStep ==
  ASSUME TokenInv, NEW p \in Procs,
         Begin(p) \/ Step(p) \/ CreateToken(p) \/ DeleteToken(p) \/ Quit(p) \/ Crash(p)
  PROVE  ControlTokenThere'
<1>1. windows' = windows
  <2>1. Srv!Acquire(p) \/ Srv!Release(p) \/ Srv!Die(p) \/ UNCHANGED <<windows, srv>>
    BY LockStep
  <2> QED
    BY <2>1 DEF Srv!Acquire, Srv!Release, Srv!Die, Srv!Open, Srv!Try, Srv!Held, Srv!Same, Srv!Remove,
                Srv!Close, Srv!Again
<1> SUFFICES ASSUME windows, NEW q \in Procs, AtWork(q)', control' # q PROVE FALSE
  BY <1>1 DEF ControlTokenThere
<1>2. AtWork(q)
  <2>1. CASE q = p
    BY <2>1, WorkStarts
  <2>2. CASE q # p
    BY <2>2, OthersStay DEF AtWork, TokenInv
  <2> QED
    BY <2>1, <2>2
<1>3. control = q
  BY <1>2 DEF TokenInv, ControlTokenThere
<1>4. p # q /\ p \in Servers /\ q \in Servers /\ pc[p] \in Inside /\ pc[q] \in Inside
  BY <1>2, <1>3, WorkKept
<1> QED
  BY <1>4, OneInside

LEMMA NextTokenInv == TokenInv /\ [Next]_vars => TokenInv'
<1> SUFFICES ASSUME TokenInv, [Next]_vars PROVE TokenInv'
  OBVIOUS
<1>1. IInv' /\ SrvP_IInv'
  BY Constants, LockSteps, NextIInv, SrvP!NextIInv DEF TokenInv, SrvP_IInv
<1>2. CASE UNCHANGED vars
  BY <1>1, <1>2 DEF vars, locks, srv, database, own, tokenFile, TokenInv, ServersHaveLock, ServersAnnounce,
     OneDefaultToken, OwnOrCrossed, ControlTokenThere, AtWork
<1>3. ASSUME NEW p \in Procs,
             Begin(p) \/ Step(p) \/ CreateToken(p) \/ DeleteToken(p) \/ Quit(p) \/ Crash(p)
      PROVE  TokenInv'
  <2>1. \A q \in Procs : q # p => pc'[q] = pc[q]
    BY <1>3, OthersStay DEF TokenInv
  <2>2. ServersHaveLock'
    BY <1>3, <2>1, ServerPlaces DEF TokenInv, ServersHaveLock, Procs
  <2> QED
    BY <1>1, <1>3, <2>2, AnnounceStep, OneDefaultStep, CrossedStep, ThereStep DEF TokenInv
<1> QED
  BY <1>2, <1>3 DEF Next

\* There is one default token, but for the moments the code leaves two.  The
\* control token of a server at work stays in the file, on Windows always,
\* elsewhere but for a second server that writes its own or removes the file
\* it had looked at before (CreateToken, WriteControlToken, RemoveControlToken).
THEOREM TokensStay == Spec => TokensKept
<1>1. Init => TokenInv
  BY InitTokenInv
<1>2. TokenInv /\ [Next]_vars => TokenInv'
  BY NextTokenInv
<1>3. TokenInv /\ [Next]_vars => [OneDefaultToken' /\ ControlTokenThere' /\ ControlTokenStays]_vars
  <2> SUFFICES ASSUME TokenInv, Next PROVE OneDefaultToken' /\ ControlTokenThere' /\ ControlTokenStays
    OBVIOUS
  <2>1. OneDefaultToken' /\ ControlTokenThere'
    BY <1>2 DEF TokenInv
  <2>2. PICK p \in Procs : Begin(p) \/ Step(p) \/ CreateToken(p) \/ DeleteToken(p) \/ Quit(p) \/ Crash(p)
    BY DEF Next
  <2>3. ASSUME NEW q \in Procs, AtWork(q), control = q, control' # q, AtWork(q)'
        PROVE  ~OneServer /\ (control' = Nobody => q \in crossed)
    <3>1. /\ p # q /\ p \in Servers /\ q \in Servers /\ pc[p] \in Inside /\ pc[q] \in Inside
          /\ control' = Nobody => q \in crossed
      BY <2>2, <2>3, WorkKept
    <3>2. Serving(p) /\ Serving(q)
      BY <3>1 DEF TokenInv, ServersHaveLock, Serving
    <3> QED
      BY <3>1, <3>2 DEF OneServer
  <2> QED
    BY <2>1, <2>3 DEF ControlTokenStays
<1> QED
  BY <1>1, <1>2, <1>3, PTL DEF Spec, TokensKept

-----------------------------------------------------------------------------
(* The settings.                                                            *)

\* Commands neither run beside the server nor beside each other.
CommandsAlone == Together = FALSE /\ \A c, d \in Cmd : c = d

-----------------------------------------------------------------------------
(* What keeps the stored values good: a change that has been validated and  *)
(* not committed yet was validated against the values stored now, because    *)
(* its process holds its mutex and no other process works.                  *)

Pcs == {"idle", "waiting", "asking", "filled"}

\* A saved row is one of the keys, and the merged days are a function.
Stored ==
  /\ saved = [k \in Keys |-> saved[k]] /\ saved.password \in BOOLEAN
  /\ saved.days = [c \in DOMAIN saved.days |-> saved.days[c]]

\* The work of a caller names keys; a command that sets the provider or asks
\* for a password was given that one key only.
Formed(r) ==
  LET w == work[r] IN
  /\ w = [pc |-> w.pc, in |-> w.in, new |-> w.new, for |-> w.for]
  /\ w.pc \in Pcs
  /\ DOMAIN w.in \subseteq Keys \cup {"clear"}
  /\ r \in Cmd /\ "provider" \in DOMAIN w.in => DOMAIN w.in = {"provider"}
  /\ w.pc = "asking" => DOMAIN w.in \in {{"host"}, {"username"}}

\* A validated change is still the answer to the values stored.
Current(r) ==
  LET w == work[r] IN
  w.pc = "filled" =>
    /\ lock[Process(r)] = r
    /\ ~Refused(r, saved, w.in) /\ w.new = Writes(r, saved, w.in)
    /\ w.for = <<After(saved, w.in).host, After(saved, w.in).username>>

\* The server and a command do not work together.
Apart(r) == work[r].pc # "idle" => IF r \in Web THEN up ELSE ~up

Shapes ==
  /\ up \in BOOLEAN
  /\ work = [r \in Callers |-> work[r]]
  /\ lock = [p \in {"server"} \cup Cmd |-> lock[p]]

SettingsInv ==
  /\ Stored /\ Shapes
  /\ \A r \in Callers : Formed(r) /\ Current(r) /\ Apart(r)
  /\ CombinationsValid /\ PasswordServesItsServer

-----------------------------------------------------------------------------
(* Lemmas: what a change does to the stored values.                         *)

\* The days of a record after a change are a function, and those saved when
\* the change names none.
LEMMA DaysMerge ==
  ASSUME NEW s, NEW in, s.days = [c \in DOMAIN s.days |-> s.days[c]]
  PROVE  /\ MergedDays(s, in) = [c \in DOMAIN MergedDays(s, in) |-> MergedDays(s, in)[c]]
         /\ "days" \notin DOMAIN in => MergedDays(s, in) = s.days
<1>1. MergedDays(s, in) = [c \in DOMAIN MergedDays(s, in) |-> MergedDays(s, in)[c]]
  BY DEF MergedDays, Over
<1>2. ASSUME "days" \notin DOMAIN in PROVE MergedDays(s, in) = s.days
  <2>1. MergedDays(s, in) = Over(<<>>, s.days)
    BY <1>2 DEF MergedDays, Given
  <2>2. DOMAIN <<>> = {}
    OBVIOUS
  <2>3. Over(<<>>, s.days) = [c \in DOMAIN s.days |-> s.days[c]]
    BY <2>2 DEF Over
  <2> QED BY <2>1, <2>3
<1> QED BY <1>1, <1>2

\* What is after a change, key by key.
LEMMA AfterKeys ==
  ASSUME NEW s, NEW in
  PROVE  /\ After(s, in) = [k \in Keys |-> After(s, in)[k]]
         /\ \A k \in DNSKeys \cup {"provider", "host", "username", "from", "notify"} :
              After(s, in)[k] = Given(in, k, s[k])
         /\ After(s, in)["model"] = AgentAfter(s, in, "model")
         /\ After(s, in)["level"] = AgentAfter(s, in, "level")
         /\ After(s, in)["days"] = MergedDays(s, in)
         /\ After(s, in)["password"] = PasswordAfter(s, in)
BY DEF After, Keys, DNSKeys, AgentKeys, NotifyKeys

\* The rows a change writes, over values that satisfy the validation, make
\* exactly what the change was validated as.
LEMMA CommitIsAfter ==
  ASSUME NEW r \in Callers, NEW in, Stored, CombinationsValid,
         DOMAIN in \subseteq Keys \cup {"clear"}, ~Refused(r, saved, in)
  PROVE  Committed(Writes(r, saved, in)) = After(saved, in)
<1> DEFINE W == Written(r, saved, in)
           new == Writes(r, saved, in)
<1>1. W \subseteq Keys
  BY DEF Written, Keys, DNSKeys, AgentKeys, NotifyKeys
<1>2. DOMAIN new = W /\ \A k \in W : new[k] = After(saved, in)[k]
  BY DEF Writes
<1>3. DOMAIN saved = Keys
  BY DEF Stored
<1>4. Committed(new) = [k \in Keys |-> IF k \in W THEN After(saved, in)[k] ELSE saved[k]]
  BY <1>1, <1>2, <1>3 DEF Committed, Over
<1>5. ASSUME NEW k \in Keys, k \notin W
      PROVE  saved[k] = After(saved, in)[k]
  <2>1. CASE k \in DNSKeys \cup {"provider", "host", "username", "from", "notify"}
    <3>1. k \notin DOMAIN in
      BY <1>5, <2>1 DEF Written, DNSKeys
    <3> QED BY <3>1, <2>1, AfterKeys DEF Given
  <2>2. CASE k \in {"model", "level"}
    <3>1. k \notin DOMAIN in /\ ~Switches(saved, in)
      BY <1>5, <2>2 DEF Written
    <3> QED BY <3>1, <2>2, AfterKeys DEF AgentAfter, Given
  <2>3. CASE k = "days"
    <3>1. k \notin DOMAIN in
      BY <1>5, <2>3 DEF Written
    <3> QED BY <3>1, <2>3, AfterKeys, DaysMerge DEF Stored
  <2>4. CASE k = "password"
    <3>1. ~Touches(in, NotifyKeys) => "password" \notin DOMAIN in /\ "username" \notin DOMAIN in
      BY DEF Touches, NotifyKeys
    <3>2. IF Username(saved, in) = Unset
          THEN ~Touches(in, NotifyKeys) \/ saved.password = FALSE ELSE "password" \notin DOMAIN in
      BY <1>5, <2>4, <3>1 DEF Written, Stored
    <3>3. saved.password = PasswordAfter(saved, in)
      BY <3>1, <3>2 DEF PasswordAfter, CombinationsValid, Username, Given, Stored
    <3> QED BY <3>3, <2>4, AfterKeys
  <2> QED BY <2>1, <2>2, <2>3, <2>4 DEF Keys, AgentKeys, NotifyKeys
<1>6. Committed(new) = [k \in Keys |-> After(saved, in)[k]]
  BY <1>4, <1>5
<1> QED BY <1>6, AfterKeys

\* What is accepted is a good combination: the validation looks at all that
\* the change can have spoilt.
LEMMA AfterIsValid ==
  ASSUME NEW r \in Callers, NEW in, Stored, CombinationsValid,
         r \in Cmd /\ "provider" \in DOMAIN in => DOMAIN in = {"provider"},
         ~Refused(r, saved, in)
  PROVE  LET new == After(saved, in) IN
         /\ ValidDNS(new) /\ ValidAgent(new) /\ ValidNotify(new)
         /\ (new.username # Unset) <=> new.password
<1> DEFINE new == After(saved, in)
<1>1. ValidDNS(new)
  <2>1. CASE Touches(in, DNSKeys)
    BY <2>1 DEF Refused
  <2>2. CASE ~Touches(in, DNSKeys)
    BY <2>2, AfterKeys DEF Touches, DNSKeys, Given, ValidDNS, CombinationsValid
  <2> QED BY <2>1, <2>2
<1>2. ValidAgent(new)
  <2>1. CASE Touches(in, AgentKeys) /\ ~(r \in Cmd /\ "provider" \in DOMAIN in)
    BY <2>1 DEF Refused
  <2>2. CASE Switches(saved, in) /\ "level" \notin DOMAIN in
    BY <2>2, AfterKeys DEF AgentAfter, Given, ValidAgent
  <2>3. CASE ~Switches(saved, in) /\ "model" \notin DOMAIN in /\ "level" \notin DOMAIN in
    BY <2>3, AfterKeys DEF AgentAfter, Given, ValidAgent, Switches, CombinationsValid
  <2>4. CASE ~Touches(in, AgentKeys)
    BY <2>3, <2>4 DEF Touches, AgentKeys, Switches, Given
  <2>5. CASE r \in Cmd /\ "provider" \in DOMAIN in
    BY <2>2, <2>3, <2>5
  <2> QED BY <2>1, <2>4, <2>5
<1>3. ValidNotify(new)
  <2>1. CASE Touches(in, NotifyKeys)
    BY <2>1 DEF Refused
  <2>2. CASE ~Touches(in, NotifyKeys)
    BY <2>2, AfterKeys DEF Touches, NotifyKeys, Given, ValidNotify, CombinationsValid
  <2> QED BY <2>1, <2>2
<1>4. (new.username # Unset) <=> new.password
  <2>1. new.username = Username(saved, in) /\ new.password = PasswordAfter(saved, in)
    BY AfterKeys DEF Username
  <2>2. Touches(in, NotifyKeys) \/ ("username" \notin DOMAIN in /\ "password" \notin DOMAIN in)
    BY DEF Touches, NotifyKeys
  <2>3. ~Touches(in, NotifyKeys) \/ ~PasswordMissing(saved, in)
    BY DEF Refused
  <2>4. Username(saved, in) # Unset => (saved.password \/ "password" \in DOMAIN in)
    BY <2>2, <2>3 DEF PasswordMissing, Username, Given, CombinationsValid
  <2> QED BY <2>1, <2>4 DEF PasswordAfter
<1> QED BY <1>1, <1>2, <1>3, <1>4

\* A stored password that is kept keeps its connection.
LEMMA KeptPasswordStays ==
  ASSUME NEW r \in Callers, NEW in, Stored, CombinationsValid, ~Refused(r, saved, in),
         After(saved, in).password, "password" \notin DOMAIN Writes(r, saved, in)
  PROVE  /\ saved.password
         /\ After(saved, in).host = saved.host /\ After(saved, in).username = saved.username
<1>1. PasswordAfter(saved, in)
  BY AfterKeys
<1>2. Username(saved, in) # Unset
  BY <1>1 DEF PasswordAfter
<1>3. "password" \notin DOMAIN in
  <2>1. "password" \notin Written(r, saved, in)
    BY DEF Writes
  <2> QED BY <2>1, <1>2 DEF Written, Touches, NotifyKeys
<1>4. saved.password
  BY <1>1, <1>3 DEF PasswordAfter
<1>5. Touches(in, NotifyKeys) => ~Required(saved, in)
  BY DEF Refused
<1>6. ASSUME NEW k \in {"host", "username"}
      PROVE  After(saved, in)[k] = saved[k]
  <2>1. CASE k \in DOMAIN in
    BY <2>1, <1>2, <1>3, <1>4, <1>5, AfterKeys DEF Required, Moved, Touches, NotifyKeys, Given
  <2>2. CASE k \notin DOMAIN in
    BY <2>2, AfterKeys DEF Given
  <2> QED BY <2>1, <2>2
<1> QED BY <1>4, <1>6

\* The keys of the settings are finitely many.
LEMMA KeysFinite == IsFiniteSet(Keys \cup {"clear"})
<1>1. ASSUME NEW a, NEW b, NEW c PROVE IsFiniteSet({a, b, c})
  <2>1. IsFiniteSet({a} \cup {b}) /\ IsFiniteSet({c})
    BY FS_Singleton, FS_Union
  <2>2. IsFiniteSet(({a} \cup {b}) \cup {c})
    BY <2>1, FS_Union
  <2>3. ({a} \cup {b}) \cup {c} = {a, b, c}
    OBVIOUS
  <2> QED BY <2>2, <2>3
<1>2. IsFiniteSet(DNSKeys \cup AgentKeys)
  BY <1>1, FS_Union DEF DNSKeys, AgentKeys
<1>3. IsFiniteSet({"host", "username", "password"} \cup {"clear", "from", "notify"})
  BY <1>1, FS_Union
<1>4. IsFiniteSet({"days"})
  BY FS_Singleton
<1>5. IsFiniteSet((DNSKeys \cup AgentKeys)
        \cup ({"host", "username", "password"} \cup {"clear", "from", "notify"}))
  BY <1>2, <1>3, FS_Union
<1>6. IsFiniteSet(((DNSKeys \cup AgentKeys)
        \cup ({"host", "username", "password"} \cup {"clear", "from", "notify"})) \cup {"days"})
  BY <1>4, <1>5, FS_Union
<1>7. ((DNSKeys \cup AgentKeys)
        \cup ({"host", "username", "password"} \cup {"clear", "from", "notify"})) \cup {"days"}
      = Keys \cup {"clear"}
  BY DEF Keys, NotifyKeys
<1> QED BY <1>6, <1>7

\* A piece of work whose fields are replaced.
LEMMA FieldsReplaced ==
  ASSUME NEW w, w = [pc |-> w.pc, in |-> w.in, new |-> w.new, for |-> w.for], NEW at, NEW in
  PROVE  [w EXCEPT !.pc = at, !.in = in] = [pc |-> at, in |-> in, new |-> w.new, for |-> w.for]
<1> DEFINE x == [w EXCEPT !.pc = at, !.in = in]
<1>1. DOMAIN w = {"pc", "in", "new", "for"}
  OBVIOUS
<1>2. x = [k \in {"pc", "in", "new", "for"} |-> x[k]]
  BY <1>1
<1>3. x.pc = at /\ x.in = in /\ x.new = w.new /\ x.for = w.for
  BY <1>1
<1> HIDE DEF x
<1>4. x = [pc |-> at, in |-> in, new |-> w.new, for |-> w.for]
  BY <1>2, <1>3
<1> QED BY <1>4 DEF x

-----------------------------------------------------------------------------
(* The invariant is kept.                                                   *)

LEMMA SettingsStart ==
  ASSUME SettingsInit
  PROVE  SettingsInv
<1>1. Stored
  BY ZenonT(60), SettingsAssumption, DefaultsAssumption DEF SettingsInit, Stored, Keys, NotifyKeys
<1>2. Shapes
  BY DEF SettingsInit, Shapes
<1>3. ASSUME NEW r \in Callers PROVE Formed(r) /\ Current(r) /\ Apart(r)
  BY DEF SettingsInit, Idle, Formed, Current, Apart, Pcs
<1>4. CombinationsValid /\ PasswordServesItsServer
  BY DefaultsAssumption DEF SettingsInit, CombinationsValid, PasswordServesItsServer
<1> QED BY <1>1, <1>2, <1>3, <1>4 DEF SettingsInv

\* What a step other than a commit leaves alone.
LEMMA StoredFrame ==
  ASSUME SettingsInv, saved' = saved, serves' = serves
  PROVE  Stored' /\ CombinationsValid' /\ PasswordServesItsServer'
BY DEF SettingsInv, Stored, CombinationsValid, PasswordServesItsServer,
       ValidDNS, ValidAgent, ValidNotify, Accepted

\* A caller that keeps its work and its mutex is as current as before.
LEMMA CallerFrame ==
  ASSUME NEW r \in Callers, Formed(r), Current(r), work'[r] = work[r],
         saved' = saved, lock'[Process(r)] = lock[Process(r)]
  PROVE  Formed(r)' /\ Current(r)'
<1>1. Formed(r)'
  BY DEF Formed
<1>2. Process(r)' = Process(r)
  BY DEF Process
<1>3. ASSUME NEW in PROVE /\ Refused(r, saved', in) = Refused(r, saved, in)
                          /\ Writes(r, saved', in) = Writes(r, saved, in)
                          /\ After(saved', in) = After(saved, in)
  OBVIOUS
<1> QED BY <1>1, <1>2 DEF Current

\* At most one change is validated and not committed yet.
LEMMA OneFilled ==
  ASSUME CommandsAlone, SettingsInv,
         NEW r \in Callers, NEW q \in Callers, work[r].pc = "filled", work[q].pc = "filled"
  PROVE  r = q
<1>1. lock[Process(r)] = r /\ lock[Process(q)] = q
  BY DEF SettingsInv, Current
<1>2. Apart(r) /\ Apart(q)
  BY DEF SettingsInv
<1>3. (r \in Web) <=> (q \in Web)
  BY <1>2 DEF Apart, SettingsInv, Shapes
<1>4. CASE r \in Web
  BY <1>1, <1>3, <1>4 DEF Process
<1>5. CASE r \notin Web
  BY <1>3, <1>5 DEF Callers, CommandsAlone
<1> QED BY <1>4, <1>5

LEMMA SettingsStep ==
  ASSUME CommandsAlone, SettingsInv, [SettingsNext]_settingsVars
  PROVE  SettingsInv'
<1> USE DEF SettingsInv
<1>0. ASSUME NEW r, NEW w, NEW q \in Callers, Becomes(r, w)
      PROVE  work'[q] = IF q = r THEN w ELSE work[q]
  BY <1>0 DEF Becomes, Shapes
<1>1. ASSUME NEW r \in Callers, NEW w, Becomes(r, w), UNCHANGED <<saved, serves, lock, up>>,
             w = [pc |-> w.pc, in |-> w.in, new |-> w.new, for |-> w.for],
             w.pc \in Pcs \ {"filled"}, DOMAIN w.in \subseteq Keys \cup {"clear"},
             r \in Cmd /\ "provider" \in DOMAIN w.in => DOMAIN w.in = {"provider"},
             w.pc = "asking" => DOMAIN w.in \in {{"host"}, {"username"}},
             w.pc # "idle" => IF r \in Web THEN up ELSE ~up
      PROVE  SettingsInv'
  <2>1. Stored' /\ CombinationsValid' /\ PasswordServesItsServer'
    BY <1>1, StoredFrame
  <2>2. Shapes'
    BY <1>1 DEF Shapes, Becomes
  <2>3. ASSUME NEW q \in Callers PROVE Formed(q)' /\ Current(q)' /\ Apart(q)'
    <3>1. CASE q = r
      <4>1. work'[q] = w
        BY <1>0, <1>1, <3>1
      <4> QED BY <1>1, <3>1, <4>1 DEF Formed, Current, Apart, Pcs
    <3>2. CASE q # r
      <4>1. work'[q] = work[q]
        BY <1>0, <1>1, <3>2
      <4> QED BY <1>1, <4>1, CallerFrame DEF Apart
    <3> QED BY <3>1, <3>2
  <2> QED BY <2>1, <2>2, <2>3
<1>2. ASSUME NEW r \in Callers, Submit(r) PROVE SettingsInv'
  <2>1. PICK in \in Asked : /\ r \in Cmd => Cardinality(DOMAIN in) = 1
                            /\ Becomes(r, [Idle EXCEPT !.pc = "waiting", !.in = in])
    BY <1>2 DEF Submit
  <2>2. DOMAIN in \subseteq Keys \cup {"clear"}
    BY SettingsAssumption
  <2>3. ASSUME r \in Cmd, "provider" \in DOMAIN in PROVE DOMAIN in = {"provider"}
    <3>1. Cardinality(DOMAIN in) = 1
      BY <2>1, <2>3
    <3>2. IsFiniteSet(DOMAIN in)
      <4>1. DOMAIN in \in SUBSET (Keys \cup {"clear"})
        BY <2>2
      <4> QED BY <4>1, KeysFinite, FS_Subset
    <3> QED BY <2>3, <3>1, <3>2, FS_Singleton
  <2>4. IF r \in Web THEN up ELSE ~up
    BY <1>2 DEF Submit, CommandsAlone
  <2>5. UNCHANGED <<saved, serves, lock, up>>
    BY <1>2 DEF Submit
  <2> DEFINE w == [Idle EXCEPT !.pc = "waiting", !.in = in]
  <2>6. w = [pc |-> "waiting", in |-> in, new |-> <<>>, for |-> <<>>]
    <3>1. Idle = [pc |-> Idle.pc, in |-> Idle.in, new |-> Idle.new, for |-> Idle.for]
      BY DEF Idle
    <3>2. w = [pc |-> "waiting", in |-> in, new |-> Idle.new, for |-> Idle.for]
      BY <3>1, FieldsReplaced, Zenon
    <3> QED BY <3>2 DEF Idle
  <2> HIDE DEF w
  <2>7. Becomes(r, w)
    BY <2>1 DEF w
  <2> QED BY <1>1, <2>2, <2>3, <2>4, <2>5, <2>6, <2>7 DEF Pcs
<1>3. ASSUME NEW r \in Callers, Refuse(r) PROVE SettingsInv'
  <2> DEFINE in == work[r].in
             w == IF Asks(r, saved, in) THEN [work[r] EXCEPT !.pc = "asking"] ELSE Idle
  <2>1. Becomes(r, w) /\ UNCHANGED <<saved, serves, lock, up>> /\ work[r].pc = "waiting"
    BY <1>3 DEF Refuse
  <2>2. Formed(r) /\ Apart(r)
    OBVIOUS
  <2>3. CASE Asks(r, saved, in)
    <3>1. w = [pc |-> "asking", in |-> in, new |-> work[r].new, for |-> work[r].for]
      BY <2>2, <2>3 DEF Formed
    <3>2. DOMAIN in \in {{"host"}, {"username"}}
      BY <2>3 DEF Asks
    <3> HIDE DEF w
    <3> QED BY <1>1, <2>1, <2>2, <3>1, <3>2 DEF Formed, Apart, Pcs
  <2>4. CASE ~Asks(r, saved, in)
    <3>1. w = [pc |-> "idle", in |-> <<>>, new |-> <<>>, for |-> <<>>] /\ DOMAIN w.in = {}
      BY <2>4 DEF Idle
    <3> HIDE DEF w
    <3> QED BY <1>1, <2>1, <3>1 DEF Pcs
  <2> QED BY <2>3, <2>4
<1>4. ASSUME NEW r \in Callers, Answer(r) PROVE SettingsInv'
  <2>1. work[r].pc = "asking" /\ UNCHANGED <<saved, serves, lock, up>>
    BY <1>4 DEF Answer
  <2>2. Formed(r) /\ Apart(r)
    OBVIOUS
  <2>3. ASSUME Becomes(r, Idle) PROVE SettingsInv'
    <3> DEFINE w == Idle
    <3>1. w = [pc |-> "idle", in |-> <<>>, new |-> <<>>, for |-> <<>>] /\ DOMAIN w.in = {}
      BY DEF Idle
    <3>2. Becomes(r, w)
      BY <2>3
    <3> HIDE DEF w
    <3> QED BY <1>1, <2>1, <3>1, <3>2 DEF Pcs
  <2>4. ASSUME Becomes(r, [work[r] EXCEPT !.pc = "waiting", !.in = Over([password |-> TRUE], @)])
        PROVE  SettingsInv'
    <3> DEFINE in == Over([password |-> TRUE], work[r].in)
               w == [work[r] EXCEPT !.pc = "waiting", !.in = in]
    <3>1. DOMAIN in = {"password"} \cup DOMAIN work[r].in
      BY DEF Over
    <3>2. DOMAIN work[r].in \in {{"host"}, {"username"}}
      BY <2>1, <2>2 DEF Formed
    <3>3. DOMAIN in \subseteq Keys \cup {"clear"} /\ "provider" \notin DOMAIN in
      BY <3>1, <3>2 DEF Keys, NotifyKeys
    <3>4. Becomes(r, w)
      BY <2>4
    <3> HIDE DEF in
    <3>5. w = [pc |-> "waiting", in |-> in, new |-> work[r].new, for |-> work[r].for]
      BY <2>2, FieldsReplaced DEF Formed
    <3> HIDE DEF w
    <3> QED BY <1>1, <2>1, <2>2, <3>3, <3>4, <3>5 DEF Apart, Pcs
  <2> QED BY <1>4, <2>3, <2>4 DEF Answer
<1>5. ASSUME NEW r \in Callers, Fill(r) PROVE SettingsInv'
  <2> DEFINE in == work[r].in
             new == Writes(r, saved, in)
             for == <<After(saved, in).host, After(saved, in).username>>
             w == [work[r] EXCEPT !.pc = "filled", !.new = new, !.for = for]
  <2>1. /\ work[r].pc = "waiting" /\ ~Refused(r, saved, in) /\ Locked(r)
        /\ Becomes(r, w) /\ UNCHANGED <<saved, serves, up>>
    BY <1>5 DEF Fill
  <2>2. Formed(r) /\ Apart(r)
    OBVIOUS
  <2> HIDE DEF new, for
  <2>3. w = [pc |-> "filled", in |-> in, new |-> new, for |-> for]
    <3>1. DOMAIN work[r] = {"pc", "in", "new", "for"}
      BY <2>2 DEF Formed
    <3>2. w = [k \in {"pc", "in", "new", "for"} |-> w[k]]
      BY <3>1
    <3>3. w.pc = "filled" /\ w.in = in /\ w.new = new /\ w.for = for
      BY <3>1
    <3> HIDE DEF w
    <3> QED BY <3>2, <3>3
  <2> HIDE DEF w
  <2>4. Process(r) \in {"server"} \cup Cmd
    BY DEF Process, Callers
  <2>5. lock'[Process(r)] = r /\ \A p \in {"server"} \cup Cmd : p # Process(r) => lock'[p] = lock[p]
    BY <2>1, <2>4 DEF Locked, Shapes
  <2>6. Shapes'
    BY <2>1, <2>4 DEF Shapes, Becomes, Locked
  <2>7. ASSUME NEW q \in Callers PROVE Formed(q)' /\ Current(q)' /\ Apart(q)'
    <3>1. CASE q = r
      <4>1. work'[q] = w
        BY <1>0, <2>1, <3>1
      <4>2. Formed(q)' /\ Apart(q)'
        BY <2>1, <2>2, <2>3, <3>1, <4>1 DEF Formed, Apart, Pcs
      <4>3. /\ lock'[Process(r)] = r /\ ~Refused(r, saved, in) /\ w.in = in
            /\ w.new = Writes(r, saved, in)
            /\ w.for = <<After(saved, in).host, After(saved, in).username>>
        BY <2>1, <2>3, <2>5 DEF new, for
      <4>4. Current(r)'
        BY <2>1, <3>1, <4>1, <4>3 DEF Current
      <4> QED BY <3>1, <4>2, <4>4
    <3>2. CASE q # r /\ Process(q) = Process(r)
      <4>1. work'[q] = work[q]
        BY <1>0, <2>1, <3>2
      <4>2. lock[Process(r)] = NoOne
        BY <2>1 DEF Locked
      <4>3. work[q].pc # "filled"
        BY <3>2, <4>2, SettingsAssumption DEF Current
      <4> QED BY <2>1, <4>1, <4>3 DEF Formed, Current, Apart
    <3>3. CASE Process(q) # Process(r)
      <4>1. work'[q] = work[q]
        BY <1>0, <2>1, <3>3
      <4>2. Process(q) \in {"server"} \cup Cmd
        BY DEF Process, Callers
      <4>3. lock'[Process(q)] = lock[Process(q)]
        BY <2>5, <3>3, <4>2
      <4> QED BY <2>1, <4>1, <4>3, CallerFrame DEF Apart
    <3> QED BY <3>1, <3>2, <3>3
  <2>8. Stored' /\ CombinationsValid' /\ PasswordServesItsServer'
    BY <2>1, StoredFrame
  <2> QED BY <2>6, <2>7, <2>8
<1>6. ASSUME NEW r \in Callers, Save(r) PROVE SettingsInv'
  <2> DEFINE w == work[r]
             new == w.new
  <2>1. w.pc = "filled" /\ Freed(r) /\ Becomes(r, Idle) /\ up' = up
    BY <1>6 DEF Save
  <2>2. Formed(r) /\ Apart(r) /\ Current(r)
    OBVIOUS
  <2>3. Shapes'
    BY <2>1 DEF Shapes, Becomes, Freed
  <2>4. ASSUME NEW q \in Callers PROVE Formed(q)' /\ Current(q)' /\ Apart(q)'
    <3>1. CASE q = r
      BY <1>0, <2>1, <3>1 DEF Idle, Formed, Current, Apart, Pcs
    <3>2. CASE q # r
      <4>1. work'[q] = work[q]
        BY <1>0, <2>1, <3>2
      <4>2. work[q].pc # "filled"
        BY <2>1, <3>2, OneFilled
      <4> QED BY <2>1, <4>1, <4>2 DEF Formed, Current, Apart
    <3> QED BY <3>1, <3>2
  <2>5. CASE UNCHANGED <<saved, serves>>
    BY <2>3, <2>4, <2>5, StoredFrame
  <2>6. CASE /\ saved' = Committed(new)
             /\ serves' = IF ~saved'.password THEN <<>>
                          ELSE IF "password" \in DOMAIN new THEN w.for ELSE serves
    <3>1. /\ ~Refused(r, saved, w.in) /\ new = Writes(r, saved, w.in)
          /\ w.for = <<After(saved, w.in).host, After(saved, w.in).username>>
          /\ DOMAIN w.in \subseteq Keys \cup {"clear"}
          /\ r \in Cmd /\ "provider" \in DOMAIN w.in => DOMAIN w.in = {"provider"}
      BY <2>1, <2>2 DEF Current, Formed
    <3>2. PICK in : in = w.in
      OBVIOUS
    <3>3. PICK s : s = saved
      OBVIOUS
    <3>4. saved' = After(saved, in)
      BY <2>6, <3>1, <3>2, CommitIsAfter
    <3>5. Stored'
      <4>1. saved'.password = PasswordAfter(saved, in) /\ saved'.days = MergedDays(saved, in)
        BY <3>4, AfterKeys
      <4>2. saved'.password \in BOOLEAN
        BY <4>1 DEF PasswordAfter
      <4>3. saved' = [k \in Keys |-> saved'[k]]
        BY <3>4, AfterKeys
      <4> QED BY <4>1, <4>2, <4>3, DaysMerge DEF Stored
    <3>6. CombinationsValid'
      <4>1. LET t == After(saved, in) IN
            /\ ValidDNS(t) /\ ValidAgent(t) /\ ValidNotify(t)
            /\ (t.username # Unset) <=> t.password
        BY <3>1, <3>2, AfterIsValid
      <4> QED BY <3>4, <4>1 DEF CombinationsValid, ValidDNS, ValidAgent, ValidNotify, Accepted
    <3>7. PasswordServesItsServer'
      <4>1. SUFFICES ASSUME saved'.password PROVE serves' = <<saved'.host, saved'.username>>
        BY DEF PasswordServesItsServer
      <4>2. CASE "password" \in DOMAIN new
        BY <2>6, <3>1, <3>2, <3>4, <4>1, <4>2
      <4>3. CASE "password" \notin DOMAIN new
        <5>1. /\ saved.password
              /\ saved'.host = saved.host /\ saved'.username = saved.username
          BY <3>1, <3>2, <3>4, <4>1, <4>3, KeptPasswordStays
        <5> QED BY <2>6, <4>1, <4>3, <5>1 DEF PasswordServesItsServer
      <4> QED BY <4>2, <4>3
    <3> QED BY <2>3, <2>4, <3>5, <3>6, <3>7
  <2> QED BY <1>6, <2>5, <2>6 DEF Save
<1>7. CASE Stop
  <2>1. /\ up' = FALSE /\ UNCHANGED <<saved, serves>> /\ up
        /\ \A q \in Callers : work'[q] = IF q \in Web THEN Idle ELSE work[q]
    BY <1>7 DEF Stop
  <2>2. Shapes'
    BY <1>7 DEF Stop, Shapes
  <2>3. ASSUME NEW q \in Callers PROVE Formed(q)' /\ Current(q)' /\ Apart(q)'
    <3>1. CASE q \in Web
      BY <2>1, <3>1 DEF Idle, Formed, Current, Apart, Pcs
    <3>2. CASE q \notin Web
      <4>1. q \in Cmd /\ Process(q) = q /\ q # "server"
        BY <3>2, SettingsAssumption DEF Callers, Process
      <4>2. lock'[Process(q)] = lock[Process(q)]
        BY <1>7, <4>1 DEF Stop, Shapes
      <4>3. work'[q] = work[q]
        BY <2>1, <3>2
      <4> QED BY <2>1, <3>2, <4>2, <4>3, CallerFrame DEF Apart
    <3> QED BY <3>1, <3>2
  <2> QED BY <2>1, <2>2, <2>3, StoredFrame
<1>8. CASE Start
  <2>1. /\ ~up /\ up' = TRUE /\ UNCHANGED <<saved, serves, lock, work>>
        /\ \A c \in Cmd : work[c] = Idle
    BY <1>8 DEF Start, CommandsAlone
  <2>2. ASSUME NEW q \in Callers PROVE Formed(q)' /\ Current(q)' /\ Apart(q)'
    <3>1. Formed(q)' /\ Current(q)'
      BY <2>1, CallerFrame
    <3>2. Apart(q)'
      BY <2>1 DEF Apart, Callers, Idle
    <3> QED BY <3>1, <3>2
  <2>3. Shapes'
    BY <2>1 DEF Shapes
  <2> QED BY <2>1, <2>2, <2>3, StoredFrame
<1>9. CASE UNCHANGED settingsVars
  <2>1. UNCHANGED <<saved, serves, lock, work, up>>
    BY <1>9 DEF settingsVars
  <2>2. ASSUME NEW q \in Callers PROVE Formed(q)' /\ Current(q)' /\ Apart(q)'
    BY <2>1, CallerFrame DEF Apart
  <2>3. Shapes'
    BY <2>1 DEF Shapes
  <2> QED BY <2>1, <2>2, <2>3, StoredFrame
<1> QED BY <1>2, <1>3, <1>4, <1>5, <1>6, <1>7, <1>8, <1>9 DEF SettingsNext

-----------------------------------------------------------------------------
(* The theorems.                                                            *)

\* The invariant above holds of every behaviour.
THEOREM SettingsHold ==
  ASSUME CommandsAlone
  PROVE  SettingsSpec => []SettingsInv
<1>1. SettingsInit => SettingsInv
  BY SettingsStart
<1>2. SettingsInv /\ [SettingsNext]_settingsVars => SettingsInv'
  BY SettingsStep
<1> QED BY <1>1, <1>2, PTL DEF SettingsSpec

\* No combination the validation refuses is ever stored (settingslock.go,
\* UpdateSettings), for any changes asked for at once in the server.
THEOREM CombinationsStayValid ==
  ASSUME CommandsAlone
  PROVE  SettingsSpec => []CombinationsValid
<1>1. SettingsInv => CombinationsValid
  BY DEF SettingsInv
<1> QED BY <1>1, SettingsHold, PTL

\* The stored SMTP password is never kept for another server or username than
\* it was given for (SaveNotificationSettings).
THEOREM PasswordStaysWithServer ==
  ASSUME CommandsAlone
  PROVE  SettingsSpec => []PasswordServesItsServer
<1>1. SettingsInv => PasswordServesItsServer
  BY DEF SettingsInv
<1> QED BY <1>1, SettingsHold, PTL

\* Every commit is the whole effect of one accepted change on the values it
\* replaces, although it writes only the rows it was given (persistSettings).
THEOREM ChangesAreSerial ==
  ASSUME CommandsAlone
  PROVE  SettingsSpec => OneAtATime
<1> DEFINE A == saved' # saved => \E r \in Callers :
                  /\ work[r].pc = "filled" /\ ~Refused(r, saved, work[r].in)
                  /\ saved' = After(saved, work[r].in)
<1>1. ASSUME SettingsInv, [SettingsNext]_settingsVars PROVE [A]_settingsVars
  <2>1. SUFFICES ASSUME saved' # saved PROVE A
    OBVIOUS
  <2>2. PICK r \in Callers : Save(r)
    BY <1>1, <2>1 DEF SettingsNext, Submit, Fill, Refuse, Answer, Stop, Start, settingsVars
  <2>3. work[r].pc = "filled" /\ saved' = Committed(work[r].new)
    BY <2>1, <2>2 DEF Save
  <2>4. /\ ~Refused(r, saved, work[r].in) /\ work[r].new = Writes(r, saved, work[r].in)
        /\ DOMAIN work[r].in \subseteq Keys \cup {"clear"}
    BY <1>1, <2>3 DEF SettingsInv, Current, Formed
  <2>5. saved' = After(saved, work[r].in)
    BY <1>1, <2>3, <2>4, CommitIsAfter DEF SettingsInv
  <2> QED BY <2>3, <2>4, <2>5
<1> HIDE DEF A
<1>2. SettingsInv /\ [SettingsNext]_settingsVars => [A]_settingsVars
  BY <1>1
<1>3. SettingsSpec => [][A]_settingsVars
  BY <1>2, SettingsHold, PTL DEF SettingsSpec
<1> QED BY <1>3 DEF OneAtATime, A

-----------------------------------------------------------------------------
(* The clock of the server.                                                  *)

TickSteps    == {"off", "idle", "record", "probe", "notify", "limit", "clear"}
Jobs   == {"notify", "expand", "analyze"}
Ticks  == [pc : TickSteps, from : Int, t : Int, date : Int, then : {"off", "idle", "probe"},
           sent : Nat \cup {Never}, on : BOOLEAN]
Notes  == [t : Int, mailed : BOOLEAN, made : Int, odd : BOOLEAN]

\* Types: the clock and its ticks, and the jobs.
TickTypes ==
  /\ now \in Nat /\ now >= DayLen /\ last \in Int /\ since \in Int
  /\ ~At("off") => last \in Nat /\ last >= DayLen
  /\ fired \in [Tables -> [Hours -> Int]] /\ fires \in [Tables -> SUBSET Nat]
  /\ tick \in Ticks /\ (At("record") => tick.then # "off")
  /\ cleanupFired \in Int /\ lastRun \in Int /\ cleaned \subseteq Int
  /\ rewound \in BOOLEAN /\ turned \in BOOLEAN /\ missed \in BOOLEAN
JobTypes ==
  /\ lastSent \in Nat \cup {Never} /\ limit \in Int /\ notifyOn \in BOOLEAN /\ agentOn \in BOOLEAN
  /\ jobs \in [Jobs -> {"none", "queued", "running"}] /\ note \in Notes /\ waits \in BOOLEAN
  /\ jobs["notify"] = "running" => note.t \in Nat
  /\ mailDays \subseteq Int /\ raced \in BOOLEAN

\* The tables the tick in progress has still to look at, in the window from
\* tick.from on.
TablesLeft ==
  IF At("probe") \/ (At("record") /\ tick.then = "probe") THEN {"send", "notify"}
  ELSE IF At("notify") THEN {"notify"} ELSE {}

\* An occurrence of table k is remembered as fired.
Remembered(k, o) == \E h \in Hours : fired[k][h] = o

\* What fired and may be due again is remembered, and nothing fired twice.
RememberedInv ==
  /\ \A k \in Tables : \A h \in Hours :
       fired[k][h] # Never => fired[k][h] \in fires[k] /\ fired[k][h] % DayLen = h
  /\ ~rewound /\ ~At("off") => \A k \in Tables : \A o \in fires[k] :
       o > now \/ o > last \/ (k \in TablesLeft /\ o > tick.from) => Remembered(k, o)
  /\ again = {}

\* No check time of the time that is covered was missed.
CoveredInv ==
  ~At("off") => \A o \in Nat : o % DayLen \in CheckTimes /\ since < o /\ o <= last => o \in fires["check"]

FiringInv == RememberedInv /\ CoveredInv /\ (TablesLeft # {} => tick.t = last)

\* The days of the cleanups go on, and each is on record or known to be not.
CleanupInv ==
  /\ lastRun # Never => lastRun \in cleaned
  /\ cleanupFired # Never => cleanupFired \in cleaned
  /\ At("record") => tick.date \in cleaned
  /\ ~turned =>
       /\ recleaned = {} /\ lastRun <= Day(now)
       /\ \A d \in cleaned \ unrecorded : d <= lastRun
       /\ At("record") => lastRun < tick.date /\ tick.date <= Day(now)
  /\ ~At("off") /\ ~missed => \E d \in cleaned : Occurred(last) <= d /\ d <= Day(last)

\* The mail in hand is due by the last one, which is not of a later day.
MailInv ==
  ~turned =>
    /\ NotifySpacing
    /\ lastSent # Never => Day(lastSent) \in mailDays /\ Day(lastSent) <= Day(now)
    /\ \A d \in mailDays : lastSent # Never /\ d <= Day(lastSent)
    /\ jobs["notify"] # "none" /\ ~note.odd /\ lastSent # Never =>
         note.made = Day(lastSent) \/ note.made >= Day(lastSent) + Interval
    /\ jobs["notify"] = "running" =>
         /\ Day(note.t) <= Day(now) /\ (~note.odd => Day(note.t) = note.made)
         /\ lastSent # Never => Day(lastSent) <= Day(note.t)

\* A limit is cleared when it is over and the analysis is under way.
LimitInv ==
  /\ jobs["expand"] # "running" /\ (jobs["analyze"] = "running" => ~waits)
  /\ WaitersResume
  /\ ~raced /\ ~At("off") /\ ~At("idle") => tick.t <= now
  /\ ~raced /\ At("clear") =>
       /\ limit # Never /\ limit <= now
       /\ waits /\ agentOn => jobs["expand"] # "none" \/ jobs["analyze"] # "none"

ClockInv == TickTypes /\ JobTypes /\ FiringInv /\ CleanupInv /\ MailInv /\ LimitInv
-----------------------------------------------------------------------------
(* Days and their hours.                                                     *)

LEMMA DayIs ==
  ASSUME SchedulerAssumption, NEW t \in Nat
  PROVE  /\ Day(t) \in Nat /\ t % DayLen \in Hours
         /\ t = Day(t) * DayLen + (t % DayLen) /\ t = OnDay(Day(t), t % DayLen)
         /\ t >= DayLen => Day(t) >= 1
  BY DEF SchedulerAssumption, Day, OnDay, Hours

LEMMA DaysGoOn ==
  ASSUME SchedulerAssumption, NEW t \in Nat, NEW u \in Nat, t <= u
  PROVE  Day(t) <= Day(u)
  BY DEF SchedulerAssumption, Day

LEMMA OnDayIs ==
  ASSUME SchedulerAssumption, NEW d \in Nat, NEW h \in Hours
  PROVE  OnDay(d, h) \in Nat /\ Day(OnDay(d, h)) = d /\ OnDay(d, h) % DayLen = h
  BY DEF SchedulerAssumption, Day, OnDay, Hours

\* The moments of one day are before those of a later one.
LEMMA LaterDay ==
  ASSUME SchedulerAssumption, NEW t \in Nat, NEW u \in Nat, Day(t) < Day(u)
  PROVE  t < u
  BY DaysGoOn, DayIs

LEMMA LeastNumber ==
  ASSUME NEW S, S \subseteq Nat, S # {}
  PROVE  \E x \in S : \A y \in S : x <= y
<1>1. PICK R : R = OpToRel(<, Nat)
  OBVIOUS
<1>2. IsWellFoundedOn(R, Nat)
  BY <1>1, NatLessThanWellFounded
<1>3. PICK x \in S : \A y \in S : <<y, x>> \notin R
  BY <1>2, WFMin
<1>4. ASSUME NEW y \in S PROVE x <= y
  <2>1. x \in Nat /\ y \in Nat
    OBVIOUS
  <2>2. y < x => <<y, x>> \in R
    BY <1>1, <2>1 DEF OpToRel
  <2> QED BY <1>3, <2>1, <2>2
<1> QED BY <1>4

LEMMA SmallestIs ==
  ASSUME NEW S, S \subseteq Nat, S # {}
  PROVE  Smallest(S) \in S /\ \A y \in S : Smallest(S) <= y
<1>1. \E x \in S : \A y \in S : x <= y
  BY LeastNumber
<1> QED BY <1>1 DEF Smallest

LEMMA LargestIs ==
  ASSUME NEW n \in Nat, NEW S, S \subseteq 0 .. n, S # {}
  PROVE  Largest(S) \in S /\ \A y \in S : Largest(S) >= y
<1> DEFINE R == {n - x : x \in S}
<1>1. R \subseteq Nat /\ R # {}
  <2>1. \A x \in S : n - x \in Nat
    OBVIOUS
  <2> QED BY <2>1
<1>2. PICK r \in R : \A q \in R : r <= q
  BY <1>1, LeastNumber
<1>3. PICK x \in S : r = n - x
  OBVIOUS
<1>4. \A y \in S : n - y \in R
  OBVIOUS
<1>5. \A y \in S : x >= y
  BY <1>2, <1>3, <1>4
<1> QED BY <1>5 DEF Largest

\* Two sets have the same smallest number when each of one is in the other
\* and each of the other is not before all of the one.
LEMMA SameSmallest ==
  ASSUME NEW A, NEW B, A \subseteq B, B \subseteq Nat, \A b \in B : \E a \in A : a <= b
  PROVE  /\ A = {} <=> B = {}
         /\ A # {} => Smallest(A) = Smallest(B)
<1>1. A = {} <=> B = {}
  OBVIOUS
<1>2. ASSUME A # {} PROVE Smallest(A) = Smallest(B)
  <2>1. /\ Smallest(A) \in A /\ \A y \in A : Smallest(A) <= y
        /\ Smallest(B) \in B /\ \A y \in B : Smallest(B) <= y
    BY <1>2, SmallestIs
  <2>2. PICK a \in A : a <= Smallest(B)
    BY <2>1
  <2>3. Smallest(A) <= a /\ Smallest(B) <= Smallest(A)
    BY <2>1, <2>2
  <2>4. Smallest(A) \in Nat /\ Smallest(B) \in Nat /\ a \in Nat
    BY <2>1
  <2> QED BY <2>2, <2>3, <2>4
<1> QED BY <1>1, <1>2

\* What dueCheckTimes finds, and that it finds what is not a day old.
LEMMA DueIs ==
  ASSUME SchedulerAssumption, NEW t \in Nat, t >= DayLen, NEW from \in Int,
         NEW hours, hours \subseteq Hours, NEW done
  PROVE  /\ DueCheckTimes(from, t, hours, done) \subseteq 0 .. t
         /\ \A o \in DueCheckTimes(from, t, hours, done) :
              from < o /\ o % DayLen \in hours /\ done[o % DayLen] # o
         /\ \A o \in Nat : /\ t < o + DayLen /\ o <= t /\ from < o
                           /\ o % DayLen \in hours /\ done[o % DayLen] # o
                           => o \in DueCheckTimes(from, t, hours, done)
<1>1. Day(t) \in Nat /\ Day(t) >= 1
  BY DayIs
<1>2. ASSUME NEW o \in DueCheckTimes(from, t, hours, done)
      PROVE  o \in 0 .. t /\ from < o /\ o % DayLen \in hours /\ done[o % DayLen] # o
  <2>1. PICK k \in {0, 1}, h \in hours : o = OnDay(Day(t) - k, h)
    BY DEF DueCheckTimes
  <2>2. from < o /\ o <= t /\ done[o % DayLen] # o
    BY DEF DueCheckTimes
  <2>3. o \in Nat /\ o % DayLen = h
    BY <1>1, <2>1, OnDayIs
  <2> QED BY <2>1, <2>2, <2>3
<1>3. ASSUME NEW o \in Nat, t < o + DayLen, o <= t, from < o, o % DayLen \in hours, done[o % DayLen] # o
      PROVE  o \in DueCheckTimes(from, t, hours, done)
  <2>1. o = OnDay(Day(o), o % DayLen) /\ Day(o) \in Nat
    BY DayIs
  <2>2. Day(o) = Day(t) \/ Day(o) = Day(t) - 1
    <3>1. DayLen \in Nat /\ DayLen # 0 /\ o + DayLen \in Nat
      BY DEF SchedulerAssumption
    <3>2. Day(o + DayLen) = Day(o) + 1
      BY <3>1 DEF Day
    <3>3. Day(o) <= Day(t) /\ Day(t) <= Day(o) + 1
      BY <1>3, <3>1, <3>2, DaysGoOn
    <3> QED BY <1>1, <2>1, <3>3
  <2>3. \E k \in {0, 1} : o = OnDay(Day(t) - k, o % DayLen)
    <3>1. CASE Day(o) = Day(t)
      BY <1>1, <2>1, <3>1
    <3>2. CASE Day(o) = Day(t) - 1
      BY <1>1, <2>1, <3>2
    <3> QED BY <2>2, <3>1, <3>2
  <2> QED BY <1>3, <2>3 DEF DueCheckTimes
<1> QED BY <1>2, <1>3

LEMMA OfTwo ==
  ASSUME NEW a \in Int, NEW b \in Int
  PROVE  /\ Largest({a, b}) = IF a >= b THEN a ELSE b
         /\ Smallest({a, b}) = IF a <= b THEN a ELSE b
<1>1. \E x \in {a, b} : \A y \in {a, b} : x >= y
  OBVIOUS
<1>2. \E x \in {a, b} : \A y \in {a, b} : x <= y
  OBVIOUS
<1> QED BY <1>1, <1>2 DEF Largest, Smallest

-----------------------------------------------------------------------------
(* What the pages announce.                                                  *)

NeverDone == [h \in Hours |-> Never]

\* A tick every minute finds a time due at its own moment only.
LEMMA DueNow ==
  ASSUME SchedulerAssumption, NEW t \in Nat, t > DayLen, NEW hours, hours \subseteq Hours
  PROVE  DueCheckTimes(t - 1, t, hours, NeverDone) = IF t % DayLen \in hours THEN {t} ELSE {}
<1> DEFINE D == DueCheckTimes(t - 1, t, hours, NeverDone)
<1>1. DayLen \in Nat /\ DayLen # 0 /\ t - 1 \in Int
  BY DEF SchedulerAssumption
<1>2. D \subseteq 0 .. t /\ \A o \in D : t - 1 < o /\ o % DayLen \in hours
  BY <1>1, DueIs
<1>3. D \subseteq {t}
  BY <1>2
<1>4. t % DayLen \in hours => t \in D
  <2>1. t % DayLen \in Hours /\ NeverDone[t % DayLen] # t
    BY DayIs DEF NeverDone, Never
  <2> QED BY <1>1, <2>1, DueIs
<1> HIDE DEF D
<1>5. D = IF t % DayLen \in hours THEN {t} ELSE {}
  BY <1>2, <1>3, <1>4
<1> QED BY <1>5 DEF D

LEMMA Hour ==
  ASSUME SchedulerAssumption, NEW d \in Nat, NEW e \in Nat, NEW h \in Hours, d <= e
  PROVE  OnDay(d, h) <= OnDay(e, h) /\ OnDay(e, h) - OnDay(d, h) = (e - d) * DayLen
  BY DEF SchedulerAssumption, OnDay, Hours

LEMMA Stretch ==
  ASSUME SchedulerAssumption, NEW j \in Nat, NEW k \in Nat, j <= k
  PROVE  DayLen * j \in Nat /\ DayLen * k \in Nat /\ DayLen * j <= DayLen * k
  BY DEF SchedulerAssumption

LEMMA AheadIs ==
  ASSUME SchedulerAssumption, NEW t \in Nat, NEW sent \in Nat \cup {Never}
  PROVE  /\ Ahead(t, sent) \in Nat
         /\ sent # Never /\ Day(sent) > Day(t) => Ahead(t, sent) = Day(sent) - Day(t)
<1>1. CASE sent = Never
  BY <1>1 DEF Ahead
<1>2. CASE sent # Never
  <2>1. sent \in Nat
    BY <1>2
  <2>2. Day(sent) \in Nat /\ Day(t) \in Nat
    BY <2>1, DayIs
  <2>3. Day(sent) - Day(t) \in Int
    BY <2>2
  <2> QED BY <1>2, <2>2, <2>3, OfTwo DEF Ahead
<1> QED BY <1>1, <1>2

\* The moments of n days after t, with a day to spare.
Later(t, n) == t + 1 .. t + DayLen * (n + 3)

LEMMA NextCheckIs ==
  ASSUME SchedulerAssumption, NEW t \in Nat, t >= DayLen, NEW n \in Nat, NEW hours, hours \subseteq Hours
  PROVE  LET check == {u \in Later(t, n) : u % DayLen \in hours}
         IN NextCheckAt(t, hours) = IF check = {} THEN Never ELSE Smallest(check)
<1> DEFINE Cand(h) == IF OnDay(Day(t), h) > t THEN OnDay(Day(t), h) ELSE OnDay(Day(t) + 1, h)
           cands   == {Cand(h) : h \in hours}
           check   == {u \in Later(t, n) : u % DayLen \in hours}
<1>1. DayLen \in Nat /\ DayLen # 0 /\ Day(t) \in Nat /\ Day(t) + 1 \in Nat
  BY DayIs DEF SchedulerAssumption
<1>2. DayLen * 1 = DayLen /\ DayLen * (n + 3) \in Nat /\ DayLen <= DayLen * (n + 3)
  BY <1>1, Stretch
<1>3. ASSUME NEW h \in hours
      PROVE  /\ Cand(h) \in Nat /\ Cand(h) > t /\ Cand(h) <= t + DayLen /\ Cand(h) % DayLen = h
             /\ \A u \in Nat : u > t /\ u % DayLen = h => Cand(h) <= u
  <2>1. /\ OnDay(Day(t), h) \in Nat /\ OnDay(Day(t), h) % DayLen = h
        /\ OnDay(Day(t) + 1, h) \in Nat /\ OnDay(Day(t) + 1, h) % DayLen = h
        /\ Day(OnDay(Day(t), h)) = Day(t) /\ Day(OnDay(Day(t) + 1, h)) = Day(t) + 1
    BY <1>1, OnDayIs
  <2>2. OnDay(Day(t) + 1, h) = OnDay(Day(t), h) + DayLen
    BY <1>1 DEF OnDay, Hours
  <2>3. OnDay(Day(t) + 1, h) > t
    BY <1>1, <2>1, LaterDay
  <2>4. OnDay(Day(t), h) <= t + DayLen
    <3>1. t = OnDay(Day(t), t % DayLen) /\ t % DayLen \in Hours
      BY DayIs
    <3> QED BY <1>1, <3>1 DEF OnDay, Hours
  <2>5. ASSUME NEW u \in Nat, u > t, u % DayLen = h PROVE Cand(h) <= u
    <3>1. Day(u) \in Nat /\ u = OnDay(Day(u), h) /\ Day(t) <= Day(u)
      BY <2>5, DayIs, DaysGoOn
    <3>2. CASE OnDay(Day(t), h) > t
      BY <1>1, <3>1, <3>2, Hour
    <3>3. CASE ~(OnDay(Day(t), h) > t)
      <4>1. Day(u) # Day(t)
        BY <2>5, <3>1, <3>3, <2>1
      <4>2. Day(t) + 1 <= Day(u)
        BY <1>1, <3>1, <4>1
      <4> QED BY <1>1, <3>1, <3>3, <4>2, Hour
    <3> QED BY <3>2, <3>3
  <2> QED BY <1>1, <2>1, <2>2, <2>3, <2>4, <2>5
<1> HIDE DEF Cand
<1>4. cands \subseteq check
  BY <1>1, <1>2, <1>3 DEF Later
<1>5. check \subseteq Nat /\ \A u \in check : \E c \in cands : c <= u
  <2>1. check \subseteq Nat /\ \A u \in check : u > t
    BY <1>2 DEF Later
  <2> QED BY <1>3, <2>1
<1> HIDE DEF cands, check
<1>6. (cands = {} <=> check = {}) /\ (cands # {} => Smallest(cands) = Smallest(check))
  BY <1>4, <1>5, SameSmallest
<1>7. NextCheckAt(t, hours) = IF cands = {} THEN Never ELSE Smallest(cands)
  BY DEF NextCheckAt, cands, Cand
<1> QED BY <1>6, <1>7 DEF check

LEMMA NextNotifyIs ==
  ASSUME SchedulerAssumption, NEW t \in Nat, t >= DayLen, NEW sent \in Nat \cup {Never}
  PROVE  LET mail == {u \in Later(t, Interval + Ahead(t, sent)) :
                        u % DayLen \in NotifyTimes /\ NotifyDay(sent, u)}
         IN NextNotifyAt(t, sent) = IF mail = {} THEN Never ELSE Smallest(mail)
<1> DEFINE n     == Interval + Ahead(t, sent)
           cands == {OnDay(Day(t) + k, h) : k \in 0 .. Interval + 1 + Ahead(t, sent), h \in NotifyTimes}
           open  == {c \in cands : c > t /\ NotifyDay(sent, c)}
           mail  == {u \in Later(t, n) : u % DayLen \in NotifyTimes /\ NotifyDay(sent, u)}
<1>1. /\ DayLen \in Nat /\ DayLen # 0 /\ Day(t) \in Nat /\ n \in Nat /\ n >= 1
      /\ Interval \in Nat /\ Interval >= 1 /\ Ahead(t, sent) \in Nat /\ n = Interval + Ahead(t, sent)
      /\ NotifyTimes \subseteq Hours
  <2>1. DayLen \in Nat /\ DayLen # 0 /\ Interval \in Nat /\ Interval # 0 /\ NotifyTimes \subseteq Hours
    BY DEF SchedulerAssumption
  <2>2. Day(t) \in Nat
    BY DayIs
  <2>3. Ahead(t, sent) \in Nat
    BY AheadIs
  <2> QED BY <2>1, <2>2, <2>3
<1>2. \A k \in Nat : Day(t) + k \in Nat
  BY <1>1
<1>3. DayLen * (n + 3) \in Nat
  BY <1>1, Stretch
<1>4. open \subseteq mail
  <2> SUFFICES ASSUME NEW k \in 0 .. Interval + 1 + Ahead(t, sent), NEW h \in NotifyTimes,
                      OnDay(Day(t) + k, h) > t, NotifyDay(sent, OnDay(Day(t) + k, h))
               PROVE  OnDay(Day(t) + k, h) \in mail
    OBVIOUS
  <2>1. k \in Nat /\ k <= n + 1 /\ Day(t) + k \in Nat /\ h \in Hours
    BY <1>1
  <2>2. OnDay(Day(t) + k, h) \in Nat /\ OnDay(Day(t) + k, h) % DayLen = h
    BY <2>1, OnDayIs
  <2>3. OnDay(Day(t) + k, h) <= t + DayLen * (n + 3)
    <3>1. DayLen * (k + 1) <= DayLen * (n + 3)
      BY <1>1, <2>1, Stretch
    <3>2. OnDay(Day(t) + k, h) <= Day(t) * DayLen + DayLen * (k + 1)
      BY <1>1, <2>1 DEF OnDay, Hours
    <3>3. Day(t) * DayLen <= t /\ Day(t) * DayLen \in Nat
      <4>1. t = Day(t) * DayLen + (t % DayLen) /\ t % DayLen \in Nat
        BY DayIs DEF Hours
      <4>2. Day(t) * DayLen \in Nat
        BY <1>1
      <4> QED BY <4>1, <4>2
    <3>4. DayLen * (k + 1) \in Nat
      BY <1>1, <2>1, Stretch
    <3> QED BY <1>3, <2>2, <3>1, <3>2, <3>3, <3>4
  <2> QED BY <1>3, <2>2, <2>3 DEF Later
<1>5. mail \subseteq Nat /\ \A u \in mail : \E c \in open : c <= u
  <2>1. \A u \in mail : u \in Nat /\ u > t
    BY <1>3 DEF Later
  <2>2. ASSUME NEW u \in mail PROVE \E c \in open : c <= u
    <3>1. /\ u \in Nat /\ u > t /\ Day(u) \in Nat /\ u = OnDay(Day(u), u % DayLen)
          /\ u % DayLen \in NotifyTimes /\ u % DayLen \in Hours /\ NotifyDay(sent, u) /\ Day(t) <= Day(u)
      BY <1>1, <2>1, DayIs, DaysGoOn
    <3>2. CASE Day(u) <= Day(t) + Interval + 1 + Ahead(t, sent)
      <4>1. Day(u) - Day(t) \in 0 .. Interval + 1 + Ahead(t, sent) /\ Day(u) = Day(t) + (Day(u) - Day(t))
        BY <1>1, <3>1, <3>2
      <4>2. u \in cands
        BY <3>1, <4>1
      <4> QED BY <3>1, <4>2
    <3>3. CASE ~(Day(u) <= Day(t) + Interval + 1 + Ahead(t, sent))
      <4>1. ASSUME NEW k \in 0 .. Interval + 1 + Ahead(t, sent), k >= 1,
                   sent = Never \/ Day(t) + k - Day(sent) = 0 \/ Day(t) + k - Day(sent) >= Interval
            PROVE  \E c \in open : c <= u
        <5> DEFINE c == OnDay(Day(t) + k, u % DayLen)
        <5>1. k \in Nat /\ Day(t) + k \in Nat /\ Day(t) + k <= Day(u) /\ Day(t) < Day(t) + k
          BY <1>1, <3>1, <3>3, <4>1
        <5>2. c \in Nat /\ Day(c) = Day(t) + k
          BY <3>1, <5>1, OnDayIs
        <5>3. c > t
          BY <5>1, <5>2, LaterDay
        <5>4. c <= u
          BY <3>1, <5>1, Hour
        <5>5. NotifyDay(sent, c)
          <6> HIDE DEF c
          <6>1. CASE sent = Never
            BY <6>1 DEF NotifyDay
          <6>2. CASE sent # Never
            <7>1. sent \in Nat
              BY <6>2
            <7>2. Day(sent) \in Nat
              BY <7>1, DayIs
            <7>3. Day(c) - Day(sent) = Day(t) + k - Day(sent)
              BY <1>1, <5>1, <5>2, <7>2
            <7> QED BY <4>1, <6>2, <7>3 DEF NotifyDay
          <6> QED BY <6>1, <6>2
        <5>6. c \in cands
          BY <3>1
        <5> QED BY <5>3, <5>4, <5>5, <5>6
      <4>2. CASE sent = Never
        BY <1>1, <4>1, <4>2
      <4>3. CASE sent # Never /\ Day(sent) <= Day(t)
        <5>1. Day(sent) \in Nat
          BY <4>3, DayIs
        <5>2. Interval \in 0 .. Interval + 1 + Ahead(t, sent) /\ Day(t) + Interval - Day(sent) >= Interval
          BY <1>1, <4>3, <5>1
        <5> QED BY <1>1, <4>1, <5>2
      <4>4. CASE sent # Never /\ ~(Day(sent) <= Day(t))
        <5>1. Day(sent) \in Nat /\ Ahead(t, sent) = Day(sent) - Day(t)
          <6>1. sent \in Nat
            BY <4>4
          <6>2. Day(sent) \in Nat
            BY <6>1, DayIs
          <6> QED BY <1>1, <4>4, <6>2, AheadIs
        <5>2. Ahead(t, sent) \in 0 .. Interval + 1 + Ahead(t, sent) /\ Ahead(t, sent) >= 1
              /\ Day(t) + Ahead(t, sent) - Day(sent) = 0
          BY <1>1, <4>4, <5>1
        <5> QED BY <4>1, <5>2
      <4> QED BY <4>2, <4>3, <4>4
    <3> QED BY <3>2, <3>3
  <2> QED BY <2>1, <2>2
<1> HIDE DEF mail, open
<1>6. (open = {} <=> mail = {}) /\ (open # {} => Smallest(open) = Smallest(mail))
  BY <1>4, <1>5, SameSmallest
<1>7. NextNotifyAt(t, sent) = IF open = {} THEN Never ELSE Smallest(open)
  BY DEF NextNotifyAt, open
<1> QED BY <1>6, <1>7 DEF mail

LEMMA AnnouncedHolds ==
  ASSUME SchedulerAssumption, TickTypes, JobTypes
  PROVE  Announced
<1> SUFFICES ASSUME At("idle") PROVE Announced
  BY DEF Announced
<1> DEFINE n     == Interval + Ahead(last, lastSent)
           later == last + 1 .. last + DayLen * (Interval + 3 + Ahead(last, lastSent))
           check == {t \in later : DueCheckTimes(t - 1, t, CheckTimes, NeverDone) # {}}
           mail  == {t \in later : NotifyDue(t - 1, t, lastSent, NeverDone) # {}}
<1>1. /\ last \in Nat /\ last >= DayLen /\ lastSent \in Nat \cup {Never}
      /\ CheckTimes \subseteq Hours /\ NotifyTimes \subseteq Hours
      /\ Ahead(last, lastSent) \in Nat /\ Interval \in Nat /\ n \in Nat
  <2>1. last \in Nat /\ last >= DayLen /\ lastSent \in Nat \cup {Never}
    BY DEF TickTypes, JobTypes, At
  <2>2. CheckTimes \subseteq Hours /\ NotifyTimes \subseteq Hours /\ Interval \in Nat
    BY DEF SchedulerAssumption
  <2>3. Ahead(last, lastSent) \in Nat
    BY <2>1, AheadIs
  <2> QED BY <2>1, <2>2, <2>3
<1>2. later = Later(last, n)
  BY <1>1 DEF Later
<1>3. \A t \in later : t \in Nat /\ t > DayLen
  <2>1. DayLen * (Interval + 3 + Ahead(last, lastSent)) \in Nat /\ DayLen \in Nat
    BY <1>1 DEF SchedulerAssumption
  <2> QED BY <1>1, <2>1
<1> HIDE DEF later, n
<1>4. check = {u \in Later(last, n) : u % DayLen \in CheckTimes}
  BY <1>1, <1>2, <1>3, DueNow
<1>5. mail = {u \in Later(last, n) : u % DayLen \in NotifyTimes /\ NotifyDay(lastSent, u)}
  <2>1. ASSUME NEW t \in later
        PROVE  NotifyDue(t - 1, t, lastSent, NeverDone) # {} <=> t % DayLen \in NotifyTimes /\ NotifyDay(lastSent, t)
    <3>1. DueCheckTimes(t - 1, t, NotifyTimes, NeverDone) = IF t % DayLen \in NotifyTimes THEN {t} ELSE {}
      BY <1>1, <1>3, DueNow
    <3> QED BY <3>1 DEF NotifyDue
  <2> QED BY <1>2, <2>1
<1> HIDE DEF check, mail
<1>6. NextCheckAt(last, CheckTimes) = IF check = {} THEN Never ELSE Smallest(check)
  BY <1>1, <1>4, NextCheckIs
<1>7. NextNotifyAt(last, lastSent) = IF mail = {} THEN Never ELSE Smallest(mail)
  BY <1>1, <1>5, NextNotifyIs DEF n
<1> QED BY <1>6, <1>7 DEF Announced, check, mail, later, NeverDone
-----------------------------------------------------------------------------
(* The parts of a tick.                                                      *)

Marked(k, due) == MarkFired(k, due) /\ CountFired(k, due, IF k = "check" THEN now ELSE tick.t)

\* fired remembers of each hour what it did or one of the occurrences due.
LEMMA Marks ==
  ASSUME SchedulerAssumption, TickTypes, NEW k \in Tables, NEW n \in Nat,
         NEW due, due \subseteq 0 .. n, Marked(k, due)
  PROVE  /\ fired' \in [Tables -> [Hours -> Int]] /\ fires' \in [Tables -> SUBSET Nat]
         /\ \A j \in Tables \ {k} : fired'[j] = fired[j] /\ fires'[j] = fires[j]
         /\ fires'[k] = fires[k] \cup due /\ rewound' \in BOOLEAN
         /\ \A h \in Hours : \/ fired'[k][h] = fired[k][h]
                             \/ fired'[k][h] \in due /\ fired'[k][h] % DayLen = h
<1> DEFINE New(h) == {o \in due : o % DayLen = h}
           val(h) == IF \E o \in due : o % DayLen = h THEN Largest(New(h)) ELSE fired[k][h]
<1>1. \A h \in Hours : New(h) # {} => Largest(New(h)) \in New(h)
  <2> SUFFICES ASSUME NEW h \in Hours, New(h) # {} PROVE Largest(New(h)) \in New(h)
    OBVIOUS
  <2>1. New(h) \subseteq 0 .. n
    OBVIOUS
  <2> HIDE DEF New
  <2> QED BY <2>1, LargestIs
<1>2. \A h \in Hours : /\ val(h) \in Int
                       /\ val(h) = fired[k][h] \/ (val(h) \in due /\ val(h) % DayLen = h)
  <2> SUFFICES ASSUME NEW h \in Hours
               PROVE  val(h) \in Int /\ (val(h) = fired[k][h] \/ (val(h) \in due /\ val(h) % DayLen = h))
    OBVIOUS
  <2>1. fired[k][h] \in Int
    BY DEF TickTypes
  <2>2. CASE \E o \in due : o % DayLen = h
    <3>1. New(h) # {}
      BY <2>2
    <3>2. Largest(New(h)) \in New(h)
      BY <1>1, <3>1
    <3>3. val(h) = Largest(New(h))
      BY <2>2
    <3>4. val(h) \in due /\ val(h) % DayLen = h
      BY <3>2, <3>3
    <3>5. \A x \in due : x \in Int
      OBVIOUS
    <3>6. val(h) \in Int
      BY <3>4, <3>5
    <3> QED BY <3>4, <3>6
  <2>3. CASE ~(\E o \in due : o % DayLen = h)
    BY <2>1, <2>3
  <2> QED BY <2>2, <2>3
<1>3. fired' = [fired EXCEPT ![k] = [h \in Hours |-> val(h)]]
  BY DEF Marked, MarkFired
<1> HIDE DEF val
<1>4. fires' = [fires EXCEPT ![k] = @ \cup due]
  BY DEF Marked, CountFired
<1>5. fires \in [Tables -> SUBSET Nat] /\ due \subseteq Nat /\ fired \in [Tables -> [Hours -> Int]]
      /\ rewound \in BOOLEAN
  BY DEF TickTypes
<1>6. [h \in Hours |-> val(h)] \in [Hours -> Int]
  BY <1>2
<1>7. fired' \in [Tables -> [Hours -> Int]] /\ fired'[k] = [h \in Hours |-> val(h)]
      /\ \A j \in Tables \ {k} : fired'[j] = fired[j]
  BY <1>3, <1>5, <1>6
<1>8. fires' \in [Tables -> SUBSET Nat] /\ fires'[k] = fires[k] \cup due
      /\ \A j \in Tables \ {k} : fires'[j] = fires[j]
  BY <1>4, <1>5
<1>9. rewound' \in BOOLEAN
  BY <1>5 DEF Marked, CountFired
<1> QED BY <1>2, <1>7, <1>8, <1>9

\* What fired is remembered, or counts as forgotten.
LEMMA Remembers ==
  ASSUME SchedulerAssumption, TickTypes, FiringInv, NEW k \in Tables, NEW n \in Nat,
         NEW due, due \subseteq 0 .. n, Marked(k, due),
         ~rewound => due \cap fires[k] = {}
  PROVE  /\ \A j \in Tables : \A h \in Hours :
              fired'[j][h] # Never => fired'[j][h] \in fires'[j] /\ fired'[j][h] % DayLen = h
         /\ again' = {} /\ (rewound => rewound')
         /\ ~rewound' => \A o \in fires'[k] :
              o > now \/ o > (IF k = "check" THEN now ELSE tick.t) => Remembered(k, o)'
<1> DEFINE t == IF k = "check" THEN now ELSE tick.t
<1>1. t \in Int /\ now \in Int
  BY DEF TickTypes, Ticks
<1>2. \A j \in Tables : \A h \in Hours :
        fired'[j][h] # Never => fired'[j][h] \in fires'[j] /\ fired'[j][h] % DayLen = h
  <2> SUFFICES ASSUME NEW j \in Tables, NEW h \in Hours, fired'[j][h] # Never
               PROVE  fired'[j][h] \in fires'[j] /\ fired'[j][h] % DayLen = h
    OBVIOUS
  <2>1. fired[j][h] # Never => fired[j][h] \in fires[j] /\ fired[j][h] % DayLen = h
    BY DEF FiringInv, RememberedInv, CoveredInv
  <2>2. CASE j # k
    <3>1. fired'[j] = fired[j] /\ fires'[j] = fires[j]
      BY <2>2, Marks
    <3> QED BY <2>1, <3>1
  <2>3. CASE j = k
    <3>1. fires'[k] = fires[k] \cup due
      BY Marks
    <3>2. fired'[k][h] = fired[k][h] \/ (fired'[k][h] \in due /\ fired'[k][h] % DayLen = h)
      BY Marks
    <3> QED BY <2>1, <2>3, <3>1, <3>2
  <2> QED BY <2>2, <2>3
<1>3. again' = {} /\ (rewound => rewound')
  <2>1. rewound' = (rewound \/ Lost(Smallest({now, t}), fires'[k], fired'[k]))
    BY DEF Marked, CountFired
  <2>2. again' = again \cup {<<k, o>> : o \in IF rewound THEN {} ELSE due \cap fires[k]}
    BY DEF Marked, CountFired
  <2>3. \A o : ~(o \in IF rewound THEN {} ELSE due \cap fires[k])
    OBVIOUS
  <2>4. again = {}
    BY DEF FiringInv, RememberedInv, CoveredInv
  <2>5. again' = {}
    BY <2>2, <2>3, <2>4
  <2> QED BY <2>1, <2>5
<1>4. ASSUME ~rewound', NEW o \in fires'[k], o > now \/ o > t PROVE Remembered(k, o)'
  <2>1. ~Lost(Smallest({now, t}), fires'[k], fired'[k])
    BY <1>4 DEF Marked, CountFired
  <2>2. o \in Nat
    BY Marks
  <2>3. o > Smallest({now, t})
    <3> HIDE DEF t
    <3>1. Smallest({now, t}) = IF now <= t THEN now ELSE t
      BY <1>1, OfTwo
    <3> QED BY <1>1, <1>4, <2>2, <3>1
  <2> QED BY <2>1, <2>3 DEF Lost, Remembered
<1> QED BY <1>2, <1>3, <1>4

\* An occurrence that is due was not fired before, or is forgotten.
LEMMA DueIsNew ==
  ASSUME SchedulerAssumption, TickTypes, FiringInv, ~At("off"), NEW k \in Tables,
         NEW t \in Nat, t >= DayLen, NEW from \in Int, NEW hours, hours \subseteq Hours,
         \/ from = last
         \/ k \in TablesLeft /\ from = tick.from
  PROVE  ~rewound => DueCheckTimes(from, t, hours, fired[k]) \cap fires[k] = {}
<1> SUFFICES ASSUME ~rewound, NEW o \in DueCheckTimes(from, t, hours, fired[k]), o \in fires[k]
             PROVE  FALSE
  OBVIOUS
<1>1. o \in 0 .. t /\ from < o /\ fired[k][o % DayLen] # o
  BY DueIs
<1>2. Remembered(k, o)
  BY <1>1 DEF FiringInv, RememberedInv, CoveredInv
<1>3. PICK h \in Hours : fired[k][h] = o
  BY <1>2 DEF Remembered
<1>4. o # Never
  BY <1>1 DEF Never
<1>5. o % DayLen = h
  BY <1>3, <1>4 DEF FiringInv, RememberedInv, CoveredInv
<1> QED BY <1>1, <1>3, <1>5

\* What queueCleanupIfDue makes of the tick.
LEMMA QueueCleanupGives ==
  ASSUME TickTypes, SchedulerAssumption, NEW starting \in BOOLEAN, QueueCleanup(starting)
  PROVE  /\ tick' \in Ticks
         /\ tick'.from = IF starting THEN Never ELSE last
         /\ tick'.t = IF starting THEN Never ELSE now
         /\ \/ tick'.pc = IF starting THEN "idle" ELSE "probe"
            \/ tick'.pc = "record" /\ tick'.then = IF starting THEN "idle" ELSE "probe"
         /\ cleanupFired' \in Int /\ cleaned' \subseteq Int /\ missed' \in BOOLEAN
<1> DEFINE date == CleanupDue(now, lastRun, IF starting THEN Never ELSE cleanupFired)
           on   == [NoTick EXCEPT !.pc = IF starting THEN "idle" ELSE "probe",
                                  !.from = IF starting THEN Never ELSE last,
                                  !.t = IF starting THEN Never ELSE now]
<1>1. on \in Ticks /\ on.pc = (IF starting THEN "idle" ELSE "probe")
      /\ on.from = (IF starting THEN Never ELSE last) /\ on.t = (IF starting THEN Never ELSE now)
  <2>1. last \in Int /\ now \in Int /\ Never \in Int
    BY DEF TickTypes, Never
  <2>2. NoTick \in Ticks
    BY <2>1 DEF NoTick, Ticks, TickSteps
  <2> DEFINE f == IF starting THEN Never ELSE last
             m == IF starting THEN Never ELSE now
             c == IF starting THEN "idle" ELSE "probe"
  <2>3. f \in Int /\ m \in Int /\ c \in {"idle", "probe"} /\ on = [NoTick EXCEPT !.pc = c, !.from = f, !.t = m]
    BY <2>1
  <2> HIDE DEF f, m, c, on
  <2>4. on \in Ticks /\ on.pc = c /\ on.from = f /\ on.t = m
    BY <2>2, <2>3 DEF Ticks, TickSteps
  <2> QED BY <2>4 DEF f, m, c, on
<1>2. date \in Int
  <2>1. Day(now) \in Int
    BY DayIs DEF TickTypes
  <2> QED BY <2>1 DEF CleanupDue, Occurred, Never
<1>3. \/ tick' = on
      \/ tick' = [on EXCEPT !.pc = "record", !.date = date, !.then = on.pc]
  BY DEF QueueCleanup
<1>4. cleanupFired' \in {Never, cleanupFired, date} /\ (cleaned' = cleaned \/ cleaned' = cleaned \cup {date})
      /\ missed' \in {missed, TRUE, FALSE}
  BY DEF QueueCleanup, cleaning
<1> HIDE DEF on, date
<1>5. cleanupFired \in Int /\ cleaned \subseteq Int /\ missed \in BOOLEAN /\ Never \in Int
  BY DEF TickTypes, Never
<1>6. CASE tick' = on
  BY <1>1, <1>2, <1>4, <1>5, <1>6
<1>7. CASE tick' = [on EXCEPT !.pc = "record", !.date = date, !.then = on.pc]
  BY <1>1, <1>2, <1>4, <1>5, <1>7 DEF Ticks, TickSteps
<1> QED BY <1>3, <1>6, <1>7
-----------------------------------------------------------------------------
(* The variables keep their types.                                           *)

\* Only the jobs, users and the record of the last mail move.
JobStep ==
  \/ StartNotify \/ SendMails \/ RecordSent \/ ExpandAnalysis \/ StartAnalysis \/ EndAnalysis
  \/ QueueOther \/ SendNow \/ Switch

\* Such a step leaves the clock, the ticks and what they fired alone.
TickOnly == <<now, last, fired, cleanupFired, tick, lastRun, since, fires, again, cleaned, recleaned,
              unrecorded, missed, rewound, turned>>
LEMMA JobsLeave == JobStep => UNCHANGED TickOnly
<1>1. JobsOnly => UNCHANGED TickOnly
  BY DEF JobsOnly, TickOnly, memory, firing, cleaning, clock
<1>2. SendNow => UNCHANGED TickOnly
  BY DEF SendNow, TickOnly, memory, recorded, ghosts, firing, cleaning, clock
<1>3. Switch => UNCHANGED TickOnly
  BY DEF Switch, TickOnly, memory, firing, cleaning, clock
<1> QED BY <1>1, <1>2, <1>3 DEF JobStep, StartNotify, SendMails, RecordSent, ExpandAnalysis, StartAnalysis,
                               EndAnalysis, QueueOther

\* What a tick finds due is new and in its window.
NotifyNow == IF tick.on THEN NotifyDue(tick.from, tick.t, tick.sent, fired["notify"]) ELSE {}

LEMMA FoundDue ==
  ASSUME SchedulerAssumption, TickTypes, FiringInv, ~At("off"), NEW k \in Tables,
         k \in TablesLeft
  PROVE  /\ tick.t \in Nat /\ tick.t = last
         /\ k = "send" => /\ ProbeSendDue \subseteq 0 .. tick.t
                          /\ ~rewound => ProbeSendDue \cap fires["send"] = {}
         /\ k = "notify" => /\ NotifyNow \subseteq 0 .. tick.t
                            /\ ~rewound => NotifyNow \cap fires["notify"] = {}
<1>1. tick.t \in Nat /\ tick.t = last /\ tick.t >= DayLen /\ tick.from \in Int
  BY DEF FiringInv, RememberedInv, CoveredInv, TickTypes, Ticks
<1>2. SendTimes \subseteq Hours /\ NotifyTimes \subseteq Hours
  BY DEF SchedulerAssumption
<1>3. CASE k = "send"
  <2> DEFINE due == DueCheckTimes(tick.from, tick.t, SendTimes, fired["send"])
  <2>1. due \subseteq 0 .. tick.t
    BY <1>1, <1>2, DueIs
  <2>2. ~rewound => due \cap fires["send"] = {}
    BY <1>1, <1>2, <1>3, DueIsNew
  <2>3. due # {} => Largest(due) \in due
    <3> HIDE DEF due
    <3> QED BY <1>1, <2>1, LargestIs
  <2>4. ProbeSendDue \subseteq due
    BY <2>3 DEF ProbeSendDue
  <2> QED BY <1>1, <1>3, <2>1, <2>2, <2>4
<1>4. CASE k = "notify"
  <2> DEFINE due == DueCheckTimes(tick.from, tick.t, NotifyTimes, fired["notify"])
  <2>1. due \subseteq 0 .. tick.t
    BY <1>1, <1>2, DueIs
  <2>2. ~rewound => due \cap fires["notify"] = {}
    BY <1>1, <1>2, <1>4, DueIsNew
  <2>3. NotifyNow \subseteq due
    BY DEF NotifyNow, NotifyDue
  <2> QED BY <1>1, <1>4, <2>1, <2>2, <2>3
<1>5. CASE k \notin {"send", "notify"}
  BY <1>1, <1>5
<1> QED BY <1>3, <1>4, <1>5

LEMMA NotifyStep ==
  ASSUME SchedulerAssumption, TickTypes, FiringInv, QueueNotify
  PROVE  /\ Marked("notify", NotifyNow)
         /\ \/ /\ jobs["notify"] = "none" /\ jobs' = [jobs EXCEPT !["notify"] = "queued"]
               /\ \E o \in NotifyNow : /\ o \in Nat
                     /\ note' = [NoNote EXCEPT !.made = Day(o), !.odd = (tick.sent # lastSent)]
            \/ UNCHANGED <<jobs, note>>
<1>1. Marked("notify", NotifyNow)
  BY DEF QueueNotify, Marked, NotifyNow
<1>2. "notify" \in TablesLeft /\ ~At("off") /\ "notify" \in Tables
  BY DEF QueueNotify, TablesLeft, At, Tables
<1>3. NotifyNow \subseteq 0 .. tick.t /\ tick.t \in Nat
  BY <1>2, FoundDue
<1>4. NotifyNow # {} => Largest(NotifyNow) \in NotifyNow /\ Largest(NotifyNow) \in Nat
  <2>1. NotifyNow # {} => Largest(NotifyNow) \in NotifyNow
    BY <1>3, LargestIs
  <2>2. \A o \in NotifyNow : o \in Nat
    BY <1>3
  <2> QED BY <2>1, <2>2
<1> QED BY <1>1, <1>4 DEF QueueNotify, NotifyNow

LEMMA NoteIs ==
  ASSUME NEW n \in Notes, NEW d \in Int, NEW b \in BOOLEAN
  PROVE  /\ [n EXCEPT !.made = d, !.odd = b] \in Notes
         /\ [n EXCEPT !.t = d, !.odd = b] \in Notes /\ [n EXCEPT !.t = d, !.odd = b].t = d
  BY DEF Notes

LEMMA JobTypesKept ==
  ASSUME SchedulerAssumption, TickTypes, JobTypes, FiringInv, [ClockNext]_clockVars
  PROVE  JobTypes'
<1> USE DEF JobTypes, Jobs
<1> DEFINE same == UNCHANGED <<lastSent, limit, notifyOn, agentOn, jobs, note, waits, mailDays, raced>>
<1>1. CASE same
  BY <1>1
<1>2. CASE StartClock \/ Tick \/ RecordCleanup \/ QueueProbeSend \/ Pass \/ UNCHANGED clockVars
  <2>1. same
    BY <1>2 DEF StartClock, Tick, RecordCleanup, QueueProbeSend, Pass, clockVars, recorded, queue,
                mailing, ghosts
  <2> QED BY <1>1, <2>1
<1>3. CASE QueueNotify
  <2>1. UNCHANGED <<lastSent, limit, notifyOn, agentOn, waits, mailDays, raced>>
    BY <1>3 DEF QueueNotify, recorded, mailing
  <2>2. jobs' \in [Jobs -> {"none", "queued", "running"}]
    BY <1>3, NotifyStep
  <2>3. \A o \in Nat : Day(o) \in Int
    BY DayIs
  <2>4. note' \in Notes
    <3> DEFINE b == (tick.sent # lastSent)
    <3>1. b \in BOOLEAN
      OBVIOUS
    <3>2. \/ note' = note
          \/ \E o \in Nat : note' = [NoNote EXCEPT !.made = Day(o), !.odd = b]
      BY <1>3, NotifyStep
    <3> HIDE DEF b
    <3>3. NoNote \in Notes
      BY DEF NoNote, Notes, Never
    <3>4. ASSUME NEW o \in Nat PROVE [NoNote EXCEPT !.made = Day(o), !.odd = b] \in Notes
      BY <2>3, <3>1, <3>3, NoteIs
    <3>5. note \in Notes
      OBVIOUS
    <3> QED BY <3>2, <3>4, <3>5
  <2>5. jobs'["notify"] = "running" => note' = note /\ jobs' = jobs
    BY <1>3, NotifyStep
  <2> QED BY <2>1, <2>2, <2>4, <2>5
<1>4. CASE QueueAnalysis \/ ClearLimit
  BY <1>4 DEF QueueAnalysis, ClearLimit, recorded, ghosts, mailing, Never
<1>5. CASE SetClock
  BY <1>5 DEF SetClock, recorded, queue, mailing
<1>6. CASE Dies
  BY <1>6 DEF Dies, recorded, mailing, NoNote, Notes, Never
<1>7. Day(now) \in Int /\ now \in Nat
  BY DayIs DEF TickTypes
<1>8. NoNote \in Notes
  BY DEF NoNote, Notes, Never
<1>9. CASE StartNotify
  <2>1. note' \in Notes /\ note'.t \in Nat
    <3> DEFINE b == (note.odd \/ Day(now) # note.made)
    <3>1. b \in BOOLEAN /\ note' = [note EXCEPT !.t = now, !.odd = b]
      BY <1>9 DEF StartNotify
    <3> HIDE DEF b
    <3>2. note \in Notes
      OBVIOUS
    <3>3. now \in Int
      BY <1>7
    <3>4. [note EXCEPT !.t = now, !.odd = b] \in Notes /\ [note EXCEPT !.t = now, !.odd = b].t = now
      BY <3>1, <3>2, <3>3, NoteIs
    <3> QED BY <1>7, <3>1, <3>4
  <2> QED BY <1>9, <2>1 DEF StartNotify, Set, JobsOnly, mailing
<1>10. CASE SendMails
  <2>1. note' \in Notes /\ (jobs'["notify"] = "running" => note'.t = note.t)
    BY <1>8, <1>10 DEF SendMails, Set, Notes
  <2> QED BY <1>10, <2>1 DEF SendMails, Set, JobsOnly, mailing
<1>11. CASE SendNow
  <2>1. note' \in Notes
    BY <1>7, <1>8, <1>11 DEF SendNow, Notes
  <2> QED BY <1>11, <2>1 DEF SendNow, Set, recorded, ghosts, mailing
<1>12. CASE RecordSent
  <2>1. note.t \in Nat /\ Day(note.t) \in Int
    BY <1>12, DayIs DEF RecordSent
  <2> QED BY <1>8, <1>12, <2>1 DEF RecordSent, Set, JobsOnly, mailing
<1>13. CASE ExpandAnalysis \/ StartAnalysis \/ QueueOther
  BY <1>13 DEF ExpandAnalysis, StartAnalysis, QueueOther, Set, JobsOnly, mailing
<1>14. CASE EndAnalysis
  <2>1. RetryTimes \subseteq Int
    <3>1. DayLen \in Int /\ MaxTime \in Int /\ now - 1 \in Int
      BY <1>7 DEF SchedulerAssumption
    <3>2. Largest({DayLen, now - 1}) \in Int
      BY <3>1, OfTwo
    <3> QED BY <3>1, <3>2 DEF RetryTimes
  <2> QED BY <1>14, <2>1 DEF EndAnalysis, Set, JobsOnly, mailing
<1>15. CASE Switch
  BY <1>15 DEF Switch, queue, mailing
<1> QED BY <1>2, <1>3, <1>4, <1>5, <1>6, <1>9, <1>10, <1>11, <1>12, <1>13, <1>14, <1>15 DEF ClockNext

LEMMA TickTypesKept ==
  ASSUME SchedulerAssumption, TickTypes, JobTypes, FiringInv, [ClockNext]_clockVars
  PROVE  TickTypes'
<1> USE DEF TickTypes, At
<1>1. ASSUME UNCHANGED TickOnly PROVE TickTypes'
  BY <1>1 DEF TickOnly
<1>2. CASE JobStep
  BY <1>1, <1>2, JobsLeave
<1>3. CASE UNCHANGED clockVars
  BY <1>1, <1>3 DEF clockVars, TickOnly, memory, recorded, ghosts, firing, cleaning, clock
<1>4. NoTick \in Ticks /\ \A p \in TickSteps : [NoTick EXCEPT !.pc = p] \in Ticks /\ [NoTick EXCEPT !.pc = p].pc = p
  <2>1. NoTick \in Ticks
    BY DEF NoTick, Ticks, TickSteps, Never
  <2> QED BY <2>1 DEF Ticks
<1>5. NeverFired \in [Tables -> [Hours -> Int]]
  BY DEF NeverFired, Never
<1>6. CASE StartClock
  <2>1. QueueCleanup(TRUE) /\ last' = now /\ since' = now /\ fired' = NeverFired
        /\ UNCHANGED <<now, lastRun, fires, turned>>
    BY <1>6 DEF StartClock, recorded
  <2>2. tick' \in Ticks /\ tick'.pc \in {"idle", "record"} /\ (tick'.pc = "record" => tick'.then = "idle")
        /\ cleanupFired' \in Int /\ cleaned' \subseteq Int /\ missed' \in BOOLEAN
    BY <2>1, QueueCleanupGives
  <2>3. rewound' \in BOOLEAN
    BY <1>6 DEF StartClock
  <2> QED BY <1>5, <2>1, <2>2, <2>3
<1>7. CASE Tick
  <2> DEFINE due == DueCheckTimes(last, now, CheckTimes, fired["check"])
  <2>1. QueueCleanup(FALSE) /\ last' = now /\ UNCHANGED <<now, lastRun, turned>> /\ Marked("check", due)
    BY <1>7 DEF Tick, recorded, Marked
  <2>2. tick' \in Ticks /\ tick'.pc \in {"probe", "record"} /\ (tick'.pc = "record" => tick'.then = "probe")
        /\ cleanupFired' \in Int /\ cleaned' \subseteq Int /\ missed' \in BOOLEAN
    BY <2>1, QueueCleanupGives
  <2>3. due \subseteq 0 .. now
    BY DueIs DEF SchedulerAssumption
  <2>4. fired' \in [Tables -> [Hours -> Int]] /\ fires' \in [Tables -> SUBSET Nat] /\ rewound' \in BOOLEAN
    <3> HIDE DEF due
    <3>1. "check" \in Tables
      BY DEF Tables
    <3> QED BY <2>1, <2>3, <3>1, Marks
  <2>5. since' \in Int
    <3>1. since' = (IF now > last + DayLen THEN now - DayLen ELSE Smallest({since, now}))
      BY <1>7 DEF Tick
    <3>2. Smallest({since, now}) \in Int /\ now - DayLen \in Int
      <4>1. DayLen \in Int /\ now \in Int /\ since \in Int
        BY DEF SchedulerAssumption
      <4>2. Smallest({since, now}) = IF since <= now THEN since ELSE now
        BY <4>1, OfTwo
      <4> QED BY <4>1, <4>2
    <3> QED BY <3>1, <3>2
  <2> QED BY <2>1, <2>2, <2>4, <2>5
<1>8. CASE RecordCleanup
  <2>1. tick' \in Ticks /\ tick'.pc # "record" /\ tick.pc = "record"
    <3>1. tick.pc = "record" /\ tick.then \in {"idle", "probe"}
      BY <1>8 DEF RecordCleanup, Ticks
    <3>2. tick' = [tick EXCEPT !.pc = tick.then, !.then = "off", !.date = Never] /\ Never \in Int
      BY <1>8 DEF RecordCleanup, Never
    <3> QED BY <3>1, <3>2 DEF Ticks, TickSteps
  <2>2. lastRun' \in Int
    BY <1>8 DEF RecordCleanup, Ticks
  <2> QED BY <1>8, <2>1, <2>2 DEF RecordCleanup, firing, clock
<1>9. CASE QueueProbeSend
  <2>1. Marked("send", ProbeSendDue)
    BY <1>9 DEF QueueProbeSend, Marked
  <2>2. ProbeSendDue \subseteq 0 .. tick.t /\ tick.t \in Nat
    <3>1. "send" \in TablesLeft /\ "send" \in Tables
      BY <1>9 DEF QueueProbeSend, TablesLeft, Tables
    <3>2. ~At("off")
      BY <1>9 DEF QueueProbeSend
    <3> QED BY <3>1, <3>2, FoundDue
  <2>3. fired' \in [Tables -> [Hours -> Int]] /\ fires' \in [Tables -> SUBSET Nat] /\ rewound' \in BOOLEAN
    <3>1. "send" \in Tables
      BY DEF Tables
    <3> QED BY <2>1, <2>2, <3>1, Marks
  <2>4. tick' \in Ticks /\ tick'.pc \in {"notify", "idle"}
    <3>1. CASE TickEnds
      BY <1>4, <3>1 DEF TickEnds, TickSteps
    <3>2. CASE tick' = [tick EXCEPT !.pc = "notify", !.sent = lastSent, !.on = notifyOn]
      BY <3>2 DEF Ticks, TickSteps, JobTypes
    <3> QED BY <1>9, <3>1, <3>2 DEF QueueProbeSend
  <2> QED BY <1>9, <2>3, <2>4 DEF QueueProbeSend, recorded, cleaning
<1>10. CASE QueueNotify
  <2>1. Marked("notify", NotifyNow)
    BY <1>10, NotifyStep
  <2>2. NotifyNow \subseteq 0 .. tick.t /\ tick.t \in Nat
    <3>1. "notify" \in TablesLeft /\ "notify" \in Tables
      BY <1>10 DEF QueueNotify, TablesLeft, Tables
    <3>2. ~At("off")
      BY <1>10 DEF QueueNotify
    <3> QED BY <3>1, <3>2, FoundDue
  <2>3. fired' \in [Tables -> [Hours -> Int]] /\ fires' \in [Tables -> SUBSET Nat] /\ rewound' \in BOOLEAN
    <3>1. "notify" \in Tables
      BY DEF Tables
    <3> QED BY <2>1, <2>2, <3>1, Marks
  <2>4. tick' \in Ticks /\ tick'.pc = "limit"
    BY <1>4, <1>10 DEF QueueNotify, Ticks, TickSteps
  <2> QED BY <1>10, <2>3, <2>4 DEF QueueNotify, recorded, cleaning
<1>11. CASE QueueAnalysis \/ ClearLimit
  <2>1. tick' \in Ticks /\ tick'.pc \in {"idle", "clear"} /\ tick.pc # "off"
    BY <1>4, <1>11 DEF QueueAnalysis, ClearLimit, TickEnds, TickSteps
  <2> QED BY <1>11, <2>1 DEF QueueAnalysis, ClearLimit, recorded, ghosts, firing, cleaning, clock
<1>12. CASE Pass
  <2>1. now' \in Nat /\ now' >= DayLen
    BY <1>12 DEF Pass, SchedulerAssumption
  <2> QED BY <1>12, <2>1 DEF Pass, memory, recorded, ghosts, firing, cleaning, clock
<1>13. CASE SetClock
  <2>1. now' \in Nat /\ now' >= DayLen /\ rewound' \in BOOLEAN /\ turned' \in BOOLEAN
    BY <1>13 DEF SetClock, Moments, SchedulerAssumption
  <2> QED BY <1>13, <2>1 DEF SetClock, memory, recorded, firing, cleaning
<1>14. CASE Dies
  <2>1. Never \in Int
    BY DEF Never
  <2> QED BY <1>4, <1>5, <1>14, <2>1 DEF Dies, recorded, cleaning, clock, NoTick
<1> QED BY <1>2, <1>3, <1>6, <1>7, <1>8, <1>9, <1>10, <1>11, <1>12, <1>13, <1>14 DEF ClockNext, JobStep
-----------------------------------------------------------------------------
(* What fired is remembered.                                                 *)

\* A step of the tick that looks at one table.
LEMMA TableLookedAt ==
  ASSUME SchedulerAssumption, TickTypes, FiringInv, ~At("off"), NEW k \in Tables, NEW n \in Nat,
         NEW due, due \subseteq 0 .. n, Marked(k, due), ~rewound => due \cap fires[k] = {},
         now' = now, k \notin TablesLeft',
         k = "check" \/ k \in TablesLeft, last' = IF k = "check" THEN now ELSE tick.t,
         \A j \in Tables \ {k} : j \in TablesLeft' =>
           tick'.from = last \/ (j \in TablesLeft /\ tick'.from = tick.from)
  PROVE  RememberedInv'
<1>1. /\ \A j \in Tables : \A h \in Hours :
           fired'[j][h] # Never => fired'[j][h] \in fires'[j] /\ fired'[j][h] % DayLen = h
      /\ again' = {} /\ (rewound => rewound')
      /\ ~rewound' => \A o \in fires'[k] : o > now \/ o > last' => Remembered(k, o)'
  BY Remembers
<1>2. ASSUME ~rewound', NEW j \in Tables, NEW o \in fires'[j],
             o > now' \/ o > last' \/ (j \in TablesLeft' /\ o > tick'.from)
      PROVE  Remembered(j, o)'
  <2>1. CASE j = k
    BY <1>1, <1>2, <2>1
  <2>2. CASE j # k
    <3>1. fired'[j] = fired[j] /\ fires'[j] = fires[j]
      BY ZenonT(60), <2>2, Marks
    <3>2. ~rewound
      BY <1>1, <1>2
    <3>3. o > now \/ o > last \/ (j \in TablesLeft /\ o > tick.from)
      <4>1. now' = now /\ (last' = now \/ last' = last)
        BY DEF FiringInv, RememberedInv, CoveredInv
      <4> QED BY <1>2, <2>2, <4>1
    <3> QED BY <3>1, <3>2, <3>3 DEF FiringInv, RememberedInv, CoveredInv, Remembered
  <2> QED BY <2>1, <2>2
<1> QED BY <1>1, <1>2 DEF RememberedInv

LEMMA RememberedKept ==
  ASSUME SchedulerAssumption, TickTypes, JobTypes, FiringInv, [ClockNext]_clockVars
  PROVE  RememberedInv' /\ (TablesLeft # {} => tick.t = last)'
<1>1. ASSUME UNCHANGED TickOnly PROVE RememberedInv' /\ (TablesLeft # {} => tick.t = last)'
  BY <1>1 DEF TickOnly, RememberedInv, FiringInv, CoveredInv, TablesLeft, Remembered, At
<1>2. CASE JobStep
  BY <1>1, <1>2, JobsLeave
<1>3. CASE UNCHANGED clockVars
  BY <1>1, <1>3 DEF clockVars, TickOnly, memory, recorded, ghosts, firing, cleaning, clock
<1>4. CASE StartClock
  <2>1. tick'.pc \in {"idle", "record"} /\ (tick'.pc = "record" => tick'.then = "idle")
    BY <1>4, QueueCleanupGives DEF StartClock
  <2>2. TablesLeft' = {}
    BY <2>1 DEF TablesLeft, At
  <2>3. fired' = NeverFired /\ fires' = fires /\ again' = again /\ last' = now /\ now' = now
    BY <1>4 DEF StartClock
  <2>4. ASSUME ~rewound', NEW k \in Tables, NEW o \in fires[k], o > now PROVE FALSE
    <3>1. ~Lost(now, fires[k], NeverFired[k])
      BY <1>4, <2>4 DEF StartClock, Forgotten
    <3>2. \A h \in Hours : NeverFired[k][h] # o
      BY DEF NeverFired, Never, TickTypes
    <3> QED BY <2>4, <3>1, <3>2 DEF Lost
  <2>5. \A k \in Tables : \A h \in Hours : fired'[k][h] = Never
    BY <2>3 DEF NeverFired
  <2> QED BY <2>2, <2>3, <2>4, <2>5 DEF RememberedInv, FiringInv, CoveredInv
<1>5. CASE Tick
  <2> DEFINE due == DueCheckTimes(last, now, CheckTimes, fired["check"])
  <2>1. QueueCleanup(FALSE) /\ last' = now /\ now' = now /\ Marked("check", due) /\ ~At("off")
    BY <1>5 DEF Tick, Marked, At
  <2>2. tick'.pc \in {"probe", "record"} /\ (tick'.pc = "record" => tick'.then = "probe")
        /\ tick'.from = last /\ tick'.t = now
    BY <2>1, QueueCleanupGives
  <2>3. due \subseteq 0 .. now /\ (~rewound => due \cap fires["check"] = {})
    <3>1. CheckTimes \subseteq Hours /\ last \in Int /\ now \in Nat /\ now >= DayLen /\ "check" \in Tables
      BY DEF SchedulerAssumption, TickTypes, Tables
    <3> QED BY <2>1, <3>1, DueIs, DueIsNew
  <2>4. "check" \notin TablesLeft' /\ "check" \in Tables /\ now \in Nat
    BY DEF TablesLeft, Tables, TickTypes
  <2> HIDE DEF due
  <2>5. RememberedInv'
    BY <2>1, <2>2, <2>3, <2>4, TableLookedAt
  <2> QED BY <2>1, <2>2, <2>5
<1>6. CASE RecordCleanup
  <2>1. tick' = [tick EXCEPT !.pc = tick.then, !.then = "off", !.date = Never] /\ At("record")
        /\ UNCHANGED <<now, last, fired, fires, again, rewound>>
    BY <1>6 DEF RecordCleanup, firing, clock
  <2>2. tick'.pc = tick.then /\ tick'.from = tick.from /\ tick'.t = tick.t
        /\ tick.then \in {"idle", "probe"}
    BY <2>1 DEF TickTypes, Ticks
  <2>3. TablesLeft' = TablesLeft
    BY <2>1, <2>2 DEF TablesLeft, At
  <2>4. At("record") /\ ~At("off")
    BY <2>1 DEF At
  <2> QED BY <2>1, <2>2, <2>3, <2>4 DEF RememberedInv, FiringInv, CoveredInv, Remembered
<1>7. CASE QueueProbeSend
  <2>1. Marked("send", ProbeSendDue) /\ UNCHANGED <<now, last>> /\ ~At("off")
        /\ TablesLeft = {"send", "notify"}
    BY <1>7 DEF QueueProbeSend, Marked, At, TablesLeft
  <2>2. "send" \in Tables /\ "send" \in TablesLeft
    BY <2>1 DEF Tables
  <2>3. /\ ProbeSendDue \subseteq 0 .. tick.t /\ tick.t \in Nat /\ tick.t = last
        /\ ~rewound => ProbeSendDue \cap fires["send"] = {}
    BY <2>1, <2>2, FoundDue
  <2>4. \/ tick'.pc = "notify" /\ tick'.from = tick.from /\ tick'.t = tick.t
        \/ tick'.pc = "idle"
    BY <1>7 DEF QueueProbeSend, TickEnds, NoTick, TickTypes, Ticks
  <2>5. TablesLeft' \subseteq {"notify"} /\ (TablesLeft' # {} => tick'.from = tick.from /\ tick'.t = tick.t)
    BY <2>4 DEF TablesLeft, At
  <2>6. RememberedInv'
    BY <2>1, <2>2, <2>3, <2>5, TableLookedAt
  <2> QED BY <2>1, <2>3, <2>5, <2>6
<1>8. CASE QueueNotify
  <2>1. Marked("notify", NotifyNow) /\ UNCHANGED <<now, last>> /\ ~At("off")
        /\ TablesLeft = {"notify"}
    BY <1>8, NotifyStep DEF QueueNotify, At, TablesLeft
  <2>2. "notify" \in Tables /\ "notify" \in TablesLeft
    BY <2>1 DEF Tables
  <2>3. /\ NotifyNow \subseteq 0 .. tick.t /\ tick.t \in Nat /\ tick.t = last
        /\ ~rewound => NotifyNow \cap fires["notify"] = {}
    BY <2>1, <2>2, FoundDue
  <2>4. tick'.pc = "limit"
    BY <1>8 DEF QueueNotify, NoTick
  <2>5. TablesLeft' = {}
    BY <2>4 DEF TablesLeft, At
  <2>6. RememberedInv'
    BY <2>1, <2>2, <2>3, <2>5, TableLookedAt
  <2> QED BY <2>5, <2>6
<1>9. CASE QueueAnalysis \/ ClearLimit
  <2>1. tick'.pc \in {"idle", "clear"} /\ tick.pc \in {"limit", "clear"}
        /\ UNCHANGED <<now, last, fired, fires, again, rewound>>
    BY <1>9 DEF QueueAnalysis, ClearLimit, TickEnds, NoTick, ghosts, firing, clock, At
  <2>2. TablesLeft' = {} /\ ~At("off")
    BY <2>1 DEF TablesLeft, At
  <2> QED BY <2>1, <2>2 DEF RememberedInv, FiringInv, CoveredInv, Remembered
<1>10. CASE Pass
  <2>1. UNCHANGED <<tick, last, fired, fires, again, rewound>> /\ now' = now + 1 /\ now \in Nat
        /\ fires \in [Tables -> SUBSET Nat]
    BY <1>10 DEF Pass, memory, ghosts, firing, clock, TickTypes
  <2>2. TablesLeft' = TablesLeft /\ (At("off"))' = At("off")
    BY <2>1 DEF TablesLeft, At
  <2>3. \A k \in Tables : \A o \in fires[k] : o > now' => o > now
    BY <2>1
  <2> QED BY <2>1, <2>2, <2>3 DEF RememberedInv, FiringInv, CoveredInv, Remembered
<1>11. CASE SetClock
  <2>1. UNCHANGED <<tick, last, fired, fires, again>> /\ rewound' = (rewound \/ Forgotten(now', fired))
    BY <1>11 DEF SetClock, memory, firing
  <2>2. TablesLeft' = TablesLeft /\ (At("off"))' = At("off")
    BY <2>1 DEF TablesLeft, At
  <2>3. ~rewound' => \A k \in Tables : \A o \in fires[k] : o > now' => Remembered(k, o)
    BY <2>1 DEF Forgotten, Lost, Remembered
  <2>4. rewound => rewound'
    BY <2>1
  <2> QED BY <2>1, <2>2, <2>3, <2>4 DEF RememberedInv, FiringInv, CoveredInv, Remembered
<1>12. CASE Dies
  <2>1. tick'.pc = "off" /\ fired' = NeverFired /\ again' = again
    BY <1>12 DEF Dies, NoTick
  <2>2. TablesLeft' = {} /\ (At("off"))'
    BY <2>1 DEF TablesLeft, At
  <2>3. \A k \in Tables : \A h \in Hours : fired'[k][h] = Never
    BY <2>1 DEF NeverFired
  <2> QED BY <2>1, <2>2, <2>3 DEF RememberedInv, FiringInv, CoveredInv
<1> QED BY <1>2, <1>3, <1>4, <1>5, <1>6, <1>7, <1>8, <1>9, <1>10, <1>11, <1>12 DEF ClockNext, JobStep

LEMMA CoveredKept ==
  ASSUME SchedulerAssumption, TickTypes, JobTypes, FiringInv, [ClockNext]_clockVars
  PROVE  CoveredInv'
<1> DEFINE grown == fires["check"] \subseteq fires'["check"]
<1>1. ASSUME UNCHANGED <<last, since>>, ~At("off"), grown PROVE CoveredInv'
  BY <1>1 DEF CoveredInv, FiringInv, RememberedInv
<1>2. ASSUME UNCHANGED <<last, since, tick, fires>> PROVE CoveredInv'
  BY <1>2 DEF CoveredInv, FiringInv, RememberedInv, At
<1>3. CASE JobStep \/ Pass \/ SetClock \/ UNCHANGED clockVars
  <2>1. UNCHANGED <<last, since, tick, fires>>
    BY <1>3, JobsLeave DEF TickOnly, Pass, SetClock, clockVars, memory, ghosts, firing
  <2> QED BY <1>2, <2>1
<1>4. CASE StartClock
  BY <1>4 DEF StartClock, CoveredInv, TickTypes
<1>5. CASE Tick
  <2> DEFINE due == DueCheckTimes(last, now, CheckTimes, fired["check"])
  <2>1. last' = now /\ ~At("off") /\ Marked("check", due)
        /\ since' = IF now > last + DayLen THEN now - DayLen ELSE Smallest({since, now})
    BY <1>5 DEF Tick, Marked, At
  <2>2. /\ now \in Nat /\ now >= DayLen /\ last \in Nat /\ since \in Int /\ DayLen \in Nat
        /\ CheckTimes \subseteq Hours /\ "check" \in Tables
    BY <2>1 DEF TickTypes, SchedulerAssumption, Tables
  <2>3. due \subseteq 0 .. now
    BY <2>2, DueIs
  <2>4. fires'["check"] = fires["check"] \cup due
    <3> HIDE DEF due
    <3> QED BY <2>1, <2>2, <2>3, Marks
  <2>5. Smallest({since, now}) = IF since <= now THEN since ELSE now
    <3>1. now \in Int
      BY <2>2
    <3> QED BY <2>2, <3>1, OfTwo
  <2>6. ASSUME NEW o \in Nat, o % DayLen \in CheckTimes, since' < o, o <= now
        PROVE  o \in fires'["check"]
    <3>1. since < o \/ last < o
      BY <2>1, <2>2, <2>5, <2>6
    <3>2. CASE o <= last /\ since < o
      BY <2>1, <2>4, <2>6, <3>2 DEF FiringInv, RememberedInv, CoveredInv
    <3>3. CASE last < o
      <4>1. now < o + DayLen
        BY <2>1, <2>2, <2>5, <2>6, <3>3
      <4>2. CASE fired["check"][o % DayLen] = o
        <5>1. o # Never /\ o % DayLen \in Hours
          BY <2>2, <2>6 DEF Never
        <5> QED BY <2>2, <2>4, <4>2, <5>1 DEF FiringInv, RememberedInv, CoveredInv
      <4>3. CASE fired["check"][o % DayLen] # o
        <5>1. o \in due
          BY <2>2, <2>6, <3>3, <4>1, <4>3, DueIs
        <5> QED BY <2>4, <5>1
      <4> QED BY <4>2, <4>3
    <3>4. CASE ~(last < o) /\ ~(since < o)
      BY <3>1, <3>4
    <3> QED BY <2>2, <3>2, <3>3, <3>4
  <2> QED BY <2>1, <2>6 DEF CoveredInv
<1>6. CASE RecordCleanup \/ QueueAnalysis \/ ClearLimit
  BY <1>1, <1>6 DEF RecordCleanup, QueueAnalysis, ClearLimit, ghosts, firing, At
<1>7. CASE QueueProbeSend \/ QueueNotify
  <2>1. UNCHANGED <<last, since>> /\ ~At("off")
    BY <1>7 DEF QueueProbeSend, QueueNotify, At
  <2>2. "check" \in Tables /\ fires \in [Tables -> SUBSET Nat]
    BY DEF Tables, TickTypes
  <2>3. \E k \in Tables \ {"check"} : \E due : fires' = [fires EXCEPT ![k] = @ \cup due]
    BY <1>7 DEF QueueProbeSend, QueueNotify, CountFired, Tables
  <2>4. fires'["check"] = fires["check"]
    BY <2>2, <2>3
  <2> QED BY <1>1, <2>1, <2>4
<1>8. CASE Dies
  BY <1>8 DEF Dies, NoTick, CoveredInv, At
<1> QED BY <1>3, <1>4, <1>5, <1>6, <1>7, <1>8 DEF ClockNext, JobStep

LEMMA FiringKept ==
  ASSUME SchedulerAssumption, TickTypes, JobTypes, FiringInv, [ClockNext]_clockVars
  PROVE  FiringInv'
<1>1. RememberedInv' /\ CoveredInv' /\ (TablesLeft # {} => tick.t = last)'
  BY RememberedKept, CoveredKept
<1> QED BY <1>1 DEF RememberedInv, CoveredInv, FiringInv

LEMMA TimesHaveFired ==
  ASSUME SchedulerAssumption, TickTypes, FiringInv
  PROVE  TimesFire
<1> SUFFICES ASSUME tick.pc # "off", NEW h \in CheckTimes, NEW d \in Day(last) - 1 .. Day(last),
                    OnDay(d, h) > since, OnDay(d, h) <= last
             PROVE  OnDay(d, h) \in fires["check"]
  BY DEF TimesFire, FiringInv, RememberedInv, CoveredInv
<1>1. last \in Nat /\ last >= DayLen /\ h \in Hours
  BY DEF TickTypes, At, SchedulerAssumption
<1>2. Day(last) \in Nat /\ Day(last) >= 1
  BY <1>1, DayIs
<1>3. d \in Nat
  BY <1>2
<1>4. OnDay(d, h) \in Nat /\ OnDay(d, h) % DayLen = h
  BY <1>1, <1>3, OnDayIs
<1> QED BY <1>4 DEF FiringInv, RememberedInv, CoveredInv, At
-----------------------------------------------------------------------------
(* The cleanup.                                                              *)

\* The latest cleanup time is of today or of yesterday.
LEMMA OccurredIs ==
  ASSUME SchedulerAssumption, NEW t \in Nat, t >= DayLen
  PROVE  Occurred(t) \in Nat /\ Occurred(t) <= Day(t)
<1>1. Day(t) \in Nat /\ Day(t) >= 1
  BY DayIs
<1> QED BY <1>1 DEF Occurred

LEMMA QueueCleanupKeeps ==
  ASSUME SchedulerAssumption, TickTypes, CleanupInv, NEW starting \in BOOLEAN, QueueCleanup(starting),
         UNCHANGED <<now, lastRun, turned>>, last' = now
  PROVE  CleanupInv'
<1> DEFINE queued == IF starting THEN Never ELSE cleanupFired
           date   == CleanupDue(now, lastRun, queued)
           found  == \E d \in cleaned' : Occurred(now) <= d /\ d <= Day(now)
<1>1. now \in Nat /\ Day(now) \in Nat /\ Occurred(now) \in Nat /\ Occurred(now) <= Day(now)
      /\ lastRun \in Int /\ cleaned \subseteq Int /\ Never = -1
  BY DayIs, OccurredIs DEF TickTypes, Never
<1>2. date # Never =>
        /\ date = Occurred(now)
        /\ ~turned => lastRun < date /\ date \notin cleaned \ unrecorded
  <2>1. date # Never => date = Occurred(now) /\ ~(Occurred(now) <= IF lastRun > Day(now) THEN Never ELSE lastRun)
    BY DEF CleanupDue
  <2>2. ~turned => lastRun <= Day(now) /\ \A d \in cleaned \ unrecorded : d <= lastRun
    BY DEF CleanupInv
  <2> HIDE DEF date
  <2>3. ASSUME date # Never, ~turned PROVE lastRun < date
    BY <1>1, <2>1, <2>2, <2>3
  <2> QED BY <1>1, <2>1, <2>2, <2>3
<1>3. date = Never => \E d \in cleaned : Occurred(now) <= d /\ d <= Day(now)
  <2> SUFFICES ASSUME date = Never PROVE \E d \in cleaned : Occurred(now) <= d /\ d <= Day(now)
    OBVIOUS
  <2>1. Occurred(now) # Never
    BY <1>1
  <2>2. \/ Occurred(now) <= IF lastRun > Day(now) THEN Never ELSE lastRun
        \/ Occurred(now) = queued
    BY <2>1 DEF CleanupDue
  <2>3. CASE Occurred(now) = queued
    BY <1>1, <2>1, <2>3 DEF CleanupInv
  <2>4. CASE Occurred(now) <= IF lastRun > Day(now) THEN Never ELSE lastRun
    <3>1. Occurred(now) <= lastRun /\ lastRun <= Day(now)
      BY <1>1, <2>4
    <3>2. lastRun \in cleaned
      BY <1>1, <3>1 DEF CleanupInv
    <3> QED BY <3>1, <3>2
  <2> QED BY <2>2, <2>3, <2>4
<1>4. tick'.pc = "record" => tick'.date = date /\ date # Never
  BY DEF QueueCleanup, NoTick
<1>5. \/ /\ date = Never /\ UNCHANGED cleaning
         /\ cleanupFired' = IF starting THEN Never ELSE cleanupFired
      \/ /\ date # Never /\ missed' = FALSE
         /\ cleanupFired' = date /\ cleaned' = cleaned \cup {date}
         /\ recleaned' = recleaned \cup ({date} \cap (cleaned \ unrecorded))
         /\ unrecorded' = unrecorded \cup {date}
      \/ /\ date # Never /\ missed' = TRUE
         /\ cleanupFired' = IF starting THEN Never ELSE cleanupFired
         /\ UNCHANGED <<cleaned, recleaned, unrecorded>>
  BY DEF QueueCleanup
<1>6. tick'.pc = "record" => date \in cleaned'
  BY DEF QueueCleanup, NoTick
<1> HIDE DEF date
<1>7. (lastRun # Never => lastRun \in cleaned)' /\ (cleanupFired # Never => cleanupFired \in cleaned)'
  BY <1>5 DEF CleanupInv, cleaning
<1>8. (At("record") => tick.date \in cleaned)'
  BY <1>4, <1>6 DEF At
<1>9. ~missed' => found
  <2>1. date # Never => date <= Day(now) /\ Occurred(now) <= date
    BY <1>1, <1>2
  <2> QED BY <1>3, <1>5, <2>1 DEF cleaning
<1>10. ASSUME ~turned' PROVE /\ recleaned' = {} /\ lastRun' <= Day(now')
                             /\ \A d \in cleaned' \ unrecorded' : d <= lastRun'
                             /\ tick'.pc = "record" => lastRun' < tick'.date /\ tick'.date <= Day(now')
  <2>1. ~turned /\ recleaned = {} /\ lastRun <= Day(now) /\ \A d \in cleaned \ unrecorded : d <= lastRun
    BY <1>10 DEF CleanupInv
  <2>2. recleaned' = {}
    BY <1>2, <1>5, <2>1 DEF cleaning
  <2>3. cleaned' \ unrecorded' \subseteq cleaned \ unrecorded
    BY <1>5 DEF cleaning
  <2> QED BY <1>1, <1>2, <1>4, <2>1, <2>2, <2>3
<1> QED BY <1>7, <1>8, <1>9, <1>10 DEF CleanupInv, At

LEMMA CleanupKept ==
  ASSUME SchedulerAssumption, TickTypes, CleanupInv, [ClockNext]_clockVars
  PROVE  CleanupInv'
<1> DEFINE days == UNCHANGED <<lastRun, cleanupFired, turned, cleaned, recleaned, unrecorded, missed>>
<1>1. ASSUME UNCHANGED TickOnly PROVE CleanupInv'
  BY <1>1 DEF TickOnly, CleanupInv, At
<1>2. CASE JobStep
  BY <1>1, <1>2, JobsLeave
<1>3. CASE UNCHANGED clockVars
  BY <1>1, <1>3 DEF clockVars, TickOnly, memory, recorded, ghosts, firing, cleaning, clock
<1>4. CASE StartClock
  BY <1>4, QueueCleanupKeeps DEF StartClock, recorded
<1>5. CASE Tick
  BY <1>5, QueueCleanupKeeps DEF Tick, recorded
<1>6. CASE RecordCleanup
  <2>1. /\ tick.pc = "record" /\ tick'.pc = tick.then /\ tick.then \in {"idle", "probe"}
        /\ UNCHANGED <<now, last, cleanupFired, turned, cleaned, recleaned, missed>>
    BY <1>6 DEF RecordCleanup, TickTypes, Ticks, At, clock
  <2>2. \/ lastRun' = tick.date /\ unrecorded' = unrecorded \ {tick.date}
        \/ UNCHANGED <<lastRun, unrecorded>>
    BY <1>6 DEF RecordCleanup
  <2>3. tick.date \in Int /\ lastRun \in Int /\ cleaned \subseteq Int
    BY DEF TickTypes, Ticks
  <2> QED BY <2>1, <2>2, <2>3 DEF CleanupInv, At
<1>7. ASSUME UNCHANGED <<now, last>>, days, tick.pc \notin {"off", "record"}, tick'.pc \notin {"off", "record"}
      PROVE  CleanupInv'
  BY <1>7 DEF CleanupInv, At
<1>8. CASE QueueProbeSend \/ QueueNotify \/ QueueAnalysis \/ ClearLimit
  <2>1. UNCHANGED <<now, last>> /\ days
    BY <1>8 DEF QueueProbeSend, QueueNotify, QueueAnalysis, ClearLimit, recorded, cleaning, ghosts, clock
  <2>2. tick.pc \notin {"off", "record"} /\ tick'.pc \notin {"off", "record"}
    BY <1>8 DEF QueueProbeSend, QueueNotify, QueueAnalysis, ClearLimit, TickEnds, NoTick, At, TickTypes, Ticks
  <2> QED BY <1>7, <2>1, <2>2
<1>9. CASE Pass \/ SetClock
  <2>1. UNCHANGED <<lastRun, cleanupFired, cleaned, recleaned, unrecorded, missed, last, tick>>
    BY <1>9 DEF Pass, SetClock, memory, recorded, ghosts, cleaning, clock
  <2>2. ~turned' => ~turned /\ Day(now) <= Day(now') /\ Day(now) \in Nat /\ Day(now') \in Nat
    <3>1. CASE Pass
      <4>1. now \in Nat /\ now' = now + 1 /\ turned' = turned
        BY <3>1 DEF Pass, TickTypes, ghosts, clock
      <4>2. now' \in Nat /\ now <= now'
        BY <4>1
      <4> QED BY <4>1, <4>2, DaysGoOn, DayIs
    <3>2. CASE SetClock
      <4>1. now \in Nat /\ now' \in Nat /\ turned' = (turned \/ Day(now') < Day(now))
        BY <3>2 DEF SetClock, TickTypes, Moments, SchedulerAssumption
      <4>2. turned \/ Day(now') < Day(now) => turned'
        BY <4>1
      <4>3. Day(now) \in Nat /\ Day(now') \in Nat
        BY <4>1, DayIs
      <4> QED BY <4>2, <4>3
    <3> QED BY <1>9, <3>1, <3>2
  <2>3. lastRun \in Int /\ tick.date \in Int
    BY DEF TickTypes, Ticks
  <2> QED BY <2>1, <2>2, <2>3 DEF CleanupInv, At
<1>10. CASE Dies
  <2>1. tick'.pc = "off" /\ cleanupFired' = Never
        /\ UNCHANGED <<now, lastRun, turned, cleaned, recleaned, unrecorded, missed>>
    BY <1>10 DEF Dies, NoTick, recorded, cleaning, clock
  <2> QED BY <2>1 DEF CleanupInv, At
<1> QED BY <1>2, <1>3, <1>4, <1>5, <1>6, <1>8, <1>9, <1>10 DEF ClockNext, JobStep

LEMMA CleanupIsDaily ==
  ASSUME CleanupInv
  PROVE  CleanupDaily
  BY DEF CleanupInv, CleanupDaily, At
-----------------------------------------------------------------------------
(* Notification mails.                                                       *)

LEMMA MailStaysSame ==
  ASSUME MailInv, UNCHANGED <<lastSent, jobs, note, mailDays, odd>>,
         ~turned' => ~turned /\ Day(now) <= Day(now') /\ Day(now) \in Int /\ Day(now') \in Int,
         TickTypes, JobTypes, SchedulerAssumption
  PROVE  MailInv'
<1> SUFFICES ASSUME ~turned' PROVE MailInv'
  BY DEF MailInv
<1>1. lastSent # Never => Day(lastSent) \in Nat
  <2>1. lastSent # Never => lastSent \in Nat
    BY DEF JobTypes
  <2> QED BY <2>1, DayIs
<1>2. jobs["notify"] = "running" => Day(note.t) \in Nat
  BY DayIs DEF JobTypes
<1> QED BY <1>1, <1>2 DEF MailInv, NotifySpacing

LEMMA DaysKeptOn ==
  ASSUME SchedulerAssumption, TickTypes, [ClockNext]_clockVars
  PROVE  ~turned' => ~turned /\ Day(now) <= Day(now') /\ Day(now) \in Int /\ Day(now') \in Int
<1>1. now \in Nat /\ Day(now) \in Nat
  BY DayIs DEF TickTypes
<1>2. CASE UNCHANGED <<now, turned>>
  BY <1>1, <1>2
<1>3. CASE JobStep
  BY <1>2, <1>3, JobsLeave DEF TickOnly
<1>4. CASE Pass
  <2>1. now' = now + 1 /\ turned' = turned
    BY <1>4 DEF Pass, ghosts, clock
  <2>2. now' \in Nat /\ now <= now'
    BY <1>1, <2>1
  <2> QED BY <1>1, <2>1, <2>2, DaysGoOn, DayIs
<1>5. CASE SetClock
  <2>1. now' \in Nat /\ turned' = (turned \/ Day(now') < Day(now))
    BY <1>5 DEF SetClock, Moments, SchedulerAssumption
  <2>2. turned \/ Day(now') < Day(now) => turned'
    BY <2>1
  <2>3. Day(now') \in Nat
    BY <2>1, DayIs
  <2> QED BY <1>1, <2>2, <2>3
<1>6. CASE StartClock \/ Tick \/ RecordCleanup \/ QueueProbeSend \/ QueueNotify \/ QueueAnalysis \/ ClearLimit \/ Dies
           \/ UNCHANGED clockVars
  BY <1>2, <1>6 DEF StartClock, Tick, RecordCleanup, QueueProbeSend, QueueNotify, QueueAnalysis,
                    ClearLimit, Dies, clockVars, ghosts, clock
<1> QED BY <1>3, <1>4, <1>5, <1>6 DEF ClockNext, JobStep

LEMMA MailKept ==
  ASSUME SchedulerAssumption, TickTypes, JobTypes, FiringInv, MailInv, [ClockNext]_clockVars
  PROVE  MailInv'
<1>1. ~turned' => ~turned /\ Day(now) <= Day(now') /\ Day(now) \in Int /\ Day(now') \in Int
  BY DaysKeptOn
<1>2. ASSUME UNCHANGED <<lastSent, jobs, note, mailDays, odd>> PROVE MailInv'
  BY <1>1, <1>2, MailStaysSame
<1>3. CASE StartClock \/ Tick \/ RecordCleanup \/ QueueProbeSend \/ Pass \/ SetClock \/ Switch \/ UNCHANGED clockVars
  BY <1>2, <1>3 DEF StartClock, Tick, RecordCleanup, QueueProbeSend, Pass, SetClock, Switch, clockVars,
                    recorded, queue, mailing, ghosts
<1>4. /\ now \in Nat /\ Day(now) \in Nat /\ Interval \in Nat
      /\ lastSent # Never => Day(lastSent) \in Nat
      /\ jobs["notify"] = "running" => note.t \in Nat /\ Day(note.t) \in Nat
  <2>1. lastSent # Never => lastSent \in Nat
    BY DEF JobTypes
  <2> QED BY <2>1, DayIs DEF TickTypes, JobTypes, SchedulerAssumption
<1>5. ASSUME UNCHANGED <<lastSent, note, mailDays, odd, now, turned>>, jobs'["notify"] = jobs["notify"]
      PROVE  MailInv'
  BY <1>5 DEF MailInv, NotifySpacing
<1>6. CASE QueueAnalysis \/ ClearLimit \/ ExpandAnalysis \/ StartAnalysis \/ EndAnalysis \/ QueueOther
  <2>1. UNCHANGED <<lastSent, note, mailDays, odd, now, turned>>
    BY <1>6, JobsLeave DEF QueueAnalysis, ClearLimit, ExpandAnalysis, StartAnalysis, EndAnalysis, QueueOther,
         TickOnly, JobStep, recorded, ghosts, mailing, clock
  <2>2. jobs'["notify"] = jobs["notify"]
    BY <1>6 DEF QueueAnalysis, ClearLimit, ExpandAnalysis, StartAnalysis, EndAnalysis, QueueOther, Set,
                JobTypes, Jobs
  <2> QED BY <1>5, <2>1, <2>2
\* A mail that waits for its turn, or none.
<1>7. ASSUME UNCHANGED <<lastSent, mailDays, odd, now, turned>>, jobs'["notify"] # "running",
             jobs'["notify"] # "none" /\ ~note'.odd /\ lastSent # Never =>
               note'.made = Day(lastSent) \/ note'.made >= Day(lastSent) + Interval
      PROVE  MailInv'
  BY <1>7 DEF MailInv, NotifySpacing
<1>8. CASE QueueNotify
  <2>1. UNCHANGED <<lastSent, mailDays, odd, now, turned>>
    BY <1>8 DEF QueueNotify, recorded, mailing
  <2>2. CASE UNCHANGED <<jobs, note>>
    BY <1>2, <2>1, <2>2
  <2>3. ASSUME NEW o \in NotifyNow, o \in Nat, jobs' = [jobs EXCEPT !["notify"] = "queued"],
               note' = [NoNote EXCEPT !.made = Day(o), !.odd = (tick.sent # lastSent)]
        PROVE  MailInv'
    <3>1. jobs'["notify"] = "queued"
      BY <2>3 DEF JobTypes, Jobs
    <3>2. note'.made = Day(o) /\ note'.odd = (tick.sent # lastSent)
      BY <2>3 DEF NoNote
    <3>3. NotifyDay(tick.sent, o)
      BY DEF NotifyNow, NotifyDue
    <3>4. Day(o) \in Nat
      BY <2>3, DayIs
    <3>5. ASSUME ~note'.odd, lastSent # Never
          PROVE  note'.made = Day(lastSent) \/ note'.made >= Day(lastSent) + Interval
      <4>1. tick.sent = lastSent
        BY <3>2, <3>5
      <4>2. Day(o) - Day(lastSent) = 0 \/ Day(o) - Day(lastSent) >= Interval
        BY <3>3, <3>5, <4>1 DEF NotifyDay
      <4> QED BY <1>4, <3>2, <3>4, <3>5, <4>2
    <3> QED BY <1>7, <2>1, <3>1, <3>5
  <2> QED BY <1>8, <2>2, <2>3, NotifyStep
<1>9. CASE StartNotify
  <2>1. jobs["notify"] = "queued" /\ jobs'["notify"] = "running" /\ UNCHANGED <<lastSent, mailDays, odd, now, turned>>
    BY <1>9, JobsLeave DEF StartNotify, Set, JobTypes, Jobs, mailing, JobStep, TickOnly
  <2>2. note'.t = now /\ note'.made = note.made /\ (~note'.odd => ~note.odd /\ Day(now) = note.made)
    BY <1>9 DEF StartNotify, JobTypes, Notes
  <2> QED BY <1>4, <2>1, <2>2 DEF MailInv, NotifySpacing
<1>10. CASE SendMails
  <2>1. UNCHANGED <<lastSent, mailDays, odd, now, turned>> /\ jobs["notify"] = "running"
    BY <1>10, JobsLeave DEF SendMails, mailing, JobStep, TickOnly
  <2>2. CASE note' = [note EXCEPT !.mailed = TRUE] /\ UNCHANGED jobs
    <3>1. note'.t = note.t /\ note'.made = note.made /\ note'.odd = note.odd
      BY <2>2 DEF JobTypes, Notes
    <3> QED BY <2>1, <2>2, <3>1 DEF MailInv, NotifySpacing
  <2>3. CASE Set("notify", "none")
    <3>1. jobs'["notify"] = "none"
      BY <2>3 DEF Set, JobTypes, Jobs
    <3> QED BY <1>7, <2>1, <3>1
  <2> QED BY <1>10, <2>2, <2>3 DEF SendMails
<1>11. CASE RecordSent
  <2>1. UNCHANGED <<now, turned>> /\ jobs["notify"] = "running" /\ jobs'["notify"] = "none"
    BY <1>11, JobsLeave DEF RecordSent, Set, JobTypes, Jobs, JobStep, TickOnly
  <2>2. CASE UNCHANGED <<lastSent, mailing>>
    BY <1>7, <2>1, <2>2 DEF mailing
  <2>3. CASE /\ lastSent' = note.t /\ mailDays' = mailDays \union {Day(note.t)}
             /\ odd' = IF note.odd THEN odd \union {Day(note.t)} ELSE odd
    <3> SUFFICES ASSUME ~turned PROVE MailInv'
      BY <2>1 DEF MailInv
    <3> DEFINE new == Day(note.t)
    <3>1. /\ lastSent' \in Nat /\ new \in Nat /\ new <= Day(now) /\ lastSent' # Never
          /\ lastSent # Never => Day(lastSent) <= new
          /\ ~note.odd /\ lastSent # Never => new = Day(lastSent) \/ new >= Day(lastSent) + Interval
      BY <1>4, <2>1, <2>3 DEF MailInv, Never
    <3>2. \A d \in mailDays : d \in Int /\ lastSent # Never /\ d <= Day(lastSent)
      BY DEF MailInv, JobTypes
    <3>3. \A d \in mailDays' : d <= new
      BY <1>4, <2>3, <3>1, <3>2
    <3> HIDE DEF new
    <3>4. ASSUME NEW d \in mailDays', NEW e \in mailDays' \ odd', d < e PROVE e - d >= Interval
      <4>1. CASE d \in mailDays /\ e \in mailDays
        <5>1. e \notin odd
          BY <2>3
        <5> QED BY <3>4, <4>1, <5>1 DEF MailInv, NotifySpacing
      <4>2. CASE d = new
        BY <3>1, <3>2, <3>3, <3>4, <4>2
      <4>3. CASE d \in mailDays /\ e = new /\ e \notin mailDays
        <5>1. ~note.odd
          BY <2>3, <3>4, <4>3 DEF new
        <5>2. d \in Int /\ lastSent # Never /\ d <= Day(lastSent)
          BY <3>2, <4>3
        <5>3. Day(lastSent) \in mailDays
          BY <5>2 DEF MailInv
        <5>4. new >= Day(lastSent) + Interval
          BY <3>1, <4>3, <5>1, <5>2, <5>3
        <5> QED BY <1>4, <3>1, <4>3, <5>2, <5>4
      <4> QED BY <2>3, <4>1, <4>2, <4>3 DEF new
    <3> QED BY <2>1, <2>3, <3>1, <3>3, <3>4 DEF MailInv, NotifySpacing, new
  <2> QED BY <1>11, <2>2, <2>3 DEF RecordSent
<1>12. CASE SendNow
  <2>1. UNCHANGED <<lastSent, mailDays, odd, now, turned>> /\ jobs'["notify"] = "queued" /\ note'.odd = TRUE
    BY <1>12 DEF SendNow, Set, JobTypes, Jobs, NoNote, recorded, ghosts, mailing, clock
  <2> QED BY <1>7, <2>1
<1>13. CASE Dies
  <2>1. UNCHANGED <<lastSent, mailDays, odd, now, turned>> /\ jobs'["notify"] # "running"
    BY <1>13 DEF Dies, recorded, mailing, clock, JobTypes, Jobs
  <2>2. jobs'["notify"] # "none" => note' = note /\ jobs["notify"] = jobs'["notify"]
    BY <1>13 DEF Dies, JobTypes, Jobs
  <2>3. turned \/ (jobs'["notify"] # "none" /\ ~note'.odd /\ lastSent # Never =>
                     note'.made = Day(lastSent) \/ note'.made >= Day(lastSent) + Interval)
    BY <2>2 DEF MailInv
  <2>4. CASE turned
    BY <2>1, <2>4 DEF MailInv
  <2> QED BY <1>7, <2>1, <2>3, <2>4
<1> QED BY <1>3, <1>6, <1>8, <1>9, <1>10, <1>11, <1>12, <1>13 DEF ClockNext

LEMMA NotifiesOnSchedule ==
  ASSUME SchedulerAssumption, TickTypes, JobTypes, MailInv
  PROVE  NotifyOnSchedule
<1>1. NotifySpacing
  BY DEF MailInv, NotifySpacing
<1> QED BY <1>1, AnnouncedHolds DEF NotifyOnSchedule

-----------------------------------------------------------------------------
(* The usage limit.                                                          *)

\* A step that leaves the limit, the groups that wait and the analysis alone.
LEMMA LimitLeft ==
  ASSUME TickTypes, JobTypes, LimitInv, UNCHANGED <<limit, waits, agentOn>>, raced => raced',
         jobs'["expand"] = jobs["expand"], jobs'["analyze"] = jobs["analyze"],
         tick'.pc = "clear" => tick.pc = "clear",
         ~raced' => now' \in Int /\ now <= now' /\ (tick'.pc \notin {"off", "idle"} => tick'.t <= now')
  PROVE  LimitInv'
<1> USE DEF LimitInv, WaitersResume, At
<1>1. limit \in Int /\ now \in Int
  BY DEF TickTypes, JobTypes
<1>2. ASSUME ~raced', tick'.pc = "clear" PROVE limit <= now'
  <2>1. ~raced /\ tick.pc = "clear" /\ limit <= now /\ now <= now' /\ now' \in Int
    BY <1>2
  <2> QED BY <1>1, <2>1
<1> QED BY <1>2

LEMMA LimitKept ==
  ASSUME SchedulerAssumption, TickTypes, JobTypes, LimitInv, [ClockNext]_clockVars
  PROVE  LimitInv'
<1> DEFINE rest == UNCHANGED <<limit, waits, agentOn, raced>>
<1>1. /\ now \in Nat /\ now \in Int /\ limit \in Int /\ tick \in Ticks /\ tick.t \in Int /\ Margin \in Nat
      /\ jobs \in [Jobs -> {"none", "queued", "running"}] /\ Never = -1
  BY DEF TickTypes, JobTypes, Ticks, SchedulerAssumption, Never
<1>2. CASE SendNow \/ StartNotify \/ SendMails \/ RecordSent \/ UNCHANGED clockVars
  <2>1. rest /\ UNCHANGED <<now, tick>>
    BY <1>2, JobsLeave DEF SendNow, StartNotify, SendMails, RecordSent, JobStep, TickOnly, JobsOnly,
                           clockVars, memory, recorded, queue, ghosts
  <2>2. jobs'["expand"] = jobs["expand"] /\ jobs'["analyze"] = jobs["analyze"]
    BY <1>1, <1>2 DEF SendNow, StartNotify, SendMails, RecordSent, Set, clockVars, queue, Jobs
  <2> QED BY <1>1, <2>1, <2>2, LimitLeft DEF LimitInv, At
<1>3. CASE StartClock \/ Tick
  <2>1. rest /\ UNCHANGED <<now, jobs>>
    BY <1>3 DEF StartClock, Tick, recorded, queue
  <2>2. tick'.pc # "clear" /\ tick'.t <= now
    <3>1. CASE StartClock
      <4>1. tick'.pc \in {"idle", "record"} /\ tick'.t = Never
        BY <3>1, QueueCleanupGives DEF StartClock
      <4> QED BY <1>1, <4>1
    <3>2. CASE Tick
      <4>1. tick'.pc \in {"probe", "record"} /\ tick'.t = now
        BY <3>2, QueueCleanupGives DEF Tick
      <4> QED BY <1>1, <4>1
    <3> QED BY <1>3, <3>1, <3>2
  <2> QED BY <1>1, <2>1, <2>2, LimitLeft
<1>4. CASE RecordCleanup \/ QueueProbeSend \/ QueueNotify
  <2>1. rest /\ UNCHANGED now /\ tick.pc \notin {"off", "idle", "clear"}
    BY <1>4 DEF RecordCleanup, QueueProbeSend, QueueNotify, recorded, queue, At
  <2>2. jobs'["expand"] = jobs["expand"] /\ jobs'["analyze"] = jobs["analyze"]
    BY <1>1, <1>4 DEF RecordCleanup, QueueProbeSend, QueueNotify, queue, Jobs
  <2>3. tick'.pc # "clear" /\ (tick'.t = tick.t \/ tick'.t = Never)
    BY <1>1, <1>4 DEF RecordCleanup, QueueProbeSend, QueueNotify, TickEnds, NoTick, Ticks, At
  <2>4. ~raced => tick.t <= now
    BY <2>1 DEF LimitInv, At
  <2> QED BY <1>1, <2>1, <2>2, <2>3, <2>4, LimitLeft
<1>5. CASE QueueAnalysis
  <2>1. rest /\ UNCHANGED now /\ tick.pc = "limit" /\ (~raced => tick.t <= now)
        /\ jobs'["analyze"] = jobs["analyze"] /\ (jobs'["expand"] = jobs["expand"] \/ jobs'["expand"] = "queued")
    BY <1>1, <1>5 DEF QueueAnalysis, recorded, ghosts, At, LimitInv, Jobs
  <2>2. tick'.t = Never
    BY <1>5 DEF QueueAnalysis, TickEnds, NoTick
  <2>3. tick'.pc = "clear" => /\ limit # Never /\ limit <= tick.t
                              /\ agentOn => jobs'["expand"] # "none"
    <3>1. tick'.pc = "clear" => limit # Never /\ tick.t >= limit + Margin /\ (agentOn => jobs'["expand"] # "none")
      BY <1>1, <1>5 DEF QueueAnalysis, TickEnds, NoTick, Jobs
    <3> QED BY <1>1, <3>1
  <2>4. WaitersResume'
    BY <2>1 DEF LimitInv, WaitersResume
  <2>5. ~raced /\ tick'.pc = "clear" => limit <= now
    BY <1>1, <2>1, <2>3
  <2> QED BY <1>1, <2>1, <2>2, <2>3, <2>4, <2>5 DEF LimitInv, At
<1>6. CASE ClearLimit
  <2>1. UNCHANGED <<now, agentOn, raced, jobs>> /\ tick.pc = "clear" /\ tick'.pc = "idle" /\ tick'.t = Never
    BY <1>6 DEF ClearLimit, TickEnds, NoTick, ghosts, At
  <2>2. \/ limit' = Never /\ waits' = (waits /\ agentOn)
        \/ UNCHANGED <<limit, waits>>
    BY <1>6 DEF ClearLimit
  <2>3. waits' => waits /\ (agentOn \/ limit' = limit)
    BY <2>2
  <2> QED BY <1>1, <2>1, <2>2, <2>3 DEF LimitInv, WaitersResume, At
<1>7. CASE ExpandAnalysis \/ QueueOther
  <2>1. rest /\ UNCHANGED <<now, tick>>
    BY <1>7, JobsLeave DEF ExpandAnalysis, QueueOther, JobStep, TickOnly, JobsOnly
  <2>2. /\ jobs'["analyze"] # "none" /\ jobs'["expand"] \in {"none", jobs["expand"]}
        /\ jobs'["analyze"] = "running" => jobs["analyze"] = "running"
    BY <1>1, <1>7 DEF ExpandAnalysis, QueueOther, Set, Jobs
  <2> QED BY <2>1, <2>2 DEF LimitInv, WaitersResume, At
<1>8. CASE StartAnalysis
  <2>1. UNCHANGED <<limit, agentOn, raced, now, tick>> /\ jobs'["expand"] = jobs["expand"]
    BY <1>1, <1>8, JobsLeave DEF StartAnalysis, JobStep, TickOnly, JobsOnly, Set, Jobs
  <2>2. \/ limit # Never /\ now < limit /\ jobs'["analyze"] = "none" /\ waits' = waits
        \/ waits' = FALSE
    BY <1>1, <1>8 DEF StartAnalysis, Set, Jobs
  <2> QED BY <1>1, <2>1, <2>2 DEF LimitInv, WaitersResume, At
<1>9. CASE EndAnalysis
  <2>1. UNCHANGED <<agentOn, now, tick>> /\ jobs["analyze"] = "running" /\ jobs'["analyze"] = "none"
        /\ jobs'["expand"] = jobs["expand"]
    BY <1>1, <1>9, JobsLeave DEF EndAnalysis, JobStep, TickOnly, JobsOnly, Set, Jobs
  <2>2. \/ UNCHANGED <<limit, waits, raced>>
        \/ limit' # Never /\ (raced \/ At("clear") => raced')
    <3>1. ASSUME NEW until \in RetryTimes PROVE until # Never
      <4>1. DayLen \in Nat /\ now - 1 \in Int
        BY <1>1 DEF SchedulerAssumption
      <4>2. Largest({DayLen, now - 1}) \in Int /\ Largest({DayLen, now - 1}) >= DayLen
        BY <4>1, OfTwo
      <4> QED BY <1>1, <4>1, <4>2 DEF RetryTimes
    <3> QED BY <1>9, <3>1 DEF EndAnalysis
  <2> QED BY <2>1, <2>2 DEF LimitInv, WaitersResume, At
<1>10. CASE Switch
  <2>1. UNCHANGED <<limit, waits, jobs>>
    BY <1>10 DEF Switch, queue
  <2>2. UNCHANGED <<now, tick>>
    BY <1>10, JobsLeave DEF JobStep, TickOnly
  <2>3. \/ agentOn' = agentOn /\ raced' = raced
        \/ raced \/ At("clear") => raced'
    BY <1>10 DEF Switch
  <2>4. (raced => raced') /\ (agentOn' = agentOn \/ (At("clear") => raced'))
    BY <2>3
  <2> QED BY <2>1, <2>2, <2>4 DEF LimitInv, WaitersResume, At
<1>11. CASE Pass
  <2>1. rest /\ UNCHANGED <<jobs, tick>> /\ now' = now + 1
    BY <1>11 DEF Pass, recorded, queue, memory, ghosts
  <2> QED BY <1>1, <2>1, LimitLeft DEF LimitInv, At
<1>12. CASE SetClock
  <2>1. UNCHANGED <<limit, waits, agentOn, jobs, tick>> /\ (raced \/ ~At("idle") => raced')
    BY <1>12 DEF SetClock, recorded, queue, memory
  <2>2. now' \in Nat
    BY <1>12 DEF SetClock, Moments, SchedulerAssumption
  <2> QED BY <1>1, <2>1, <2>2 DEF LimitInv, WaitersResume, At
<1>13. CASE Dies
  <2>1. UNCHANGED <<limit, waits, agentOn, raced, now>> /\ tick'.pc = "off"
    BY <1>13 DEF Dies, recorded, NoTick
  <2>2. \A k \in {"expand", "analyze"} : jobs'[k] = jobs[k] \/ (jobs[k] = "running" /\ jobs'[k] = "none")
    BY <1>1, <1>13 DEF Dies, Jobs
  <2> QED BY <2>1, <2>2 DEF LimitInv, WaitersResume, At
<1> QED BY <1>2, <1>3, <1>4, <1>5, <1>6, <1>7, <1>8, <1>9, <1>10, <1>11, <1>12, <1>13 DEF ClockNext
-----------------------------------------------------------------------------
(* What holds of the clock of the server.                                    *)

LEMMA ClockStarts ==
  ASSUME SchedulerAssumption, ClockInit
  PROVE  ClockInv
<1> USE DEF ClockInit
<1>1. /\ DayLen \in Nat /\ MaxTime \in Nat /\ Never = -1 /\ tick.pc = "off"
      /\ jobs["notify"] = "none" /\ jobs["expand"] = "none" /\ jobs["analyze"] = "none"
  BY DEF SchedulerAssumption, Never, NoTick
<1>2. NoTick \in Ticks /\ NoNote \in Notes
  BY DEF NoTick, NoNote, Ticks, Notes, TickSteps, Never
<1>3. NeverFired \in [Tables -> [Hours -> Int]] /\ \A k \in Tables : \A h \in Hours : NeverFired[k][h] = Never
  BY <1>1 DEF NeverFired
<1>4. TickTypes
  <2>1. now \in Nat /\ now >= DayLen /\ last \in Int /\ since \in Int /\ cleanupFired \in Int /\ lastRun \in Int
    BY <1>1
  <2>2. fired \in [Tables -> [Hours -> Int]] /\ fires \in [Tables -> SUBSET Nat]
    BY <1>3
  <2>3. tick \in Ticks /\ tick.pc # "record" /\ cleaned \subseteq Int
    BY <1>1, <1>2
  <2>4. rewound \in BOOLEAN /\ turned \in BOOLEAN /\ missed \in BOOLEAN
    OBVIOUS
  <2> QED BY <1>1, <2>1, <2>2, <2>3, <2>4 DEF TickTypes, At
<1>5. JobTypes
  <2>1. lastSent \in Nat \cup {Never} /\ note \in Notes /\ mailDays \subseteq Int
    BY <1>2
  <2>2. limit \in Int
    BY <1>1 DEF Moments
  <2>3. notifyOn \in BOOLEAN /\ agentOn \in BOOLEAN /\ waits \in BOOLEAN /\ raced \in BOOLEAN
    OBVIOUS
  <2>4. jobs \in [Jobs -> {"none", "queued", "running"}]
    BY DEF Jobs
  <2> QED BY <1>1, <2>1, <2>2, <2>3, <2>4 DEF JobTypes
<1>6. FiringInv
  BY <1>1, <1>3 DEF FiringInv, RememberedInv, CoveredInv, TablesLeft, At
<1>7. Day(now) \in Nat
  BY <1>1, DayIs
<1>8. CleanupInv
  BY <1>1, <1>7 DEF CleanupInv, At
<1>9. MailInv
  BY <1>1 DEF MailInv, NotifySpacing
<1>10. LimitInv
  BY <1>1 DEF LimitInv, WaitersResume, At
<1> QED BY <1>4, <1>5, <1>6, <1>8, <1>9, <1>10 DEF ClockInv

LEMMA ClockSteps ==
  ASSUME SchedulerAssumption, ClockInv, [ClockNext]_clockVars
  PROVE  ClockInv'
BY TickTypesKept, JobTypesKept, FiringKept, CleanupKept, MailKept, LimitKept DEF ClockInv

\* Every check time fires once, none is missed and none fires twice, whatever
\* the times of a day, the number of crashes and the way the clock is set
\* (dueCheckTimes, Start).
THEOREM TimesFireOnce == ASSUME SchedulerAssumption PROVE ClockSpec => []TimesFire
<1>1. ClockInv => TimesFire
  BY TimesHaveFired DEF ClockInv
<1> QED BY ClockStarts, ClockSteps, <1>1, PTL DEF ClockSpec

\* The daily cleanup is queued once a day and is caught up
\* (queueCleanupIfDue, CleanupDue).
THEOREM CleanupStaysDaily == ASSUME SchedulerAssumption PROVE ClockSpec => []CleanupDaily
<1>1. ClockInv => CleanupDaily
  BY CleanupIsDaily DEF ClockInv
<1> QED BY ClockStarts, ClockSteps, <1>1, PTL DEF ClockSpec

\* Notification mails keep their distance, and the pages announce the moments
\* that fire (NotifyDue, NextNotifyAt, SendNotification).
THEOREM NoticesKeepSchedule == ASSUME SchedulerAssumption PROVE ClockSpec => []NotifyOnSchedule
<1>1. ClockInv => NotifyOnSchedule
  BY NotifiesOnSchedule DEF ClockInv
<1> QED BY ClockStarts, ClockSteps, <1>1, PTL DEF ClockSpec

\* Groups put off by a usage limit are taken up (queueAnalysisAfterLimit,
\* recordUsageLimit).
THEOREM WaitersAreTakenUp == ASSUME SchedulerAssumption PROVE ClockSpec => []WaitersResume
<1>1. ClockInv => WaitersResume
  BY DEF ClockInv, LimitInv
<1> QED BY ClockStarts, ClockSteps, <1>1, PTL DEF ClockSpec
=============================================================================
