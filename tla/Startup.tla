------------------------------- MODULE Startup -------------------------------
(* How servers and commands come up on one data directory: the server lock   *)
(* (serverlock.go, server.go), the migrations under their own lock           *)
(* (dbschema), the master key (secret.go), the access tokens (tokens.go) and *)
(* the control token (controltoken.go).  Every process may end at any step;  *)
(* what it wrote stays, what it locked is free.                              *)
EXTENDS Naturals, Sequences

CONSTANTS
  Servers, Commands,
  Files, NoFile, Nobody,
  Versions,        \* the number of migrations
  Ids, Default,    \* identifiers of access tokens, and the one named "default"
  NoKey,           \* no master key is stored
  MaxStarts,       \* bound: processes started
  MaxCrashes       \* bound: processes killed

Procs == Servers \cup Commands

ASSUME StartupAssumption ==
  /\ Files \subseteq Nat /\ NoFile \notin Files /\ Nobody \notin Procs
  /\ Versions \in Nat /\ Default \in Ids /\ NoKey \notin Procs
  /\ Servers \cap Commands = {} /\ MaxStarts \in Nat /\ MaxCrashes \in Nat

VARIABLES
  windows,                       \* the platform, see FileLock
  sFile, sOwner, sFd, sPhase,    \* server.lock
  mFile, mOwner, mFd, mPhase,    \* mailcare.db.migrate.lock
  pc,              \* process -> where it is
  todo,            \* process -> the versions it found pending
  applied,         \* the versions recorded, in order
  stored,          \* the master key: the process that generated it
  key,             \* process -> the key it works with
  tokens,          \* identifier -> no such token, or whether it is the default
  mine,            \* process -> the token it creates, whether as the default,
                   \* and where the process goes on
  cut,             \* an operation ended between two of its statements
  control,         \* the process whose control token the file holds: Nobody
                   \* also for one that ended (each start makes a new token)
  crossed,         \* servers that wrote theirs while another, having found its
                   \* own in the file, was about to remove the file
  starts, crashes

Srv == INSTANCE FileLock WITH Checked <- FALSE,
         file <- sFile, owner <- sOwner, fd <- sFd, phase <- sPhase
Mig == INSTANCE FileLock WITH Checked <- TRUE,
         file <- mFile, owner <- mOwner, fd <- mFd, phase <- mPhase

srv == <<sFile, sOwner, sFd, sPhase>>
mig == <<mFile, mOwner, mFd, mPhase>>
locks == <<windows, srv, mig>>
database == <<applied, stored, tokens, cut>>
own == <<todo, key, mine>>
tokenFile == <<control, crossed>>
bounds == <<starts, crashes>>
vars == <<locks, pc, database, own, tokenFile, bounds>>

None == [id |-> Default, default |-> FALSE, then |-> "announce"]
Forgets(p) == todo' = [todo EXCEPT ![p] = {}] /\ key' = [key EXCEPT ![p] = NoKey] /\ mine' = [mine EXCEPT ![p] = None]
Working == {"count", "insert", "promote"}
Places ==
  {"off", "locking", "open", "waiting", "pending", "migrate", "failed", "migrated", "key", "keygen",
   "ensure", "working", "announce", "stopping", "removing", "leaving"} \cup Working

Init ==
  /\ Srv!Init /\ Mig!Init
  /\ pc = [p \in Procs |-> "off"] /\ todo = [p \in Procs |-> {}]
  /\ \E n \in 0..Versions : applied = [i \in 1..n |-> i]
  /\ stored = NoKey /\ key = [p \in Procs |-> NoKey]
  /\ tokens = [i \in Ids |-> "none"] /\ mine = [p \in Procs |-> None] /\ cut = FALSE
  /\ control = Nobody /\ crossed = {} /\ starts = 0 /\ crashes = 0

Goes(p, to) == pc' = [pc EXCEPT ![p] = to]
Done == {applied[i] : i \in DOMAIN applied}
Missing == (1..Versions) \ Done

-----------------------------------------------------------------------------
\* The server lock comes first; a command opens the database at once.
Begin(p) ==
  /\ pc[p] = "off" /\ starts < MaxStarts /\ starts' = starts + 1
  /\ Goes(p, IF p \in Servers THEN "locking" ELSE "open")
  /\ UNCHANGED <<locks, database, own, tokenFile, crashes>>

\* AcquireServerLock never waits.
ServerLock(p) ==
  /\ pc[p] = "locking" /\ Srv!Acquire(p)
  /\ Goes(p, CASE sPhase'[p] = "in" -> "open" [] sPhase'[p] = "out" -> "off" [] OTHER -> "locking")
  /\ UNCHANGED <<mig, database, own, tokenFile, bounds>>

\* Once the database opens it reads only; any error counts as not up to date.
UpToDate(p) ==
  /\ pc[p] = "open"
  /\ \/ Missing = {} /\ Goes(p, "key")
     \/ Goes(p, "waiting")
  /\ UNCHANGED <<locks, database, own, tokenFile, bounds>>

\* acquireLock waits for as long as another process migrates.
MigrationLock(p) ==
  /\ pc[p] = "waiting" /\ Mig!Acquire(p)
  /\ Goes(p, IF mPhase'[p] = "in" THEN "pending" ELSE "waiting")
  /\ UNCHANGED <<srv, database, own, tokenFile, bounds>>

M_Pending(p) ==
  /\ pc[p] = "pending"
  /\ todo' = [todo EXCEPT ![p] = 1..Versions] /\ Goes(p, "migrate")
  /\ UNCHANGED <<locks, database, key, mine, tokenFile, bounds>>

\* The pending migrations are looked up again under the lock.
Pending(p) ==
  /\ pc[p] = "pending"
  /\ todo' = [todo EXCEPT ![p] = Missing] /\ Goes(p, "migrate")
  /\ UNCHANGED <<locks, database, key, mine, tokenFile, bounds>>

\* Each one is a transaction of its own, with its version.
Apply(p) ==
  /\ pc[p] = "migrate" /\ todo[p] # {}
  /\ LET v == CHOOSE v \in todo[p] : \A w \in todo[p] : v <= w IN
       /\ applied' = Append(applied, v) /\ todo' = [todo EXCEPT ![p] = @ \ {v}]
  /\ UNCHANGED <<locks, pc, stored, tokens, cut, key, mine, tokenFile, bounds>>

\* The lock is released whatever the outcome.
ApplyFails(p) ==
  /\ pc[p] = "migrate" /\ todo[p] # {} /\ Goes(p, "failed")
  /\ UNCHANGED <<locks, database, own, tokenFile, bounds>>

Migrated(p) ==
  /\ pc[p] = "migrate" /\ todo[p] = {} /\ Goes(p, "migrated")
  /\ UNCHANGED <<locks, database, own, tokenFile, bounds>>

Ends(p) == Goes(p, IF p \in Servers THEN "leaving" ELSE "off")

MigrationUnlock(p) ==
  /\ pc[p] \in {"failed", "migrated"} /\ Mig!Release(p)
  /\ CASE mPhase'[p] # "out" -> pc' = pc
       [] pc[p] = "migrated" -> Goes(p, "key")
       [] OTHER -> Ends(p)
  /\ UNCHANGED <<srv, database, own, tokenFile, bounds>>

-----------------------------------------------------------------------------
Ready(p) == Goes(p, IF p \in Servers THEN "ensure" ELSE "working")

\* LoadSecretKey: the stored key, ...
ReadKey(p) ==
  /\ pc[p] = "key"
  /\ IF stored # NoKey THEN key' = [key EXCEPT ![p] = stored] /\ Ready(p)
     ELSE key' = key /\ Goes(p, "keygen")
  /\ UNCHANGED <<locks, database, todo, mine, tokenFile, bounds>>

M_StoreKey(p) ==
  /\ pc[p] = "keygen" /\ stored' = p
  /\ key' = [key EXCEPT ![p] = p] /\ Ready(p)
  /\ UNCHANGED <<locks, applied, tokens, cut, todo, mine, tokenFile, bounds>>

\* ... or a fresh one, if nobody else stored one meanwhile, read back.
StoreKey(p) ==
  /\ pc[p] = "keygen" /\ Goes(p, "key")
  /\ stored' = IF stored = NoKey THEN p ELSE stored
  /\ UNCHANGED <<locks, applied, tokens, cut, own, tokenFile, bounds>>

-----------------------------------------------------------------------------
Finished(p) == mine' = [mine EXCEPT ![p] = None]
AnyDefault == \E i \in Ids : tokens[i] = "default"
SetDefault(i) ==
  tokens' = [j \in Ids |-> CASE tokens[j] = "none" -> "none" [] j = i -> "default" [] OTHER -> "plain"]
Creates(p, i, default, then, at) ==
  mine' = [mine EXCEPT ![p] = [id |-> i, default |-> default, then |-> then]] /\ Goes(p, at)

\* With its token a start goes on to the control token, a request ends.
Resumes(p) == Goes(p, mine[p].then) /\ Finished(p)

\* An error ends a start and a command; a server at work goes on.
Fails(p) ==
  /\ Finished(p)
  /\ IF p \in Servers /\ mine[p].then = "working" THEN Goes(p, "working") ELSE Ends(p)

\* Its token was inserted as the default, the others are not cleared yet.
Inserted(p) == pc[p] = "promote" /\ tokens[mine[p].id] = "default"

\* EnsureDefaultToken: the token named "default" is promoted, or made.
EnsureDefaultToken(p) ==
  /\ pc[p] = "ensure"
  /\ CASE AnyDefault -> Goes(p, "announce") /\ mine' = mine
       [] ~AnyDefault /\ tokens[Default] # "none" -> Creates(p, Default, TRUE, "announce", "promote")
       [] OTHER -> Creates(p, Default, TRUE, "announce", "count")
  /\ UNCHANGED <<locks, database, todo, key, tokenFile, bounds>>

\* handleCreateToken, token create.
CreateToken(p) ==
  /\ pc[p] = "working"
  /\ \E i \in Ids : tokens[i] = "none" /\ Creates(p, i, FALSE, "working", "count")
  /\ UNCHANGED <<locks, database, todo, key, tokenFile, bounds>>

\* The first token becomes the default.
CountTokens(p) ==
  /\ pc[p] = "count"
  /\ LET first == \A i \in Ids : tokens[i] = "none" IN
       Creates(p, mine[p].id, mine[p].default \/ first, mine[p].then, "insert")
  /\ UNCHANGED <<locks, database, todo, key, tokenFile, bounds>>

\* Identifiers are unique: the second of two ends with an error.
InsertToken(p) ==
  /\ pc[p] = "insert"
  /\ LET i == mine[p].id d == mine[p].default IN
       \/ /\ tokens[i] = "none"
          /\ tokens' = [tokens EXCEPT ![i] = IF d THEN "default" ELSE "plain"]
          /\ IF d THEN Goes(p, "promote") /\ mine' = mine ELSE Resumes(p)
       \/ tokens[i] # "none" /\ tokens' = tokens /\ Fails(p)
  /\ UNCHANGED <<locks, applied, stored, cut, todo, key, tokenFile, bounds>>

M_SetDefaultToken(p) ==
  /\ pc[p] = "promote" /\ tokens' = [tokens EXCEPT ![mine[p].id] = IF @ = "none" THEN @ ELSE "default"]
  /\ Resumes(p) /\ UNCHANGED <<locks, applied, stored, cut, todo, key, tokenFile, bounds>>

\* One transaction: no token is the default, then this one.
SetDefaultToken(p) ==
  /\ pc[p] = "promote" /\ SetDefault(mine[p].id) /\ Resumes(p)
  /\ UNCHANGED <<locks, applied, stored, cut, todo, key, tokenFile, bounds>>

\* A statement on the key or the tokens fails.  What was inserted stays.
StatementFails(p) ==
  /\ pc[p] \in {"key", "keygen", "ensure"} \cup Working /\ Fails(p)
  /\ cut' = (cut \/ Inserted(p))
  /\ UNCHANGED <<locks, applied, stored, tokens, todo, key, tokenFile, bounds>>

DeleteToken(p) ==
  /\ pc[p] = "working"
  /\ \E i \in Ids : tokens[i] # "none" /\ tokens' = [tokens EXCEPT ![i] = "none"]
  /\ UNCHANGED <<locks, pc, applied, stored, cut, own, tokenFile, bounds>>

-----------------------------------------------------------------------------
\* The control token is written once the server listens (the port may be
\* taken) and renamed over whatever the file held.
WriteControlToken(p) ==
  /\ pc[p] = "announce"
  /\ \/ /\ control' = p /\ Goes(p, "working")
        /\ crossed' = IF \E q \in Procs : pc[q] = "removing" THEN crossed \cup {p} ELSE crossed \ {p}
     \/ UNCHANGED tokenFile /\ Goes(p, "leaving")
  /\ UNCHANGED <<locks, database, own, bounds>>

Quit(p) ==
  /\ pc[p] = "working" /\ Goes(p, IF p \in Servers THEN "stopping" ELSE "off") /\ Forgets(p)
  /\ UNCHANGED <<locks, database, tokenFile, bounds>>

M_RemoveControlToken(p) ==
  /\ pc[p] = "stopping" /\ Goes(p, "removing")
  /\ UNCHANGED <<locks, database, own, tokenFile, bounds>>

\* The deferred calls: the file is read, and if it holds this server's token ...
RemoveControlToken(p) ==
  /\ pc[p] = "stopping" /\ Goes(p, IF control = p THEN "removing" ELSE "leaving")
  /\ UNCHANGED <<locks, database, own, tokenFile, bounds>>

\* ... it is removed, whatever it holds by then, or stays when that fails.
RemoveFile(p) ==
  /\ pc[p] = "removing" /\ Goes(p, "leaving") /\ control' \in {control, Nobody} \ {p}
  /\ UNCHANGED <<locks, database, own, crossed, bounds>>

ServerUnlock(p) ==
  /\ pc[p] = "leaving" /\ Srv!Release(p)
  /\ Goes(p, IF sPhase'[p] = "out" THEN "off" ELSE "leaving")
  /\ UNCHANGED <<mig, database, own, tokenFile, bounds>>

\* The process is killed.
Crash(p) ==
  /\ pc[p] # "off" /\ crashes < MaxCrashes /\ crashes' = crashes + 1 /\ Goes(p, "off")
  /\ IF sPhase[p] # "out" THEN Srv!Die(p) ELSE UNCHANGED <<windows, srv>>
  /\ IF mPhase[p] # "out" THEN Mig!Die(p) ELSE UNCHANGED <<windows, mig>>
  /\ cut' = (cut \/ Inserted(p)) /\ control' = (IF control = p THEN Nobody ELSE control)
  /\ Forgets(p) /\ UNCHANGED <<applied, stored, tokens, crossed, starts>>

\* What a process does by itself once it was started.
Step(p) ==
  \/ ServerLock(p) \/ UpToDate(p) \/ MigrationLock(p) \/ Pending(p) \/ Apply(p)
  \/ ApplyFails(p) \/ Migrated(p) \/ MigrationUnlock(p) \/ ReadKey(p) \/ StoreKey(p)
  \/ EnsureDefaultToken(p) \/ CountTokens(p) \/ InsertToken(p) \/ SetDefaultToken(p)
  \/ StatementFails(p) \/ WriteControlToken(p) \/ RemoveControlToken(p) \/ RemoveFile(p) \/ ServerUnlock(p)

Next ==
  \E p \in Procs : Begin(p) \/ Step(p) \/ CreateToken(p) \/ DeleteToken(p) \/ Quit(p) \/ Crash(p)

Spec == Init /\ [][Next]_vars

-----------------------------------------------------------------------------
TypeOK ==
  /\ Srv!TypeOK /\ Mig!TypeOK
  /\ pc \in [Procs -> Places] /\ todo \in [Procs -> SUBSET (1..Versions)]
  /\ applied \in Seq(1..Versions)
  /\ stored \in Procs \cup {NoKey} /\ key \in [Procs -> Procs \cup {NoKey}]
  /\ tokens \in [Ids -> {"none", "plain", "default"}]
  /\ mine \in [Procs -> [id : Ids, default : BOOLEAN, then : {"announce", "working"}]]
  /\ cut \in BOOLEAN /\ control \in Procs \cup {Nobody} /\ crossed \subseteq Procs
  /\ starts \in 0..MaxStarts /\ crashes \in 0..MaxCrashes

\* Every migration is applied once, in order, however many processes find
\* it pending and whichever of them is killed (dbschema/lock.go).
AppliedOnce == applied = [i \in DOMAIN applied |-> i]

\* All processes work with the one key that is stored (LoadSecretKey).
SameKey == \A p \in Procs : key[p] \in {NoKey, stored}

\* There is one default token, but while one is being made and once that ended,
\* by a kill or an error, between inserting it and clearing the others (CreateToken).
OneDefaultToken ==
  \A i, j \in Ids : tokens[i] = "default" /\ tokens[j] = "default" =>
    i = j \/ cut \/ (\E p \in Procs : pc[p] = "promote" /\ mine[p].id \in {i, j})

Serving(p) == p \in Servers /\ sPhase[p] = "in"

\* A server that serves requests, one of them perhaps making a token.
AtWork(p) == p \in Servers /\ (pc[p] = "working" \/ (pc[p] \in Working /\ mine[p].then = "working"))

\* One server runs in a data directory (AcquireServerLock).
OneServer == \A p, q \in Procs : Serving(p) /\ Serving(q) => p = q

\* The migration lock excludes everywhere (dbschema/lock.go), the server
\* lock where a file somebody has open cannot be removed.
LocksExclude == Mig!Excludes /\ Srv!Excludes

\* A server that serves requests finds its control token in the file until it
\* stops.  Only a second server that runs beside it takes it away: by writing
\* its own, or by removing the file it had looked at before (crossed).
ControlTokenStays ==
  \A p \in Procs : AtWork(p) /\ control = p =>
    \/ control' = p \/ ~AtWork(p)'
    \/ ~OneServer /\ (control' = Nobody => p \in crossed)

\* Where one server at most can run (Windows), it always finds it there.
ControlTokenThere == windows => \A p \in Procs : AtWork(p) => control = p

\* What is written once and used by others stays usable over starts and stops.
TokensKept == [][OneDefaultToken' /\ ControlTokenThere' /\ ControlTokenStays]_vars
=============================================================================
