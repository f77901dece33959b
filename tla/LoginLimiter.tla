---------------------------- MODULE LoginLimiter ----------------------------
(* The throttle of login attempts (auth.go, LoginLimiter, and its use by     *)
(* handleLogin): failures are counted per client and login name; from        *)
(* BeforeLock on, every failure starts a wait twice as long as the one       *)
(* before.  The password is checked without the mutex, so that attempts      *)
(* admitted before a wait began may still fail or succeed during it.         *)
(* MCAccounts extends this module beside Accounts, hence LimiterSpec.        *)
EXTENDS Naturals

CONSTANTS
  Keys,            \* pairs of a client address and a login name
  BeforeLock,      \* LoginFailuresBeforeLock
  Initial,         \* LoginLockInitial
  LockMax,         \* LoginLockMax
  TTL,             \* loginRecordTTL
  PruneEvery,      \* loginRecordsPruneEvery
  MaxTime,         \* bound on the clock
  MaxParallel      \* bound on the attempts of a pair whose password is being checked

ASSUME LimiterAssumption ==
  /\ BeforeLock \in Nat \ {0} /\ Initial \in Nat \ {0} /\ LockMax \in Nat /\ TTL \in Nat
  /\ PruneEvery \in Nat \ {0} /\ MaxTime \in Nat /\ MaxParallel \in Nat
  /\ Initial <= LockMax /\ LockMax < TTL

VARIABLES
  now,             \* the clock of the limiter
  records,         \* the record of every pair; NoRecord when it has none
  ops,             \* failures since the records were pruned last
  checking         \* attempts that were admitted and are not answered yet

limiterVars == <<now, records, ops, checking>>

NoRecord == [failures |-> 0, lock |-> 0, until |-> 0, seen |-> 0]

LimiterInit ==
  /\ now = 1 /\ records = [k \in Keys |-> NoRecord] /\ ops = 0
  /\ checking = [k \in Keys |-> 0]

Blocked(k) == records[k].until > now

\* What is dropped although its wait goes on: the time to live counted from
\* a moment too late.
M_Pruned(recs) == [k \in Keys |-> IF recs[k].seen + Initial <= now THEN NoRecord ELSE recs[k]]

\* pruneLocked, when it is its turn.
Pruned(recs) == [k \in Keys |-> IF recs[k].seen + TTL < now THEN NoRecord ELSE recs[k]]

NextLock(lock) ==
  IF lock = 0 THEN Initial ELSE IF lock * 2 > LockMax THEN LockMax ELSE lock * 2

\* A record after one more failure.
Failed(rec) ==
  LET n == rec.failures + 1
      l == IF n < BeforeLock THEN rec.lock ELSE NextLock(rec.lock)
  IN [failures |-> n, lock |-> l, seen |-> now,
      until |-> IF n < BeforeLock THEN 0 ELSE now + l]

-----------------------------------------------------------------------------
\* handleLogin admits an attempt: no wait is in force.
Admit(k) ==
  /\ ~Blocked(k) /\ checking[k] < MaxParallel
  /\ checking' = [checking EXCEPT ![k] = @ + 1]
  /\ UNCHANGED <<now, records, ops>>

\* The password was wrong: Fail.
Fail(k) ==
  /\ checking[k] > 0
  /\ ops' = (ops + 1) % PruneEvery
  /\ LET recs == IF ops' = 0 THEN Pruned(records) ELSE records
     IN records' = [recs EXCEPT ![k] = Failed(recs[k])]
  /\ checking' = [checking EXCEPT ![k] = @ - 1]
  /\ UNCHANGED now

\* The password was right: Reset.
Succeed(k) ==
  /\ checking[k] > 0
  /\ records' = [records EXCEPT ![k] = NoRecord]
  /\ checking' = [checking EXCEPT ![k] = @ - 1]
  /\ UNCHANGED <<now, ops>>

\* The client went away or the database failed: nothing is counted.
Abandon(k) ==
  /\ checking[k] > 0
  /\ checking' = [checking EXCEPT ![k] = @ - 1]
  /\ UNCHANGED <<now, records, ops>>

Pass == now < MaxTime /\ now' = now + 1 /\ UNCHANGED <<records, ops, checking>>

LimiterNext == Pass \/ \E k \in Keys : Admit(k) \/ Fail(k) \/ Succeed(k) \/ Abandon(k)

LimiterSpec == LimiterInit /\ [][LimiterNext]_limiterVars

-----------------------------------------------------------------------------
\* Every record and counter has its type.
LimiterTypeOK ==
  /\ now \in Nat /\ ops \in 0 .. PruneEvery - 1 /\ checking \in [Keys -> Nat]
  /\ records \in [Keys -> [failures : Nat, lock : Nat, until : Nat, seen : Nat]]

\* A wait in force ends before its time only when a login of the pair
\* succeeds: no failure that comes late, of whatever pair, shortens it, and
\* pruning never drops it.
WaitKept ==
  [][\A k \in Keys : Blocked(k) =>
       records'[k].until >= records[k].until \/ Succeed(k)]_limiterVars
=============================================================================
