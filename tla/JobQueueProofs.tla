--------------------------- MODULE JobQueueProofs ---------------------------
(***************************************************************************)
(* Proofs about the job queue, for any number of mailboxes, jobs, workers  *)
(* and command line processes (for none where a theorem says CLIs = {}):   *)
(* the types, the lock table (IInv), who works on what (Tenure), and that  *)
(* the queue implements SerialQueue.                                       *)
(***************************************************************************)
EXTENDS JobQueue, TLAPS

-----------------------------------------------------------------------------
(* Lemmas about the helpers of the model.                                  *)

\* A mailbox row yields resource keys (jobResourceKeys).
LEMMA MailboxKeysType ==
  ASSUME NEW kind, NEW b \in Boxes
  PROVE  MailboxJobKeys(kind, b) \subseteq Keys
<1>1. b.addr \in Addrs /\ b.host \in Hosts
  BY DEF Boxes
<1>2. /\ <<"mailbox", b.addr>> \in Keys
      /\ <<"analyze", b.addr>> \in Keys
      /\ <<"host", b.host>> \in Keys
      /\ <<"agent", "one">> \in Keys
  BY <1>1 DEF Keys
<1> QED
  BY <1>2 DEF MailboxJobKeys

\* What a claim computes is a set of resource keys (resourceKeys).
LEMMA ResourceKeysType ==
  ASSUME TypeOK, NEW j \in JobIds
  PROVE  ResourceKeys(j) \subseteq Keys
<1>1. ProbeHost \in Hosts
  BY DataAssumption DEF DataAssumption
<1>2. {<<"notify", "one">>} \subseteq Keys /\ {<<"probe", "one">>} \subseteq Keys
  BY DEF Keys
<1>3. {<<"probe", "one">>, <<"host", ProbeHost>>} \subseteq Keys
  BY <1>1 DEF Keys
<1>4. ASSUME Live(row[j].mb)
      PROVE  MailboxJobKeys(row[j].kind, mbox[row[j].mb]) \subseteq Keys
  <2>1. row[j].mb \in Mailboxes
    BY <1>4 DEF TypeOK, Rows, Live
  <2>2. mbox[row[j].mb] \in Boxes
    BY <2>1 DEF TypeOK
  <2> QED
    BY <2>2, MailboxKeysType
<1> QED
  BY <1>2, <1>3, <1>4 DEF ResourceKeys

\* What EnqueueJob stores is a request again.
LEMMA StoredType ==
  ASSUME NEW a \in Asks
  PROVE  Stored(a) \in Asks
BY DEF Stored, Asks, Targets

\* The child of a job is a request.
LEMMA ChildAskType ==
  ASSUME TypeOK, NEW j \in JobIds, NEW m \in Mailboxes
  PROVE  ChildAsk(j, m) \in Asks
<1>1. row[j].kind \in Kinds /\ row[j].tgt \in Targets
  BY DEF TypeOK, Rows
<1>2. [kind |-> IF Expansion(j) THEN row[j].kind ELSE "analyze", mb |-> m,
       tgt |-> IF Expansion(j) THEN row[j].tgt ELSE "none"] \in Asks
  BY <1>1 DEF Asks, Kinds, Targets
<1> QED
  BY <1>2, StoredType DEF ChildAsk

-----------------------------------------------------------------------------
(* The type invariant.                                                     *)

\* The first state has the types of TypeOK.
LEMMA InitType == Init => TypeOK
<1> SUFFICES ASSUME Init PROVE TypeOK
  OBVIOUS
<1>1. NoRow \in Rows
  BY BoundsAssumption DEF BoundsAssumption, NoRow, Rows, Statuses, Kinds, Targets
<1>2. row \in [JobIds -> Rows] /\ mbox \in [Mailboxes -> Boxes]
  BY <1>1, DataAssumption DEF DataAssumption, Init
<1>3. NoLocks \in [Keys -> 0 .. MaxJobs]
  BY BoundsAssumption DEF BoundsAssumption, NoLocks
<1>4. locks \in [Procs -> [Keys -> 0 .. MaxJobs]] /\ pick \in [Procs -> 0 .. MaxJobs]
  BY <1>3, BoundsAssumption DEF BoundsAssumption, Init
<1>5. NoCall \in Calls
  BY DEF Calls
<1>6. workers \in 1 .. MaxWorkers
  BY BoundsAssumption DEF BoundsAssumption, Init
<1>7. crashes \in 0 .. MaxCrashes /\ edits \in 0 .. MaxEdits /\ errors \in 0 .. MaxErrors
  BY BoundsAssumption DEF BoundsAssumption, Init
<1> QED
  BY <1>2, <1>4, <1>5, <1>6, <1>7 DEF Init, TypeOK, Phases

\* The candidate of a claim attempt and the id a CLI inserted are job ids.
PickNamed ==
  \A p \in Procs : pc[p] \in {"claim", "byid"} => pick[p] \in JobIds

\* Writing a status keeps a row of the jobs table a row.
LEMMA RowStatusType ==
  ASSUME TypeOK, NEW j \in JobIds, NEW st \in Statuses
  PROVE  [row EXCEPT ![j].st = st] \in [JobIds -> Rows]
<1>1. row \in [JobIds -> Rows] /\ row[j] \in Rows
  BY DEF TypeOK
<1>2. [row[j] EXCEPT !.st = st] \in Rows
  BY <1>1 DEF Rows
<1>3. [row EXCEPT ![j] = [row[j] EXCEPT !.st = st]] \in [JobIds -> Rows]
  BY <1>1, <1>2
<1> QED
  BY <1>3

\* The UPDATE that starts a job, with the lock table (ClaimJobByID, acquireLocks).
LEMMA StartJobType ==
  ASSUME TypeOK, NEW p \in Procs, NEW j \in JobIds, NEW K \in SUBSET Keys, StartJob(p, j, K)
  PROVE  /\ row' \in [JobIds -> Rows] /\ phase' \in [JobIds -> Phases]
         /\ owner' \in [JobIds -> Procs \cup {Nobody}] /\ need' \in [JobIds -> SUBSET Keys]
         /\ locks' \in [Procs -> [Keys -> 0 .. MaxJobs]]
         /\ pc' \in [Procs -> {"off", "check", "wait", "scan", "claim", "insert", "byid", "exec"}]
<1>1. row' \in [JobIds -> Rows]
  <2>1. row' = [row EXCEPT ![j].st = "running"] /\ "running" \in Statuses
    BY DEF StartJob, Statuses
  <2> QED
    BY <2>1, RowStatusType
<1>2. phase' \in [JobIds -> Phases] /\ owner' \in [JobIds -> Procs \cup {Nobody}]
  BY DEF TypeOK, StartJob, Phases
<1>3. need' \in [JobIds -> SUBSET Keys]
  BY DEF TypeOK, StartJob
<1>4. j \in 0 .. MaxJobs
  BY BoundsAssumption DEF BoundsAssumption, JobIds
<1>5. locks' \in [Procs -> [Keys -> 0 .. MaxJobs]]
  BY <1>4 DEF TypeOK, StartJob, AcquireLocks
<1>6. pc' \in [Procs -> {"off", "check", "wait", "scan", "claim", "insert", "byid", "exec"}]
  BY DEF TypeOK, StartJob
<1> QED
  BY <1>1, <1>2, <1>3, <1>5, <1>6

\* The release of the locks of a job (releaseLocks).
LEMMA ReleaseLocksType ==
  ASSUME TypeOK, NEW p \in Procs, NEW j \in JobIds, ReleaseLocks(p, j)
  PROVE  /\ locks' \in [Procs -> [Keys -> 0 .. MaxJobs]]
         /\ need' \in [JobIds -> SUBSET Keys]
<1>1. 0 \in 0 .. MaxJobs
  BY BoundsAssumption DEF BoundsAssumption
<1> QED
  BY <1>1 DEF TypeOK, ReleaseLocks

\* The death of a process.
LEMMA DiesType ==
  ASSUME TypeOK, NEW p \in Procs, Dies(p), UNCHANGED wake, crashes' \in 0 .. MaxCrashes
  PROVE  TypeOK'
<1>1. 0 \in 0 .. MaxJobs
  BY BoundsAssumption DEF BoundsAssumption
<1>2. NoLocks \in [Keys -> 0 .. MaxJobs]
  BY <1>1 DEF NoLocks
<1>3. NoCall \in Calls
  BY DEF Calls
<1>4. /\ ctl' \in [Procs -> {"down", "up", "stopping"}]
      /\ pc' \in [Procs -> {"off", "check", "wait", "scan", "claim", "insert", "byid", "exec"}]
      /\ cand' \in [Procs -> SUBSET JobIds]
      /\ pick' \in [Procs -> 0 .. MaxJobs] /\ keysOf' \in [Procs -> SUBSET Keys]
      /\ locks' \in [Procs -> [Keys -> 0 .. MaxJobs]]
  BY <1>1, <1>2 DEF TypeOK, Dies, Unpick
<1>5. /\ phase' \in [JobIds -> Phases] /\ owner' \in [JobIds -> Procs \cup {Nobody}]
      /\ need' \in [JobIds -> SUBSET Keys] /\ todo' \in [JobIds -> SUBSET Mailboxes]
  BY DEF TypeOK, Dies, Phases
<1>6. call' \in [Callers -> Calls]
  BY <1>3 DEF TypeOK, Dies
<1>7. unwritten' \subseteq JobIds
  BY DEF TypeOK, Dies
<1> QED
  BY <1>4, <1>5, <1>6, <1>7 DEF TypeOK, Dies, table

\* A claim attempt that fails (ClaimNextRunnableJob, ClaimJobByID): at most its
\* row is left running, and it looks at no further one.
LEMMA ClaimFailsStep ==
  ASSUME TypeOK, PickNamed, NEW p \in Procs, ClaimFails(p)
  PROVE  /\ pc[p] \in {"scan", "claim", "byid"} /\ pc'[p] = "scan" /\ cand'[p] = {}
         /\ \A q \in Procs : q # p => /\ pc'[q] = pc[q] /\ cand'[q] = cand[q]
                                     /\ pick'[q] = pick[q] /\ keysOf'[q] = keysOf[q]
         /\ UNCHANGED <<mbox, ctl, locks, wake, workers, phase, owner, need, todo, call,
                       renaming, crashes, edits>>
         /\ row' \in [JobIds -> Rows]
         /\ \A i \in JobIds :
              \/ row'[i] = row[i]
              \/ row[i].st = "queued" /\ row'[i] = [row[i] EXCEPT !.st = "running"]
                   /\ i \in unwritten'
         /\ unwritten \subseteq unwritten' /\ unwritten' \subseteq JobIds
         /\ errors' \in 0 .. MaxErrors
<1>1. pc[p] \in {"scan", "claim", "byid"}
  BY DEF ClaimFails
<1>2. pc'[p] = "scan" /\ cand'[p] = {}
  BY DEF TypeOK, ClaimFails
<1>3. \A q \in Procs : q # p => /\ pc'[q] = pc[q] /\ cand'[q] = cand[q]
                                /\ pick'[q] = pick[q] /\ keysOf'[q] = keysOf[q]
  BY DEF TypeOK, ClaimFails, Unpick
<1>4. UNCHANGED <<mbox, ctl, locks, wake, workers, phase, owner, need, todo, call,
                  renaming, crashes, edits>>
  BY DEF ClaimFails, job
<1>5. errors' \in 0 .. MaxErrors
  BY BoundsAssumption DEF BoundsAssumption, TypeOK, ClaimFails
<1>6. row \in [JobIds -> Rows] /\ unwritten \subseteq JobIds
  BY DEF TypeOK
<1>7. CASE UNCHANGED <<row, unwritten>>
  BY <1>1, <1>2, <1>3, <1>4, <1>5, <1>6, <1>7
<1>8. CASE /\ pc[p] \in {"claim", "byid"} /\ StillQueued(pick[p])
           /\ row' = [row EXCEPT ![pick[p]].st = "running"]
           /\ unwritten' = unwritten \cup {pick[p]}
  <2>1. pick[p] \in JobIds /\ row[pick[p]].st = "queued"
    BY <1>8 DEF PickNamed, StillQueued
  <2>2. row' \in [JobIds -> Rows]
    BY <1>8, <2>1, RowStatusType DEF Statuses
  <2>a. row' = [row EXCEPT ![pick[p]] = [row[pick[p]] EXCEPT !.st = "running"]]
    BY <1>8
  <2>b. row'[pick[p]] = [row[pick[p]] EXCEPT !.st = "running"]
    BY <1>6, <2>1, <2>a
  <2>c. \A i \in JobIds : i # pick[p] => row'[i] = row[i]
    BY <1>6, <2>1, <2>a
  <2>3. ASSUME NEW i \in JobIds
        PROVE  \/ row'[i] = row[i]
               \/ i = pick[p] /\ row'[i] = [row[i] EXCEPT !.st = "running"]
    BY <2>b, <2>c
  <2> QED
    BY <1>1, <1>2, <1>3, <1>4, <1>5, <1>6, <1>8, <2>1, <2>2, <2>3
<1> QED
  BY <1>7, <1>8 DEF ClaimFails

\* The steps of the dispatcher and of a claim attempt keep the types.
LEMMA DispatchingType == TypeOK /\ PickNamed /\ Dispatching => TypeOK'
<1> SUFFICES ASSUME TypeOK, PickNamed, Dispatching PROVE TypeOK'
  OBVIOUS
<1>0. Server \in Procs /\ 0 \in 0 .. MaxJobs
  BY BoundsAssumption DEF BoundsAssumption, Procs
<1>1. CASE Dispatch
  BY <1>0, <1>1 DEF TypeOK, Dispatch, Queued, table, job
<1>2. CASE NoFreeWorker
  BY <1>0, <1>2 DEF TypeOK, NoFreeWorker, table, job
<1>3. CASE NothingRunnable
  BY <1>0, <1>3 DEF TypeOK, NothingRunnable, table, job
<1>4. CASE Wakeup
  BY <1>0, <1>4 DEF TypeOK, Wakeup, table, job
<1>5. CASE Tick
  BY <1>0, <1>5 DEF TypeOK, Tick, table, job
<1>6. ASSUME NEW p \in Procs, Scan(p) PROVE TypeOK'
  <2> PICK j \in Oldest(cand[p]) :
       /\ cand' = [cand EXCEPT ![p] = @ \ {j}]
       /\ IF CanRun(p, j)
            THEN /\ pc'     = [pc EXCEPT ![p] = "claim"]
                 /\ pick'   = [pick EXCEPT ![p] = j]
                 /\ keysOf' = [keysOf EXCEPT ![p] = ResourceKeys(j)]
            ELSE UNCHANGED <<pc, pick, keysOf>>
    BY <1>6 DEF Scan
  <2>1. j \in JobIds
    BY DEF TypeOK, Oldest
  <2>2. j \in 0 .. MaxJobs
    BY <2>1, BoundsAssumption DEF BoundsAssumption, JobIds
  <2>3. ResourceKeys(j) \subseteq Keys
    BY <2>1, ResourceKeysType
  <2>4. /\ cand' \in [Procs -> SUBSET JobIds] /\ pick' \in [Procs -> 0 .. MaxJobs]
        /\ keysOf' \in [Procs -> SUBSET Keys]
        /\ pc' \in [Procs -> {"off", "check", "wait", "scan", "claim", "insert", "byid", "exec"}]
    BY ZenonT(60), <2>2, <2>3 DEF TypeOK
  <2> QED
    BY <1>6, <2>4 DEF TypeOK, Scan, table, job
<1>7. ASSUME NEW p \in Procs, Claim(p) PROVE TypeOK'
  <2>1. pick[p] \in JobIds /\ keysOf[p] \in SUBSET Keys /\ StartJob(p, pick[p], keysOf[p])
    BY <1>7 DEF TypeOK, PickNamed, Claim
  <2>2. /\ cand' \in [Procs -> SUBSET JobIds] /\ pick' \in [Procs -> 0 .. MaxJobs]
        /\ keysOf' \in [Procs -> SUBSET Keys]
    BY <1>0, <1>7 DEF TypeOK, Claim, Unpick
  <2> QED
    BY <1>7, <2>1, <2>2, StartJobType DEF TypeOK, Claim
<1>8. ASSUME NEW p \in Procs, ClaimLost(p) PROVE TypeOK'
  BY <1>0, <1>8 DEF TypeOK, ClaimLost, Unpick, table, job
<1>9. ASSUME NEW p \in Procs, ClaimFails(p) PROVE TypeOK'
  <2>1. /\ pc' \in [Procs -> {"off", "check", "wait", "scan", "claim", "insert", "byid", "exec"}]
        /\ cand' \in [Procs -> SUBSET JobIds] /\ pick' \in [Procs -> 0 .. MaxJobs]
        /\ keysOf' \in [Procs -> SUBSET Keys]
    BY <1>0, <1>9 DEF TypeOK, ClaimFails, Unpick
  <2>2. /\ UNCHANGED <<mbox, ctl, locks, wake, workers, phase, owner, need, todo, call,
                      renaming, crashes, edits>>
        /\ row' \in [JobIds -> Rows] /\ unwritten' \subseteq JobIds /\ errors' \in 0 .. MaxErrors
    BY <1>9, ClaimFailsStep
  <2> QED
    BY <2>1, <2>2 DEF TypeOK
<1> QED
  BY <1>1, <1>2, <1>3, <1>4, <1>5, <1>6, <1>7, <1>8, <1>9 DEF Dispatching

\* Writing the outcome of a job (FinishJob).
LEMMA FinishType ==
  ASSUME TypeOK, NEW j \in JobIds, NEW st \in Statuses, Finish(j, st)
  PROVE  TypeOK'
<1>1. row' \in [JobIds -> Rows]
  BY RowStatusType DEF Finish
<1>2. phase' \in [JobIds -> Phases] /\ todo' \in [JobIds -> SUBSET Mailboxes]
  BY DEF TypeOK, Finish, Phases
<1> QED
  BY <1>1, <1>2 DEF TypeOK, Finish, claim

\* The end of a call to EnqueueJob.
LEMMA EndCallType ==
  ASSUME TypeOK, NEW x \in Callers, EndCall(x)
  PROVE  call' \in [Callers -> Calls] /\ todo' \in [JobIds -> SUBSET Mailboxes]
<1>1. NoCall \in Calls
  BY DEF Calls
<1>2. call' \in [Callers -> Calls]
  BY <1>1 DEF TypeOK, EndCall
<1>3. todo' \in [JobIds -> SUBSET Mailboxes]
  BY DEF TypeOK, EndCall, Settled
<1> QED
  BY <1>2, <1>3

\* A call past its checks holds a request.
LEMMA CallType ==
  ASSUME TypeOK, NEW x \in Callers, call[x] # NoCall
  PROVE  /\ call[x] \in [ask : Asks, step : {"insert", "wake"}]
         /\ call[x].ask \in Asks
BY DEF TypeOK, Calls

\* The steps of a job's goroutine keep the types.
LEMMA ExecutingType == TypeOK /\ Executing => TypeOK'
<1> SUFFICES ASSUME TypeOK, NEW j \in JobIds,
                    \/ WorkDone(j) \/ WorkFails(j) \/ EnqueueChild(j) \/ FinishJob(j)
                    \/ FinishLost(j) \/ ReleaseJob(j) \/ WorkerFree(j)
                    \/ NotifyDispatcher(j) \/ CLIRelease(j)
             PROVE  TypeOK'
  BY DEF Executing
<1>0. "error" \in Statuses /\ "done" \in Statuses /\ Server \in Procs
  BY DEF Statuses, Procs
<1>1. CASE WorkDone(j)
  <2>1. phase' \in [JobIds -> Phases]
    BY <1>1 DEF TypeOK, WorkDone, Phases
  <2>2. todo' \in [JobIds -> SUBSET Mailboxes]
    <3>1. CASE Expansion(j)
      BY <1>1, <3>1 DEF TypeOK, WorkDone, ExpansionTargets
    <3>2. CASE ~Expansion(j)
      <4>1. PICK T \in {{}, IF row[j].kind \in FollowedUp THEN {row[j].mb} ELSE {}} :
               todo' = [todo EXCEPT ![j] = T]
        BY <1>1, <3>2 DEF WorkDone
      <4>2. row[j].mb \in Mailboxes \/ row[j].kind \notin FollowedUp
        BY <3>2 DEF TypeOK, Rows, Expansion, FollowedUp, Mailboxless
      <4>3. T \subseteq Mailboxes
        BY <4>2
      <4> QED
        BY <4>1, <4>3 DEF TypeOK
    <3> QED
      BY <3>1, <3>2
  <2> QED
    BY <1>1, <2>1, <2>2 DEF TypeOK, WorkDone, table, claim
<1>2. CASE WorkFails(j)
  BY <1>0, <1>2, FinishType DEF WorkFails
<1>3. CASE EnqueueChild(j)
  <2>1. PICK m \in todo[j] :
          IF PassesChecks(ChildAsk(j, m))
            THEN /\ call' = [call EXCEPT ![j] = [ask |-> ChildAsk(j, m), step |-> "insert"]]
                 /\ UNCHANGED todo
            ELSE Settled(j, m) /\ UNCHANGED call
    BY <1>3 DEF EnqueueChild
  <2>2. m \in Mailboxes
    BY DEF TypeOK
  <2>3. [ask |-> ChildAsk(j, m), step |-> "insert"] \in Calls
    BY <2>2, ChildAskType DEF Calls
  <2>4. call' \in [Callers -> Calls] /\ todo' \in [JobIds -> SUBSET Mailboxes]
    BY ZenonT(60), <2>1, <2>3 DEF TypeOK, Settled
  <2> QED
    BY <1>3, <2>4 DEF TypeOK, EnqueueChild, table, claim
<1>4. CASE FinishJob(j)
  BY <1>0, <1>4, FinishType DEF FinishJob
<1>5. CASE FinishLost(j)
  <2>1. errors' \in 0 .. MaxErrors
    BY <1>5, BoundsAssumption DEF BoundsAssumption, TypeOK, FinishLost
  <2>2. phase' \in [JobIds -> Phases] /\ todo' \in [JobIds -> SUBSET Mailboxes]
    BY <1>5 DEF TypeOK, FinishLost, Phases
  <2>3. unwritten' \subseteq JobIds
    BY <1>5 DEF TypeOK, FinishLost
  <2> QED
    BY <1>5, <2>1, <2>2, <2>3 DEF TypeOK, FinishLost, table, claim
<1>6. CASE ReleaseJob(j)
  <2>1. phase' \in [JobIds -> Phases]
    BY <1>6 DEF TypeOK, ReleaseJob, Phases
  <2>2. locks' \in [Procs -> [Keys -> 0 .. MaxJobs]] /\ need' \in [JobIds -> SUBSET Keys]
    BY <1>0, <1>6, ReleaseLocksType DEF ReleaseJob
  <2> QED
    BY <1>6, <2>1, <2>2 DEF TypeOK, ReleaseJob, table, claim
<1>7. CASE WorkerFree(j)
  <2>1. phase' \in [JobIds -> Phases]
    BY <1>7 DEF TypeOK, WorkerFree, Phases
  <2> QED
    BY <1>7, <2>1 DEF TypeOK, WorkerFree, table, claim
<1>8. CASE NotifyDispatcher(j)
  <2>1. phase' \in [JobIds -> Phases] /\ owner' \in [JobIds -> Procs \cup {Nobody}]
    BY <1>8 DEF TypeOK, NotifyDispatcher, Phases
  <2>2. wake' \in BOOLEAN
    BY <1>8 DEF NotifyDispatcher, Notify
  <2> QED
    BY <1>8, <2>1, <2>2 DEF TypeOK, NotifyDispatcher, table, claim
<1>9. CASE CLIRelease(j)
  <2>1. owner[j] \in Procs
    BY <1>9 DEF CLIRelease, Procs
  <2>2. phase' \in [JobIds -> Phases]
    BY <1>9 DEF TypeOK, CLIRelease, Phases
  <2>3. locks' \in [Procs -> [Keys -> 0 .. MaxJobs]] /\ need' \in [JobIds -> SUBSET Keys]
    BY <1>9, <2>1, ReleaseLocksType DEF CLIRelease
  <2>4. pc' \in [Procs -> {"off", "check", "wait", "scan", "claim", "insert", "byid", "exec"}]
    BY <1>9, <2>1 DEF TypeOK, CLIRelease
  <2> QED
    BY <1>9, <2>2, <2>3, <2>4 DEF TypeOK, CLIRelease, table
<1> QED
  BY <1>1, <1>2, <1>3, <1>4, <1>5, <1>6, <1>7, <1>8, <1>9

\* The steps of EnqueueJob and CancelQueuedJob keep the types.
LEMMA CallingType == TypeOK /\ Calling => TypeOK'
<1> SUFFICES ASSUME TypeOK, Calling PROVE TypeOK'
  OBVIOUS
<1>1. ASSUME NEW c \in Clients, NEW r \in Requests, BeginEnqueue(c, r) PROVE TypeOK'
  <2>1. Stored(r) \in Asks
    BY StoredType, DataAssumption DEF DataAssumption
  <2>2. [ask |-> Stored(r), step |-> "insert"] \in Calls
    BY <2>1 DEF Calls
  <2>3. call' \in [Callers -> Calls]
    BY <1>1, <2>2 DEF TypeOK, BeginEnqueue
  <2> QED
    BY <1>1, <2>3 DEF TypeOK, BeginEnqueue, table, claim, job
<1>2. ASSUME NEW x \in Callers, InsertRow(x) PROVE TypeOK'
  <2>1. PICK id \in Oldest(Unused) :
          /\ row' = [row EXCEPT ![id] =
                       [st |-> "queued", kind |-> call[x].ask.kind, mb |-> call[x].ask.mb,
                        tgt |-> call[x].ask.tgt, par |-> ParentOf(x)]]
          /\ IF x \in CLIs
               THEN /\ pc'   = [pc EXCEPT ![x] = "byid"]
                    /\ pick' = [pick EXCEPT ![x] = id]
               ELSE UNCHANGED <<pc, pick>>
    BY <1>2 DEF InsertRow
  <2>2. id \in JobIds /\ id \in 0 .. MaxJobs
    BY BoundsAssumption DEF BoundsAssumption, Oldest, Unused, JobIds
  <2>3. call[x] \in [ask : Asks, step : {"insert", "wake"}] /\ call[x].ask \in Asks
    BY <1>2, CallType DEF InsertRow
  <2>4. ParentOf(x) \in 0 .. MaxJobs
    BY BoundsAssumption DEF BoundsAssumption, ParentOf, JobIds
  <2>5. [st |-> "queued", kind |-> call[x].ask.kind, mb |-> call[x].ask.mb,
         tgt |-> call[x].ask.tgt, par |-> ParentOf(x)] \in Rows
    BY <2>3, <2>4 DEF Rows, Statuses, Asks
  <2>6. row' \in [JobIds -> Rows]
    BY <2>1, <2>2, <2>5 DEF TypeOK
  <2>7. /\ pc' \in [Procs -> {"off", "check", "wait", "scan", "claim", "insert", "byid", "exec"}]
        /\ pick' \in [Procs -> 0 .. MaxJobs]
    BY <2>1, <2>2 DEF TypeOK, Procs
  <2>8. call' \in [Callers -> Calls] /\ todo' \in [JobIds -> SUBSET Mailboxes]
    <3>1. CASE HostOf(x) = Server
      <4>1. [call[x] EXCEPT !.step = "wake"] \in Calls
        BY <2>3 DEF Calls
      <4>2. call' = [call EXCEPT ![x] = [call[x] EXCEPT !.step = "wake"]] /\ UNCHANGED todo
        BY <1>2, <3>1 DEF InsertRow
      <4> QED
        BY <4>1, <4>2 DEF TypeOK
    <3>2. CASE HostOf(x) # Server
      BY <1>2, <3>2, EndCallType DEF InsertRow
    <3> QED
      BY <3>1, <3>2
  <2> QED
    BY <1>2, <2>6, <2>7, <2>8 DEF TypeOK, InsertRow
<1>3. ASSUME NEW x \in Callers, InsertFails(x) PROVE TypeOK'
  <2>1. call' \in [Callers -> Calls] /\ todo' \in [JobIds -> SUBSET Mailboxes]
    BY <1>3, EndCallType DEF InsertFails
  <2>2. /\ pc' \in [Procs -> {"off", "check", "wait", "scan", "claim", "insert", "byid", "exec"}]
        /\ ctl' \in [Procs -> {"down", "up", "stopping"}]
    BY <1>3 DEF TypeOK, InsertFails, Procs
  <2> QED
    BY <1>3, <2>1, <2>2 DEF TypeOK, InsertFails, table
<1>4. ASSUME NEW x \in Callers, SendWake(x) PROVE TypeOK'
  <2>1. call' \in [Callers -> Calls] /\ todo' \in [JobIds -> SUBSET Mailboxes]
    BY <1>4, EndCallType DEF SendWake
  <2>2. wake' \in BOOLEAN
    BY <1>4 DEF SendWake, Notify
  <2> QED
    BY <1>4, <2>1, <2>2 DEF TypeOK, SendWake, table, claim
<1>5. ASSUME NEW j \in JobIds, CancelQueuedJob(j) PROVE TypeOK'
  <2>1. row' = [row EXCEPT ![j].st = "canceled"] /\ "canceled" \in Statuses
    BY <1>5 DEF CancelQueuedJob, Statuses
  <2>2. row' \in [JobIds -> Rows]
    BY <2>1, RowStatusType
  <2> QED
    BY <1>5, <2>2 DEF TypeOK, CancelQueuedJob, claim, job
<1> QED
  BY <1>1, <1>2, <1>3, <1>4, <1>5 DEF Calling

\* The steps of an in-process run (RunJobInline) keep the types.
LEMMA CLIRunningType == TypeOK /\ PickNamed /\ CLIRunning => TypeOK'
<1> SUFFICES ASSUME TypeOK, PickNamed, NEW c \in CLIs,
                    \/ \E r \in Requests : CLIStart(c, r)
                    \/ ClaimById(c) \/ CLINext(c) \/ CLIExit(c) \/ Interrupt(c)
             PROVE  TypeOK'
  BY DEF CLIRunning
<1>0. c \in Procs /\ c \in Callers /\ 0 \in 0 .. MaxJobs
  BY BoundsAssumption DEF BoundsAssumption, Procs, Callers
<1>1. ASSUME NEW r \in Requests, CLIStart(c, r) PROVE TypeOK'
  <2>1. Stored(r) \in Asks
    BY StoredType, DataAssumption DEF DataAssumption
  <2>2. [ask |-> Stored(r), step |-> "insert"] \in Calls
    BY <2>1 DEF Calls
  <2>3. call' \in [Callers -> Calls]
    BY <1>1, <2>2 DEF TypeOK, CLIStart
  <2> QED
    BY <1>0, <1>1, <2>3 DEF TypeOK, CLIStart, table, job
<1>2. CASE ClaimById(c)
  <2>1. pick[c] \in JobIds
    BY <1>0, <1>2 DEF PickNamed, ClaimById
  <2>2. ResourceKeys(pick[c]) \in SUBSET Keys
    BY <2>1, ResourceKeysType
  <2>3. pick' \in [Procs -> 0 .. MaxJobs]
    BY <1>0, <1>2 DEF TypeOK, ClaimById
  <2> QED
    BY <1>0, <1>2, <2>1, <2>2, <2>3, StartJobType DEF TypeOK, ClaimById
<1>3. CASE CLINext(c)
  BY <1>0, <1>3 DEF TypeOK, CLINext, Queued, table, job
<1>4. CASE CLIExit(c)
  <2>1. crashes' \in 0 .. MaxCrashes
    BY <1>4 DEF TypeOK, CLIExit
  <2> QED
    BY <1>0, <1>4, <2>1, DiesType DEF CLIExit
<1>5. CASE Interrupt(c)
  BY <1>0, <1>5 DEF TypeOK, Interrupt, table, claim, job
<1> QED
  BY <1>1, <1>2, <1>3, <1>4, <1>5

\* Starting, stopping and killing a process keep the types.
LEMMA LifecycleType == TypeOK /\ Lifecycle => TypeOK'
<1> SUFFICES ASSUME TypeOK, Lifecycle PROVE TypeOK'
  OBVIOUS
<1>0. Server \in Procs
  BY DEF Procs
<1>1. CASE StartServer
  <2>1. row' \in [JobIds -> Rows]
    <3>1. \A j \in JobIds : row[j] \in Rows
      BY DEF TypeOK
    <3>2. \A j \in JobIds : [row[j] EXCEPT !.st = "error"] \in Rows
      BY <3>1 DEF Rows, Statuses
    <3> QED
      BY <1>1, <3>1, <3>2 DEF StartServer, ResetStaleJobs, TypeOK
  <2>2. wake' \in BOOLEAN
    BY <1>1 DEF StartServer
  <2>3. unwritten' \subseteq JobIds
    BY <1>1 DEF StartServer, ResetStaleJobs, TypeOK
  <2>4. errors' \in 0 .. MaxErrors
    BY <1>1, BoundsAssumption DEF BoundsAssumption, StartServer, TypeOK
  <2>5. /\ ctl' = [ctl EXCEPT ![Server] = "up"] /\ pc' = [pc EXCEPT ![Server] = "check"]
        /\ UNCHANGED <<mbox, cand, pick, keysOf, locks, workers, job, call, renaming,
                      crashes, edits>>
    BY <1>1 DEF StartServer
  <2> QED
    BY <1>0, <2>1, <2>2, <2>3, <2>4, <2>5 DEF TypeOK, job
<1>2. CASE StopServer
  BY <1>0, <1>2 DEF TypeOK, StopServer, table, claim, job
<1>3. CASE DispatcherExit
  BY <1>0, <1>3 DEF TypeOK, DispatcherExit, table, job
<1>4. CASE ServerDown
  <2>1. crashes' \in 0 .. MaxCrashes
    BY <1>4 DEF TypeOK, ServerDown
  <2> QED
    BY <1>0, <1>4, <2>1, DiesType DEF ServerDown
<1>5. ASSUME NEW p \in Procs, Crash(p) PROVE TypeOK'
  <2>1. crashes' \in 0 .. MaxCrashes
    BY <1>5, BoundsAssumption DEF BoundsAssumption, TypeOK, Crash
  <2> QED
    BY <1>5, <2>1, DiesType DEF Crash
<1> QED
  BY <1>1, <1>2, <1>3, <1>4, <1>5 DEF Lifecycle

\* Changes of mailboxes and of the workers setting keep the types.
LEMMA ConfiguringType == TypeOK /\ Configuring => TypeOK'
<1> SUFFICES ASSUME TypeOK, Configuring PROVE TypeOK'
  OBVIOUS
<1>1. ASSUME NEW m \in Mailboxes, DeleteMailbox(m) PROVE TypeOK'
  <2>1. row' \in [JobIds -> Rows]
    <3>1. \A j \in JobIds : row[j] \in Rows
      BY DEF TypeOK
    <3>2. \A j \in JobIds : [row[j] EXCEPT !.st = "canceled"] \in Rows
      BY <3>1 DEF Rows, Statuses
    <3> QED
      BY <1>1, <3>1, <3>2 DEF DeleteMailbox, CancelQueuedJobsForMailbox
  <2>2. mbox' \in [Mailboxes -> Boxes]
    <3>0. mbox[m] \in Boxes
      BY DEF TypeOK
    <3>1. [mbox[m] EXCEPT !.live = FALSE] \in Boxes
      BY <3>0 DEF Boxes
    <3>2. mbox' = [mbox EXCEPT ![m] = [mbox[m] EXCEPT !.live = FALSE]]
      BY <1>1 DEF DeleteMailbox
    <3> QED
      BY <3>1, <3>2 DEF TypeOK
  <2>3. edits' \in 0 .. MaxEdits
    BY <1>1, BoundsAssumption DEF BoundsAssumption, TypeOK, DeleteMailbox
  <2> QED
    BY <1>1, <2>1, <2>2, <2>3 DEF TypeOK, DeleteMailbox, claim, job
<1>2. ASSUME NEW m \in Mailboxes, EditMailbox(m) PROVE TypeOK'
  <2>1. mbox' \in [Mailboxes -> Boxes]
    BY <1>2 DEF TypeOK, EditMailbox
  <2>2. edits' \in 0 .. MaxEdits
    BY <1>2, BoundsAssumption DEF BoundsAssumption, TypeOK, EditMailbox
  <2> QED
    BY <1>2, <2>1, <2>2 DEF TypeOK, EditMailbox, claim, job
<1>3. ASSUME NEW m \in Mailboxes, NEW a \in NewAddrs, RenameChecked(m, a) PROVE TypeOK'
  <2>1. renaming' \in [Mailboxes -> NewAddrs \cup {"no"}]
    BY <1>3 DEF TypeOK, RenameChecked
  <2>2. edits' \in 0 .. MaxEdits
    BY <1>3, BoundsAssumption DEF BoundsAssumption, TypeOK, RenameChecked
  <2> QED
    BY <1>3, <2>1, <2>2 DEF TypeOK, RenameChecked, table, claim, job
<1>4. ASSUME NEW m \in Mailboxes, RenameMailbox(m) PROVE TypeOK'
  <2>1. renaming' \in [Mailboxes -> NewAddrs \cup {"no"}]
    BY <1>4 DEF TypeOK, RenameMailbox
  <2>2. mbox' \in [Mailboxes -> Boxes]
    <3>1. renaming[m] \in Addrs
      BY <1>4, DataAssumption DEF DataAssumption, TypeOK, RenameMailbox
    <3>0. mbox[m] \in Boxes
      BY DEF TypeOK
    <3>2. [mbox[m] EXCEPT !.addr = renaming[m]] \in Boxes
      BY <3>0, <3>1 DEF Boxes
    <3>3. [mbox EXCEPT ![m] = [mbox[m] EXCEPT !.addr = renaming[m]]] \in [Mailboxes -> Boxes]
      BY <3>2 DEF TypeOK
    <3> QED
      BY <1>4, <3>3 DEF TypeOK, RenameMailbox
  <2> QED
    BY <1>4, <2>1, <2>2 DEF TypeOK, RenameMailbox, claim, job
<1>5. ASSUME NEW n \in 1 .. MaxWorkers, SetWorkers(n) PROVE TypeOK'
  <2>1. edits' \in 0 .. MaxEdits
    BY <1>5, BoundsAssumption DEF BoundsAssumption, TypeOK, SetWorkers
  <2>2. wake' \in BOOLEAN
    BY <1>5 DEF SetWorkers, Notify
  <2> QED
    BY <1>5, <2>1, <2>2 DEF TypeOK, SetWorkers, table, claim, job
<1> QED
  BY <1>1, <1>2, <1>3, <1>4, <1>5 DEF Configuring

\* Every step keeps the types.
LEMMA NextType == TypeOK /\ PickNamed /\ [Next]_vars => TypeOK'
<1> SUFFICES ASSUME TypeOK, PickNamed, [Next]_vars PROVE TypeOK'
  OBVIOUS
<1>1. CASE UNCHANGED vars
  BY <1>1 DEF TypeOK, vars
<1> QED
  BY <1>1, DispatchingType, ExecutingType, CallingType, CLIRunningType, LifecycleType,
     ConfiguringType DEF Next

-----------------------------------------------------------------------------
(* The lock table.  LockTableExact is not inductive: that a claim takes     *)
(* only free keys rests on what the claim attempt has seen (ClaimReady),   *)
(* that ClaimById may skip that look rests on the CLI running one job at a  *)
(* time (RunnerAlone), and that the claimed job holds nothing yet rests on  *)
(* queued jobs being idle (QueuedIdle).                                    *)

\* A waiting job has no goroutine.
QueuedIdle ==
  \A j \in JobIds : row[j].st \in {"none", "queued"} => phase[j] = "none"

\* A CLI process runs one job at a time and does nothing else meanwhile.
RunnerAlone ==
  \A c \in CLIs :
    /\ call[c] # NoCall => pc[c] = "insert"
    /\ ctl[c] = "down" => pc[c] = "off"
    /\ \A i, j \in JobIds :
         owner[i] = c /\ owner[j] = c /\ phase[i] # "none" /\ phase[j] # "none"
           => i = j /\ pc[c] = "exec"

\* The keys of an accepted candidate stay free until it is claimed (claimMu).
ClaimReady ==
  \A p \in Procs : pc[p] = "claim" => LocksFree(p, keysOf[p])

Control == PickNamed /\ QueuedIdle /\ RunnerAlone /\ ClaimReady /\ LockTableExact

\* The inductive invariant.
IInv == TypeOK /\ Control

\* The kinds of names are apart; 0 marks a free lock.
LEMMA Names ==
  /\ Server \in Procs /\ Server \notin CLIs /\ Nobody \notin Procs
  /\ 0 \notin JobIds
  /\ \A p : p \in Procs <=> (p = Server \/ p \in CLIs)
  /\ \A c \in CLIs : c \in Callers /\ c \notin Clients /\ c \notin JobIds
BY NamesAssumption DEF NamesAssumption, Procs, JobIds, Callers

\* What most steps do to Control: nothing.  No claim starts, no lock changes
\* hands, and no job starts, ends or goes back to waiting.
LEMMA ControlFrame ==
  ASSUME Control,
         UNCHANGED <<locks, owner, need>>,
         \A p \in Procs : pc'[p] \in {"claim", "byid"} =>
            pc'[p] = pc[p] /\ pick'[p] = pick[p] /\ keysOf'[p] = keysOf[p],
         \A c \in CLIs :
            /\ pc'[c] = pc[c] \/ (pc[c] \notin {"exec", "insert"} /\ ctl'[c] # "down")
            /\ ctl'[c] = "down" => ctl[c] = "down"
            /\ call'[c] # NoCall => call[c] # NoCall,
         \A j \in JobIds :
            /\ row'[j].st \in {"none", "queued"} => row[j].st \in {"none", "queued"}
            /\ phase'[j] = "none" <=> phase[j] = "none"
            /\ phase'[j] \in Holding <=> phase[j] \in Holding
  PROVE  Control'
<1>1. PickNamed'
  BY DEF Control, PickNamed
<1>2. QueuedIdle'
  BY DEF Control, QueuedIdle
<1>3. RunnerAlone'
  <2> SUFFICES ASSUME NEW c \in CLIs
               PROVE  /\ call'[c] # NoCall => pc'[c] = "insert"
                      /\ ctl'[c] = "down" => pc'[c] = "off"
                      /\ \A i, j \in JobIds :
                           owner[i] = c /\ owner[j] = c /\ phase'[i] # "none" /\ phase'[j] # "none"
                             => i = j /\ pc'[c] = "exec"
    BY DEF RunnerAlone
  <2> QED
    BY DEF Control, RunnerAlone
<1>4. ClaimReady'
  BY DEF Control, ClaimReady, LocksFree
<1>5. LockTableExact'
  BY DEF Control, LockTableExact
<1> QED
  BY <1>1, <1>2, <1>3, <1>4, <1>5 DEF Control

\* Nothing is claimed, held or running at the start.
LEMMA InitControl == Init => Control
<1> SUFFICES ASSUME Init PROVE Control
  OBVIOUS
<1>1. PickNamed /\ ClaimReady
  BY DEF Init, PickNamed, ClaimReady
<1>2. QueuedIdle
  BY DEF Init, QueuedIdle
<1>3. RunnerAlone
  BY DEF Init, RunnerAlone, Callers, Procs
<1>4. LockTableExact
  <2>1. \A p \in Procs, k \in Keys, j \in JobIds : locks[p][k] # j
    BY DEF Init, NoLocks, JobIds
  <2>2. \A j \in JobIds : phase[j] \notin Holding
    BY DEF Init, Holding
  <2> QED
    BY <2>1, <2>2 DEF LockTableExact
<1> QED
  BY <1>1, <1>2, <1>3, <1>4 DEF Control

\* A claim takes only free keys and starts a job that held nothing.
LEMMA StartJobControl ==
  ASSUME TypeOK, Control, NEW p \in Procs, NEW j \in JobIds, NEW K \in SUBSET Keys,
         StartJob(p, j, K), LocksFree(p, K), pc[p] \in {"claim", "byid"},
         UNCHANGED <<ctl, call>>,
         \A q \in Procs : q # p => pick'[q] = pick[q] /\ keysOf'[q] = keysOf[q]
  PROVE  Control'
<1>1. /\ row[j].st = "queued" /\ phase[j] = "none"
      /\ row' = [row EXCEPT ![j].st = "running"]
      /\ phase' = [phase EXCEPT ![j] = "run"] /\ owner' = [owner EXCEPT ![j] = p]
      /\ need' = [need EXCEPT ![j] = K]
      /\ locks' = [locks EXCEPT ![p] = [k \in Keys |-> IF k \in K THEN j ELSE locks[p][k]]]
      /\ pc' = [pc EXCEPT ![p] = IF p = Server THEN "check" ELSE "exec"]
  BY DEF Control, QueuedIdle, StartJob, StillQueued, AcquireLocks
<1>2. /\ row \in [JobIds -> Rows] /\ phase \in [JobIds -> Phases]
      /\ owner \in [JobIds -> Procs \cup {Nobody}] /\ need \in [JobIds -> SUBSET Keys]
      /\ locks \in [Procs -> [Keys -> 0 .. MaxJobs]]
      /\ pc \in [Procs -> {"off", "check", "wait", "scan", "claim", "insert", "byid", "exec"}]
  BY DEF TypeOK
<1>3. /\ pc'[p] \notin {"claim", "byid", "insert"}
      /\ \A q \in Procs : q # p => pc'[q] = pc[q]
  BY <1>1, <1>2
<1>4. PickNamed'
  BY <1>3 DEF Control, PickNamed
<1>5. QueuedIdle'
  <2> SUFFICES ASSUME NEW i \in JobIds, row'[i].st \in {"none", "queued"}
               PROVE  phase'[i] = "none"
    BY DEF QueuedIdle
  <2>1. i # j
    BY <1>1, <1>2 DEF Rows
  <2>2. row'[i] = row[i] /\ phase'[i] = phase[i]
    BY <1>1, <1>2, <2>1
  <2> QED
    BY <2>2 DEF Control, QueuedIdle
<1>6. RunnerAlone'
  <2> SUFFICES ASSUME NEW c \in CLIs
               PROVE  /\ call'[c] # NoCall => pc'[c] = "insert"
                      /\ ctl'[c] = "down" => pc'[c] = "off"
                      /\ \A i, l \in JobIds :
                           owner'[i] = c /\ owner'[l] = c /\ phase'[i] # "none" /\ phase'[l] # "none"
                             => i = l /\ pc'[c] = "exec"
    BY DEF RunnerAlone
  <2>1. CASE c = p
    <3>1. \A i \in JobIds : owner[i] = c => phase[i] = "none"
      BY <2>1 DEF Control, RunnerAlone
    <3>2. \A i \in JobIds : owner'[i] = c /\ phase'[i] # "none" => i = j
      BY <1>1, <1>2, <3>1
    <3>3. pc'[c] = "exec"
      BY <1>1, <1>2, <2>1, Names
    <3> QED
      BY <2>1, <3>2, <3>3 DEF Control, RunnerAlone
  <2>2. CASE c # p
    <3>1. \A i \in JobIds : owner'[i] = c => owner[i] = c /\ phase'[i] = phase[i]
      BY <1>1, <1>2, <2>2
    <3>2. pc'[c] = pc[c]
      BY <1>3, <2>2, Names
    <3> QED
      BY <3>1, <3>2 DEF Control, RunnerAlone
  <2> QED
    BY <2>1, <2>2
<1>7. ClaimReady'
  <2> SUFFICES ASSUME NEW q \in Procs, pc'[q] = "claim"
               PROVE  LocksFree(q, keysOf[q])'
    BY DEF ClaimReady
  <2>1. q # p /\ pc[q] = "claim" /\ keysOf'[q] = keysOf[q] /\ locks'[q] = locks[q]
    BY <1>1, <1>2, <1>3
  <2> QED
    BY <2>1 DEF Control, ClaimReady, LocksFree
<1>8. LockTableExact'
  <2> SUFFICES ASSUME NEW q \in Procs, NEW k \in Keys, NEW i \in JobIds
               PROVE  (locks'[q][k] = i) <=>
                        (owner'[i] = q /\ phase'[i] \in Holding /\ k \in need'[i])
    BY DEF LockTableExact
  <2>1. (locks[q][k] = i) <=> (owner[i] = q /\ phase[i] \in Holding /\ k \in need[i])
    BY DEF Control, LockTableExact
  <2>2. CASE i = j
    <3>1. locks[q][k] # j
      BY <1>1, <2>1, <2>2 DEF Holding
    <3>2. owner'[j] = p /\ phase'[j] \in Holding /\ need'[j] = K
      BY <1>1, <1>2 DEF Holding
    <3>3. CASE q = p
      <4>1. locks'[p][k] = IF k \in K THEN j ELSE locks[p][k]
        BY <1>1, <1>2
      <4> QED
        BY <2>2, <3>1, <3>2, <3>3, <4>1
    <3>4. CASE q # p
      BY <1>1, <1>2, <2>2, <3>1, <3>2, <3>4
    <3> QED
      BY <3>3, <3>4
  <2>3. CASE i # j
    <3>1. owner'[i] = owner[i] /\ phase'[i] = phase[i] /\ need'[i] = need[i]
      BY <1>1, <1>2, <2>3
    <3>2. CASE q = p
      <4>1. locks'[p][k] = IF k \in K THEN j ELSE locks[p][k]
        BY <1>1, <1>2
      <4>2. k \in K => locks[p][k] # i
        BY Names DEF LocksFree
      <4> QED
        BY <2>1, <2>3, <3>1, <3>2, <4>1, <4>2
    <3>3. CASE q # p
      BY <1>1, <1>2, <2>1, <3>1, <3>3
    <3> QED
      BY <3>2, <3>3
  <2> QED
    BY <2>2, <2>3
<1> QED
  BY <1>4, <1>5, <1>6, <1>7, <1>8 DEF Control

\* releaseLocks frees what the job held and nothing else.
LEMMA ReleaseControl ==
  ASSUME TypeOK, LockTableExact, ClaimReady, NEW p \in Procs, NEW j \in JobIds,
         NEW ph \in Phases, owner[j] = p, ph \notin Holding,
         phase' = [phase EXCEPT ![j] = ph], ReleaseLocks(p, j), UNCHANGED owner
  PROVE  /\ LockTableExact'
         /\ \A q \in Procs, k \in Keys : locks[q][k] = 0 => locks'[q][k] = 0
<1>1. /\ phase \in [JobIds -> Phases] /\ need \in [JobIds -> SUBSET Keys]
      /\ locks \in [Procs -> [Keys -> 0 .. MaxJobs]]
  BY DEF TypeOK
<1>2. \A q \in Procs, k \in Keys :
        locks'[q][k] = IF q = p /\ locks[q][k] = j THEN 0 ELSE locks[q][k]
  BY <1>1 DEF ReleaseLocks
<1>3. /\ phase'[j] \notin Holding
      /\ \A i \in JobIds : i # j => phase'[i] = phase[i] /\ need'[i] = need[i]
  BY <1>1 DEF ReleaseLocks
<1>4. LockTableExact'
  <2> SUFFICES ASSUME NEW q \in Procs, NEW k \in Keys, NEW i \in JobIds
               PROVE  (locks'[q][k] = i) <=>
                        (owner'[i] = q /\ phase'[i] \in Holding /\ k \in need'[i])
    BY DEF LockTableExact
  <2>1. (locks[q][k] = i) <=> (owner[i] = q /\ phase[i] \in Holding /\ k \in need[i])
    BY DEF LockTableExact
  <2>2. i # 0
    BY Names
  <2>3. CASE i = j
    BY <1>2, <1>3, <2>1, <2>2, <2>3
  <2>4. CASE i # j
    BY <1>2, <1>3, <2>1, <2>2, <2>4
  <2> QED
    BY <2>3, <2>4
<1> QED
  BY <1>2, <1>4

\* The death of a process takes its lock table and its goroutines together.
LEMMA DiesControl ==
  ASSUME TypeOK, Control, NEW p \in Procs, Dies(p)
  PROVE  Control'
<1>1. /\ \A q \in Procs : q # p => /\ pc'[q] = pc[q] /\ pick'[q] = pick[q] /\ ctl'[q] = ctl[q]
                                   /\ keysOf'[q] = keysOf[q] /\ locks'[q] = locks[q]
      /\ pc'[p] = "off" /\ locks'[p] = NoLocks
  BY DEF TypeOK, Dies, Unpick
<1>2. \A j \in JobIds :
        IF owner[j] = p THEN phase'[j] = "none" /\ owner'[j] = Nobody
        ELSE phase'[j] = phase[j] /\ owner'[j] = owner[j] /\ need'[j] = need[j]
  BY DEF TypeOK, Dies
<1>3. UNCHANGED row
  BY DEF Dies, table
<1>4. PickNamed'
  BY <1>1 DEF Control, PickNamed
<1>5. QueuedIdle'
  BY <1>2, <1>3 DEF Control, QueuedIdle
<1>6. RunnerAlone'
  <2> SUFFICES ASSUME NEW c \in CLIs
               PROVE  /\ call'[c] # NoCall => pc'[c] = "insert"
                      /\ ctl'[c] = "down" => pc'[c] = "off"
                      /\ \A i, j \in JobIds :
                           owner'[i] = c /\ owner'[j] = c /\ phase'[i] # "none" /\ phase'[j] # "none"
                             => i = j /\ pc'[c] = "exec"
    BY DEF RunnerAlone
  <2>1. call'[c] = IF c = p THEN NoCall ELSE call[c]
    BY Names DEF Dies, HostOf
  <2>2. CASE c = p
    BY <1>1, <1>2, <2>1, <2>2, Names
  <2>3. CASE c # p
    BY <1>1, <1>2, <2>1, <2>3, Names DEF Control, RunnerAlone
  <2> QED
    BY <2>2, <2>3
<1>7. ClaimReady'
  BY <1>1 DEF Control, ClaimReady, LocksFree
<1>8. LockTableExact'
  <2> SUFFICES ASSUME NEW q \in Procs, NEW k \in Keys, NEW j \in JobIds
               PROVE  (locks'[q][k] = j) <=>
                        (owner'[j] = q /\ phase'[j] \in Holding /\ k \in need'[j])
    BY DEF LockTableExact
  <2>1. (locks[q][k] = j) <=> (owner[j] = q /\ phase[j] \in Holding /\ k \in need[j])
    BY DEF Control, LockTableExact
  <2>2. "none" \notin Holding
    BY DEF Holding
  <2>3. CASE q = p
    <3>1. locks'[q][k] # j
      BY <1>1, <2>3, Names DEF NoLocks
    <3> QED
      BY <1>2, <2>3, <3>1, Names
  <2>4. CASE q # p
    BY <1>1, <1>2, <2>1, <2>2, <2>4, Names
  <2> QED
    BY <2>3, <2>4
<1> QED
  BY <1>4, <1>5, <1>6, <1>7, <1>8 DEF Control

\* The steps of the dispatcher keep Control: ids are picked only while queued rows
\* are scanned, and the claim itself takes free keys (claimRunnable).
LEMMA DispatchingControl == TypeOK /\ Control /\ Dispatching => Control'
<1> SUFFICES ASSUME TypeOK, Control, Dispatching PROVE Control'
  OBVIOUS
<1>0. pc \in [Procs -> {"off", "check", "wait", "scan", "claim", "insert", "byid", "exec"}]
  BY DEF TypeOK
<1>1. CASE Dispatch
  BY <1>0, <1>1, ControlFrame, Names DEF Dispatch, table, job
<1>2. CASE NoFreeWorker
  BY <1>0, <1>2, ControlFrame, Names DEF NoFreeWorker, table, job
<1>3. CASE NothingRunnable
  BY <1>0, <1>3, ControlFrame, Names DEF NothingRunnable, table, job
<1>4. CASE Wakeup
  BY <1>0, <1>4, ControlFrame, Names DEF Wakeup, table, job
<1>5. CASE Tick
  BY <1>0, <1>5, ControlFrame, Names DEF Tick, table, job
<1>6. ASSUME NEW p \in Procs, Scan(p) PROVE Control'
  <2>1. PICK j \in Oldest(cand[p]) :
          IF CanRun(p, j)
            THEN /\ pc'     = [pc EXCEPT ![p] = "claim"]
                 /\ pick'   = [pick EXCEPT ![p] = j]
                 /\ keysOf' = [keysOf EXCEPT ![p] = ResourceKeys(j)]
            ELSE UNCHANGED <<pc, pick, keysOf>>
    BY <1>6 DEF Scan
  <2>2. UNCHANGED <<row, ctl, locks, phase, owner, need, call>> /\ pc[p] = "scan"
    BY <1>6 DEF Scan, table, job
  <2>3. CASE ~CanRun(p, j)
    BY <2>1, <2>2, <2>3, ControlFrame
  <2>4. CASE CanRun(p, j)
    <3>1. j \in JobIds /\ LocksFree(p, ResourceKeys(j))
      BY <2>4 DEF TypeOK, Oldest, CanRun
    <3>2. /\ \A q \in Procs : q # p => /\ pc'[q] = pc[q] /\ pick'[q] = pick[q]
                                       /\ keysOf'[q] = keysOf[q]
          /\ pc'[p] = "claim" /\ pick'[p] = j /\ keysOf'[p] = ResourceKeys(j)
      BY <2>1, <2>4 DEF TypeOK
    <3>3. PickNamed'
      BY <3>1, <3>2 DEF Control, PickNamed
    <3>4. ClaimReady'
      BY <2>2, <3>1, <3>2 DEF Control, ClaimReady, LocksFree
    <3>5. QueuedIdle' /\ LockTableExact'
      BY <2>2 DEF Control, QueuedIdle, LockTableExact
    <3>6. RunnerAlone'
      BY <2>2, <3>2, Names DEF Control, RunnerAlone
    <3> QED
      BY <3>3, <3>4, <3>5, <3>6 DEF Control
  <2> QED
    BY <2>3, <2>4
<1>7. ASSUME NEW p \in Procs, Claim(p) PROVE Control'
  <2>1. /\ pc[p] = "claim" /\ StartJob(p, pick[p], keysOf[p])
        /\ UNCHANGED <<ctl, call>>
    BY <1>7 DEF Claim
  <2>2. pick[p] \in JobIds /\ keysOf[p] \in SUBSET Keys /\ LocksFree(p, keysOf[p])
    BY <2>1 DEF TypeOK, Control, PickNamed, ClaimReady
  <2>3. \A q \in Procs : q # p => pick'[q] = pick[q] /\ keysOf'[q] = keysOf[q]
    BY <1>7 DEF TypeOK, Claim, Unpick
  <2> QED
    BY <2>1, <2>2, <2>3, StartJobControl
<1>8. ASSUME NEW p \in Procs, ClaimLost(p) PROVE Control'
  <2>1. \A q \in Procs : q # p => /\ pc'[q] = pc[q] /\ pick'[q] = pick[q]
                                  /\ keysOf'[q] = keysOf[q]
    BY <1>8 DEF TypeOK, ClaimLost, Unpick
  <2>2. pc[p] = "claim" /\ pc'[p] = "scan" /\ UNCHANGED <<row, ctl, locks, phase, owner, need, call>>
    BY <1>0, <1>8 DEF ClaimLost, table, job
  <2>3. p \in CLIs => ctl'[p] # "down"
    BY <2>2 DEF Control, RunnerAlone
  <2> QED
    BY <2>1, <2>2, <2>3, ControlFrame, Names
<1>9. ASSUME NEW p \in Procs, ClaimFails(p) PROVE Control'
  <2>1. /\ pc[p] \in {"scan", "claim", "byid"} /\ pc'[p] = "scan"
        /\ \A q \in Procs : q # p => /\ pc'[q] = pc[q] /\ pick'[q] = pick[q]
                                    /\ keysOf'[q] = keysOf[q]
        /\ UNCHANGED <<ctl, locks, phase, owner, need, call>>
    BY <1>9, ClaimFailsStep DEF Control
  <2>2. \A i \in JobIds : row'[i].st \in {"none", "queued"} => row[i].st \in {"none", "queued"}
    BY <1>9, ClaimFailsStep DEF Control, TypeOK, Rows
  <2>3. p \in CLIs => ctl'[p] # "down"
    BY <2>1 DEF Control, RunnerAlone
  <2> QED
    BY <2>1, <2>2, <2>3, ControlFrame, Names
<1> QED
  BY <1>1, <1>2, <1>3, <1>4, <1>5, <1>6, <1>7, <1>8, <1>9 DEF Dispatching

\* Writing an outcome keeps the locks.
LEMMA FinishControl ==
  ASSUME TypeOK, Control, NEW j \in JobIds, NEW st \in Finished, phase[j] \in Working, Finish(j, st)
  PROVE  Control'
<1>1. \A i \in JobIds : i # j => row'[i] = row[i] /\ phase'[i] = phase[i]
  BY DEF TypeOK, Finish
<1>2. row'[j].st = st /\ phase'[j] = "finished"
  BY DEF TypeOK, Rows, Finish
<1>3. st \notin {"none", "queued"} /\ phase[j] \in Holding /\ phase'[j] \in Holding
      /\ phase[j] # "none" /\ phase'[j] # "none"
  BY <1>2 DEF Finished, Working, Holding
<1>4. UNCHANGED <<pc, pick, keysOf, ctl, call, locks, owner, need>>
  BY DEF Finish, claim
<1> QED
  BY <1>1, <1>2, <1>3, <1>4, ControlFrame

\* The steps of a job's goroutine keep Control: only releaseLocks touches the locks.
LEMMA ExecutingControl == TypeOK /\ Control /\ Executing => Control'
<1> SUFFICES ASSUME TypeOK, Control, NEW j \in JobIds,
                    \/ WorkDone(j) \/ WorkFails(j) \/ EnqueueChild(j) \/ FinishJob(j)
                    \/ FinishLost(j) \/ ReleaseJob(j) \/ WorkerFree(j)
                    \/ NotifyDispatcher(j) \/ CLIRelease(j)
             PROVE  Control'
  BY DEF Executing
<1>0. phase \in [JobIds -> Phases] /\ "error" \in Finished /\ "done" \in Finished
  BY DEF TypeOK, Finished
<1>1. CASE WorkDone(j)
  BY <1>0, <1>1, ControlFrame DEF WorkDone, table, claim, Holding
<1>2. CASE WorkFails(j)
  BY <1>0, <1>2, FinishControl DEF WorkFails, Working
<1>3. CASE EnqueueChild(j)
  <2>1. \A c \in CLIs : call'[c] = call[c]
    BY <1>3, Names DEF TypeOK, EnqueueChild
  <2> QED
    BY <1>3, <2>1, ControlFrame DEF EnqueueChild, table, claim
<1>4. CASE FinishJob(j)
  BY <1>0, <1>4, FinishControl DEF FinishJob, Working
<1>5. CASE FinishLost(j)
  BY <1>0, <1>5, ControlFrame DEF FinishLost, table, claim, Holding
<1>6. CASE ReleaseJob(j)
  <2>1. /\ owner[j] = Server /\ phase[j] = "finished" /\ "released" \in Phases \ Holding
        /\ phase' = [phase EXCEPT ![j] = "released"] /\ ReleaseLocks(Server, j)
        /\ UNCHANGED <<row, ctl, pc, pick, keysOf, owner, call>>
    BY <1>6 DEF ReleaseJob, table, claim, Phases, Holding
  <2>2. LockTableExact' /\ \A q \in Procs, k \in Keys : locks[q][k] = 0 => locks'[q][k] = 0
    BY <2>1, ReleaseControl, Names DEF Control
  <2>3. \A i \in JobIds : phase'[i] = "none" <=> phase[i] = "none"
    BY <1>0, <2>1
  <2>4. ClaimReady'
    BY <2>1, <2>2 DEF TypeOK, Control, ClaimReady, LocksFree
  <2>5. PickNamed' /\ QueuedIdle' /\ RunnerAlone'
    BY <2>1, <2>3 DEF Control, PickNamed, QueuedIdle, RunnerAlone
  <2> QED
    BY <2>2, <2>4, <2>5 DEF Control
<1>7. CASE WorkerFree(j)
  BY <1>0, <1>7, ControlFrame DEF WorkerFree, table, claim, Holding
<1>8. CASE NotifyDispatcher(j)
  <2>1. /\ phase[j] = "uncounted" /\ phase' = [phase EXCEPT ![j] = "none"]
        /\ owner' = [owner EXCEPT ![j] = Nobody]
        /\ UNCHANGED <<row, ctl, pc, pick, keysOf, locks, need, call>>
    BY <1>8 DEF NotifyDispatcher, table, claim
  <2>2. \A i \in JobIds : IF i = j THEN phase'[i] = "none" /\ owner'[i] = Nobody
                          ELSE phase'[i] = phase[i] /\ owner'[i] = owner[i]
    BY <1>0, <2>1 DEF TypeOK
  <2>3. QueuedIdle' /\ PickNamed' /\ ClaimReady'
    BY <2>1, <2>2 DEF Control, QueuedIdle, PickNamed, ClaimReady, LocksFree
  <2>4. RunnerAlone'
    BY <2>1, <2>2 DEF Control, RunnerAlone
  <2>5. LockTableExact'
    BY <2>1, <2>2 DEF Control, LockTableExact, Holding
  <2> QED
    BY <2>3, <2>4, <2>5 DEF Control
<1>9. CASE CLIRelease(j)
  <2>1. /\ owner[j] \in CLIs /\ phase[j] = "finished" /\ "none" \in Phases \ Holding
        /\ phase' = [phase EXCEPT ![j] = "none"] /\ ReleaseLocks(owner[j], j)
        /\ pc' = [pc EXCEPT ![owner[j]] = "check"]
        /\ UNCHANGED <<row, ctl, pick, keysOf, owner, call>>
    BY <1>9 DEF CLIRelease, table, Phases, Holding
  <2>2. LockTableExact' /\ \A q \in Procs, k \in Keys : locks[q][k] = 0 => locks'[q][k] = 0
    BY <2>1, ReleaseControl, Names DEF Control
  <2>3. \A q \in Procs : IF q = owner[j] THEN pc'[q] = "check" ELSE pc'[q] = pc[q]
    BY <2>1, Names DEF TypeOK
  <2>4. PickNamed' /\ ClaimReady'
    BY <2>1, <2>2, <2>3 DEF TypeOK, Control, PickNamed, ClaimReady, LocksFree
  <2>5. \A i \in JobIds : IF i = j THEN phase'[i] = "none" ELSE phase'[i] = phase[i]
    BY <1>0, <2>1
  <2>6. QueuedIdle'
    BY <2>1, <2>5 DEF Control, QueuedIdle
  <2>7. RunnerAlone'
    <3> SUFFICES ASSUME NEW c \in CLIs
                 PROVE  /\ call'[c] # NoCall => pc'[c] = "insert"
                        /\ ctl'[c] = "down" => pc'[c] = "off"
                        /\ \A i, l \in JobIds :
                             owner'[i] = c /\ owner'[l] = c /\ phase'[i] # "none" /\ phase'[l] # "none"
                               => i = l /\ pc'[c] = "exec"
      BY DEF RunnerAlone
    <3>1. CASE c = owner[j]
      <4>1. pc[c] = "exec" /\ \A i \in JobIds : owner[i] = c /\ phase[i] # "none" => i = j
        BY <2>1, <3>1 DEF Control, RunnerAlone
      <4> QED
        BY <2>1, <2>5, <3>1, <4>1 DEF Control, RunnerAlone
    <3>2. CASE c # owner[j]
      BY <2>1, <2>3, <2>5, <3>2, Names DEF Control, RunnerAlone
    <3> QED
      BY <3>1, <3>2
  <2> QED
    BY <2>2, <2>4, <2>6, <2>7 DEF Control
<1> QED
  BY <1>1, <1>2, <1>3, <1>4, <1>5, <1>6, <1>7, <1>8, <1>9

\* Enqueueing and canceling keep Control: a new row is idle, and a canceled one was.
LEMMA CallingControl == TypeOK /\ Control /\ Calling => Control'
<1> SUFFICES ASSUME TypeOK, Control, Calling PROVE Control'
  OBVIOUS
<1>0. call \in [Callers -> Calls] /\ row \in [JobIds -> Rows]
  BY DEF TypeOK
<1>1. ASSUME NEW c \in Clients, NEW r \in Requests, BeginEnqueue(c, r) PROVE Control'
  <2>1. \A d \in CLIs : call'[d] = call[d]
    BY <1>0, <1>1, Names DEF BeginEnqueue
  <2> QED
    BY <1>1, <2>1, ControlFrame DEF BeginEnqueue, table, claim, job
<1>2. ASSUME NEW x \in Callers, InsertRow(x) PROVE Control'
  <2>1. PICK id \in Oldest(Unused) :
          /\ row' = [row EXCEPT ![id] =
                       [st |-> "queued", kind |-> call[x].ask.kind, mb |-> call[x].ask.mb,
                        tgt |-> call[x].ask.tgt, par |-> ParentOf(x)]]
          /\ IF x \in CLIs
               THEN /\ pc'   = [pc EXCEPT ![x] = "byid"]
                    /\ pick' = [pick EXCEPT ![x] = id]
               ELSE UNCHANGED <<pc, pick>>
    BY <1>2 DEF InsertRow
  <2>2. id \in JobIds /\ row[id].st = "none"
    BY DEF Oldest, Unused
  <2>3. \A i \in JobIds : row'[i].st \in {"none", "queued"} => row[i].st \in {"none", "queued"}
    <3>1. \A i \in JobIds : i # id => row'[i] = row[i]
      BY <1>0, <2>1
    <3> QED
      BY <2>2, <3>1
  <2>4. UNCHANGED <<ctl, keysOf, locks, phase, owner, need>> /\ call[x] # NoCall
    BY <1>2 DEF InsertRow
  <2>5. CASE x \notin CLIs
    <3>1. \A c \in CLIs : call'[c] = call[c]
      <4>1. \/ call' = [call EXCEPT ![x] = NoCall]
            \/ call' = [call EXCEPT ![x] = [call[x] EXCEPT !.step = "wake"]]
        BY <1>2 DEF InsertRow, EndCall
      <4>2. \A c \in CLIs : c \in Callers /\ c # x
        BY <2>5, Names
      <4> QED
        BY <1>0, <4>1, <4>2
    <3> QED
      BY <2>1, <2>3, <2>4, <2>5, <3>1, ControlFrame
  <2>6. CASE x \in CLIs
    <3>1. /\ \A q \in Procs : q # x => pc'[q] = pc[q] /\ pick'[q] = pick[q]
          /\ pc'[x] = "byid" /\ pick'[x] = id
      BY <2>1, <2>6, Names DEF TypeOK
    <3>2. HostOf(x) # Server
      BY <2>6, Names DEF HostOf
    <3>3. call' = [call EXCEPT ![x] = NoCall]
      BY <1>2, <3>2 DEF InsertRow, EndCall
    <3>4. pc[x] = "insert"
      BY <2>4, <2>6 DEF Control, RunnerAlone
    <3>5. PickNamed' /\ ClaimReady'
      BY <2>2, <2>4, <3>1 DEF Control, PickNamed, ClaimReady, LocksFree
    <3>6. QueuedIdle' /\ LockTableExact'
      BY <2>3, <2>4 DEF Control, QueuedIdle, LockTableExact
    <3>7. RunnerAlone'
      <4> SUFFICES ASSUME NEW c \in CLIs
                   PROVE  /\ call'[c] # NoCall => pc'[c] = "insert"
                          /\ ctl'[c] = "down" => pc'[c] = "off"
                          /\ \A i, l \in JobIds :
                               owner'[i] = c /\ owner'[l] = c /\ phase'[i] # "none" /\ phase'[l] # "none"
                                 => i = l /\ pc'[c] = "exec"
        BY DEF RunnerAlone
      <4>1. CASE c = x
        BY <1>0, <2>4, <3>1, <3>3, <3>4, <4>1 DEF Control, RunnerAlone
      <4>2. CASE c # x
        BY <1>0, <2>4, <3>1, <3>3, <4>2, Names DEF Control, RunnerAlone
      <4> QED
        BY <4>1, <4>2
    <3> QED
      BY <3>5, <3>6, <3>7 DEF Control
  <2> QED
    BY <2>5, <2>6
<1>3. ASSUME NEW x \in Callers, InsertFails(x) PROVE Control'
  <2>1. /\ call[x] # NoCall /\ call' = [call EXCEPT ![x] = NoCall]
        /\ UNCHANGED <<row, pick, keysOf, locks, phase, owner, need>>
    BY <1>3 DEF InsertFails, EndCall, table
  <2>2. CASE x \notin CLIs
    BY <1>0, <1>3, <2>1, <2>2, ControlFrame DEF InsertFails
  <2>3. CASE x \in CLIs
    <3>1. /\ \A q \in Procs : q # x => pc'[q] = pc[q] /\ ctl'[q] = ctl[q]
          /\ pc'[x] = "off"
      BY <1>3, <2>3, Names DEF TypeOK, InsertFails
    <3>2. pc[x] = "insert"
      BY <2>1, <2>3 DEF Control, RunnerAlone
    <3>3. PickNamed' /\ ClaimReady' /\ QueuedIdle' /\ LockTableExact'
      BY <2>1, <3>1 DEF Control, PickNamed, ClaimReady, LocksFree, QueuedIdle, LockTableExact
    <3>4. RunnerAlone'
      BY <1>0, <2>1, <2>3, <3>1, <3>2, Names DEF Control, RunnerAlone
    <3> QED
      BY <3>3, <3>4 DEF Control
  <2> QED
    BY <2>2, <2>3
<1>4. ASSUME NEW x \in Callers, SendWake(x) PROVE Control'
  <2>1. call[x] # NoCall /\ call' = [call EXCEPT ![x] = NoCall]
    BY <1>4 DEF SendWake, EndCall
  <2> QED
    BY <1>0, <1>4, <2>1, ControlFrame DEF SendWake, table, claim
<1>5. ASSUME NEW j \in JobIds, CancelQueuedJob(j) PROVE Control'
  <2>1. \A i \in JobIds : row'[i].st \in {"none", "queued"} => row[i].st \in {"none", "queued"}
    BY <1>0, <1>5 DEF Rows, CancelQueuedJob
  <2> QED
    BY <1>5, <2>1, ControlFrame DEF CancelQueuedJob, claim, job
<1> QED
  BY <1>1, <1>2, <1>3, <1>4, <1>5 DEF Calling

\* An in-process run keeps Control: it executes one job at a time (RunJobInline).
LEMMA CLIRunningControl == TypeOK /\ Control /\ CLIRunning => Control'
<1> SUFFICES ASSUME TypeOK, Control, NEW c \in CLIs,
                    \/ \E r \in Requests : CLIStart(c, r)
                    \/ ClaimById(c) \/ CLINext(c) \/ CLIExit(c) \/ Interrupt(c)
             PROVE  Control'
  BY DEF CLIRunning
<1>0. /\ call \in [Callers -> Calls]
      /\ pc \in [Procs -> {"off", "check", "wait", "scan", "claim", "insert", "byid", "exec"}]
      /\ ctl \in [Procs -> {"down", "up", "stopping"}]
  BY DEF TypeOK
<1>1. ASSUME NEW r \in Requests, CLIStart(c, r) PROVE Control'
  <2>0. /\ ctl[c] = "down" /\ pc' = [pc EXCEPT ![c] = "insert"] /\ ctl' = [ctl EXCEPT ![c] = "up"]
        /\ UNCHANGED <<row, pick, keysOf, locks, phase, owner, need>>
    BY <1>1 DEF CLIStart, table, job
  <2>a. pc[c] = "off"
    BY <2>0 DEF Control, RunnerAlone
  <2>b. \A q \in Procs : IF q = c THEN pc'[q] = "insert" /\ ctl'[q] = "up"
                         ELSE pc'[q] = pc[q] /\ ctl'[q] = ctl[q]
    BY <1>0, <2>0
  <2>c. \A d \in CLIs : d # c => call'[d] = call[d]
    BY <1>0, <1>1, Names DEF CLIStart
  <2>1. /\ pc[c] = "off" /\ UNCHANGED <<row, pick, keysOf, locks, phase, owner, need>>
        /\ \A q \in Procs : IF q = c THEN pc'[q] = "insert" /\ ctl'[q] = "up"
                            ELSE pc'[q] = pc[q] /\ ctl'[q] = ctl[q]
        /\ \A d \in CLIs : d # c => call'[d] = call[d]
    BY <2>0, <2>a, <2>b, <2>c
  <2>2. PickNamed' /\ ClaimReady' /\ QueuedIdle' /\ LockTableExact'
    BY <2>1 DEF Control, PickNamed, ClaimReady, LocksFree, QueuedIdle, LockTableExact
  <2>3. RunnerAlone'
    BY <2>1, Names DEF Control, RunnerAlone
  <2> QED
    BY <2>2, <2>3 DEF Control
<1>2. CASE ClaimById(c)
  <2>1. pc[c] = "byid" /\ pick[c] \in JobIds /\ UNCHANGED <<ctl, call>>
        /\ StartJob(c, pick[c], ResourceKeys(pick[c]))
    BY <1>2, Names DEF Control, PickNamed, ClaimById
  <2>2. ResourceKeys(pick[c]) \in SUBSET Keys
    BY <2>1, ResourceKeysType
  <2>3. \A k \in Keys : locks[c][k] = 0
    <3>1. \A j \in JobIds : owner[j] = c => phase[j] = "none"
      BY <2>1 DEF Control, RunnerAlone
    <3>2. \A k \in Keys, j \in JobIds : locks[c][k] # j
      BY <3>1, Names DEF Control, LockTableExact, Holding
    <3>3. \A k \in Keys : locks[c][k] \in 0 .. MaxJobs
      BY Names DEF TypeOK
    <3>4. \A n \in 0 .. MaxJobs : n = 0 \/ n \in JobIds
      BY BoundsAssumption DEF BoundsAssumption, JobIds
    <3> QED
      BY <3>2, <3>3, <3>4
  <2>4. LocksFree(c, ResourceKeys(pick[c]))
    BY <2>2, <2>3 DEF LocksFree
  <2>5. \A q \in Procs : q # c => pick'[q] = pick[q] /\ keysOf'[q] = keysOf[q]
    BY <1>2 DEF TypeOK, ClaimById
  <2> QED
    BY <2>1, <2>2, <2>4, <2>5, StartJobControl, Names
<1>3. CASE CLINext(c)
  BY <1>0, <1>3, ControlFrame, Names DEF CLINext, table, job
<1>4. CASE CLIExit(c)
  BY <1>4, DiesControl, Names DEF CLIExit
<1>5. CASE Interrupt(c)
  BY <1>0, <1>5, ControlFrame, Names DEF Interrupt, table, claim, job
<1> QED
  BY <1>1, <1>2, <1>3, <1>4, <1>5

\* Starting, stopping and killing a process keep Control.
LEMMA LifecycleControl == TypeOK /\ Control /\ Lifecycle => Control'
<1> SUFFICES ASSUME TypeOK, Control, Lifecycle PROVE Control'
  OBVIOUS
<1>0. /\ pc \in [Procs -> {"off", "check", "wait", "scan", "claim", "insert", "byid", "exec"}]
      /\ ctl \in [Procs -> {"down", "up", "stopping"}]
  BY DEF TypeOK
<1>1. CASE StartServer
  <2>1. \A i \in JobIds : row'[i].st \in {"none", "queued"} => row[i].st \in {"none", "queued"}
    <3>1. \A i \in JobIds : row[i] \in Rows
      BY DEF TypeOK
    <3> QED
      BY <1>1, <3>1 DEF StartServer, ResetStaleJobs, Rows
  <2>2. /\ ctl' = [ctl EXCEPT ![Server] = "up"] /\ pc' = [pc EXCEPT ![Server] = "check"]
        /\ UNCHANGED <<pick, keysOf, locks, phase, owner, need, call>>
    BY <1>1 DEF StartServer, job
  <2> QED
    BY <1>0, <2>1, <2>2, ControlFrame, Names
<1>2. CASE StopServer
  BY <1>0, <1>2, ControlFrame, Names DEF StopServer, table, claim, job
<1>3. CASE DispatcherExit
  BY <1>0, <1>3, ControlFrame, Names DEF DispatcherExit, table, job
<1>4. CASE ServerDown
  BY <1>4, DiesControl, Names DEF ServerDown
<1>5. ASSUME NEW p \in Procs, Crash(p) PROVE Control'
  BY <1>5, DiesControl DEF Crash
<1> QED
  BY <1>1, <1>2, <1>3, <1>4, <1>5 DEF Lifecycle

\* Changes of mailboxes keep Control: held keys do not move with the mailbox row.
LEMMA ConfiguringControl == TypeOK /\ Control /\ Configuring => Control'
<1> SUFFICES ASSUME TypeOK, Control, Configuring PROVE Control'
  OBVIOUS
<1>1. ASSUME NEW m \in Mailboxes, DeleteMailbox(m) PROVE Control'
  <2>1. \A i \in JobIds : row'[i].st \in {"none", "queued"} => row[i].st \in {"none", "queued"}
    <3>1. \A i \in JobIds : row[i] \in Rows
      BY DEF TypeOK
    <3> QED
      BY <1>1, <3>1 DEF DeleteMailbox, CancelQueuedJobsForMailbox, Rows
  <2> QED
    BY <1>1, <2>1, ControlFrame DEF DeleteMailbox, claim, job
<1>2. ASSUME NEW m \in Mailboxes, EditMailbox(m) PROVE Control'
  BY <1>2, ControlFrame DEF EditMailbox, claim, job
<1>3. ASSUME NEW m \in Mailboxes, NEW a \in NewAddrs, RenameChecked(m, a) PROVE Control'
  BY <1>3, ControlFrame DEF RenameChecked, table, claim, job
<1>4. ASSUME NEW m \in Mailboxes, RenameMailbox(m) PROVE Control'
  BY <1>4, ControlFrame DEF RenameMailbox, claim, job
<1>5. ASSUME NEW n \in 1 .. MaxWorkers, SetWorkers(n) PROVE Control'
  BY <1>5, ControlFrame DEF SetWorkers, table, claim, job
<1> QED
  BY <1>1, <1>2, <1>3, <1>4, <1>5 DEF Configuring

\* Every step keeps Control.
LEMMA NextControl == TypeOK /\ Control /\ [Next]_vars => Control'
<1> SUFFICES ASSUME TypeOK, Control, [Next]_vars PROVE Control'
  OBVIOUS
<1>1. CASE UNCHANGED vars
  BY <1>1, ControlFrame DEF vars
<1> QED
  BY <1>1, DispatchingControl, ExecutingControl, CallingControl, CLIRunningControl,
     LifecycleControl, ConfiguringControl DEF Next

-----------------------------------------------------------------------------
(* Theorems about the lock table and about claims.                         *)

\* The inductive invariant holds in every reachable state.
LEMMA Inductive == Spec => []IInv
<1>1. Init => IInv
  BY InitType, InitControl DEF IInv
<1>2. IInv /\ [Next]_vars => IInv'
  BY NextType, NextControl DEF IInv, Control
<1> QED
  BY <1>1, <1>2, PTL DEF Spec

\* Every variable keeps its type.
THEOREM TypeCorrect == Spec => []TypeOK
<1>1. IInv => TypeOK
  BY DEF IInv
<1> QED
  BY <1>1, Inductive, PTL

\* The lock table of every process says exactly which of its jobs holds which
\* key (JobManager.locks), whatever crashes, is canceled, deleted or edited.
THEOREM LocksExact == Spec => []LockTableExact
<1>1. IInv => LockTableExact
  BY DEF IInv, Control
<1> QED
  BY <1>1, Inductive, PTL

\* Two jobs of one process that are in progress never hold the same key: the
\* mailbox, the IMAP server and the agent are used by one of them at a time.
\* (Of two processes nothing of the kind holds: each has a lock table of its own.)
KeysExclusive ==
  \A i, j \in JobIds :
    owner[i] \in Procs /\ owner[i] = owner[j] /\ phase[i] \in Holding /\ phase[j] \in Holding
      => i = j \/ need[i] \cap need[j] = {}

\* Whatever runs in one process, no resource key is held twice (acquireLocks).
THEOREM KeysAreExclusive == Spec => []KeysExclusive
<1>1. IInv => KeysExclusive
  <2> SUFFICES ASSUME IInv, NEW i \in JobIds, NEW j \in JobIds, owner[i] \in Procs,
                      owner[i] = owner[j], phase[i] \in Holding, phase[j] \in Holding,
                      NEW k \in need[i] \cap need[j]
               PROVE  i = j
    BY DEF KeysExclusive
  <2>1. k \in Keys
    BY DEF IInv, TypeOK
  <2>2. locks[owner[i]][k] = i /\ locks[owner[i]][k] = j
    BY <2>1 DEF IInv, Control, LockTableExact
  <2> QED
    BY <2>2
<1> QED
  BY <1>1, Inductive, PTL

-----------------------------------------------------------------------------
(* Who works on what.  The other properties of the queue rest on what a    *)
(* row, its goroutine, its owner and its keys say of each other: Tenure.   *)

\* The keys a claim of job j must bring, whatever its mailbox row says
\* besides the address: the agent, and the mailbox as long as none is renamed.
Reserves(j, K) ==
  row[j].mb # NoMailbox =>
    /\ row[j].kind \in AgentUsers => <<"agent", "one">> \in K
    /\ NewAddrs = {} /\ row[j].kind \in MailWriters => <<"mailbox", mbox[row[j].mb].addr>> \in K

\* What a row, its goroutine, its owner and its keys say of each other.
JobSound(j) ==
  /\ row[j].st \in {"none", "queued"} => owner[j] = Nobody
  /\ phase[j] # "none" => owner[j] # Nobody
  /\ phase[j] \in {"released", "uncounted"} => owner[j] = Server
  /\ need[j] # {} => phase[j] \in Holding
  /\ owner[j] = Server => ctl[Server] # "down"
  /\ owner[j] = Server /\ phase[j] \in Working => row[j].st = "running"
  /\ row[j].mb # NoMailbox /\ (row[j].st = "queued" \/ (owner[j] = Server /\ phase[j] \in Working))
       => Live(row[j].mb)
  /\ phase[j] \in Working => Reserves(j, need[j])

\* What a claim attempt knows: its candidates are rows of the table, and the
\* accepted one, while it waits, needs no key that was not looked up.
ClaimSound(p) ==
  /\ ctl[p] = "down" => pc[p] = "off"
  /\ \A j \in cand[p] : row[j].st # "none"
  /\ pc[p] = "claim" => /\ row[pick[p]].st # "none"
                        /\ row[pick[p]].st = "queued" => Reserves(pick[p], keysOf[p])

\* A CLI process owns nothing before its first claim, and what it accepted
\* was queued by a job of this run.
RunSound(c) ==
  /\ pc[c] \in {"off", "insert", "byid"} => \A j \in JobIds : owner[j] # c
  /\ pc[c] = "claim" => row[pick[c]].par # 0 /\ owner[row[pick[c]].par] = c

Tenure ==
  /\ \A j \in JobIds : JobSound(j)
  /\ \A p \in Procs : ClaimSound(p)
  /\ \A c \in CLIs : RunSound(c)

\* What a step leaves as it is: no mailbox goes, comes or gets a new address.
MailboxesKept ==
  \A m \in Mailboxes :
    /\ mbox'[m].live = mbox[m].live
    /\ NewAddrs = {} => mbox'[m].addr = mbox[m].addr

\* A row stays what it was asked to be, and does not go back into the queue.
RowKept(j) ==
  /\ row'[j].kind = row[j].kind /\ row'[j].mb = row[j].mb /\ row'[j].par = row[j].par
  /\ row'[j].st = "none" <=> row[j].st = "none"
  /\ row'[j].st = "queued" => row[j].st = "queued"

\* Its goroutine does not start, and works on only while the row says so.
PhaseKept(j) ==
  /\ phase'[j] \in Working => phase[j] \in Working
  /\ phase'[j] \in Holding <=> phase[j] \in Holding
  /\ phase'[j] # "none" => phase[j] # "none"
  /\ phase'[j] \in {"released", "uncounted"} => phase[j] \in {"released", "uncounted"}
  /\ owner[j] = Server /\ phase'[j] \in Working => row'[j].st = row[j].st

\* A mailbox that is there stays there.
LEMMA LiveKept ==
  ASSUME TypeOK, MailboxesKept, NEW j \in JobIds, RowKept(j), Live(row[j].mb)
  PROVE  Live(row[j].mb)'
<1>1. row[j].mb \in Mailboxes \cup {NoMailbox}
  BY DEF TypeOK, Rows
<1> QED
  BY <1>1 DEF Live, RowKept, MailboxesKept

\* A job the step does not touch.
LEMMA JobKept ==
  ASSUME TypeOK, MailboxesKept, NEW j \in JobIds, JobSound(j), RowKept(j), PhaseKept(j),
         owner'[j] = owner[j], need'[j] = need[j],
         owner[j] = Server /\ ctl'[Server] = "down" => ctl[Server] = "down"
  PROVE  JobSound(j)'
<1>1. row[j].mb \in Mailboxes \cup {NoMailbox}
  BY DEF TypeOK, Rows
<1>2. phase'[j] \in Working => Reserves(j, need[j])'
  BY <1>1 DEF JobSound, PhaseKept, Reserves, RowKept, MailboxesKept
<1>3. row'[j].mb # NoMailbox /\ (row'[j].st = "queued" \/ (owner'[j] = Server /\ phase'[j] \in Working))
        => Live(row[j].mb)'
  BY LiveKept DEF JobSound, PhaseKept, RowKept
<1> QED
  BY <1>2, <1>3 DEF JobSound, PhaseKept, RowKept

\* A claim attempt the step does not touch.
LEMMA ClaimKept ==
  ASSUME TypeOK, PickNamed, MailboxesKept, \A j \in JobIds : RowKept(j),
         NEW p \in Procs, ClaimSound(p), cand'[p] \subseteq cand[p] \cup Queued,
         pc'[p] = "claim" => pc[p] = "claim" /\ pick'[p] = pick[p] /\ keysOf'[p] = keysOf[p],
         ctl'[p] = "down" => pc'[p] = "off"
  PROVE  ClaimSound(p)'
<1>1. \A j \in cand'[p] : row'[j].st # "none"
  <2> SUFFICES ASSUME NEW j \in cand'[p] PROVE row'[j].st # "none"
    OBVIOUS
  <2>1. j \in JobIds /\ row[j].st # "none"
    BY DEF TypeOK, ClaimSound, Queued
  <2> QED
    BY <2>1 DEF RowKept
<1>2. ASSUME pc'[p] = "claim"
      PROVE  /\ row'[pick'[p]].st # "none"
             /\ row'[pick'[p]].st = "queued" => Reserves(pick[p], keysOf[p])'
  <2>1. pick[p] \in JobIds /\ pc[p] = "claim" /\ pick'[p] = pick[p] /\ keysOf'[p] = keysOf[p]
    BY <1>2 DEF PickNamed
  <2>2. RowKept(pick[p]) /\ row[pick[p]].mb \in Mailboxes \cup {NoMailbox}
    BY <2>1 DEF TypeOK, Rows
  <2>3. row'[pick[p]].st = "queued" => Reserves(pick[p], keysOf[p])
    BY <2>1, <2>2 DEF ClaimSound, RowKept
  <2>4. row'[pick[p]].st = "queued" => Reserves(pick[p], keysOf[p])'
    BY <2>1, <2>2, <2>3 DEF Reserves, RowKept, MailboxesKept
  <2> QED
    BY <2>1, <2>2, <2>4 DEF ClaimSound, RowKept
<1> QED
  BY <1>1, <1>2 DEF ClaimSound

\* A run the step does not touch: it stays where it is, and keeps the jobs it owns.
LEMMA RunKept ==
  ASSUME TypeOK, PickNamed, \A j \in JobIds : RowKept(j), NEW c \in CLIs, RunSound(c),
         \A j \in JobIds : owner'[j] = c <=> owner[j] = c,
         pc'[c] = "claim" => pc[c] = "claim" /\ pick'[c] = pick[c],
         pc'[c] \in {"off", "insert", "byid"} => pc[c] \in {"off", "insert", "byid"}
  PROVE  RunSound(c)'
<1>1. ASSUME pc'[c] = "claim"
      PROVE  row'[pick'[c]].par # 0 /\ owner'[row'[pick'[c]].par] = c
  <2>1. pick[c] \in JobIds /\ pick'[c] = pick[c] /\ pc[c] = "claim"
    BY <1>1, Names DEF PickNamed
  <2>2. row[pick[c]].par # 0 /\ owner[row[pick[c]].par] = c
    BY <2>1 DEF RunSound
  <2>3. row[pick[c]].par \in JobIds
    BY <2>1, <2>2, BoundsAssumption DEF BoundsAssumption, TypeOK, Rows, JobIds
  <2> QED
    BY <2>1, <2>2, <2>3 DEF RowKept
<1> QED
  BY <1>1 DEF RunSound

\* What most steps do to Tenure: nothing.
LEMMA TenureFrame ==
  ASSUME TypeOK, PickNamed, Tenure, MailboxesKept,
         \A j \in JobIds : RowKept(j) /\ PhaseKept(j),
         UNCHANGED <<owner, need>>,
         ctl'[Server] = "down" => ctl[Server] = "down",
         \A p \in Procs :
            /\ cand'[p] \subseteq cand[p] \cup Queued
            /\ pc'[p] = "claim" => pc[p] = "claim" /\ pick'[p] = pick[p] /\ keysOf'[p] = keysOf[p]
            /\ ctl'[p] = "down" => pc'[p] = "off",
         \A c \in CLIs :
            pc'[c] \in {"off", "insert", "byid"} => pc[c] \in {"off", "insert", "byid"}
  PROVE  Tenure'
<1>1. ASSUME NEW j \in JobIds PROVE JobSound(j)'
  BY JobKept DEF Tenure
<1>2. ASSUME NEW p \in Procs PROVE ClaimSound(p)'
  BY ClaimKept DEF Tenure
<1>3. ASSUME NEW c \in CLIs PROVE RunSound(c)'
  BY RunKept, Names DEF Tenure
<1> QED
  BY <1>1, <1>2, <1>3 DEF Tenure

\* Rows, goroutines and mailboxes that stay as they are are kept.
LEMMA Kept ==
  ASSUME TypeOK
  PROVE  /\ UNCHANGED mbox => MailboxesKept
         /\ \A j \in JobIds : row'[j] = row[j] => RowKept(j)
         /\ \A j \in JobIds : row'[j] = row[j] /\ phase'[j] = phase[j] => PhaseKept(j)
<1>1. UNCHANGED mbox => MailboxesKept
  BY DEF MailboxesKept
<1>2. ASSUME NEW j \in JobIds, row'[j] = row[j] PROVE RowKept(j)
  BY <1>2 DEF RowKept
<1>3. ASSUME NEW j \in JobIds, row'[j] = row[j], phase'[j] = phase[j] PROVE PhaseKept(j)
  BY <1>3 DEF PhaseKept
<1> QED
  BY <1>1, <1>2, <1>3

\* Nobody owns anything at the start.
LEMMA InitTenure == Init => Tenure
<1> SUFFICES ASSUME Init PROVE Tenure
  OBVIOUS
<1>1. ASSUME NEW j \in JobIds PROVE JobSound(j)
  BY NamesAssumption DEF NamesAssumption, Procs, Init, NoRow, JobSound, Working, Holding
<1>2. ASSUME NEW p \in Procs PROVE ClaimSound(p)
  BY DEF Init, ClaimSound
<1>3. ASSUME NEW c \in CLIs PROVE RunSound(c)
  BY Names DEF Init, RunSound
<1> QED
  BY <1>1, <1>2, <1>3 DEF Tenure

\* A job that is claimed holds the keys of its mailbox row, which is there.
LEMMA StartJobTenure ==
  ASSUME TypeOK, Control, Tenure, NEW p \in Procs, NEW j \in JobIds, NEW K \in SUBSET Keys,
         StartJob(p, j, K), Reserves(j, K), pc[p] \in {"claim", "byid"},
         UNCHANGED <<ctl, mbox>>,
         \A q \in Procs : /\ cand'[q] \subseteq cand[q]
                          /\ q # p => pick'[q] = pick[q] /\ keysOf'[q] = keysOf[q]
  PROVE  Tenure'
<1>1. /\ row[j].st = "queued" /\ phase[j] = "none" /\ owner[j] = Nobody
      /\ row' = [row EXCEPT ![j].st = "running"]
      /\ phase' = [phase EXCEPT ![j] = "run"] /\ owner' = [owner EXCEPT ![j] = p]
      /\ need' = [need EXCEPT ![j] = K]
      /\ pc' = [pc EXCEPT ![p] = IF p = Server THEN "check" ELSE "exec"]
  BY DEF Control, QueuedIdle, StartJob, StillQueued, Tenure, JobSound
<1>2. /\ row \in [JobIds -> Rows] /\ phase \in [JobIds -> Phases]
      /\ owner \in [JobIds -> Procs \cup {Nobody}] /\ need \in [JobIds -> SUBSET Keys]
      /\ pc \in [Procs -> {"off", "check", "wait", "scan", "claim", "insert", "byid", "exec"}]
  BY DEF TypeOK
<1>3. \A i \in JobIds : i # j => /\ row'[i] = row[i] /\ phase'[i] = phase[i]
                                 /\ owner'[i] = owner[i] /\ need'[i] = need[i]
  BY <1>1, <1>2
<1>4. row'[j] = [row[j] EXCEPT !.st = "running"] /\ phase'[j] = "run" /\ owner'[j] = p
      /\ need'[j] = K
  BY <1>1, <1>2
<1>a. \A q \in Procs : ctl[q] = "down" => pc[q] = "off" /\ q # p
  BY DEF Tenure, ClaimSound
<1>5. MailboxesKept /\ PickNamed
  BY Kept DEF Control
<1>6. \A i \in JobIds : RowKept(i)
  <2>1. RowKept(j)
    BY <1>1, <1>2, <1>4 DEF RowKept, Rows
  <2> QED
    BY <1>3, <2>1, Kept
<1>7. ASSUME NEW i \in JobIds PROVE JobSound(i)'
  <2>1. CASE i # j
    <3>1. PhaseKept(i) /\ RowKept(i) /\ JobSound(i)
      BY <1>3, <1>6, <2>1, Kept DEF Tenure
    <3> QED
      BY <1>3, <1>5, <2>1, <3>1, JobKept
  <2>2. CASE i = j
    <3>1. row'[j].mb = row[j].mb /\ row'[j].kind = row[j].kind /\ row'[j].st = "running"
      BY <1>2, <1>4 DEF Rows
    <3>2. row[j].mb # NoMailbox => Live(row[j].mb)
      BY <1>1 DEF Tenure, JobSound
    <3>3. Reserves(j, K)' /\ (row[j].mb # NoMailbox => Live(row[j].mb)')
      BY <3>1, <3>2 DEF Reserves, Live
    <3>4. p # Nobody
      BY Names
    <3> QED
      BY <1>4, <1>a, <2>2, <3>1, <3>3, <3>4 DEF JobSound, Reserves, Live, Working, Holding
  <2> QED
    BY <2>1, <2>2
<1>8. ASSUME NEW q \in Procs PROVE ClaimSound(q)'
  <2>1. /\ pc'[q] = "claim" => q # p /\ pc[q] = "claim"
        /\ ctl'[q] = "down" => pc'[q] = "off"
    BY <1>1, <1>2, <1>a
  <2>2. pc'[q] = "claim" => pc[q] = "claim" /\ pick'[q] = pick[q] /\ keysOf'[q] = keysOf[q]
    BY <2>1
  <2>3. cand'[q] \subseteq cand[q] \cup Queued
    OBVIOUS
  <2> QED
    BY <1>5, <1>6, <2>1, <2>2, <2>3, ClaimKept DEF Tenure
<1>9. ASSUME NEW c \in CLIs PROVE RunSound(c)'
  <2>1. CASE c = p
    BY <1>1, <1>2, <2>1, Names DEF RunSound
  <2>2. CASE c # p
    <3>1. pc'[c] = pc[c] /\ pick'[c] = pick[c]
      BY <1>1, <1>2, <2>2, Names
    <3>2. \A i \in JobIds : owner'[i] = c <=> owner[i] = c
      BY <1>1, <1>2, <1>3, <1>4, <2>2, Names
    <3> QED
      BY <1>5, <1>6, <3>1, <3>2, RunKept DEF Tenure
  <2> QED
    BY <2>1, <2>2
<1> QED
  BY <1>7, <1>8, <1>9 DEF Tenure

\* A step of one job alone.
LEMMA OneJobTenure ==
  ASSUME TypeOK, PickNamed, Tenure, NEW j \in JobIds, JobSound(j)', RowKept(j),
         \A i \in JobIds : i # j => /\ row'[i] = row[i] /\ phase'[i] = phase[i]
                                    /\ owner'[i] = owner[i] /\ need'[i] = need[i],
         UNCHANGED <<mbox, ctl, cand, pick, keysOf>>,
         \A p \in Procs : /\ pc'[p] = "claim" => pc[p] = "claim"
                          /\ ctl[p] = "down" => pc'[p] = "off",
         \A c \in CLIs :
            /\ owner'[j] = c <=> owner[j] = c
            /\ pc'[c] \in {"off", "insert", "byid"} => pc[c] \in {"off", "insert", "byid"}
  PROVE  Tenure'
<1>1. MailboxesKept /\ \A i \in JobIds : RowKept(i) /\ (i # j => PhaseKept(i))
  BY Kept
<1>2. ASSUME NEW i \in JobIds PROVE JobSound(i)'
  <2>1. CASE i # j
    BY <1>1, <2>1, JobKept DEF Tenure
  <2> QED
    BY <2>1
<1>3. ASSUME NEW p \in Procs PROVE ClaimSound(p)'
  BY <1>1, ClaimKept DEF Tenure
<1>4. ASSUME NEW c \in CLIs PROVE RunSound(c)'
  <2>1. \A i \in JobIds : owner'[i] = c <=> owner[i] = c
    OBVIOUS
  <2> QED
    BY <1>1, <2>1, RunKept, Names DEF Tenure
<1> QED
  BY <1>2, <1>3, <1>4 DEF Tenure

\* The death of a process ends its jobs and leaves the others.
LEMMA DiesTenure ==
  ASSUME TypeOK, Control, Tenure, NEW p \in Procs, Dies(p)
  PROVE  Tenure'
<1>1. /\ \A q \in Procs : IF q = p THEN pc'[q] = "off" /\ ctl'[q] = "down" /\ cand'[q] = {}
                          ELSE /\ pc'[q] = pc[q] /\ pick'[q] = pick[q] /\ ctl'[q] = ctl[q]
                               /\ keysOf'[q] = keysOf[q] /\ cand'[q] = cand[q]
      /\ UNCHANGED <<row, mbox>>
  BY DEF TypeOK, Dies, Unpick, table
<1>2. \A j \in JobIds :
        IF owner[j] = p THEN phase'[j] = "none" /\ owner'[j] = Nobody /\ need'[j] = {}
        ELSE phase'[j] = phase[j] /\ owner'[j] = owner[j] /\ need'[j] = need[j]
  BY DEF TypeOK, Dies
<1>3. /\ MailboxesKept /\ PickNamed
      /\ \A j \in JobIds : RowKept(j) /\ (owner[j] # p => PhaseKept(j))
  BY <1>1, <1>2, Kept DEF Control
<1>4. ASSUME NEW j \in JobIds PROVE JobSound(j)'
  <2>1. JobSound(j)
    BY DEF Tenure
  <2>2. CASE owner[j] = p
    <3>1. row[j].st = "queued" => owner[j] = Nobody
      BY <2>1 DEF JobSound
    <3>2. row[j].st # "queued"
      BY <2>2, <3>1, Names
    <3> QED
      BY <1>1, <1>2, <2>2, <3>2, Names DEF JobSound, Working, Holding
  <2>3. CASE owner[j] # p
    <3>1. owner[j] = Server /\ ctl'[Server] = "down" => ctl[Server] = "down"
      BY <1>1, <2>3, Names
    <3> QED
      BY <1>2, <1>3, <2>1, <2>3, <3>1, JobKept
  <2> QED
    BY <2>2, <2>3
<1>5. ASSUME NEW q \in Procs PROVE ClaimSound(q)'
  <2>1. /\ pc'[q] = "claim" => pc[q] = "claim" /\ pick'[q] = pick[q] /\ keysOf'[q] = keysOf[q]
        /\ ctl'[q] = "down" => pc'[q] = "off"
        /\ cand'[q] \subseteq cand[q] \cup Queued
    BY <1>1 DEF Tenure, ClaimSound
  <2> QED
    BY <1>3, <2>1, ClaimKept DEF Tenure
<1>6. ASSUME NEW c \in CLIs PROVE RunSound(c)'
  <2>1. CASE c = p
    BY <1>1, <1>2, <2>1, Names DEF RunSound
  <2>2. CASE c # p
    <3>1. \A i \in JobIds : owner'[i] = c <=> owner[i] = c
      BY <1>2, <2>2, Names
    <3> QED
      BY <1>1, <1>3, <2>2, <3>1, Names, RunKept DEF Tenure
  <2> QED
    BY <2>1, <2>2
<1> QED
  BY <1>4, <1>5, <1>6 DEF Tenure

\* The steps of the dispatcher keep Tenure.
LEMMA DispatchingTenure == TypeOK /\ Control /\ Tenure /\ Dispatching => Tenure'
<1> SUFFICES ASSUME TypeOK, Control, Tenure, Dispatching PROVE Tenure'
  OBVIOUS
<1>0. /\ pc \in [Procs -> {"off", "check", "wait", "scan", "claim", "insert", "byid", "exec"}]
      /\ cand \in [Procs -> SUBSET JobIds] /\ PickNamed
      /\ \A p \in Procs : ctl[p] = "down" => pc[p] = "off"
  BY DEF TypeOK, Control, Tenure, ClaimSound
<1>1. CASE Dispatch
  BY <1>0, <1>1, TenureFrame, Kept, Names DEF Dispatch, table, job
<1>2. CASE NoFreeWorker
  BY <1>0, <1>2, TenureFrame, Kept, Names DEF NoFreeWorker, table, job
<1>3. CASE NothingRunnable
  BY <1>0, <1>3, TenureFrame, Kept, Names DEF NothingRunnable, table, job
<1>4. CASE Wakeup
  BY <1>0, <1>4, TenureFrame, Kept, Names DEF Wakeup, table, job
<1>5. CASE Tick
  BY <1>0, <1>5, TenureFrame, Kept, Names DEF Tick, table, job
<1>6. ASSUME NEW p \in Procs, Scan(p) PROVE Tenure'
  <2>1. PICK j \in Oldest(cand[p]) :
          /\ cand' = [cand EXCEPT ![p] = @ \ {j}]
          /\ IF CanRun(p, j)
               THEN /\ pc'     = [pc EXCEPT ![p] = "claim"]
                    /\ pick'   = [pick EXCEPT ![p] = j]
                    /\ keysOf' = [keysOf EXCEPT ![p] = ResourceKeys(j)]
               ELSE UNCHANGED <<pc, pick, keysOf>>
    BY <1>6 DEF Scan
  <2>2. UNCHANGED <<row, mbox, ctl, phase, owner, need>> /\ pc[p] = "scan"
    BY <1>6 DEF Scan, table, job
  <2>3. MailboxesKept /\ \A i \in JobIds : RowKept(i) /\ PhaseKept(i)
    BY <2>2, Kept
  <2>4. \A q \in Procs : cand'[q] \subseteq cand[q] \cup Queued
    BY <1>0, <2>1
  <2>5. CASE ~CanRun(p, j)
    BY <1>0, <2>1, <2>2, <2>3, <2>4, <2>5, TenureFrame
  <2>6. CASE CanRun(p, j)
    <3>1. j \in cand[p] /\ j \in JobIds /\ row[j].st # "none" /\ Accepts(p, j)
      BY <2>6 DEF TypeOK, Oldest, CanRun, Tenure, ClaimSound
    <3>2. /\ \A q \in Procs : q # p => /\ pc'[q] = pc[q] /\ pick'[q] = pick[q]
                                       /\ keysOf'[q] = keysOf[q]
          /\ pc'[p] = "claim" /\ pick'[p] = j /\ keysOf'[p] = ResourceKeys(j)
      BY <2>1, <2>6 DEF TypeOK
    <3>3. row[j].st = "queued" => Reserves(j, ResourceKeys(j))
      <4>1. row[j].st = "queued" /\ row[j].mb # NoMailbox => Live(row[j].mb)
        BY <3>1 DEF Tenure, JobSound
      <4> QED
        BY <4>1 DEF Reserves, ResourceKeys, MailboxJobKeys, AgentUsers, MailWriters
    <3>4. ASSUME NEW i \in JobIds PROVE JobSound(i)'
      BY <2>2, <2>3, JobKept DEF Tenure
    <3>5. ASSUME NEW q \in Procs PROVE ClaimSound(q)'
      <4>1. CASE q = p
        <5>1. \A i \in cand'[p] : row'[i].st # "none"
          BY <2>1, <2>2 DEF TypeOK, Tenure, ClaimSound
        <5>2. ctl'[p] = "down" => FALSE
          BY <1>0, <2>2
        <5>3. row'[j].st # "none" /\ (row'[j].st = "queued" => Reserves(j, ResourceKeys(j))')
          BY <2>2, <3>1, <3>3 DEF Reserves, ResourceKeys, MailboxJobKeys, Live
        <5> QED
          BY <2>2, <3>1, <3>2, <3>3, <4>1, <5>1, <5>2 DEF ClaimSound, Reserves
      <4>2. CASE q # p
        BY <1>0, <2>2, <2>3, <2>4, <3>2, <4>2, ClaimKept DEF Tenure
      <4> QED
        BY <4>1, <4>2
    <3>6. ASSUME NEW c \in CLIs PROVE RunSound(c)'
      <4>1. CASE c = p
        BY <2>2, <3>1, <3>2, <4>1, Names DEF RunSound, Accepts
      <4>2. CASE c # p
        BY <1>0, <2>2, <2>3, <3>2, <4>2, Names, RunKept DEF Tenure
      <4> QED
        BY <4>1, <4>2
    <3> QED
      BY <3>4, <3>5, <3>6 DEF Tenure
  <2> QED
    BY <2>5, <2>6
<1>7. ASSUME NEW p \in Procs, Claim(p) PROVE Tenure'
  <2>1. /\ pc[p] = "claim" /\ StartJob(p, pick[p], keysOf[p])
        /\ UNCHANGED <<ctl, mbox>>
    BY <1>7 DEF Claim
  <2>2. pick[p] \in JobIds /\ keysOf[p] \in SUBSET Keys
    BY <2>1 DEF TypeOK, Control, PickNamed
  <2>3. Reserves(pick[p], keysOf[p])
    BY <2>1 DEF StartJob, StillQueued, Tenure, ClaimSound
  <2>4. \A q \in Procs : /\ cand'[q] \subseteq cand[q]
                         /\ q # p => pick'[q] = pick[q] /\ keysOf'[q] = keysOf[q]
    BY <1>7 DEF TypeOK, Claim, Unpick
  <2> QED
    BY <2>1, <2>2, <2>3, <2>4, StartJobTenure
<1>8. ASSUME NEW p \in Procs, ClaimLost(p) PROVE Tenure'
  <2>1. \A q \in Procs : q # p => /\ pc'[q] = pc[q] /\ pick'[q] = pick[q]
                                  /\ keysOf'[q] = keysOf[q]
    BY <1>8 DEF TypeOK, ClaimLost, Unpick
  <2>2. /\ pc[p] = "claim" /\ pc'[p] = "scan"
        /\ UNCHANGED <<row, mbox, ctl, cand, phase, owner, need>>
    BY <1>0, <1>8 DEF ClaimLost, table, job
  <2>3. MailboxesKept /\ \A i \in JobIds : RowKept(i) /\ PhaseKept(i)
    BY <2>2, Kept
  <2> QED
    BY <1>0, <2>1, <2>2, <2>3, TenureFrame, Names
<1>9. ASSUME NEW p \in Procs, ClaimFails(p) PROVE Tenure'
  <2>1. /\ pc[p] \in {"scan", "claim", "byid"} /\ pc'[p] = "scan" /\ cand'[p] = {}
        /\ \A q \in Procs : q # p => /\ pc'[q] = pc[q] /\ cand'[q] = cand[q]
                                    /\ pick'[q] = pick[q] /\ keysOf'[q] = keysOf[q]
        /\ UNCHANGED <<mbox, ctl, phase, owner, need>>
    BY <1>9, ClaimFailsStep DEF Control
  <2>2. ASSUME NEW i \in JobIds PROVE RowKept(i) /\ PhaseKept(i)
    <3>1. \/ row'[i] = row[i]
          \/ row[i].st = "queued" /\ row'[i] = [row[i] EXCEPT !.st = "running"]
      BY <1>9, ClaimFailsStep DEF Control
    <3>2. CASE row'[i] = row[i]
      BY <2>1, <3>2, Kept
    <3>3. CASE row[i].st = "queued" /\ row'[i] = [row[i] EXCEPT !.st = "running"]
      <4>1. row[i] \in Rows /\ owner[i] # Server
        BY <3>3, Names DEF TypeOK, Tenure, JobSound
      <4> QED
        BY <2>1, <3>3, <4>1 DEF RowKept, PhaseKept, Rows
    <3> QED
      BY <3>1, <3>2, <3>3
  <2>3. MailboxesKept
    BY <2>1, Kept
  <2>4. \A q \in Procs : ctl'[q] = "down" => pc'[q] = "off"
    BY <2>1 DEF Tenure, ClaimSound
  <2> QED
    BY <2>1, <2>2, <2>3, <2>4, TenureFrame, Names DEF Control
<1> QED
  BY <1>1, <1>2, <1>3, <1>4, <1>5, <1>6, <1>7, <1>8, <1>9 DEF Dispatching

\* Writing an outcome ends the work on the row.
LEMMA FinishTenure ==
  ASSUME TypeOK, Control, Tenure, NEW j \in JobIds, NEW st \in Finished, phase[j] \in Working, Finish(j, st)
  PROVE  Tenure'
<1>1. \A i \in JobIds : i # j => row'[i] = row[i] /\ phase'[i] = phase[i]
  BY DEF TypeOK, Finish
<1>2. /\ row'[j].st = st /\ phase'[j] = "finished"
      /\ row'[j].kind = row[j].kind /\ row'[j].mb = row[j].mb /\ row'[j].par = row[j].par
  BY DEF TypeOK, Rows, Finish
<1>3. RowKept(j)
  BY <1>2 DEF RowKept, Control, QueuedIdle, Finished, Working
<1>4. PhaseKept(j)
  BY <1>2 DEF PhaseKept, Working, Holding
<1>5. UNCHANGED <<mbox, pc, cand, pick, keysOf, ctl, owner, need>>
  BY DEF Finish, claim
<1>6. MailboxesKept /\ \A i \in JobIds : RowKept(i) /\ PhaseKept(i)
  BY <1>1, <1>3, <1>4, <1>5, Kept
<1> QED
  BY <1>5, <1>6, TenureFrame DEF Control, Tenure, ClaimSound

\* The steps of a job's goroutine keep Tenure.
LEMMA ExecutingTenure == TypeOK /\ Control /\ Tenure /\ Executing => Tenure'
<1> SUFFICES ASSUME TypeOK, Control, Tenure, NEW j \in JobIds,
                    \/ WorkDone(j) \/ WorkFails(j) \/ EnqueueChild(j) \/ FinishJob(j)
                    \/ FinishLost(j) \/ ReleaseJob(j) \/ WorkerFree(j)
                    \/ NotifyDispatcher(j) \/ CLIRelease(j)
             PROVE  Tenure'
  BY DEF Executing
<1>0. /\ phase \in [JobIds -> Phases] /\ "error" \in Finished /\ "done" \in Finished
      /\ PickNamed /\ JobSound(j)
      /\ \A p \in Procs : ctl[p] = "down" => pc[p] = "off"
  BY DEF TypeOK, Finished, Control, Tenure, ClaimSound
<1>1. CASE WorkDone(j)
  <2>1. \A i \in JobIds : RowKept(i) /\ PhaseKept(i)
    BY <1>0, <1>1 DEF WorkDone, table, RowKept, PhaseKept, Working, Holding
  <2> QED
    BY <1>0, <1>1, <2>1, TenureFrame, Kept DEF WorkDone, table, claim
<1>2. CASE WorkFails(j)
  BY <1>0, <1>2, FinishTenure DEF WorkFails, Working
<1>3. CASE EnqueueChild(j)
  BY <1>0, <1>3, TenureFrame, Kept DEF EnqueueChild, table, claim
<1>4. CASE FinishJob(j)
  BY <1>0, <1>4, FinishTenure DEF FinishJob, Working
<1>5. CASE FinishLost(j)
  <2>1. \A i \in JobIds : RowKept(i) /\ PhaseKept(i)
    BY <1>0, <1>5 DEF FinishLost, table, RowKept, PhaseKept, Working, Holding
  <2> QED
    BY <1>0, <1>5, <2>1, TenureFrame, Kept DEF FinishLost, table, claim
<1>6. CASE ReleaseJob(j)
  <2>1. /\ owner[j] = Server /\ phase[j] = "finished" /\ phase' = [phase EXCEPT ![j] = "released"]
        /\ need' = [need EXCEPT ![j] = {}]
        /\ UNCHANGED <<row, mbox, ctl, pc, cand, pick, keysOf, owner>>
    BY <1>6 DEF ReleaseJob, ReleaseLocks, table, claim
  <2>2. /\ phase'[j] = "released" /\ need'[j] = {}
        /\ \A i \in JobIds : i # j => phase'[i] = phase[i] /\ need'[i] = need[i]
    BY <1>0, <2>1 DEF TypeOK
  <2>3. JobSound(j)'
    BY <1>0, <2>1, <2>2, Names DEF JobSound, Working, Live
  <2>4. RowKept(j)
    BY <2>1, Kept
  <2> QED
    BY <1>0, <2>1, <2>2, <2>3, <2>4, OneJobTenure
<1>7. CASE WorkerFree(j)
  <2>1. \A i \in JobIds : RowKept(i) /\ PhaseKept(i)
    BY <1>0, <1>7 DEF WorkerFree, table, RowKept, PhaseKept, Working, Holding
  <2> QED
    BY <1>0, <1>7, <2>1, TenureFrame, Kept DEF WorkerFree, table, claim
<1>8. CASE NotifyDispatcher(j)
  <2>1. /\ phase[j] = "uncounted" /\ phase' = [phase EXCEPT ![j] = "none"]
        /\ owner' = [owner EXCEPT ![j] = Nobody]
        /\ UNCHANGED <<row, mbox, ctl, pc, cand, pick, keysOf, need>>
    BY <1>8 DEF NotifyDispatcher, table, claim
  <2>2. /\ phase'[j] = "none" /\ owner'[j] = Nobody /\ owner[j] = Server
        /\ \A i \in JobIds : i # j => phase'[i] = phase[i] /\ owner'[i] = owner[i]
    BY <1>0, <2>1 DEF TypeOK, JobSound
  <2>3. need[j] = {} /\ row[j].st \notin {"none", "queued"}
    BY <1>0, <2>1, <2>2, Names DEF JobSound, Holding
  <2>4. JobSound(j)'
    BY <1>0, <2>1, <2>2, <2>3, Names DEF JobSound, Working, Live
  <2>5. RowKept(j) /\ \A c \in CLIs : owner'[j] # c /\ owner[j] # c
    BY <2>1, <2>2, Kept, Names
  <2> QED
    BY <1>0, <2>1, <2>2, <2>4, <2>5, OneJobTenure
<1>9. CASE CLIRelease(j)
  <2>1. /\ owner[j] \in CLIs /\ phase[j] = "finished" /\ phase' = [phase EXCEPT ![j] = "none"]
        /\ need' = [need EXCEPT ![j] = {}]
        /\ pc' = [pc EXCEPT ![owner[j]] = "check"]
        /\ UNCHANGED <<row, mbox, ctl, cand, pick, keysOf, owner>>
    BY <1>9 DEF CLIRelease, ReleaseLocks, table
  <2>2. /\ phase'[j] = "none" /\ need'[j] = {}
        /\ \A i \in JobIds : i # j => phase'[i] = phase[i] /\ need'[i] = need[i]
    BY <1>0, <2>1 DEF TypeOK
  <2>3. JobSound(j)'
    BY <1>0, <2>1, <2>2, Names DEF JobSound, Working, Live
  <2>4. RowKept(j)
    BY <2>1, Kept
  <2>5. pc[owner[j]] = "exec"
    BY <2>1 DEF Control, RunnerAlone
  <2>6. \A p \in Procs : /\ pc'[p] = IF p = owner[j] THEN "check" ELSE pc[p]
                         /\ ctl[p] = "down" => pc'[p] = "off"
    BY <1>0, <2>1, <2>5, Names DEF TypeOK
  <2> QED
    BY <1>0, <2>1, <2>2, <2>3, <2>4, <2>6, OneJobTenure, Names
<1> QED
  BY <1>1, <1>2, <1>3, <1>4, <1>5, <1>6, <1>7, <1>8, <1>9

\* A new row has a mailbox that is there; the others are left as they are.
LEMMA InsertRowTenure ==
  ASSUME TypeOK, Control, Tenure, NEW x \in Callers, InsertRow(x)
  PROVE  Tenure'
<1>1. PICK id \in Oldest(Unused) :
        /\ row' = [row EXCEPT ![id] =
                     [st |-> "queued", kind |-> call[x].ask.kind, mb |-> call[x].ask.mb,
                      tgt |-> call[x].ask.tgt, par |-> ParentOf(x)]]
        /\ IF x \in CLIs
             THEN /\ pc'   = [pc EXCEPT ![x] = "byid"]
                  /\ pick' = [pick EXCEPT ![x] = id]
             ELSE UNCHANGED <<pc, pick>>
  BY DEF InsertRow
<1>2. /\ call[x] # NoCall /\ (call[x].ask.mb # NoMailbox => Live(call[x].ask.mb))
      /\ UNCHANGED <<mbox, ctl, cand, keysOf, phase, owner, need>>
  BY DEF InsertRow
<1>3. id \in JobIds /\ row[id].st = "none" /\ phase[id] = "none" /\ owner[id] = Nobody
  BY DEF Oldest, Unused, Control, QueuedIdle, Tenure, JobSound
<1>4. /\ row'[id].st = "queued" /\ row'[id].mb = call[x].ask.mb
      /\ \A i \in JobIds : i # id => row'[i] = row[i]
  BY <1>1, <1>3 DEF TypeOK
<1>5. need[id] = {}
  BY <1>3 DEF Tenure, JobSound, Holding
<1>6. MailboxesKept /\ \A i \in JobIds : i # id => RowKept(i) /\ PhaseKept(i)
  BY <1>2, <1>4, Kept
<1>7. \A p \in Procs : pc[p] = "claim" => pick[p] # id /\ pick[p] \in JobIds
  BY <1>3 DEF Tenure, ClaimSound, Control, PickNamed
<1>8. ASSUME NEW i \in JobIds PROVE JobSound(i)'
  <2>1. CASE i # id
    BY <1>2, <1>6, <2>1, JobKept DEF Tenure
  <2>2. CASE i = id
    <3>1. row'[id].mb # NoMailbox => mbox'[row'[id].mb].live
      BY <1>2, <1>4 DEF Live
    <3>2. owner'[id] = Nobody /\ phase'[id] = "none" /\ need'[id] = {}
      BY <1>2, <1>3, <1>5
    <3> QED
      BY <1>4, <2>2, <3>1, <3>2, Names DEF JobSound, Working, Live
  <2> QED
    BY <2>1, <2>2
<1>9. \A p \in Procs : /\ pc'[p] = "claim" => pc[p] = "claim" /\ pick'[p] = pick[p]
                       /\ pc'[p] # pc[p] => p \in CLIs /\ pc[p] = "insert" /\ pc'[p] = "byid"
  <2>1. x \in CLIs => pc[x] = "insert"
    BY <1>2 DEF Control, RunnerAlone
  <2> QED
    BY <1>1, <2>1, Names DEF TypeOK
<1>10. ASSUME NEW p \in Procs PROVE ClaimSound(p)'
  <2>1. \A j \in cand'[p] : row'[j].st # "none"
    BY <1>2, <1>4 DEF TypeOK, Tenure, ClaimSound
  <2>2. ctl'[p] = "down" => pc'[p] = "off"
    BY <1>2, <1>9 DEF Tenure, ClaimSound
  <2>3. ASSUME pc'[p] = "claim"
        PROVE  pc[p] = "claim" /\ pick'[p] = pick[p] /\ row'[pick[p]] = row[pick[p]]
    BY <1>4, <1>7, <1>9, <2>3
  <2> QED
    BY <1>2, <2>1, <2>2, <2>3 DEF Tenure, ClaimSound, Reserves
<1>11. ASSUME NEW c \in CLIs PROVE RunSound(c)'
  <2>1. pc'[c] \in {"off", "insert", "byid"} => \A j \in JobIds : owner'[j] # c
    BY <1>2, <1>9, Names DEF Tenure, RunSound
  <2>2. ASSUME pc'[c] = "claim"
        PROVE  pc[c] = "claim" /\ pick'[c] = pick[c] /\ row'[pick[c]] = row[pick[c]]
    BY <1>4, <1>7, <1>9, <2>2, Names
  <2> QED
    BY <1>2, <2>1, <2>2 DEF Tenure, RunSound
<1> QED
  BY <1>8, <1>10, <1>11 DEF Tenure

\* Enqueueing and canceling keep Tenure.
LEMMA CallingTenure == TypeOK /\ Control /\ Tenure /\ Calling => Tenure'
<1> SUFFICES ASSUME TypeOK, Control, Tenure, Calling PROVE Tenure'
  OBVIOUS
<1>0. PickNamed /\ \A p \in Procs : ctl[p] = "down" => pc[p] = "off"
  BY DEF Control, Tenure, ClaimSound
<1>1. ASSUME NEW c \in Clients, NEW r \in Requests, BeginEnqueue(c, r) PROVE Tenure'
  BY <1>0, <1>1, TenureFrame, Kept DEF BeginEnqueue, table, claim, job
<1>2. ASSUME NEW x \in Callers, InsertRow(x) PROVE Tenure'
  BY <1>2, InsertRowTenure
<1>3. ASSUME NEW x \in Callers, InsertFails(x) PROVE Tenure'
  <2>1. UNCHANGED <<row, mbox, cand, pick, keysOf, phase, owner, need>>
    BY <1>3 DEF InsertFails, table
  <2>2. x \in CLIs => pc[x] = "insert"
    BY <1>3 DEF InsertFails, Control, RunnerAlone
  <2>3. \A p \in Procs : IF p = x /\ x \in CLIs THEN pc'[p] = "off" /\ ctl'[p] = "down"
                         ELSE pc'[p] = pc[p] /\ ctl'[p] = ctl[p]
    BY <1>3 DEF TypeOK, InsertFails
  <2>4. ctl'[Server] = ctl[Server]
    BY <2>3, Names
  <2>5. MailboxesKept /\ \A i \in JobIds : RowKept(i) /\ PhaseKept(i)
    BY <2>1, Kept
  <2> QED
    BY <1>0, <2>1, <2>2, <2>3, <2>4, <2>5, TenureFrame, Names
<1>4. ASSUME NEW x \in Callers, SendWake(x) PROVE Tenure'
  BY <1>0, <1>4, TenureFrame, Kept DEF SendWake, table, claim
<1>5. ASSUME NEW j \in JobIds, CancelQueuedJob(j) PROVE Tenure'
  <2>1. /\ row'[j] = [row[j] EXCEPT !.st = "canceled"] /\ row[j].st = "queued" /\ row[j] \in Rows
        /\ \A i \in JobIds : i # j => row'[i] = row[i]
        /\ UNCHANGED <<mbox, ctl, pc, cand, pick, keysOf, phase, owner, need>>
    BY <1>5 DEF TypeOK, CancelQueuedJob, claim, job
  <2>2. RowKept(j)
    BY <2>1 DEF RowKept, Rows
  <2>3. PhaseKept(j)
    BY <2>1 DEF PhaseKept, Control, QueuedIdle, Working
  <2>4. MailboxesKept /\ \A i \in JobIds : RowKept(i) /\ PhaseKept(i)
    BY <2>1, <2>2, <2>3, Kept
  <2> QED
    BY <1>0, <2>1, <2>4, TenureFrame
<1> QED
  BY <1>1, <1>2, <1>3, <1>4, <1>5 DEF Calling

\* An in-process run keeps Tenure: it claims its own row first.
LEMMA CLIRunningTenure == TypeOK /\ Control /\ Tenure /\ CLIRunning => Tenure'
<1> SUFFICES ASSUME TypeOK, Control, Tenure, NEW c \in CLIs,
                    \/ \E r \in Requests : CLIStart(c, r)
                    \/ ClaimById(c) \/ CLINext(c) \/ CLIExit(c) \/ Interrupt(c)
             PROVE  Tenure'
  BY DEF CLIRunning
<1>0. /\ PickNamed /\ \A p \in Procs : ctl[p] = "down" => pc[p] = "off"
      /\ pc \in [Procs -> {"off", "check", "wait", "scan", "claim", "insert", "byid", "exec"}]
      /\ ctl \in [Procs -> {"down", "up", "stopping"}]
      /\ cand \in [Procs -> SUBSET JobIds]
  BY DEF TypeOK, Control, Tenure, ClaimSound
<1>1. ASSUME NEW r \in Requests, CLIStart(c, r) PROVE Tenure'
  <2>1. /\ ctl[c] = "down" /\ pc' = [pc EXCEPT ![c] = "insert"] /\ ctl' = [ctl EXCEPT ![c] = "up"]
        /\ UNCHANGED <<row, mbox, cand, pick, keysOf, phase, owner, need>>
    BY <1>1 DEF CLIStart, table, job
  <2>2. \A p \in Procs : IF p = c THEN pc'[p] = "insert" /\ ctl'[p] = "up" /\ pc[p] = "off"
                         ELSE pc'[p] = pc[p] /\ ctl'[p] = ctl[p]
    BY <1>0, <2>1
  <2>3. MailboxesKept /\ \A i \in JobIds : RowKept(i) /\ PhaseKept(i)
    BY <2>1, Kept
  <2> QED
    BY <1>0, <2>1, <2>2, <2>3, TenureFrame, Names
<1>2. CASE ClaimById(c)
  <2>1. /\ pc[c] = "byid" /\ pick[c] \in JobIds /\ UNCHANGED <<ctl, mbox, cand>>
        /\ StartJob(c, pick[c], ResourceKeys(pick[c]))
    BY <1>2, Names DEF Control, PickNamed, ClaimById
  <2>2. ResourceKeys(pick[c]) \in SUBSET Keys
    BY <2>1, ResourceKeysType
  <2>3. Reserves(pick[c], ResourceKeys(pick[c]))
    <3>1. row[pick[c]].mb # NoMailbox => Live(row[pick[c]].mb)
      BY <2>1 DEF StartJob, StillQueued, Tenure, JobSound
    <3> QED
      BY <3>1 DEF Reserves, ResourceKeys, MailboxJobKeys, AgentUsers, MailWriters
  <2>4. \A q \in Procs : q # c => pick'[q] = pick[q] /\ keysOf'[q] = keysOf[q]
    BY <1>2 DEF TypeOK, ClaimById
  <2> QED
    BY <2>1, <2>2, <2>3, <2>4, StartJobTenure, Names
<1>3. CASE CLINext(c)
  BY <1>0, <1>3, TenureFrame, Kept, Names DEF CLINext, table, job
<1>4. CASE CLIExit(c)
  BY <1>4, DiesTenure, Names DEF CLIExit
<1>5. CASE Interrupt(c)
  BY <1>0, <1>5, TenureFrame, Kept, Names DEF Interrupt, table, claim, job
<1> QED
  BY <1>1, <1>2, <1>3, <1>4, <1>5

\* Starting, stopping and killing a process keep Tenure: no job of a server is
\* left when the next one marks what says running (ResetRunningJobs).
LEMMA LifecycleTenure == TypeOK /\ Control /\ Tenure /\ Lifecycle => Tenure'
<1> SUFFICES ASSUME TypeOK, Control, Tenure, Lifecycle PROVE Tenure'
  OBVIOUS
<1>0. /\ PickNamed /\ \A p \in Procs : ctl[p] = "down" => pc[p] = "off"
      /\ pc \in [Procs -> {"off", "check", "wait", "scan", "claim", "insert", "byid", "exec"}]
      /\ ctl \in [Procs -> {"down", "up", "stopping"}]
  BY DEF TypeOK, Control, Tenure, ClaimSound
<1>1. CASE StartServer
  <2>1. /\ ctl[Server] = "down" /\ ctl' = [ctl EXCEPT ![Server] = "up"]
        /\ pc' = [pc EXCEPT ![Server] = "check"]
        /\ UNCHANGED <<mbox, cand, pick, keysOf, phase, owner, need>>
        /\ ResetStaleJobs \/ UNCHANGED row
    BY <1>1 DEF StartServer, job
  <2>2. ASSUME NEW i \in JobIds PROVE RowKept(i) /\ PhaseKept(i)
    <3>1. owner[i] # Server /\ row[i] \in Rows
      BY <2>1 DEF TypeOK, Tenure, JobSound
    <3>2. \/ row'[i] = IF row[i].st = "running" THEN [row[i] EXCEPT !.st = "error"] ELSE row[i]
          \/ row'[i] = row[i]
      BY <2>1 DEF ResetStaleJobs
    <3> QED
      BY <2>1, <3>1, <3>2 DEF RowKept, PhaseKept, Rows
  <2>3. \A p \in Procs : IF p = Server THEN pc'[p] = "check" /\ ctl'[p] = "up"
                         ELSE pc'[p] = pc[p] /\ ctl'[p] = ctl[p]
    BY <1>0, <2>1
  <2>4. MailboxesKept
    BY <2>1, Kept
  <2> QED
    BY <1>0, <2>1, <2>2, <2>3, <2>4, TenureFrame, Names
<1>2. CASE StopServer
  BY <1>0, <1>2, TenureFrame, Kept, Names DEF StopServer, table, claim, job
<1>3. CASE DispatcherExit
  BY <1>0, <1>3, TenureFrame, Kept, Names DEF DispatcherExit, table, job
<1>4. CASE ServerDown
  BY <1>4, DiesTenure, Names DEF ServerDown
<1>5. ASSUME NEW p \in Procs, Crash(p) PROVE Tenure'
  BY <1>5, DiesTenure DEF Crash
<1> QED
  BY <1>1, <1>2, <1>3, <1>4, <1>5 DEF Lifecycle

\* A mailbox goes only with its waiting jobs and while none of it is running.
LEMMA DeleteMailboxTenure ==
  ASSUME TypeOK, Control, Tenure, NEW m \in Mailboxes, DeleteMailbox(m)
  PROVE  Tenure'
<1>1. /\ ~HasRunningJobForMailbox(m) /\ mbox' = [mbox EXCEPT ![m].live = FALSE]
      /\ UNCHANGED <<ctl, pc, cand, pick, keysOf, phase, owner, need>>
      /\ \A i \in JobIds :
           row'[i] = IF row[i].mb = m /\ row[i].st = "queued"
                       THEN [row[i] EXCEPT !.st = "canceled"] ELSE row[i]
  BY DEF DeleteMailbox, CancelQueuedJobsForMailbox, claim, job
<1>2. \A n \in Mailboxes : /\ mbox'[n].addr = mbox[n].addr
                           /\ n # m => mbox'[n] = mbox[n]
  <2>1. \A n \in Mailboxes : mbox[n] \in Boxes
    BY DEF TypeOK
  <2> QED
    BY <1>1, <2>1 DEF TypeOK, Boxes
<1>3. ASSUME NEW i \in JobIds
      PROVE  /\ row'[i].kind = row[i].kind /\ row'[i].mb = row[i].mb /\ row'[i].par = row[i].par
             /\ row'[i].st = row[i].st \/ (row[i].st = "queued" /\ row'[i].st = "canceled")
             /\ row'[i].st = "queued" => row[i].mb # m
             /\ row[i].mb \in Mailboxes \cup {NoMailbox}
  <2>1. row[i] \in Rows
    BY DEF TypeOK
  <2> QED
    BY <1>1, <2>1 DEF Rows
<1>4. ASSUME NEW i \in JobIds PROVE JobSound(i)'
  <2>1. JobSound(i)
    BY DEF Tenure
  <2>2. row[i].st = "queued" => phase[i] = "none" /\ owner[i] = Nobody
    BY <2>1 DEF Control, QueuedIdle, JobSound
  <2>3. row'[i].st \in {"none", "queued"} => owner'[i] = Nobody
    BY <1>1, <1>3, <2>1 DEF JobSound
  <2>4. owner[i] = Server /\ phase[i] \in Working => row'[i].st = "running" /\ row[i].mb # m
    BY <1>1, <1>3, <2>1, <2>2, Names DEF JobSound, HasRunningJobForMailbox
  <2>5. row'[i].mb # NoMailbox /\ (row'[i].st = "queued" \/ (owner'[i] = Server /\ phase'[i] \in Working))
          => Live(row[i].mb)'
    <3>1. SUFFICES ASSUME row[i].mb # NoMailbox,
                          row'[i].st = "queued" \/ (owner[i] = Server /\ phase[i] \in Working)
                   PROVE  Live(row[i].mb)'
      BY <1>1, <1>3
    <3>2. row[i].mb # m /\ Live(row[i].mb) /\ row[i].mb \in Mailboxes
      BY <1>3, <2>1, <2>4, <3>1 DEF JobSound
    <3> QED
      BY <1>2, <1>3, <3>2 DEF Live
  <2>6. phase'[i] \in Working => Reserves(i, need[i])'
    BY <1>1, <1>2, <1>3, <2>1 DEF JobSound, Reserves
  <2> QED
    BY <1>1, <1>3, <2>1, <2>3, <2>4, <2>5, <2>6 DEF JobSound
<1>5. ASSUME NEW p \in Procs PROVE ClaimSound(p)'
  <2>1. ClaimSound(p) /\ cand[p] \subseteq JobIds /\ (pc[p] = "claim" => pick[p] \in JobIds)
    BY DEF TypeOK, Tenure, Control, PickNamed
  <2>2. pc[p] = "claim" /\ row'[pick[p]].st = "queued" => Reserves(pick[p], keysOf[p])'
    BY <1>1, <1>2, <1>3, <2>1 DEF ClaimSound, Reserves
  <2> QED
    BY <1>1, <1>3, <2>1, <2>2 DEF ClaimSound
<1>6. ASSUME NEW c \in CLIs PROVE RunSound(c)'
  <2>1. RunSound(c) /\ (pc[c] = "claim" => pick[c] \in JobIds)
    BY Names DEF Tenure, Control, PickNamed
  <2> QED
    BY <1>1, <1>3, <2>1 DEF RunSound
<1> QED
  BY <1>4, <1>5, <1>6 DEF Tenure

\* Changes of mailboxes keep Tenure.
LEMMA ConfiguringTenure == TypeOK /\ Control /\ Tenure /\ Configuring => Tenure'
<1> SUFFICES ASSUME TypeOK, Control, Tenure, Configuring PROVE Tenure'
  OBVIOUS
<1>0. PickNamed /\ \A p \in Procs : ctl[p] = "down" => pc[p] = "off"
  BY DEF Control, Tenure, ClaimSound
<1>1. ASSUME NEW m \in Mailboxes, DeleteMailbox(m) PROVE Tenure'
  BY <1>1, DeleteMailboxTenure
<1>2. ASSUME NEW m \in Mailboxes, EditMailbox(m) PROVE Tenure'
  <2>1. /\ mbox[m].live /\ UNCHANGED <<row, ctl, pc, cand, pick, keysOf, phase, owner, need>>
        /\ \E b \in Boxes : b.addr = mbox[m].addr /\ b.live /\ mbox' = [mbox EXCEPT ![m] = b]
    BY <1>2 DEF EditMailbox, Live, claim, job
  <2>2. MailboxesKept
    BY <2>1 DEF TypeOK, Boxes, MailboxesKept
  <2>3. \A i \in JobIds : RowKept(i) /\ PhaseKept(i)
    BY <2>1, Kept
  <2> QED
    BY <1>0, <2>1, <2>2, <2>3, TenureFrame
<1>3. ASSUME NEW m \in Mailboxes, NEW a \in NewAddrs, RenameChecked(m, a) PROVE Tenure'
  BY <1>0, <1>3, TenureFrame, Kept DEF RenameChecked, table, claim, job
<1>4. ASSUME NEW m \in Mailboxes, RenameMailbox(m) PROVE Tenure'
  <2>1. /\ renaming[m] \in NewAddrs
        /\ UNCHANGED <<row, ctl, pc, cand, pick, keysOf, phase, owner, need>>
        /\ mbox' = mbox \/ mbox' = [mbox EXCEPT ![m].addr = renaming[m]]
    BY <1>4 DEF TypeOK, RenameMailbox, claim, job
  <2>2. \A n \in Mailboxes : mbox'[n].live = mbox[n].live
    <3>1. \A n \in Mailboxes : mbox[n] \in Boxes
      BY DEF TypeOK
    <3> QED
      BY <2>1, <3>1 DEF TypeOK, Boxes
  <2>3. MailboxesKept /\ \A i \in JobIds : RowKept(i) /\ PhaseKept(i)
    BY <2>1, <2>2, Kept DEF MailboxesKept
  <2> QED
    BY <1>0, <2>1, <2>3, TenureFrame
<1>5. ASSUME NEW n \in 1 .. MaxWorkers, SetWorkers(n) PROVE Tenure'
  BY <1>0, <1>5, TenureFrame, Kept DEF SetWorkers, table, claim, job
<1> QED
  BY <1>1, <1>2, <1>3, <1>4, <1>5 DEF Configuring

\* Every step keeps Tenure.
LEMMA NextTenure == TypeOK /\ Control /\ Tenure /\ [Next]_vars => Tenure'
<1> SUFFICES ASSUME TypeOK, Control, Tenure, [Next]_vars PROVE Tenure'
  OBVIOUS
<1>1. CASE UNCHANGED vars
  BY <1>1, TenureFrame, Kept DEF vars, Control, Tenure, ClaimSound
<1> QED
  BY <1>1, DispatchingTenure, ExecutingTenure, CallingTenure, CLIRunningTenure,
     LifecycleTenure, ConfiguringTenure DEF Next

\* Tenure holds in every reachable state.
LEMMA TenureHolds == Spec => [](IInv /\ Tenure)
<1>1. Init => IInv /\ Tenure
  BY InitType, InitControl, InitTenure DEF IInv
<1>2. IInv /\ Tenure /\ [Next]_vars => (IInv /\ Tenure)'
  BY NextType, NextControl, NextTenure DEF IInv, Control
<1> QED
  BY <1>1, <1>2, PTL DEF Spec

\* What keeps the row of a job true to the work on it: work does not start and
\* goes on over the same row, and if it ends the row does not say running or
\* the job is known to be left so.
RowTold(j) ==
  /\ phase'[j] \in Working =>
       phase[j] \in Working /\ owner'[j] = owner[j] /\ row'[j].st = row[j].st
  /\ row'[j].st = "running" =>
       /\ row[j].st = "running"
       /\ phase[j] \in Working => phase'[j] \in Working \/ j \in unwritten'
       /\ j \in unwritten => j \in unwritten'

\* A step that keeps the rows true.
LEMMA RowsStayTold ==
  ASSUME RowsTellWork, \A j \in JobIds : RowTold(j)
  PROVE  RowsTellWork'
BY DEF RowsTellWork, RowTold

\* Nothing but the memory of other jobs changes.
LEMMA RowsUntouched ==
  ASSUME UNCHANGED <<row, phase, owner, unwritten>>
  PROVE  \A j \in JobIds : RowTold(j)
BY DEF RowTold

\* A claim makes the row and the work agree (ClaimJobByID).
LEMMA StartJobTold ==
  ASSUME TypeOK, RowsTellWork, NEW p \in Procs, NEW j \in JobIds, NEW K, StartJob(p, j, K),
         UNCHANGED unwritten
  PROVE  RowsTellWork'
<1>1. row'[j].st = "running" /\ phase'[j] = "run"
  BY DEF TypeOK, Rows, StartJob
<1>2. ASSUME NEW i \in JobIds, i # j
      PROVE  row'[i] = row[i] /\ phase'[i] = phase[i] /\ owner'[i] = owner[i]
  BY <1>2 DEF TypeOK, StartJob
<1> QED
  BY <1>1, <1>2 DEF RowsTellWork, Working

\* The steps of the dispatcher.
LEMMA DispatchingTold ==
  ASSUME TypeOK, Control, RowsTellWork, Dispatching
  PROVE  RowsTellWork'
<1>1. ASSUME NEW p \in Procs, Claim(p) PROVE RowsTellWork'
  <2>1. pick[p] \in JobIds /\ StartJob(p, pick[p], keysOf[p]) /\ UNCHANGED unwritten
    BY <1>1 DEF Control, PickNamed, Claim
  <2> QED
    BY <2>1, StartJobTold
<1>2. ASSUME NEW p \in Procs, ClaimFails(p) PROVE RowsTellWork'
  <2>1. UNCHANGED <<phase, owner>> /\ unwritten \subseteq unwritten'
    BY <1>2, ClaimFailsStep DEF Control
  <2>2. ASSUME NEW i \in JobIds
        PROVE  \/ row'[i] = row[i]
               \/ phase[i] = "none" /\ i \in unwritten'
    <3>1. \/ row'[i] = row[i]
          \/ row[i].st = "queued" /\ i \in unwritten'
      BY <1>2, ClaimFailsStep DEF Control
    <3> QED
      BY <3>1 DEF Control, QueuedIdle
  <2> QED
    BY <2>1, <2>2 DEF RowsTellWork, Working
<1>3. ASSUME ~ \E p \in Procs : Claim(p) \/ ClaimFails(p)
      PROVE  UNCHANGED <<row, phase, owner, unwritten>>
  BY <1>3 DEF Dispatching, Dispatch, NoFreeWorker, NothingRunnable, Wakeup, Tick, Scan,
     ClaimLost, job, table
<1> QED
  BY <1>1, <1>2, <1>3, RowsUntouched, RowsStayTold

\* The steps of a job's goroutine: the outcome is written when the work ends,
\* or known not to be.
LEMMA ExecutingTold ==
  ASSUME TypeOK, RowsTellWork, Executing
  PROVE  RowsTellWork'
<1>0. PICK j \in JobIds : \/ WorkDone(j) \/ WorkFails(j) \/ EnqueueChild(j) \/ FinishJob(j)
                          \/ FinishLost(j) \/ ReleaseJob(j) \/ WorkerFree(j)
                          \/ NotifyDispatcher(j) \/ CLIRelease(j)
  BY DEF Executing
<1>a. phase \in [JobIds -> Phases]
  BY DEF TypeOK
<1>1. CASE WorkDone(j)
  <2>1. UNCHANGED <<row, owner, unwritten>> /\ phase[j] = "run"
        /\ phase' = [phase EXCEPT ![j] = "follow"]
    BY <1>1 DEF WorkDone, table
  <2>2. \A i \in JobIds : phase'[i] \in Working <=> phase[i] \in Working
    BY <1>a, <2>1 DEF Working
  <2> QED
    BY <2>1, <2>2, RowsStayTold DEF RowTold
<1>2. ASSUME NEW st \in Finished, Finish(j, st) PROVE RowsTellWork'
  <2>1. row'[j].st # "running" /\ phase'[j] \notin Working
    BY <1>2 DEF TypeOK, Rows, Finish, Finished, Working
  <2>2. ASSUME NEW i \in JobIds, i # j
        PROVE  row'[i] = row[i] /\ phase'[i] = phase[i]
    BY <2>2, <1>2 DEF TypeOK, Finish
  <2>3. UNCHANGED <<owner, unwritten>>
    BY <1>2 DEF Finish
  <2>4. \A i \in JobIds : RowTold(i)
    BY <2>1, <2>2, <2>3 DEF RowTold
  <2> QED
    BY <2>4, RowsStayTold
<1>3. CASE FinishLost(j)
  <2>1. UNCHANGED <<row, owner>> /\ phase' = [phase EXCEPT ![j] = "finished"]
        /\ unwritten' = unwritten \cup {j}
    BY <1>3 DEF FinishLost, table
  <2>2. ASSUME NEW i \in JobIds
        PROVE  IF i = j THEN phase'[i] \notin Working ELSE phase'[i] = phase[i]
    BY <1>a, <2>1 DEF Working
  <2>3. \A i \in JobIds : RowTold(i)
    BY <2>1, <2>2 DEF RowTold
  <2> QED
    BY <2>3, RowsStayTold
<1>4. CASE EnqueueChild(j)
  BY <1>4, RowsUntouched, RowsStayTold DEF EnqueueChild, table
<1>5. CASE ReleaseJob(j) \/ WorkerFree(j) \/ NotifyDispatcher(j) \/ CLIRelease(j)
  <2>1. /\ UNCHANGED <<row, unwritten>> /\ phase[j] \in Phases \ Working
        /\ \A i \in JobIds : i # j => phase'[i] = phase[i] /\ owner'[i] = owner[i]
        /\ phase'[j] \in Phases \ Working
    BY <1>a, <1>5 DEF TypeOK, ReleaseJob, WorkerFree, NotifyDispatcher, CLIRelease, table, Phases,
       Working
  <2>2. \A i \in JobIds : RowTold(i)
    BY <2>1 DEF RowTold
  <2> QED
    BY <2>2, RowsStayTold
<1> QED
  BY <1>0, <1>1, <1>2, <1>3, <1>4, <1>5 DEF WorkFails, FinishJob, Finished

\* Enqueueing and canceling concern rows nobody works on.
LEMMA CallingTold ==
  ASSUME TypeOK, Control, RowsTellWork, Calling
  PROVE  RowsTellWork'
<1>1. UNCHANGED <<phase, owner, unwritten>>
  BY DEF Calling, BeginEnqueue, InsertRow, InsertFails, SendWake, CancelQueuedJob, job
<1>2. ASSUME NEW i \in JobIds
      PROVE  \/ row'[i] = row[i]
             \/ row[i].st \in {"none", "queued"} /\ row'[i].st \in {"queued", "canceled"}
  <2>0. row \in [JobIds -> Rows]
    BY DEF TypeOK
  <2>1. ASSUME NEW x \in Callers, InsertRow(x)
        PROVE  row'[i] = row[i] \/ (row[i].st = "none" /\ row'[i].st = "queued")
    <3>1. PICK id \in Oldest(Unused) :
            row' = [row EXCEPT ![id] =
                      [st |-> "queued", kind |-> call[x].ask.kind, mb |-> call[x].ask.mb,
                       tgt |-> call[x].ask.tgt, par |-> ParentOf(x)]]
      BY <2>1 DEF InsertRow
    <3> QED
      BY <2>0, <3>1 DEF Oldest, Unused
  <2>2. ASSUME NEW j \in JobIds, CancelQueuedJob(j)
        PROVE  row'[i] = row[i] \/ (row[i].st = "queued" /\ row'[i].st = "canceled")
    BY <2>0, <2>2 DEF CancelQueuedJob, Rows
  <2>3. ASSUME ~ \E x \in Callers : InsertRow(x), ~ \E j \in JobIds : CancelQueuedJob(j)
        PROVE  row' = row
    BY <2>3 DEF Calling, BeginEnqueue, InsertFails, SendWake, table
  <2> QED
    BY <2>1, <2>2, <2>3
<1>3. \A i \in JobIds : row[i].st \in {"none", "queued"} => phase[i] \notin Working
  BY DEF Control, QueuedIdle, Working
<1>4. \A i \in JobIds : RowTold(i)
  BY <1>1, <1>2, <1>3 DEF RowTold
<1> QED
  BY <1>4, RowsStayTold

\* What a process that dies worked on is left running.
LEMMA DiesTold ==
  ASSUME TypeOK, RowsTellWork, NEW p \in Procs, Dies(p)
  PROVE  RowsTellWork'
<1>1. UNCHANGED row
  BY DEF Dies, table
<1>2. ASSUME NEW i \in JobIds
      PROVE  /\ owner[i] = p => phase'[i] = "none" /\ (phase[i] \in Working => i \in unwritten')
             /\ owner[i] # p => phase'[i] = phase[i] /\ owner'[i] = owner[i]
             /\ i \in unwritten => i \in unwritten'
  BY DEF TypeOK, Dies
<1>3. \A i \in JobIds : RowTold(i)
  BY <1>1, <1>2 DEF RowTold, Working
<1> QED
  BY <1>3, RowsStayTold

\* The steps of a command line run.
LEMMA CLIRunningTold ==
  ASSUME TypeOK, Control, RowsTellWork, CLIRunning
  PROVE  RowsTellWork'
<1>1. PICK c \in CLIs : \/ \E r \in Requests : CLIStart(c, r)
                        \/ ClaimById(c) \/ CLINext(c) \/ CLIExit(c) \/ Interrupt(c)
  BY DEF CLIRunning
<1>2. CASE ClaimById(c)
  <2>1. /\ pick[c] \in JobIds /\ UNCHANGED unwritten
        /\ StartJob(c, pick[c], ResourceKeys(pick[c]))
    BY <1>2, Names DEF Control, PickNamed, ClaimById
  <2> QED
    BY <2>1, Names, StartJobTold
<1>3. CASE CLIExit(c)
  BY <1>3, Names, DiesTold DEF CLIExit
<1>4. CASE CLINext(c) \/ Interrupt(c) \/ \E r \in Requests : CLIStart(c, r)
  <2>1. UNCHANGED <<row, phase, owner, unwritten>>
    BY <1>4 DEF CLIStart, CLINext, Interrupt, table, job
  <2> QED
    BY <2>1, RowsUntouched, RowsStayTold
<1> QED
  BY <1>1, <1>2, <1>3, <1>4

\* No work of a server is left when the next one marks what says running; a
\* terminal may still work on such a row.
LEMMA LifecycleTold ==
  ASSUME TypeOK, Tenure, RowsTellWork, Lifecycle
  PROVE  RowsTellWork'
<1>1. CASE StartServer
  <2>1. ctl[Server] = "down" /\ UNCHANGED <<phase, owner>>
    BY <1>1 DEF StartServer, job
  <2>2. CASE UNCHANGED <<row, unwritten>>
    BY <2>1, <2>2, RowsUntouched, RowsStayTold
  <2>3. CASE ResetStaleJobs
    <3>1. ASSUME NEW i \in JobIds
          PROVE  row'[i].st = IF row[i].st = "running" THEN "error" ELSE row[i].st
      BY <2>3 DEF ResetStaleJobs, TypeOK, Rows
    <3>2. \A i \in JobIds : owner[i] # Server
      BY <2>1 DEF Tenure, JobSound
    <3>3. \A i \in JobIds : phase[i] \in Working => owner[i] \in CLIs
      BY <3>2, Names DEF TypeOK, Tenure, JobSound, Working
    <3> QED
      BY <2>1, <3>1, <3>3 DEF RowsTellWork
  <2> QED
    BY <1>1, <2>2, <2>3 DEF StartServer
<1>2. CASE StopServer \/ DispatcherExit
  <2>1. UNCHANGED <<row, phase, owner, unwritten>>
    BY <1>2 DEF StopServer, DispatcherExit, table, job
  <2> QED
    BY <2>1, RowsUntouched, RowsStayTold
<1>3. CASE ServerDown
  BY <1>3, Names, DiesTold DEF ServerDown
<1>4. ASSUME NEW p \in Procs, Crash(p) PROVE RowsTellWork'
  BY <1>4, DiesTold DEF Crash
<1> QED
  BY <1>1, <1>2, <1>3, <1>4 DEF Lifecycle

\* The deletion of a mailbox ends waiting jobs only.
LEMMA ConfiguringTold ==
  ASSUME TypeOK, Control, RowsTellWork, Configuring
  PROVE  RowsTellWork'
<1>1. UNCHANGED <<phase, owner, unwritten>>
  BY DEF Configuring, DeleteMailbox, EditMailbox, RenameChecked, RenameMailbox, SetWorkers, job
<1>2. ASSUME NEW i \in JobIds
      PROVE  row'[i] = row[i] \/ (row[i].st = "queued" /\ row'[i].st = "canceled")
  <2>1. ASSUME NEW m \in Mailboxes, DeleteMailbox(m)
        PROVE  row'[i] = row[i] \/ (row[i].st = "queued" /\ row'[i].st = "canceled")
    BY <2>1 DEF DeleteMailbox, CancelQueuedJobsForMailbox, TypeOK, Rows
  <2>2. ASSUME ~ \E m \in Mailboxes : DeleteMailbox(m) PROVE row' = row
    BY <2>2 DEF Configuring, EditMailbox, RenameChecked, RenameMailbox, SetWorkers, table
  <2> QED
    BY <2>1, <2>2
<1>3. \A i \in JobIds : row[i].st = "queued" => phase[i] \notin Working
  BY DEF Control, QueuedIdle, Working
<1>4. \A i \in JobIds : RowTold(i)
  BY <1>1, <1>2, <1>3 DEF RowTold
<1> QED
  BY <1>4, RowsStayTold

\* A row says running exactly while a process works on its job, but for the
\* jobs whose end could not be written: over kills and restarts of the server
\* and of terminals, deletions, cancels and failed statements.
THEOREM RowsAreTrue == Spec => []RowsTellWork
<1>1. Init => RowsTellWork
  BY DEF Init, NoRow, RowsTellWork, Working
<1>2. IInv /\ Tenure /\ RowsTellWork /\ [Next]_vars => RowsTellWork'
  <2> SUFFICES ASSUME IInv, Tenure, RowsTellWork, [Next]_vars PROVE RowsTellWork'
    OBVIOUS
  <2>1. CASE UNCHANGED vars
    BY <2>1, RowsUntouched, RowsStayTold DEF vars
  <2> QED
    BY <2>1, DispatchingTold, ExecutingTold, CallingTold, CLIRunningTold, LifecycleTold,
       ConfiguringTold DEF Next, IInv
<1> QED
  BY <1>1, <1>2, TenureHolds, PTL DEF Spec

\* No job of the server works on a mailbox whose row is deleted
\* (deleteMailboxRow), whatever command line runs do meanwhile.
ServerWorksOnLive ==
  \A j \in JobIds :
    owner[j] = Server /\ phase[j] \in Working /\ row[j].mb # NoMailbox => Live(row[j].mb)

\* A deletion never takes the mailbox from under a job of the server: a waiting
\* job is canceled with it, a running one refuses it.
THEOREM ServerMailboxStays == Spec => []ServerWorksOnLive
<1>1. IInv /\ Tenure => ServerWorksOnLive
  BY DEF Tenure, JobSound, ServerWorksOnLive
<1> QED
  BY <1>1, TenureHolds, PTL

\* Without command line runs no job at all works on a deleted mailbox.  (With
\* one, a server that starts marks the row of its job as failed, and the
\* deletion is not refused any more.)
THEOREM DeletedIsIdle ==
  ASSUME CLIs = {}
  PROVE  Spec => []DeletedMailboxIdle
<1>1. IInv /\ Tenure => DeletedMailboxIdle
  <2> SUFFICES ASSUME IInv, Tenure, NEW j \in JobIds, phase[j] \in Working, row[j].mb # NoMailbox
               PROVE  Live(row[j].mb)
    BY DEF DeletedMailboxIdle
  <2>1. owner[j] = Server
    BY Names DEF IInv, TypeOK, Tenure, JobSound, Working
  <2> QED
    BY <2>1 DEF Tenure, JobSound
<1> QED
  BY <1>1, TenureHolds, PTL

\* Two jobs of one process do not both want one key.
LEMMA SameKey ==
  ASSUME IInv, Tenure, NEW i \in JobIds, NEW j \in JobIds, NEW k,
         phase[i] \in Working, phase[j] \in Working, owner[i] = owner[j],
         k \in need[i], k \in need[j]
  PROVE  i = j
<1>1. owner[i] \in Procs /\ phase[i] \in Holding /\ phase[j] \in Holding /\ k \in Keys
  BY DEF IInv, TypeOK, Tenure, JobSound, Working, Holding
<1>2. locks[owner[i]][k] = i /\ locks[owner[i]][k] = j
  BY <1>1 DEF IInv, Control, LockTableExact
<1> QED
  BY <1>2

\* An analysis and a job of one process that rewrites what it reads never run
\* together, nor do two analyses, whatever is edited, renamed or deleted.
EvidenceWithinProcess ==
  \A i, j \in JobIds :
    /\ phase[i] \in Working /\ phase[j] \in Working /\ owner[i] = owner[j]
    /\ row[i].kind = "analyze" /\ row[j].kind \in {"analyze", "reindex", "cleanup"}
    /\ row[i].mb # NoMailbox /\ row[j].mb # NoMailbox
    => i = j

\* The agent key is enough, in every process, for evidence that stays as it is
\* while the agent reads it (jobResourceKeys, claimRunnable).
THEOREM EvidenceStays == Spec => []EvidenceWithinProcess
<1>1. IInv /\ Tenure => EvidenceWithinProcess
  <2> SUFFICES ASSUME IInv, Tenure, NEW i \in JobIds, NEW j \in JobIds,
                      phase[i] \in Working, phase[j] \in Working, owner[i] = owner[j],
                      row[i].kind = "analyze", row[j].kind \in {"analyze", "reindex", "cleanup"},
                      row[i].mb # NoMailbox, row[j].mb # NoMailbox
               PROVE  i = j
    BY DEF EvidenceWithinProcess
  <2>1. <<"agent", "one">> \in need[i] /\ <<"agent", "one">> \in need[j]
    BY DEF Tenure, JobSound, Reserves, AgentUsers
  <2> QED
    BY <2>1, SameKey
<1> QED
  BY <1>1, TenureHolds, PTL

\* In the server two writers of one mailbox never run together, and evidence
\* stays as it is, as long as no mailbox is renamed: the check of a rename and
\* its write are apart, and a job claimed between them keeps the old address.
THEOREM ExclusiveWork ==
  ASSUME CLIs = {}, NewAddrs = {}
  PROVE  Spec => []WorkIsExclusive
<1>1. IInv /\ Tenure => WorkIsExclusive
  <2> SUFFICES ASSUME IInv, Tenure PROVE OneWriterPerMailbox /\ StableEvidence
    BY DEF WorkIsExclusive
  <2>1. \A j \in JobIds : phase[j] \in Working => owner[j] = Server
    BY Names DEF IInv, TypeOK, Tenure, JobSound, Working
  <2>2. OneWriterPerMailbox
    <3> SUFFICES ASSUME NEW i \in JobIds, NEW j \in JobIds,
                        phase[i] \in Working, phase[j] \in Working,
                        row[i].kind \in MailWriters, row[j].kind \in MailWriters,
                        row[i].mb = row[j].mb, row[i].mb # NoMailbox
                 PROVE  i = j
      BY DEF OneWriterPerMailbox
    <3>1. /\ <<"mailbox", mbox[row[i].mb].addr>> \in need[i]
          /\ <<"mailbox", mbox[row[i].mb].addr>> \in need[j]
      BY DEF Tenure, JobSound, Reserves
    <3> QED
      BY <2>1, <3>1, SameKey
  <2>3. StableEvidence
    <3> SUFFICES ASSUME NEW i \in JobIds, NEW j \in JobIds,
                        phase[i] \in Working, phase[j] \in Working,
                        row[i].kind = "analyze", row[j].kind \in {"analyze", "reindex", "cleanup"},
                        row[i].mb # NoMailbox, row[j].mb # NoMailbox
                 PROVE  i = j
      BY DEF StableEvidence
    <3>1. <<"agent", "one">> \in need[i] /\ <<"agent", "one">> \in need[j]
      BY DEF Tenure, JobSound, Reserves, AgentUsers
    <3> QED
      BY <2>1, <3>1, SameKey
  <2> QED
    BY <2>2, <2>3
<1> QED
  BY <1>1, TenureHolds, PTL

\* Who becomes the owner of a job: the process that claims it, and what it
\* knows then (Claim, ClaimById).
LEMMA OwnerStep ==
  ASSUME IInv, Tenure, [Next]_vars, NEW j \in JobIds, NEW p \in Procs,
         owner[j] # p, owner'[j] = p
  PROVE  \/ pc[p] = "claim" /\ pick[p] = j
         \/ pc[p] = "byid" /\ p \in CLIs
<1>0. owner \in [JobIds -> Procs \cup {Nobody}] /\ p # Nobody
  BY Names DEF IInv, TypeOK
<1>1. CASE UNCHANGED vars
  BY <1>1 DEF vars
<1>2. CASE Dispatching
  <2>1. ASSUME NEW q \in Procs, Claim(q) PROVE pc[p] = "claim" /\ pick[p] = j
    <3>1. owner' = [owner EXCEPT ![pick[q]] = q] /\ pc[q] = "claim"
      BY <2>1 DEF Claim, StartJob
    <3> QED
      BY <1>0, <3>1
  <2>2. ASSUME ~ \E q \in Procs : Claim(q) PROVE FALSE
    BY <1>2, <2>2 DEF Dispatching, Dispatch, NoFreeWorker, NothingRunnable, Wakeup, Tick,
       Scan, ClaimLost, ClaimFails, job
  <2> QED
    BY <2>1, <2>2
<1>3. CASE Executing
  BY <1>0, <1>3 DEF Executing, WorkDone, WorkFails, EnqueueChild, FinishJob, FinishLost,
     ReleaseJob, WorkerFree, NotifyDispatcher, CLIRelease, Finish
<1>4. CASE Calling
  BY <1>4 DEF Calling, BeginEnqueue, InsertRow, InsertFails, SendWake, CancelQueuedJob, job
<1>5. CASE CLIRunning
  <2>1. PICK c \in CLIs : \/ \E r \in Requests : CLIStart(c, r)
                          \/ ClaimById(c) \/ CLINext(c) \/ CLIExit(c) \/ Interrupt(c)
    BY <1>5 DEF CLIRunning
  <2>2. CASE ClaimById(c)
    <3>1. owner' = [owner EXCEPT ![pick[c]] = c] /\ pc[c] = "byid"
      BY <2>2 DEF ClaimById, StartJob
    <3> QED
      BY <1>0, <3>1
  <2>3. CASE CLIExit(c)
    BY <1>0, <2>3 DEF CLIExit, Dies
  <2> QED
    BY <2>1, <2>2, <2>3 DEF CLIStart, CLINext, Interrupt, job
<1>6. CASE Lifecycle
  BY <1>0, <1>6 DEF Lifecycle, StartServer, StopServer, DispatcherExit, ServerDown, Crash,
     Dies, job
<1>7. CASE Configuring
  BY <1>7 DEF Configuring, DeleteMailbox, EditMailbox, RenameChecked, RenameMailbox,
     SetWorkers, job
<1> QED
  BY <1>1, <1>2, <1>3, <1>4, <1>5, <1>6, <1>7 DEF Next

\* An in-process run takes its own job and what that job caused, and leaves the
\* jobs other processes queued alone (RunJobInline).
THEOREM RunsKeepToTheirOwn == Spec => ForeignJobsLeftAlone
<1> DEFINE Own == \A j \in JobIds, c \in CLIs :
                    owner[j] # c /\ owner'[j] = c =>
                      \/ \A i \in JobIds : owner[i] # c
                      \/ row[j].par # 0 /\ owner[row[j].par] = c
<1>1. IInv /\ Tenure /\ [Next]_vars => Own
  <2> SUFFICES ASSUME IInv, Tenure, [Next]_vars, NEW j \in JobIds, NEW c \in CLIs,
                      owner[j] # c, owner'[j] = c
               PROVE  \/ \A i \in JobIds : owner[i] # c
                      \/ row[j].par # 0 /\ owner[row[j].par] = c
    OBVIOUS
  <2>1. (pc[c] = "claim" /\ pick[c] = j) \/ pc[c] = "byid"
    BY OwnerStep, Names
  <2> QED
    BY <2>1 DEF Tenure, RunSound
<1>2. IInv /\ Tenure /\ [Next]_vars => [Own]_vars
  BY <1>1
<1> QED
  BY <1>2, TenureHolds, PTL DEF Spec, ForeignJobsLeftAlone

-----------------------------------------------------------------------------
(* The queue keeps the promise of SerialQueue in a directory without       *)
(* command line runs.  Each step of JobQueue is one step of SerialQueue    *)
(* or leaves the statuses, the jobs in progress and the held keys alone.   *)

\* What SerialQueue sees of the queue, besides need.
Status == [j \in JobIds |-> row[j].st]
InProgress == {j \in JobIds : owner[j] = Server /\ phase[j] \in Holding}

\* The status of one job changes.
LEMMA OneStatus ==
  ASSUME NEW j \in JobIds, NEW st, row'[j].st = st,
         \A i \in JobIds : i # j => row'[i].st = row[i].st
  PROVE  Status' = [Status EXCEPT ![j] = st]
BY DEF Status

\* Nothing SerialQueue looks at changes.
LEMMA Stutters ==
  ASSUME UNCHANGED <<owner, need>>,
         \A j \in JobIds : row'[j].st = row[j].st /\ (phase'[j] \in Holding <=> phase[j] \in Holding)
  PROVE  UNCHANGED Promise!svars
<1>1. Status' = Status
  BY DEF Status
<1>2. InProgress' = InProgress
  BY DEF InProgress
<1> QED
  BY <1>1, <1>2 DEF Promise!svars, Status, InProgress

\* A claim is Begin: the job was not in progress and takes keys nobody holds.
LEMMA StartsOne ==
  ASSUME CLIs = {}, IInv, Tenure, NEW p \in Procs, NEW j \in JobIds, NEW K \in SUBSET Keys,
         StartJob(p, j, K), LocksFree(p, K)
  PROVE  Promise!Begin(j)
<1>1. p = Server
  BY Names
<1>2. /\ row[j].st = "queued" /\ phase[j] = "none" /\ owner[j] = Nobody
      /\ row' = [row EXCEPT ![j].st = "running"]
      /\ phase' = [phase EXCEPT ![j] = "run"] /\ owner' = [owner EXCEPT ![j] = Server]
      /\ need' = [need EXCEPT ![j] = K]
  BY <1>1 DEF IInv, Control, QueuedIdle, StartJob, StillQueued, Tenure, JobSound
<1>3. row \in [JobIds -> Rows] /\ phase \in [JobIds -> Phases]
      /\ owner \in [JobIds -> Procs \cup {Nobody}] /\ need \in [JobIds -> SUBSET Keys]
  BY DEF IInv, TypeOK
<1>4. Status' = [Status EXCEPT ![j] = "running"]
  <2>1. row'[j].st = "running" /\ \A i \in JobIds : i # j => row'[i].st = row[i].st
    BY <1>2, <1>3 DEF Rows
  <2> QED
    BY <2>1, OneStatus
<1>5. j \notin InProgress /\ InProgress' = InProgress \cup {j}
  BY <1>2, <1>3, Names DEF InProgress, Holding
<1>6. need'[j] = K /\ need' = [need EXCEPT ![j] = need'[j]]
  BY <1>2, <1>3
<1>7. ASSUME NEW i \in InProgress PROVE need[i] \cap need'[j] = {}
  <2> SUFFICES ASSUME NEW k \in need[i] \cap K PROVE FALSE
    BY <1>6
  <2>1. i \in JobIds /\ k \in Keys /\ locks[Server][k] = i
    BY Names DEF IInv, Control, LockTableExact, InProgress
  <2>2. locks[Server][k] = 0
    BY <1>1 DEF LocksFree
  <2> QED
    BY <2>1, <2>2, Names
<1>8. Status[j] = "queued"
  BY <1>2 DEF Status
<1> QED
  BY <1>4, <1>5, <1>6, <1>7, <1>8 DEF Promise!Begin, Status, InProgress

\* Writing the outcome is Conclude: the row still says running.
LEMMA FinishConcludes ==
  ASSUME CLIs = {}, IInv, Tenure, NEW j \in JobIds, NEW st \in {"done", "error"},
         phase[j] \in Working, Finish(j, st)
  PROVE  Promise!Conclude(j, st)
<1>1. owner[j] = Server
  BY Names DEF IInv, TypeOK, Tenure, JobSound, Working
<1>2. row[j].st = "running" /\ j \in InProgress
  BY <1>1 DEF Tenure, JobSound, InProgress, Working, Holding
<1>3. row'[j].st = st /\ \A i \in JobIds : i # j => row'[i].st = row[i].st
  BY DEF IInv, TypeOK, Rows, Finish
<1>4. Status' = [Status EXCEPT ![j] = st]
  BY <1>3, OneStatus
<1>5. /\ UNCHANGED <<owner, need>>
      /\ \A i \in JobIds : phase'[i] \in Holding <=> phase[i] \in Holding
  BY DEF IInv, TypeOK, Finish, Working, Holding
<1>6. InProgress' = InProgress
  BY <1>5 DEF InProgress
<1> QED
  BY <1>2, <1>4, <1>5, <1>6 DEF Promise!Conclude, Status, InProgress

\* The death of the server is Lose.
LEMMA DiesLoses ==
  ASSUME CLIs = {}, IInv, Tenure, NEW p \in Procs, Dies(p)
  PROVE  Promise!Lose
<1>1. p = Server
  BY Names
<1>2. \A j \in JobIds :
        IF owner[j] = Server THEN owner'[j] = Nobody /\ need'[j] = {}
        ELSE owner'[j] = owner[j] /\ need'[j] = need[j]
  BY <1>1 DEF IInv, TypeOK, Dies
<1>3. \A j \in JobIds : owner[j] # Server => need[j] = {}
  BY Names DEF IInv, TypeOK, Tenure, JobSound, Holding
<1>4. InProgress' = {}
  BY <1>2, Names DEF InProgress
<1>5. need' = [j \in JobIds |-> {}]
  BY <1>1, <1>3 DEF Dies
<1>6. UNCHANGED Status
  BY DEF Dies, table, Status
<1> QED
  BY <1>4, <1>5, <1>6 DEF Promise!Lose, Status, InProgress

\* The end of waiting jobs is Withdraw.
LEMMA Withdraws ==
  ASSUME NEW S \in SUBSET JobIds, \A j \in S : row[j].st = "queued",
         \A j \in JobIds : row'[j].st = IF j \in S THEN "canceled" ELSE row[j].st,
         UNCHANGED <<phase, owner, need>>
  PROVE  Promise!Withdraw(S)
<1>1. Status' = [j \in JobIds |-> IF j \in S THEN "canceled" ELSE Status[j]]
  BY DEF Status
<1>2. InProgress' = InProgress /\ \A j \in S : Status[j] = "queued"
  BY DEF InProgress, Status
<1> QED
  BY <1>1, <1>2 DEF Promise!Withdraw, Status, InProgress

\* The steps of the dispatcher.
LEMMA DispatchingPromise ==
  ASSUME CLIs = {}, IInv, Tenure, Dispatching
  PROVE  [Promise!Next]_Promise!svars
<1>1. ASSUME NEW p \in Procs, Claim(p) PROVE Promise!Next
  <2>1. /\ pc[p] = "claim" /\ pick[p] \in JobIds /\ keysOf[p] \in SUBSET Keys
        /\ StartJob(p, pick[p], keysOf[p]) /\ LocksFree(p, keysOf[p])
    BY <1>1 DEF IInv, TypeOK, Control, PickNamed, ClaimReady, Claim
  <2> QED
    BY <2>1, StartsOne DEF Promise!Next
<1>2. ASSUME NEW p \in Procs, ClaimFails(p) PROVE [Promise!Next]_Promise!svars
  <2>1. CASE UNCHANGED row
    BY <1>2, <2>1, Stutters DEF ClaimFails, job
  <2>2. CASE ~ UNCHANGED row
    <3> PICK j \in JobIds : j = pick[p]
      BY <1>2, <2>2 DEF IInv, Control, PickNamed, ClaimFails
    <3>1. /\ row[j].st = "queued"
          /\ row' = [row EXCEPT ![j].st = "running"] /\ UNCHANGED <<phase, owner, need>>
      BY <1>2, <2>2 DEF ClaimFails, StillQueued, job
    <3>2. row'[j].st = "running" /\ \A i \in JobIds : i # j => row'[i].st = row[i].st
      BY <3>1 DEF IInv, TypeOK, Rows
    <3>3. Status' = [Status EXCEPT ![j] = "running"]
      BY <3>2, OneStatus
    <3>4. Status[j] = "queued" /\ InProgress' = InProgress /\ j \notin InProgress
      BY <3>1 DEF Status, InProgress, Holding, IInv, Control, QueuedIdle
    <3>5. Promise!Mislay(j)
      BY <3>1, <3>3, <3>4 DEF Promise!Mislay, Status, InProgress
    <3> QED
      BY <3>5 DEF Promise!Next
  <2> QED
    BY <2>1, <2>2
<1>3. ASSUME ~ \E p \in Procs : Claim(p) \/ ClaimFails(p)
      PROVE  UNCHANGED <<row, phase, owner, need>>
  BY <1>3 DEF Dispatching, Dispatch, NoFreeWorker, NothingRunnable, Wakeup, Tick, Scan,
     ClaimLost, job, table
<1> QED
  BY <1>1, <1>2, <1>3, Stutters

\* The steps of a job: its outcome, and the release of its keys.
LEMMA ExecutingPromise ==
  ASSUME CLIs = {}, IInv, Tenure, Executing
  PROVE  [Promise!Next]_Promise!svars
<1>0. PICK j \in JobIds : \/ WorkDone(j) \/ WorkFails(j) \/ EnqueueChild(j) \/ FinishJob(j)
                          \/ FinishLost(j) \/ ReleaseJob(j) \/ WorkerFree(j)
                          \/ NotifyDispatcher(j) \/ CLIRelease(j)
  BY DEF Executing
<1>a. phase \in [JobIds -> Phases] /\ need \in [JobIds -> SUBSET Keys] /\ JobSound(j)
  BY DEF IInv, TypeOK, Tenure
<1>1. CASE WorkDone(j)
  BY <1>a, <1>1, Stutters DEF WorkDone, table, Holding
<1>2. CASE WorkFails(j)
  BY <1>2, FinishConcludes DEF WorkFails, Working, Promise!Next
<1>3. CASE EnqueueChild(j)
  BY <1>3, Stutters DEF EnqueueChild, table
<1>4. CASE FinishJob(j)
  BY <1>4, FinishConcludes DEF FinishJob, Working, Promise!Next
<1>5. CASE FinishLost(j)
  BY <1>a, <1>5, Stutters DEF FinishLost, table, Holding
<1>6. CASE ReleaseJob(j)
  <2>1. /\ owner[j] = Server /\ phase[j] = "finished" /\ phase' = [phase EXCEPT ![j] = "released"]
        /\ need' = [need EXCEPT ![j] = {}] /\ UNCHANGED <<row, owner>>
    BY <1>6 DEF ReleaseJob, ReleaseLocks, table
  <2>2. j \in InProgress /\ InProgress' = InProgress \ {j} /\ Status' = Status
    BY <1>a, <2>1 DEF InProgress, Status, Holding
  <2>3. Promise!Release(j)
    BY <2>1, <2>2 DEF Promise!Release, InProgress, Status
  <2> QED
    BY <2>3 DEF Promise!Next
<1>7. CASE WorkerFree(j)
  BY <1>a, <1>7, Stutters DEF WorkerFree, table, Holding
<1>8. CASE NotifyDispatcher(j)
  <2>1. /\ phase[j] = "uncounted" /\ phase' = [phase EXCEPT ![j] = "none"]
        /\ owner' = [owner EXCEPT ![j] = Nobody] /\ UNCHANGED <<row, need>>
    BY <1>8 DEF NotifyDispatcher, table
  <2>2. InProgress' = InProgress /\ Status' = Status
    BY <1>a, <2>1, Names DEF IInv, TypeOK, InProgress, Status, Holding
  <2> QED
    BY <2>1, <2>2 DEF Promise!svars, InProgress, Status
<1>9. CASE CLIRelease(j)
  BY <1>9 DEF CLIRelease
<1> QED
  BY <1>0, <1>1, <1>2, <1>3, <1>4, <1>5, <1>6, <1>7, <1>8, <1>9

\* Enqueueing is Submit, canceling Withdraw.
LEMMA CallingPromise ==
  ASSUME CLIs = {}, IInv, Tenure, Calling
  PROVE  [Promise!Next]_Promise!svars
<1>0. row \in [JobIds -> Rows]
  BY DEF IInv, TypeOK
<1>1. ASSUME NEW x \in Callers, InsertRow(x) PROVE Promise!Next
  <2>1. PICK id \in Oldest(Unused) :
          row' = [row EXCEPT ![id] =
                    [st |-> "queued", kind |-> call[x].ask.kind, mb |-> call[x].ask.mb,
                     tgt |-> call[x].ask.tgt, par |-> ParentOf(x)]]
    BY <1>1 DEF InsertRow
  <2>2. id \in JobIds /\ row[id].st = "none" /\ UNCHANGED <<phase, owner, need>>
    BY <1>1 DEF Oldest, Unused, InsertRow
  <2>3. row'[id].st = "queued" /\ \A i \in JobIds : i # id => row'[i].st = row[i].st
    BY <1>0, <2>1, <2>2
  <2>4. Status' = [Status EXCEPT ![id] = "queued"]
    BY <2>2, <2>3, OneStatus
  <2>5. InProgress' = InProgress /\ Status[id] = "none"
    BY <2>2 DEF InProgress, Status
  <2>6. Promise!Submit(id)
    BY <2>2, <2>4, <2>5 DEF Promise!Submit, InProgress, Status
  <2> QED
    BY <2>2, <2>6 DEF Promise!Next
<1>2. ASSUME NEW j \in JobIds, CancelQueuedJob(j) PROVE Promise!Next
  <2>1. /\ row[j].st = "queued" /\ UNCHANGED <<phase, owner, need>>
        /\ \A i \in JobIds : row'[i].st = IF i \in {j} THEN "canceled" ELSE row[i].st
    BY <1>0, <1>2 DEF CancelQueuedJob, job, Rows
  <2>2. Promise!Withdraw({j})
    BY <2>1, Withdraws
  <2> QED
    BY <2>2 DEF Promise!Next
<1>3. ASSUME ~ \E x \in Callers : InsertRow(x), ~ \E j \in JobIds : CancelQueuedJob(j)
      PROVE  UNCHANGED <<row, phase, owner, need>>
  BY <1>3 DEF Calling, BeginEnqueue, InsertFails, SendWake, job, table
<1> QED
  BY <1>1, <1>2, <1>3, Stutters

\* A start is Recover, a stop or a kill is Lose.
LEMMA LifecyclePromise ==
  ASSUME CLIs = {}, IInv, Tenure, Lifecycle
  PROVE  [Promise!Next]_Promise!svars
<1>0. CASE StartServer /\ UNCHANGED row
  BY <1>0, Stutters DEF StartServer, job
<1>1. CASE StartServer /\ ResetStaleJobs
  <2>1. /\ ctl[Server] = "down" /\ ResetStaleJobs /\ UNCHANGED <<phase, owner, need>>
        /\ \A j \in JobIds : row[j] \in Rows
    BY <1>1 DEF StartServer, job, IInv, TypeOK
  <2>2. InProgress = {} /\ InProgress' = InProgress
    BY <2>1 DEF InProgress, Tenure, JobSound
  <2>3. Status' = [j \in JobIds |-> IF Status[j] = "running" THEN "error" ELSE Status[j]]
    BY <2>1 DEF Status, ResetStaleJobs, Rows
  <2>4. Promise!Recover
    BY <2>1, <2>2, <2>3 DEF Promise!Recover, InProgress, Status
  <2> QED
    BY <2>4 DEF Promise!Next
<1>2. CASE StopServer \/ DispatcherExit
  BY <1>2, Stutters DEF StopServer, DispatcherExit, table, job
<1>3. CASE ServerDown
  BY <1>3, DiesLoses, Names DEF ServerDown, Promise!Next
<1>4. ASSUME NEW p \in Procs, Crash(p) PROVE Promise!Next
  BY <1>4, DiesLoses DEF Crash, Promise!Next
<1> QED
  BY <1>0, <1>1, <1>2, <1>3, <1>4 DEF Lifecycle, StartServer

\* The deletion of a mailbox is Withdraw.
LEMMA ConfiguringPromise ==
  ASSUME CLIs = {}, IInv, Tenure, Configuring
  PROVE  [Promise!Next]_Promise!svars
<1>1. ASSUME NEW m \in Mailboxes, DeleteMailbox(m) PROVE Promise!Next
  <2> PICK S \in SUBSET JobIds : S = {j \in JobIds : row[j].mb = m /\ row[j].st = "queued"}
    OBVIOUS
  <2>1. \A j \in JobIds : row'[j].st = IF j \in S THEN "canceled" ELSE row[j].st
    BY <1>1 DEF DeleteMailbox, CancelQueuedJobsForMailbox, IInv, TypeOK, Rows
  <2>2. UNCHANGED <<phase, owner, need>>
    BY <1>1 DEF DeleteMailbox, job
  <2>3. Promise!Withdraw(S)
    BY <2>1, <2>2, Withdraws
  <2> QED
    BY <2>3 DEF Promise!Next
<1>2. ASSUME ~ \E m \in Mailboxes : DeleteMailbox(m) PROVE UNCHANGED <<row, phase, owner, need>>
  BY <1>2 DEF Configuring, EditMailbox, RenameChecked, RenameMailbox, SetWorkers, table, job
<1> QED
  BY <1>1, <1>2, Stutters

\* The server's queue implements SerialQueue: a job that is queued runs once or
\* is canceled, ends once, and while it is in progress holds resources nobody
\* else in progress holds; a crash loses all jobs in progress together.
THEOREM QueueKeepsPromise ==
  ASSUME CLIs = {}
  PROVE  Spec => SerialQueueSpec
<1>1. Init => Promise!Init
  <2> SUFFICES ASSUME Init PROVE Promise!Init
    OBVIOUS
  <2>1. Status = [j \in JobIds |-> "none"] /\ InProgress = {}
    BY DEF Init, NoRow, Status, InProgress, Holding
  <2> QED
    BY <2>1 DEF Init, Promise!Init, Status, InProgress
<1>2. IInv /\ Tenure /\ [Next]_vars => [Promise!Next]_Promise!svars
  <2> SUFFICES ASSUME IInv, Tenure, [Next]_vars PROVE [Promise!Next]_Promise!svars
    OBVIOUS
  <2>1. CASE UNCHANGED vars
    BY <2>1, Stutters DEF vars
  <2>2. CASE CLIRunning
    BY <2>2 DEF CLIRunning
  <2> QED
    BY <2>1, <2>2, DispatchingPromise, ExecutingPromise, CallingPromise, LifecyclePromise,
       ConfiguringPromise DEF Next
<1> QED
  BY <1>1, <1>2, TenureHolds, PTL DEF Spec, SerialQueueSpec, Promise!Spec

=============================================================================
