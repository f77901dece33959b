------------------------------ MODULE JobQueue ------------------------------
(***************************************************************************)
(* The job queue of MailCare: the jobs table of the master database, the   *)
(* JobManager that claims and runs jobs in the server, the in-process CLI  *)
(* runner that does the same when no server answers, and the deletion and  *)
(* renaming of mailboxes, which race with both.                            *)
(*                                                                         *)
(* What survives a crash is in the tables (row, mbox); everything else is  *)
(* memory of one process.  A step is one SQL statement or transaction, or  *)
(* one critical section of the manager.  What a job does outside the queue *)
(* (IMAP, grouping, the agent) is abstracted to "it succeeds or it fails". *)
(*                                                                         *)
(* A definition M_... is a faulty variant of the definition that follows   *)
(* it: with it in its place some property below is violated.               *)
(***************************************************************************)
EXTENDS Naturals, FiniteSets

CONSTANTS
  Mailboxes,    \* mailbox ids
  Hosts,        \* IMAP servers
  Addrs,        \* mail addresses
  NewAddrs,     \* the ones a mailbox may be renamed to
  Server,       \* the server process (server.lock: at most one per data directory)
  CLIs,         \* CLI processes that run jobs in process
  Clients,      \* callers of Enqueue inside the server: web requests, the scheduler
  Requests,     \* the jobs callers may ask for: [kind, mb, tgt]
  NoMailbox,    \* mailbox_id NULL
  Nobody,       \* no process
  NoCall,       \* the caller is not inside EnqueueJob
  Home,         \* the mailboxes rows at the start: [addr, host, enabled, keep] each
  ProbeHost     \* the setting probe_imap_host

CONSTANTS       \* bounds of the model
  MaxJobs,      \* job rows ever inserted
  MaxWorkers,   \* the upper limit SetWorkers clamps to (MaxWorkers, 16 in the code)
  MaxCrashes,   \* processes killed
  MaxEdits,     \* deletions and changes of mailboxes, changes of the workers setting
  MaxErrors     \* failed statements of a claim, an outcome or the reset at a start

JobIds    == 1 .. MaxJobs
Procs     == {Server} \cup CLIs
Callers   == Clients \cup CLIs \cup JobIds

Kinds     == {"sync", "fetch", "group", "analyze", "reindex", "reclassify",
              "notify", "cleanup", "probe_send", "probe_check"}
\* jobs.target: empty, "*", or a group key, a send time or a test address.
Targets   == {"none", "all", "key"}
Statuses  == {"none", "queued", "running", "done", "error", "canceled"}
Finished  == {"done", "error", "canceled"}

\* Where the goroutine of a claimed job is: doing the job's own work, queueing
\* the jobs it causes, outcome written, locks released, counter decremented.
Phases    == {"none", "run", "follow", "finished", "released", "uncounted"}
Holding   == {"run", "follow", "finished"}
Working   == {"run", "follow"}

Keys == ({"host"} \X Hosts) \cup ({"mailbox", "analyze"} \X Addrs)
          \cup {<<"agent", "one">>, <<"notify", "one">>, <<"probe", "one">>}

Boxes == [addr : Addrs, host : Hosts, enabled : BOOLEAN, keep : BOOLEAN,
          live : BOOLEAN]
Rows  == [st : Statuses, kind : Kinds, mb : Mailboxes \cup {NoMailbox},
          tgt : Targets, par : 0 .. MaxJobs]
Asks  == [kind : Kinds, mb : Mailboxes \cup {NoMailbox}, tgt : Targets]
Calls == [ask : Asks, step : {"insert", "wake"}] \cup {NoCall}

NoRow == [st |-> "none", kind |-> "sync", mb |-> NoMailbox, tgt |-> "none", par |-> 0]

ASSUME BoundsAssumption ==
  /\ MaxJobs \in Nat /\ MaxWorkers \in Nat \ {0}
  /\ MaxCrashes \in Nat /\ MaxEdits \in Nat /\ MaxErrors \in Nat

ASSUME NamesAssumption ==
  /\ Server \notin CLIs
  /\ Nobody \notin Procs
  /\ NoMailbox \notin Mailboxes
  /\ NoCall \notin [ask : Asks, step : {"insert", "wake"}]
  /\ Clients \cap CLIs = {} /\ Clients \cap JobIds = {} /\ CLIs \cap JobIds = {}

ASSUME DataAssumption ==
  /\ Requests \subseteq Asks
  /\ NewAddrs \subseteq Addrs /\ "no" \notin Addrs
  /\ Home \in [Mailboxes -> Boxes]
  /\ ProbeHost \in Hosts

VARIABLES
  row,       \* jobs table: id -> row
  mbox,      \* mailboxes table: id -> row (live = FALSE: deleted)
  ctl,       \* process -> "down", "up", "stopping" (its context is canceled)
  pc,        \* process -> where its dispatcher (server) or its runner (CLI) is
  cand,      \* process -> the queued ids a claim attempt has still to look at
  pick,      \* process -> the id canRun accepted (0: none)
  keysOf,    \* process -> the resource keys computed for pick
  locks,     \* process -> (resource key -> id of the job holding it, 0: free)
  wake,      \* a token is in the wake channel of the server (capacity 1)
  workers,   \* JobManager.workers
  phase,     \* job -> where the goroutine that executes it is
  owner,     \* job -> the process whose run claimed it
  need,      \* job -> history: the keys it reserved, until it releases them
  todo,      \* job -> mailboxes it has still to queue a child for
  call,      \* caller -> the EnqueueJob call it is in, past its checks
  renaming,  \* mailbox -> the new address of a rename past its checks, or "no"
  unwritten, \* history: jobs left running: their outcome was not written, since a
             \* server that started last marked such rows
  crashes, edits, errors

table == <<row, mbox>>
claim == <<pc, cand, pick, keysOf>>
job   == <<phase, owner, need, todo>>
vars  == <<row, mbox, ctl, pc, cand, pick, keysOf, locks, wake, workers, phase,
           owner, need, todo, call, renaming, unwritten, crashes, edits, errors>>

-----------------------------------------------------------------------------
(* The tables and the lock table.                                          *)

Live(m) == m # NoMailbox /\ mbox[m].live

\* jobs.mailbox_id as the row shows it: NULL once the mailbox is deleted
\* (ON DELETE SET NULL).
MailboxIdOf(j) == IF Live(row[j].mb) THEN row[j].mb ELSE NoMailbox

Active(j)  == row[j].st \in {"queued", "running"}
Queued     == {j \in JobIds : row[j].st = "queued"}
Unused     == {j \in JobIds : row[j].st = "none"}
Oldest(S)  == {j \in S : \A i \in S : j <= i}

HasActiveJob(a) ==
  \E j \in JobIds : /\ Active(j) /\ row[j].kind = a.kind
                    /\ MailboxIdOf(j) = a.mb /\ row[j].tgt = a.tgt

HasRunningJobForMailbox(m) ==
  \E j \in JobIds : row[j].st = "running" /\ row[j].mb = m

Mailboxless == {"notify", "probe_send", "probe_check"}
FollowedUp  == {"sync", "group", "reclassify", "reindex"}
MailWriters == {"sync", "fetch", "group", "reclassify", "reindex", "cleanup"}

\* An expansion job: no mailbox, and a kind that runs per mailbox.
Expansion(j) == row[j].mb = NoMailbox /\ row[j].kind \notin Mailboxless

\* EnqueueJob: the targets each kind takes, and the one it stores.
TargetAccepted(a) ==
  /\ a.kind = "analyze" => (a.mb # NoMailbox \/ a.tgt # "key")
  /\ a.kind \in {"sync", "fetch"} => a.tgt # "key"
  /\ a.kind \in {"notify", "probe_send"} => a.tgt # "all"
  /\ a.kind \in Mailboxless => a.mb = NoMailbox

Stored(a) ==
  IF a.kind \in {"analyze", "sync", "fetch", "notify", "probe_send"}
    THEN a ELSE [a EXCEPT !.tgt = "none"]

\* The kinds that take the agent: an analysis, and what rewrites or removes
\* the mails and groups it reads.
AgentUsers == {"analyze", "reindex", "cleanup"}

\* jobResourceKeys: the keys of a kind over one mailbox row.
MailboxJobKeys(kind, b) ==
  (IF kind \in MailWriters THEN {<<"mailbox", b.addr>>} ELSE {})
    \cup (IF kind \in {"sync", "fetch"} \/ (kind = "cleanup" /\ b.enabled /\ b.keep)
            THEN {<<"host", b.host>>} ELSE {})
    \cup (IF kind \in AgentUsers THEN {<<"agent", "one">>} ELSE {})
    \cup (IF kind = "analyze" THEN {<<"analyze", b.addr>>} ELSE {})

\* resourceKeys: read from the mailbox row at the time of the claim.
ResourceKeys(j) ==
  CASE row[j].kind = "notify"      -> {<<"notify", "one">>}
    [] row[j].kind = "probe_send"  -> {<<"probe", "one">>}
    [] row[j].kind = "probe_check" -> {<<"probe", "one">>, <<"host", ProbeHost>>}
    [] OTHER -> IF Live(row[j].mb) THEN MailboxJobKeys(row[j].kind, mbox[row[j].mb])
                ELSE {}

M_SomeLockFree(p, K) == K = {} \/ \E k \in K : locks[p][k] = 0
LocksFree(p, K) == \A k \in K : locks[p][k] = 0

NoLocks == [k \in Keys |-> 0]

AcquireLocks(p, j, K) ==
  locks' = [locks EXCEPT ![p] = [k \in Keys |-> IF k \in K THEN j ELSE locks[p][k]]]

\* Every lock of the process; the keys as the mailbox row gives them now.
M_ReleaseRecomputed(p, j) ==
  /\ locks' = [locks EXCEPT ![p] = [k \in Keys |-> IF k \in ResourceKeys(j) THEN 0 ELSE @[k]]]
  /\ need'  = [need EXCEPT ![j] = {}]

\* releaseLocks: the entries that hold the id of the job.
ReleaseLocks(p, j) ==
  /\ locks' = [locks EXCEPT ![p] = [k \in Keys |-> IF locks[p][k] = j THEN 0 ELSE locks[p][k]]]
  /\ need'  = [need EXCEPT ![j] = {}]

\* JobManager.running: the goroutines of the server that still count.
Counted == {j \in JobIds : owner[j] = Server /\ phase[j] \in Holding \cup {"released"}}

FreeWorker == Cardinality(Counted) < workers

\* notify: a non-blocking send on the wake channel, which keeps one token.
\* (On a channel without a buffer only a waiting dispatcher would take it.)
M_NotifyUnbuffered == wake' = (wake \/ pc[Server] = "wait")
Notify == wake' = TRUE

\* The context of the process that executes j is canceled.
Canceled(j) == \E p \in Procs : p = owner[j] /\ ctl[p] = "stopping"

-----------------------------------------------------------------------------
(* Enqueueing.  EnqueueJob looks for an active job of the same kind,       *)
(* mailbox and target and inserts the row in a second statement; no        *)
(* transaction and no unique index joins the two.                          *)

\* The process a caller runs in.
HostOf(x) == IF x \in Clients THEN Server ELSE IF x \in CLIs THEN x ELSE owner[x]

\* The checks of EnqueueJob pass: the call goes on to the INSERT.
PassesChecks(a) ==
  /\ TargetAccepted(a)
  /\ a.mb # NoMailbox => Live(a.mb)
  /\ ~HasActiveJob(a)

\* A stopping server answers requests until its jobs have ended.
M_QueueDrained == \A j \in JobIds : owner[j] # Server /\ ~Active(j)
JobsEnded == \A j \in JobIds : owner[j] # Server

Answers == ctl[Server] = "up" \/ (ctl[Server] = "stopping" /\ ~JobsEnded)

BeginEnqueue(c, r) ==
  /\ Answers /\ call[c] = NoCall
  /\ PassesChecks(Stored(r))
  /\ call' = [call EXCEPT ![c] = [ask |-> Stored(r), step |-> "insert"]]
  /\ UNCHANGED <<table, ctl, claim, locks, wake, workers, job, renaming,
                 crashes, edits, errors, unwritten>>

\* The child of job j for one mailbox is settled.
Settled(j, m) == todo' = [todo EXCEPT ![j] = @ \ {m}]

EndCall(x) ==
  /\ call' = [call EXCEPT ![x] = NoCall]
  /\ IF x \in JobIds THEN Settled(x, call[x].ask.mb) ELSE UNCHANGED todo

\* jobs.parent_id: the job that queues another one, NULL (0) for other callers.
M_ParentAlways(x) == x
ParentOf(x) == IF x \in JobIds THEN x ELSE 0

InsertRow(x) ==
  /\ call[x] # NoCall /\ call[x].step = "insert"
  /\ call[x].ask.mb # NoMailbox => Live(call[x].ask.mb)      \* foreign key
  /\ \E id \in Oldest(Unused) :
       /\ row' = [row EXCEPT ![id] =
                    [st |-> "queued", kind |-> call[x].ask.kind, mb |-> call[x].ask.mb,
                     tgt |-> call[x].ask.tgt, par |-> ParentOf(x)]]
       /\ IF x \in CLIs
            THEN /\ pc'   = [pc EXCEPT ![x] = "byid"]
                 /\ pick' = [pick EXCEPT ![x] = id]
            ELSE UNCHANGED <<pc, pick>>
  /\ IF HostOf(x) = Server
       THEN call' = [call EXCEPT ![x].step = "wake"] /\ UNCHANGED todo
       ELSE EndCall(x)                          \* nobody reads that channel
  /\ UNCHANGED <<mbox, ctl, cand, keysOf, locks, wake, workers, phase, owner, need,
                 renaming, crashes, edits, errors, unwritten>>

\* The INSERT fails: the mailbox was deleted since the check, or the bound on
\* rows is reached (any other failure of the statement).
InsertFails(x) ==
  /\ call[x] # NoCall /\ call[x].step = "insert"
  /\ \/ call[x].ask.mb # NoMailbox /\ ~Live(call[x].ask.mb)
     \/ Unused = {}
  /\ EndCall(x)
  /\ IF x \in CLIs
       THEN ctl' = [ctl EXCEPT ![x] = "down"] /\ pc' = [pc EXCEPT ![x] = "off"]
       ELSE UNCHANGED <<ctl, pc>>
  /\ UNCHANGED <<table, cand, pick, keysOf, locks, wake, workers, phase, owner, need,
                 renaming, crashes, edits, errors, unwritten>>

SendWake(x) ==
  /\ call[x] # NoCall /\ call[x].step = "wake"
  /\ Notify
  /\ EndCall(x)
  /\ UNCHANGED <<table, ctl, claim, locks, workers, phase, owner, need, renaming,
                 crashes, edits, errors, unwritten>>

M_CancelActiveJob(j) ==
  /\ Active(j)
  /\ row' = [row EXCEPT ![j].st = "canceled"]
  /\ UNCHANGED <<mbox, ctl, claim, locks, wake, workers, job, call, renaming,
                 crashes, edits, errors, unwritten>>

CancelQueuedJob(j) ==
  /\ row[j].st = "queued"
  /\ row' = [row EXCEPT ![j].st = "canceled"]
  /\ UNCHANGED <<mbox, ctl, claim, locks, wake, workers, job, call, renaming,
                 crashes, edits, errors, unwritten>>

-----------------------------------------------------------------------------
(* Claiming.  claimRunnable lists the queued rows once, asks canRun of each *)
(* in turn, oldest first, and claims the first it accepts with a           *)
(* conditional UPDATE; claimMu keeps the other claims of the process out.  *)

\* dispatch: a free worker starts a claim attempt.
Dispatch ==
  /\ pc[Server] = "check" /\ ctl[Server] = "up" /\ FreeWorker
  /\ pc'   = [pc EXCEPT ![Server] = "scan"]
  /\ cand' = [cand EXCEPT ![Server] = Queued]
  /\ UNCHANGED <<table, ctl, pick, keysOf, locks, wake, workers, job, call, renaming,
                 crashes, edits, errors, unwritten>>

NoFreeWorker ==
  /\ pc[Server] = "check" /\ ctl[Server] = "up" /\ ~FreeWorker
  /\ pc' = [pc EXCEPT ![Server] = "wait"]
  /\ UNCHANGED <<table, ctl, cand, pick, keysOf, locks, wake, workers, job, call,
                 renaming, crashes, edits, errors, unwritten>>

\* The accept function of RunJobInline: only jobs this run caused.
M_AcceptsAny(p, j) == TRUE
Accepts(p, j) == p = Server \/ (row[j].par # 0 /\ owner[row[j].par] = p)

CanRun(p, j) == Accepts(p, j) /\ LocksFree(p, ResourceKeys(j))

Scan(p) ==
  /\ pc[p] = "scan"
  /\ \E j \in Oldest(cand[p]) :
       /\ cand' = [cand EXCEPT ![p] = @ \ {j}]
       /\ IF CanRun(p, j)
            THEN /\ pc'     = [pc EXCEPT ![p] = "claim"]
                 /\ pick'   = [pick EXCEPT ![p] = j]
                 /\ keysOf' = [keysOf EXCEPT ![p] = ResourceKeys(j)]
            ELSE UNCHANGED <<pc, pick, keysOf>>
  /\ UNCHANGED <<table, ctl, locks, wake, workers, job, call, renaming,
                 crashes, edits, errors, unwritten>>

\* The condition of the UPDATE of ClaimJobByID.
StillQueued(j) == row[j].st = "queued"

\* The conditional UPDATE finds the row queued: process p runs job j.
StartJob(p, j, K) ==
  /\ StillQueued(j)
  /\ row'   = [row EXCEPT ![j].st = "running"]
  /\ phase' = [phase EXCEPT ![j] = "run"]
  /\ owner' = [owner EXCEPT ![j] = p]
  /\ need'  = [need EXCEPT ![j] = K]
  /\ AcquireLocks(p, j, K)
  /\ pc'    = [pc EXCEPT ![p] = IF p = Server THEN "check" ELSE "exec"]

Unpick(p) ==
  /\ pick'   = [pick EXCEPT ![p] = 0]
  /\ keysOf' = [keysOf EXCEPT ![p] = {}]

Claim(p) ==
  /\ pc[p] = "claim"
  /\ StartJob(p, pick[p], keysOf[p])
  /\ Unpick(p)
  /\ cand' = [cand EXCEPT ![p] = {}]
  /\ UNCHANGED <<mbox, ctl, wake, workers, todo, call, renaming,
                 crashes, edits, errors, unwritten>>

\* Canceled, or claimed by another process, since the list was read.
ClaimLost(p) ==
  /\ pc[p] = "claim" /\ ~StillQueued(pick[p])
  /\ pc' = [pc EXCEPT ![p] = "scan"]
  /\ Unpick(p)
  /\ UNCHANGED <<table, ctl, cand, locks, wake, workers, job, call, renaming,
                 crashes, edits, errors, unwritten>>

\* The list cannot be read, the UPDATE fails, or it takes effect and the row
\* cannot be read back: the attempt ends with nothing to run.  The dispatcher
\* logs it and waits, the run of a terminal ends.
ClaimFails(p) ==
  /\ errors < MaxErrors
  /\ \/ pc[p] \in {"scan", "claim", "byid"} /\ UNCHANGED <<row, unwritten>>
     \/ /\ pc[p] \in {"claim", "byid"} /\ StillQueued(pick[p])
        /\ row' = [row EXCEPT ![pick[p]].st = "running"]
        /\ unwritten' = unwritten \cup {pick[p]}
  /\ errors' = errors + 1
  /\ pc'   = [pc EXCEPT ![p] = "scan"]
  /\ cand' = [cand EXCEPT ![p] = {}]
  /\ Unpick(p)
  /\ UNCHANGED <<mbox, ctl, locks, wake, workers, job, call, renaming, crashes, edits>>

\* Nothing runnable is left: the dispatcher waits.
NothingRunnable ==
  /\ pc[Server] = "scan" /\ cand[Server] = {}
  /\ pc' = [pc EXCEPT ![Server] = "wait"]
  /\ UNCHANGED <<table, ctl, cand, pick, keysOf, locks, wake, workers, job, call,
                 renaming, crashes, edits, errors, unwritten>>

\* The select of loop: a token, or the ticker of JobPollInterval.
Wakeup ==
  /\ pc[Server] = "wait" /\ wake
  /\ wake' = FALSE
  /\ pc'   = [pc EXCEPT ![Server] = "check"]
  /\ UNCHANGED <<table, ctl, cand, pick, keysOf, locks, workers, job, call, renaming,
                 crashes, edits, errors, unwritten>>

Tick ==
  /\ pc[Server] = "wait"
  /\ pc' = [pc EXCEPT ![Server] = "check"]
  /\ UNCHANGED <<table, ctl, cand, pick, keysOf, locks, wake, workers, job, call,
                 renaming, crashes, edits, errors, unwritten>>

-----------------------------------------------------------------------------
(* Running a claimed job: RunJob and execute, then the release.            *)

\* runExpansion lists its targets: the enabled mailboxes for sync and fetch,
\* every mailbox otherwise.
ExpansionTargets(kind) ==
  {m \in Mailboxes : Live(m) /\ (kind \in {"sync", "fetch"} => mbox[m].enabled)}

\* The job's own work succeeds; an expansion job goes on to queue its
\* children, and the kinds that feed the agent may queue an analysis.
WorkDone(j) ==
  /\ phase[j] = "run"
  /\ phase' = [phase EXCEPT ![j] = "follow"]
  /\ IF Expansion(j)
       THEN todo' = [todo EXCEPT ![j] = ExpansionTargets(row[j].kind)]
       ELSE /\ row[j].mb # NoMailbox => Live(row[j].mb)
            /\ \E T \in {{}, IF row[j].kind \in FollowedUp THEN {row[j].mb} ELSE {}} :
                 todo' = [todo EXCEPT ![j] = T]
  /\ UNCHANGED <<table, ctl, claim, locks, wake, workers, owner, need, call, renaming,
                 crashes, edits, errors, unwritten>>

\* FinishJob: an UPDATE by id, whatever the row says now.
Finish(j, st) ==
  /\ row'   = [row EXCEPT ![j].st = st]
  /\ phase' = [phase EXCEPT ![j] = "finished"]
  /\ todo'  = [todo EXCEPT ![j] = {}]
  /\ UNCHANGED <<mbox, ctl, claim, locks, wake, workers, owner, need, call, renaming,
                 crashes, edits, errors, unwritten>>

WorkFails(j) == phase[j] = "run" /\ Finish(j, "error")

\* enqueueChild: the same kind and target for an expansion, the analysis of
\* the flagged groups for a follow-up.
ChildAsk(j, m) ==
  Stored([kind |-> IF Expansion(j) THEN row[j].kind ELSE "analyze", mb |-> m,
          tgt |-> IF Expansion(j) THEN row[j].tgt ELSE "none"])

\* The loop of runExpansion looks at its context before each child.
Cut(j) == Expansion(j) /\ Canceled(j) /\ todo[j] # {}

EnqueueChild(j) ==
  /\ phase[j] = "follow" /\ call[j] = NoCall /\ ~Cut(j)
  /\ \E m \in todo[j] :
       IF PassesChecks(ChildAsk(j, m))
         THEN /\ call' = [call EXCEPT ![j] = [ask |-> ChildAsk(j, m), step |-> "insert"]]
              /\ UNCHANGED todo
         ELSE Settled(j, m) /\ UNCHANGED call
  /\ UNCHANGED <<table, ctl, claim, locks, wake, workers, phase, owner, need, renaming,
                 crashes, edits, errors, unwritten>>

FinishJob(j) ==
  /\ phase[j] = "follow" /\ call[j] = NoCall
  /\ todo[j] = {} \/ Cut(j)
  /\ Finish(j, IF Cut(j) THEN "error" ELSE "done")

\* The UPDATE of the outcome, whatever it is, fails: it is logged and the row
\* stays running.
FinishLost(j) ==
  /\ errors < MaxErrors
  /\ \/ phase[j] = "run"
     \/ phase[j] = "follow" /\ call[j] = NoCall /\ (todo[j] = {} \/ Cut(j))
  /\ errors' = errors + 1
  /\ unwritten' = unwritten \cup {j}
  /\ phase' = [phase EXCEPT ![j] = "finished"]
  /\ todo'  = [todo EXCEPT ![j] = {}]
  /\ UNCHANGED <<table, ctl, claim, locks, wake, workers, owner, need, call, renaming,
                 crashes, edits>>

\* The goroutine of the dispatcher: releaseLocks, running--, notify.
ReleaseJob(j) ==
  /\ phase[j] = "finished" /\ owner[j] = Server
  /\ phase' = [phase EXCEPT ![j] = "released"]
  /\ ReleaseLocks(Server, j)
  /\ UNCHANGED <<table, ctl, claim, wake, workers, owner, todo, call, renaming,
                 crashes, edits, errors, unwritten>>

WorkerFree(j) ==
  /\ phase[j] = "released"
  /\ phase' = [phase EXCEPT ![j] = "uncounted"]
  /\ UNCHANGED <<table, ctl, claim, locks, wake, workers, owner, need, todo, call,
                 renaming, crashes, edits, errors, unwritten>>

NotifyDispatcher(j) ==
  /\ phase[j] = "uncounted"
  /\ phase' = [phase EXCEPT ![j] = "none"]
  /\ owner' = [owner EXCEPT ![j] = Nobody]
  /\ Notify
  /\ UNCHANGED <<table, ctl, claim, locks, workers, need, todo, call, renaming,
                 crashes, edits, errors, unwritten>>

-----------------------------------------------------------------------------
(* RunJobInline: the CLI process enqueues one job, claims that row by id   *)
(* without looking at its lock table, runs it, and then claims and runs    *)
(* what that run caused.                                                   *)

\* The memory of process p is gone; the rows stay as they are.
Dies(p) ==
  /\ ctl'    = [ctl EXCEPT ![p] = "down"]
  /\ pc'     = [pc EXCEPT ![p] = "off"]
  /\ cand'   = [cand EXCEPT ![p] = {}]
  /\ Unpick(p)
  /\ locks'  = [locks EXCEPT ![p] = NoLocks]
  /\ phase'  = [j \in JobIds |-> IF owner[j] = p THEN "none" ELSE phase[j]]
  /\ owner'  = [j \in JobIds |-> IF owner[j] = p THEN Nobody ELSE owner[j]]
  /\ need'   = [j \in JobIds |-> IF owner[j] = p THEN {} ELSE need[j]]
  /\ todo'   = [j \in JobIds |-> IF owner[j] = p THEN {} ELSE todo[j]]
  /\ call'   = [x \in Callers |-> IF HostOf(x) = p THEN NoCall ELSE call[x]]
  /\ unwritten' = unwritten \cup {j \in JobIds : owner[j] = p /\ phase[j] \in Working}
  /\ UNCHANGED <<table, workers, renaming, edits, errors>>

\* LocalServer finds no server; EnqueueJob is past its checks.
CLIStart(c, r) ==
  /\ ctl[c] = "down" /\ ctl[Server] = "down"
  /\ PassesChecks(Stored(r))
  /\ ctl'  = [ctl EXCEPT ![c] = "up"]
  /\ pc'   = [pc EXCEPT ![c] = "insert"]
  /\ call' = [call EXCEPT ![c] = [ask |-> Stored(r), step |-> "insert"]]
  /\ UNCHANGED <<table, cand, pick, keysOf, locks, wake, workers, job, renaming,
                 crashes, edits, errors, unwritten>>

ClaimById(c) ==
  /\ pc[c] = "byid"
  /\ StartJob(c, pick[c], ResourceKeys(pick[c]))
  /\ pick' = [pick EXCEPT ![c] = 0]
  /\ UNCHANGED <<mbox, ctl, cand, keysOf, wake, workers, todo, call, renaming,
                 crashes, edits, errors, unwritten>>

\* execute returned: the locks are released and the chain goes on.
CLIRelease(j) ==
  /\ phase[j] = "finished" /\ owner[j] \in CLIs
  /\ phase' = [phase EXCEPT ![j] = "none"]
  /\ ReleaseLocks(owner[j], j)
  /\ pc' = [pc EXCEPT ![owner[j]] = "check"]
  /\ UNCHANGED <<table, ctl, cand, pick, keysOf, wake, workers, owner, todo, call,
                 renaming, crashes, edits, errors, unwritten>>

CLINext(c) ==
  /\ pc[c] = "check" /\ ctl[c] = "up"
  /\ pc'   = [pc EXCEPT ![c] = "scan"]
  /\ cand' = [cand EXCEPT ![c] = Queued]
  /\ UNCHANGED <<table, ctl, pick, keysOf, locks, wake, workers, job, call, renaming,
                 crashes, edits, errors, unwritten>>

\* Nothing of the chain is left, the run was interrupted, or the row was
\* claimed or canceled before ClaimById.
CLIExit(c) ==
  /\ \/ pc[c] = "scan" /\ cand[c] = {}
     \/ pc[c] = "check" /\ ctl[c] = "stopping"
     \/ pc[c] = "byid" /\ ~StillQueued(pick[c])
  /\ Dies(c)
  /\ UNCHANGED <<wake, crashes>>

\* Ctrl-C: the context of the run is canceled.
Interrupt(c) ==
  /\ ctl[c] = "up"
  /\ ctl' = [ctl EXCEPT ![c] = "stopping"]
  /\ UNCHANGED <<table, claim, locks, wake, workers, job, call, renaming,
                 crashes, edits, errors, unwritten>>

-----------------------------------------------------------------------------
(* The server starts, stops and crashes.                                   *)

M_ResetForgotten == UNCHANGED row /\ unwritten' = {}

\* ResetRunningJobs: whatever still says running failed with its process (or
\* a terminal still runs it, and writes its outcome over this one).
ResetStaleJobs ==
  /\ row' = [j \in JobIds |->
               IF row[j].st = "running" THEN [row[j] EXCEPT !.st = "error"] ELSE row[j]]
  /\ unwritten' = {}

\* startServer under the server lock: ResetStaleJobs, whose failure is only
\* logged, then the dispatcher.
StartServer ==
  /\ ctl[Server] = "down"
  /\ \/ ResetStaleJobs /\ UNCHANGED errors
     \/ errors < MaxErrors /\ errors' = errors + 1 /\ UNCHANGED <<row, unwritten>>
  /\ ctl' = [ctl EXCEPT ![Server] = "up"]
  /\ pc'  = [pc EXCEPT ![Server] = "check"]
  /\ wake' = FALSE
  /\ UNCHANGED <<mbox, cand, pick, keysOf, locks, workers, job, call, renaming,
                 crashes, edits>>

\* shutdown: the scheduler and then the job manager are told to stop; HTTP
\* requests are still answered.
StopServer ==
  /\ ctl[Server] = "up"
  /\ ctl' = [ctl EXCEPT ![Server] = "stopping"]
  /\ UNCHANGED <<table, claim, locks, wake, workers, job, call, renaming,
                 crashes, edits, errors, unwritten>>

DispatcherExit ==
  /\ ctl[Server] = "stopping" /\ pc[Server] \in {"check", "wait"}
  /\ pc' = [pc EXCEPT ![Server] = "off"]
  /\ UNCHANGED <<table, ctl, cand, pick, keysOf, locks, wake, workers, job, call,
                 renaming, crashes, edits, errors, unwritten>>

\* Stop waited for the dispatcher and every job goroutine, then the HTTP
\* server for the requests in flight.
ServerDown ==
  /\ ctl[Server] = "stopping" /\ pc[Server] = "off"
  /\ JobsEnded
  /\ \A c \in Clients : call[c] = NoCall
  /\ Dies(Server)
  /\ UNCHANGED <<wake, crashes>>

\* A kill, a power cut, the second signal of the server.
Crash(p) ==
  /\ crashes < MaxCrashes /\ ctl[p] # "down"
  /\ crashes' = crashes + 1
  /\ Dies(p)
  /\ UNCHANGED wake

-----------------------------------------------------------------------------
(* Mailboxes and the workers setting.                                      *)

M_QueuedJobsKept(m) == UNCHANGED row
CancelQueuedJobsForMailbox(m) ==
  row' = [j \in JobIds |->
            IF row[j].mb = m /\ row[j].st = "queued"
              THEN [row[j] EXCEPT !.st = "canceled"] ELSE row[j]]

\* deleteMailboxRow: one transaction; refused while a job of it is running.
DeleteMailbox(m) ==
  /\ edits < MaxEdits /\ Live(m) /\ ~HasRunningJobForMailbox(m)
  /\ edits' = edits + 1
  /\ mbox' = [mbox EXCEPT ![m].live = FALSE]
  /\ CancelQueuedJobsForMailbox(m)
  /\ UNCHANGED <<ctl, claim, locks, wake, workers, job, call, renaming, crashes, errors, unwritten>>

\* UpdateMailbox without a new address: not checked against running jobs.
EditMailbox(m) ==
  /\ edits < MaxEdits /\ Live(m)
  /\ \E b \in Boxes : /\ b.addr = mbox[m].addr /\ b.live /\ b # mbox[m]
                      /\ mbox' = [mbox EXCEPT ![m] = b]
  /\ edits' = edits + 1
  /\ UNCHANGED <<row, ctl, claim, locks, wake, workers, job, call, renaming,
                 crashes, errors, unwritten>>

\* UpdateMailbox with a new address: the address is free, no job is running.
RenameChecked(m, a) ==
  /\ edits < MaxEdits /\ Live(m) /\ renaming[m] = "no"
  /\ \A n \in Mailboxes : Live(n) => mbox[n].addr # a
  /\ ~HasRunningJobForMailbox(m)
  /\ renaming' = [renaming EXCEPT ![m] = a]
  /\ edits' = edits + 1
  /\ UNCHANGED <<table, ctl, claim, locks, wake, workers, job, call, crashes, errors, unwritten>>

\* The data directories are moved and the row is written (or moved back when
\* the address is taken or the row is gone by now).
RenameMailbox(m) ==
  /\ renaming[m] # "no"
  /\ mbox' = IF Live(m) /\ \A n \in Mailboxes : Live(n) => mbox[n].addr # renaming[m]
               THEN [mbox EXCEPT ![m].addr = renaming[m]] ELSE mbox
  /\ renaming' = [renaming EXCEPT ![m] = "no"]
  /\ UNCHANGED <<row, ctl, claim, locks, wake, workers, job, call,
                 crashes, edits, errors, unwritten>>

SetWorkers(n) ==
  /\ edits < MaxEdits /\ ctl[Server] = "up" /\ n # workers
  /\ workers' = n
  /\ Notify
  /\ edits' = edits + 1
  /\ UNCHANGED <<table, ctl, claim, locks, job, call, renaming, crashes, errors, unwritten>>

-----------------------------------------------------------------------------

Init ==
  /\ row      = [j \in JobIds |-> NoRow]
  /\ mbox     = Home
  /\ ctl      = [p \in Procs |-> "down"]
  /\ pc       = [p \in Procs |-> "off"]
  /\ cand     = [p \in Procs |-> {}]
  /\ pick     = [p \in Procs |-> 0]
  /\ keysOf   = [p \in Procs |-> {}]
  /\ locks    = [p \in Procs |-> NoLocks]
  /\ wake     = FALSE
  /\ workers  = MaxWorkers
  /\ phase    = [j \in JobIds |-> "none"]
  /\ owner    = [j \in JobIds |-> Nobody]
  /\ need     = [j \in JobIds |-> {}]
  /\ todo     = [j \in JobIds |-> {}]
  /\ call     = [x \in Callers |-> NoCall]
  /\ renaming = [m \in Mailboxes |-> "no"]
  /\ unwritten = {}
  /\ crashes = 0 /\ edits = 0 /\ errors = 0

Dispatching ==
  \/ Dispatch \/ NoFreeWorker \/ NothingRunnable \/ Wakeup \/ Tick
  \/ \E p \in Procs : Scan(p) \/ Claim(p) \/ ClaimLost(p) \/ ClaimFails(p)

Executing ==
  \E j \in JobIds :
    \/ WorkDone(j) \/ WorkFails(j) \/ EnqueueChild(j) \/ FinishJob(j) \/ FinishLost(j)
    \/ ReleaseJob(j) \/ WorkerFree(j) \/ NotifyDispatcher(j) \/ CLIRelease(j)

Calling ==
  \/ \E c \in Clients, r \in Requests : BeginEnqueue(c, r)
  \/ \E x \in Callers : InsertRow(x) \/ InsertFails(x) \/ SendWake(x)
  \/ \E j \in JobIds : CancelQueuedJob(j)

CLIRunning ==
  \E c \in CLIs :
    \/ \E r \in Requests : CLIStart(c, r)
    \/ ClaimById(c) \/ CLINext(c) \/ CLIExit(c) \/ Interrupt(c)

Lifecycle ==
  \/ StartServer \/ StopServer \/ DispatcherExit \/ ServerDown
  \/ \E p \in Procs : Crash(p)

Configuring ==
  \/ \E m \in Mailboxes :
       \/ DeleteMailbox(m) \/ EditMailbox(m) \/ RenameMailbox(m)
       \/ \E a \in NewAddrs : RenameChecked(m, a)
  \/ \E n \in 1 .. MaxWorkers : SetWorkers(n)

Next == Dispatching \/ Executing \/ Calling \/ CLIRunning \/ Lifecycle \/ Configuring

Spec == Init /\ [][Next]_vars

(* Fairness: the goroutines of a live server are scheduled, and the work   *)
(* of a job ends some day (the server it waits for answers or the          *)
(* connection breaks).  Nothing is assumed of the ticker, of the callers   *)
(* before they ask, of kills or of restarts.                               *)

DispatcherStep ==
  \/ Dispatch \/ NoFreeWorker \/ NothingRunnable \/ Wakeup \/ DispatcherExit
  \/ Scan(Server) \/ Claim(Server) \/ ClaimLost(Server)

JobStep(j) ==
  \/ WorkDone(j) \/ WorkFails(j) \/ EnqueueChild(j) \/ FinishJob(j)
  \/ ReleaseJob(j) \/ WorkerFree(j) \/ NotifyDispatcher(j)

CallStep(x) == InsertRow(x) \/ InsertFails(x) \/ SendWake(x)

Fairness ==
  /\ WF_vars(DispatcherStep)
  /\ WF_vars(ServerDown)
  /\ \A j \in JobIds : WF_vars(JobStep(j))
  /\ \A x \in Callers : WF_vars(CallStep(x))

FairSpec == Spec /\ Fairness

-----------------------------------------------------------------------------
(* Properties.                                                             *)

\* Every variable has its type.
TypeOK ==
  /\ row \in [JobIds -> Rows]
  /\ mbox \in [Mailboxes -> Boxes]
  /\ ctl \in [Procs -> {"down", "up", "stopping"}]
  /\ pc \in [Procs -> {"off", "check", "wait", "scan", "claim", "insert", "byid", "exec"}]
  /\ cand \in [Procs -> SUBSET JobIds]
  /\ pick \in [Procs -> 0 .. MaxJobs]
  /\ keysOf \in [Procs -> SUBSET Keys]
  /\ locks \in [Procs -> [Keys -> 0 .. MaxJobs]]
  /\ wake \in BOOLEAN
  /\ workers \in 1 .. MaxWorkers
  /\ phase \in [JobIds -> Phases]
  /\ owner \in [JobIds -> Procs \cup {Nobody}]
  /\ need \in [JobIds -> SUBSET Keys]
  /\ todo \in [JobIds -> SUBSET Mailboxes]
  /\ call \in [Callers -> Calls]
  /\ renaming \in [Mailboxes -> NewAddrs \cup {"no"}]
  /\ unwritten \subseteq JobIds
  /\ crashes \in 0 .. MaxCrashes /\ edits \in 0 .. MaxEdits /\ errors \in 0 .. MaxErrors

\* The lock table of a process and its running jobs agree: a job keeps every
\* key its claim reserved until it releases them, and no key stays reserved
\* after its holder is gone (claimRunnable, claimByID, releaseLocks).
LockTableExact ==
  \A p \in Procs, k \in Keys, j \in JobIds :
    (locks[p][k] = j) <=> (owner[j] = p /\ phase[j] \in Holding /\ k \in need[j])

\* Two jobs never work on the mails and the index of one mailbox at once
\* (the mailbox: key), whatever process they run in.
OneWriterPerMailbox ==
  \A i, j \in JobIds :
    /\ phase[i] \in Working /\ phase[j] \in Working
    /\ row[i].kind \in MailWriters /\ row[j].kind \in MailWriters
    /\ row[i].mb = row[j].mb /\ row[i].mb # NoMailbox
    => i = j

\* The agent CLI runs one analysis at a time, and no reindex and no cleanup
\* rewrites mails and groups while it reads its evidence from them.
StableEvidence ==
  \A i, j \in JobIds :
    /\ phase[i] \in Working /\ phase[j] \in Working
    /\ row[i].kind = "analyze" /\ row[j].kind \in {"analyze", "reindex", "cleanup"}
    /\ row[i].mb # NoMailbox /\ row[j].mb # NoMailbox
    => i = j

\* Jobs run beside each other in a pool; what they share on disk has one user.
WorkIsExclusive == OneWriterPerMailbox /\ StableEvidence

\* No job works on a mailbox whose row is deleted: the deletion cancels the
\* waiting jobs and is refused while one runs (deleteMailboxRow), and a job
\* enqueued meanwhile is refused by the foreign key.
DeletedMailboxIdle ==
  \A j \in JobIds :
    phase[j] \in Working /\ row[j].mb # NoMailbox => Live(row[j].mb)

\* A row says running exactly while a process works on its job, from the claim
\* to the writing of the outcome: over cancels, deletions, kills, restarts and
\* failed writes.  (A row left running keeps its mailbox from being deleted and
\* jobs like it from being queued.)  Left out are the jobs whose end could not
\* be written since a server last marked such rows, and the job of a terminal
\* that goes on while a server that starts marks it as failed.
RowsTellWork ==
  \A j \in JobIds :
    /\ phase[j] \in Working =>
         row[j].st = "running" \/ (row[j].st = "error" /\ owner[j] \in CLIs)
    /\ row[j].st = "running" => phase[j] \in Working \/ j \in unwritten

\* The in-process runner claims nothing but its own job and what that job
\* caused: jobs other processes queued are left alone.
ForeignJobsLeftAlone ==
  [][\A j \in JobIds, c \in CLIs :
       owner[j] # c /\ owner'[j] = c =>
         \/ \A i \in JobIds : owner[i] # c
         \/ row[j].par # 0 /\ owner[row[j].par] = c]_vars

\* A job queued while the server serves ends some day, without the ticker.
QueuedFinishes ==
  \A j \in JobIds :
    row[j].st = "queued" ~> (row[j].st \in Finished \/ ctl[Server] # "up")

\* A server that is told to stop stops.
StopEnds == ctl[Server] = "stopping" ~> ctl[Server] = "down"

-----------------------------------------------------------------------------
(* What the queue promises: SerialQueue.  A job counts as in progress from *)
(* its claim until its keys are released.                                  *)

Promise == INSTANCE SerialQueue WITH
  Jobs <- JobIds, Resources <- Keys,
  status <- [j \in JobIds |-> row[j].st],
  busy   <- {j \in JobIds : owner[j] = Server /\ phase[j] \in Holding},
  holds  <- need

SerialQueueSpec == Promise!Spec

=============================================================================
