------------------------------- MODULE Probe -------------------------------
(***************************************************************************)
(* Delivery probes: every mailbox sends a probe mail to the probe address, *)
(* arrival checks look for the mails on the probe server, and what is      *)
(* missing too long is mailed to the notification recipients.              *)
(*                                                                         *)
(* The probe_send and probe_check jobs exclude each other (the probe key   *)
(* of JobQueue), so one job runs at a time.  What interleaves with it are  *)
(* the mails under way, the clock, the scheduler, administrators who       *)
(* resolve mails, switch the probe or a mailbox or change the server, an   *)
(* unreadable server, and failures: the process may die between any two    *)
(* steps.  A step is one read or write of the settings, one SQL statement  *)
(* or transaction, one SMTP transmission, one IMAP listing or deletion.    *)
(*                                                                         *)
(* Time is a number; 0 is the zero time.  A mail is known by its token.    *)
(* A definition M_... is a faulty variant of the definition after it.      *)
(***************************************************************************)
EXTENDS Naturals, FiniteSets

CONSTANTS
  Mails,        \* tokens of the probe mails that may be sent
  Boxes,        \* mailboxes that may send them
  BoxOf,        \* token -> mailbox
  Delay,        \* probe_delay_minutes
  Failure,      \* probe_failure_minutes
  Coalesce,     \* ProbeCheckCoalesce
  Retry,        \* ProbeCheckRetryInterval
  LeftoverAge,  \* ProbeLeftoverMinAge
  Keep          \* how long a record is kept (runCleanup)

CONSTANTS       \* bounds of the model
  MaxTime,      \* the clock
  MaxServers,   \* connections the probe server is set to
  MaxTroubles   \* crashes, refused or rewritten mails, failed writes, interventions of administrators,
                \* and checks by hand, together

ASSUME ProbeAssumption ==
  /\ IsFiniteSet(Mails) /\ BoxOf \in [Mails -> Boxes]
  /\ Delay \in Nat \ {0} /\ Failure \in Nat /\ Delay < Failure    \* SettingsUpdate.Probe
  /\ Coalesce \in Nat /\ Retry \in Nat \ {0} /\ LeftoverAge \in Nat /\ Keep \in Nat

ASSUME ProbeBoundsAssumption ==
  MaxTime \in Nat \ {0} /\ MaxServers \in Nat \ {0} /\ MaxTroubles \in Nat

VARIABLES
  now,          \* clock
  post,         \* mail -> "none", "lost", "sent", "in" the folder, there with an "other" sender, "gone"
  at,           \* mail -> when it arrived
  row,          \* probe_mails: mail -> record
  enabled,      \* probe_enabled
  off,          \* mailboxes that do not take part
  server,       \* the connection of the probe server (and its password)
  last, next,   \* probe_last_send_at, probe_next_check_at
  run,          \* the failed checks in a row
  closing,      \* mailboxes whose open mails a switch-off has still to close
  queued,       \* whether a check of the scheduler is queued
  clearing,     \* whether the scheduler is about to call ClearProbeCheck
  job,          \* the running job and where it is
  mailed,       \* history: mail -> levels it was mailed for
  again,        \* history: <<mail, level>> mailed once more
  slips,        \* history: <<mail, level>> mailed and not marked
  unread,       \* history: mails about the unreadable server in this run, but for those whose record was lost
  counted,      \* history: the connection of the counted checks
  disturbed,    \* history: a step failed since the last check that did not
  dropped,      \* history: a schedule was cleared after new mails were sent
  troubles

mails    == <<post, at>>
settings == <<enabled, off, server, last, next, run>>
history  == <<mailed, again, slips, unread, counted, disturbed, dropped>>
vars == <<now, post, at, row, enabled, off, server, last, next, run, closing, queued,
          clearing, job, mailed, again, slips, unread, counted, disturbed, dropped,
          troubles>>

Times    == 0 .. MaxTime
Waiting  == {"pending", "delayed", "failure"}
Open     == Waiting \union {"send_failed"}
Closed   == {"arrived", "recovered", "resolved"}
Levels   == 0 .. 2                           \* "", "delayed", "failure"
NoRow    == [st |-> "none", lvl |-> 0, sent |-> 0, told |-> FALSE, mailed |-> FALSE, gone |-> FALSE]
Row      == [st : Open \union Closed \union {"none"}, lvl : Levels, sent : Times,
             told : BOOLEAN, mailed : BOOLEAN, gone : BOOLEAN]
NoRun    == [n |-> 0, since |-> 0, told |-> FALSE]
Seen     == [enabled |-> enabled, server |-> server, run |-> run]

Idle == [pc |-> "idle", send |-> FALSE, todo |-> {}, cur |-> {}, refused |-> FALSE, t |-> 0,
         waiting |-> {}, found |-> {}, del |-> {}, gone |-> {}, next |-> 0, skipped |-> FALSE,
         err |-> "none", delays |-> {}, failures |-> {}, notified |-> FALSE,
         seen |-> [enabled |-> FALSE, server |-> 1, run |-> NoRun]]

StatusIn(S) == {m \in Mails : row[m].st \in S}
Minimum(S) == CHOOSE x \in S : \A y \in S : x <= y
Maximum(S) == CHOOSE x \in S : \A y \in S : x >= y

-----------------------------------------------------------------------------
(* Times and levels.                                                       *)

\* NextProbeCheckAt: whole delay steps after the latest send up to the failure
\* threshold, then whole failure periods.
NextProbeCheckAt(lastSend, checked) ==
  LET elapsed == IF checked > lastSend THEN checked - lastSend ELSE 0
      step    == (elapsed \div Delay + 1) * Delay
  IN IF lastSend = 0 THEN checked + Failure
     ELSE lastSend + IF step < Failure THEN step ELSE (elapsed \div Failure + 1) * Failure

\* probeLevelCheckAt: earlier when a missing mail reaches its next level before;
\* what comes within Coalesce of it is checked together.
M_ProbeLevelCheckAt(regular, moments, t) == regular
ProbeLevelCheckAt(regular, moments, t) ==
  LET ahead == {x \in moments : x > t}
      first == Minimum(ahead)
  IN IF ahead = {} \/ first >= regular THEN regular
     ELSE Maximum({x \in ahead \union {regular} : x - first <= Coalesce})

\* probeRetryAfter: doubled with every failure, up to a limit.
RetryAfter(failures) ==
  LET limit == Maximum({Failure, Retry})
  IN Minimum({limit} \union {d \in Retry .. limit : d = Retry * 2 ^ (failures - 1)})

ProbeLevelFor(elapsed) == CASE elapsed >= Failure -> 2
                            [] elapsed >= Delay /\ elapsed < Failure -> 1
                            [] OTHER -> 0
Since(t, sent) == IF t > sent THEN t - sent ELSE 0
WorseProbeLevel(a, b) == Maximum({a, b})

\* ApplyProbeCheck, for a mail that arrived at t, and for one still missing at t.
M_Arrived(p, t) ==
  LET lvl == ProbeLevelFor(Since(t, p.sent))
  IN [p EXCEPT !.lvl = lvl, !.st = IF lvl = 0 THEN "arrived" ELSE "recovered"]
Arrived(p, t) ==
  LET lvl == WorseProbeLevel(p.lvl, ProbeLevelFor(Since(t, p.sent)))
  IN [p EXCEPT !.lvl = lvl, !.st = IF lvl = 0 THEN "arrived" ELSE "recovered"]
Missing(p, t) ==
  LET lvl == WorseProbeLevel(p.lvl, ProbeLevelFor(Since(t, p.sent)))
  IN [p EXCEPT !.lvl = lvl, !.st = CASE lvl = 2 -> "failure" [] lvl = 1 -> "delayed" [] OTHER -> "pending"]

Init ==
  /\ now = 1 /\ post = [m \in Mails |-> "none"] /\ at = [m \in Mails |-> 0]
  /\ row = [m \in Mails |-> NoRow]
  /\ enabled = TRUE /\ off = {} /\ server = 1
  /\ last = 0 /\ next = 0 /\ run = NoRun
  /\ closing = {} /\ queued = FALSE /\ clearing = FALSE /\ job = Idle
  /\ mailed = [m \in Mails |-> {}] /\ again = {} /\ slips = {} /\ unread = 0
  /\ counted = 1 /\ disturbed = FALSE /\ dropped = FALSE
  /\ troubles = 0

Trouble == troubles < MaxTroubles /\ troubles' = troubles + 1
NoTrouble == UNCHANGED troubles

-----------------------------------------------------------------------------
(* The world: mails under way, the clock, the probe server.                *)

\* What happens outside a job matters to it only at these points.
Stops == {"idle", "send", "list", "record", "alerts"}

\* A mail arrives, some day or never; a relay may rewrite its sender.
Arrive(m) ==
  /\ post[m] = "sent" /\ job.pc \in Stops
  /\ \/ post' = [post EXCEPT ![m] = "in"] /\ NoTrouble
     \/ post' = [post EXCEPT ![m] = "other"] /\ Trouble
  /\ at' = [at EXCEPT ![m] = now]
  /\ UNCHANGED <<now, row, settings, closing, queued, clearing, job, history>>

CheckDue == enabled /\ next # 0 /\ next <= now

\* Jobs take their time, but the scheduler ticks often: time does not pass
\* while a check is due and the queue is idle.
Tick ==
  /\ now < MaxTime /\ job.pc \in Stops
  /\ job.pc = "idle" => ~queued /\ ~clearing /\ ~CheckDue
  /\ now' = now + 1
  /\ UNCHANGED <<mails, row, settings, closing, queued, clearing, job, history, troubles>>

-----------------------------------------------------------------------------
(* The scheduler.                                                          *)

\* queueProbe: a due check is queued unless a send or a check is active; with
\* nothing open its schedule is cleared instead.
QueueCheck ==
  /\ CheckDue /\ job.pc = "idle" /\ ~queued /\ ~clearing
  /\ clearing' = (StatusIn(Open) = {})
  /\ queued' = ~clearing'
  /\ UNCHANGED <<now, mails, row, settings, closing, job, history, troubles>>

\* ClearProbeCheck, after the jobs were looked at.
ClearProbeCheck ==
  /\ clearing /\ clearing' = FALSE
  /\ next' = 0 /\ run' = NoRun /\ unread' = 0
  /\ dropped' = (job.send \/ StatusIn(Waiting) # {} \/ dropped)
  /\ UNCHANGED <<now, mails, row, enabled, off, server, last, closing, queued, job,
                 mailed, again, slips, counted, disturbed, troubles>>

-----------------------------------------------------------------------------
(* SendProbes.                                                             *)

Participating == Boxes \ off

\* The records with the open mails of mailboxes in B closed (CloseOpenProbeMails).
ClosedIn(R, B) == [m \in Mails |-> IF BoxOf[m] \in B /\ R[m].st \in Open
                                   THEN [R[m] EXCEPT !.st = "resolved"] ELSE R[m]]
\* closeStaleOpenProbes
WithoutStale(R) == ClosedIn(R, IF enabled THEN off ELSE Boxes)

\* One mail for each mailbox that takes part.
Sendings == {T \in SUBSET {m \in Mails : post[m] = "none"} :
               /\ \A m \in T : BoxOf[m] \in Participating
               /\ \A b \in Participating : Cardinality({m \in T : BoxOf[m] = b}) = 1}

Outside == UNCHANGED <<now, enabled, off, server, closing, clearing>>
Unmailed == UNCHANGED <<mailed, again, slips, unread, counted>>

\* The check of this send is scheduled before the first mail goes out.
M_StartSend ==
  /\ job.pc = "idle" /\ enabled /\ NoTrouble
  /\ \E T \in Sendings \ {{}} : job' = [job EXCEPT !.send = TRUE, !.todo = T, !.pc = "send"]
  /\ UNCHANGED <<mails, row, last, next, run, queued, disturbed, dropped>> /\ Unmailed /\ Outside
StartSend ==
  /\ job.pc = "idle" /\ enabled
  /\ \/ /\ Participating # {} /\ NoTrouble
        /\ next' = now + Delay /\ dropped' = FALSE
        /\ \E T \in Sendings : job' = [job EXCEPT !.send = TRUE, !.todo = T, !.pc = "send"]
     \/ /\ IF Participating = {} THEN NoTrouble ELSE Trouble       \* no mailbox, or the write fails
        /\ job' = [job EXCEPT !.send = TRUE, !.pc = "close"]
        /\ UNCHANGED <<next, dropped>>
  /\ UNCHANGED <<mails, row, last, run, queued, disturbed>> /\ Unmailed /\ Outside

\* sendOneProbe reads the probe and the mailbox again.
TakeMail(m) ==
  /\ job.pc = "send" /\ m \in job.todo
  /\ job' = IF enabled /\ BoxOf[m] \notin off
            THEN [job EXCEPT !.todo = @ \ {m}, !.cur = {m}, !.pc = "smtp"]
            ELSE [job EXCEPT !.todo = @ \ {m}]
  /\ NoTrouble
  /\ UNCHANGED <<mails, row, last, next, run, queued, disturbed, dropped>> /\ Unmailed /\ Outside

\* The job is canceled between two mails.
CancelSend ==
  /\ job.pc = "send" /\ job.todo # {} /\ Trouble
  /\ job' = [job EXCEPT !.pc = "close", !.err = "canceled", !.todo = {}]
  /\ disturbed' = TRUE
  /\ UNCHANGED <<mails, row, last, next, run, queued, dropped>> /\ Unmailed /\ Outside

\* SendMessage: taken, refused, or taken although an error came back.
Transmit ==
  /\ job.pc = "smtp"
  /\ \E taken, refused \in BOOLEAN :
       /\ taken \/ refused
       /\ IF refused THEN Trouble ELSE NoTrouble
       /\ post' = [m \in Mails |-> IF m \notin job.cur THEN post[m] ELSE IF taken THEN "sent" ELSE "lost"]
       /\ job' = [job EXCEPT !.refused = refused, !.t = now, !.pc = "insert"]
  /\ UNCHANGED <<at, row, last, next, run, queued, disturbed, dropped>> /\ Unmailed /\ Outside

\* InsertProbeMail, which may fail: the mail is under way without a record.
InsertProbeMail ==
  /\ job.pc = "insert"
  /\ \/ /\ row' = [m \in Mails |->
                     IF m \notin job.cur THEN row[m]
                     ELSE [NoRow EXCEPT !.sent = job.t, !.st = IF job.refused THEN "send_failed" ELSE "pending",
                                        !.lvl = IF job.refused THEN 2 ELSE 0]]
        /\ NoTrouble
     \/ Trouble /\ UNCHANGED row
  /\ job' = [job EXCEPT !.cur = {}, !.refused = FALSE, !.t = 0, !.pc = "send"]
  /\ UNCHANGED <<mails, last, next, run, queued, disturbed, dropped>> /\ Unmailed /\ Outside

FinishSend ==
  /\ job.pc = "send" /\ job.todo = {}
  /\ \/ last' = now /\ next' = now + Delay /\ dropped' = FALSE /\ NoTrouble /\ UNCHANGED disturbed
     \/ Trouble /\ disturbed' = TRUE /\ UNCHANGED <<last, next, dropped>>
  /\ job' = [job EXCEPT !.pc = "close"]
  /\ UNCHANGED <<mails, row, run, queued>> /\ Unmailed /\ Outside

CloseStale ==
  /\ job.pc = "close"
  /\ row' = WithoutStale(row)
  /\ job' = [job EXCEPT !.pc = "alerts"]
  /\ NoTrouble
  /\ UNCHANGED <<mails, last, next, run, queued, disturbed, dropped>> /\ Unmailed /\ Outside

-----------------------------------------------------------------------------
(* CheckProbes.                                                            *)

\* runProbe: a check of the scheduler that is not due any more is skipped.
SkipCheck ==
  /\ job.pc = "idle" /\ queued /\ queued' = FALSE
  /\ next = 0 \/ now < next
  /\ NoTrouble
  /\ UNCHANGED <<mails, row, last, next, run, job, disturbed, dropped>> /\ Unmailed /\ Outside

\* The stale mails are closed, the settings read, and the mails listed.  A check
\* by hand may find nothing open any more.
StartCheck(byHand) ==
  /\ job.pc = "idle"
  /\ IF byHand THEN Trouble ELSE queued /\ next # 0 /\ next <= now /\ NoTrouble
  /\ queued' = (queued /\ byHand)
  /\ row' = WithoutStale(row)
  /\ LET some == \E m \in Mails : row'[m].st \in Open
     IN job' = [job EXCEPT !.pc = IF some THEN "list" ELSE "alerts", !.skipped = ~some, !.seen = Seen,
                           !.t = now, !.waiting = {m \in Mails : row'[m].st \in Waiting}]
  /\ UNCHANGED <<now, mails, enabled, off, server, last, next, run, closing, clearing,
                 disturbed, dropped>> /\ Unmailed

\* CheckProbeServer up to the listing: it is read, unreadable, or the job is
\* canceled.
ListFolder ==
  /\ job.pc = "list"
  /\ \/ /\ NoTrouble /\ UNCHANGED disturbed
        /\ job' = [job EXCEPT !.pc = "record", !.found = {m \in Mails : post[m] \in {"in", "other"}}]
     \/ /\ NoTrouble /\ disturbed' = TRUE
        /\ job' = [job EXCEPT !.pc = "alerts", !.err = "server"]
     \/ /\ Trouble /\ disturbed' = TRUE
        /\ job' = [job EXCEPT !.pc = "alerts", !.err = "canceled"]
  /\ UNCHANGED <<mails, row, last, next, run, queued, dropped>> /\ Unmailed /\ Outside

\* UpdateProbeMailCheck changes a record only while it is open.
Updatable(m)   == row[m].st \in Open

\* sortProbeMessages: verified mails of the listing, and what else is deleted.
Verified(found) == {m \in found : post[m] = "in" /\ row[m].st # "none"}
Unrecorded(found)   == {m \in found \ Verified(found) : now - at[m] >= LeftoverAge /\ row[m].st \notin Open}

\* recordProbeArrivals, one transaction, judged by a clock read after the
\* listing; then the next check follows from what is still missing.
RecordArrivals ==
  /\ job.pc = "record"
  /\ \/ LET here    == Verified(job.found)
            left    == {m \in job.waiting : Updatable(m) /\ m \notin here}
            moments == {row[m].sent + Delay   : m \in {k \in left : Missing(row[k], now).lvl = 0}}
                       \union {row[m].sent + Failure : m \in {k \in left : Missing(row[k], now).lvl = 1}}
        IN /\ row' = [m \in Mails |->
                        CASE m \in left -> Missing(row[m], now)
                          [] m \in here /\ Updatable(m) /\ (m \in job.waiting \/ row[m].st = "send_failed")
                               -> Arrived(row[m], at[m])
                          [] OTHER -> row[m]]
           /\ job' = [job EXCEPT !.pc = "delete", !.t = now, !.del = here \union Unrecorded(job.found),
                                 !.next = IF left = {} THEN 0
                                          ELSE ProbeLevelCheckAt(NextProbeCheckAt(last, now), moments, now)]
           /\ NoTrouble /\ UNCHANGED disturbed
     \/ /\ Trouble /\ disturbed' = TRUE
        /\ job' = [job EXCEPT !.pc = "alerts", !.t = now, !.err = "database"]
        /\ UNCHANGED row
  /\ UNCHANGED <<mails, last, next, run, queued, dropped>> /\ Unmailed /\ Outside

\* A batch is deleted on the server, or the deletion breaks off.
DeleteMail(m) ==
  /\ job.pc = "delete" /\ m \in job.del
  /\ \/ /\ post' = [post EXCEPT ![m] = "gone"]
        /\ job' = [job EXCEPT !.del = @ \ {m}, !.gone = @ \union {m}]
        /\ NoTrouble
     \/ /\ Trouble /\ UNCHANGED post
        /\ job' = [job EXCEPT !.del = {}]
  /\ UNCHANGED <<at, row, last, next, run, queued, disturbed, dropped>> /\ Unmailed /\ Outside

\* MarkProbeMailsDeleted
MarkDeleted ==
  /\ job.pc = "delete" /\ job.del = {}
  /\ row' = [m \in Mails |-> IF m \in job.gone /\ row[m].st # "none"
                             THEN [row[m] EXCEPT !.gone = TRUE] ELSE row[m]]
  /\ job' = [job EXCEPT !.pc = "alerts", !.found = {}, !.gone = {}]
  /\ NoTrouble
  /\ UNCHANGED <<mails, last, next, run, queued, disturbed, dropped>> /\ Unmailed /\ Outside

-----------------------------------------------------------------------------
(* notifyProbeAlerts, at the end of both jobs.                             *)

Done == IF job.send THEN Idle ELSE [job EXCEPT !.pc = "report", !.delays = {}, !.failures = {}]

\* ListUnnotifiedProbeAlerts
ListAlerts ==
  /\ job.pc = "alerts"
  /\ LET D == {m \in Mails : row[m].st = "delayed" /\ ~row[m].told}
         F == {m \in Mails : row[m].st \in {"failure", "send_failed"} /\ ~row[m].mailed}
     IN job' = IF D \union F = {} THEN Done ELSE [job EXCEPT !.pc = "mail", !.delays = D, !.failures = F]
  /\ NoTrouble
  /\ UNCHANGED <<mails, row, last, next, run, queued, disturbed, dropped>> /\ Unmailed /\ Outside

Listed == {<<m, 1>> : m \in job.delays} \union {<<m, 2>> : m \in job.failures}

\* At least one recipient gets the mail, or none (a canceled job sends none).
MailAlerts ==
  /\ job.pc = "mail"
  /\ \/ /\ job.err # "canceled"
        /\ mailed' = [m \in Mails |-> mailed[m] \union {p[2] : p \in {q \in Listed : q[1] = m}}]
        /\ again' = again \union {p \in Listed : p[2] \in mailed[p[1]]}
        /\ job' = [job EXCEPT !.pc = "told"]
        /\ NoTrouble
     \/ /\ IF job.err = "canceled" THEN NoTrouble ELSE Trouble
        /\ job' = Done /\ UNCHANGED <<mailed, again>>
  /\ UNCHANGED <<mails, row, last, next, run, queued, slips, unread, counted, disturbed,
                 dropped>> /\ Outside

\* MarkProbeMailsNotified
M_Notified(p, m) == IF m \in job.failures THEN [p EXCEPT !.mailed = TRUE] ELSE p
Notified(p, m) ==
  [p EXCEPT !.mailed = @ \/ m \in job.failures, !.told = @ \/ m \in job.delays \union job.failures]
MarkNotified ==
  /\ job.pc = "told"
  /\ \/ /\ row' = [m \in Mails |-> IF row[m].st = "none" THEN row[m] ELSE Notified(row[m], m)]
        /\ NoTrouble /\ UNCHANGED slips
     \/ Trouble /\ slips' = slips \union Listed /\ UNCHANGED row
  /\ job' = Done
  /\ UNCHANGED <<mails, last, next, run, queued, mailed, again, unread, counted, disturbed,
                 dropped>> /\ Outside

-----------------------------------------------------------------------------
(* recordProbeCheck.                                                       *)

FailingSince == IF job.seen.run.n = 0 THEN job.t ELSE job.seen.run.since

\* notifyProbeUnreadable: once in a run, after the failure threshold.
Unreadable   == job.err = "server" /\ ~job.seen.run.told /\ job.t - FailingSince >= Failure
MailUnreadable ==
  /\ job.pc = "report" /\ Unreadable /\ ~job.notified
  /\ \/ /\ unread' = unread + 1
        /\ job' = [job EXCEPT !.notified = TRUE]
        /\ NoTrouble
     \/ /\ Trouble /\ job' = [job EXCEPT !.pc = "finish"]
        /\ UNCHANGED unread
  /\ UNCHANGED <<mails, row, last, next, run, queued, mailed, again, slips, counted, disturbed,
                 dropped>> /\ Outside

M_SettingsMoved == FALSE
\* probeSettingsMoved
SettingsMoved ==
  enabled # job.seen.enabled \/ server # job.seen.server \/ run.n # job.seen.run.n

\* The mail of this check, if it sent one, is not recorded.
MailForgotten == IF job.notified /\ unread > 0 THEN unread - 1 ELSE unread

\* One write under the settings lock; when it fails nothing is recorded.
RecordCheck ==
  /\ job.pc = "finish" \/ (job.pc = "report" /\ (job.notified \/ ~Unreadable))
  /\ \/ LET failed == [n |-> job.seen.run.n + 1, since |-> FailingSince, told |-> run.told \/ job.notified]
            kept   == job.err \in {"canceled", "database"} \/ SettingsMoved
        IN /\ next' = CASE job.err = "none"   -> job.next
                        [] job.err = "server" -> job.t + RetryAfter(job.seen.run.n + 1)
                        [] OTHER -> job.t + Retry
           /\ run' = IF kept THEN run ELSE IF job.err = "server" THEN failed ELSE NoRun
           /\ counted' = IF ~kept /\ job.err = "server" THEN job.seen.server ELSE counted
           /\ unread' = CASE ~kept /\ job.err = "none" -> 0
                          [] kept -> MailForgotten
                          [] OTHER -> unread
           /\ disturbed' = (disturbed /\ (job.err # "none" \/ job.skipped))
           /\ dropped' = FALSE /\ NoTrouble
     \/ /\ Trouble /\ disturbed' = TRUE /\ unread' = MailForgotten
        /\ UNCHANGED <<next, run, counted, dropped>>
  /\ job' = Idle
  /\ UNCHANGED <<mails, row, last, queued, mailed, again, slips>> /\ Outside

-----------------------------------------------------------------------------
(* Administrators, retention, crashes.                                     *)

Elsewhere == UNCHANGED <<now, mails, last, next, queued, clearing, job, mailed, again, slips,
                         counted, disturbed, dropped>>
RunReset == run' = NoRun /\ unread' = 0

\* ResolveProbe: only a delayed, failed or unsent mail.
Resolve(m) ==
  /\ Trouble /\ row[m].st \in Open \ {"pending"}
  /\ row' = [row EXCEPT ![m].st = "resolved"]
  /\ UNCHANGED <<enabled, off, server, run, closing, unread>> /\ Elsewhere

\* SaveProbeSettings: the switch, and then the open mails (closeOpenProbes).
SwitchProbe ==
  /\ Trouble
  /\ enabled' = ~enabled /\ RunReset
  /\ closing' = IF enabled THEN Boxes ELSE closing
  /\ UNCHANGED <<row, off, server>> /\ Elsewhere

\* Another connection or password.
ChangeServer ==
  /\ Trouble /\ server < MaxServers
  /\ server' = server + 1 /\ RunReset
  /\ UNCHANGED <<row, enabled, off, closing>> /\ Elsewhere

\* UpdateMailbox: the send check of a mailbox.
SwitchMailbox(b) ==
  /\ Trouble
  /\ off' = IF b \in off THEN off \ {b} ELSE off \union {b}
  /\ closing' = IF b \in off THEN closing ELSE closing \union {b}
  /\ UNCHANGED <<row, enabled, server, run, unread>> /\ Elsewhere

CloseOpen ==
  /\ closing # {} /\ closing' = {}
  /\ row' = ClosedIn(row, closing)
  /\ UNCHANGED <<enabled, off, server, run, unread, troubles>> /\ Elsewhere

\* DeleteOldProbeMails, a step of the cleanup.
DropRecord(m) ==
  /\ row[m].st # "none" /\ now > row[m].sent + Keep /\ job.pc \in Stops
  /\ row' = [row EXCEPT ![m] = NoRow]
  /\ UNCHANGED <<enabled, off, server, run, closing, unread, troubles>> /\ Elsewhere

\* The process dies.  The queued check stays, what else was going on is lost.
Crash ==
  /\ Trouble
  /\ job.pc # "idle" \/ closing # {} \/ clearing
  /\ job' = Idle /\ closing' = {} /\ clearing' = FALSE
  /\ slips' = IF job.pc = "told" THEN slips \union Listed ELSE slips
  /\ unread' = MailForgotten
  /\ disturbed' = TRUE
  /\ UNCHANGED <<now, mails, row, settings, queued, mailed, again, counted, dropped>>

Next ==
  \/ \E m \in Mails : Arrive(m) \/ TakeMail(m) \/ DeleteMail(m) \/ Resolve(m) \/ DropRecord(m)
  \/ \E byHand \in BOOLEAN : StartCheck(byHand)
  \/ \E b \in Boxes : SwitchMailbox(b)
  \/ Tick \/ QueueCheck \/ ClearProbeCheck
  \/ StartSend \/ Transmit \/ InsertProbeMail \/ FinishSend \/ CloseStale
  \/ CancelSend \/ SkipCheck \/ ListFolder \/ RecordArrivals \/ MarkDeleted
  \/ ListAlerts \/ MailAlerts \/ MarkNotified \/ MailUnreadable \/ RecordCheck
  \/ SwitchProbe \/ ChangeServer \/ CloseOpen \/ Crash

Spec == Init /\ [][Next]_vars
-----------------------------------------------------------------------------
(* Properties.                                                             *)

LevelsOf(st) == CASE st \in {"none", "pending", "arrived"} -> {0}
                  [] st = "delayed"                        -> {1}
                  [] st \in {"failure", "send_failed"}     -> {2}
                  [] st = "recovered"                      -> {1, 2}
                  [] st = "resolved"                       -> Levels

\* The type invariant; a record's level fits its status.
TypeOK ==
  /\ now \in Times \ {0} /\ at \in [Mails -> Times]
  /\ post \in [Mails -> {"none", "lost", "sent", "in", "other", "gone"}]
  /\ row \in [Mails -> Row] /\ \A m \in Mails : row[m].lvl \in LevelsOf(row[m].st)
  /\ enabled \in BOOLEAN /\ off \subseteq Boxes /\ closing \subseteq Boxes
  /\ server \in 1 .. MaxServers /\ counted \in 1 .. MaxServers
  /\ queued \in BOOLEAN /\ clearing \in BOOLEAN
  /\ last \in Times /\ next \in Nat
  /\ run \in [n : Nat, since : Times, told : BOOLEAN]
  /\ job.todo \subseteq Mails /\ job.waiting \subseteq Mails /\ job.found \subseteq Mails
  /\ mailed \in [Mails -> SUBSET {1, 2}]
  /\ troubles \in 0 .. MaxTroubles

\* No arrival is lost: a mail is deleted on the probe server only after its
\* record was closed, so no record waits for a mail that was deleted, whatever
\* fails between the listing, the record and the deletion (CheckProbes,
\* sortProbeMessages).
ArrivalNotLost == \A m \in Mails : post[m] = "gone" => row[m].st \notin Open

\* A mail is mailed once as delayed and once as a failure, and the recipients
\* get one mail about an unreadable server in a run of failed checks.  Only
\* when the process died, or the write failed, between an alert mail and its
\* mark is it mailed again (notifyProbeAlerts, MarkProbeMailsNotified,
\* notifyProbeUnreadable; unread leaves out a mail whose record was lost).
AlertedOnce == again \subseteq slips /\ unread <= 1

\* What is recorded as arrived in time did arrive in time and was never
\* mailed as missing, although it may have arrived while a check went on
\* (ApplyProbeCheck), and no record waits for a mail the program has deleted.
VerdictsAreTrue ==
  /\ ArrivalNotLost
  /\ \A m \in Mails : row[m].st = "arrived" => mailed[m] = {} /\ at[m] # 0 /\ at[m] < row[m].sent + Delay

\* While the probe is on, every mail that waits has a check scheduled: sends,
\* checks, failed checks, crashes and switch-offs never leave one without.
\* Only the scheduler clearing it beside a send does (ClearProbeCheck).
CheckPending ==
  job.pc = "idle" /\ enabled /\ StatusIn(Waiting) # {} /\ ~dropped => next # 0

\* Delays and failures are seen in time: a check lies ahead and, unless a step
\* failed, a waiting mail is at its level as soon as the check that must find it so is over: at the
\* level's moment, up to Coalesce later, or Delay after a later send
\* (probeLevelCheckAt, NextProbeCheckAt, SendProbes).
Settled == enabled /\ job.pc = "idle" /\ ~queued /\ ~clearing /\ ~CheckDue /\ ~disturbed /\ ~dropped
Overdue(m, limit) == now >= Maximum({row[m].sent + limit + Coalesce, last + Delay})
OnTime ==
  /\ CheckPending
  /\ Settled => \A m \in StatusIn(Waiting) : /\ Overdue(m, Delay) => row[m].lvl >= 1
                                             /\ Overdue(m, Failure) => row[m].lvl = 2

\* The run of failed checks belongs to the connection the probe has now: a
\* check that began before the connection changed is not counted
\* (probeSettingsMoved).
RunOfSettings == run.n > 0 => counted = server
=============================================================================
