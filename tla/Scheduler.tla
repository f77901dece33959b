------------------------------ MODULE Scheduler ------------------------------
(* The clock of the server (scheduler.go): the check, send and notification *)
(* times of a day, the daily cleanup and the analysis put off by a usage    *)
(* limit, with the jobs that answer it: the notification, which decides the *)
(* next notification day, and the analysis, which may meet the limit again. *)
(* A moment is a minute; a day has DayLen of them.  A tick holds the mutex  *)
(* of the scheduler, but the database is read and written in steps between  *)
(* which jobs and users go on and the process may die.  The arrival checks  *)
(* of the delivery probe, the other half of queueProbe, are in Probe.       *)
EXTENDS Integers, FiniteSets

CONSTANTS
  DayLen,                               \* moments of a day
  CheckTimes, SendTimes, NotifyTimes,   \* moments of the day (settings)
  CleanupTime,                          \* a moment of the day
  Interval,                             \* notify_interval_days
  Margin,                               \* AgentLimitResumeMargin
  MaxTime,                              \* bound on the clock
  Jumps,                                \* by how much the clock may be set
  MaxTroubles                           \* bound on crashes, failures, clock changes, users' doings

Hours == 0 .. DayLen - 1
SchedulerAssumption ==
  /\ DayLen \in Nat \ {0} /\ Interval \in Nat \ {0} /\ Margin \in Nat
  /\ CheckTimes \subseteq Hours /\ SendTimes \subseteq Hours /\ NotifyTimes \subseteq Hours
  /\ CleanupTime \in Hours /\ Jumps \subseteq Int /\ MaxTime \in Nat
  /\ MaxTime >= DayLen /\ MaxTroubles \in Nat

Never == -1
Moments == DayLen .. MaxTime
Day(t) == t \div DayLen
OnDay(d, h) == d * DayLen + h
Smallest(S) == CHOOSE x \in S : \A y \in S : x <= y
Largest(S) == CHOOSE x \in S : \A y \in S : x >= y

VARIABLES
  now,                 \* the wall clock; it may be set
  last,                \* Scheduler.lastTick
  fired,               \* lastFired, probeFired, notifyFired: hour -> occurrence
  cleanupFired,        \* the day of the cleanup this process queued last
  tick,                \* the tick in progress: its step, its window, what it read
  lastRun,             \* cleanup_last_run_date
  lastSent,            \* notify_last_sent_at
  limit,               \* agent_limited_until
  notifyOn, agentOn,   \* notify_enabled; agent enabled, its CLI there, a mailbox
  jobs,                \* the notify and analyze jobs; "expand" is the analysis of all mailboxes
  note,                \* the notify job: its time, whether a mail went out, who asked when
  waits                \* groups the limit put off, waiting for the scheduler

\* What only the properties read.
VARIABLES
  since,               \* the ticks of this process cover the time from here on
  fires, again,        \* occurrences a tick marked as fired, those marked twice
  cleaned, recleaned,  \* days whose cleanup was queued, was queued twice
  mailDays, odd,       \* days a mail was recorded; days of mails by hand or late
  rewound,             \* the clock went back before an occurrence that fired and is forgotten
  turned,              \* the clock was set back to an earlier day
  unrecorded,          \* days whose cleanup was queued but not recorded
  missed,              \* the cleanup could not be queued at the last tick
  raced,               \* the limit, the clock or the jobs changed under a tick
  troubles

firing   == <<since, fires, again>>
cleaning == <<cleaned, recleaned, unrecorded, missed>>
mailing  == <<mailDays, odd>>
clock    == <<rewound, turned>>
ghosts   == <<firing, cleaning, mailing, clock, raced>>
memory    == <<last, fired, cleanupFired, tick>>
recorded  == <<lastRun, lastSent, limit, notifyOn, agentOn>>
queue     == <<jobs, note, waits>>
clockVars == <<now, memory, recorded, queue, ghosts, troubles>>

NoTick == [pc |-> "off", from |-> Never, t |-> Never, date |-> Never, then |-> "off",
           sent |-> Never, on |-> FALSE]
NoNote == [t |-> Never, mailed |-> FALSE, made |-> Never, odd |-> FALSE]
Tables == {"check", "send", "notify"}
NeverFired == [k \in Tables |-> [h \in Hours |-> Never]]

ClockInit ==
  /\ now = DayLen /\ last = Never /\ fired = NeverFired /\ cleanupFired = Never /\ tick = NoTick
  /\ lastRun = Never /\ lastSent = Never /\ notifyOn \in BOOLEAN /\ agentOn \in BOOLEAN
  /\ limit \in Moments \union {Never} /\ waits = (limit # Never)
  /\ jobs = [k \in {"notify", "expand", "analyze"} |-> "none"] /\ note = NoNote
  /\ since = Never /\ fires = [k \in Tables |-> {}] /\ again = {} /\ cleaned = {} /\ recleaned = {}
  /\ mailDays = {} /\ odd = {} /\ rewound = FALSE /\ turned = FALSE /\ unrecorded = {} /\ missed = FALSE
  /\ raced = FALSE /\ troubles = 0

NoTrouble == UNCHANGED troubles
Trouble == troubles < MaxTroubles /\ troubles' = troubles + 1

-----------------------------------------------------------------------------
(* Which times are due.                                                    *)

\* Only the occurrences of today: the mutant of a tick over midnight.
M_DueToday(from, t, hours, done) ==
  {o \in {OnDay(Day(t), h) : h \in hours} : from < o /\ o <= t /\ done[o % DayLen] # o}

\* dueCheckTimes: the occurrences of today and yesterday in (from, t] that
\* were not fired yet.
DueCheckTimes(from, t, hours, done) ==
  {o \in {OnDay(Day(t) - k, h) : k \in {0, 1}, h \in hours} :
     from < o /\ o <= t /\ done[o % DayLen] # o}

\* NextCheckAt: the next time after t.
NextCheckAt(t, hours) ==
  LET cands == {IF OnDay(Day(t), h) > t THEN OnDay(Day(t), h) ELSE OnDay(Day(t) + 1, h) : h \in hours}
  IN IF cands = {} THEN Never ELSE Smallest(cands)

M_NotifyDay(sent, t) ==
  \/ sent = Never
  \/ LET d == Day(t) - Day(sent) IN d = 0 \/ d >= Interval - 1

\* notifyDay: the day of the last mail, or Interval days or more after it.
NotifyDay(sent, t) ==
  \/ sent = Never
  \/ LET d == Day(t) - Day(sent) IN d = 0 \/ d >= Interval

NotifyDue(from, t, sent, done) ==
  {o \in DueCheckTimes(from, t, NotifyTimes, done) : NotifyDay(sent, o)}

M_NextNotifyAt(t, sent) ==
  LET cands == {OnDay(Day(t) + k, h) : k \in 0 .. Interval - 1, h \in NotifyTimes}
      open  == {c \in cands : c > t /\ NotifyDay(sent, c)}
  IN IF open = {} THEN Never ELSE Smallest(open)

\* NextNotifyAt: what the settings page announces.
Ahead(t, sent) == IF sent = Never THEN 0 ELSE Largest({0, Day(sent) - Day(t)})
NextNotifyAt(t, sent) ==
  LET cands == {OnDay(Day(t) + k, h) : k \in 0 .. Interval + 1 + Ahead(t, sent), h \in NotifyTimes}
      open  == {c \in cands : c > t /\ NotifyDay(sent, c)}
  IN IF open = {} THEN Never ELSE Smallest(open)

\* The day of the latest cleanup time.
Occurred(t) == IF OnDay(Day(t), CleanupTime) > t THEN Day(t) - 1 ELSE Day(t)

\* Without the rule for a day that lies ahead.
M_CleanupDue(t, ran, queued) ==
  IF Occurred(t) <= ran \/ Occurred(t) = queued THEN Never ELSE Occurred(t)

\* CleanupDue: the day of the cleanup to queue, Never when it was queued.
\* A recorded day that lies ahead (the clock was ahead) is ignored.
CleanupDue(t, ran, queued) ==
  LET lastDay == IF ran > Day(t) THEN Never ELSE ran
  IN IF Occurred(t) <= lastDay \/ Occurred(t) = queued THEN Never ELSE Occurred(t)

-----------------------------------------------------------------------------
(* The ticks.                                                              *)

At(pc) == tick.pc = pc
TickEnds == tick' = [NoTick EXCEPT !.pc = "idle"]
MarkFired(k, due) == fired' = [fired EXCEPT ![k] =
  [h \in Hours |-> IF \E o \in due : o % DayLen = h
                   THEN Largest({o \in due : o % DayLen = h}) ELSE fired[k][h]]]

\* An occurrence after t fired that this process does not remember: fired was
\* overwritten by another day, or lost with the process.
Lost(t, out, known) == \E o \in out : o > t /\ \A h \in Hours : known[h] # o
Forgotten(t, known) == \E k \in Tables : Lost(t, fires[k], known[k])

\* The ghosts of a firing in a tick that began at t.
CountFired(k, due, t) ==
  /\ fires' = [fires EXCEPT ![k] = @ \union due]
  /\ again' = again \union {<<k, o>> : o \in IF rewound THEN {} ELSE due \intersect fires[k]}
  /\ rewound' = (rewound \/ Lost(Smallest({now, t}), fires'[k], fired'[k]))

\* queueCleanupIfDue, up to the job: queued, not due, or the queue is out of
\* reach (then the next tick tries again).
QueueCleanup(starting) ==
  LET date == CleanupDue(now, lastRun, IF starting THEN Never ELSE cleanupFired)
      on   == [NoTick EXCEPT !.pc = IF starting THEN "idle" ELSE "probe",
                             !.from = IF starting THEN Never ELSE last,
                             !.t = IF starting THEN Never ELSE now]
  IN \/ /\ date = Never /\ tick' = on
        /\ cleanupFired' = IF starting THEN Never ELSE cleanupFired
        /\ UNCHANGED cleaning /\ NoTrouble
     \/ /\ date # Never
        /\ tick' = [on EXCEPT !.pc = "record", !.date = date, !.then = on.pc]
        /\ cleanupFired' = date /\ cleaned' = cleaned \union {date}
        /\ recleaned' = recleaned \union ({date} \intersect (cleaned \ unrecorded))
        /\ unrecorded' = unrecorded \union {date}
        /\ missed' = FALSE /\ NoTrouble
     \/ /\ date # Never /\ tick' = on /\ missed' = TRUE
        /\ cleanupFired' = IF starting THEN Never ELSE cleanupFired
        /\ UNCHANGED <<cleaned, recleaned, unrecorded>> /\ Trouble

\* Start: nothing fires for the time before, but a missed cleanup is queued.
StartClock ==
  /\ At("off")
  /\ last' = now /\ fired' = NeverFired /\ QueueCleanup(TRUE)
  /\ since' = now
  /\ rewound' = (rewound \/ Forgotten(now, NeverFired))
  /\ UNCHANGED <<now, recorded, queue, fires, again, mailing, turned, raced>>

\* Tick: the check times, one sync whatever their number, and the cleanup.
Tick ==
  /\ At("idle")
  /\ last' = now
  /\ LET due == DueCheckTimes(last, now, CheckTimes, fired["check"])
     IN MarkFired("check", due) /\ CountFired("check", due, now)
  /\ QueueCleanup(FALSE)
  /\ since' = IF now > last + DayLen THEN now - DayLen ELSE Smallest({since, now})
  /\ UNCHANGED <<now, recorded, queue, mailing, turned, raced>>

\* queueCleanupIfDue, the record of the day; a failure is only logged.
RecordCleanup ==
  /\ At("record") /\ tick' = [tick EXCEPT !.pc = tick.then, !.then = "off", !.date = Never]
  /\ \/ lastRun' = tick.date /\ unrecorded' = unrecorded \ {tick.date} /\ NoTrouble
     \/ UNCHANGED <<lastRun, unrecorded>> /\ Trouble
  /\ UNCHANGED <<now, last, fired, cleanupFired, lastSent, limit, notifyOn, agentOn, queue,
                 firing, cleaned, recleaned, missed, mailing, clock, raced>>

\* queueProbe, the send times: of several only the latest fires.  Then the
\* notification settings are read; a failure ends the tick.
ProbeSendDue ==
  LET due == DueCheckTimes(tick.from, tick.t, SendTimes, fired["send"])
  IN IF due = {} THEN {} ELSE {Largest(due)}
QueueProbeSend ==
  /\ At("probe")
  /\ MarkFired("send", ProbeSendDue) /\ CountFired("send", ProbeSendDue, tick.t)
  /\ \/ tick' = [tick EXCEPT !.pc = "notify", !.sent = lastSent, !.on = notifyOn] /\ NoTrouble
     \/ TickEnds /\ Trouble
  /\ UNCHANGED <<now, last, cleanupFired, recorded, queue, since, cleaning, mailing, turned, raced>>

\* The notification times; nothing is queued when it could reach nobody or
\* the queue is out of reach, and an active job is left to do it.
QueueNotify ==
  /\ At("notify") /\ tick' = [NoTick EXCEPT !.pc = "limit", !.t = tick.t]
  /\ LET due == IF tick.on THEN NotifyDue(tick.from, tick.t, tick.sent, fired["notify"]) ELSE {}
     IN /\ MarkFired("notify", due) /\ CountFired("notify", due, tick.t)
        /\ \/ due # {} /\ jobs["notify"] = "none"
              /\ jobs' = [jobs EXCEPT !["notify"] = "queued"]
              /\ note' = [NoNote EXCEPT !.made = Day(Largest(due)), !.odd = (tick.sent # lastSent)]
           \/ UNCHANGED <<jobs, note>>
  /\ UNCHANGED <<now, last, cleanupFired, recorded, waits, since, cleaning, mailing, turned, raced>> /\ NoTrouble

\* The mutant that clears the record although the job was not queued.
M_QueueAnalysis ==
  /\ At("limit")
  /\ \/ /\ limit = Never \/ tick.t < limit + Margin
        /\ TickEnds /\ UNCHANGED jobs /\ NoTrouble
     \/ /\ limit # Never /\ tick.t >= limit + Margin
        /\ \/ /\ tick' = [NoTick EXCEPT !.pc = "clear"] /\ NoTrouble
              /\ jobs' = IF agentOn /\ jobs["expand"] = "none"
                         THEN [jobs EXCEPT !["expand"] = "queued"] ELSE jobs
           \/ agentOn /\ tick' = [NoTick EXCEPT !.pc = "clear"] /\ UNCHANGED jobs /\ Trouble
  /\ UNCHANGED <<now, last, fired, cleanupFired, recorded, note, waits, ghosts>>

\* queueAnalysisAfterLimit: the job, tried again at the next tick ...
QueueAnalysis ==
  /\ At("limit")
  /\ \/ /\ limit = Never \/ tick.t < limit + Margin
        /\ TickEnds /\ UNCHANGED jobs /\ NoTrouble
     \/ /\ limit # Never /\ tick.t >= limit + Margin
        /\ \/ /\ tick' = [NoTick EXCEPT !.pc = "clear"] /\ NoTrouble
              /\ jobs' = IF agentOn /\ jobs["expand"] = "none"
                         THEN [jobs EXCEPT !["expand"] = "queued"] ELSE jobs
           \/ agentOn /\ TickEnds /\ UNCHANGED jobs /\ Trouble
  /\ UNCHANGED <<now, last, fired, cleanupFired, recorded, note, waits, ghosts>>

\* ... and then the record goes, whatever it says by now.  With the analysis
\* switched off the groups wait for the next check instead.
ClearLimit ==
  /\ At("clear") /\ TickEnds
  /\ \/ limit' = Never /\ waits' = (waits /\ agentOn) /\ NoTrouble
     \/ UNCHANGED <<limit, waits>> /\ Trouble
  /\ UNCHANGED <<now, last, fired, cleanupFired, lastRun, lastSent, notifyOn, agentOn, jobs, note,
                 ghosts>>

-----------------------------------------------------------------------------
(* The jobs.                                                               *)

Set(k, st) == jobs' = [jobs EXCEPT ![k] = st]
JobsOnly == UNCHANGED <<now, memory, lastRun, notifyOn, agentOn, firing, cleaning, clock>>

\* SendNotification takes its time at the start.
StartNotify ==
  /\ jobs["notify"] = "queued" /\ Set("notify", "running")
  /\ note' = [note EXCEPT !.t = now, !.odd = @ \/ Day(now) # note.made]
  /\ UNCHANGED <<lastSent, limit, waits, mailing, raced>> /\ JobsOnly /\ NoTrouble

\* A mail reaches somebody, or nothing is sent (a condition fails, every
\* recipient refused).
SendMails ==
  /\ jobs["notify"] = "running" /\ ~note.mailed
  /\ \/ note' = [note EXCEPT !.mailed = TRUE] /\ UNCHANGED jobs
     \/ note' = NoNote /\ Set("notify", "none")
  /\ UNCHANGED <<lastSent, limit, waits, mailing, raced>> /\ JobsOnly /\ NoTrouble

\* SetNotifyLastSent; a failure is only logged.
RecordSent ==
  /\ jobs["notify"] = "running" /\ note.mailed
  /\ Set("notify", "none") /\ note' = NoNote
  /\ \/ /\ lastSent' = note.t /\ NoTrouble
        /\ mailDays' = mailDays \union {Day(note.t)}
        /\ odd' = IF note.odd THEN odd \union {Day(note.t)} ELSE odd
     \/ UNCHANGED <<lastSent, mailing>> /\ Trouble
  /\ UNCHANGED <<limit, waits, raced>> /\ JobsOnly

\* runExpansion of the analysis: one child, unless one is active.
ExpandAnalysis ==
  /\ jobs["expand"] = "queued"
  /\ jobs' = [jobs EXCEPT !["expand"] = "none",
                          !["analyze"] = IF @ = "none" THEN "queued" ELSE @]
  /\ UNCHANGED <<lastSent, limit, note, waits, mailing, raced>> /\ JobsOnly /\ NoTrouble

\* runAnalyze: while a limit is known to last nothing is launched.
StartAnalysis ==
  /\ jobs["analyze"] = "queued"
  /\ IF limit # Never /\ now < limit
     THEN Set("analyze", "none") /\ UNCHANGED waits
     ELSE Set("analyze", "running") /\ waits' = FALSE
  /\ UNCHANGED <<lastSent, limit, note, mailing, raced>> /\ JobsOnly /\ NoTrouble

\* ParseRetryTime: a time of day or a duration lies ahead, a date may not.
RetryTimes == Largest({DayLen, now - 1}) .. MaxTime

\* It ends, or is refused by a limit whose end it may know
\* (recordUsageLimit): the groups not done go on waiting.
EndAnalysis ==
  /\ jobs["analyze"] = "running" /\ Set("analyze", "none")
  /\ \/ UNCHANGED <<limit, waits, raced>>
     \/ \E until \in RetryTimes :
          /\ limit' = until /\ waits' = TRUE
          /\ raced' = (raced \/ At("clear"))
  /\ UNCHANGED <<lastSent, note, mailing>> /\ JobsOnly /\ NoTrouble

\* queueAnalysis after a sync, or a user: an analysis of one mailbox.
QueueOther ==
  /\ agentOn /\ jobs["analyze"] = "none" /\ Set("analyze", "queued")
  /\ UNCHANGED <<lastSent, limit, note, waits, mailing, raced>> /\ JobsOnly /\ Trouble

-----------------------------------------------------------------------------
(* Users, the clock, crashes.                                              *)

\* "Send now": queued whatever the schedule says.
SendNow ==
  /\ jobs["notify"] = "none" /\ Set("notify", "queued")
  /\ note' = [NoNote EXCEPT !.made = Day(now), !.odd = TRUE]
  /\ UNCHANGED <<now, memory, recorded, waits, ghosts>> /\ Trouble

\* notify_enabled and agent_enabled.
Switch ==
  /\ \/ notifyOn' = ~notifyOn /\ UNCHANGED <<agentOn, raced>>
     \/ agentOn' = ~agentOn /\ UNCHANGED notifyOn /\ raced' = (raced \/ At("clear"))
  /\ UNCHANGED <<now, memory, lastRun, lastSent, limit, queue, firing, cleaning, mailing, clock>> /\ Trouble

Pass ==
  /\ now < MaxTime /\ now' = now + 1
  /\ UNCHANGED <<memory, recorded, queue, ghosts, troubles>>

\* The clock is set.
SetClock ==
  /\ \E t \in Moments \ {now} :
       /\ t - now \in Jumps /\ now' = t
       /\ rewound' = (rewound \/ Forgotten(t, fired))
       /\ turned' = (turned \/ Day(t) < Day(now))
  /\ raced' = (raced \/ ~At("idle"))
  /\ UNCHANGED <<memory, recorded, queue, firing, cleaning, mailing>> /\ Trouble

\* The process dies.  Queued jobs stay, running ones end (ResetStaleJobs).
Dies ==
  /\ ~At("off") /\ tick' = NoTick
  /\ last' = Never /\ fired' = NeverFired /\ cleanupFired' = Never /\ since' = Never
  /\ jobs' = [k \in DOMAIN jobs |-> IF jobs[k] = "running" THEN "none" ELSE jobs[k]]
  /\ note' = IF jobs["notify"] = "running" THEN NoNote ELSE note
  /\ UNCHANGED <<now, recorded, waits, fires, again, cleaning, mailing, clock, raced>> /\ Trouble

ClockNext ==
  \/ StartClock \/ Tick \/ RecordCleanup \/ QueueProbeSend
  \/ QueueNotify \/ QueueAnalysis \/ ClearLimit
  \/ StartNotify \/ SendMails \/ RecordSent
  \/ ExpandAnalysis \/ StartAnalysis \/ EndAnalysis \/ QueueOther
  \/ SendNow \/ Switch \/ Pass \/ SetClock \/ Dies

ClockSpec == ClockInit /\ [][ClockNext]_clockVars
-----------------------------------------------------------------------------
(* Properties.                                                             *)

\* Every check time fires once: none is missed while ticks go on (but by a
\* pause of more than a day), over midnight and after the clock was set back,
\* and none fires twice, over restarts too (dueCheckTimes, Start), unless the
\* clock went back before one this process no longer remembers.  To fire is to
\* be marked as fired: the sync job is queued after that, and a time whose job
\* could not be queued is not tried again (scheduler.go:112).
TimesFire ==
  /\ again = {}
  /\ tick.pc # "off" =>
       \A h \in CheckTimes : \A d \in Day(last) - 1 .. Day(last) :
         LET o == OnDay(d, h)
         IN o > since /\ o > last - DayLen /\ o <= last => o \in fires["check"]

\* The daily cleanup is queued once a day, also over restarts, unless its day
\* could not be recorded; and it is caught up whenever a tick is over
\* (queueCleanupIfDue, CleanupDue).
CleanupDaily ==
  /\ turned \/ recleaned = {}
  /\ At("idle") /\ ~missed => \E d \in cleaned : Occurred(last) <= d /\ d <= Day(last)

\* Notification mails of the schedule keep their distance: a day with one
\* lies Interval days or more after every earlier one (NotifyDue,
\* SendNotification), mails by hand and those sent late apart.  A mail counts
\* once it is recorded: after one whose time could not be written, or that the
\* process died before writing, the next may follow at once.
NotifySpacing ==
  turned \/ \A d \in mailDays, e \in mailDays \ odd : d < e => e - d >= Interval

\* What the pages announce is what fires: with a tick every minute and
\* nothing else done, the next check and the next notification are the first
\* moments a tick finds a time due (NextCheckAt, NextNotifyAt, dueCheckTimes,
\* NotifyDue), also when the last mail lies ahead of the clock.
Announced ==
  LET none  == [h \in Hours |-> Never]
      later == last + 1 .. last + DayLen * (Interval + 3 + Ahead(last, lastSent))
      check == {t \in later : DueCheckTimes(t - 1, t, CheckTimes, none) # {}}
      mail  == {t \in later : NotifyDue(t - 1, t, lastSent, none) # {}}
  IN At("idle") =>
       /\ NextCheckAt(last, CheckTimes) = IF check = {} THEN Never ELSE Smallest(check)
       /\ NextNotifyAt(last, lastSent) = IF mail = {} THEN Never ELSE Smallest(mail)

\* What the schedule of notifications promises.
NotifyOnSchedule == NotifySpacing /\ Announced

\* Groups the limit put off are taken up: the end of the limit is on record
\* or their analysis is queued, unless the limit was extended while the
\* scheduler cleared it (queueAnalysisAfterLimit, recordUsageLimit).
WaitersResume ==
  waits /\ ~raced => limit # Never \/ jobs["expand"] # "none" \/ jobs["analyze"] # "none"
=============================================================================
