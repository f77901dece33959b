---------------------------- MODULE ProbeProofs ----------------------------
(***************************************************************************)
(* What holds of the probes for any mails, mailboxes, delays, servers and   *)
(* number of failures: nobody is told twice unless a mark was lost, what is *)
(* recorded of a mail is true, the run of failed checks belongs to the      *)
(* connection the probe has now, and what is missing is seen in time.       *)
(***************************************************************************)
EXTENDS Probe, TLAPS, WellFoundedInduction

-----------------------------------------------------------------------------
(* The invariant, by what it is about.                                      *)

Posts  == {"none", "lost", "sent", "in", "other", "gone"}
Pcs    == {"idle", "send", "smtp", "insert", "close", "list", "record", "delete",
           "alerts", "mail", "told", "report", "finish"}
Fields == {"pc", "send", "todo", "cur", "refused", "t", "waiting", "found", "del", "gone",
           "next", "skipped", "err", "delays", "failures", "notified", "seen"}
Run    == [n : Nat, since : Nat, told : BOOLEAN]
Record == [st : Open \union Closed \union {"none"}, lvl : Levels, sent : Nat,
           told : BOOLEAN, mailed : BOOLEAN, gone : BOOLEAN]

IsJob(j) ==
  /\ DOMAIN j = Fields
  /\ j.pc \in Pcs /\ j.send \in BOOLEAN /\ j.refused \in BOOLEAN /\ j.notified \in BOOLEAN
  /\ j.err \in {"none", "server", "canceled", "database"}
  /\ j.todo \subseteq Mails /\ j.cur \subseteq Mails
  /\ j.delays \subseteq Mails /\ j.failures \subseteq Mails
  /\ j.t \in Nat /\ j.seen.run \in Run

TypeInv ==
  /\ now \in Nat \ {0} /\ post \in [Mails -> Posts] /\ at \in [Mails -> Nat]
  /\ row \in [Mails -> Record] /\ \A m \in Mails : row[m].lvl \in LevelsOf(row[m].st)
  /\ mailed \in [Mails -> SUBSET {1, 2}] /\ slips \subseteq Mails \X {1, 2}
  /\ run \in Run /\ unread \in Nat
  /\ IsJob(job) /\ (job.pc = "idle" => job = Idle)

\* A mail has a record only once it was sent, and only one is being sent.
Sending(m) ==
  /\ post[m] \in {"none", "lost", "sent"} => at[m] = 0
  /\ post[m] \in {"in", "other"} => at[m] # 0
  /\ post[m] = "none" => row[m].st = "none" /\ mailed[m] = {}
  /\ m \in job.todo => /\ post[m] = "none" /\ m \notin job.cur
                       /\ job.pc \in {"send", "smtp", "insert"}
  /\ m \in job.cur => /\ row[m].st = "none" /\ mailed[m] = {}
                      /\ \/ job.pc = "smtp" /\ post[m] = "none"
                         \/ job.pc = "insert" /\ post[m] \in {"sent", "lost"}

\* A check has all mails that wait, and deletes closed ones only.
Judged(m) ==
  /\ post[m] = "gone" => row[m].st \notin Open
  /\ row[m].st = "arrived" => at[m] # 0 /\ at[m] < row[m].sent + Delay
  /\ job.pc \in {"list", "record"} /\ row[m].st \in Waiting => m \in job.waiting
  /\ job.pc = "delete" /\ m \in job.del => row[m].st \notin Open

\* What was mailed is marked, about to be marked, or was never marked; what is
\* about to be mailed is not marked.
Alerted(m) ==
  /\ job.pc \in {"mail", "told"} /\ m \in job.delays \union job.failures =>
       row[m].st # "none" /\ row[m].lvl # 0
  /\ job.pc = "mail" => /\ m \in job.delays => ~row[m].told
                        /\ m \in job.failures => ~row[m].mailed
  /\ row[m].st # "none" =>
       /\ 1 \in mailed[m] => row[m].told \/ <<m, 1>> \in slips \/ (job.pc = "told" /\ m \in job.delays)
       /\ 2 \in mailed[m] => row[m].mailed \/ <<m, 2>> \in slips \/ (job.pc = "told" /\ m \in job.failures)
       /\ row[m].lvl = 0 => mailed[m] = {}

\* The recipients know of an unreadable server when the run of failed checks,
\* or the check about to record it, says so.
Unreads ==
  /\ unread <= 1
  /\ unread = 1 => run.told \/ job.notified
  /\ job.notified => job.pc \in {"report", "finish"}
  /\ job.pc \in {"report", "finish"} => ~job.send
  /\ job.pc # "idle" /\ ~job.send => (run.told => job.seen.run.told)

ProbeInv ==
  /\ TypeInv /\ Unreads /\ RunOfSettings /\ again \subseteq slips
  /\ \A m \in Mails : Sending(m) /\ Judged(m) /\ Alerted(m)

-----------------------------------------------------------------------------
(* Lemmas: levels and records.                                              *)

\* The worse of two levels.
LEMMA Worse ==
  ASSUME NEW a \in Levels, NEW b \in Levels
  PROVE  /\ WorseProbeLevel(a, b) \in Levels
         /\ WorseProbeLevel(a, b) = 0 <=> a = 0 /\ b = 0
<1>1. CASE a >= b
  <2>1. Maximum({a, b}) = a
    BY <1>1 DEF Maximum, Levels
  <2> QED BY <1>1, <2>1 DEF WorseProbeLevel, Levels
<1>2. CASE ~(a >= b)
  <2>1. Maximum({a, b}) = b
    BY <1>2 DEF Maximum, Levels
  <2> QED BY <1>2, <2>1 DEF WorseProbeLevel, Levels
<1> QED BY <1>1, <1>2

LEMMA LevelOfTime ==
  ASSUME NEW t \in Nat, NEW s \in Nat
  PROVE  /\ ProbeLevelFor(Since(t, s)) \in Levels
         /\ ProbeLevelFor(Since(t, s)) = 0 => t < s + Delay
<1>1. Since(t, s) \in Nat /\ (Since(t, s) < Delay => t < s + Delay)
  BY ProbeAssumption DEF Since
<1>2. Delay \in Nat /\ Failure \in Nat /\ Delay < Failure
  BY ProbeAssumption
<1> DEFINE e == Since(t, s)
<1>3. CASE e >= Failure
  BY <1>1, <1>2, <1>3 DEF ProbeLevelFor, Levels
<1>4. CASE e >= Delay /\ e < Failure
  BY <1>1, <1>2, <1>4 DEF ProbeLevelFor, Levels
<1>5. CASE e < Delay
  BY <1>1, <1>2, <1>5 DEF ProbeLevelFor, Levels
<1> QED BY <1>1, <1>2, <1>3, <1>4, <1>5

\* What a check makes of the record of a mail that arrived, and of one that
\* has not: the level never falls, the marks stay.
LEMMA ArrivedRecord ==
  ASSUME NEW p \in Record, NEW t \in Nat
  PROVE  LET q == Arrived(p, t) IN
         /\ q \in Record /\ q.lvl \in LevelsOf(q.st) /\ q.st \in {"arrived", "recovered"}
         /\ q.told = p.told /\ q.mailed = p.mailed /\ q.sent = p.sent
         /\ q.lvl = 0 => p.lvl = 0
         /\ q.st = "arrived" => t < q.sent + Delay
<1> DEFINE lvl == WorseProbeLevel(p.lvl, ProbeLevelFor(Since(t, p.sent)))
           q   == Arrived(p, t)
<1>1. p.lvl \in Levels /\ p.sent \in Nat
  BY DEF Record
<1>2. lvl \in Levels /\ (lvl = 0 => p.lvl = 0 /\ t < p.sent + Delay)
  BY <1>1, Worse, LevelOfTime
<1> HIDE DEF lvl
<1>3. q = [p EXCEPT !.lvl = lvl, !.st = IF lvl = 0 THEN "arrived" ELSE "recovered"]
  BY DEF Arrived, lvl
<1>4. /\ q \in Record /\ q.lvl = lvl /\ q.st = IF lvl = 0 THEN "arrived" ELSE "recovered"
      /\ q.told = p.told /\ q.mailed = p.mailed /\ q.sent = p.sent
  BY <1>2, <1>3 DEF Record, Closed
<1> HIDE DEF q
<1>5. q.lvl \in LevelsOf(q.st)
  BY <1>2, <1>4 DEF LevelsOf, Levels
<1> QED BY <1>2, <1>4, <1>5 DEF q

LEMMA MissingRecord ==
  ASSUME NEW p \in Record, NEW t \in Nat
  PROVE  LET q == Missing(p, t) IN
         /\ q \in Record /\ q.lvl \in LevelsOf(q.st) /\ q.st \in Waiting
         /\ q.told = p.told /\ q.mailed = p.mailed
         /\ q.lvl = 0 => p.lvl = 0
<1> DEFINE lvl == WorseProbeLevel(p.lvl, ProbeLevelFor(Since(t, p.sent)))
           st  == CASE lvl = 2 -> "failure" [] lvl = 1 -> "delayed" [] OTHER -> "pending"
           q   == Missing(p, t)
<1>1. p.lvl \in Levels /\ p.sent \in Nat
  BY DEF Record
<1>2. lvl \in Levels /\ (lvl = 0 => p.lvl = 0)
  BY <1>1, Worse, LevelOfTime
<1> HIDE DEF lvl
<1>3. st \in Waiting /\ lvl \in LevelsOf(st)
  <2>1. lvl \in {0, 1, 2}
    BY <1>2 DEF Levels
  <2> QED BY <2>1 DEF Waiting, LevelsOf
<1>4. q = [p EXCEPT !.lvl = lvl, !.st = st]
  BY DEF Missing, lvl
<1> HIDE DEF st
<1>5. /\ q \in Record /\ q.lvl = lvl /\ q.st = st
      /\ q.told = p.told /\ q.mailed = p.mailed
  BY <1>2, <1>3, <1>4 DEF Record, Open
<1> HIDE DEF q
<1> QED BY <1>2, <1>3, <1>5 DEF q

-----------------------------------------------------------------------------
(* The steps of the job, one by one.                                        *)

LEMMA StartSendStep ==
  ASSUME ProbeInv, StartSend
  PROVE  ProbeInv'
<1> USE DEF ProbeInv, TypeInv
<1>1. /\ UNCHANGED <<now, post, at, row, run, server, counted, mailed, again, slips, unread>>
      /\ job = Idle
  BY DEF StartSend, mails, Outside, Unmailed
<1>2. DOMAIN job = Fields
  BY DEF IsJob
<1>3. PICK T \in SUBSET {m \in Mails : post[m] = "none"}, c \in {"send", "close"} :
        /\ job'.todo = T /\ job'.pc = c /\ job'.send = TRUE /\ IsJob(job')
        /\ job'.cur = {} /\ job'.delays = {} /\ job'.failures = {} /\ job'.notified = FALSE
        /\ T # {} => c = "send"
  <2>1. CASE \E T \in Sendings : job' = [job EXCEPT !.send = TRUE, !.todo = T, !.pc = "send"]
    <3>1. PICK T \in Sendings : job' = [job EXCEPT !.send = TRUE, !.todo = T, !.pc = "send"]
      BY <2>1
    <3>2. T \in SUBSET {m \in Mails : post[m] = "none"}
      BY DEF Sendings
    <3>3. /\ job'.todo = T /\ job'.pc = "send" /\ job'.send = TRUE /\ IsJob(job')
          /\ job'.cur = {} /\ job'.delays = {} /\ job'.failures = {} /\ job'.notified = FALSE
      BY <1>1, <1>2, <3>1, <3>2 DEF IsJob, Fields, Idle, Pcs, Run, NoRun
    <3> QED BY <3>2, <3>3
  <2>2. CASE job' = [job EXCEPT !.send = TRUE, !.pc = "close"]
    <3>1. /\ job'.todo = {} /\ job'.pc = "close" /\ job'.send = TRUE /\ IsJob(job')
          /\ job'.cur = {} /\ job'.delays = {} /\ job'.failures = {} /\ job'.notified = FALSE
      BY <1>1, <1>2, <2>2 DEF IsJob, Fields, Idle, Pcs, Run, NoRun
    <3> QED BY <3>1
  <2> QED BY <2>1, <2>2 DEF StartSend
<1>4. TypeInv'
  BY <1>1, <1>2, <1>3
<1>5. Unreads' /\ RunOfSettings' /\ again' \subseteq slips'
  BY <1>1, <1>2, <1>3 DEF Unreads, RunOfSettings, Idle
<1>6. ASSUME NEW m \in Mails PROVE Sending(m)' /\ Judged(m)' /\ Alerted(m)'
  <2>1. Sending(m)'
    BY <1>1, <1>3 DEF Sending
  <2>2. Judged(m)'
    BY <1>1, <1>2, <1>3 DEF Judged
  <2>3. Alerted(m)'
    BY <1>1, <1>2, <1>3 DEF Alerted, Idle
  <2> QED BY <2>1, <2>2, <2>3
<1> QED BY <1>4, <1>5, <1>6

\* A mail is taken for sending, or left out.
LEMMA TakeMailStep ==
  ASSUME ProbeInv, NEW k \in Mails, TakeMail(k)
  PROVE  ProbeInv'
<1> USE DEF ProbeInv, TypeInv
<1>1. UNCHANGED <<now, post, at, row, run, server, counted, mailed, again, slips, unread>>
  BY DEF TakeMail, mails, Outside, Unmailed
<1>2. /\ job.pc = "send" /\ k \in job.todo /\ DOMAIN job = Fields
      /\ post[k] = "none" /\ \A m \in Mails : m \notin job.cur
  BY DEF TakeMail, Sending, IsJob
<1>3. /\ job'.todo = job.todo \ {k} /\ job'.send = job.send /\ IsJob(job')
      /\ job'.delays = job.delays /\ job'.failures = job.failures /\ job'.notified = job.notified
      /\ job'.seen = job.seen
      /\ \/ job'.cur = {k} /\ job'.pc = "smtp"
         \/ job'.cur = job.cur /\ job'.pc = job.pc
  BY <1>2 DEF TakeMail, IsJob, Fields, Pcs
<1>4. TypeInv'
  BY <1>1, <1>2, <1>3
<1>5. Unreads' /\ RunOfSettings' /\ again' \subseteq slips'
  BY <1>1, <1>2, <1>3 DEF Unreads, RunOfSettings
<1>6. ASSUME NEW m \in Mails PROVE Sending(m)' /\ Judged(m)' /\ Alerted(m)'
  <2>1. Sending(m)'
    BY <1>1, <1>2, <1>3 DEF Sending
  <2>2. Judged(m)'
    BY <1>1, <1>2, <1>3 DEF Judged
  <2>3. Alerted(m)'
    BY <1>1, <1>2, <1>3 DEF Alerted
  <2> QED BY <2>1, <2>2, <2>3
<1> QED BY <1>4, <1>5, <1>6

\* The sending ends, canceled or with every mail tried.
LEMMA EndSendStep ==
  ASSUME ProbeInv, CancelSend \/ FinishSend
  PROVE  ProbeInv'
<1> USE DEF ProbeInv, TypeInv
<1>1. UNCHANGED <<now, post, at, row, run, server, counted, mailed, again, slips, unread>>
  BY DEF CancelSend, FinishSend, mails, Outside, Unmailed
<1>2. job.pc = "send" /\ DOMAIN job = Fields /\ \A m \in Mails : m \notin job.cur
  BY DEF CancelSend, FinishSend, Sending, IsJob
<1>3. /\ job'.todo = {} /\ job'.cur = job.cur /\ job'.send = job.send /\ IsJob(job')
      /\ job'.delays = job.delays /\ job'.failures = job.failures /\ job'.notified = job.notified
      /\ job'.seen = job.seen /\ job'.pc = "close"
  <2>1. CASE CancelSend
    BY <1>2, <2>1 DEF CancelSend, IsJob, Fields, Pcs
  <2>2. CASE FinishSend
    BY <1>2, <2>2 DEF FinishSend, IsJob, Fields, Pcs
  <2> QED BY <2>1, <2>2
<1>4. TypeInv'
  BY <1>1, <1>2, <1>3
<1>5. Unreads' /\ RunOfSettings' /\ again' \subseteq slips'
  BY <1>1, <1>2, <1>3 DEF Unreads, RunOfSettings
<1>6. ASSUME NEW m \in Mails PROVE Sending(m)' /\ Judged(m)' /\ Alerted(m)'
  <2>1. Sending(m)'
    BY <1>1, <1>2, <1>3 DEF Sending
  <2>2. Judged(m)'
    BY <1>1, <1>2, <1>3 DEF Judged
  <2>3. Alerted(m)'
    BY <1>1, <1>2, <1>3 DEF Alerted
  <2> QED BY <2>1, <2>2, <2>3
<1> QED BY <1>4, <1>5, <1>6

\* The mail in hand is sent or lost.
LEMMA TransmitStep ==
  ASSUME ProbeInv, Transmit
  PROVE  ProbeInv'
<1> USE DEF ProbeInv, TypeInv
<1>1. UNCHANGED <<now, at, row, run, server, counted, mailed, again, slips, unread>>
  BY DEF Transmit, Outside, Unmailed
<1>2. job.pc = "smtp" /\ DOMAIN job = Fields
  BY DEF Transmit, IsJob
<1>3. PICK taken \in BOOLEAN, refused \in BOOLEAN :
        /\ post' = [m \in Mails |-> IF m \notin job.cur THEN post[m] ELSE IF taken THEN "sent" ELSE "lost"]
        /\ job' = [job EXCEPT !.refused = refused, !.t = now, !.pc = "insert"]
  BY DEF Transmit
<1>4. /\ job'.todo = job.todo /\ job'.cur = job.cur /\ job'.send = job.send /\ IsJob(job')
      /\ job'.delays = job.delays /\ job'.failures = job.failures /\ job'.notified = job.notified
      /\ job'.seen = job.seen /\ job'.pc = "insert"
  BY <1>2, <1>3 DEF IsJob, Fields, Pcs
<1>5. TypeInv'
  BY <1>1, <1>3, <1>4 DEF Posts
<1>6. Unreads' /\ RunOfSettings' /\ again' \subseteq slips'
  BY <1>1, <1>2, <1>4 DEF Unreads, RunOfSettings
<1>7. ASSUME NEW m \in Mails PROVE Sending(m)' /\ Judged(m)' /\ Alerted(m)'
  <2>1. post'[m] = IF m \notin job.cur THEN post[m] ELSE post'[m]
    BY <1>3
  <2>2. m \in job.cur => post'[m] \in {"sent", "lost"}
    BY <1>3
  <2>3. Sending(m)'
    BY <1>1, <1>2, <1>4, <2>1, <2>2 DEF Sending
  <2>4. Judged(m)'
    BY <1>1, <1>2, <1>4, <2>1, <2>2 DEF Judged
  <2>5. Alerted(m)'
    BY <1>1, <1>2, <1>4 DEF Alerted
  <2> QED BY <2>3, <2>4, <2>5
<1> QED BY <1>5, <1>6, <1>7

\* Its record is inserted, or not.
LEMMA InsertStep ==
  ASSUME ProbeInv, InsertProbeMail
  PROVE  ProbeInv'
<1> USE DEF ProbeInv, TypeInv
<1>1. UNCHANGED <<now, post, at, run, server, counted, mailed, again, slips, unread>>
  BY DEF InsertProbeMail, mails, Outside, Unmailed
<1>2. job.pc = "insert" /\ DOMAIN job = Fields
  BY DEF InsertProbeMail, IsJob
<1>3. /\ job'.todo = job.todo /\ job'.cur = {} /\ job'.send = job.send /\ IsJob(job')
      /\ job'.delays = job.delays /\ job'.failures = job.failures /\ job'.notified = job.notified
      /\ job'.seen = job.seen /\ job'.pc = "send"
  BY <1>2 DEF InsertProbeMail, IsJob, Fields, Pcs
<1> DEFINE new == [NoRow EXCEPT !.sent = job.t, !.st = IF job.refused THEN "send_failed" ELSE "pending",
                                !.lvl = IF job.refused THEN 2 ELSE 0]
<1>4. /\ new \in Record /\ new.lvl \in LevelsOf(new.st) /\ new.st \in {"pending", "send_failed"}
  <2>1. NoRow \in Record
    BY DEF NoRow, Record, Levels
  <2>2. job.t \in Nat /\ job.refused \in BOOLEAN
    BY DEF IsJob
  <2> DEFINE s == IF job.refused THEN "send_failed" ELSE "pending"
             l == IF job.refused THEN 2 ELSE 0
             t == job.t
             p == NoRow
  <2>3. s \in {"pending", "send_failed"} /\ l \in Levels /\ l \in LevelsOf(s) /\ t \in Nat
    BY <2>2 DEF Levels, LevelsOf
  <2>4. new = [p EXCEPT !.sent = t, !.st = s, !.lvl = l] /\ p \in Record
    BY <2>1
  <2> HIDE DEF new, s, l, t, p
  <2>5. new \in Record /\ new.st = s /\ new.lvl = l
    BY <2>3, <2>4 DEF Record, Open, Waiting
  <2> QED BY <2>3, <2>5
<1>5. row' = row \/ row' = [m \in Mails |-> IF m \notin job.cur THEN row[m] ELSE new]
  BY DEF InsertProbeMail
<1> HIDE DEF new
<1>6. ASSUME NEW m \in Mails
      PROVE  /\ row'[m] \in Record /\ row'[m].lvl \in LevelsOf(row'[m].st)
             /\ row'[m] = row[m] \/ (m \in job.cur /\ row'[m] = new)
  BY <1>4, <1>5
<1>7. TypeInv'
  BY <1>1, <1>3, <1>5, <1>6
<1>8. Unreads' /\ RunOfSettings' /\ again' \subseteq slips'
  BY <1>1, <1>2, <1>3 DEF Unreads, RunOfSettings
<1>9. ASSUME NEW m \in Mails PROVE Sending(m)' /\ Judged(m)' /\ Alerted(m)'
  <2>1. Sending(m)'
    BY <1>1, <1>2, <1>3, <1>4, <1>6 DEF Sending
  <2>2. Judged(m)'
    BY <1>1, <1>2, <1>3, <1>4, <1>6 DEF Sending, Judged
  <2>3. Alerted(m)'
    BY <1>1, <1>2, <1>3, <1>4, <1>6 DEF Sending, Alerted
  <2> QED BY <2>1, <2>2, <2>3
<1> QED BY <1>7, <1>8, <1>9

-----------------------------------------------------------------------------
(* Records that are closed.                                                 *)

\* A record stays, or one that was open is resolved.
Eased(p, q) ==
  \/ q = p
  \/ p.st \in Open /\ q.st = "resolved"
     /\ q.lvl = p.lvl /\ q.told = p.told /\ q.mailed = p.mailed

LEMMA Resolved ==
  ASSUME NEW p \in Record, p.st \in Open
  PROVE  LET q == [p EXCEPT !.st = "resolved"] IN
         /\ q \in Record /\ q.lvl \in LevelsOf(q.st) /\ Eased(p, q)
BY DEF Record, Closed, Open, Waiting, LevelsOf, Levels, Eased

LEMMA ClosedEased ==
  ASSUME TypeInv, NEW B, NEW m \in Mails
  PROVE  LET q == ClosedIn(row, B)[m] IN
         /\ q \in Record /\ q.lvl \in LevelsOf(q.st) /\ Eased(row[m], q)
<1>1. row[m] \in Record /\ row[m].lvl \in LevelsOf(row[m].st)
  BY DEF TypeInv
<1>2. CASE BoxOf[m] \in B /\ row[m].st \in Open
  <2>1. ClosedIn(row, B)[m] = [row[m] EXCEPT !.st = "resolved"]
    BY <1>2 DEF ClosedIn
  <2> QED BY <1>1, <1>2, <2>1, Resolved
<1>3. CASE ~(BoxOf[m] \in B /\ row[m].st \in Open)
  <2>1. ClosedIn(row, B)[m] = row[m]
    BY <1>3 DEF ClosedIn
  <2> QED BY <1>1, <2>1 DEF Eased
<1> QED BY <1>2, <1>3

LEMMA CloseStaleStep ==
  ASSUME ProbeInv, CloseStale
  PROVE  ProbeInv'
<1> USE DEF ProbeInv, TypeInv
<1>1. UNCHANGED <<now, post, at, run, server, counted, mailed, again, slips, unread>>
  BY DEF CloseStale, mails, Outside, Unmailed
<1>2. job.pc = "close" /\ DOMAIN job = Fields
  BY DEF CloseStale, IsJob
<1>3. /\ job'.todo = job.todo /\ job'.cur = job.cur /\ job'.send = job.send /\ IsJob(job')
      /\ job'.delays = job.delays /\ job'.failures = job.failures /\ job'.notified = job.notified
      /\ job'.seen = job.seen /\ job'.pc = "alerts"
  BY <1>2 DEF CloseStale, IsJob, Fields, Pcs
<1>4. PICK B : row' = ClosedIn(row, B)
  BY DEF CloseStale, WithoutStale
<1>5. ASSUME NEW m \in Mails
      PROVE  row'[m] \in Record /\ row'[m].lvl \in LevelsOf(row'[m].st) /\ Eased(row[m], row'[m])
  BY <1>4, ClosedEased
<1>6. TypeInv'
  BY <1>1, <1>3, <1>4, <1>5 DEF ClosedIn
<1>7. Unreads' /\ RunOfSettings' /\ again' \subseteq slips'
  BY <1>1, <1>2, <1>3 DEF Unreads, RunOfSettings
<1>8. ASSUME NEW m \in Mails PROVE Sending(m)' /\ Judged(m)' /\ Alerted(m)'
  <2> USE <1>5 DEF Open, Waiting, Eased
  <2>1. Sending(m)'
    BY <1>1, <1>2, <1>3 DEF Sending
  <2>2. Judged(m)'
    BY <1>1, <1>2, <1>3 DEF Judged
  <2>3. Alerted(m)'
    BY <1>1, <1>2, <1>3 DEF Alerted
  <2> QED BY <2>1, <2>2, <2>3
<1> QED BY <1>6, <1>7, <1>8

\* An administrator resolves a mail, or the mails of a switch-off are closed.
LEMMA CloseStep ==
  ASSUME ProbeInv, CloseOpen \/ \E k \in Mails : Resolve(k)
  PROVE  ProbeInv'
<1> USE DEF ProbeInv, TypeInv
<1>1. UNCHANGED <<now, post, at, job, run, server, counted, mailed, again, slips, unread>>
  BY DEF CloseOpen, Resolve, mails, Elsewhere
<1>2. /\ row' = [m \in Mails |-> row'[m]]
      /\ \A m \in Mails : row'[m] \in Record /\ row'[m].lvl \in LevelsOf(row'[m].st) /\ Eased(row[m], row'[m])
  <2>1. CASE CloseOpen
    <3>1. row' = ClosedIn(row, closing)
      BY <2>1 DEF CloseOpen
    <3>2. row' = [m \in Mails |-> row'[m]]
      BY <3>1 DEF ClosedIn
    <3> QED BY <3>1, <3>2, ClosedEased
  <2>2. ASSUME NEW k \in Mails, Resolve(k)
        PROVE  /\ row' = [m \in Mails |-> row'[m]]
               /\ \A m \in Mails : row'[m] \in Record /\ row'[m].lvl \in LevelsOf(row'[m].st) /\ Eased(row[m], row'[m])
    <3>1. row' = [row EXCEPT ![k].st = "resolved"] /\ row[k].st \in Open
      BY <2>2 DEF Resolve
    <3>2. row'[k] = [row[k] EXCEPT !.st = "resolved"] /\ \A m \in Mails \ {k} : row'[m] = row[m]
      BY <3>1
    <3>3. row' = [m \in Mails |-> row'[m]]
      BY <3>1
    <3> QED BY <3>1, <3>2, <3>3, Resolved DEF Eased
  <2> QED BY <2>1, <2>2
<1>3. TypeInv'
  BY <1>1, <1>2
<1>4. Unreads' /\ RunOfSettings' /\ again' \subseteq slips'
  BY <1>1 DEF Unreads, RunOfSettings
<1>5. ASSUME NEW m \in Mails PROVE Sending(m)' /\ Judged(m)' /\ Alerted(m)'
  <2> USE <1>2 DEF Open, Waiting, Eased
  <2>1. Sending(m)'
    BY <1>1 DEF Sending
  <2>2. Judged(m)'
    BY <1>1 DEF Judged
  <2>3. Alerted(m)'
    BY <1>1 DEF Alerted
  <2> QED BY <2>1, <2>2, <2>3
<1> QED BY <1>3, <1>4, <1>5

-----------------------------------------------------------------------------
(* A check, up to the alerts.                                               *)

LEMMA StartCheckStep ==
  ASSUME ProbeInv, NEW byHand \in BOOLEAN, StartCheck(byHand)
  PROVE  ProbeInv'
<1> USE DEF ProbeInv, TypeInv
<1>1. /\ UNCHANGED <<now, post, at, run, server, counted, mailed, again, slips, unread>>
      /\ job = Idle /\ DOMAIN job = Fields
  BY DEF StartCheck, mails, Unmailed, IsJob
<1>2. /\ job'.todo = {} /\ job'.cur = {} /\ job'.send = FALSE /\ IsJob(job')
      /\ job'.delays = {} /\ job'.failures = {} /\ job'.notified = FALSE
      /\ job'.seen.run = run /\ job'.pc \in {"list", "alerts"}
      /\ \A m \in Mails : row'[m].st \in Waiting => m \in job'.waiting
  <2> DEFINE some == \E m \in Mails : row'[m].st \in Open
             W    == {m \in Mails : row'[m].st \in Waiting}
             pc   == IF some THEN "list" ELSE "alerts"
  <2>1. job' = [job EXCEPT !.pc = pc, !.skipped = ~some, !.seen = Seen, !.t = now, !.waiting = W]
    BY DEF StartCheck
  <2>2. pc \in {"list", "alerts"} /\ Seen.run = run /\ \A m \in Mails : row'[m].st \in Waiting => m \in W
    BY DEF Seen
  <2> DEFINE not == ~some
             s   == Seen
  <2>3. job' = [job EXCEPT !.pc = pc, !.skipped = not, !.seen = s, !.t = now, !.waiting = W]
    BY <2>1
  <2>4. s.run = run
    BY <2>2
  <2> HIDE DEF W, pc, not, s
  <2> QED BY <1>1, <2>2, <2>3, <2>4 DEF IsJob, Fields, Idle, Pcs
<1>3. PICK B : row' = ClosedIn(row, B)
  BY DEF StartCheck, WithoutStale
<1>4. ASSUME NEW m \in Mails
      PROVE  row'[m] \in Record /\ row'[m].lvl \in LevelsOf(row'[m].st) /\ Eased(row[m], row'[m])
  BY <1>3, ClosedEased
<1>5. TypeInv'
  BY <1>1, <1>2, <1>3, <1>4 DEF ClosedIn
<1>6. Unreads' /\ RunOfSettings' /\ again' \subseteq slips'
  BY <1>1, <1>2 DEF Unreads, RunOfSettings, Idle
<1>7. ASSUME NEW m \in Mails PROVE Sending(m)' /\ Judged(m)' /\ Alerted(m)'
  <2> USE <1>4 DEF Open, Waiting, Eased
  <2>1. Sending(m)'
    BY <1>1, <1>2 DEF Sending
  <2>2. Judged(m)'
    BY <1>1, <1>2 DEF Judged
  <2>3. Alerted(m)'
    BY <1>1, <1>2 DEF Alerted, Idle
  <2> QED BY <2>1, <2>2, <2>3
<1> QED BY <1>5, <1>6, <1>7

\* The folder is listed, or the server is unreadable.
LEMMA ListFolderStep ==
  ASSUME ProbeInv, ListFolder
  PROVE  ProbeInv'
<1> USE DEF ProbeInv, TypeInv
<1>1. UNCHANGED <<now, post, at, row, run, server, counted, mailed, again, slips, unread>>
  BY DEF ListFolder, mails, Outside, Unmailed
<1>2. job.pc = "list" /\ DOMAIN job = Fields
  BY DEF ListFolder, IsJob
<1>3. /\ job'.todo = job.todo /\ job'.cur = job.cur /\ job'.send = job.send /\ IsJob(job')
      /\ job'.delays = job.delays /\ job'.failures = job.failures /\ job'.notified = job.notified
      /\ job'.seen = job.seen /\ job'.pc \in {"record", "alerts"} /\ job'.waiting = job.waiting
  <2> DEFINE F == {m \in Mails : post[m] \in {"in", "other"}}
  <2>1. \/ job' = [job EXCEPT !.pc = "record", !.found = F]
        \/ job' = [job EXCEPT !.pc = "alerts", !.err = "server"]
        \/ job' = [job EXCEPT !.pc = "alerts", !.err = "canceled"]
    BY DEF ListFolder
  <2> HIDE DEF F
  <2>2. CASE job' = [job EXCEPT !.pc = "record", !.found = F]
    BY <1>2, <2>2 DEF IsJob, Fields, Pcs
  <2>3. CASE job' = [job EXCEPT !.pc = "alerts", !.err = "server"]
    BY <1>2, <2>3 DEF IsJob, Fields, Pcs
  <2>4. CASE job' = [job EXCEPT !.pc = "alerts", !.err = "canceled"]
    BY <1>2, <2>4 DEF IsJob, Fields, Pcs
  <2> QED BY <2>1, <2>2, <2>3, <2>4
<1>4. TypeInv'
  BY <1>1, <1>2, <1>3
<1>5. Unreads' /\ RunOfSettings' /\ again' \subseteq slips'
  BY <1>1, <1>2, <1>3 DEF Unreads, RunOfSettings
<1>6. ASSUME NEW m \in Mails PROVE Sending(m)' /\ Judged(m)' /\ Alerted(m)'
  <2>1. Sending(m)'
    BY <1>1, <1>2, <1>3 DEF Sending
  <2>2. Judged(m)'
    BY <1>1, <1>2, <1>3 DEF Judged
  <2>3. Alerted(m)'
    BY <1>1, <1>2, <1>3 DEF Alerted
  <2> QED BY <2>1, <2>2, <2>3
<1> QED BY <1>4, <1>5, <1>6

\* What the judgement makes of one record: a mail not found that waits stays
\* open at its level, one found is closed, any other is left alone.
LEMMA RecordRow ==
  ASSUME ProbeInv, RecordArrivals, NEW m \in Mails
  PROVE  LET p == row[m]
             q == row'[m] IN
         /\ q \in Record /\ q.lvl \in LevelsOf(q.st)
         /\ q.told = p.told /\ q.mailed = p.mailed /\ (q.lvl = 0 => p.lvl = 0)
         /\ (q.st = "none") = (p.st = "none")
         /\ \/ q = p
            \/ p.st \in Open /\ q.st \in Waiting
            \/ /\ p.st \in Open /\ q.st \in {"arrived", "recovered"}
               /\ post[m] = "in" /\ (q.st = "arrived" => at[m] < q.sent + Delay)
         /\ m \in job'.del /\ job'.pc = "delete" => q.st \notin Open
<1> USE DEF ProbeInv, TypeInv
<1>0. row[m] \in Record /\ row[m].lvl \in LevelsOf(row[m].st) /\ at[m] \in Nat /\ now \in Nat
  OBVIOUS
<1>1. job.pc = "record" /\ DOMAIN job = Fields
  BY DEF RecordArrivals, IsJob
<1> DEFINE here == Verified(job.found)
           left == {k \in job.waiting : Updatable(k) /\ k \notin here}
<1>2. CASE /\ row' = row /\ job'.pc = "alerts"
  BY <1>0, <1>2
<1>3. CASE /\ row' = [k \in Mails |->
                       CASE k \in left -> Missing(row[k], now)
                         [] k \in here /\ Updatable(k) /\ (k \in job.waiting \/ row[k].st = "send_failed")
                              -> Arrived(row[k], at[k])
                         [] OTHER -> row[k]]
           /\ job'.del = here \union Unrecorded(job.found)
  <2>1. row'[m] = CASE m \in left -> Missing(row[m], now)
                    [] m \in here /\ Updatable(m) /\ (m \in job.waiting \/ row[m].st = "send_failed")
                         -> Arrived(row[m], at[m])
                    [] OTHER -> row[m]
    BY <1>3
  <2>2. /\ m \in left => row[m].st \in Open /\ m \notin here
        /\ m \in here => post[m] = "in"
        /\ Updatable(m) = (row[m].st \in Open)
    BY DEF Updatable, Verified
  <2>3. row[m].st \in Waiting => m \in job.waiting
    BY <1>1 DEF Judged
  <2>4. m \in job'.del => m \in here \/ row[m].st \notin Open
    BY <1>3 DEF Unrecorded
  <2>5. row[m].st \in Open /\ m \notin left /\ m \notin here => row[m].st \notin Waiting
    BY <2>2, <2>3
  <2> HIDE DEF here, left
  <2>6. CASE m \in left
    <3>1. row'[m] = Missing(row[m], now)
      BY <2>1, <2>2, <2>6
    <3> QED
      BY <1>0, <2>2, <2>4, <2>6, <3>1, MissingRecord DEF Open, Waiting
  <2>7. CASE m \in here /\ m \notin left /\ row[m].st \in Open
    <3>1. m \in job.waiting \/ row[m].st = "send_failed"
      BY <2>3, <2>7 DEF Open
    <3>2. row'[m] = Arrived(row[m], at[m])
      BY <2>1, <2>2, <2>7, <3>1
    <3> DEFINE q == Arrived(row[m], at[m])
    <3>3. /\ q \in Record /\ q.lvl \in LevelsOf(q.st) /\ q.st \in {"arrived", "recovered"}
          /\ q.told = row[m].told /\ q.mailed = row[m].mailed
          /\ q.lvl = 0 => row[m].lvl = 0
          /\ q.st = "arrived" => at[m] < q.sent + Delay
      BY <1>0, ArrivedRecord
    <3>4. q.st \notin Open /\ q.st # "none" /\ row[m].st # "none"
      BY <2>7, <3>3 DEF Open, Waiting
    <3> HIDE DEF q
    <3>5. row'[m] = q
      BY <3>2 DEF q
    <3> QED
      BY <2>2, <2>7, <3>3, <3>4, <3>5
  <2>8. CASE m \notin left /\ ~(m \in here /\ row[m].st \in Open)
    <3>1. row'[m] = row[m]
      BY <2>1, <2>2, <2>8
    <3> QED
      BY <1>0, <2>4, <2>8, <3>1
  <2> QED BY <2>6, <2>7, <2>8
<1>4. QED
  BY <1>2, <1>3 DEF RecordArrivals, IsJob, Fields

LEMMA RecordArrivalsStep ==
  ASSUME ProbeInv, RecordArrivals
  PROVE  ProbeInv'
<1> USE DEF ProbeInv, TypeInv
<1>1. UNCHANGED <<now, post, at, run, server, counted, mailed, again, slips, unread>>
  BY DEF RecordArrivals, mails, Outside, Unmailed
<1>2. job.pc = "record" /\ DOMAIN job = Fields
  BY DEF RecordArrivals, IsJob
<1> DEFINE Goes ==
             /\ job'.todo = job.todo /\ job'.cur = job.cur /\ job'.send = job.send /\ IsJob(job')
             /\ job'.delays = job.delays /\ job'.failures = job.failures
             /\ job'.notified = job.notified /\ job'.seen = job.seen
             /\ job'.pc \in {"delete", "alerts"}
<1>3. Goes
  <2>1. \/ \E d, n : job' = [job EXCEPT !.pc = "delete", !.t = now, !.del = d, !.next = n]
        \/ job' = [job EXCEPT !.pc = "alerts", !.t = now, !.err = "database"]
    BY DEF RecordArrivals
  <2>2. ASSUME NEW d, NEW n, job' = [job EXCEPT !.pc = "delete", !.t = now, !.del = d, !.next = n]
        PROVE  Goes
    BY <1>2, <2>2 DEF IsJob, Fields, Pcs
  <2>3. ASSUME job' = [job EXCEPT !.pc = "alerts", !.t = now, !.err = "database"]
        PROVE  Goes
    BY <1>2, <2>3 DEF IsJob, Fields, Pcs
  <2> QED BY <2>1, <2>2, <2>3
<1>4. row' = [m \in Mails |-> row'[m]]
  BY DEF RecordArrivals
<1>5. TypeInv'
  BY <1>1, <1>3, <1>4, RecordRow
<1>6. Unreads' /\ RunOfSettings' /\ again' \subseteq slips'
  BY <1>1, <1>2, <1>3 DEF Unreads, RunOfSettings
<1>7. ASSUME NEW m \in Mails PROVE Sending(m)' /\ Judged(m)' /\ Alerted(m)'
  <2> USE RecordRow DEF Open, Waiting
  <2>1. Sending(m)'
    BY <1>1, <1>2, <1>3 DEF Sending
  <2>2. Judged(m)'
    BY <1>1, <1>2, <1>3 DEF Judged, Sending
  <2>3. Alerted(m)'
    BY <1>1, <1>2, <1>3 DEF Alerted
  <2> QED BY <2>1, <2>2, <2>3
<1> QED BY <1>5, <1>6, <1>7

\* A mail is deleted on the server, or the deletion breaks off.
LEMMA DeleteStep ==
  ASSUME ProbeInv, NEW k \in Mails, DeleteMail(k)
  PROVE  ProbeInv'
<1> USE DEF ProbeInv, TypeInv
<1>1. /\ UNCHANGED <<now, at, row, run, server, counted, mailed, again, slips, unread>>
      /\ post' = post \/ post' = [post EXCEPT ![k] = "gone"]
  BY DEF DeleteMail, Outside, Unmailed
<1>2. /\ job.pc = "delete" /\ DOMAIN job = Fields
      /\ row[k].st \notin Open /\ k \notin job.todo /\ k \notin job.cur
  BY DEF DeleteMail, IsJob, Judged, Sending
<1> DEFINE Goes ==
             /\ job'.todo = job.todo /\ job'.cur = job.cur /\ job'.send = job.send /\ IsJob(job')
             /\ job'.delays = job.delays /\ job'.failures = job.failures
             /\ job'.notified = job.notified /\ job'.seen = job.seen
             /\ job'.pc = "delete" /\ job'.del \subseteq job.del
<1>3. Goes
  <2>1. ASSUME NEW d, NEW g, d \subseteq job.del, job' = [job EXCEPT !.del = d, !.gone = g]
        PROVE  Goes
    BY <1>2, <2>1 DEF IsJob, Fields, Pcs
  <2>2. CASE job' = [job EXCEPT !.del = @ \ {k}, !.gone = @ \union {k}]
    <3> DEFINE d == job.del \ {k}
               g == job.gone \union {k}
    <3>1. d \subseteq job.del /\ job' = [job EXCEPT !.del = d, !.gone = g]
      BY <1>2, <2>2 DEF Fields
    <3> HIDE DEF d, g, Goes
    <3> QED BY <2>1, <3>1
  <2>3. CASE job' = [job EXCEPT !.del = {}]
    BY <1>2, <2>3 DEF IsJob, Fields, Pcs
  <2> QED BY <2>2, <2>3 DEF DeleteMail
<1>4. post[k] # "none" => post' = post \/ post'[k] = "gone"
  BY <1>1
<1>5. TypeInv'
  BY <1>1, <1>3 DEF Posts
<1>6. Unreads' /\ RunOfSettings' /\ again' \subseteq slips'
  BY <1>1, <1>2, <1>3 DEF Unreads, RunOfSettings
<1>7. ASSUME NEW m \in Mails PROVE Sending(m)' /\ Judged(m)' /\ Alerted(m)'
  <2>1. post'[m] = post[m] \/ (m = k /\ post'[m] = "gone")
    BY <1>1
  <2>2. Sending(m)'
    BY <1>1, <1>2, <1>3, <2>1 DEF Sending
  <2>3. Judged(m)'
    BY <1>1, <1>2, <1>3, <2>1 DEF Judged
  <2>4. Alerted(m)'
    BY <1>1, <1>2, <1>3 DEF Alerted
  <2> QED BY <2>2, <2>3, <2>4
<1> QED BY <1>5, <1>6, <1>7

LEMMA MarkDeletedStep ==
  ASSUME ProbeInv, MarkDeleted
  PROVE  ProbeInv'
<1> USE DEF ProbeInv, TypeInv
<1>1. UNCHANGED <<now, post, at, run, server, counted, mailed, again, slips, unread>>
  BY DEF MarkDeleted, mails, Outside, Unmailed
<1>2. job.pc = "delete" /\ DOMAIN job = Fields
  BY DEF MarkDeleted, IsJob
<1>3. /\ job'.todo = job.todo /\ job'.cur = job.cur /\ job'.send = job.send /\ IsJob(job')
      /\ job'.delays = job.delays /\ job'.failures = job.failures /\ job'.notified = job.notified
      /\ job'.seen = job.seen /\ job'.pc = "alerts"
  BY <1>2 DEF MarkDeleted, IsJob, Fields, Pcs
<1>4. ASSUME NEW m \in Mails
      PROVE  /\ row'[m] \in Record /\ row'[m].st = row[m].st /\ row'[m].lvl = row[m].lvl
             /\ row'[m].told = row[m].told /\ row'[m].mailed = row[m].mailed
             /\ row'[m].sent = row[m].sent
  <2>1. row'[m] = row[m] \/ row'[m] = [row[m] EXCEPT !.gone = TRUE]
    BY DEF MarkDeleted
  <2> QED BY <2>1 DEF Record
<1>5. row' = [m \in Mails |-> row'[m]]
  BY DEF MarkDeleted
<1>6. TypeInv'
  BY <1>1, <1>3, <1>4, <1>5
<1>7. Unreads' /\ RunOfSettings' /\ again' \subseteq slips'
  BY <1>1, <1>2, <1>3 DEF Unreads, RunOfSettings
<1>8. ASSUME NEW m \in Mails PROVE Sending(m)' /\ Judged(m)' /\ Alerted(m)'
  <2>1. Sending(m)'
    BY <1>1, <1>2, <1>3, <1>4 DEF Sending
  <2>2. Judged(m)'
    BY <1>1, <1>2, <1>3, <1>4 DEF Judged
  <2>3. Alerted(m)'
    BY <1>1, <1>2, <1>3, <1>4 DEF Alerted
  <2> QED BY <2>1, <2>2, <2>3
<1> QED BY <1>6, <1>7, <1>8

-----------------------------------------------------------------------------
(* The alerts.                                                              *)

\* Where a job goes when its alerts are over.
LEMMA DoneJob ==
  ASSUME IsJob(job), job.pc \in {"alerts", "mail", "told"}, ~job.notified
  PROVE  /\ IsJob(Done) /\ Done.delays = {} /\ Done.failures = {} /\ Done.notified = FALSE
         /\ \/ Done = Idle /\ Done.pc = "idle" /\ Done.todo = {} /\ Done.cur = {}
            \/ /\ Done.pc = "report" /\ ~job.send /\ Done.send = FALSE /\ Done.seen = job.seen
               /\ Done.todo = job.todo /\ Done.cur = job.cur
<1>1. CASE job.send
  <2>1. Done = Idle
    BY <1>1 DEF Done
  <2> QED BY <2>1 DEF Idle, IsJob, Fields, Pcs, Run, NoRun
<1>2. CASE ~job.send
  <2>1. Done = [job EXCEPT !.pc = "report", !.delays = {}, !.failures = {}]
    BY <1>2 DEF Done
  <2>2. DOMAIN job = Fields
    BY DEF IsJob
  <2> QED BY <1>2, <2>1, <2>2 DEF IsJob, Fields, Pcs
<1> QED BY <1>1, <1>2

LEMMA ListAlertsStep ==
  ASSUME ProbeInv, ListAlerts
  PROVE  ProbeInv'
<1> USE DEF ProbeInv, TypeInv
<1>1. UNCHANGED <<now, post, at, row, run, server, counted, mailed, again, slips, unread>>
  BY DEF ListAlerts, mails, Outside, Unmailed
<1>2. job.pc = "alerts" /\ DOMAIN job = Fields /\ ~job.notified
  BY DEF ListAlerts, IsJob, Unreads
<1> DEFINE D == {m \in Mails : row[m].st = "delayed" /\ ~row[m].told}
           F == {m \in Mails : row[m].st \in {"failure", "send_failed"} /\ ~row[m].mailed}
<1>3. job' = Done \/ job' = [job EXCEPT !.pc = "mail", !.delays = D, !.failures = F]
  BY DEF ListAlerts
<1>4. CASE job' = Done
  <2>1. TypeInv'
    BY <1>1, <1>2, <1>4, DoneJob DEF Idle
  <2>2. Unreads' /\ RunOfSettings' /\ again' \subseteq slips'
    BY <1>1, <1>2, <1>4, DoneJob DEF Unreads, RunOfSettings
  <2>3. ASSUME NEW m \in Mails PROVE Sending(m)' /\ Judged(m)' /\ Alerted(m)'
    <3>1. Sending(m)'
      BY <1>1, <1>2, <1>4, DoneJob DEF Sending
    <3>2. Judged(m)'
      BY <1>1, <1>2, <1>4, DoneJob DEF Judged
    <3>3. Alerted(m)'
      BY <1>1, <1>2, <1>4, DoneJob DEF Alerted
    <3> QED BY <3>1, <3>2, <3>3
  <2> QED BY <2>1, <2>2, <2>3
<1>5. CASE job' = [job EXCEPT !.pc = "mail", !.delays = D, !.failures = F]
  <2>1. D \subseteq Mails /\ F \subseteq Mails
    OBVIOUS
  <2>2. /\ \A m \in D : row[m].st = "delayed" /\ ~row[m].told
        /\ \A m \in F : row[m].st \in {"failure", "send_failed"} /\ ~row[m].mailed
    OBVIOUS
  <2> HIDE DEF D, F
  <2>3. /\ job'.todo = job.todo /\ job'.cur = job.cur /\ job'.send = job.send /\ IsJob(job')
        /\ job'.delays = D /\ job'.failures = F /\ job'.notified = job.notified
        /\ job'.seen = job.seen /\ job'.pc = "mail"
    BY <1>2, <1>5, <2>1 DEF IsJob, Fields, Pcs
  <2>4. TypeInv'
    BY <1>1, <2>3
  <2>5. Unreads' /\ RunOfSettings' /\ again' \subseteq slips'
    BY <1>1, <1>2, <2>3 DEF Unreads, RunOfSettings
  <2>6. ASSUME NEW m \in Mails PROVE Sending(m)' /\ Judged(m)' /\ Alerted(m)'
    <3>1. Sending(m)'
      BY <1>1, <1>2, <2>3 DEF Sending
    <3>2. Judged(m)'
      BY <1>1, <1>2, <2>3 DEF Judged
    <3>3. m \in D \union F => row[m].st # "none" /\ row[m].lvl # 0
      BY <2>2 DEF LevelsOf
    <3>4. Alerted(m)'
      BY <1>1, <1>2, <2>2, <2>3, <3>3 DEF Alerted
    <3> QED BY <3>1, <3>2, <3>4
  <2> QED BY <2>4, <2>5, <2>6
<1> QED BY <1>3, <1>4, <1>5

\* The levels a mail is mailed for now.
LEMMA MailedFor ==
  ASSUME ProbeInv, NEW m \in Mails
  PROVE  LET L == {p[2] : p \in {q \in Listed : q[1] = m}} IN
         /\ L \subseteq {1, 2}
         /\ 1 \in L <=> m \in job.delays
         /\ 2 \in L <=> m \in job.failures
<1>1. \A q \in Listed : \/ \E k \in job.delays : q = <<k, 1>>
                        \/ \E k \in job.failures : q = <<k, 2>>
  BY DEF Listed
<1>2. /\ \A k \in job.delays : <<k, 1>> \in Listed
      /\ \A k \in job.failures : <<k, 2>> \in Listed
  BY DEF Listed
<1> DEFINE L == {p[2] : p \in {q \in Listed : q[1] = m}}
<1>3. \A l : l \in L <=> \E q \in Listed : q[1] = m /\ q[2] = l
  OBVIOUS
<1> HIDE DEF Listed, L
<1>4. L \subseteq {1, 2}
  BY <1>1, <1>3
<1>5. ASSUME NEW l \in {1, 2}, l \in L
      PROVE  (l = 1 /\ m \in job.delays) \/ (l = 2 /\ m \in job.failures)
  <2>1. PICK q \in Listed : q[1] = m /\ q[2] = l
    BY <1>3, <1>5
  <2>2. ASSUME NEW k \in job.delays, q = <<k, 1>> PROVE l = 1 /\ k = m
    BY <2>1, <2>2
  <2>3. ASSUME NEW k \in job.failures, q = <<k, 2>> PROVE l = 2 /\ k = m
    BY <2>1, <2>3
  <2> QED BY <1>1, <2>1, <2>2, <2>3
<1>6. (m \in job.delays => 1 \in L) /\ (m \in job.failures => 2 \in L)
  <2>1. <<m, 1>>[1] = m /\ <<m, 1>>[2] = 1 /\ <<m, 2>>[1] = m /\ <<m, 2>>[2] = 2
    OBVIOUS
  <2>2. m \in job.delays => 1 \in L
    BY <1>2, <1>3, <2>1
  <2>3. m \in job.failures => 2 \in L
    BY <1>2, <1>3, <2>1
  <2> QED BY <2>2, <2>3
<1> QED BY <1>4, <1>5, <1>6 DEF L

LEMMA MailAlertsStep ==
  ASSUME ProbeInv, MailAlerts
  PROVE  ProbeInv'
<1> USE DEF ProbeInv, TypeInv
<1>1. UNCHANGED <<now, post, at, row, run, server, counted, slips, unread>>
  BY DEF MailAlerts, mails, Outside
<1>2. job.pc = "mail" /\ DOMAIN job = Fields /\ ~job.notified
  BY DEF MailAlerts, IsJob, Unreads
<1>3. CASE job' = Done /\ mailed' = mailed /\ again' = again
  <2>1. TypeInv'
    BY <1>1, <1>2, <1>3, DoneJob DEF Idle
  <2>2. Unreads' /\ RunOfSettings' /\ again' \subseteq slips'
    BY <1>1, <1>2, <1>3, DoneJob DEF Unreads, RunOfSettings
  <2>3. ASSUME NEW m \in Mails PROVE Sending(m)' /\ Judged(m)' /\ Alerted(m)'
    <3>1. Sending(m)'
      BY <1>1, <1>2, <1>3, DoneJob DEF Sending
    <3>2. Judged(m)'
      BY <1>1, <1>2, <1>3, DoneJob DEF Judged
    <3>3. Alerted(m)'
      BY <1>1, <1>2, <1>3, DoneJob DEF Alerted
    <3> QED BY <3>1, <3>2, <3>3
  <2> QED BY <2>1, <2>2, <2>3
<1> DEFINE L(m) == {p[2] : p \in {q \in Listed : q[1] = m}}
<1>4. CASE /\ mailed' = [m \in Mails |-> mailed[m] \union L(m)]
           /\ again' = again \union {p \in Listed : p[2] \in mailed[p[1]]}
           /\ job' = [job EXCEPT !.pc = "told"]
  <2>1. \A m \in Mails : /\ L(m) \subseteq {1, 2} /\ (1 \in L(m) <=> m \in job.delays)
                         /\ (2 \in L(m) <=> m \in job.failures)
    BY MailedFor
  <2>2. /\ job'.todo = job.todo /\ job'.cur = job.cur /\ job'.send = job.send /\ IsJob(job')
        /\ job'.delays = job.delays /\ job'.failures = job.failures /\ job'.notified = job.notified
        /\ job'.seen = job.seen /\ job'.pc = "told"
    BY <1>2, <1>4 DEF IsJob, Fields, Pcs
  <2>3. again' \subseteq slips'
    <3>1. SUFFICES ASSUME NEW p \in Listed, p[2] \in mailed[p[1]] PROVE p \in slips
      BY <1>1, <1>4
    <3>2. PICK m \in Mails : \/ p = <<m, 1>> /\ m \in job.delays
                             \/ p = <<m, 2>> /\ m \in job.failures
      BY DEF Listed, IsJob
    <3>3. row[m].st # "none" /\ Alerted(m)
      BY <1>2, <3>2 DEF Alerted
    <3>4. CASE p = <<m, 1>> /\ m \in job.delays
      BY <1>2, <3>1, <3>3, <3>4 DEF Alerted
    <3>5. CASE p = <<m, 2>> /\ m \in job.failures
      BY <1>2, <3>1, <3>3, <3>5 DEF Alerted
    <3> QED BY <3>2, <3>4, <3>5
  <2> HIDE DEF L
  <2>4. mailed' \in [Mails -> SUBSET {1, 2}]
    BY <1>4, <2>1
  <2>5. TypeInv'
    BY <1>1, <2>2, <2>4
  <2>6. Unreads' /\ RunOfSettings'
    BY <1>1, <1>2, <2>2 DEF Unreads, RunOfSettings
  <2>7. ASSUME NEW m \in Mails PROVE Sending(m)' /\ Judged(m)' /\ Alerted(m)'
    <3>1. mailed'[m] = mailed[m] \union L(m)
      BY <1>4
    <3>2. m \in job.delays \union job.failures => row[m].st # "none" /\ row[m].lvl # 0
      BY <1>2 DEF Alerted
    <3>3. m \notin job.delays \union job.failures => mailed'[m] = mailed[m]
      BY <2>1, <3>1
    <3>4. /\ 1 \in mailed'[m] => 1 \in mailed[m] \/ m \in job.delays
          /\ 2 \in mailed'[m] => 2 \in mailed[m] \/ m \in job.failures
      BY <2>1, <3>1
    <3>5. Sending(m)'
      BY <1>1, <1>2, <2>2, <3>2, <3>3 DEF Sending
    <3>6. Judged(m)'
      BY <1>1, <1>2, <2>2 DEF Judged
    <3>7. Alerted(m)'
      BY <1>1, <1>2, <2>2, <3>2, <3>3, <3>4 DEF Alerted
    <3> QED BY <3>5, <3>6, <3>7
  <2> QED BY <2>3, <2>5, <2>6, <2>7
<1> QED BY <1>3, <1>4 DEF MailAlerts

\* The mails are marked, or the mark is lost.
LEMMA MarkNotifiedStep ==
  ASSUME ProbeInv, MarkNotified
  PROVE  ProbeInv'
<1> USE DEF ProbeInv, TypeInv
<1>1. UNCHANGED <<now, post, at, run, server, counted, mailed, again, unread>>
  BY DEF MarkNotified, mails, Outside
<1>2. job.pc = "told" /\ DOMAIN job = Fields /\ ~job.notified /\ job' = Done
  BY DEF MarkNotified, IsJob, Unreads
<1>3. \/ /\ slips' = slips
         /\ row' = [m \in Mails |-> IF row[m].st = "none" THEN row[m] ELSE Notified(row[m], m)]
      \/ slips' = slips \union Listed /\ row' = row
  BY DEF MarkNotified
<1>4. /\ slips \subseteq slips' /\ slips' \subseteq Mails \X {1, 2}
      /\ row' # row => slips' = slips
      /\ \A m \in job.delays : row' = row => <<m, 1>> \in slips' \/ row'[m].told \/ slips' = slips
  BY <1>3 DEF Listed, IsJob
<1>5. ASSUME NEW m \in Mails
      PROVE  /\ row'[m] \in Record /\ row'[m].st = row[m].st /\ row'[m].lvl = row[m].lvl
             /\ row'[m].sent = row[m].sent
             /\ row[m].told => row'[m].told
             /\ row[m].mailed => row'[m].mailed
             /\ row[m].st # "none" =>
                  /\ m \in job.delays => row'[m].told \/ <<m, 1>> \in slips'
                  /\ m \in job.failures => row'[m].mailed \/ <<m, 2>> \in slips'
  <2>1. row[m] \in Record
    OBVIOUS
  <2>2. CASE slips' = slips \union Listed /\ row' = row
    BY <2>1, <2>2 DEF Listed
  <2>3. CASE row' = [k \in Mails |-> IF row[k].st = "none" THEN row[k] ELSE Notified(row[k], k)]
    <3>1. CASE row[m].st = "none"
      BY <2>1, <2>3, <3>1
    <3>2. CASE row[m].st # "none"
      <4> DEFINE x == row[m].mailed \/ m \in job.failures
                 y == row[m].told \/ m \in job.delays \union job.failures
      <4>1. row'[m] = [row[m] EXCEPT !.mailed = x, !.told = y]
        BY <2>1, <2>3, <3>2 DEF Notified, Record
      <4>2. x \in BOOLEAN /\ y \in BOOLEAN
        BY <2>1 DEF Record
      <4> HIDE DEF x, y
      <4>3. row'[m] \in Record /\ row'[m].mailed = x /\ row'[m].told = y
            /\ row'[m].st = row[m].st /\ row'[m].lvl = row[m].lvl /\ row'[m].sent = row[m].sent
        BY <2>1, <4>1, <4>2 DEF Record
      <4> QED BY <4>3 DEF x, y
    <3> QED BY <3>1, <3>2
  <2> QED BY <1>3, <2>2, <2>3
<1>6. row' = [m \in Mails |-> row'[m]]
  BY <1>3
<1>7. TypeInv'
  BY <1>1, <1>2, <1>4, <1>5, <1>6, DoneJob DEF Idle
<1>8. Unreads' /\ RunOfSettings' /\ again' \subseteq slips'
  BY <1>1, <1>2, <1>4, DoneJob DEF Unreads, RunOfSettings
<1>9. ASSUME NEW m \in Mails PROVE Sending(m)' /\ Judged(m)' /\ Alerted(m)'
  <2>1. Sending(m)'
    BY <1>1, <1>2, <1>5, DoneJob DEF Sending
  <2>2. Judged(m)'
    BY <1>1, <1>2, <1>5, DoneJob DEF Judged
  <2>3. Alerted(m)'
    BY <1>1, <1>2, <1>4, <1>5, DoneJob DEF Alerted
  <2> QED BY <2>1, <2>2, <2>3
<1> QED BY <1>7, <1>8, <1>9

-----------------------------------------------------------------------------
(* The check is recorded.                                                   *)

\* The mail about the server goes out, or the check goes on without it.
LEMMA MailUnreadableStep ==
  ASSUME ProbeInv, MailUnreadable
  PROVE  ProbeInv'
<1> USE DEF ProbeInv, TypeInv
<1>1. UNCHANGED <<now, post, at, row, run, server, counted, mailed, again, slips>>
  BY DEF MailUnreadable, mails, Outside
<1>2. /\ job.pc = "report" /\ DOMAIN job = Fields /\ ~job.notified /\ ~job.send
      /\ ~job.seen.run.told
  BY DEF MailUnreadable, Unreadable, IsJob, Unreads
<1>3. unread = 0 /\ ~run.told
  BY <1>2 DEF Unreads
<1> DEFINE Goes ==
             /\ job'.todo = job.todo /\ job'.cur = job.cur /\ job'.send = job.send /\ IsJob(job')
             /\ job'.delays = job.delays /\ job'.failures = job.failures /\ job'.seen = job.seen
             /\ \/ job'.pc = "report" /\ job'.notified /\ unread' = 1
                \/ job'.pc = "finish" /\ ~job'.notified /\ unread' = 0
<1>4. Goes
  <2>1. CASE unread' = unread + 1 /\ job' = [job EXCEPT !.notified = TRUE]
    BY <1>2, <1>3, <2>1 DEF IsJob, Fields, Pcs
  <2>2. CASE job' = [job EXCEPT !.pc = "finish"] /\ unread' = unread
    BY <1>2, <1>3, <2>2 DEF IsJob, Fields, Pcs
  <2> QED BY <2>1, <2>2 DEF MailUnreadable
<1>5. TypeInv'
  BY <1>1, <1>4
<1>6. Unreads' /\ RunOfSettings' /\ again' \subseteq slips'
  BY <1>1, <1>2, <1>3, <1>4 DEF Unreads, RunOfSettings
<1>7. ASSUME NEW m \in Mails PROVE Sending(m)' /\ Judged(m)' /\ Alerted(m)'
  <2>1. Sending(m)'
    BY <1>1, <1>2, <1>4 DEF Sending
  <2>2. Judged(m)'
    BY <1>1, <1>2, <1>4 DEF Judged
  <2>3. Alerted(m)'
    BY <1>1, <1>2, <1>4 DEF Alerted
  <2> QED BY <2>1, <2>2, <2>3
<1> QED BY <1>5, <1>6, <1>7

\* A failed check is counted only against the connection it was made with, and
\* the mail of a check that is not recorded is forgotten.
LEMMA RecordCheckStep ==
  ASSUME ProbeInv, RecordCheck
  PROVE  ProbeInv'
<1> USE DEF ProbeInv, TypeInv
<1>1. /\ UNCHANGED <<now, post, at, row, server, mailed, again, slips>>
      /\ job' = Idle /\ job.pc \in {"report", "finish"}
  BY DEF RecordCheck, mails, Outside
<1>2. /\ job.err \in {"none", "server", "canceled", "database"} /\ job.notified \in BOOLEAN
      /\ job.seen.run \in Run /\ job.t \in Nat
  BY DEF IsJob
<1> DEFINE failed == [n |-> job.seen.run.n + 1, since |-> FailingSince, told |-> run.told \/ job.notified]
           kept   == job.err \in {"canceled", "database"} \/ SettingsMoved
<1>3. failed \in Run /\ (failed.told <=> run.told \/ job.notified)
  BY <1>2 DEF FailingSince, Run
<1>4. /\ MailForgotten \in Nat /\ MailForgotten <= 1
      /\ MailForgotten = 1 => run.told
  BY <1>2 DEF MailForgotten, Unreads
<1> DEFINE Goes == /\ run' \in Run /\ unread' \in Nat /\ RunOfSettings'
                   /\ unread' <= 1 /\ (unread' = 1 => run'.told)
<1>5. Goes
  <2>1. CASE run' = run /\ counted' = counted /\ unread' = MailForgotten
    BY <1>1, <1>4, <2>1 DEF RunOfSettings
  <2>2. CASE ~kept /\ job.err = "none" /\ run' = NoRun /\ unread' = 0
    BY <2>2 DEF RunOfSettings, Run, NoRun
  <2>3. CASE /\ ~kept /\ job.err = "server" /\ run' = failed
             /\ counted' = job.seen.server /\ unread' = unread
    <3>1. job.seen.server = server
      BY <2>3 DEF SettingsMoved
    <3> HIDE DEF failed
    <3> QED BY <1>1, <1>3, <2>3, <3>1 DEF Unreads, RunOfSettings
  <2>4. CASE kept
    BY <2>1, <2>4 DEF RecordCheck
  <2>5. CASE ~kept /\ job.err = "none"
    BY <2>1, <2>2, <2>5 DEF RecordCheck
  <2>6. CASE ~kept /\ job.err = "server"
    BY <2>1, <2>3, <2>6 DEF RecordCheck
  <2> QED BY <1>2, <2>4, <2>5, <2>6
<1>6. IsJob(Idle) /\ Idle.pc = "idle" /\ Idle.todo = {} /\ Idle.cur = {}
  BY DEF Idle, IsJob, Fields, Pcs, Run, NoRun
<1>7. TypeInv'
  BY <1>1, <1>5, <1>6
<1>8. Unreads' /\ again' \subseteq slips'
  BY <1>1, <1>5, <1>6 DEF Unreads, Idle
<1>9. ASSUME NEW m \in Mails PROVE Sending(m)' /\ Judged(m)' /\ Alerted(m)'
  <2>1. Sending(m)'
    BY <1>1, <1>6 DEF Sending
  <2>2. Judged(m)'
    BY <1>1, <1>6 DEF Judged
  <2>3. Alerted(m)'
    BY <1>1, <1>6 DEF Alerted
  <2> QED BY <2>1, <2>2, <2>3
<1> QED BY <1>5, <1>7, <1>8, <1>9

-----------------------------------------------------------------------------
(* The world, the scheduler, administrators and crashes.                    *)

\* A mail under way arrives.
LEMMA ArriveStep ==
  ASSUME ProbeInv, NEW k \in Mails, Arrive(k)
  PROVE  ProbeInv'
<1> USE DEF ProbeInv, TypeInv
<1>1. /\ UNCHANGED <<now, row, run, server, counted, mailed, again, slips, unread, job>>
      /\ post[k] = "sent" /\ job.pc \in Stops
      /\ at' = [at EXCEPT ![k] = now]
      /\ post' = [post EXCEPT ![k] = "in"] \/ post' = [post EXCEPT ![k] = "other"]
  BY DEF Arrive, settings, history
<1>2. at[k] = 0 /\ k \notin job.todo /\ k \notin job.cur
  BY <1>1 DEF Sending, Stops
<1>3. TypeInv'
  BY <1>1 DEF Posts
<1>4. Unreads' /\ RunOfSettings' /\ again' \subseteq slips'
  BY <1>1 DEF Unreads, RunOfSettings
<1>5. ASSUME NEW m \in Mails PROVE Sending(m)' /\ Judged(m)' /\ Alerted(m)'
  <2>1. \/ m # k /\ post'[m] = post[m] /\ at'[m] = at[m]
        \/ m = k /\ post'[m] \in {"in", "other"} /\ at'[m] = now
    BY <1>1
  <2>2. Sending(m)'
    BY <1>1, <1>2, <2>1 DEF Sending
  <2>3. Judged(m)'
    BY <1>1, <1>2, <2>1 DEF Judged
  <2>4. Alerted(m)'
    BY <1>1 DEF Alerted
  <2> QED BY <2>2, <2>3, <2>4
<1> QED BY <1>3, <1>4, <1>5

\* What touches neither mails, records nor the job: the clock, the scheduler,
\* the switches, another connection.  A run may be reset.
LEMMA SwitchStep ==
  ASSUME ProbeInv,
         \/ Tick \/ QueueCheck \/ ClearProbeCheck \/ SkipCheck \/ SwitchProbe \/ ChangeServer
         \/ \E b \in Boxes : SwitchMailbox(b)
         \/ UNCHANGED vars
  PROVE  ProbeInv'
<1> USE DEF ProbeInv, TypeInv
<1> DEFINE Still == /\ UNCHANGED <<post, at, row, mailed, again, slips, counted, job>>
                    /\ now' \in Nat \ {0}
                    /\ \/ run' = run /\ unread' = unread /\ server' = server
                       \/ run' = NoRun /\ unread' = 0
<1>1. Still
  <2>1. CASE Tick
    BY <2>1 DEF Tick, mails, settings, history
  <2>2. CASE QueueCheck
    BY <2>2 DEF QueueCheck, mails, settings, history
  <2>3. CASE ClearProbeCheck
    BY <2>3 DEF ClearProbeCheck, mails
  <2>4. CASE SkipCheck
    BY <2>4 DEF SkipCheck, mails, Unmailed, Outside
  <2>5. CASE SwitchProbe
    BY <2>5 DEF SwitchProbe, mails, RunReset, Elsewhere
  <2>6. CASE ChangeServer
    BY <2>6 DEF ChangeServer, mails, RunReset, Elsewhere
  <2>7. CASE \E b \in Boxes : SwitchMailbox(b)
    BY <2>7 DEF SwitchMailbox, mails, Elsewhere
  <2>8. CASE UNCHANGED vars
    BY <2>8 DEF vars
  <2> QED BY <2>1, <2>2, <2>3, <2>4, <2>5, <2>6, <2>7, <2>8
<1>2. TypeInv'
  <2>1. NoRun \in Run
    BY DEF NoRun, Run
  <2>2. run' \in Run /\ unread' \in Nat
    BY <1>1, <2>1
  <2> QED BY <1>1, <2>2
<1>3. Unreads' /\ RunOfSettings' /\ again' \subseteq slips'
  BY <1>1 DEF Unreads, RunOfSettings, NoRun
<1>4. ASSUME NEW m \in Mails PROVE Sending(m)' /\ Judged(m)' /\ Alerted(m)'
  BY <1>1 DEF Sending, Judged, Alerted
<1> QED BY <1>2, <1>3, <1>4

\* An old record is dropped; what it was marked for goes with it.
LEMMA DropRecordStep ==
  ASSUME ProbeInv, NEW k \in Mails, DropRecord(k)
  PROVE  ProbeInv'
<1> USE DEF ProbeInv, TypeInv
<1>1. /\ UNCHANGED <<now, post, at, run, server, counted, mailed, again, slips, unread, job>>
      /\ job.pc \in Stops /\ row' = [row EXCEPT ![k] = NoRow] /\ row[k].st # "none"
  BY DEF DropRecord, Elsewhere, mails
<1>2. NoRow \in Record /\ NoRow.st = "none" /\ NoRow.lvl \in LevelsOf(NoRow.st)
  BY DEF NoRow, Record, Levels, LevelsOf
<1>3. ASSUME NEW m \in Mails PROVE row'[m] = row[m] \/ (m = k /\ row'[m] = NoRow)
  BY <1>1
<1>4. TypeInv'
  BY <1>1, <1>2
<1>5. Unreads' /\ RunOfSettings' /\ again' \subseteq slips'
  BY <1>1 DEF Unreads, RunOfSettings
<1>6. ASSUME NEW m \in Mails PROVE Sending(m)' /\ Judged(m)' /\ Alerted(m)'
  <2>1. CASE row'[m] = row[m]
    BY <1>1, <2>1 DEF Sending, Judged, Alerted
  <2>2. CASE m = k /\ row'[m] = NoRow
    <3>1. Sending(m)'
      BY <1>1, <1>2, <2>2 DEF Sending
    <3>2. Judged(m)'
      BY <1>1, <1>2, <2>2 DEF Judged, Stops, Open, Waiting
    <3>3. Alerted(m)'
      BY <1>1, <1>2, <2>2 DEF Alerted, Stops
    <3> QED BY <3>1, <3>2, <3>3
  <2> QED BY <1>3, <2>1, <2>2
<1> QED BY <1>4, <1>5, <1>6

\* The process dies: a mail that was sent and not marked stays unmarked.
LEMMA CrashStep ==
  ASSUME ProbeInv, Crash
  PROVE  ProbeInv'
<1> USE DEF ProbeInv, TypeInv
<1>1. /\ UNCHANGED <<now, post, at, row, run, server, counted, mailed, again>>
      /\ job' = Idle /\ unread' = MailForgotten
      /\ slips' = IF job.pc = "told" THEN slips \union Listed ELSE slips
  BY DEF Crash, mails, settings
<1>2. IsJob(Idle) /\ Idle.pc = "idle" /\ Idle.todo = {} /\ Idle.cur = {} /\ ~Idle.notified
  BY DEF Idle, IsJob, Fields, Pcs, Run, NoRun
<1>3. /\ MailForgotten \in Nat /\ MailForgotten <= 1
      /\ MailForgotten = 1 => run.told
  BY DEF MailForgotten, Unreads, IsJob
<1>4. Listed \subseteq Mails \X {1, 2}
  BY DEF Listed, IsJob
<1>5. TypeInv'
  BY <1>1, <1>2, <1>3, <1>4
<1>6. Unreads' /\ RunOfSettings' /\ again' \subseteq slips'
  BY <1>1, <1>2, <1>3 DEF Unreads, RunOfSettings
<1>7. ASSUME NEW m \in Mails PROVE Sending(m)' /\ Judged(m)' /\ Alerted(m)'
  <2>1. Sending(m)'
    BY <1>1, <1>2 DEF Sending
  <2>2. Judged(m)'
    BY <1>1, <1>2 DEF Judged
  <2>3. job.pc = "told" => /\ m \in job.delays => <<m, 1>> \in slips'
                           /\ m \in job.failures => <<m, 2>> \in slips'
    BY <1>1 DEF Listed
  <2>4. slips \subseteq slips'
    BY <1>1
  <2>5. Alerted(m)'
    BY <1>1, <1>2, <2>3, <2>4 DEF Alerted
  <2> QED BY <2>1, <2>2, <2>5
<1> QED BY <1>5, <1>6, <1>7

-----------------------------------------------------------------------------
(* Delays and failures are seen in time.                                    *)

\* Checking at n finds m at its next level: within Coalesce of the moment it
\* reaches it, or before a check of the latest send would.
FindsAt(n, m) ==
  \/ n <= row[m].sent + (IF row[m].lvl = 0 THEN Delay ELSE Failure) + Coalesce
  \/ n <= last + Delay
InTime(n) == \A m \in StatusIn(Waiting) : row[m].lvl # 2 => FindsAt(n, m)

\* Which steps are those of a send, and which those of a check.
SendOrCheck ==
  /\ job.pc \in {"send", "smtp", "insert", "close"} => job.send
  /\ job.pc \in {"list", "record", "delete"} => ~job.send

\* A check looks for mails that wait, not for one that was never sent.
Looked == job.pc \in {"list", "record"} => job.waiting \subseteq {m \in Mails : row[m].st # "send_failed"}

Transmits == job.pc \in {"send", "smtp", "insert"}
\* Does the next check still follow from the scheduled one, or from the one this check chose?
Standing  == job.pc = "idle" \/ (job.send /\ ~Transmits)
Chosen    == ~job.send /\ job.pc \in {"delete", "alerts", "mail", "told", "report", "finish"} /\ job.err = "none"

DueTypes == last \in Nat /\ next \in Nat /\ job.next \in Nat /\ dropped \in BOOLEAN /\ disturbed \in BOOLEAN
DueInv ==
  /\ DueTypes /\ SendOrCheck /\ Looked
  /\ job.err # "none" => disturbed
  /\ next = 0 /\ ~dropped => StatusIn(Waiting) = {} /\ ~Transmits
  /\ Standing /\ ~disturbed /\ ~dropped => InTime(next)
  /\ Chosen => InTime(job.next) /\ (job.next = 0 => StatusIn(Waiting) = {})

-----------------------------------------------------------------------------
(* Lemmas: the least and the greatest of some numbers, and the next check.  *)

LEMMA LeastNumber ==
  ASSUME NEW T, T \subseteq Nat, T # {}
  PROVE  Minimum(T) \in T /\ \A y \in T : Minimum(T) <= y
<1>1. PICK R : R = OpToRel(<, Nat)
  OBVIOUS
<1>2. IsWellFoundedOn(R, Nat)
  BY <1>1, NatLessThanWellFounded
<1>3. PICK x \in T : \A y \in T : <<y, x>> \notin R
  BY <1>2, WFMin
<1>4. ASSUME NEW y \in T PROVE x <= y
  <2>1. x \in Nat /\ y \in Nat
    OBVIOUS
  <2>2. y < x => <<y, x>> \in R
    BY <1>1, <2>1 DEF OpToRel
  <2> QED BY <1>3, <2>1, <2>2
<1>5. \E x1 \in T : \A y \in T : x1 <= y
  BY <1>4
<1> QED BY <1>5 DEF Minimum

LEMMA GreatestNumber ==
  ASSUME NEW T, T \subseteq Nat, T # {}, NEW b \in Nat, \A y \in T : y <= b
  PROVE  Maximum(T) \in T /\ \A y \in T : Maximum(T) >= y
<1> DEFINE U == {u \in Nat : \A y \in T : y <= u}
           u == Minimum(U)
<1>1. u \in U /\ \A v \in U : u <= v
  <2>1. U \subseteq Nat /\ b \in U
    OBVIOUS
  <2> HIDE DEF U
  <2> QED BY <2>1, LeastNumber
<1> HIDE DEF u
<1>2. PICK x \in T : x >= u
  <2> SUFFICES ASSUME \A x \in T : x < u PROVE FALSE
    BY <1>1
  <2>1. PICK x \in T : TRUE
    OBVIOUS
  <2>2. u \in Nat /\ x \in Nat /\ x < u
    BY <1>1, <2>1
  <2>3. u - 1 \in Nat
    BY <2>2
  <2>4. u - 1 \in U
    BY <1>1, <2>3
  <2> QED BY <1>1, <2>2, <2>3, <2>4
<1>3. \A y \in T : x >= y
  BY <1>1, <1>2
<1>4. \E x1 \in T : \A y \in T : x1 >= y
  BY <1>3
<1> QED BY <1>4 DEF Maximum

\* After whole steps of a send, or of the failure threshold where there was none.
LEMMA RegularCheck ==
  ASSUME NEW l \in Nat, NEW t \in Nat
  PROVE  NextProbeCheckAt(l, t) \in Nat \ {0}
<1>1. Delay \in Nat \ {0} /\ Failure \in Nat \ {0}
  BY ProbeAssumption
<1> DEFINE elapsed == IF t > l THEN t - l ELSE 0
<1>2. elapsed \in Nat
  OBVIOUS
<1> HIDE DEF elapsed
<1>3. (elapsed \div Delay) \in Nat /\ (elapsed \div Failure) \in Nat
  BY <1>1, <1>2
<1> DEFINE x == elapsed \div Delay
           y == elapsed \div Failure
           step == (x + 1) * Delay
<1>4. step \in Nat /\ (y + 1) * Failure \in Nat
  <2> HIDE DEF x, y
  <2>1. x \in Nat /\ y \in Nat
    BY <1>3 DEF x, y
  <2> QED BY <1>1, <2>1
<1>5. NextProbeCheckAt(l, t) = IF l = 0 THEN t + Failure ELSE l + IF step < Failure THEN step ELSE (y + 1) * Failure
  BY DEF NextProbeCheckAt, elapsed
<1> HIDE DEF step, y
<1> DEFINE z == (y + 1) * Failure
<1> HIDE DEF z
<1>6. z \in Nat /\ NextProbeCheckAt(l, t) = IF l = 0 THEN t + Failure ELSE l + IF step < Failure THEN step ELSE z
  BY <1>4, <1>5 DEF z
<1> QED BY <1>1, <1>4, <1>6

\* Every moment that lies ahead is checked, or another within Coalesce before.
LEMMA LevelCheck ==
  ASSUME NEW regular \in Nat \ {0}, NEW moments, moments \subseteq Nat, NEW t \in Nat
  PROVE  LET n == ProbeLevelCheckAt(regular, moments, t) IN
         n \in Nat \ {0} /\ \A x \in moments : x > t => n <= x + Coalesce
<1> DEFINE ahead == {x \in moments : x > t}
           first == Minimum(ahead)
           close == {x \in ahead \union {regular} : x - first <= Coalesce}
<1>1. Coalesce \in Nat
  BY ProbeAssumption
<1>2. CASE ahead = {}
  <2>1. ProbeLevelCheckAt(regular, moments, t) = regular
    BY <1>2 DEF ProbeLevelCheckAt
  <2> QED BY <1>2, <2>1
<1>3. CASE ahead # {}
  <2>1. first \in ahead /\ \A y \in ahead : first <= y
    <3>1. ahead \subseteq Nat
      OBVIOUS
    <3> HIDE DEF ahead
    <3> QED BY <1>3, <3>1, LeastNumber
  <2> HIDE DEF first
  <2>2. first \in Nat \ {0} /\ \A x \in moments : x > t => x \in Nat /\ first <= x
    BY <2>1
  <2>3. CASE first >= regular
    <3>1. ProbeLevelCheckAt(regular, moments, t) = regular
      BY <2>3 DEF ProbeLevelCheckAt, first
    <3> QED BY <1>1, <2>2, <2>3, <3>1
  <2>4. CASE ~(first >= regular)
    <3>1. ProbeLevelCheckAt(regular, moments, t) = Maximum(close)
      BY <1>3, <2>4 DEF ProbeLevelCheckAt, first
    <3>2. close \subseteq Nat /\ first \in close /\ \A y \in close : y <= first + Coalesce
      <4>1. ahead \union {regular} \subseteq Nat
        OBVIOUS
      <4>2. first - first <= Coalesce /\ first \in ahead \union {regular}
        BY <1>1, <2>1, <2>2
      <4> HIDE DEF ahead
      <4>3. ASSUME NEW y \in ahead \union {regular}, y - first <= Coalesce PROVE y <= first + Coalesce
        BY <1>1, <2>2, <4>1, <4>3
      <4> QED BY <4>1, <4>2, <4>3
    <3> HIDE DEF close
    <3>3. Maximum(close) \in close /\ Maximum(close) >= first
      <4>1. first + Coalesce \in Nat
        BY <1>1, <2>2
      <4> QED BY <3>2, <4>1, GreatestNumber
    <3>4. Maximum(close) \in Nat /\ Maximum(close) <= first + Coalesce
      BY <3>2, <3>3
    <3> QED BY <1>1, <2>2, <3>1, <3>3, <3>4
  <2> QED BY <2>3, <2>4
<1> QED BY <1>2, <1>3

\* Another try comes later.
LEMMA RetryLater ==
  ASSUME NEW failures
  PROVE  RetryAfter(failures) \in Nat \ {0}
<1> DEFINE limit == Maximum({Failure, Retry})
           T == {limit} \union {d \in Retry .. limit : d = Retry * 2 ^ (failures - 1)}
<1>1. limit \in Nat \ {0}
  <2>1. Failure \in Nat \ {0} /\ Retry \in Nat \ {0}
    BY ProbeAssumption
  <2>2. CASE Failure >= Retry
    <3>1. limit = Failure
      BY <2>1, <2>2 DEF Maximum
    <3> QED BY <2>1, <3>1
  <2>3. CASE ~(Failure >= Retry)
    <3>1. limit = Retry
      BY <2>1, <2>3 DEF Maximum
    <3> QED BY <2>1, <3>1
  <2> QED BY <2>2, <2>3
<1>2. RetryAfter(failures) = Minimum(T)
  BY DEF RetryAfter
<1> DEFINE doubled == 2 ^ (failures - 1)
<1>3. T = {limit} \union {d \in Retry .. limit : d = Retry * doubled}
  OBVIOUS
<1> HIDE DEF doubled, limit, T
<1>4. T \subseteq Nat \ {0} /\ T # {}
  BY <1>1, <1>3, ProbeAssumption
<1>5. Minimum(T) \in T
  BY <1>4, LeastNumber
<1> QED BY <1>2, <1>4, <1>5

\* A record that is still missing reaches its next level later.
LEMMA StillMissing ==
  ASSUME NEW p \in Record, NEW t \in Nat
  PROVE  LET q == Missing(p, t) IN
         /\ q.sent = p.sent /\ q.lvl \in Levels
         /\ q.lvl = 0 => p.sent + Delay > t
         /\ q.lvl = 1 => p.sent + Failure > t
<1> DEFINE e   == Since(t, p.sent)
           reached == ProbeLevelFor(e)
           lvl == WorseProbeLevel(p.lvl, reached)
<1>1. p.lvl \in Levels /\ p.sent \in Nat
  BY DEF Record
<1>2. Delay \in Nat /\ Failure \in Nat /\ Delay < Failure
  BY ProbeAssumption
<1>3. e \in Nat /\ (e < Delay => p.sent + Delay > t) /\ (e < Failure => p.sent + Failure > t)
  BY <1>1, <1>2 DEF Since
<1> HIDE DEF e
<1>4. /\ reached \in Levels /\ (reached = 0 => e < Delay) /\ (reached # 2 => e < Failure)
  <2>1. CASE e >= Failure
    BY <1>2, <1>3, <2>1 DEF ProbeLevelFor, Levels
  <2>2. CASE e >= Delay /\ e < Failure
    BY <1>2, <1>3, <2>2 DEF ProbeLevelFor, Levels
  <2>3. CASE e < Delay
    BY <1>2, <1>3, <2>3 DEF ProbeLevelFor, Levels
  <2> QED BY <1>2, <1>3, <2>1, <2>2, <2>3
<1> HIDE DEF reached
<1>5. lvl \in Levels /\ lvl >= reached
  <2>1. CASE p.lvl >= reached
    <3>1. lvl = p.lvl
      BY <1>1, <1>4, <2>1 DEF WorseProbeLevel, Maximum, Levels
    <3> QED BY <1>1, <2>1, <3>1
  <2>2. CASE ~(p.lvl >= reached)
    <3>1. lvl = reached
      BY <1>1, <1>4, <2>2 DEF WorseProbeLevel, Maximum, Levels
    <3> QED BY <1>4, <3>1 DEF Levels
  <2> QED BY <2>1, <2>2
<1> HIDE DEF lvl
<1>6. Missing(p, t).sent = p.sent /\ Missing(p, t).lvl = lvl
  <2> DEFINE st == CASE lvl = 2 -> "failure" [] lvl = 1 -> "delayed" [] OTHER -> "pending"
  <2>1. Missing(p, t) = [p EXCEPT !.lvl = lvl, !.st = st]
    BY DEF Missing, lvl, reached, e
  <2> HIDE DEF st
  <2> QED BY <2>1 DEF Record
<1> QED BY <1>3, <1>4, <1>5, <1>6 DEF Levels

-----------------------------------------------------------------------------
(* The steps, and the next check.                                           *)

\* No mail waits that did not, or at another level, and none is a new failure.
Eases ==
  \A m \in Mails :
    /\ row'[m].st \in Waiting =>
         row[m].st \in Waiting /\ row'[m].lvl = row[m].lvl /\ row'[m].sent = row[m].sent
    /\ row'[m].st = "send_failed" => row[m].st = "send_failed"

LEMMA EasedEases ==
  ASSUME \A m \in Mails : Eased(row[m], row'[m])
  PROVE  Eases
BY DEF Eased, Eases, Waiting

LEMMA InTimeStays ==
  ASSUME Eases, last' = last
  PROVE  /\ InTime(next) /\ next' = next => InTime(next)'
         /\ InTime(job.next) /\ job'.next = job.next => InTime(job.next)'
         /\ InTime(job.next) /\ next' = job.next => InTime(next)'
         /\ StatusIn(Waiting) = {} => StatusIn(Waiting)' = {}
         /\ Looked /\ job'.pc = job.pc /\ job'.waiting = job.waiting => Looked'
<1>1. ASSUME NEW m \in StatusIn(Waiting)'
      PROVE  m \in StatusIn(Waiting) /\ row'[m].lvl = row[m].lvl /\ row'[m].sent = row[m].sent
  BY <1>1 DEF StatusIn, Eases
<1>2. InTime(next) /\ next' = next => InTime(next)'
  BY <1>1 DEF InTime, FindsAt
<1>3. InTime(job.next) /\ job'.next = job.next => InTime(job.next)'
  BY <1>1 DEF InTime, FindsAt
<1>4. InTime(job.next) /\ next' = job.next => InTime(next)'
  BY <1>1 DEF InTime, FindsAt
<1>5. Looked /\ job'.pc = job.pc /\ job'.waiting = job.waiting => Looked'
  BY DEF Looked, Eases
<1> QED BY <1>1, <1>2, <1>3, <1>4, <1>5

\* With no mail that waits every check is in time, and so is the one a send
\* schedules at its end.
LEMMA NoneWaits == StatusIn(Waiting)' = {} => InTime(next)' /\ InTime(job.next)'
BY DEF InTime

\* What neither sends, checks nor schedules: mails arrive and are resolved,
\* records are dropped, switches are turned, time passes.
LEMMA WorldDue ==
  ASSUME ProbeInv, DueInv,
         \/ \E m \in Mails : Arrive(m) \/ Resolve(m) \/ DropRecord(m)
         \/ \E b \in Boxes : SwitchMailbox(b)
         \/ Tick \/ QueueCheck \/ SkipCheck \/ SwitchProbe \/ ChangeServer \/ CloseOpen
         \/ UNCHANGED vars
  PROVE  DueInv'
<1> DEFINE Still == UNCHANGED <<job, next, last, dropped, disturbed>>
<1>1. Still /\ Eases
  <2> USE DEF Eases
  <2>1. CASE \E m \in Mails : Arrive(m)
    BY <2>1 DEF Arrive, settings, history
  <2>2. CASE \E b \in Boxes : SwitchMailbox(b)
    BY <2>2 DEF SwitchMailbox, Elsewhere
  <2>3. CASE Tick
    BY <2>3 DEF Tick, settings, history
  <2>4. CASE QueueCheck
    BY <2>4 DEF QueueCheck, settings, history
  <2>5. CASE SkipCheck
    BY <2>5 DEF SkipCheck, Outside
  <2>6. CASE SwitchProbe \/ ChangeServer
    BY <2>6 DEF SwitchProbe, ChangeServer, Elsewhere
  <2>7. CASE CloseOpen
    <3>1. row' = ClosedIn(row, closing) /\ Still
      BY <2>7 DEF CloseOpen, Elsewhere
    <3>2. \A m \in Mails : Eased(row[m], row'[m])
      BY <3>1, ClosedEased DEF ProbeInv
    <3> QED BY <3>1, <3>2, EasedEases
  <2>8. ASSUME NEW k \in Mails, Resolve(k) PROVE Still /\ Eases
    <3>1. Still /\ row[k].st \in Open /\ row' = [row EXCEPT ![k].st = "resolved"]
      BY <2>8 DEF Resolve, Elsewhere
    <3>2. row \in [Mails -> Record]
      BY DEF ProbeInv, TypeInv
    <3>3. row'[k].st = "resolved" /\ \A m \in Mails \ {k} : row'[m] = row[m]
      BY <3>1, <3>2 DEF Record
    <3> QED BY <3>1, <3>3 DEF Waiting
  <2>9. ASSUME NEW k \in Mails, DropRecord(k) PROVE Still /\ Eases
    <3>1. Still /\ row' = [row EXCEPT ![k] = NoRow]
      BY <2>9 DEF DropRecord, Elsewhere
    <3>2. row \in [Mails -> Record] /\ NoRow.st = "none"
      BY DEF ProbeInv, TypeInv, NoRow
    <3>3. row'[k].st = "none" /\ \A m \in Mails \ {k} : row'[m] = row[m]
      BY <3>1, <3>2
    <3> QED BY <3>1, <3>3 DEF Waiting
  <2>10. CASE UNCHANGED vars
    BY <2>10 DEF vars
  <2> QED BY <2>1, <2>2, <2>3, <2>4, <2>5, <2>6, <2>7, <2>8, <2>9, <2>10
<1> QED BY <1>1, InTimeStays DEF DueInv, DueTypes, SendOrCheck, Standing, Chosen, Transmits

LEMMA ClearDue ==
  ASSUME ProbeInv, DueInv, ClearProbeCheck
  PROVE  DueInv'
<1> DEFINE b == job.send \/ StatusIn(Waiting) # {} \/ dropped
<1>1. UNCHANGED <<row, job, last, disturbed>> /\ next' = 0 /\ dropped' = b
  BY DEF ClearProbeCheck
<1>2. job.send \in BOOLEAN /\ dropped \in BOOLEAN
  BY DEF ProbeInv, TypeInv, IsJob, DueInv, DueTypes
<1>3. b \in BOOLEAN
  BY <1>2
<1>4. ~b => ~job.send /\ StatusIn(Waiting) = {} /\ ~dropped
  OBVIOUS
<1> HIDE DEF b
<1>5. Eases
  BY <1>1 DEF Eases
<1>6. DueTypes' /\ SendOrCheck' /\ Looked' /\ (job.err # "none" => disturbed)'
  BY <1>1, <1>3, <1>5, InTimeStays DEF DueInv, DueTypes, SendOrCheck
<1>7. (Standing /\ ~disturbed /\ ~dropped => InTime(next))'
  BY <1>1, <1>4, <1>5, InTimeStays, NoneWaits
<1>8. (Chosen => InTime(job.next) /\ (job.next = 0 => StatusIn(Waiting) = {}))'
  BY <1>1, <1>5, InTimeStays DEF Chosen, DueInv
<1>9. (next = 0 /\ ~dropped => StatusIn(Waiting) = {} /\ ~Transmits)'
  BY <1>1, <1>4, <1>5, InTimeStays DEF Transmits, DueInv, SendOrCheck
<1> QED BY <1>6, <1>7, <1>8, <1>9 DEF DueInv

\* A send schedules its check before the first mail goes out.
LEMMA StartSendDue ==
  ASSUME ProbeInv, DueInv, StartSend
  PROVE  DueInv'
<1>1. UNCHANGED <<row, last, disturbed>> /\ job = Idle /\ now \in Nat \ {0}
  BY DEF StartSend, ProbeInv, TypeInv
<1>2. DOMAIN job = Fields /\ job.send = FALSE /\ job.err = "none" /\ job.next = 0 /\ job.pc = "idle"
  BY <1>1 DEF ProbeInv, TypeInv, IsJob, Idle
<1>3. Eases
  BY <1>1 DEF Eases
<1>4. Delay \in Nat \ {0}
  BY ProbeAssumption
<1>5. CASE \E T \in Sendings : /\ next' = now + Delay /\ dropped' = FALSE
                               /\ job' = [job EXCEPT !.send = TRUE, !.todo = T, !.pc = "send"]
  <2>1. /\ next' = now + Delay /\ dropped' = FALSE
        /\ job'.send = TRUE /\ job'.pc = "send" /\ job'.err = "none" /\ job'.next = 0
    BY <1>2, <1>5 DEF Fields
  <2>2. next' \in Nat \ {0}
    BY <1>1, <1>4, <2>1
  <2>31. last \in Nat /\ disturbed \in BOOLEAN
    BY DEF DueInv, DueTypes
  <2>32. last' \in Nat /\ disturbed' \in BOOLEAN
    BY <1>1, <2>31
  <2>33. next' \in Nat
    BY <2>2
  <2>34. dropped' \in BOOLEAN
    BY <2>1
  <2>35. job'.next \in Nat
    BY <2>1
  <2>3. DueTypes'
    BY <2>32, <2>33, <2>34, <2>35 DEF DueTypes
  <2>4. SendOrCheck' /\ Looked' /\ ~Standing' /\ ~Chosen'
    BY <2>1 DEF SendOrCheck, Looked, Standing, Chosen, Transmits
  <2>5. next' # 0 /\ job'.err = "none"
    BY <2>1, <2>2
  <2> QED BY <2>3, <2>4, <2>5 DEF DueInv
<1>6. CASE next' = next /\ dropped' = dropped /\ job' = [job EXCEPT !.send = TRUE, !.pc = "close"]
  <2>1. job'.send = TRUE /\ job'.pc = "close" /\ job'.err = "none" /\ job'.next = 0
    BY <1>2, <1>6 DEF Fields
  <2> QED BY <1>1, <1>2, <1>3, <1>6, <2>1, InTimeStays DEF DueInv, DueTypes, SendOrCheck, Looked, Standing, Chosen, Transmits
<1> QED BY <1>5, <1>6 DEF StartSend

\* While mails go out the check stays scheduled.
LEMMA SendingDue ==
  ASSUME ProbeInv, DueInv, Transmit \/ InsertProbeMail \/ \E k \in Mails : TakeMail(k)
  PROVE  DueInv'
<1>0. DOMAIN job = Fields
  BY DEF ProbeInv, TypeInv, IsJob
<1>1. /\ UNCHANGED <<last, next, dropped, disturbed>>
      /\ job.pc \in {"send", "smtp", "insert"} /\ job'.pc \in {"send", "smtp", "insert"}
      /\ job'.send = job.send /\ job'.err = job.err /\ job'.next = job.next
  <2>1. CASE Transmit
    <3>1. PICK r : job' = [job EXCEPT !.refused = r, !.t = now, !.pc = "insert"]
      BY <2>1 DEF Transmit
    <3> QED BY <1>0, <2>1, <3>1 DEF Transmit, Outside, Unmailed, Fields
  <2>2. CASE InsertProbeMail
    BY <1>0, <2>2 DEF InsertProbeMail, Outside, Unmailed, Fields
  <2>3. ASSUME NEW k \in Mails, TakeMail(k)
        PROVE  /\ UNCHANGED <<last, next, dropped, disturbed>>
               /\ job.pc = "send" /\ job'.pc \in {"send", "smtp"}
               /\ job'.send = job.send /\ job'.err = job.err /\ job'.next = job.next
    BY <1>0, <2>3 DEF TakeMail, Outside, Unmailed, Fields
  <2> QED BY <2>1, <2>2, <2>3
<1>2. job.send
  BY <1>1 DEF DueInv, SendOrCheck
<1> QED BY <1>1, <1>2 DEF DueInv, DueTypes, SendOrCheck, Looked, Standing, Chosen, Transmits

\* The end of the sending schedules the check anew, or is on record as failed.
LEMMA EndSendDue ==
  ASSUME ProbeInv, DueInv, CancelSend \/ FinishSend
  PROVE  DueInv'
<1>0. DOMAIN job = Fields /\ now \in Nat \ {0} /\ Delay \in Nat \ {0} /\ Coalesce \in Nat
  BY ProbeAssumption DEF ProbeInv, TypeInv, IsJob
<1>1. /\ row' = row /\ job.pc = "send" /\ job'.pc = "close" /\ job.send /\ job'.send = job.send
      /\ job'.next = job.next /\ (job'.err = job.err \/ disturbed' = TRUE)
  BY <1>0 DEF CancelSend, FinishSend, Fields, DueInv, SendOrCheck
<1>2. \/ UNCHANGED <<last, next, dropped>> /\ disturbed' = TRUE
      \/ last' = now /\ next' = now + Delay /\ dropped' = FALSE /\ disturbed' = disturbed
  BY DEF CancelSend, FinishSend
<1>3. CASE UNCHANGED <<last, next, dropped>> /\ disturbed' = TRUE
  BY <1>1, <1>3 DEF DueInv, DueTypes, SendOrCheck, Looked, Standing, Chosen, Transmits
<1>4. CASE last' = now /\ next' = now + Delay /\ dropped' = FALSE /\ disturbed' = disturbed
  <2>1. next' \in Nat \ {0} /\ next' <= last' + Delay
    BY <1>0, <1>4
  <2>2. InTime(next)'
    BY <2>1 DEF InTime, FindsAt
  <2> QED BY <1>0, <1>1, <1>4, <2>1, <2>2 DEF DueInv, DueTypes, SendOrCheck, Looked, Standing, Chosen, Transmits
<1> QED BY <1>2, <1>3, <1>4

LEMMA CloseStaleDue ==
  ASSUME ProbeInv, DueInv, CloseStale
  PROVE  DueInv'
<1>0. DOMAIN job = Fields
  BY DEF ProbeInv, TypeInv, IsJob
<1>1. /\ UNCHANGED <<last, next, dropped, disturbed>> /\ job.pc = "close" /\ job'.pc = "alerts"
      /\ job'.send = job.send /\ job'.err = job.err /\ job'.next = job.next
  BY <1>0 DEF CloseStale, Outside, Unmailed, Fields
<1>2. Eases
  <2>1. PICK B : row' = ClosedIn(row, B)
    BY DEF CloseStale, WithoutStale
  <2>2. \A m \in Mails : Eased(row[m], row'[m])
    BY <2>1, ClosedEased DEF ProbeInv
  <2> QED BY <2>2, EasedEases
<1>3. job.send
  BY <1>1 DEF DueInv, SendOrCheck
<1> QED BY <1>1, <1>2, <1>3, InTimeStays DEF DueInv, DueTypes, SendOrCheck, Looked, Standing, Chosen, Transmits

\* The process dies: that disturbs.
LEMMA CrashDue ==
  ASSUME ProbeInv, DueInv, Crash
  PROVE  DueInv'
<1>1. /\ UNCHANGED <<row, last, next, dropped>> /\ disturbed' = TRUE
      /\ job' = Idle /\ Idle.pc = "idle" /\ Idle.err = "none" /\ Idle.next = 0 /\ Idle.send = FALSE
  BY DEF Crash, settings, Idle
<1>2. Eases
  BY <1>1 DEF Eases
<1> QED BY <1>1, <1>2, InTimeStays DEF DueInv, DueTypes, SendOrCheck, Looked, Standing, Chosen, Transmits

\* The check starts: it looks for what waits, and skips when nothing is open.
LEMMA StartCheckDue ==
  ASSUME ProbeInv, DueInv, NEW byHand \in BOOLEAN, StartCheck(byHand)
  PROVE  DueInv'
<1> DEFINE some == \E m \in Mails : row'[m].st \in Open
           W    == {m \in Mails : row'[m].st \in Waiting}
           pc   == IF some THEN "list" ELSE "alerts"
           not  == ~some
           s    == Seen
<1>1. /\ UNCHANGED <<last, next, dropped, disturbed>> /\ job = Idle
      /\ job' = [job EXCEPT !.pc = pc, !.skipped = not, !.seen = s, !.t = now, !.waiting = W]
  BY DEF StartCheck, ProbeInv, TypeInv
<1>2. DOMAIN job = Fields /\ job.send = FALSE /\ job.err = "none" /\ job.next = 0 /\ job.pc = "idle"
  BY <1>1 DEF ProbeInv, TypeInv, IsJob, Idle
<1>3. Eases
  <2>1. PICK B : row' = ClosedIn(row, B)
    BY DEF StartCheck, WithoutStale
  <2>2. \A m \in Mails : Eased(row[m], row'[m])
    BY <2>1, ClosedEased DEF ProbeInv
  <2> QED BY <2>2, EasedEases
<1>4. /\ pc \in {"list", "alerts"} /\ (pc = "alerts" => StatusIn(Waiting)' = {})
      /\ W \subseteq {m \in Mails : row'[m].st # "send_failed"}
  BY DEF StatusIn, Open, Waiting
<1> HIDE DEF some, W, pc, not, s
<1>5. /\ job'.pc = pc /\ job'.send = FALSE /\ job'.err = "none" /\ job'.next = 0 /\ job'.waiting = W
  BY <1>1, <1>2 DEF Fields
<1>6. Looked' /\ SendOrCheck' /\ ~Standing' /\ ~Transmits'
  BY <1>4, <1>5 DEF Looked, SendOrCheck, Standing, Transmits
<1>7. (Chosen => InTime(job.next) /\ (job.next = 0 => StatusIn(Waiting) = {}))'
  BY <1>4, <1>5, NoneWaits DEF Chosen
<1>8. DueTypes'
  <2>1. job'.next \in Nat
    BY <1>5
  <2> QED BY <1>1, <2>1 DEF DueTypes, DueInv
<1>9. (next = 0 /\ ~dropped => StatusIn(Waiting) = {})'
  BY <1>1, <1>3, InTimeStays DEF DueInv
<1> QED BY <1>5, <1>6, <1>7, <1>8, <1>9 DEF DueInv

\* The folder is listed; whatever fails disturbs.
LEMMA ListFolderDue ==
  ASSUME ProbeInv, DueInv, ListFolder
  PROVE  DueInv'
<1>1. /\ UNCHANGED <<row, last, next, dropped>>
      /\ job.pc = "list" /\ DOMAIN job = Fields /\ ~job.send
  BY DEF ListFolder, ProbeInv, TypeInv, IsJob, DueInv, SendOrCheck
<1> DEFINE F == {m \in Mails : post[m] \in {"in", "other"}}
<1>2. \/ job' = [job EXCEPT !.pc = "record", !.found = F] /\ disturbed' = disturbed
      \/ \E e \in {"server", "canceled"} : job' = [job EXCEPT !.pc = "alerts", !.err = e] /\ disturbed' = TRUE
  BY DEF ListFolder
<1> HIDE DEF F
<1>3. Eases
  BY <1>1 DEF Eases
<1>4. CASE job' = [job EXCEPT !.pc = "record", !.found = F] /\ disturbed' = disturbed
  <2>1. /\ job'.pc = "record" /\ job'.send = job.send /\ job'.err = job.err /\ job'.next = job.next
        /\ job'.waiting = job.waiting
    BY <1>1, <1>4 DEF Fields
  <2>2. Looked'
    BY <1>1, <2>1 DEF DueInv, Looked
  <2> QED BY <1>1, <1>3, <1>4, <2>1, <2>2, InTimeStays DEF DueInv, DueTypes, SendOrCheck, Standing, Chosen, Transmits
<1>5. ASSUME NEW e \in {"server", "canceled"}, job' = [job EXCEPT !.pc = "alerts", !.err = e], disturbed' = TRUE
      PROVE  DueInv'
  <2>1. job'.pc = "alerts" /\ job'.send = job.send /\ job'.err # "none" /\ job'.next = job.next
    BY <1>1, <1>5 DEF Fields
  <2> QED BY <1>1, <1>3, <1>5, <2>1, InTimeStays DEF DueInv, DueTypes, SendOrCheck, Looked, Standing, Chosen, Transmits
<1> QED BY <1>2, <1>4, <1>5

\* What still waits after the judgement is missing, and was looked for.
LEMMA StillWaits ==
  ASSUME ProbeInv, DueInv, job.pc = "record", NEW m \in Mails,
         row'[m] = CASE m \in {k \in job.waiting : Updatable(k) /\ k \notin Verified(job.found)} -> Missing(row[m], now)
                     [] /\ m \in Verified(job.found) /\ Updatable(m)
                        /\ m \in job.waiting \/ row[m].st = "send_failed" -> Arrived(row[m], at[m])
                     [] OTHER -> row[m],
         row'[m].st \in Waiting
  PROVE  /\ m \in job.waiting /\ Updatable(m) /\ m \notin Verified(job.found)
         /\ row'[m] = Missing(row[m], now) /\ row[m].st \in Waiting
<1> DEFINE here == m \in Verified(job.found)
           left == m \in {k \in job.waiting : Updatable(k) /\ k \notin Verified(job.found)}
<1>1. /\ row[m] \in Record /\ at[m] \in Nat /\ (row[m].st \in Waiting => m \in job.waiting)
      /\ m \in job.waiting => row[m].st # "send_failed"
  BY DEF ProbeInv, TypeInv, Judged, DueInv, Looked
<1>2. Updatable(m) = (row[m].st \in Open) /\ (left <=> m \in job.waiting /\ Updatable(m) /\ ~here)
  BY DEF Updatable
<1>3. Arrived(row[m], at[m]).st \notin Waiting
  <2>1. Arrived(row[m], at[m]).st \in {"arrived", "recovered"}
    BY <1>1, ArrivedRecord
  <2> QED BY <2>1 DEF Waiting
<1> HIDE DEF here, left
<1>4. row'[m] = CASE left -> Missing(row[m], now)
                  [] here /\ Updatable(m) /\ (m \in job.waiting \/ row[m].st = "send_failed") -> Arrived(row[m], at[m])
                  [] OTHER -> row[m]
  BY DEF here, left
<1>5. CASE left
  BY <1>1, <1>2, <1>4, <1>5 DEF Open, here
<1>6. CASE ~left /\ here /\ Updatable(m) /\ (m \in job.waiting \/ row[m].st = "send_failed")
  BY <1>3, <1>4, <1>6
<1>7. CASE ~left /\ ~(here /\ Updatable(m) /\ (m \in job.waiting \/ row[m].st = "send_failed"))
  BY <1>1, <1>2, <1>4, <1>7 DEF Open
<1> QED BY <1>5, <1>6, <1>7

\* The judgement chooses a check that finds every mail still missing in time.
LEMMA RecordDue ==
  ASSUME ProbeInv, DueInv, RecordArrivals
  PROVE  DueInv'
<1>1. /\ UNCHANGED <<last, next, dropped>> /\ now \in Nat /\ last \in Nat
      /\ job.pc = "record" /\ DOMAIN job = Fields /\ ~job.send
  BY DEF RecordArrivals, ProbeInv, TypeInv, IsJob, DueInv, SendOrCheck, DueTypes
<1> DEFINE left    == {m \in job.waiting : Updatable(m) /\ m \notin Verified(job.found)}
           moments == {row[m].sent + Delay   : m \in {k \in left : Missing(row[k], now).lvl = 0}}
                      \union {row[m].sent + Failure : m \in {k \in left : Missing(row[k], now).lvl = 1}}
           n       == IF left = {} THEN 0 ELSE ProbeLevelCheckAt(NextProbeCheckAt(last, now), moments, now)
           d       == Verified(job.found) \union Unrecorded(job.found)
<1>2. CASE job' = [job EXCEPT !.pc = "alerts", !.t = now, !.err = "database"] /\ row' = row /\ disturbed' = TRUE
  <2>1. job'.pc = "alerts" /\ job'.send = job.send /\ job'.err # "none" /\ job'.next = job.next
    BY <1>1, <1>2 DEF Fields
  <2>2. Eases
    BY <1>2 DEF Eases
  <2> QED BY <1>1, <1>2, <2>1, <2>2, InTimeStays DEF DueInv, DueTypes, SendOrCheck, Looked, Standing, Chosen, Transmits
<1>3. CASE /\ job' = [job EXCEPT !.pc = "delete", !.t = now, !.del = d, !.next = n]
           /\ disturbed' = disturbed
           /\ row' = [m \in Mails |->
                        CASE m \in left -> Missing(row[m], now)
                          [] m \in Verified(job.found) /\ Updatable(m) /\ (m \in job.waiting \/ row[m].st = "send_failed")
                               -> Arrived(row[m], at[m])
                          [] OTHER -> row[m]]
  <2>1. ASSUME NEW m \in Mails, row'[m].st \in Waiting
        PROVE  m \in left /\ row'[m] = Missing(row[m], now) /\ row[m].st \in Waiting /\ row[m] \in Record
    <3>1. row'[m] = CASE m \in left -> Missing(row[m], now)
                      [] m \in Verified(job.found) /\ Updatable(m) /\ (m \in job.waiting \/ row[m].st = "send_failed")
                           -> Arrived(row[m], at[m])
                      [] OTHER -> row[m]
      BY <1>3
    <3>2. /\ m \in job.waiting /\ Updatable(m) /\ m \notin Verified(job.found)
          /\ row'[m] = Missing(row[m], now) /\ row[m].st \in Waiting
      BY <1>1, <2>1, <3>1, StillWaits
    <3> QED BY <3>2 DEF ProbeInv, TypeInv
  <2>2. left \subseteq Mails /\ \A m \in left : row[m] \in Record
    BY <1>1 DEF DueInv, Looked, ProbeInv, TypeInv
  <2>3. moments \subseteq Nat
    <3>1. Delay \in Nat /\ Failure \in Nat /\ \A m \in left : row[m].sent \in Nat
      BY <2>2, ProbeAssumption DEF Record
    <3> HIDE DEF left
    <3> QED BY <3>1
  <2>4. ASSUME NEW m \in left, NEW l \in {0, 1}, Missing(row[m], now).lvl = l
        PROVE  row[m].sent + (IF l = 0 THEN Delay ELSE Failure) \in moments
    <3> HIDE DEF left
    <3>1. CASE l = 0
      BY <2>4, <3>1
    <3>2. CASE l = 1
      BY <2>4, <3>2
    <3> QED BY <3>1, <3>2
  <2> HIDE DEF moments
  <2>5. n \in Nat /\ (n = 0 => left = {}) /\ (left # {} => \A x \in moments : x > now => n <= x + Coalesce)
    <3> DEFINE regular == NextProbeCheckAt(last, now)
    <3>1. regular \in Nat \ {0}
      BY <1>1, RegularCheck
    <3> HIDE DEF left, regular
    <3>2. /\ ProbeLevelCheckAt(regular, moments, now) \in Nat \ {0}
          /\ \A x \in moments : x > now => ProbeLevelCheckAt(regular, moments, now) <= x + Coalesce
      BY <1>1, <2>3, <3>1, LevelCheck
    <3>3. n = IF left = {} THEN 0 ELSE ProbeLevelCheckAt(regular, moments, now)
      BY DEF regular
    <3> QED BY <3>2, <3>3
  <2> HIDE DEF n, d
  <2>6. /\ job'.pc = "delete" /\ job'.send = job.send /\ job'.err = job.err /\ job'.next = n
    BY <1>1, <1>3 DEF Fields
  <2>7. StatusIn(Waiting)' \subseteq StatusIn(Waiting) /\ (left = {} => StatusIn(Waiting)' = {})
    BY <2>1 DEF StatusIn
  <2>8. ASSUME NEW m \in StatusIn(Waiting)', row'[m].lvl # 2
        PROVE  FindsAt(job.next, m)'
    <3>1. m \in left /\ row'[m] = Missing(row[m], now) /\ row[m] \in Record
      BY <2>1, <2>8 DEF StatusIn
    <3> DEFINE l == row'[m].lvl
               x == row[m].sent + IF l = 0 THEN Delay ELSE Failure
    <3>2. /\ row'[m].sent = row[m].sent /\ l \in {0, 1}
          /\ l = 0 => row[m].sent + Delay > now
          /\ l = 1 => row[m].sent + Failure > now
      BY <1>1, <2>8, <3>1, StillMissing DEF Levels
    <3>3. x \in moments /\ x > now
      <4> HIDE DEF left
      <4> QED BY <2>4, <3>1, <3>2
    <3>4. n <= x + Coalesce
      <4> HIDE DEF x
      <4> QED BY <2>5, <3>1, <3>3
    <3> QED BY <2>6, <3>2, <3>4 DEF FindsAt
  <2>9. InTime(job.next)'
    BY <2>8 DEF InTime
  <2> HIDE DEF left
  <2>10. Chosen' => (InTime(job.next) /\ (job.next = 0 => StatusIn(Waiting) = {}))'
    BY <2>5, <2>6, <2>7, <2>9
  <2>11. DueTypes'
    BY <1>1, <1>3, <2>5, <2>6 DEF DueInv, DueTypes
  <2> QED BY <1>1, <1>3, <2>6, <2>7, <2>10, <2>11 DEF DueInv, SendOrCheck, Looked, Standing, Transmits
<1> QED BY <1>2, <1>3 DEF RecordArrivals

LateSteps == {"alerts", "mail", "told", "report", "finish"}
Proceeds(j) ==
  \/ j = Idle /\ job.send
  \/ /\ j.pc \in LateSteps \/ j.pc = job.pc
     /\ j.send = job.send /\ j.err = job.err /\ j.next = job.next

\* From the judgement on a job only goes on to its end.
LEMMA GoesOn ==
  ASSUME DueInv, Eases, UNCHANGED <<last, next, dropped, disturbed>>,
         job.pc \in LateSteps \union {"delete"}, Proceeds(job')
  PROVE  DueInv'
<1>1. CASE job' = Idle /\ job.send
  <2>1. job'.pc = "idle" /\ job'.err = "none" /\ job'.next = 0 /\ job'.send = FALSE
    BY <1>1 DEF Idle
  <2>2. job'.next \in Nat
    BY <2>1
  <2> QED BY <1>1, <2>1, <2>2, InTimeStays DEF LateSteps, DueInv, DueTypes, SendOrCheck, Looked, Standing, Chosen, Transmits
<1>2. CASE /\ job'.pc \in LateSteps \/ job'.pc = job.pc
           /\ job'.send = job.send /\ job'.err = job.err /\ job'.next = job.next
  BY <1>2, InTimeStays DEF LateSteps, DueInv, DueTypes, SendOrCheck, Looked, Standing, Chosen, Transmits
<1> QED BY <1>1, <1>2 DEF Proceeds

LEMMA DoneProceeds ==
  ASSUME DOMAIN job = Fields
  PROVE  Proceeds(Done)
<1>1. CASE job.send
  BY <1>1 DEF Done, Proceeds
<1>2. CASE ~job.send
  <2>1. Done = [job EXCEPT !.pc = "report", !.delays = {}, !.failures = {}]
    BY <1>2 DEF Done
  <2>2. Done.pc = "report" /\ Done.send = job.send /\ Done.err = job.err /\ Done.next = job.next
    BY <2>1 DEF Fields
  <2> QED BY <2>2 DEF Proceeds, LateSteps
<1> QED BY <1>1, <1>2

LEMMA JobProceeds ==
  ASSUME DOMAIN job = Fields, NEW pc \in LateSteps
  PROVE  /\ \A x : Proceeds([job EXCEPT !.pc = pc]) /\ Proceeds([job EXCEPT !.notified = x])
         /\ \A D, F : /\ Proceeds([job EXCEPT !.pc = pc, !.delays = D, !.failures = F])
                      /\ Proceeds([job EXCEPT !.pc = pc, !.found = D, !.gone = F])
                      /\ Proceeds([job EXCEPT !.del = D, !.gone = F]) /\ Proceeds([job EXCEPT !.del = D])
BY DEF Proceeds, Fields

\* A mail is deleted on the server, or marked.
LEMMA DeleteDue ==
  ASSUME ProbeInv, DueInv, MarkDeleted \/ \E k \in Mails : DeleteMail(k)
  PROVE  DueInv'
<1>0. DOMAIN job = Fields /\ row \in [Mails -> Record] /\ "alerts" \in LateSteps
  BY DEF ProbeInv, TypeInv, IsJob, LateSteps
<1>1. UNCHANGED <<last, next, dropped, disturbed>> /\ job.pc = "delete"
  BY DEF DeleteMail, MarkDeleted
<1>2. Proceeds(job')
  <2>1. CASE MarkDeleted
    BY <1>0, <2>1, JobProceeds DEF MarkDeleted
  <2>2. ASSUME NEW k \in Mails, DeleteMail(k) PROVE Proceeds(job')
    <3> DEFINE D == job.del \ {k}
               F == job.gone \union {k}
    <3>1. \/ job' = [job EXCEPT !.del = D, !.gone = F]
          \/ job' = [job EXCEPT !.del = {}]
      BY <1>0, <2>2 DEF DeleteMail, Fields
    <3> HIDE DEF D, F
    <3>2. Proceeds([job EXCEPT !.del = D, !.gone = F]) /\ Proceeds([job EXCEPT !.del = {}])
      BY <1>0, JobProceeds
    <3> QED BY <3>1, <3>2
  <2> QED BY <2>1, <2>2
<1>3. ASSUME NEW m \in Mails
      PROVE  row'[m].st = row[m].st /\ row'[m].lvl = row[m].lvl /\ row'[m].sent = row[m].sent
  <2>1. row'[m] = row[m] \/ row'[m] = [row[m] EXCEPT !.gone = TRUE]
    BY DEF DeleteMail, MarkDeleted
  <2> QED BY <1>0, <2>1 DEF Record
<1> QED BY <1>1, <1>2, <1>3, GoesOn DEF Eases

\* The alerts are listed, mailed and marked.
LEMMA AlertsDue ==
  ASSUME ProbeInv, DueInv, ListAlerts \/ MailAlerts \/ MarkNotified \/ MailUnreadable
  PROVE  DueInv'
<1>0. DOMAIN job = Fields /\ row \in [Mails -> Record] /\ {"mail", "told", "finish"} \subseteq LateSteps
  BY DEF ProbeInv, TypeInv, IsJob, LateSteps
<1>1. UNCHANGED <<last, next, dropped, disturbed>> /\ job.pc \in LateSteps
  BY DEF ListAlerts, MailAlerts, MarkNotified, MailUnreadable, Outside, LateSteps
<1>2. Proceeds(job')
  <2>1. CASE ListAlerts
    BY <1>0, <2>1, JobProceeds, DoneProceeds DEF ListAlerts
  <2>2. CASE MailAlerts
    BY <1>0, <2>2, JobProceeds, DoneProceeds DEF MailAlerts
  <2>3. CASE MarkNotified
    BY <1>0, <2>3, DoneProceeds DEF MarkNotified
  <2>4. CASE MailUnreadable
    BY <1>0, <2>4, JobProceeds DEF MailUnreadable
  <2> QED BY <2>1, <2>2, <2>3, <2>4
<1>3. ASSUME NEW m \in Mails
      PROVE  row'[m].st = row[m].st /\ row'[m].lvl = row[m].lvl /\ row'[m].sent = row[m].sent
  <2> DEFINE x == row[m].mailed \/ m \in job.failures
             y == row[m].told \/ m \in job.delays \union job.failures
  <2>1. row'[m] = row[m] \/ row'[m] = [row[m] EXCEPT !.mailed = x, !.told = y]
    <3>1. CASE ListAlerts \/ MailAlerts \/ MailUnreadable
      BY <3>1 DEF ListAlerts, MailAlerts, MailUnreadable
    <3>2. CASE MarkNotified
      BY <1>0, <3>2 DEF MarkNotified, Notified, Record
    <3> QED BY <3>1, <3>2
  <2> HIDE DEF x, y
  <2> QED BY <1>0, <2>1 DEF Record
<1> QED BY <1>1, <1>2, <1>3, GoesOn DEF Eases

\* The check ends: the next one is the one it chose, or another try; a check
\* that failed, or is not recorded, leaves the disturbance on record.
LEMMA RecordCheckDue ==
  ASSUME ProbeInv, DueInv, RecordCheck
  PROVE  DueInv'
<1>1. /\ UNCHANGED <<row, last>> /\ job' = Idle
      /\ job.pc \in {"report", "finish"} /\ ~job.send
      /\ job.err \in {"none", "server", "canceled", "database"} /\ job.t \in Nat
  BY DEF RecordCheck, ProbeInv, Unreads, TypeInv, IsJob
<1>2. job'.pc = "idle" /\ job'.err = "none" /\ job'.next = 0 /\ job'.send = FALSE
  BY <1>1 DEF Idle
<1>3. Eases
  BY <1>1 DEF Eases
<1>4. job'.next \in Nat /\ SendOrCheck' /\ Looked' /\ ~Transmits' /\ ~Chosen'
  BY <1>2 DEF SendOrCheck, Looked, Transmits, Chosen
<1>5. CASE UNCHANGED <<next, dropped>> /\ disturbed' = TRUE
  BY <1>1, <1>2, <1>3, <1>4, <1>5, InTimeStays DEF DueInv, DueTypes
<1>6. CASE /\ next' = CASE job.err = "none"   -> job.next
                        [] job.err = "server" -> job.t + RetryAfter(job.seen.run.n + 1)
                        [] OTHER -> job.t + Retry
           /\ disturbed' = (disturbed /\ (job.err # "none" \/ job.skipped)) /\ dropped' = FALSE
  <2> DEFINE b == disturbed /\ (job.err # "none" \/ job.skipped)
  <2>1. disturbed' = b /\ b \in BOOLEAN
    BY <1>6
  <2>2. job.err # "none" => b
    BY DEF DueInv
  <2> HIDE DEF b
  <2>3. CASE job.err = "none"
    <3>1. next' = job.next
      BY <1>6, <2>3
    <3>2. Chosen
      BY <1>1, <2>3 DEF Chosen
    <3>3. next' \in Nat /\ last' \in Nat
      BY <1>1, <3>1 DEF DueInv, DueTypes
    <3>4. InTime(next)' /\ (next' = 0 => StatusIn(Waiting)' = {})
      BY <1>1, <1>3, <3>1, <3>2, InTimeStays DEF DueInv
    <3> QED BY <1>2, <1>4, <1>6, <2>1, <3>3, <3>4 DEF DueInv, DueTypes
  <2>4. CASE job.err # "none"
    <3> DEFINE r == RetryAfter(job.seen.run.n + 1)
    <3>1. r \in Nat \ {0} /\ Retry \in Nat \ {0}
      BY RetryLater, ProbeAssumption
    <3> HIDE DEF r
    <3>2. next' = job.t + r \/ next' = job.t + Retry
      BY <1>1, <1>6, <2>4 DEF r
    <3>3. next' \in Nat \ {0}
      BY <1>1, <3>1, <3>2
    <3>4. last' \in Nat
      BY <1>1 DEF DueInv, DueTypes
    <3> QED BY <1>2, <1>4, <1>6, <2>1, <2>2, <2>4, <3>3, <3>4 DEF DueInv, DueTypes
  <2> QED BY <2>3, <2>4
<1> QED BY <1>5, <1>6 DEF RecordCheck

LEMMA DueStarts == Init => DueInv
<1> SUFFICES ASSUME Init PROVE DueInv
  OBVIOUS
<1>1. /\ job.pc = "idle" /\ job.err = "none" /\ job.next = 0 /\ job.send = FALSE
      /\ last = 0 /\ next = 0 /\ dropped = FALSE /\ disturbed = FALSE
  BY DEF Init, Idle
<1>2. StatusIn(Waiting) = {}
  BY DEF Init, NoRow, StatusIn, Waiting
<1>3. InTime(next)
  BY <1>2 DEF InTime
<1>4. last \in Nat /\ next \in Nat /\ job.next \in Nat
  BY <1>1
<1>5. dropped \in BOOLEAN /\ disturbed \in BOOLEAN
  BY <1>1
<1>6. SendOrCheck /\ Looked /\ ~Transmits /\ ~Chosen
  BY <1>1 DEF SendOrCheck, Looked, Transmits, Chosen
<1> QED BY <1>1, <1>2, <1>3, <1>4, <1>5, <1>6 DEF DueInv, DueTypes

LEMMA DueSteps == ProbeInv /\ DueInv /\ [Next]_vars => DueInv'
<1> SUFFICES ASSUME ProbeInv, DueInv, [Next]_vars PROVE DueInv'
  OBVIOUS
<1>1. CASE \/ \E m \in Mails : Arrive(m) \/ Resolve(m) \/ DropRecord(m)
           \/ \E b \in Boxes : SwitchMailbox(b)
           \/ Tick \/ QueueCheck \/ SkipCheck \/ SwitchProbe \/ ChangeServer \/ CloseOpen
           \/ UNCHANGED vars
  BY <1>1, WorldDue
<1>2. CASE ClearProbeCheck \/ StartSend \/ CancelSend \/ FinishSend \/ CloseStale \/ Crash
  BY <1>2, ClearDue, StartSendDue, EndSendDue, CloseStaleDue, CrashDue
<1>3. CASE Transmit \/ InsertProbeMail \/ \E m \in Mails : TakeMail(m)
  BY <1>3, SendingDue
<1>4. CASE \E byHand \in BOOLEAN : StartCheck(byHand)
  BY <1>4, StartCheckDue
<1>5. CASE ListFolder \/ RecordArrivals \/ RecordCheck
  BY <1>5, ListFolderDue, RecordDue, RecordCheckDue
<1>6. CASE MarkDeleted \/ \E m \in Mails : DeleteMail(m)
  BY <1>6, DeleteDue
<1>7. CASE ListAlerts \/ MailAlerts \/ MarkNotified \/ MailUnreadable
  BY <1>7, AlertsDue
<1> QED BY <1>1, <1>2, <1>3, <1>4, <1>5, <1>6, <1>7 DEF Next

\* Of two numbers the greatest is at least each of them.
LEMMA GreaterOfTwo ==
  ASSUME NEW a \in Nat, NEW b \in Nat
  PROVE  Maximum({a, b}) \in Nat /\ Maximum({a, b}) >= a /\ Maximum({a, b}) >= b
<1>1. CASE a >= b
  <2>1. Maximum({a, b}) = a
    BY <1>1 DEF Maximum
  <2> QED BY <1>1, <2>1
<1>2. CASE ~(a >= b)
  <2>1. Maximum({a, b}) = b
    BY <1>2 DEF Maximum
  <2> QED BY <1>2, <2>1
<1> QED BY <1>1, <1>2

LEMMA DueOnTime ==
  ASSUME ProbeInv, DueInv
  PROVE  OnTime
<1>1. CheckPending
  BY DEF CheckPending, DueInv
<1>2. ASSUME Settled, NEW m \in StatusIn(Waiting)
      PROVE  /\ Overdue(m, Delay) => row[m].lvl >= 1
             /\ Overdue(m, Failure) => row[m].lvl = 2
  <2>1. /\ Delay \in Nat /\ Failure \in Nat /\ Coalesce \in Nat /\ Delay < Failure
        /\ now \in Nat /\ last \in Nat /\ next \in Nat
        /\ row[m].lvl \in {0, 1, 2} /\ row[m].sent \in Nat
    BY ProbeAssumption DEF ProbeInv, TypeInv, Record, Levels, StatusIn, DueInv, DueTypes
  <2>2. next > now
    BY <1>1, <1>2, <2>1 DEF Settled, CheckDue, CheckPending
  <2>3. row[m].lvl # 2 => FindsAt(next, m)
    BY <1>2 DEF Settled, DueInv, Standing, InTime
  <2>4. ASSUME NEW limit \in Nat, Overdue(m, limit)
        PROVE  now >= row[m].sent + limit + Coalesce /\ now >= last + Delay
    <3> DEFINE a == row[m].sent + limit + Coalesce
               b == last + Delay
    <3>1. a \in Nat /\ b \in Nat
      BY <2>1
    <3>2. now >= Maximum({a, b})
      BY <2>4 DEF Overdue
    <3> HIDE DEF a, b
    <3>3. now >= a /\ now >= b
      BY <2>1, <3>1, <3>2, GreaterOfTwo
    <3> QED BY <3>3 DEF a, b
  <2>5. Overdue(m, Delay) => row[m].lvl # 0
    BY <2>1, <2>2, <2>3, <2>4 DEF FindsAt
  <2>6. Overdue(m, Failure) => row[m].lvl = 2
    <3> SUFFICES ASSUME Overdue(m, Failure), row[m].lvl # 2 PROVE FALSE
      OBVIOUS
    <3>1. now >= row[m].sent + Failure + Coalesce /\ now >= last + Delay
      BY <2>1, <2>4
    <3> QED BY <2>1, <2>2, <2>3, <3>1 DEF FindsAt
  <2> QED BY <2>1, <2>5, <2>6
<1> QED BY <1>1, <1>2 DEF OnTime

-----------------------------------------------------------------------------
(* The theorems.                                                            *)

LEMMA ProbeStarts == Init => ProbeInv
<1> SUFFICES ASSUME Init PROVE ProbeInv
  OBVIOUS
<1>1. /\ IsJob(Idle) /\ Idle.pc = "idle" /\ Idle.todo = {} /\ Idle.cur = {} /\ ~Idle.notified
      /\ NoRow \in Record /\ NoRow.lvl \in LevelsOf(NoRow.st) /\ NoRow.st = "none"
      /\ NoRun \in Run /\ NoRun.n = 0
  <2>1. /\ IsJob(Idle) /\ Idle.pc = "idle" /\ Idle.todo = {} /\ Idle.cur = {} /\ ~Idle.notified
    BY DEF Idle, IsJob, Fields, Pcs, Run, NoRun
  <2>2. NoRow \in Record /\ NoRow.lvl = 0 /\ NoRow.st = "none"
    BY DEF NoRow, Record, Levels
  <2>3. NoRow.lvl \in LevelsOf(NoRow.st)
    BY <2>2 DEF LevelsOf
  <2> QED BY <2>1, <2>2, <2>3 DEF NoRun, Run
<1>2. TypeInv
  BY <1>1 DEF Init, TypeInv, Posts
<1>3. Unreads /\ RunOfSettings /\ again \subseteq slips
  BY <1>1 DEF Init, Unreads, RunOfSettings
<1>4. ASSUME NEW m \in Mails PROVE Sending(m) /\ Judged(m) /\ Alerted(m)
  BY <1>1 DEF Init, Sending, Judged, Alerted, Open, Waiting
<1> QED BY <1>2, <1>3, <1>4 DEF ProbeInv

LEMMA ProbeSteps == ProbeInv /\ [Next]_vars => ProbeInv'
<1> SUFFICES ASSUME ProbeInv, [Next]_vars PROVE ProbeInv'
  OBVIOUS
<1>1. CASE \E m \in Mails : Arrive(m) \/ TakeMail(m) \/ DeleteMail(m) \/ Resolve(m) \/ DropRecord(m)
  BY <1>1, ArriveStep, TakeMailStep, DeleteStep, CloseStep, DropRecordStep
<1>2. CASE \E byHand \in BOOLEAN : StartCheck(byHand)
  BY <1>2, StartCheckStep
<1>3. CASE \/ Tick \/ QueueCheck \/ ClearProbeCheck \/ SkipCheck \/ SwitchProbe \/ ChangeServer
           \/ \E b \in Boxes : SwitchMailbox(b)
           \/ UNCHANGED vars
  BY <1>3, SwitchStep
<1>4. CASE StartSend \/ CancelSend \/ Transmit \/ InsertProbeMail \/ FinishSend \/ CloseStale
  BY <1>4, StartSendStep, EndSendStep, TransmitStep, InsertStep, CloseStaleStep
<1>5. CASE ListFolder \/ RecordArrivals \/ MarkDeleted \/ ListAlerts \/ MailAlerts \/ MarkNotified
  BY <1>5, ListFolderStep, RecordArrivalsStep, MarkDeletedStep, ListAlertsStep, MailAlertsStep,
     MarkNotifiedStep
<1>6. CASE MailUnreadable \/ RecordCheck \/ CloseOpen \/ Crash
  BY <1>6, MailUnreadableStep, RecordCheckStep, CloseStep, CrashStep
<1> QED BY <1>1, <1>2, <1>3, <1>4, <1>5, <1>6 DEF Next

\* The invariant holds in every state: a record is of a mail that was sent, a
\* check looks for every mail that waits, and an alert is marked, about to be
\* marked, or its mark was lost (SendProbes, CheckProbes, notifyProbeAlerts).
THEOREM ProbeHolds == Spec => []ProbeInv
BY ProbeStarts, ProbeSteps, PTL DEF Spec

\* Whatever fails and however jobs, switches and crashes interleave, a mail is
\* mailed again at a level only after its mark was lost, and the recipients
\* get one mail about an unreadable server in a run of failed checks.
THEOREM AlertsAreOnce == Spec => []AlertedOnce
<1>1. ProbeInv => AlertedOnce
  BY DEF ProbeInv, Unreads, AlertedOnce
<1> QED BY <1>1, ProbeHolds, PTL

\* A mail recorded as arrived in time did arrive in time and was never mailed
\* as missing, and a mail deleted on the server has no open record.
THEOREM VerdictsStayTrue == Spec => []VerdictsAreTrue
<1>1. ProbeInv => VerdictsAreTrue
  <2> SUFFICES ASSUME ProbeInv, NEW m \in Mails
               PROVE  /\ post[m] = "gone" => row[m].st \notin Open
                      /\ row[m].st = "arrived" =>
                           mailed[m] = {} /\ at[m] # 0 /\ at[m] < row[m].sent + Delay
    BY DEF VerdictsAreTrue, ArrivalNotLost
  <2>1. Judged(m) /\ Alerted(m) /\ row[m].lvl \in LevelsOf(row[m].st)
    BY DEF ProbeInv, TypeInv
  <2>2. row[m].st = "arrived" => row[m].lvl = 0
    BY <2>1 DEF LevelsOf
  <2> QED BY <2>1, <2>2 DEF Judged, Alerted
<1> QED BY <1>1, ProbeHolds, PTL

\* The run of failed checks is that of the connection the probe has now, also
\* when the connection changes while a check is under way.
THEOREM RunsFollowTheServer == Spec => []RunOfSettings
<1>1. ProbeInv => RunOfSettings
  BY DEF ProbeInv
<1> QED BY <1>1, ProbeHolds, PTL

\* A check lies ahead of every mail that waits, and whoever looks once the
\* moment of a level is over finds the mail at that level, unless a step
\* failed meanwhile (probeLevelCheckAt, NextProbeCheckAt, SendProbes).
THEOREM ChecksAreOnTime == Spec => []OnTime
<1>1. Spec => []DueInv
  BY DueStarts, DueSteps, ProbeHolds, PTL DEF Spec
<1> QED BY <1>1, ProbeHolds, DueOnTime, PTL
=============================================================================
