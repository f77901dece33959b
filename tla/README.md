# MailCare in TLA+

MailCare watches mail addresses over IMAP, stores the delivery failure notices
and DMARC reports it finds, files them into *problem groups*, has an AI agent
analyze the groups that need it, and lets users decide about them. Everything
runs in one Go process over SQLite: a master database (settings, mailboxes,
users, jobs, probe mails) and one index database per mailbox, next to the
`.eml` files of that mailbox. A command-line program works on the same data,
through a running server or, when none answers, in its own process.

This directory models the parts of that program in which the order of things
matters, checks them with TLC on small instances, and proves the central ones
with TLAPS. Paths below are relative to the repository root; Go files are
under `src/app/`.

## 1. Inventory

| Component | State it keeps | Operations | What is hard | What makes it correct |
|---|---|---|---|---|
| Job queue (`modules/jobs.go`, `models/job.go`) | `jobs` table; lock table, running count, wake channel in memory | enqueue, claim, execute, release, cancel, expand, follow up, inline CLI run | web requests, scheduler, dispatcher, worker goroutines and other processes interleave; crash | exact locks, one writer per mailbox, no job twice, no job forgotten |
| Server start and shutdown (`workers/server.go`, `modules/serverlock.go`, `secret.go`, `controltoken.go`) | `server.lock`, `control.token`, the stored secret key; context, wait groups | start, signal, second signal, shutdown | two starts overlap; a lock file is removed by its holder; requests go on while jobs are waited for | one server, one key, no control token lost while one server runs; it ends |
| Schema migration (`modules/dbschema/`) | lock file, the versions applied | look, lock, apply, unlock | the holder removes the lock or dies while others wait | every migration once and in order |
| API tokens (`modules/tokens.go`) | `tokens` | create, delete, default | several processes; the default is set in a second statement | one default |
| Accounts and sessions (`auth.go`, `session.go`, `handlers_users.go`, `handlers_auth.go`, `cli_user.go`) | `users`; cookies; the login limiter in memory | setup, login, every request's check, create, change, delete, password | requests work with rows they read earlier; parallel attempts, bounded table | distinct addresses, an administrator remains, sessions end with their password, waits are served |
| Mailbox lifecycle (`modules/mailboxes.go`) | `mailboxes` rows, data directories | create, update, rename, delete | checks and writes are separate steps, racing with jobs | no job on a deleted mailbox; a rename does not move data under a job |
| Mail store (`mailengine/imap.go`, `store.go`, `reindex.go`, `carryover.go`, `serverdelete.go`, `prune.go`) | `messages`, `.eml` files, the IMAP folder | fetch, re-identify, delete on the server, prune, rebuild | crashes between file, row and server; UIDVALIDITY changes; the swap of a rebuilt index | no mail lost or doubled, only due notices deleted on the server, decisions survive a rebuild |
| Mail classification (`classify.go`, `junk.go`, `extract.go`, `category.go`, `dnsfailure.go`, `dnsverify.go`, `group.go`) | `bounces`, `groups` | classify, extract, verify, file, regroup | the order of rules that shadow each other; answers that are missing | no notice of our own mail lost as junk, no blame without knowledge, counters match |
| DNS verification (`modules/dnscheck/`, `groupdns.go`) | `dns_checks`; resolvers, authoritative servers | look up, vote, store, reuse, prune | servers that fail, lie or are lame; concurrent runs | one true outcome per name and period |
| Sending sources (`sourcecache.go`, `sendingsources.go`) | `sending_source_lookups` | resolve, keep, store, prune | failed and emptier answers, two kinds of row | no source is lost |
| Problem groups and analysis (`grouping.go`, `recheck.go`, `agent/run.go`, `group_state.go`) | `groups`, `agent_reports` and their patterns, state history; the tracker of a run in memory | group, regroup, prune, analyze, settle, decide | grouping and analysis run at once on one index, users decide at any time; settle is not one transaction | nothing new is forgotten, nothing decided is analyzed again unasked, new causes come back to the user |
| Scheduler (`modules/scheduler.go`) | last tick, fired times, settings | tick | clock, restarts, two-step recording | each time fires once; a day has its cleanup |
| Delivery probes (`modules/probe.go`) | `probe_mails`, probe settings, the probe server | send, check, alert | settings change during a check, late arrivals, retries | an arrival is recorded once, a failure is mailed once |
| Notification mails (`modules/notify.go`) | last sent time, settings | due, send, record | partial delivery, the next day | the interval is kept, what is announced happens |
| Settings (`modules/settings.go`, `settingslock.go`) | `settings` table | set, resolve | checks over several settings by callers at once; a lock per process; a stored password | no refused combination is stored, commits are whole, the password keeps its server |
| Evidence, prompts, agent output, PDF, exports, web screens | none of their own | text and layout | size | out of scope, see section 8 |

How they interact: web handlers and the scheduler call `Enqueue` and touch the
wake channel; the dispatcher claims rows and starts goroutines, which open the
index of a mailbox; jobs queue other jobs (one child per mailbox, an analysis
after a grouping). A grouping run asks the DNS verification about the names
its notices report and the source cache about the hosts of the mailbox, both
shared through tables of the master database. Users change groups directly in
the index, without a job. The CLI asks the server over HTTP or becomes a second
process on the same files, which is why locks, migrations and keys must hold
between processes. `PROJECT.json` lists the components with their status and
the hazards with the lines where they bite. Hazards of this code that no
property covers: two callers may queue the same job twice (`jobs.go:509`; the
keys serialize the two), an update writes every column of a mailbox row as it
was read (`models/mailbox.go:147`), the data of a deleted mailbox is removed by
address after its row is gone (`mailboxes.go:574`), a rename moves several
directories (`mailboxes.go:554`), and `FinishJob` overwrites the outcome that
`ResetStaleJobs` wrote (`models/job.go:105`; `RowsTellWork` says which jobs
that can meet).

## 2. Modules

| Module | Content |
|---|---|
| `JobQueue` | the queue, the dispatcher, the in-process runner, start, stop and crash of processes, edits of mailboxes |
| `SerialQueue` | what a queue with exclusive resources promises: a job goes from queued to an end, is run once or mislaid by a claim that failed, and no resource has two holders; `JobQueue` implements it |
| `JobQueueProofs` | the inductive invariants of `JobQueue`, the theorems, and the refinement of `SerialQueue` |
| `GroupAnalysis`, `GroupAnalysisProofs` | the groups of one index: grouping runs, the analysis job, decisions, restart |
| `MailStore`, `MailStoreProofs` | the mails of one mailbox: index rows, `.eml` files and the IMAP folder; fetch, cleanup, rebuild |
| `Scheduler`, `ServerProofs` | the ticks with all they queue, the notification job and the analysis job as far as times depend on them |
| `Probe`, `ProbeProofs` | sends, arrival checks, alert mails and everything that changes beside them |
| `Settings`, `ServerProofs` | changes of settings that are validated together: requests of the server, commands, the lock and the transaction |
| `Accounts`, `AccountsProofs` | users, roles, passwords, sessions, setup; requests and commands that cross |
| `LoginLimiter` | the throttle of failed logins (its proof is in `AccountsProofs`) |
| `FileLock`, `FileLockProofs` | a lock file that its holder removes, on Unix and Windows, looked up again after locking or not |
| `Startup`, `ServerProofs` | the start and stop of servers and commands; composes two `FileLock`s (`INSTANCE`) |
| `DNSAnswers` | operators: from replies to an answer, from answers to an outcome |
| `DNSCheck`, `DNSCheckProofs` | runs that verify, store, reuse and prune outcomes of a name |
| `SourceCache`, `DNSCheckProofs` | the stored lookups of the sending sources |
| `NoticeRules`, `NoticeCategories` | operators: what a mail is, whom it reports, why the delivery failed |
| `NoticeFiling`, `DNSCheckProofs` | the grouping runs that apply the rules to the mails of a mailbox |
| `MC...` | instances for TLC; `MCServer`, `MCNotices` and `MCAccounts` check parts that share no state side by side in one run; `MCMails` and `MCSettings` are their data |

A definition `M_...` is a faulty variant of the definition after it, the way a
plausible bug would write it. Each checked property has one that violates it;
a property that joins several parts has others for some of the parts, which
were checked by hand.

### JobQueue and the code

| Model | Code |
|---|---|
| `row` | `jobs` table; `tgt` keeps only what the guards tell apart |
| `mbox` | `mailboxes` table: address, IMAP host, enabled, whether mails are deleted on the server |
| `pc`, `cand`, `pick`, `keysOf` of a process | where `claimRunnable` / `ClaimNextRunnableJob` is, the rows it listed, the keys it computed |
| `locks`, `workers`, `wake` | fields of `JobManager` |
| `phase`, `owner` | the goroutine of a claimed job: work, follow-up, outcome written, locks released, count decremented, gone |
| `todo` | mailboxes `runExpansion` or `queueAnalysis` has still to queue a child for |
| `call` | an `EnqueueJob` between its checks and its INSERT or its wake |
| `renaming` | an `UpdateMailbox` between its checks and its UPDATE |
| `need` | history variable: the keys a job reserved |
| `unwritten` | history variable: the jobs whose end was not written, because their process died, the write or the claim failed, since a server last marked such rows |

A step is one SQL statement, one transaction or one critical section of the
manager. `EnqueueJob` is therefore two or three steps (checks, INSERT, wake),
a claim is one step per candidate row plus the conditional UPDATE, and the end
of a job is four (outcome, locks, counter, wake). The listing of candidates
and their order are the code's: oldest first. `claimMu` joins the UPDATE and
the reservation of the keys; a crash clears both sides of the memory.

A crash loses all memory of a process and keeps the tables. The server starts
only when it is down (the lock of `serverlock.go`), resets running rows, and
only then dispatches; a reset that fails is logged and the rows stay as they
are. CLI processes look for a server once, at their start. A claim fails when
the list, the UPDATE or the row read back does; the last leaves a row running
that nobody works on.

### GroupAnalysis and the code

| Model | Code |
|---|---|
| `mail`, `filed` | `messages.classified`, `bounces` and `dmarc_records`: a member is a pair of group and pattern |
| `grp` | `groups`: state, `needs_analysis`, `needs_recheck` |
| `keys` | re-check keys of the latest row of `group_state_changes` |
| `rep` | `agent_reports` with `agent_report_patterns` |
| `run`, `todo`, `flagged` | a `GroupMailbox` in progress and its `groupTracker` |
| `an` | `runAnalyze` and the `AnalyzeGroup` it is in |
| `asked`, `cut`, `raced` | history variables: requested groups, reports cut off by a crash, groups that met a race window |

`GroupMessage` is the transaction of `groupMessageIn`. The steps of `settle`
are separate because the code does not join them: one INSERT per pattern, the
reload of the group, the coverage query, the UPDATE of the flag. What a mail
says is a nondeterministic plan (`Plans`), and whether it is late for a
decision is a nondeterministic bit.

### MailStore and the code

| Model | Code |
|---|---|
| `server`, `uid`, `epoch`, `flagged`, `uidplus` | the folder: its mails, their UIDs, UIDVALIDITY, `\Deleted`, whether UID EXPUNGE exists; external |
| `rows` | `messages`: `uidvalidity`, `uid`, `classified`, `server_deleted_at` under the message key |
| `eml` | the raw files, by message key |
| `grp` | the one problem group of the certain mails, with its state |
| `job` | the running `FetchMailbox`, `runCleanup` or `Reindex` and its local variables |
| `built` | first the carryover, then `<address>.sqlite.rebuild` |
| `mine`, `purged`, `fresh`, `rescued`, `covered`, `made`, `adrift`, `broken` | history variables of the properties |

One job runs at a time; that is `WorkIsExclusive` of `JobQueue`. A step is
one IMAP command, one SQL statement or one file operation, and between any two
of them other clients of the folder, a user, the clock, a crash or a broken
connection may come in. `expungeOnly` is therefore up to five steps (search,
STORE, search, STORE -FLAGS or EXPUNGE). An EXPUNGE whose answer is lost may
have happened. A `Reindex` reads the carryover, builds, removes and renames in
four steps; the build itself touches no shared state and is one step.

What is abstracted: INTERNALDATE equals the Date header; one problem group;
the order of stale rows that agree in size is left open; body section files and
temporary files are left out; the folder is recreated only between two jobs,
since a session in it would end. A context that ends is a crash or a fault of
the step it meets.

### Scheduler and the code

| Model | Code |
|---|---|
| `now`, `last`, `fired`, `cleanupFired` | the clock, `lastTick`, the three `...Fired` maps, `cleanupFired` of `Scheduler` |
| `tick` | the `tick` in progress with what it read; its steps follow the code: check times, cleanup and its record, probe send, notification, analysis after a limit |
| `lastRun`, `lastSent`, `limit`, `notifyOn`, `agentOn` | the settings `cleanup_last_run_date`, `notify_last_sent_at`, `agent_limited_until`, and the switches |
| `jobs`, `note`, `waits` | the `notify` and `analyze` jobs, `SendNotification` in progress, groups a limit put off |
| `fires`, `again`, `since`, `cleaned`, `mailDays`, ... | history variables |

The mutex of the scheduler joins a tick against `NextCheckAt` only: database
writes inside it are steps of their own. Setting the clock moves `now` by
`Jumps`; the code's guards against it (`lastTick` in the future, a record ahead
of the day) are part of the actions.

### Probe and the code

| Model | Code |
|---|---|
| `row` | `probe_mails`: status, time of sending, notified level, mailbox closed |
| `post`, `at` | the way of a mail outside the program: lost, under way, in the folder (with its sender or another), deleted |
| `enabled`, `server`, `last`, `next` | `probe_enabled`, the connection, `probe_last_send_at`, `probe_next_check_at` |
| `run` | `probe_check_failures`, `probe_check_failing_since` and whether it was mailed |
| `job` | `SendProbes` or `CheckProbes` with its local variables |
| `queued`, `clearing` | `queueProbe` of the scheduler and its `ClearProbeCheck` |

Only one job of the probe key runs at a time (`JobQueue`). What the model
leaves open is what the outside does: a mail is lost, arrives at any moment,
arrives with a rewritten sender, or the server cannot be read.

### Accounts, LoginLimiter and the code

`work[r]` is the request of a browser or the command of a terminal: the step
it is at and the rows it read (`me` by `webMiddleware`, `row` by
`userFromPath`). Each statement on `users` is one step: `UpdateUser` compares
addresses in the UPDATE itself, `isLastAdmin` counts in a statement before it. A cookie names a user and the fingerprint of the password it was
issued for. The refresh of a cookie in `webMiddleware` re-issues the same
fingerprint and is left out. `LoginLimiter` has the records of `auth.go` per
client and name; passwords are checked without the mutex, so up to
`MaxParallel` attempts are between `Blocked` and their answer.

### Settings and the code

`saved` is the `settings` table, a row or its default under each key; `host`
stands for host, port and security mode. `work[r]` is a request of the Web or
a command: waiting for `settingsMu`, past its validation with the rows it will
write (`fill` of `UpdateSettings`, `saveNotificationSettings`), or asking for a
password (`applySetting`). `After` is what a change gives, `Refused` what the
validation says of it, `Written` the rows of the transaction. `lock` has one
mutex per process: the server's requests share theirs, a command has its own
(`cli_settings.go:315`). `Together` says whether commands run beside the
server, as they may. `serves` remembers for which connection the stored
password was given.

### FileLock, Startup and the code

`FileLock` keeps files (inodes) apart from the name: `file` is what the name
denotes, `fd[p]` what a process has open, `owner` who locked which. `Remove`
fails on Windows for a file somebody has open, and the holder tries again once
it is closed (`releaseLock`, the release of `AcquireServerLock`). `Checked`
tells the two users apart: `dbschema/lock.go` looks again (`samePath`),
`serverlock.go` does not. In `Startup` a server takes `server.lock`, migrates,
reads or stores the secret key, ensures the default token and writes the
control token; a command does the same without the locks of the server. Every
process may be killed at any step, and a migration or either statement that
makes the default token may fail. At its end a server reads the token file,
compares, and removes the file by its path: `crossed` has the servers beside
which another one wrote its token between the last two steps. A server that
finds its own token there (a kill left it) still writes a new one.

### DNSAnswers, DNSCheck, SourceCache and the code

The replies a server gives are chosen from what the zone, the network and the
kind of server allow (`Gets`, `Said`); `LookupType`, `Exchange`,
`TargetsAnswer`, `AddressesAnswer`, `ResolveName` and `Vote` are the code's
functions of the same names. A run (`Checker`) reads the fresh rows, verifies,
and stores with `InsertDNSCheckIfAbsent`, which gives way to a row that came
first. `Tick` moves the clock; queries take no time of it. `sound` records
whether a verdict was true of the zone in force. Verified outcomes of all
combinations of replies are computed once per zone (`Verdicts`).

`SourceCache` has one row for each kind of source that refers to a name. A run
reads what is stored and fresh, else resolves, completely or not, keeps the
earlier list when the new one is emptier, and stores the kinds one by one. Any
read may fail for any of the kinds, which is then passed over (`read` in
`Resolve`, `Incomplete`, `Keep`, `Again`); the host names of the setting read
as none (`Unread`); a list or a deletion of the pruning may fail
(`PruneFails`). `torn` records the failures that hide one kind of a name.

### NoticeRules, NoticeCategories, NoticeFiling and the code

A mail is a record of what the rules tell apart; the words of a table are
members of a set. The tables of the code (`certainRules`, `structuralRules`,
`categoryRules`, ...) are sequences of rows in the code's order. A
verification has the outcomes `DNSCheck` may give. `NoticeFiling` runs them
over the mails of a box: `Plans` is `planGrouping`, `File` the transaction of
`groupMessageIn` with the counters of the groups it leaves and joins, `Retried`
the mails left unverified that a run takes up, `NextMail` the order of its
loop, `StopRun` a canceled run. `MCMails` has the boxes: mails
in pairs (forged and true notices, delayed and failed recipients in one
status part, DNS failures of our and of foreign servers, ...).

## 3. Runs

Each run was finished in less than three minutes here, on two workers; the
larger ones take longer on a slow machine.

| Run | Question | Instance | Distinct states |
|---|---|---|---|
| `jobs_safety` | Have a mailbox and the agent's evidence one writer, and does the queue implement `SerialQueue`, over every interleaving with a crash? | 2 mailboxes on one host, 3 rows, 2 workers, 1 caller, 1 crash, 1 failed statement | 3.2 million |
| `jobs_cli` | Do rows say what is worked on, over kills and restarts; do in-process runs leave each other and the server's jobs alone, and free what they took? | 1 mailbox, 2 CLI processes and the server, 2 rows, 1 worker, a rename, 1 crash, 1 failed statement | 3.5 million |
| `jobs_live` | Does a queued job end, and a stopping server stop? | 2 mailboxes, 2 rows, 1 edit, fair | 0.13 million |
| `groups_safety` | Is a decided group flagged only on request, and is a new pattern forgotten or a new cause missed only by a race? | 1 group, 2 patterns, 2 mails, 1 report, 2 decisions or restarts | 0.7 million |
| `store_safety` | Are mails stored once and found again, only due ones deleted, and decisions kept, over every fault? | 2 copies of one mail, 2 UIDVALIDITY values, 4 days, 1 fault, 1 intervention of other clients, with and without UID EXPUNGE | 1.4 million |
| `probe_safety` | Are arrivals, verdicts, alerts and schedules of probe mails right, whatever changes beside a job? | 1 mailbox, 2 mails, 4 periods, 2 connections, 1 trouble | 1.4 million |
| `accounts_safety` | Are users distinct, does an administrator remain, do sessions end, are waits served? | 2 browsers and a terminal, 2 at work at once, 2 users, 4 passwords; beside it 2 clients at the limiter over 8 units of time | 1.1 million |
| `server_safety` | Do servers and commands come up on one schema, key and default token; do times fire once and announced; is a refused combination of settings stored, half a request, or a password for another server? | `Startup`: 2 servers and a command, 3 starts, 1 kill, 2 migrations, 1 failed statement, Unix and Windows (1.8 million); `Scheduler`: days of 2 minutes, 5 minutes, clock set by -2, -1 or 2, 1 trouble (0.4 million); `Settings`: 2 requests of the server and a command while it is stopped, for the DNS verification with the re-check days, the agent, the SMTP connection (40 thousand) | 2.2 million |
| `notices_safety` | Do stored outcomes agree and tell the truth, do sources stay, are notices judged and counted rightly? | 2 runs, 2 notices, 2 resolvers, 2 servers, 6 zones; 2 runs over 3 kinds of source; 60 boxes of mails under 3 settings | 0.88 million |
| `startup_two_servers`, `store_swap`, `settings_commands` | three statements of comments that the code does not keep | see section 6 | |

Why the bounds are enough. The hazards of the queue need at most a parent, its
child and a competitor (three rows), two mailboxes that share a host, and two
workers; a second crash only repeats the first on a smaller table. In
`GroupAnalysis` a race needs one group, two patterns (one settled, one new) and
two mails of one run around a settle. In `MailStore` two mails with one
Message-ID are the case in which matching by it can go wrong, two UIDVALIDITY
values make one change, the days pass both fetch windows and both retentions
(which meet: `ServerKeeps` has values below and above `MailKeep`), and batches
have one mail so that an error falls between two of them. In `Probe` two mails
let the check of one meet the send of the other, and four periods pass delay,
failure, the age of leftovers and the retention. In `Scheduler` the window of a
tick may span midnight, two days and a pause longer than a day. In `Accounts`
the races need two requests and two users, and a third password change would
repeat the second. In `FileLock` a stale lock needs one process that removes,
one that holds the removed file and one that creates the next, and a process
that starts again is a new one. In the notices, rows and names are independent
of each other, so one name and boxes of one mail find what the rules can get
wrong; boxes of two are there for the counters of shared groups.

Larger instances were checked by hand, with the same result:

| Model | Instance | Distinct states |
|---|---|---|
| `JobQueue` | 3 rows, mailboxes on two hosts, 1 edit, a shrinking worker limit | 3.2 million |
| `GroupAnalysis` | a second, recipient-side group | 2.6 million |
| `GroupAnalysis` | 2 reports, 1 event | 3.2 million |
| `MailStore` | one or two retentions, plain EXPUNGE, 2 interventions | 2.0 and 3.1 million |
| `MailStore` | all retentions, both kinds of EXPUNGE, 2 interventions | 7.6 million |
| `Probe` | 2 troubles | 11.3 million |
| `Probe` | longer delays and coalescing, 7 periods, no trouble | 2.5 million |
| `Scheduler` | 2 troubles over 5 minutes; 1 over 7 | 2.7 and 1.8 million |
| `Startup` | processes keep what they forget at their end | 3.7 million |
| `SourceCache` | one unit of time more | 1.4 million |
| `DNSCheck` | three configurations of resolvers, steps not merged | 2.5 million |
| `NoticeFiling` | all ordered pairs of six mails | 1.3 million |

Symmetry is used for mails, browsers, runs and CLI processes only where no
property and no constant tells them apart, and never with liveness. `TypeOK` of
the modules that do not list it in a run was checked by hand on the same
instances. Deadlock checking is off where a clock or a counter of the model
reaches its bound (`server_safety`, `accounts_safety`, `notices_safety`,
`startup_two_servers`, `settings_commands`); the other systems never stop.

### Properties

* `LockTableExact`: a key is held exactly by the running job that reserved it.
  Not true by construction: keys are computed from a row that may have
  changed by the time they are taken, and are released by job id.
* `WorkIsExclusive`: the purpose of the keys, stated over jobs and not over
  locks: no two jobs write one mailbox, nothing rewrites the evidence of a
  running analysis. `ForeignJobsLeftAlone`, `DeletedMailboxIdle`: what is
  claimed, by whom, and for which mailbox.
* `RowsTellWork`: a row is running exactly while a process works on its job,
  over cancels, deletions, kills, restarts and failed statements. A row left
  running blocks its mailbox and every job like it, so the rule is what the reset
  at a start is for. Exempt are the jobs in `unwritten`, until the next reset that
  succeeds, and the job of a CLI process that goes on while a server that starts marks it
  as failed.
* `SerialQueueSpec`: the refinement. A job of the server counts as in progress
  from its claim until its keys are released.
* `QueuedFinishes`, `StopEnds`: without the poll ticker, which is therefore
  only a safety net.
* `FlaggedOnlyOnRequest`, `MissedOnlyInRaces`: the promises of the group
  workflow hold in every interleaving except those in which a write about a
  group met one of two windows: `settle` between its reload and its UPDATE, or
  a run that already took the group for flagged. `raced` records exactly these
  meetings.
* `IndexIsTrue`: rows tell the truth about the server, have their files, and
  what a fetch found stays findable under one row, over UIDVALIDITY changes,
  prunes and rebuilds. A rebuild that met files without a carried identity
  (`adrift`) ends the last promise: such rows are matched by Message-ID only.
* `DeletesOnlyDue`: what an EXPUNGE of ours removes was stored here, classified
  with certain evidence and past the retention, whatever the other clients did
  to the flags; only a plain EXPUNGE may also take a mail that another client
  flagged after the last search, as the code accepts. And a cleanup does not
  drop the row of a mail it was to delete on the server before it has done so.
  Exempt are deletions that failed, mails the server half skips and mails that
  got due after the listing: for those the code does what its comment on
  `runCleanup` says it does not, and the property names them.
  A cleanup that was not cut off leaves no `\Deleted` of ours (`FlagsCleared`).
* `DecisionKept`: over rebuilds and crashes a decision lives as long as its
  group, but for one made while a rebuild runs, or a rebuild cut off between
  the removal of the old index and the rename.
* `VerdictsAreTrue` of `Probe`: a mail recorded as arrived in time did so and was never
  mailed as missing; no record waits for a mail that the program has deleted.
  `AlertedOnce`: an alert comes twice only if its mark was lost. `OnTime`:
  waiting mails always have a check, early enough. `RunOfSettings`:
  failed checks are counted against the connection they were made with.
* `TimesFire`, `CleanupDaily`, `NotifyOnSchedule`, `WaitersResume`: firing
  once, over midnight, pauses, restarts and clock changes; the distance between
  notifications, and that what the pages announce (`NextCheckAt`,
  `NextNotifyAt`) is what a tick finds due; groups put off by a usage limit are
  taken up. History variables name what the code cannot know: a clock set back
  before what a restarted process remembers, a day whose record could not be
  written. A time fires when it is marked as fired: the sync job that is queued
  after that may fail to be (`scheduler.go:112`, logged), and the time is not tried
  again. A mail counts for the distance once its time is recorded: if that
  write fails, or the process dies before it, the next mail may follow at once.
* `LastAdminOnlyByRace`: the last administrator goes only by a request that
  read the administrators before another one changed them. `UsersDistinct`: no
  two users share an address, one setup founds. `SessionsEnd`: an accepted
  session belongs to someone who knows the password in force, unless two
  changes of one password crossed. `WaitKept`: a wait after failed logins is not
  shortened by a late failure or the pruning of the records.
* `AppliedOnce`, `SameKey`, `LocksExclude`, `TokensKept`: see `Startup`. The
  exclusion of `server.lock` is stated for Windows, where it holds. In
  `TokensKept` a server at work finds its control token on Windows always, and
  elsewhere until another server runs beside it, writes its own or, having
  looked at the file before, removes it; and there is one default token but after
  a start that was killed or failed between the two statements that make it.
* `OneOutcome`, `VerdictIsTrue`, `PruneKeepsOutcomes`: runs at work at once
  agree; silence and loss never change an outcome, error replies make it
  "broken" at worst, a resolver that says anything decides nothing beside an
  honest one; the cleanup takes no outcome a kept notice may still be filed by.
* `SourcesStay`: an emptier answer never takes the place of a fuller one, but
  after a crash or a failed write between two kinds, a change of references
  during a run, or a failed read or deletion that hid one kind of the name. The
  statement that writes guards each row by itself, so a name with one kind
  keeps its list whatever fails.
* `JudgedByTruth`: a notice about mail of our own is never junk for want of an
  answer, blame follows what is known, every recipient a notice reports is judged,
  and authoritative servers are asked only about notices a sending server
  handed in (`DirectOnlyForSent`). `UnverifiedIsRetried`, `FiledIsCounted`:
  over regrouping and canceled runs.
* `CombinationsValid`, `OneAtATime`, `PasswordServesItsServer`: the settings
  lock makes each commit the whole effect of one accepted request on the values
  it replaces. This holds among the requests of the server, and for a command
  while the server is stopped; for both at once see section 6.

Assumptions of the models: `CopiesAssumption` of `MailStore` (a mail with the
Message-ID of another one is a copy of it; else the row of one may, after a
UIDVALIDITY change, stand for the other), and `FilingAssumption` of
`NoticeFiling`: the inbound servers of the mailbox record the address of who
hands a notice in, above every header the sender wrote (`HandedIn`), and host
names, addresses and the empty string are distinct.

## 4. Fairness

`FairSpec` of `JobQueue` is weakly fair on the dispatcher goroutine, on each
job goroutine, on each caller inside `EnqueueJob`, and on the end of a
shutdown. The Go scheduler runs every runnable goroutine, and none of these
steps waits for another by polling, so weak fairness per goroutine is what the
code gives. That the work of a job ends is an assumption about the outside:
IMAP connections have deadlines, the agent is stopped by the context. Not
assumed: the ticker, that anyone ever enqueues, starts or kills anything.
Liveness is model-checked without a crash bound above zero, since a killed
server promises nothing.

What must eventually happen in the other modules is stated as safety, which
needs no fairness: `OnTime`, `CleanupDaily`, `NotifyOnSchedule`,
`WaitersResume` and `UnverifiedIsRetried` say that whatever waits is on some
schedule, or was done by a given moment of the clock.

## 5. Proofs

| Theorem | What it says, for every value of the constants |
|---|---|
| `JobQueueProofs!TypeCorrect` | `Spec => []TypeOK` |
| `JobQueueProofs!LocksExact` | `Spec => []LockTableExact` |
| `JobQueueProofs!RowsAreTrue` | `Spec => []RowsTellWork`, for any number of processes, kills and failures |
| `JobQueueProofs!KeysAreExclusive` | two jobs of one process never hold one key |
| `JobQueueProofs!RunsKeepToTheirOwn` | `Spec => ForeignJobsLeftAlone` |
| `JobQueueProofs!DeletedIsIdle` | `CLIs = {}`: `Spec => []DeletedMailboxIdle` |
| `JobQueueProofs!ExclusiveWork` | `CLIs = {}`, `NewAddrs = {}`: `Spec => []WorkIsExclusive` |
| `JobQueueProofs!QueueKeepsPromise` | `CLIs = {}`: `Spec => SerialQueueSpec`, the refinement |
| `JobQueueProofs!ServerMailboxStays` | beside any number of commands, the mailbox of a job the server runs is not deleted |
| `JobQueueProofs!EvidenceStays` | beside any number of commands, no job of a process rewrites the evidence of an analysis of that process |
| `FileLockProofs!LockExcludes` | two processes never both hold a lock that is looked up again, nor any lock on Windows |
| `ServerProofs!StartsExclude` | `Spec => []LocksExclude`, by refinement: the two locks of `Startup` implement `FileLock` |
| `ServerProofs!MigratesOnce` | `Spec => []AppliedOnce` |
| `ServerProofs!OneKey` | `Spec => []SameKey` |
| `ServerProofs!TokensStay` | `Spec => TokensKept` |
| `DNSCheckProofs!OutcomesAgree` | `Spec => []OneOutcome` |
| `DNSCheckProofs!VerdictsAreTrue` | `Spec => []VerdictIsTrue` |
| `DNSCheckProofs!PruneIsHarmless` | `Spec => PruneKeepsOutcomes` |
| `DNSCheckProofs!SourcesStayStored` | `SourcesSpec => []SourcesStay` |
| `DNSCheckProofs!NoticesAreJudged` | `FilingSpec => []JudgedByTruth` |
| `DNSCheckProofs!GroupsAreCounted` | `FilingSpec => []FiledIsCounted` |
| `DNSCheckProofs!UnverifiedIsAskedAgain` | `FilingSpec => UnverifiedIsRetried` |
| `GroupAnalysisProofs!FlagsAreAsked` | `Spec => FlaggedOnlyOnRequest` |
| `GroupAnalysisProofs!NothingIsMissed` | `Spec => []MissedOnlyInRaces` |
| `ProbeProofs!AlertsAreOnce` | `Spec => []AlertedOnce` |
| `ProbeProofs!VerdictsStayTrue` | `Spec => []VerdictsAreTrue` |
| `ProbeProofs!RunsFollowTheServer` | `Spec => []RunOfSettings` |
| `ProbeProofs!ChecksAreOnTime` | `Spec => []OnTime` |
| `MailStoreProofs!StoreHolds` | `Spec => []StoreInv`, what the next three rest on |
| `MailStoreProofs!IndexStaysTrue` | `Spec => []IndexIsTrue` |
| `MailStoreProofs!DecisionsStay` | `Spec => []DecisionKept` |
| `MailStoreProofs!DeletionsAreDue` | `Spec => DeletesOnlyDue` |
| `AccountsProofs!UsersStayDistinct` | `Spec => []UsersDistinct` |
| `AccountsProofs!SessionsEndWithPassword` | `Spec => []SessionsEnd` |
| `AccountsProofs!LastAdminStays` | `Spec => LastAdminOnlyByRace` |
| `AccountsProofs!WaitsAreServed` | `LimiterSpec => WaitKept` |
| `ServerProofs!CombinationsStayValid` | `CommandsAlone`: `SettingsSpec => []CombinationsValid` |
| `ServerProofs!PasswordStaysWithServer` | `CommandsAlone`: `SettingsSpec => []PasswordServesItsServer` |
| `ServerProofs!ChangesAreSerial` | `CommandsAlone`: `SettingsSpec => OneAtATime` |
| `ServerProofs!TimesFireOnce` | `ClockSpec => []TimesFire` |
| `ServerProofs!CleanupStaysDaily` | `ClockSpec => []CleanupDaily` |
| `ServerProofs!NoticesKeepSchedule` | `ClockSpec => []NotifyOnSchedule` |
| `ServerProofs!WaitersAreTakenUp` | `ClockSpec => []WaitersResume` |

Assumptions: the named ASSUMEs of the modules (bounds are naturals, names and
NULL values are distinct). TLC evaluates them in the runs. `FileLock` is used
as an instance; what it asks of its constants is an assumption of its theorem,
which `Startup` fulfils. In the same way `SchedulerAssumption` (the times are
moments of a day, the interval is positive) is an assumption of the theorems
about the clock, and `MCServer` asserts it; `SourcesAssumption` (at most two
kinds of source refer to one name, and one of the two comes first) is one of
`SourcesStayStored`, and `MCNotices` asserts it.
`DefaultsAssumption` of `Settings` says that the built-in defaults are a
combination the validation accepts; without it the first write would not be the
only way to a refused combination.

Six theorems have a hypothesis, since without it the code does not give the
property:

* `CLIs = {}`: no command works in a process of its own. A server that starts
  marks the running job of such a command as failed and starts its own jobs
  beside it; the lock table is one per process.
* `NewAddrs = {}`: no mailbox is given another address. `UpdateMailbox` looks
  for a running job and writes the address later, and a job claimed in between
  works on the old address while the next one works on the new.
* `CommandsAlone`: no command changes settings beside the server or beside
  another command. Each process has its own `settingsMu`; `settings_commands`
  is the counterexample.

### Inductive invariants

Most invariants are not inductive as they stand. What was added is what the
code keeps in between, and TLC checked it on a run before it was proved.

`LockTableExact`: from a state in which the key of a candidate was taken since
`canRun` looked at it, the claim would overwrite the holder. Added:

* `PickNamed`: between `canRun` and the UPDATE there is a candidate;
* `QueuedIdle`: a row that is queued has no goroutine, no owner and no keys,
  so the conditional UPDATE cannot start a job that holds something;
* `RunnerAlone`: a CLI process is in no claim while it runs a job, so it may
  claim by id without looking at its locks;
* `ClaimReady`: while a claim is pending the keys it computed are still free,
  because only claims take keys and `claimMu` serializes them in one process.

`RowsTellWork` rests on the same invariant, of which `QueuedIdle` keeps a row
from being claimed twice, and on what each step may do to a row and its phase
together (`RowsStayTold`): the outcome is written in the step that ends
`Working`, or the job is in `unwritten` from then on. It cannot be `Claim` alone
that gives it: a cancel, a deletion, a reset and a claim whose answer is lost
change rows as well.

`DeletedMailboxIdle`, `WorkIsExclusive`: `Tenure`. A job holds the keys of the
row it was claimed from; that they are the keys of the row as it is now needs
that the mailbox neither goes nor is renamed while the job is at work, and that
the keys a claim computed stay right until its UPDATE. So `Tenure` speaks of
jobs (`JobSound`), of claims between the read of the row and the UPDATE
(`ClaimSound`) and of the in-process runner (`RunSound`). The refinement
uses the same invariant: claims, releases and rows map to `SerialQueue`, and
every other step is a stutter.

`LocksExclude`, `AppliedOnce`, `SameKey`: `Excludes` of `FileLock` needs that
the holder's file is the one the name denotes (`Named`), which rests on the
platform: on Windows an open file is never removed (`Kept`); on Unix a holder
never leaves without having removed it (`Gone`). `AppliedOnce` needs that the
process inside the migration lock has the rest of the migrations before it
(`RestIsLeft`), and that only one is inside. `TokensKept`: `TokenInv` adds that
every server past the lock has it, that only servers announce themselves, that
what a server removes that has compared the file is its own token or that of one
in `crossed`, and that there is one default token but while one is being made
and after a kill or failure between its two statements.

`FlaggedOnlyOnRequest`, `MissedOnlyInRaces`: `GroupInv`, in two parts.
`StructInv` says where the analysis job is and that its report is the latest of
its group until the group is dropped. `RaceInv` says that what `settle` loaded
and compared still holds unless the group is in `raced` (`SettleInv`), and what
flags, sent-back marks and uncovered patterns mean for each group (`GroupOk`).
It is what makes `raced` exact: every write between the reload and the UPDATE
of `settle` either keeps the comparison or is recorded.

`OneOutcome` needs that no row is dated in the future; the rest is the
condition of the INSERT. `VerdictIsTrue` is about single replies: lemmas say
what each reply of an honest server shows of the zones, that an answer is a
vote with evidence, and that an outcome is no more than the answers allow.
The proof showed that `Truth`, what an outcome is held against, took a domain
whose only MX is its own name for one without MX when the OS resolver asks; it
was corrected. `PruneKeepsOutcomes` needs the least-number principle for the
earliest row of a window.

`AlertedOnce`, `VerdictsAreTrue`, `RunOfSettings`: `ProbeInv`. `Sending` says
that only a mail that was sent has a record, and which one is in hand;
`Judged` that a check has every mail that waits and deletes closed ones only;
`Alerted` that a level that was mailed is marked, about to be marked, or its
mark was lost; `Unreads` that the run of failed checks, or the check about to
be recorded, knows of the mail about the server.

`OnTime` rests on `DueInv`, which TLC checked on the states of `probe_safety`
before it was proved. A scheduled check is in time for every mail that waits:
within `Coalesce` of the moment of its next level, or at most `Delay` after the
latest send (`InTime`). While mails are being sent that need not hold, since the
new check counts from a send that is not over; while a check is at work it
holds of the time that check has chosen (`Chosen`). No scheduled check means
that nothing waits and nothing is being sent, and a failed step leaves
`disturbed` behind until a check succeeds. The rest is arithmetic: `LevelCheck`
(the check of a level is at most `Coalesce` after every moment ahead of it) and
`StillMissing` (what a check leaves waiting had been waiting before).

`UsersDistinct`, `SessionsEnd`, `LastAdminOnlyByRace`: `AccountsInv`. Requests
work with users that were in the table when they read them (`WorkInv`), the
setup mutex is held by the one request that may found (`SetupInv`), a request
about to give a cookie set the password in force unless another change crossed
it (`SessionInv`), and a request that was let through as not the last
administrator's still sees another one, or its view is stale (`SeenInv`).
`WaitKept` needs that a wait lasts at most `LockMax` from the last failure,
while a record lives for `TTL`.

`IndexIsTrue`, `DecisionKept`, `DeletesOnlyDue`: `StoreInv`, which TLC checked
on all states of `store_safety` before it was proved. Its parts:

* `FolderInv`: a mail of the folder has a UID of its own, and UIDs are numbered
  as they are given;
* `TablesInv`: a row that names a mail is of it or of a copy; covered mails have
  their row and file; the rows with a Message-ID can be mapped one to one to
  arrived mails with that Message-ID (`Stands`, from which `StoredOnce` follows
  by counting). The index a rebuild is making has to satisfy the same, or the
  swap would break it;
* `FetchInv`: what a fetch has still to get has no row under this UIDVALIDITY,
  and what it has passed has one;
* `DeleteInv`: what a deletion handles is classified and past the retention, a
  mark names only mails that are gone or were rescued by another client, and
  our flags lie only on what this cleanup deletes;
* `ServedInv`: until the prune every row that is due on the server is marked or
  in hand, unless the deletion was cut off;
* `DecisionInv`: a decision that counts is in the index, or in what the rebuild
  carries over.

The operators are stated over tables and views given as arguments, so that one
lemma serves the index and the index being built.

`CombinationsValid`, `OneAtATime`, `PasswordServesItsServer`: `SettingsInv`. A
change that was validated and not yet committed was validated against the
values stored now (`Current`), since its process holds the mutex and no
other process works (`Apart`).

`TimesFire`, `CleanupDaily`, `NotifyOnSchedule`, `WaitersResume`: `ClockInv`,
which TLC checked on 11.7 million states before it was proved:

* `RememberedInv`: what fired and may come due again is still in the fired
  table of its hour, unless the history variable `rewound` says that the clock
  went back before it; the table holds one occurrence for each hour, so a later
  one replaces an earlier one;
* `CoveredInv`: every check time since the first tick has fired;
* `CleanupInv`: the days with a cleanup go on, and each but those that could
  not be recorded lies at or before the recorded one;
* `MailInv`: the mail in hand is due by the last one recorded, and the last one
  is of no later day than the clock shows;
* `LimitInv`: a tick that is about to clear the limit found it over and the
  analysis under way.

`Announced` is arithmetic over days: the next moment is the least one of a
window, and the lemmas `NextCheckIs` and `NextNotifyIs` say that it lies within the days
`NextNotifyAt` searches, also with a last mail in the future. The proof showed two
faults of the properties. A clock set back over a day in the middle of a tick
lets a later firing replace the memory of an earlier one, which then fires
again; TLC found the behaviour (a jump of -3 over 8 minutes) once it was looked
for, and `rewound` now covers it. The window in which `Announced` looked for the
next mail was too small when the last one lies far ahead of the clock.

`SourcesStay`: `SourceInv`, which TLC checked on 144,000 states with three runs.
While nothing is `torn` the references stand as long as a run is at work, and a
run that looks up a name has pruned what nothing refers to (`CacheOk`). A full
row beside one that is empty, or about to be, is the work of a run that will
fill that one as well (`NameOk`): without it the two kinds of a name may
disagree for good after two runs have stored in turns. The theorem needs no
references that are never dropped (`Settled`); TLC has some to save states.

`JudgedByTruth`, `FiledIsCounted`, `UnverifiedIsRetried`: `FilingInv`, which TLC
checked on all states of `notices_safety`:

* `DecisionsOK`: what is filed is true of its mail, and what it left unverified
  has one of the `dns_unverified_` rules;
* `CountsOK`: the counters match what is filed, of all mails of the box;
* `RetryOK`: while a run with the check on is at work, every mail left
  unverified is ahead of it or was tried. That holds at its start only because
  of the second half of `DecisionsOK`: the run searches by rule, not by outcome.

A run decides about a mail by pure functions, so most of the proof is about
these, for any mail. A table of rules is a concatenation of parts; the lemmas
`FirstOfTwo`, `FirstOfFive` and `SecondOfFive` say from which part its first row
is. `PassIs` and `ClassifyIs` give what a classification may be, `BouncesAre`
that a report of a failed or delayed recipient has a grouped kind, so that its
blocks are extracted, `MatchIs` whose server reported a failure, `EntryIs` that
`noticeEntry` finds whoever handed a notice in, if anyone, and
`UnverifiedRules` that no rule before or after those for DNS failures takes what
was left unverified. `PlansAreTrue` and `PlansAreRetried` put them together.

Each action is one step of the proof that the invariant is kept, with one step
per conjunct it can disturb.

Only model-checked: what the code does not keep (`OneServer` of `Startup`,
`FailureKeepsIndex` of `MailStore`, section 6), and liveness (`QueuedFinishes`,
`StopEnds`): fairness and ENABLED are beyond the prover. Of `NoticeRules` and
`NoticeCategories` the proofs establish what the properties need; that each row
is the one of the code is read, not proved.

## 6. Where code and text disagree

Checked by a run that violates the statement:

1. `startup_two_servers`: a start that opened `server.lock` before a stopping
   server removed it locks a file without a name; the next start creates a new
   one, and two servers run (`serverlock.go:38`). The migration lock guards
   against this with `samePath`.
2. `store_swap`: a rebuild removes the old index before it renames the new one;
   when the rename fails, the deferred cleanup removes the new one as well
   (`reindex.go:214`).
3. `settings_commands`: `settingslock.go:16` says that the CLI hands its commands
   to the server, so one mutex is enough; `settings set` opens the database
   itself (`cli_settings.go:315`), as the command line reference says. A request
   of the Web and a command may together store what the validation refuses.

Met while modelling, and named in the properties or their history variables:

* A job can be claimed between the check of a rename and its UPDATE, and then
  works on the old address (`mailboxes.go:477`).
* A stopping server compares `control.token` and then removes it by its path:
  `controltoken.go:115` says "the file of a server started later stays", but
  with two servers at work (1. above) the file the other one wrote in between goes.
* A job whose mailbox row cannot be read at the claim gets no keys
  (`jobs.go:334`); the comment says that such a job fails when it runs, which is so
  only when the row is gone. After a failed read it runs without locks.
* The pruning of stored lookups says that a failure deletes nothing
  (`sourcecache.go`, `prune`), but a failed read of `sending_source_hosts` counts
  as an empty list there, and the rows of its host names go.
* A server that starts during an in-process CLI run may work on the same
  mailbox: the lock table is per process (`jobs.go:787`).
* A run that already flagged a group does not look at it again although an
  analysis cleared the flag meanwhile (`grouping.go:220`).
* A mail whose `\Deleted` another client clears between our STORE and our
  EXPUNGE stays on the server and is recorded as deleted (`serverdelete.go:217`).
* `ClearProbeCheck` of the scheduler may clear the check a send has just
  scheduled (`probe.go:993`); the next send brings another.
* Two administrators who demote or delete each other at once leave none, though
  `Documents/command-line-reference.md` says the last one cannot be deleted.
* While the DNS check is off a notice is filed by the earliest outcome of its
  window (`dnscheck.go:452`), which need not be the one it was filed by while
  the check was on: `groupdns.go:37` promises that switching moves nothing.
* A crash between the writes of two kinds of one source, or a failed read of one
  of them while the answer is empty (`sourcecache.go:331`), leaves an empty row in
  front of a full one, and a reporter whose addresses were
  answered by half may be taken for a foreign one (`addressesOf`).
* A full regrouping that is canceled leaves emptied groups with old counters
  until the next one (`grouping.go`).
* A run reads several settings one after the other without the lock
  (`jobs.go:1227` and `jobs.go:1290`, `ResolveDNSCheck`), and a failed read counts
  as the default (`models/setting.go:15`): `Settings` checks what is stored when
  reads succeed, not what such a reader gets.

## 7. Plan

Done: all modules of the table above, and a theorem for every invariant and
action property of the passing runs. Worth proving next: that the theorems with
a hypothesis (section 5) hold up to the race that breaks them without it. Worth
modelling next: the data directories of renamed and deleted mailboxes, the
carryover of agent reports by a rebuild, SPF evaluation with its lookup limit.

## 8. Not modelled

* Text: parsing of mails, charset and header handling, the word lists of the
  rules, DMARC reports, the building of evidence and prompts, the parsing of
  agent output, PDF and CSV export. They are functions of one input with large
  tables and no state between calls; the models take what they find as facts.
* Of the settings: parsing and limits of single values and lists, the settings
  that are validated alone, reads that fail.
* DNS packets, timeouts and the pacing of queries; the evaluation of SPF
  records; a clock that is set back under the DNS tables.
* SQLite itself: a statement or transaction either happens or fails. Failures
  are modelled where the code goes on after one and a property depends on it;
  left out are the failed reads of a mailbox row at a claim (section 6), of a
  setting that then counts as its default (but in `SourceCache`), and of the
  scheduler when it queues a sync. The other side of a network (IMAP, SMTP, DNS
  servers) is a nondeterministic environment.
* Summer time: the clock of `Scheduler` has days of one length.
* The frontend, HTTP decoding, paging, service installation.
* Of the queue: progress text, the retention of finished rows, and which
  requester may use which probe target. Of mailboxes: SMTP settings and
  connection tests. Of tokens: renaming and renewal.
