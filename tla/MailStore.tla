----------------------------- MODULE MailStore -----------------------------
(***************************************************************************)
(* The mails of one mailbox: the messages table of its index, the .eml     *)
(* files next to it, and the folder on the IMAP server.  A fetch stores    *)
(* the mails of the folder, the cleanup deletes mails on the server and    *)
(* prunes the local ones, a rebuild makes the index anew from the files.   *)
(*                                                                         *)
(* The jobs of one mailbox exclude each other (OneWriterPerMailbox of      *)
(* JobQueue), so one job runs at a time; what interleaves with it are the  *)
(* other clients of the folder, the decisions of users, the clock, and     *)
(* failures: the process may die and the connection may break between any  *)
(* two steps.  A step is one IMAP command, one SQL statement or one file   *)
(* operation.  A mail is known by its Message-ID, size and date.           *)
(*                                                                         *)
(* A definition M_... is a faulty variant of the definition that follows   *)
(* it.                                                                     *)
(***************************************************************************)
EXTENDS Naturals, FiniteSets

CONSTANTS
  Mails,        \* mails that may ever arrive in the folder
  MsgId,        \* mail -> its Message-ID, NoId when it has none
  NoId,
  Size,         \* mail -> its size
  Date,         \* mail -> day of its Date header
  Certain,      \* mails of a rule in serverDeletionRules
  RecentDays, InitialDays,   \* the two fetch windows
  MailKeep,     \* mail_keep_days
  ServerKeeps,  \* values server_keep_days may have, 0: off
  BatchSize,    \* serverDeleteBatch
  UidPlus       \* whether the server has UID EXPUNGE: a set of BOOLEANs

CONSTANTS       \* bounds of the model
  MaxEpoch,     \* UIDVALIDITY values
  MaxDay,       \* days
  MaxFaults,    \* crashes, broken connections, file errors, together
  MaxOthers     \* interventions of other clients

Epochs == 1 .. MaxEpoch
Uids   == 1 .. Cardinality(Mails)
Keys   == Mails \X Epochs     \* MessageKey: of the mail and its identity when it was stored

\* A mail with the Message-ID of another one is a copy of it.
ASSUME CopiesAssumption ==
  \A m, n \in Mails : MsgId[m] = MsgId[n] /\ MsgId[m] # NoId => (m \in Certain <=> n \in Certain)

ASSUME StoreBoundsAssumption ==
  /\ IsFiniteSet(Mails) /\ Certain \subseteq Mails
  /\ Date \in [Mails -> Nat] /\ Size \in [Mails -> Nat]
  /\ RecentDays \in Nat /\ InitialDays \in Nat /\ MailKeep \in Nat \ {0}
  /\ ServerKeeps \subseteq Nat /\ BatchSize \in Nat \ {0} /\ UidPlus \subseteq BOOLEAN
  /\ MaxEpoch \in Nat \ {0} /\ MaxDay \in Nat /\ MaxFaults \in Nat /\ MaxOthers \in Nat

VARIABLES
  server,       \* mail -> "away", "in" the folder, "gone" from it
  uid,          \* mail -> its UID under the current UIDVALIDITY, 0: none
  epoch,        \* UIDVALIDITY
  flagged,      \* the mails with \Deleted
  uidplus,      \* capability of the server
  now,          \* day
  eml,          \* the .eml files
  rows,         \* messages table: key -> row
  grp,          \* the problem group of the certain mails: "none", "open", "decided"
  job,          \* the running job and where it is
  built,        \* the index a rebuild made: rows and group
  mine,         \* history: mails that carry the \Deleted of a STORE of ours
  purged,       \* history: mails an EXPUNGE of ours removed
  fresh,        \* history: mails others flagged since the last search of ours
  rescued,      \* history: mails others unflagged between our STORE and EXPUNGE
  covered,      \* history: mails finished fetches found (but those whose row a prune that
                \* was cut off is about to delete), not removed since
  made,         \* history: a decision was made that nothing ought to undo
  adrift,       \* history: a rebuild met a file the previous index did not know
  broken,       \* history: a job ended while its \Deleted flags were set
  faults, others

folder  == <<server, uid, epoch, flagged, uidplus>>
index   == <<rows, grp>>
history == <<mine, purged, fresh, rescued, covered, made, adrift, broken>>
vars == <<server, uid, epoch, flagged, uidplus, now, eml, rows, grp, job, built,
          mine, purged, fresh, rescued, covered, made, adrift, broken, faults, others>>

NoRow == [val |-> 0, uid |-> 0, cls |-> FALSE, gone |-> FALSE]
Row   == [val : 0 .. MaxEpoch, uid : 0 .. Cardinality(Mails), cls : BOOLEAN, gone : BOOLEAN]
Synthetic == [val |-> 0, uid |-> 1, cls |-> TRUE, gone |-> FALSE]   \* sourceForKey: UIDVALIDITY 0

Empty   == [k \in Keys |-> NoRow]
NoIndex == [rows |-> Empty, grp |-> "none"]

\* What a job knows: the mails still to fetch and all it found, the rows still
\* to do, the row it is at, the ones to delete and to mark, the server
\* retention in force, the day of its listing, and whether it met an error.
Idle == [pc |-> "idle", mails |-> {}, found |-> {}, todo |-> {}, cur |-> {},
         del |-> {}, marks |-> {}, keep |-> 0, day |-> 0, stop |-> FALSE]

InFolder(m) == server[m] = "in"
Stored      == {k \in Keys : rows[k] # NoRow}
Names(k, m) == rows[k].val = epoch /\ rows[k].uid = uid[m] /\ uid[m] # 0
Named(k)    == {m \in Mails : InFolder(m) /\ Names(k, m)}
IdOf(k)     == MsgId[k[1]]
Expired(k)  == now > Date[k[1]] + MailKeep
Smaller(a, b) == IF a < b THEN a ELSE b

Members(R) == {k \in Keys : R[k] # NoRow /\ R[k].cls /\ k[1] \in Certain}

Init ==
  /\ server = [m \in Mails |-> "away"] /\ uid = [m \in Mails |-> 0]
  /\ epoch = 1 /\ flagged = {} /\ uidplus \in UidPlus /\ now = 0
  /\ eml = {} /\ rows = Empty /\ grp = "none" /\ job = Idle /\ built = NoIndex
  /\ mine = {} /\ purged = {} /\ fresh = {} /\ rescued = {} /\ covered = {}
  /\ made = FALSE /\ adrift = FALSE /\ broken = FALSE
  /\ faults = 0 /\ others = 0

-----------------------------------------------------------------------------
(* The folder and its other clients, the clock.                            *)

Outside == UNCHANGED <<eml, rows, grp, job, built, purged, made, adrift, broken, faults>>

\* A mail gets the next UID; UIDs are not used again under one UIDVALIDITY.
Arrive(m) ==
  /\ server[m] = "away" /\ Date[m] <= now
  /\ server' = [server EXCEPT ![m] = "in"]
  /\ uid' = [uid EXCEPT ![m] = 1 + Cardinality({n \in Mails : uid[n] # 0})]
  /\ UNCHANGED <<epoch, flagged, uidplus, now, mine, fresh, rescued, covered, others>> /\ Outside

Tick ==
  /\ now < MaxDay /\ now' = now + 1
  /\ UNCHANGED <<folder, mine, fresh, rescued, covered, others>> /\ Outside

OtherFlags(m) ==
  /\ others < MaxOthers /\ others' = others + 1
  /\ InFolder(m) /\ m \notin flagged
  /\ flagged' = flagged \union {m} /\ fresh' = fresh \union {m}
  /\ UNCHANGED <<server, uid, epoch, uidplus, now, mine, rescued, covered>> /\ Outside

\* The client of a user takes \Deleted away again, also the one we set.
OtherUnflags(m) ==
  /\ others < MaxOthers /\ others' = others + 1
  /\ m \in flagged
  /\ flagged' = flagged \ {m} /\ mine' = mine \ {m} /\ fresh' = fresh \ {m}
  /\ rescued' = IF job.pc \in {"verify", "expunge"} /\ \E k \in job.del : Names(k, m)
                  THEN rescued \union {m} ELSE rescued
  /\ UNCHANGED <<server, uid, epoch, uidplus, now, covered>> /\ Outside

\* Another client expunges: all flagged mails go, ours too.
OtherExpunges ==
  /\ others < MaxOthers /\ others' = others + 1
  /\ flagged # {}
  /\ server' = [m \in Mails |-> IF m \in flagged THEN "gone" ELSE server[m]]
  /\ flagged' = {} /\ mine' = {} /\ fresh' = {} /\ covered' = covered \ flagged
  /\ UNCHANGED <<uid, epoch, uidplus, now, rescued>> /\ Outside

\* The folder is created anew with the mails it had: a new UIDVALIDITY, new
\* UIDs.  A session in progress would end with it.
Recreate ==
  /\ others < MaxOthers /\ others' = others + 1
  /\ job.pc = "idle" /\ epoch < MaxEpoch /\ epoch' = epoch + 1
  /\ LET n == Cardinality({m \in Mails : InFolder(m)})
     IN uid' \in {f \in [Mails -> 0 .. n] :
                    /\ \A m \in Mails : f[m] # 0 <=> InFolder(m)
                    /\ \A m, o \in Mails : f[m] = f[o] /\ f[m] # 0 => m = o}
  /\ flagged' = {} /\ mine' = {} /\ fresh' = {} /\ covered' = {}
  /\ UNCHANGED <<server, uidplus, now, rescued>> /\ Outside

-----------------------------------------------------------------------------
(* FetchMailbox.                                                           *)

Quiet == UNCHANGED <<folder, now, built, purged, mine, fresh, rescued, made, adrift, others>>

\* MessageExists: a row has the identity the folder gives m now.
Indexed(m) == \E k \in Stored : Names(k, m)

\* The search window: initial_days for an empty index, else recent_days,
\* never before the mail retention (fetchOne).
InWindow(m) ==
  LET days == IF Stored = {} THEN InitialDays ELSE RecentDays
  IN now <= Date[m] + Smaller(days, MailKeep)

\* Connect, select, search, and drop what is indexed.
StartFetch(allTime) ==
  /\ job.pc = "idle"
  /\ LET found == {m \in Mails : InFolder(m) /\ (allTime \/ InWindow(m))}
     IN job' = [job EXCEPT !.pc = "fetch", !.found = found,
                           !.mails = {m \in found : ~Indexed(m)}]
  /\ UNCHANGED <<index, eml, covered, broken, faults>> /\ Quiet

\* ReidentifyMessage: the rows whose identity is stale, and of those the ones
\* it prefers.  Among these the oldest row takes the new UID; the order of rows
\* that agree in size is left open.
M_Stale(m) == {k \in Stored : MsgId[m] = IdOf(k) /\ ~rows[k].gone /\ rows[k].uid # uid[m]}
Stale(m) == {k \in Stored : MsgId[m] = IdOf(k) /\ ~rows[k].gone /\ rows[k].val # epoch}
Preferred(m) ==
  LET same == {k \in Stale(m) : Size[k[1]] = Size[m]}
  IN IF same # {} THEN same ELSE Stale(m)

\* storeMessage up to the .eml.  A mail expunged meanwhile is not sent.
FetchMail(m) ==
  /\ job.pc = "fetch" /\ m \in job.mails
  /\ \/ /\ ~InFolder(m)
        /\ job' = [job EXCEPT !.mails = @ \ {m}]
        /\ UNCHANGED <<rows, eml>>
     \/ /\ InFolder(m) /\ MsgId[m] # NoId
        /\ \E k \in Preferred(m) :
             rows' = [rows EXCEPT ![k].val = epoch, ![k].uid = uid[m]]
        /\ job' = [job EXCEPT !.mails = @ \ {m}]
        /\ UNCHANGED eml
     \/ /\ InFolder(m) /\ (MsgId[m] = NoId \/ Stale(m) = {})
        /\ eml' = eml \union {<<m, epoch>>}
        /\ job' = [job EXCEPT !.mails = @ \ {m}, !.cur = {<<m, epoch>>}, !.pc = "insert"]
        /\ UNCHANGED rows
  /\ UNCHANGED <<grp, covered, broken, faults>> /\ Quiet

\* InsertMessage; the key and the identity are unique.
InsertMail ==
  /\ job.pc = "insert"
  /\ \E k \in job.cur :
       rows' = IF k \in Stored \/ Indexed(k[1]) THEN rows
               ELSE [rows EXCEPT ![k] = [val |-> epoch, uid |-> uid[k[1]], cls |-> FALSE, gone |-> FALSE]]
  /\ job' = [job EXCEPT !.pc = "fetch", !.cur = {}]
  /\ UNCHANGED <<grp, eml, covered, broken, faults>> /\ Quiet

FinishFetch ==
  /\ job.pc = "fetch" /\ job.mails = {}
  /\ job' = Idle
  /\ covered' = covered \union {m \in job.found : InFolder(m) /\ \A k \in Stored : Names(k, m) => k \in eml}
  /\ UNCHANGED <<index, eml, broken, faults>> /\ Quiet

\* groupMessage: one mail is classified, a certain one is filed.
Classify(k) ==
  /\ job.pc = "idle" /\ k \in Stored /\ ~rows[k].cls /\ k \in eml
  /\ rows' = [rows EXCEPT ![k].cls = TRUE]
  /\ grp' = IF k[1] \in Certain /\ grp = "none" THEN "open" ELSE grp
  /\ UNCHANGED <<eml, job, covered, broken, faults>> /\ Quiet

-----------------------------------------------------------------------------
(* runCleanup, first half: DeleteFromServer.                               *)

Still == UNCHANGED <<server, uid, epoch, uidplus, now, eml, grp, built, rescued, covered, made, adrift, others>>
Calm  == UNCHANGED <<flagged, mine, purged, fresh>>

\* ListServerDeletionCandidates, for a retention of keep days.
M_Candidates(keep) == {k \in Stored : k[1] \in Certain /\ ~rows[k].gone
                                      /\ rows[k].val # 0 /\ now > Date[k[1]] + keep}
Candidates(keep) ==
  {k \in Stored : rows[k].cls /\ k[1] \in Certain /\ ~rows[k].gone
                  /\ rows[k].val # 0 /\ now > Date[k[1]] + keep}

\* effectiveServerKeepDays
M_EffectiveKeep(keep) == keep
EffectiveKeep(keep)   == Smaller(keep, MailKeep)

\* The listing; the candidates of another UIDVALIDITY are skipped.  Without a
\* server retention, or without a candidate, the mail retention follows at once.
StartCleanup(serverKeep) ==
  /\ job.pc = "idle"
  /\ LET keep == IF serverKeep = 0 THEN 0 ELSE EffectiveKeep(serverKeep)
         due  == IF keep = 0 THEN {} ELSE Candidates(keep)
     IN job' = [job EXCEPT !.keep = keep, !.day = now,
                           !.pc = IF due = {} THEN "expired" ELSE "batch",
                           !.todo = {k \in due : rows[k].val = epoch}]
  /\ UNCHANGED <<rows, broken, faults>> /\ Calm /\ Still

\* The oldest candidates first, serverDeleteBatch at a time.
Batches(S) == {B \in SUBSET S : /\ Cardinality(B) = Smaller(BatchSize, Cardinality(S))
                                /\ \A k \in B, l \in S \ B : Date[k[1]] <= Date[l[1]]}

\* fetchMessageIDs and the switch over its answer: mails already gone are only
\* marked, mails with no or with another Message-ID are left alone.
CheckBatch ==
  /\ job.pc = "batch" /\ job.todo # {}
  /\ \E B \in Batches(job.todo) :
       LET del == {k \in B : \E m \in Named(k) : MsgId[m] = IdOf(k) /\ IdOf(k) # NoId}
       IN job' = [job EXCEPT !.todo = @ \ B, !.del = del, !.marks = {k \in B : Named(k) = {}},
                             !.pc = CASE del = {} -> "mark" [] del # {} /\ uidplus -> "store"
                                      [] OTHER -> "search"]
  /\ UNCHANGED <<rows, broken, faults>> /\ Calm /\ Still

FinishBatches ==
  /\ job.pc = "batch" /\ job.todo = {}
  /\ job' = [job EXCEPT !.pc = "expired"]
  /\ UNCHANGED <<rows, broken, faults>> /\ Calm /\ Still

Doomed == UNION {Named(k) : k \in job.del}     \* the mails of the UIDs to delete

\* The error return: the mails already gone are still marked, nothing else is
\* deleted, and the mail retention follows.
GivenUp == [job EXCEPT !.pc = "mark", !.del = {}, !.todo = {}, !.stop = TRUE]

\* expungeOnly, for a server without UID EXPUNGE: only if no other mail is flagged.
Search ==
  /\ job.pc = "search"
  /\ fresh' = {}
  /\ job' = IF flagged \subseteq Doomed THEN [job EXCEPT !.pc = "store"] ELSE GivenUp
  /\ UNCHANGED <<rows, flagged, mine, purged, broken, faults>> /\ Still

\* STORE +FLAGS (\Deleted); UIDs no longer in the folder are passed over.
StoreFlags ==
  /\ job.pc = "store"
  /\ flagged' = flagged \union Doomed /\ mine' = mine \union Doomed
  /\ job' = [job EXCEPT !.pc = IF uidplus THEN "expunge" ELSE "verify"]
  /\ UNCHANGED <<rows, purged, fresh, broken, faults>> /\ Still

\* The second search, right after the flags were set; it may be refused.
Verify ==
  /\ job.pc = "verify"
  /\ \/ /\ fresh' = {}
        /\ job' = [job EXCEPT !.pc = IF flagged \subseteq Doomed THEN "expunge" ELSE "clear"]
        /\ UNCHANGED faults
     \/ /\ faults < MaxFaults /\ faults' = faults + 1
        /\ job' = [job EXCEPT !.pc = "clear"]
        /\ UNCHANGED fresh
  /\ UNCHANGED <<rows, flagged, mine, purged, broken>> /\ Still

M_ClearFlags ==
  /\ job.pc = "clear"
  /\ job' = GivenUp
  /\ UNCHANGED <<flagged, mine, rows, purged, fresh, broken, faults>> /\ Still
ClearFlags ==
  /\ job.pc = "clear"
  /\ flagged' = flagged \ Doomed /\ mine' = mine \ Doomed
  /\ job' = GivenUp
  /\ UNCHANGED <<rows, purged, fresh, broken, faults>> /\ Still

\* UID EXPUNGE of the chosen mails, or EXPUNGE of all that is flagged.  When the
\* connection breaks after the command, its outcome is not known here.
Expunge ==
  /\ job.pc = "expunge"
  /\ LET E == IF uidplus THEN flagged \intersect Doomed ELSE flagged
     IN /\ server' = [m \in Mails |-> IF m \in E THEN "gone" ELSE server[m]]
        /\ flagged' = flagged \ E /\ mine' = mine \ E /\ purged' = purged \union E
        /\ covered' = covered \ E
  /\ \/ /\ job' = [job EXCEPT !.pc = "mark", !.marks = @ \union job.del, !.del = {}]
        /\ UNCHANGED faults
     \/ /\ faults < MaxFaults /\ faults' = faults + 1
        /\ job' = GivenUp
  /\ UNCHANGED <<uid, epoch, uidplus, now, eml, rows, grp, built, fresh, rescued, made, adrift,
                 broken, others>>

\* The connection breaks during the deletion.
ConnectionLost ==
  /\ faults < MaxFaults /\ faults' = faults + 1
  /\ job.pc \in {"batch", "search", "store", "verify", "clear", "expunge"}
  /\ job' = GivenUp
  /\ broken' = (broken \/ Doomed \intersect mine # {})
  /\ UNCHANGED rows /\ Calm /\ Still

\* MarkServerDeleted: one UPDATE per row; one that fails ends the deletion.
MarkRow(k) ==
  /\ job.pc = "mark" /\ k \in job.marks
  /\ \/ /\ rows' = [rows EXCEPT ![k].gone = TRUE]
        /\ job' = [job EXCEPT !.marks = @ \ {k}]
        /\ UNCHANGED faults
     \/ /\ faults < MaxFaults /\ faults' = faults + 1
        /\ job' = [job EXCEPT !.marks = {}, !.todo = {}, !.stop = TRUE]
        /\ UNCHANGED rows
  /\ UNCHANGED broken /\ Calm /\ Still

FinishMarks ==
  /\ job.pc = "mark" /\ job.marks = {}
  /\ job' = [job EXCEPT !.pc = IF job.stop THEN "expired" ELSE "batch"]
  /\ UNCHANGED <<rows, broken, faults>> /\ Calm /\ Still

-----------------------------------------------------------------------------
(* runCleanup, second half: PruneMailbox.                                  *)

Apart == UNCHANGED <<folder, now, built, mine, purged, fresh, rescued, adrift, broken, others>>

\* ListMessagesOlderThan, with a clock read after the deletion on the server.
ListExpired ==
  /\ job.pc = "expired"
  /\ job' = [job EXCEPT !.pc = "prune", !.todo = {k \in Stored : Expired(k)}]
  /\ UNCHANGED <<rows, grp, eml, covered, made, faults>> /\ Apart

\* removeMessageFiles, the .eml last; a row whose file stays is left for the
\* next cleanup.
RemoveFile(k) ==
  /\ job.pc = "prune" /\ k \in job.todo
  /\ \/ /\ eml' = eml \ {k}
        /\ job' = [job EXCEPT !.pc = "unrow", !.cur = {k}, !.todo = @ \ {k}]
        /\ covered' = {m \in covered : ~Names(k, m)}
        /\ UNCHANGED faults
     \/ /\ faults < MaxFaults /\ faults' = faults + 1
        /\ job' = [job EXCEPT !.todo = @ \ {k}]
        /\ UNCHANGED <<eml, covered>>
  /\ UNCHANGED <<rows, grp, made>> /\ Apart

\* DeleteMessage; the groups of the mail are noted.
DeleteRow ==
  /\ job.pc = "unrow"
  /\ \/ /\ rows' = [k \in Keys |-> IF k \in job.cur THEN NoRow ELSE rows[k]]
        /\ job' = [job EXCEPT !.pc = "prune", !.cur = {}, !.marks = @ \union (job.cur \intersect Members(rows))]
        /\ UNCHANGED faults
     \/ /\ faults < MaxFaults /\ faults' = faults + 1
        /\ job' = [job EXCEPT !.pc = "prune", !.cur = {}]
        /\ UNCHANGED rows
  /\ UNCHANGED <<grp, eml, covered, made>> /\ Apart

\* recountGroups, of the groups that lost a mail, at the end of the loop or when
\* the job is cancelled: a group without members goes.
FinishPrune ==
  /\ job.pc = "prune"
  /\ job.todo = {} \/ faults < MaxFaults
  /\ faults' = IF job.todo = {} THEN faults ELSE faults + 1
  /\ IF job.marks # {} /\ Members(rows) = {}
       THEN grp' = "none" /\ made' = FALSE
       ELSE UNCHANGED <<grp, made>>
  /\ job' = Idle
  /\ UNCHANGED <<rows, eml, covered>> /\ Apart

-----------------------------------------------------------------------------
(* Reindex.                                                                *)

Local == UNCHANGED <<folder, now, eml, mine, purged, fresh, rescued, broken, others>>

\* readCarryover; an index that cannot be read carries nothing over.
StartRebuild(readable) ==
  /\ job.pc = "idle"
  /\ readable \/ faults < MaxFaults
  /\ faults' = IF readable THEN faults ELSE faults + 1
  /\ built' = IF readable THEN [rows |-> rows, grp |-> grp] ELSE NoIndex
  /\ made' = (made /\ readable) /\ covered' = IF readable THEN covered ELSE {}
  /\ job' = [job EXCEPT !.pc = "build"]
  /\ UNCHANGED <<index, adrift>> /\ Local

\* sourceForKey: the carried identity of the key, else a synthetic one; every
\* mail is classified.
Rebuilt(R) ==
  [k \in Keys |-> CASE k \notin eml -> NoRow
                    [] k \in eml /\ R[k] # NoRow -> [R[k] EXCEPT !.cls = TRUE]
                    [] OTHER -> Synthetic]

\* carryover.apply: a group that comes back has its state again.
M_Restored(R, g) == IF Members(R) = {} THEN "none" ELSE "open"
Restored(R, g) ==
  IF Members(R) = {} THEN "none" ELSE IF g = "decided" THEN "decided" ELSE "open"

\* The new index is complete under another name.
Build ==
  /\ job.pc = "build"
  /\ LET R == Rebuilt(built.rows)
     IN built' = [rows |-> R, grp |-> Restored(R, built.grp)]
  /\ adrift' = (adrift \/ \E k \in eml : built.rows[k] = NoRow)
  /\ job' = [job EXCEPT !.pc = "remove"]
  /\ UNCHANGED <<index, covered, made, faults>> /\ Local

\* swapIndexFiles: the old index is removed first ...
RemoveOld ==
  /\ job.pc = "remove"
  /\ rows' = Empty /\ grp' = "none"
  /\ job' = [job EXCEPT !.pc = "rename"]
  /\ UNCHANGED <<built, covered, made, adrift, faults>> /\ Local

\* ... then the new one takes its name.
RenameNew ==
  /\ job.pc = "rename"
  /\ rows' = built.rows /\ grp' = built.grp
  /\ made' = (made /\ built.grp # "none")
  /\ built' = NoIndex /\ job' = Idle
  /\ UNCHANGED <<covered, adrift, faults>> /\ Local

\* The rebuild fails or is cancelled: Reindex removes what it built, and what it
\* removed before stays removed.
RebuildFails ==
  /\ faults < MaxFaults /\ faults' = faults + 1
  /\ job.pc \in {"build", "remove", "rename"}
  /\ built' = NoIndex /\ job' = Idle
  /\ made' = (made /\ job.pc # "rename")
  /\ covered' = IF job.pc = "rename" THEN {} ELSE covered
  /\ UNCHANGED <<index, adrift>> /\ Local

-----------------------------------------------------------------------------
(* Users and crashes.                                                      *)

\* ChangeGroupState.  A rebuild that has read the state already does not see it.
Decide ==
  /\ grp = "open" /\ grp' = "decided"
  /\ made' = (job.pc \notin {"build", "remove"})
  /\ UNCHANGED <<folder, now, rows, eml, job, built, mine, purged, fresh, rescued, covered, adrift,
                 broken, faults, others>>

\* The process dies, or a fetch or prune ends with an error: files and rows stay,
\* and a build file left over is removed by the next rebuild.
Crash ==
  /\ faults < MaxFaults /\ faults' = faults + 1
  /\ job.pc # "idle"
  /\ job' = Idle /\ built' = NoIndex
  /\ broken' = (broken \/ Doomed \intersect mine # {})
  /\ made' = (made /\ job.pc # "rename")
  /\ covered' = IF job.pc = "rename" THEN {} ELSE covered
  /\ UNCHANGED <<folder, now, index, eml, mine, purged, fresh, rescued, adrift, others>>

Next ==
  \/ \E m \in Mails : Arrive(m) \/ OtherFlags(m) \/ OtherUnflags(m) \/ FetchMail(m)
  \/ Tick \/ OtherExpunges \/ Recreate
  \/ \E allTime \in BOOLEAN : StartFetch(allTime)
  \/ InsertMail \/ FinishFetch
  \/ \E k \in Keys : Classify(k) \/ MarkRow(k) \/ RemoveFile(k)
  \/ \E keep \in ServerKeeps : StartCleanup(keep)
  \/ CheckBatch \/ FinishBatches \/ Search \/ StoreFlags \/ Verify \/ ClearFlags \/ Expunge
  \/ ConnectionLost \/ FinishMarks
  \/ ListExpired \/ DeleteRow \/ FinishPrune
  \/ \E readable \in BOOLEAN : StartRebuild(readable)
  \/ Build \/ RemoveOld \/ RenameNew \/ RebuildFails
  \/ Decide \/ Crash

Spec == Init /\ [][Next]_vars

-----------------------------------------------------------------------------
(* Properties.                                                             *)

\* The variables have their types.
TypeOK ==
  /\ server \in [Mails -> {"away", "in", "gone"}]
  /\ uid \in [Mails -> 0 .. Cardinality(Mails)]
  /\ epoch \in Epochs /\ flagged \subseteq Mails /\ uidplus \in BOOLEAN /\ now \in 0 .. MaxDay
  /\ eml \subseteq Keys /\ rows \in [Keys -> Row] /\ grp \in {"none", "open", "decided"}
  /\ job.mails \subseteq job.found /\ job.found \subseteq Mails
  /\ job.todo \union job.cur \union job.del \union job.marks \subseteq Keys
  /\ built.rows \in [Keys -> Row] /\ built.grp \in {"none", "open", "decided"}
  /\ mine \union purged \union fresh \union rescued \union covered \subseteq Mails
  /\ faults \in 0 .. MaxFaults /\ others \in 0 .. MaxOthers

\* DeleteFromServer: what an EXPUNGE of ours removes was stored and classified
\* with certain evidence, and is past the retention in force; on a server
\* without UID EXPUNGE also what another client flagged after the last search.
PurgesOnlyDue ==
  \A m \in purged' \ purged :
    \/ m \in fresh /\ ~uidplus
    \/ m \in Certain /\ \E k \in Stored : /\ Names(k, m) /\ rows[k].cls /\ IdOf(k) = MsgId[m]
                                          /\ k \in eml \/ Expired(k)
                                          /\ job.day > Date[k[1]] + job.keep

\* server_deleted_at: a row that says its mail was deleted on the server tells
\* the truth, except when another client took \Deleted away between our STORE
\* and our EXPUNGE.
MarkedIsGone ==
  \A k \in Stored : rows[k].gone => Named(k) \subseteq rescued

\* A row has its .eml, unless its mail is past the mail retention.
RowHasFile == \A k \in Stored : k \in eml \/ Expired(k)

\* What a finished fetch found has one row with its identity, and the row holds
\* a copy of it, until the mail is pruned or the UIDVALIDITY changes.  Rows with
\* a synthetic identity put this off.
CoveredIsIndexed ==
  job.pc # "rename" /\ ~adrift =>
    \A m \in covered :
      LET K == {k \in Stored : Names(k, m)}
      IN Cardinality(K) = 1 /\ \A k \in K : k[1] = m \/ (MsgId[m] # NoId /\ IdOf(k) = MsgId[m])

\* A mail with a Message-ID is not stored again after a change of UIDVALIDITY:
\* there are no more rows with a Message-ID than such mails arrived.
StoredOnce ==
  ~adrift /\ rescued = {} =>
    \A m \in Mails : MsgId[m] # NoId =>
      Cardinality({k \in Stored : IdOf(k) = MsgId[m]})
        <= Cardinality({n \in Mails : server[n] # "away" /\ MsgId[n] = MsgId[m]})

\* The index describes the mails: what other parts read from it can be relied on.
IndexIsTrue == MarkedIsGone /\ RowHasFile /\ CoveredIsIndexed /\ StoredOnce

\* runCleanup: no row goes while its mail is still due on the server, unless the
\* deletion failed, or the mail cannot be deleted there (no Message-ID, another
\* UIDVALIDITY), or it got due after the listing.
PrunedAfterServer ==
  \A k \in Stored :
    rows'[k] = NoRow /\ job.pc = "unrow" /\ job.keep > 0 /\ ~job.stop /\ job.day > Date[k[1]] + MailKeep
      /\ rows[k].cls /\ rows[k].val = epoch /\ k[1] \in Certain /\ IdOf(k) # NoId
    => rows[k].gone

\* No mail keeps a \Deleted of ours after a cleanup that was not cut off.
FlagsCleared == job.pc = "idle" /\ ~broken => mine = {}

\* Both retentions delete no mail but what is due, the server before the index,
\* and leave no flag behind with which somebody's EXPUNGE deletes one later.
DeletesOnlyDue == [][PurgesOnlyDue /\ PrunedAfterServer /\ FlagsCleared']_vars

\* A decision stays as long as its group, over rebuilds and crashes too, unless
\* it was made during a rebuild or a rebuild was cut off in its swap.
DecisionKept == made /\ job.pc # "rename" => grp = "decided"

\* Reindex: on failure or cancellation the previous index stays as it was; it has
\* what finished fetches found.
FailureKeepsIndex ==
  [][RebuildFails =>
       \A m \in covered : \E k \in Keys : rows'[k].val = epoch /\ rows'[k].uid = uid[m]]_vars
=============================================================================
