------------------------ MODULE GroupAnalysisProofs ------------------------
(***************************************************************************)
(* Proofs about GroupAnalysis, for every set of groups, patterns and       *)
(* mails, every number of workers, reports and state changes: a group is   *)
(* flagged against its decision, forgotten, or misses a new cause only     *)
(* where a grouping run, an analysis and a user met in one of the windows  *)
(* of GroupAnalysis.                                                       *)
(*                                                                         *)
(* The invariant has two layers.  StructInv says where the analysis job    *)
(* is and which report is its own: the latest one, until the group is      *)
(* dropped.  RaceInv says, group by group, what the flags mean, and what   *)
(* settle knows about the group it is about to write.                      *)
(***************************************************************************)
EXTENDS GroupAnalysis, TLAPS

Fields == {"pc", "queue", "asks", "g", "id", "pats", "fit", "needs"}
JobOf(pc, queue, asks, g, id, pats, fit, needs) ==
  [pc |-> pc, queue |-> queue, asks |-> asks, g |-> g, id |-> id, pats |-> pats,
   fit |-> fit, needs |-> needs]

JobType == [pc : {"idle", "flag", "next", "evidence", "agent", "list", "record", "check",
                  "write"},
            queue : SUBSET Groups, asks : SUBSET Groups, g : Groups \cup {NoGroup},
            id : 0 .. MaxReports, pats : SUBSET Patterns, fit : BOOLEAN, needs : BOOLEAN]
RowType == [state : States, flag : BOOLEAN, recheck : BOOLEAN]
ReportType == [g : Groups \cup {NoGroup}, pats : SUBSET Patterns,
               st : {"none", "running", "completed", "error", "gone"}]

-----------------------------------------------------------------------------
(* The invariant.                                                          *)

\* The steps of AnalyzeGroup: the job is at a group and has a report of its own.
Working == {"evidence", "agent", "list", "record", "check", "write"}

JobInv ==
  /\ an.pc \in Working => an.g \in Groups /\ an.id \in Reports
  /\ an.pc \notin Working => an.g = NoGroup
  /\ an.fit \/ an.needs => an.g \in Actionable

\* Reports are numbered as they are inserted; the one of the job is the last,
\* and it is about the group of the job unless it went with the group.
ReportsInv ==
  /\ \A i \in Reports : rep[i].st \in {"none", "gone"} => rep[i].g = NoGroup /\ rep[i].pats = {}
  /\ \A i, k \in Reports : i < k /\ rep[k].st # "none" => rep[i].st # "none"
  /\ an.pc \in Working => /\ rep[an.id].st # "none"
                          /\ rep[an.id].st = "gone" \/ rep[an.id].g = an.g
                          /\ \A i \in Reports : i > an.id => rep[i].st = "none"

StructInv == TypeOK /\ JobInv /\ ReportsInv

\* What settle loaded and compared is still so, unless the group was written
\* meanwhile: an analysis is due exactly for a group that is fit for one and
\* has a pattern that is not covered.
SettleInv ==
  an.pc \in Working /\ Exists(an.g) /\ an.g \notin raced =>
    /\ an.pc = "check" => (an.fit <=> Fit(an.g))
    /\ an.pc = "write" => /\ an.needs => Fit(an.g)
                          /\ Fit(an.g) /\ Uncovered(an.g) => an.needs

\* Only groups that exist are flagged, recipient-side groups by requests alone.
AskedOk(g) == grp[g].flag => Exists(g) /\ (g \in Actionable \/ g \in asked)

\* A group the run flagged still is, and was open or sent back.
ScanOk(g) == g \in flagged => /\ g \in Actionable
                              /\ g \in raced \/ ~Exists(g) \/ (grp[g].flag /\ Fit(g))

\* The analysis has begun to record what it settled about g.
Recorded(g) == an.g = g /\ an.pc \in {"record", "check", "write"} /\ rep[an.id].pats # {}

\* Forgotten, but for what the job is about to do or a crash cut off.
Waits(g)  == g \in Actionable /\ grp[g].state = "open" /\ Uncovered(g) /\ ~grp[g].flag
WaitOk(g) == Waits(g) => g \in raced \/ Recorded(g) \/ Latest(g) \cap cut # {}

UnaskedOk(g) == FlaggedUnasked(g) => g \in raced
CauseOk(g)   == NewCauseMissed(g) => g \in raced

GroupOk(g) == AskedOk(g) /\ ScanOk(g) /\ WaitOk(g) /\ UnaskedOk(g) /\ CauseOk(g)
RaceInv    == SettleInv /\ \A g \in Groups : GroupOk(g)

GroupInv == StructInv /\ RaceInv

-----------------------------------------------------------------------------
(* What the updates of the job's record give.                              *)

LEMMA JobKnown ==
  ASSUME TypeOK
  PROVE  /\ an = JobOf(an.pc, an.queue, an.asks, an.g, an.id, an.pats, an.fit, an.needs)
         /\ an \in JobType
<1>1. an \in JobType
  BY DEF TypeOK, JobType
<1> QED BY <1>1 DEF JobType, JobOf

LEMMA IdleKnown ==
  /\ Idle = JobOf(Idle.pc, Idle.queue, Idle.asks, Idle.g, Idle.id, Idle.pats, Idle.fit, Idle.needs)
  /\ Idle = JobOf("idle", {}, {}, NoGroup, 0, {}, FALSE, FALSE)
BY DEF Idle, JobOf

\* A job is known by its fields.
LEMMA JobFromFields ==
  ASSUME NEW w, w = [k \in Fields |-> w[k]]
  PROVE  w = JobOf(w.pc, w.queue, w.asks, w.g, w.id, w.pats, w.fit, w.needs)
BY DEF JobOf, Fields

\* Where each step of the analysis takes the job.
LEMMA StartMoves ==
  ASSUME StartAnalysis
  PROVE  \E Q \in SUBSET Groups : an' = JobOf("next", Q, {}, NoGroup, 0, {}, FALSE, FALSE)
<1> DEFINE Q == {g \in Groups : Exists(g) /\ grp[g].flag}
<1>1. an' = [Idle EXCEPT !.pc = "next", !.queue = Q]
  BY DEF StartAnalysis
<1>2. /\ an' = [k \in Fields |-> an'[k]]
      /\ an'.pc = "next" /\ an'.queue = Q /\ an'.asks = {} /\ an'.g = NoGroup /\ an'.id = 0
      /\ an'.pats = {} /\ an'.fit = FALSE /\ an'.needs = FALSE
  BY <1>1 DEF Idle, Fields
<1> HIDE DEF Q
<1>3. an' = JobOf("next", Q, {}, NoGroup, 0, {}, FALSE, FALSE)
  BY <1>2, JobFromFields
<1> QED BY <1>3 DEF Q

LEMMA RequestMoves ==
  ASSUME StartRequested, GroupsAssumption
  PROVE  \E Q \in SUBSET Groups : an' = JobOf("flag", Q, Q, NoGroup, 0, {}, FALSE, FALSE)
<1>1. PICK Q \in {{g \in Actionable : Exists(g)}} \cup {{g} : g \in Groups} :
        an' = [Idle EXCEPT !.pc = "flag", !.queue = Q, !.asks = Q]
  BY DEF StartRequested
<1>2. Q \in SUBSET Groups
  BY <1>1 DEF GroupsAssumption
<1>3. /\ an' = [k \in Fields |-> an'[k]]
      /\ an'.pc = "flag" /\ an'.queue = Q /\ an'.asks = Q /\ an'.g = NoGroup /\ an'.id = 0
      /\ an'.pats = {} /\ an'.fit = FALSE /\ an'.needs = FALSE
  BY <1>1 DEF Idle, Fields
<1>4. an' = JobOf("flag", Q, Q, NoGroup, 0, {}, FALSE, FALSE)
  BY <1>3, JobFromFields
<1> QED BY <1>2, <1>4

LEMMA FlagMoves ==
  ASSUME TypeOK, NEW g, FlagAsked(g)
  PROVE  \E pc \in {"next", "flag"} :
           an' = JobOf(pc, an.queue, an.asks \ {g}, an.g, an.id, an.pats, an.fit, an.needs)
<1> DEFINE pc == IF an.asks = {g} THEN "next" ELSE "flag"
<1>1. an' = [an EXCEPT !.asks = an.asks \ {g}, !.pc = pc]
  BY DEF FlagAsked
<1>2. /\ an' = [k \in Fields |-> an'[k]]
      /\ an'.pc = pc /\ an'.queue = an.queue /\ an'.asks = an.asks \ {g} /\ an'.g = an.g
      /\ an'.id = an.id /\ an'.pats = an.pats /\ an'.fit = an.fit /\ an'.needs = an.needs
  BY <1>1, JobKnown DEF JobType, Fields
<1> QED BY <1>2, JobFromFields

LEMMA BeginMoves ==
  ASSUME TypeOK, NEW g, NEW i,
         an' = [an EXCEPT !.pc = "evidence", !.queue = @ \ {g}, !.g = g, !.id = i, !.fit = Fit(g)]
  PROVE  an' = JobOf("evidence", an.queue \ {g}, an.asks, g, i, an.pats, Fit(g), an.needs)
<1>2. /\ an' = [k \in Fields |-> an'[k]]
      /\ an'.pc = "evidence" /\ an'.queue = an.queue \ {g} /\ an'.asks = an.asks /\ an'.g = g
      /\ an'.id = i /\ an'.pats = an.pats /\ an'.fit = Fit(g) /\ an'.needs = an.needs
  BY JobKnown DEF JobType, Fields
<1> QED BY <1>2, JobFromFields

LEMMA PassMoves ==
  ASSUME TypeOK, NEW g, an' = [an EXCEPT !.queue = @ \ {g}]
  PROVE  an' = JobOf(an.pc, an.queue \ {g}, an.asks, an.g, an.id, an.pats, an.fit, an.needs)
BY JobKnown DEF JobOf

LEMMA PcMoves ==
  ASSUME TypeOK, NEW pc, an' = [an EXCEPT !.pc = pc]
  PROVE  an' = JobOf(pc, an.queue, an.asks, an.g, an.id, an.pats, an.fit, an.needs)
BY JobKnown DEF JobOf

LEMMA PatsMoves ==
  ASSUME TypeOK, NEW pats, an' = [an EXCEPT !.pats = pats]
  PROVE  an' = JobOf(an.pc, an.queue, an.asks, an.g, an.id, pats, an.fit, an.needs)
BY JobKnown DEF JobOf

LEMMA PcPatsMoves ==
  ASSUME TypeOK, NEW pc, NEW pats, an' = [an EXCEPT !.pc = pc, !.pats = pats]
  PROVE  an' = JobOf(pc, an.queue, an.asks, an.g, an.id, pats, an.fit, an.needs)
<1>2. /\ an' = [k \in Fields |-> an'[k]]
      /\ an'.pc = pc /\ an'.queue = an.queue /\ an'.asks = an.asks /\ an'.g = an.g
      /\ an'.id = an.id /\ an'.pats = pats /\ an'.fit = an.fit /\ an'.needs = an.needs
  BY JobKnown DEF JobType, Fields
<1> QED BY <1>2, JobFromFields

LEMMA ReloadMoves ==
  ASSUME TypeOK, Reload
  PROVE  an' = JobOf("check", an.queue, an.asks, an.g, an.id, an.pats,
                     IF Exists(an.g) THEN Fit(an.g) ELSE an.fit, an.needs)
<1> DEFINE fit == IF Exists(an.g) THEN Fit(an.g) ELSE an.fit
<1>1. an' = [an EXCEPT !.pc = "check", !.fit = fit]
  BY DEF Reload
<1> HIDE DEF fit
<1>2. /\ an' = [k \in Fields |-> an'[k]]
      /\ an'.pc = "check" /\ an'.queue = an.queue /\ an'.asks = an.asks /\ an'.g = an.g
      /\ an'.id = an.id /\ an'.pats = an.pats /\ an'.fit = fit /\ an'.needs = an.needs
  BY <1>1, JobKnown DEF JobType, Fields
<1>3. an' = JobOf("check", an.queue, an.asks, an.g, an.id, an.pats, fit, an.needs)
  BY <1>2, JobFromFields
<1> QED BY <1>3 DEF fit

LEMMA CheckMoves ==
  ASSUME TypeOK, CheckCoverage
  PROVE  an' = JobOf("write", an.queue, an.asks, an.g, an.id, an.pats, FALSE,
                     an.fit /\ Uncovered(an.g))
<1> DEFINE needs == an.fit /\ Uncovered(an.g)
<1>1. an' = [an EXCEPT !.pc = "write", !.fit = FALSE, !.needs = needs]
  BY DEF CheckCoverage
<1> HIDE DEF needs
<1>2. /\ an' = [k \in Fields |-> an'[k]]
      /\ an'.pc = "write" /\ an'.queue = an.queue /\ an'.asks = an.asks /\ an'.g = an.g
      /\ an'.id = an.id /\ an'.pats = an.pats /\ an'.fit = FALSE /\ an'.needs = needs
  BY <1>1, JobKnown DEF JobType, Fields
<1>3. an' = JobOf("write", an.queue, an.asks, an.g, an.id, an.pats, FALSE, needs)
  BY <1>2, JobFromFields
<1> QED BY <1>3 DEF needs

LEMMA WriteMoves ==
  ASSUME TypeOK, WriteFlag
  PROVE  an' = JobOf("next", an.queue, {}, NoGroup, 0, {}, FALSE, FALSE)
<1>1. an' = [Idle EXCEPT !.pc = "next", !.queue = an.queue]
  BY DEF WriteFlag
<1>2. /\ an' = [k \in Fields |-> an'[k]]
      /\ an'.pc = "next" /\ an'.queue = an.queue /\ an'.asks = {} /\ an'.g = NoGroup /\ an'.id = 0
      /\ an'.pats = {} /\ an'.fit = FALSE /\ an'.needs = FALSE
  BY <1>1 DEF Idle, Fields
<1>3. an' = JobOf(an'.pc, an'.queue, an'.asks, an'.g, an'.id, an'.pats, an'.fit, an'.needs)
  BY <1>2, JobFromFields
<1> QED BY <1>2, <1>3

-----------------------------------------------------------------------------
(* What the updates of the tables give.                                    *)

\* The tables have rows of their types.
LEMMA RowsKnown ==
  ASSUME TypeOK
  PROVE  /\ grp \in [Groups -> RowType] /\ rep \in [Reports -> ReportType]
         /\ \A g \in Groups : /\ grp[g] = [state |-> grp[g].state, flag |-> grp[g].flag,
                                           recheck |-> grp[g].recheck]
                              /\ grp[g].state \in States
                              /\ grp[g].flag \in BOOLEAN /\ grp[g].recheck \in BOOLEAN
         /\ \A i \in Reports : /\ rep[i] = [g |-> rep[i].g, pats |-> rep[i].pats, st |-> rep[i].st]
                               /\ rep[i].g \in Groups \cup {NoGroup} /\ rep[i].pats \in SUBSET Patterns
                               /\ rep[i].st \in {"none", "running", "completed", "error", "gone"}
<1>1. grp \in [Groups -> RowType] /\ rep \in [Reports -> ReportType]
  BY DEF TypeOK, RowType, ReportType
<1> QED BY <1>1 DEF RowType, ReportType

\* A step that leaves the group and the patterns of every report alone.
SameReports ==
  /\ rep' \in [Reports -> ReportType]
  /\ \A i \in Reports : /\ rep'[i].g = rep[i].g /\ rep'[i].pats = rep[i].pats
                        /\ rep'[i].st = "none" <=> rep[i].st = "none"
                        /\ rep'[i].st = "gone" <=> rep[i].st = "gone"

LEMMA RepUnchanged == ASSUME TypeOK, rep' = rep PROVE SameReports
BY RowsKnown DEF SameReports

LEMMA OutcomeKeeps ==
  ASSUME TypeOK, an.id \in Reports, NEW st \in {"completed", "error"}, Outcome(st)
  PROVE  SameReports
<1>1. CASE rep[an.id].st # "running"
  BY <1>1, RepUnchanged DEF Outcome
<1>2. CASE rep[an.id].st = "running"
  <2>1. rep' = [rep EXCEPT ![an.id] = [rep[an.id] EXCEPT !.st = st]]
    BY <1>2 DEF Outcome
  <2> DEFINE v == [rep[an.id] EXCEPT !.st = st]
  <2>2. v = [g |-> rep[an.id].g, pats |-> rep[an.id].pats, st |-> st]
    BY RowsKnown
  <2>3. v \in ReportType
    BY <2>2, RowsKnown DEF ReportType
  <2> HIDE DEF v
  <2>4. rep' \in [Reports -> ReportType] /\ rep'[an.id] = v
        /\ \A i \in Reports : i # an.id => rep'[i] = rep[i]
    BY <2>1, <2>3, RowsKnown DEF v
  <2> QED BY <1>2, <2>2, <2>4 DEF SameReports
<1> QED BY <1>1, <1>2

LEMMA RestartKeeps == ASSUME TypeOK, Restart PROVE SameReports
<1> SUFFICES ASSUME NEW i \in Reports
             PROVE  /\ rep'[i] \in ReportType
                    /\ rep'[i].g = rep[i].g /\ rep'[i].pats = rep[i].pats
                    /\ rep'[i].st = "none" <=> rep[i].st = "none"
                    /\ rep'[i].st = "gone" <=> rep[i].st = "gone"
  BY DEF Restart, SameReports
<1>1. CASE rep[i].st # "running"
  <2>1. rep'[i] = rep[i]
    BY <1>1 DEF Restart
  <2> QED BY <2>1, RowsKnown
<1>2. CASE rep[i].st = "running"
  <2>1. rep'[i] = [rep[i] EXCEPT !.st = "error"]
    BY <1>2 DEF Restart
  <2>2. rep'[i] = [g |-> rep[i].g, pats |-> rep[i].pats, st |-> "error"]
    BY <2>1, RowsKnown
  <2> QED BY <1>2, <2>2, RowsKnown DEF ReportType
<1> QED BY <1>1, <1>2

\* Reports go with their groups.
LEMMA DropKnown ==
  ASSUME TypeOK, NEW G \in SUBSET Groups, Drop(G)
  PROVE  /\ rep' \in [Reports -> ReportType] /\ keys' \in [Groups -> SUBSET Keys]
         /\ \A i \in Reports : IF rep[i].g \in G
              THEN rep'[i].g = NoGroup /\ rep'[i].st = "gone" /\ rep'[i].pats = {}
              ELSE rep'[i] = rep[i]
         /\ \A g \in Groups \ G : keys'[g] = keys[g]
<1>1. \A i \in Reports : /\ rep'[i] \in ReportType
                         /\ IF rep[i].g \in G
                              THEN rep'[i].g = NoGroup /\ rep'[i].st = "gone" /\ rep'[i].pats = {}
                              ELSE rep'[i] = rep[i]
  <2> SUFFICES ASSUME NEW i \in Reports
               PROVE  /\ rep'[i] \in ReportType
                      /\ IF rep[i].g \in G
                           THEN rep'[i].g = NoGroup /\ rep'[i].st = "gone" /\ rep'[i].pats = {}
                           ELSE rep'[i] = rep[i]
    OBVIOUS
  <2>1. rep'[i] = IF rep[i].g \in G THEN [g |-> NoGroup, st |-> "gone", pats |-> {}] ELSE rep[i]
    BY DEF Drop
  <2> QED BY <2>1, RowsKnown DEF ReportType
<1>2. rep' \in [Reports -> ReportType]
  BY <1>1 DEF Drop
<1>3. keys \in [Groups -> SUBSET Keys]
  BY DEF TypeOK
<1> QED BY <1>1, <1>2, <1>3 DEF Drop

\* One column of the group's row is written.
LEMMA FlagWritten ==
  ASSUME TypeOK, NEW h \in Groups, NEW b \in BOOLEAN, grp' = [grp EXCEPT ![h].flag = b]
  PROVE  /\ grp' \in [Groups -> RowType]
         /\ \A g \in Groups : g # h => grp'[g] = grp[g]
         /\ grp'[h].state = grp[h].state /\ grp'[h].recheck = grp[h].recheck /\ grp'[h].flag = b
<1> DEFINE v == [grp[h] EXCEPT !.flag = b]
<1>1. grp' = [grp EXCEPT ![h] = v]
  OBVIOUS
<1>2. v = [state |-> grp[h].state, flag |-> b, recheck |-> grp[h].recheck]
  BY RowsKnown
<1>3. v \in RowType
  BY <1>2, RowsKnown DEF RowType
<1> HIDE DEF v
<1> QED BY <1>1, <1>2, <1>3, RowsKnown

\* The rows of the groups that are gone.
LEMMA RowsGone ==
  ASSUME TypeOK, NEW G \in SUBSET Groups,
         grp' = [g \in Groups |-> IF g \in G THEN NoRow ELSE grp[g]]
  PROVE  grp' \in [Groups -> RowType]
<1>1. NoRow \in RowType
  BY DEF NoRow, RowType, States
<1> QED BY <1>1, RowsKnown

\* A pattern is recorded with the report of the job.
LEMMA PatternWritten ==
  ASSUME TypeOK, an.id \in Reports, NEW p \in Patterns,
         IF rep[an.id].st = "gone" THEN UNCHANGED rep
                                   ELSE rep' = [rep EXCEPT ![an.id].pats = @ \cup {p}]
  PROVE  /\ rep' \in [Reports -> ReportType]
         /\ \A i \in Reports : rep'[i].g = rep[i].g /\ rep'[i].st = rep[i].st
         /\ \A i \in Reports : i # an.id => rep'[i] = rep[i]
         /\ rep'[an.id].pats = IF rep[an.id].st = "gone" THEN rep[an.id].pats
                                                        ELSE rep[an.id].pats \cup {p}
<1>1. CASE rep[an.id].st = "gone"
  BY <1>1, RowsKnown
<1>2. CASE rep[an.id].st # "gone"
  <2> DEFINE P == rep[an.id].pats \cup {p}
             v == [rep[an.id] EXCEPT !.pats = P]
  <2>1. rep' = [rep EXCEPT ![an.id] = v]
    BY <1>2
  <2>2. v = [g |-> rep[an.id].g, pats |-> P, st |-> rep[an.id].st]
    <3> HIDE DEF P
    <3> QED BY RowsKnown
  <2>3. v \in ReportType
    BY <2>2, RowsKnown DEF ReportType
  <2> HIDE DEF v
  <2> QED BY <1>2, <2>1, <2>2, <2>3, RowsKnown
<1> QED BY <1>1, <1>2

\* What the tracker makes of a group the mail adds pats to: it creates the row
\* open, never takes a flag or a re-check away, and sets one for a reason.
LEMMA RecountKnown ==
  ASSUME TypeOK, NEW g \in Groups, NEW pats \in SUBSET Patterns, NEW late \in BOOLEAN,
         NEW r, r = Recount(g, pats, late)
  PROVE  /\ r.row \in RowType /\ r.hit \in BOOLEAN
         /\ r.row.state = IF Exists(g) THEN grp[g].state ELSE "open"
         /\ Exists(g) /\ grp[g].flag => r.row.flag
         /\ Exists(g) /\ grp[g].recheck => r.row.recheck
         /\ Exists(g) /\ g \in flagged => r.row = grp[g]
         /\ ~Exists(g) => r.row.flag = (g \in Actionable)
         /\ r.row.flag => g \in Actionable \/ (Exists(g) /\ grp[g].flag)
         /\ r.row.flag => r.row.state = "open" \/ r.row.recheck \/ (Exists(g) /\ grp[g].flag)
         /\ r.hit => g \in Actionable /\ r.row.flag /\ (r.row.state = "open" \/ r.row.recheck)
         /\ g \notin flagged /\ r.row.state \in Decided /\ ~r.row.recheck /\ g \in ByPattern
              => \A p \in pats : KeyOf[p] \in keys[g]
         /\ g \notin flagged /\ r.row.state = "open" /\ ~r.row.flag /\ g \in Actionable
              => \A p \in pats : PatternCovered(g, p)
<1> DEFINE new  == [state |-> "open", flag |-> g \in Actionable, recheck |-> FALSE]
           cur  == IF Exists(g) THEN grp[g] ELSE new
           back == cur.state \in Decided /\ ~cur.recheck
           sent == [cur EXCEPT !.recheck = TRUE, !.flag = @ \/ g \in Actionable]
           up   == [cur EXCEPT !.flag = TRUE]
           b    == cur.flag \/ g \in Actionable
<1>1. /\ cur = [state |-> cur.state, flag |-> cur.flag, recheck |-> cur.recheck]
      /\ cur \in RowType /\ cur.state = IF Exists(g) THEN grp[g].state ELSE "open"
      /\ Exists(g) => cur = grp[g]
      /\ ~Exists(g) => cur.flag = (g \in Actionable) /\ ~cur.recheck
      /\ cur.state \in {"open"} \cup Decided
  <2>1. CASE Exists(g)
    <3>1. cur = grp[g]
      BY <2>1
    <3> HIDE DEF cur
    <3>2. cur.state \in {"open"} \cup Decided
      BY <2>1, <3>1, RowsKnown DEF States, Exists, Decided
    <3> QED BY <2>1, <3>1, <3>2, RowsKnown
  <2>2. CASE ~Exists(g)
    <3>1. cur = [state |-> "open", flag |-> g \in Actionable, recheck |-> FALSE]
      BY <2>2
    <3> QED BY <2>2, <3>1 DEF RowType, States
  <2> QED BY <2>1, <2>2
<1>c. cur.flag \in BOOLEAN /\ cur.recheck \in BOOLEAN /\ cur.state \in States
  BY <1>1 DEF RowType
<1> HIDE DEF cur
<1>b. b \in BOOLEAN /\ (b <=> cur.flag \/ g \in Actionable)
  OBVIOUS
<1>2. sent = [state |-> cur.state, flag |-> b, recheck |-> TRUE]
  <2>1. sent = [cur EXCEPT !.recheck = TRUE, !.flag = b]
    OBVIOUS
  <2> HIDE DEF b
  <2>2. /\ sent = [k \in {"state", "flag", "recheck"} |-> sent[k]]
        /\ sent.state = cur.state /\ sent.flag = b /\ sent.recheck = TRUE
    BY <1>1, <2>1
  <2> HIDE DEF sent
  <2> QED BY <2>2
<1>3. up = [state |-> cur.state, flag |-> TRUE, recheck |-> cur.recheck]
  <2>1. /\ up = [k \in {"state", "flag", "recheck"} |-> up[k]]
        /\ up.state = cur.state /\ up.flag = TRUE /\ up.recheck = cur.recheck
    BY <1>1
  <2> HIDE DEF up
  <2> QED BY <2>1
<1> HIDE DEF sent, up, b
<1>4. r = CASE g \in flagged -> [row |-> cur, hit |-> FALSE]
            [] g \notin flagged /\ back ->
                 IF SendsBack(g, pats, late) THEN [row |-> sent, hit |-> g \in Actionable]
                                             ELSE [row |-> cur, hit |-> FALSE]
            [] OTHER ->
                 IF g \in Actionable /\ \E p \in pats : ~PatternCovered(g, p)
                   THEN [row |-> up, hit |-> TRUE] ELSE [row |-> cur, hit |-> FALSE]
  BY DEF Recount, cur, sent, up
<1>5. CASE g \in flagged
  <2>1. r.row = cur /\ r.hit = FALSE
    BY <1>4, <1>5
  <2> QED BY <1>1, <1>5, <2>1
<1>6. CASE g \notin flagged /\ back /\ SendsBack(g, pats, late)
  <2>1. r.row = sent /\ r.hit = (g \in Actionable)
    BY <1>4, <1>6
  <2>2. sent \in RowType
    BY <1>2, <1>b, <1>c DEF RowType
  <2>3. /\ r.row.state = cur.state /\ r.row.recheck = TRUE
        /\ r.row.flag = b
    BY <1>2, <2>1
  <2> QED BY <1>1, <1>6, <1>b, <1>c, <2>1, <2>2, <2>3
<1>7. CASE g \notin flagged /\ back /\ ~SendsBack(g, pats, late)
  <2>1. r.row = cur /\ r.hit = FALSE
    BY <1>4, <1>7
  <2>2. g \in ByPattern => \A p \in pats : KeyOf[p] \in keys[g]
    BY <1>7 DEF SendsBack
  <2> QED BY <1>1, <1>7, <2>1, <2>2 DEF Decided
<1>8. CASE g \notin flagged /\ ~back /\ g \in Actionable /\ \E p \in pats : ~PatternCovered(g, p)
  <2>1. r.row = up /\ r.hit = TRUE
    BY <1>4, <1>8
  <2>2. up \in RowType
    BY <1>3, <1>c DEF RowType
  <2>3. r.row.state = cur.state /\ r.row.recheck = cur.recheck /\ r.row.flag = TRUE
    BY <1>3, <2>1
  <2> QED BY <1>1, <1>8, <1>c, <2>1, <2>2, <2>3 DEF Decided
<1>9. CASE g \notin flagged /\ ~back /\ ~(g \in Actionable /\ \E p \in pats : ~PatternCovered(g, p))
  <2>1. r.row = cur /\ r.hit = FALSE
    BY <1>4, <1>9
  <2> QED BY <1>1, <1>9, <2>1 DEF Decided
<1> QED BY <1>5, <1>6, <1>7, <1>8, <1>9

Into(plan)    == {g \in Groups : \E p \in Patterns : <<g, p>> \in plan}
Adds(plan, g) == {p \in Patterns : <<g, p>> \in plan}

\* One mail is filed: the groups of the plan are recounted, groups it left may
\* be gone, the others stay.
LEMMA MailFiled ==
  ASSUME TypeOK, GroupsAssumption, NEW m \in Mails, NEW plan \in Plans, NEW late \in BOOLEAN,
         GroupMessage(m, plan, late)
  PROVE  \E gone \in SUBSET Groups :
           /\ gone \cap Into(plan) = {} /\ Drop(gone)
           /\ filed' \in [Mails -> SUBSET (Groups \X Patterns)]
           /\ grp' \in [Groups -> RowType] /\ flagged' \subseteq Groups
           /\ \A g \in Into(plan) :
                /\ grp'[g] = Recount(g, Adds(plan, g), late).row
                /\ g \in flagged' <=> g \in flagged \/ Recount(g, Adds(plan, g), late).hit
                /\ Members(g)' \subseteq Members(g) \cup Adds(plan, g)
           /\ \A g \in Groups \ Into(plan) :
                /\ grp'[g] = IF g \in gone THEN NoRow ELSE grp[g]
                /\ g \in flagged' <=> g \in flagged
                /\ Members(g)' \subseteq Members(g)
           /\ raced' = (raced \cup {g \in Into(plan) : Settles(g)}) \ gone
<1> DEFINE into   == Into(plan)
           left   == {g \in Groups : \E p \in Patterns : <<g, p>> \in filed[m]} \ into
           F      == [filed EXCEPT ![m] = plan]
           gone   == Emptied(F, left)
           result == [g \in into |-> Recount(g, Adds(plan, g), late)]
<1>1. /\ filed' = F
      /\ grp' = [g \in Groups |-> IF g \in into THEN result[g].row
                                  ELSE IF g \in gone THEN NoRow ELSE grp[g]]
      /\ flagged' = flagged \cup {g \in into : result[g].hit}
      /\ Drop(gone)
      /\ raced' = (raced \cup {g \in into : Settles(g)}) \ gone
  BY DEF GroupMessage, Into, Adds
<1>2. plan \in SUBSET (Groups \X Patterns) /\ filed \in [Mails -> SUBSET (Groups \X Patterns)]
  BY DEF GroupsAssumption, TypeOK
<1>3. F \in [Mails -> SUBSET (Groups \X Patterns)]
  BY <1>2
<1>4. gone \in SUBSET Groups /\ gone \cap into = {} /\ into \subseteq Groups
  BY DEF Emptied, Into
<1>5. \A g \in Groups : Members(g)' \subseteq Members(g) \cup Adds(plan, g)
  BY <1>1, <1>2 DEF Members, PatternsIn, Adds
<1>6. \A g \in Groups \ into : Adds(plan, g) = {}
  BY DEF Into, Adds
<1>7. \A g \in into : result[g] = Recount(g, Adds(plan, g), late)
  OBVIOUS
<1>8. \A g \in into : Recount(g, Adds(plan, g), late).row \in RowType
  <2> TAKE g \in into
  <2>1. Adds(plan, g) \in SUBSET Patterns /\ g \in Groups
    BY <1>4 DEF Adds
  <2> QED BY <2>1, RecountKnown
<1>9. NoRow \in RowType
  BY DEF NoRow, RowType, States
<1> HIDE DEF into, gone, result, F
<1>10. grp' \in [Groups -> RowType]
  BY <1>1, <1>4, <1>7, <1>8, <1>9, RowsKnown
<1>11. flagged' \subseteq Groups
  BY <1>1, <1>4 DEF TypeOK
<1>12. \A g \in into : /\ grp'[g] = Recount(g, Adds(plan, g), late).row
                       /\ g \in flagged' <=> g \in flagged \/ Recount(g, Adds(plan, g), late).hit
  BY <1>1, <1>4, <1>7
<1>13. \A g \in Groups \ into : /\ grp'[g] = IF g \in gone THEN NoRow ELSE grp[g]
                                /\ g \in flagged' <=> g \in flagged
  BY <1>1
<1>14. filed' \in [Mails -> SUBSET (Groups \X Patterns)]
  BY <1>1, <1>3
<1> QED BY <1>1, <1>4, <1>5, <1>6, <1>10, <1>11, <1>12, <1>13, <1>14 DEF into

-----------------------------------------------------------------------------
(* The structure is kept.                                                  *)

LEMMA TypeKept ==
  ASSUME StructInv, GroupsAssumption, GroupBoundsAssumption, [Next]_vars
  PROVE  TypeOK'
<1> USE GroupsAssumption, GroupBoundsAssumption
<1>0. /\ TypeOK /\ JobInv /\ grp \in [Groups -> RowType] /\ rep \in [Reports -> ReportType]
      /\ an \in JobType
      /\ an.pc \in Working => an.id \in Reports
  BY RowsKnown, JobKnown DEF StructInv, JobInv
<1>t. ASSUME mail' \in [Mails -> {"absent", "waiting", "filed"}],
             filed' \in [Mails -> SUBSET (Groups \X Patterns)],
             grp' \in [Groups -> RowType], keys' \in [Groups -> SUBSET Keys],
             rep' \in [Reports -> ReportType], run' \in {"off", "on", "full"}, todo' \subseteq Mails,
             flagged' \subseteq Groups, an' \in JobType, asked' \subseteq Groups,
             raced' \subseteq Groups, cut' \subseteq Reports, events' \in 0 .. MaxEvents
      PROVE  TypeOK'
  BY <1>t DEF TypeOK, RowType, ReportType, JobType
<1>f. /\ an.queue \in SUBSET Groups /\ an.asks \in SUBSET Groups /\ an.g \in Groups \cup {NoGroup}
      /\ an.id \in 0 .. MaxReports /\ an.pats \in SUBSET Patterns /\ an.fit \in BOOLEAN
      /\ an.needs \in BOOLEAN
      /\ an.pc \in {"idle", "flag", "next", "evidence", "agent", "list", "record", "check", "write"}
  BY <1>0 DEF JobType
<1>i. Idle \in JobType
  BY DEF Idle, JobType
<1>m. \A g : Members(g) \in SUBSET Patterns
  BY DEF Members, PatternsIn
<1>1. CASE UNCHANGED vars
  BY <1>0, <1>1 DEF vars, TypeOK
<1>2. ASSUME NEW m \in Mails, Fetch(m) PROVE TypeOK'
  BY <1>0, <1>2 DEF Fetch, TypeOK, scan, ghost
<1>3. ASSUME NEW full \in BOOLEAN, StartGrouping(full) PROVE TypeOK'
  <2>1. /\ mail' \in [Mails -> {"absent", "waiting", "filed"}]
        /\ filed' \in [Mails -> SUBSET (Groups \X Patterns)] /\ todo' \subseteq Mails
    BY <1>0, <1>3 DEF StartGrouping, TypeOK
  <2> QED BY <1>0, <1>3, <2>1 DEF StartGrouping, TypeOK, ghost
<1>4. ASSUME NEW m \in Mails, NEW plan \in Plans, NEW late \in BOOLEAN, GroupMessage(m, plan, late)
      PROVE  TypeOK'
  <2>1. PICK gone \in SUBSET Groups :
          /\ Drop(gone) /\ filed' \in [Mails -> SUBSET (Groups \X Patterns)]
          /\ grp' \in [Groups -> RowType] /\ flagged' \subseteq Groups
          /\ raced' = (raced \cup {g \in Into(plan) : Settles(g)}) \ gone
    BY <1>0, <1>4, MailFiled
  <2>2. rep' \in [Reports -> ReportType] /\ keys' \in [Groups -> SUBSET Keys]
    BY <1>0, <2>1, DropKnown
  <2>3. raced' \subseteq Groups
    BY <1>0, <2>1 DEF TypeOK, Into
  <2>4. /\ mail' = [mail EXCEPT ![m] = "filed"] /\ todo' = todo \ {m}
        /\ asked' \subseteq asked /\ UNCHANGED <<run, an, cut, events>>
    BY <1>4 DEF GroupMessage, StillAsked
  <2>5. /\ mail' \in [Mails -> {"absent", "waiting", "filed"}] /\ todo' \subseteq Mails
        /\ asked' \subseteq Groups /\ run' \in {"off", "on", "full"} /\ an' \in JobType
        /\ cut' \subseteq Reports /\ events' \in 0 .. MaxEvents
    BY <1>0, <2>4 DEF TypeOK
  <2> QED BY <1>t, <2>1, <2>2, <2>3, <2>5
<1>5. CASE EndGrouping
  <2> DEFINE gone == IF run = "full" /\ todo = {} THEN Emptied(filed, Groups) ELSE {}
  <2>1. /\ gone \in SUBSET Groups /\ grp' = [g \in Groups |-> IF g \in gone THEN NoRow ELSE grp[g]]
        /\ Drop(gone)
    BY <1>5 DEF EndGrouping, Emptied
  <2> HIDE DEF gone
  <2>2. rep' \in [Reports -> ReportType] /\ keys' \in [Groups -> SUBSET Keys]
        /\ grp' \in [Groups -> RowType]
    BY <1>0, <2>1, DropKnown, RowsGone
  <2>3. /\ asked' \subseteq asked /\ UNCHANGED <<mail, filed, an, cut, raced, events>>
        /\ run' = "off" /\ todo' = {} /\ flagged' = {}
    BY <1>5 DEF EndGrouping, StillAsked
  <2>4. /\ mail' \in [Mails -> {"absent", "waiting", "filed"}]
        /\ filed' \in [Mails -> SUBSET (Groups \X Patterns)]
        /\ asked' \subseteq Groups /\ run' \in {"off", "on", "full"} /\ an' \in JobType
        /\ todo' \subseteq Mails /\ flagged' \subseteq Groups /\ raced' \subseteq Groups
        /\ cut' \subseteq Reports /\ events' \in 0 .. MaxEvents
    BY <1>0, <2>3 DEF TypeOK
  <2> QED BY <1>t, <2>2, <2>4
<1>6. ASSUME NEW S \in SUBSET Mails, Prune(S) PROVE TypeOK'
  <2> DEFINE gone == {g \in Groups : Exists(g) /\ PatternsIn(filed', g) = {}}
  <2>1. /\ gone \in SUBSET Groups /\ grp' = [g \in Groups |-> IF g \in gone THEN NoRow ELSE grp[g]]
        /\ Drop(gone)
    BY <1>6 DEF Prune, Emptied
  <2> HIDE DEF gone
  <2>2. rep' \in [Reports -> ReportType] /\ keys' \in [Groups -> SUBSET Keys]
        /\ grp' \in [Groups -> RowType]
    BY <1>0, <2>1, DropKnown, RowsGone
  <2>3. /\ asked' \subseteq asked /\ UNCHANGED <<run, todo, flagged, an, cut, raced, events>>
        /\ mail'  = [m \in Mails |-> IF m \in S THEN "absent" ELSE mail[m]]
        /\ filed' = [m \in Mails |-> IF m \in S THEN {} ELSE filed[m]]
    BY <1>6 DEF Prune, Expire, StillAsked, scan
  <2>4. /\ mail' \in [Mails -> {"absent", "waiting", "filed"}]
        /\ filed' \in [Mails -> SUBSET (Groups \X Patterns)]
    BY <1>0, <2>3 DEF TypeOK
  <2>5. /\ asked' \subseteq Groups /\ run' \in {"off", "on", "full"} /\ an' \in JobType
        /\ todo' \subseteq Mails /\ flagged' \subseteq Groups /\ raced' \subseteq Groups
        /\ cut' \subseteq Reports /\ events' \in 0 .. MaxEvents
    BY <1>0, <2>3 DEF TypeOK
  <2> QED BY <1>t, <2>2, <2>4, <2>5
<1>7. ASSUME NEW S \in SUBSET Mails, PruneCutOff(S) PROVE TypeOK'
  <2>1. /\ UNCHANGED <<grp, keys, rep, run, todo, flagged, an, asked, cut, raced>>
        /\ events' = events + 1 /\ events < MaxEvents
        /\ mail'  = [m \in Mails |-> IF m \in S THEN "absent" ELSE mail[m]]
        /\ filed' = [m \in Mails |-> IF m \in S THEN {} ELSE filed[m]]
    BY <1>7 DEF PruneCutOff, Expire, scan, ghost
  <2>2. /\ mail' \in [Mails -> {"absent", "waiting", "filed"}]
        /\ filed' \in [Mails -> SUBSET (Groups \X Patterns)] /\ events' \in 0 .. MaxEvents
    BY <1>0, <2>1 DEF TypeOK
  <2> QED BY <1>0, <2>1, <2>2 DEF TypeOK
<1>8. ASSUME an' \in JobType, UNCHANGED <<index, scan, ghost, events>> PROVE TypeOK'
  BY <1>0, <1>8, <1>t DEF TypeOK, index, scan, ghost
<1>9. CASE StartAnalysis
  <2>1. PICK Q \in SUBSET Groups : an' = JobOf("next", Q, {}, NoGroup, 0, {}, FALSE, FALSE)
    BY <1>9, StartMoves
  <2>2. an' \in JobType
    BY <2>1 DEF JobOf, JobType
  <2> QED BY <1>8, <1>9, <2>2 DEF StartAnalysis
<1>10. CASE StartRequested
  <2>1. PICK Q \in SUBSET Groups : an' = JobOf("flag", Q, Q, NoGroup, 0, {}, FALSE, FALSE)
    BY <1>10, RequestMoves
  <2>2. an' \in JobType
    BY <2>1 DEF JobOf, JobType
  <2> QED BY <1>8, <1>10, <2>2 DEF StartRequested
<1>11. ASSUME NEW g \in Groups, FlagAsked(g) PROVE TypeOK'
  <2>1. an' \in JobType
    BY <1>0, <1>11, <1>f, FlagMoves DEF JobOf, JobType
  <2>2. grp' \in [Groups -> RowType]
    BY <1>0, <1>11, FlagWritten DEF FlagAsked
  <2> QED BY <1>0, <1>11, <2>1, <2>2, <1>t DEF FlagAsked, TypeOK, scan
<1>12. ASSUME NEW g \in Groups, BeginGroup(g) PROVE TypeOK'
  <2>1. CASE Exists(g)
    <3>1. PICK i \in Unused :
            /\ rep' = [rep EXCEPT ![i] = [g |-> g, st |-> "running", pats |-> {}]]
            /\ an' = [an EXCEPT !.pc = "evidence", !.queue = @ \ {g}, !.g = g, !.id = i, !.fit = Fit(g)]
      BY <1>12, <2>1 DEF BeginGroup
    <3>2. i \in 0 .. MaxReports /\ Fit(g) \in BOOLEAN
      BY DEF Unused, Reports, Fit
    <3>3. an' \in JobType
      BY <1>0, <1>f, <3>1, <3>2, BeginMoves DEF JobOf, JobType
    <3>4. [g |-> g, st |-> "running", pats |-> {}] \in ReportType
      BY DEF ReportType
    <3>5. rep' \in [Reports -> ReportType]
      BY <1>0, <3>1, <3>4
    <3> QED BY <1>0, <1>12, <1>t, <3>3, <3>5 DEF BeginGroup, TypeOK, scan, ghost
  <2>2. CASE ~Exists(g)
    <3>1. an' \in JobType
      BY <1>0, <1>12, <1>f, <2>2, PassMoves DEF BeginGroup, JobOf, JobType
    <3> QED BY <1>0, <1>12, <1>t, <2>2, <3>1 DEF BeginGroup, TypeOK, scan, ghost
  <2> QED BY <2>1, <2>2
<1>13. CASE Evidence
  <2>1. an' \in JobType
    BY <1>0, <1>13, <1>f, <1>m, PcPatsMoves DEF Evidence, JobOf, JobType
  <2> QED BY <1>8, <1>13, <2>1 DEF Evidence
<1>o. ASSUME NEW st \in {"completed", "error"}, Outcome(st), an' \in JobType, an.pc \in Working,
             UNCHANGED <<mail, filed, grp, keys, scan, ghost, events>>
      PROVE  TypeOK'
  <2>1. rep' \in [Reports -> ReportType]
    BY <1>0, <1>o, OutcomeKeeps DEF SameReports
  <2> QED BY <1>0, <1>o, <1>t, <2>1 DEF TypeOK, scan, ghost
<1>14. CASE AgentReports
  <2>1. an' \in JobType
    BY <1>0, <1>14, <1>f, PcMoves DEF AgentReports, JobOf, JobType
  <2> QED BY <1>14, <1>o, <2>1 DEF AgentReports, Working
<1>15. CASE AgentRefused
  BY <1>15, <1>i, <1>o DEF AgentRefused, Working
<1>16. CASE AgentFails
  <2>1. an' \in JobType
    BY <1>0, <1>16, <1>f, PcPatsMoves DEF AgentFails, JobOf, JobType
  <2> QED BY <1>16, <1>o, <2>1 DEF AgentFails, Working
<1>17. CASE ListPatterns
  <2>1. an' \in JobType
    BY <1>0, <1>17, <1>f, <1>m, PcPatsMoves DEF ListPatterns, JobOf, JobType
  <2> QED BY <1>8, <1>17, <2>1 DEF ListPatterns
<1>18. ASSUME NEW p \in Patterns, RecordPattern(p) PROVE TypeOK'
  <2>1. an' \in JobType
    BY <1>0, <1>18, <1>f, PatsMoves DEF RecordPattern, JobOf, JobType
  <2>2. rep' \in [Reports -> ReportType]
    BY <1>0, <1>18, PatternWritten DEF RecordPattern, Working
  <2> QED BY <1>0, <1>18, <1>t, <2>1, <2>2 DEF RecordPattern, TypeOK, scan, ghost
<1>19. CASE Reload
  <2>1. an' \in JobType
    <3> DEFINE fit == IF Exists(an.g) THEN Fit(an.g) ELSE an.fit
    <3>1. an' = JobOf("check", an.queue, an.asks, an.g, an.id, an.pats, fit, an.needs)
      BY <1>0, <1>19, ReloadMoves
    <3>2. fit \in BOOLEAN
      BY <1>f DEF Fit
    <3> HIDE DEF fit
    <3> QED BY <1>f, <3>1, <3>2 DEF JobOf, JobType
  <2> QED BY <1>8, <1>19, <2>1 DEF Reload
<1>20. CASE CheckCoverage
  <2>1. an' \in JobType
    <3>1. an' = JobOf("write", an.queue, an.asks, an.g, an.id, an.pats, FALSE,
                      an.fit /\ Uncovered(an.g))
      BY <1>0, <1>20, CheckMoves
    <3> QED BY <1>f, <3>1 DEF JobOf, JobType
  <2> QED BY <1>8, <1>20, <2>1 DEF CheckCoverage
<1>21. CASE WriteFlag
  <2>1. an' \in JobType
    <3>1. an' = JobOf("next", an.queue, {}, NoGroup, 0, {}, FALSE, FALSE)
      BY <1>0, <1>21, WriteMoves
    <3> QED BY <1>f, <3>1 DEF JobOf, JobType
  <2>2. grp' \in [Groups -> RowType] /\ an.g \in Groups
    BY <1>0, <1>21, <1>f, FlagWritten DEF WriteFlag, JobInv, Working
  <2>3. /\ UNCHANGED <<mail, filed, keys, rep, run, todo, flagged, cut, events>>
        /\ asked' \subseteq asked /\ raced' \subseteq raced \cup {an.g}
    BY <1>21 DEF WriteFlag, scan
  <2> QED BY <1>0, <2>1, <2>2, <2>3, <1>t DEF TypeOK
<1>22. CASE EndAnalysis
  BY <1>8, <1>22, <1>i DEF EndAnalysis
<1>23. ASSUME NEW g \in Groups, NEW s \in {"open"} \cup Decided, ChangeState(g, s) PROVE TypeOK'
  <2>1. [state |-> s, recheck |-> FALSE, flag |-> FlagAfterChange(g, s)] \in RowType
    BY <1>0 DEF FlagAfterChange, RowType, Uncovered, States, Decided
  <2>2. grp' \in [Groups -> RowType]
    BY <1>0, <1>23, <2>1 DEF ChangeState
  <2>3. KeysNow(g) \in SUBSET Keys
    BY <1>m DEF KeysNow
  <2>4. keys' \in [Groups -> SUBSET Keys] /\ asked' \subseteq Groups /\ raced' \subseteq Groups
        /\ events' \in 0 .. MaxEvents
    BY <1>0, <1>23, <2>3 DEF ChangeState, TypeOK, StillAsked
  <2>5. UNCHANGED <<mail, filed, rep, run, todo, flagged, an, cut>>
    BY <1>23 DEF ChangeState, scan
  <2> QED BY <1>0, <2>2, <2>4, <2>5, <1>t DEF TypeOK
<1>24. CASE Restart
  <2>1. rep' \in [Reports -> ReportType] /\ an' \in JobType
    BY <1>0, <1>24, <1>i, RestartKeeps DEF Restart, SameReports
  <2>2. cut' \subseteq Reports /\ events' \in 0 .. MaxEvents
    BY <1>0, <1>24 DEF Restart, TypeOK, BeingSettled, Working
  <2> QED BY <1>0, <1>24, <1>t, <2>1, <2>2 DEF Restart, TypeOK
<1> QED BY <1>1, <1>2, <1>3, <1>4, <1>5, <1>6, <1>7, <1>9, <1>10, <1>11, <1>12, <1>13, <1>14,
           <1>15, <1>16, <1>17, <1>18, <1>19, <1>20, <1>21, <1>22, <1>23, <1>24
        DEF Next, Grouping, Analyzing, Deciding

\* The job keeps its group and its report, or has none any more.
LEMMA StructSame ==
  ASSUME StructInv, TypeOK', SameReports,
         an'.pc \in Working => an.pc \in Working /\ an'.g = an.g /\ an'.id = an.id,
         an'.pc \notin Working => an'.g = NoGroup,
         an'.fit \/ an'.needs => an'.g \in Actionable
  PROVE  StructInv'
<1>1. JobInv'
  BY DEF StructInv, JobInv, Working
<1>2. /\ \A i \in Reports : rep'[i].st \in {"none", "gone"} => rep'[i].g = NoGroup /\ rep'[i].pats = {}
      /\ \A i, k \in Reports : i < k /\ rep'[k].st # "none" => rep'[i].st # "none"
  BY DEF StructInv, ReportsInv, SameReports
<1>3. ASSUME an'.pc \in Working
      PROVE  /\ rep'[an'.id].st # "none"
             /\ rep'[an'.id].st = "gone" \/ rep'[an'.id].g = an'.g
             /\ \A i \in Reports : i > an'.id => rep'[i].st = "none"
  BY <1>3 DEF StructInv, JobInv, ReportsInv, SameReports
<1>4. ReportsInv'
  BY <1>2, <1>3 DEF ReportsInv
<1> QED BY <1>1, <1>4 DEF StructInv

\* Reports went with their groups, while the job stays where it is.
LEMMA StructDrop ==
  ASSUME StructInv, TypeOK', NEW G \in SUBSET Groups, Drop(G), an' = an, GroupsAssumption
  PROVE  StructInv'
<1>1. /\ TypeOK
      /\ \A i \in Reports : IF rep[i].g \in G
           THEN rep'[i].g = NoGroup /\ rep'[i].st = "gone" /\ rep'[i].pats = {}
           ELSE rep'[i] = rep[i]
  BY DropKnown DEF StructInv
<1>2. JobInv'
  BY DEF StructInv, JobInv, Working
<1>3. \A i \in Reports : rep[i].st = "none" => rep'[i].st = "none"
  BY <1>1 DEF StructInv, ReportsInv, GroupsAssumption
<1>4. \A i \in Reports : rep'[i].st = "none" => rep[i].st = "none"
  BY <1>1
<1>5. /\ \A i \in Reports : rep'[i].st \in {"none", "gone"} => rep'[i].g = NoGroup /\ rep'[i].pats = {}
      /\ \A i, k \in Reports : i < k /\ rep'[k].st # "none" => rep'[i].st # "none"
  BY <1>1, <1>3, <1>4 DEF StructInv, ReportsInv
<1>6. ASSUME an'.pc \in Working
      PROVE  /\ rep'[an'.id].st # "none"
             /\ rep'[an'.id].st = "gone" \/ rep'[an'.id].g = an'.g
             /\ \A i \in Reports : i > an'.id => rep'[i].st = "none"
  BY <1>1, <1>3, <1>4, <1>6 DEF StructInv, JobInv, ReportsInv
<1>7. ReportsInv'
  BY <1>5, <1>6 DEF ReportsInv
<1> QED BY <1>2, <1>7 DEF StructInv

LEMMA StructKept ==
  ASSUME StructInv, GroupsAssumption, GroupBoundsAssumption, [Next]_vars
  PROVE  StructInv'
<1> USE GroupsAssumption
<1>0. TypeOK /\ JobInv /\ ReportsInv /\ TypeOK'
  BY TypeKept DEF StructInv
<1>n. NoGroup \notin Actionable
  BY DEF GroupsAssumption
<1>u. ASSUME rep' = rep, an' = an PROVE StructInv'
  <2>1. SameReports
    BY <1>0, <1>u, RepUnchanged
  <2> QED BY <1>0, <1>u, <2>1, StructSame DEF JobInv
<1>i. ASSUME SameReports, an'.pc \notin Working, an'.g = NoGroup, ~an'.fit, ~an'.needs
      PROVE  StructInv'
  BY <1>0, <1>i, StructSame
<1>w. ASSUME SameReports, an.pc \in Working, an'.pc \in Working, an'.g = an.g, an'.id = an.id,
             an'.fit \/ an'.needs => an.g \in Actionable
      PROVE  StructInv'
  BY <1>0, <1>w, StructSame
<1>1. CASE UNCHANGED vars
  BY <1>1, <1>u DEF vars
<1>2. ASSUME NEW m \in Mails, Fetch(m) PROVE StructInv'
  BY <1>2, <1>u DEF Fetch
<1>3. ASSUME NEW full \in BOOLEAN, StartGrouping(full) PROVE StructInv'
  BY <1>3, <1>u DEF StartGrouping
<1>4. ASSUME NEW m \in Mails, NEW plan \in Plans, NEW late \in BOOLEAN, GroupMessage(m, plan, late)
      PROVE  StructInv'
  <2>1. PICK gone \in SUBSET Groups : Drop(gone)
    BY <1>0, <1>4, MailFiled
  <2> QED BY <1>0, <1>4, <2>1, StructDrop DEF GroupMessage
<1>5. CASE EndGrouping
  <2> DEFINE gone == IF run = "full" /\ todo = {} THEN Emptied(filed, Groups) ELSE {}
  <2>1. gone \in SUBSET Groups /\ Drop(gone) /\ an' = an
    BY <1>5 DEF EndGrouping, Emptied
  <2> QED BY <1>0, <2>1, StructDrop
<1>6. ASSUME NEW S \in SUBSET Mails, Prune(S) PROVE StructInv'
  <2> DEFINE gone == {g \in Groups : Exists(g) /\ PatternsIn(filed', g) = {}}
  <2>1. gone \in SUBSET Groups /\ Drop(gone) /\ an' = an
    BY <1>6 DEF Prune, Emptied
  <2> QED BY <1>0, <2>1, StructDrop
<1>7. ASSUME NEW S \in SUBSET Mails, PruneCutOff(S) PROVE StructInv'
  BY <1>7, <1>u DEF PruneCutOff, scan
<1>s. ASSUME UNCHANGED index PROVE SameReports
  BY <1>0, <1>s, RepUnchanged DEF index
<1>9. CASE StartAnalysis
  <2>1. PICK Q \in SUBSET Groups : an' = JobOf("next", Q, {}, NoGroup, 0, {}, FALSE, FALSE)
    BY <1>9, StartMoves
  <2>2. an'.pc = "next" /\ an'.g = NoGroup /\ an'.fit = FALSE /\ an'.needs = FALSE
    BY <2>1 DEF JobOf
  <2>3. SameReports
    BY <1>9, <1>s DEF StartAnalysis
  <2> QED BY <1>i, <2>2, <2>3 DEF Working
<1>10. CASE StartRequested
  <2>1. PICK Q \in SUBSET Groups : an' = JobOf("flag", Q, Q, NoGroup, 0, {}, FALSE, FALSE)
    BY <1>10, RequestMoves
  <2> QED BY <1>10, <1>i, <1>s, <2>1 DEF StartRequested, JobOf, Working
<1>11. ASSUME NEW g \in Groups, FlagAsked(g) PROVE StructInv'
  <2>1. PICK pc \in {"next", "flag"} :
          an' = JobOf(pc, an.queue, an.asks \ {g}, an.g, an.id, an.pats, an.fit, an.needs)
    BY <1>0, <1>11, FlagMoves
  <2>2. SameReports
    BY <1>0, <1>11, RepUnchanged DEF FlagAsked
  <2>3. an.g = NoGroup /\ ~an.fit /\ ~an.needs
    BY <1>0, <1>11, <1>n DEF FlagAsked, JobInv, Working
  <2> QED BY <1>i, <2>1, <2>2, <2>3 DEF JobOf, Working
<1>12. ASSUME NEW g \in Groups, BeginGroup(g) PROVE StructInv'
  <2>0. an.pc = "next" /\ an.g = NoGroup /\ ~an.fit /\ ~an.needs
    BY <1>0, <1>12, <1>n DEF BeginGroup, JobInv, Working
  <2>1. CASE Exists(g)
    <3>1. PICK i \in Unused :
            /\ \A k \in Unused : i <= k
            /\ rep' = [rep EXCEPT ![i] = [g |-> g, st |-> "running", pats |-> {}]]
            /\ an' = [an EXCEPT !.pc = "evidence", !.queue = @ \ {g}, !.g = g, !.id = i, !.fit = Fit(g)]
      BY <1>12, <2>1 DEF BeginGroup
    <3>2. an' = JobOf("evidence", an.queue \ {g}, an.asks, g, i, an.pats, Fit(g), an.needs)
      BY <1>0, <3>1, BeginMoves
    <3>3. /\ an'.pc = "evidence" /\ an'.g = g /\ an'.id = i /\ an'.fit = Fit(g) /\ ~an'.needs
      BY <2>0, <3>2 DEF JobOf
    <3>4. i \in Reports /\ rep[i].st = "none"
      BY DEF Unused
    <3>5. /\ rep'[i].g = g /\ rep'[i].st = "running"
          /\ \A k \in Reports : k # i => rep'[k] = rep[k]
      BY <1>0, <3>1, <3>4, RowsKnown
    <3>6. \A k \in Reports : k > i => rep[k].st = "none"
      BY <1>0, <3>4 DEF ReportsInv
    <3>7. \A k \in Reports : k < i => rep[k].st # "none"
      BY <3>1 DEF Unused, Reports
    <3>8. JobInv'
      BY <3>3, <3>4 DEF JobInv, Working, Fit
    <3>9. /\ \A k \in Reports : rep'[k].st \in {"none", "gone"} => rep'[k].g = NoGroup /\ rep'[k].pats = {}
          /\ \A k, l \in Reports : k < l /\ rep'[l].st # "none" => rep'[k].st # "none"
          /\ \A k \in Reports : k > i => rep'[k].st = "none"
      BY <1>0, <3>4, <3>5, <3>6, <3>7 DEF ReportsInv, Reports
    <3>10. ReportsInv'
      BY <3>3, <3>5, <3>9 DEF ReportsInv
    <3> QED BY <1>0, <3>8, <3>10 DEF StructInv
  <2>2. CASE ~Exists(g)
    <3>1. an' = JobOf(an.pc, an.queue \ {g}, an.asks, an.g, an.id, an.pats, an.fit, an.needs)
      BY <1>0, <1>12, <2>2, PassMoves DEF BeginGroup
    <3>2. SameReports
      BY <1>0, <1>12, <2>2, RepUnchanged DEF BeginGroup
    <3> QED BY <1>i, <2>0, <3>1, <3>2 DEF JobOf, Working
  <2> QED BY <2>1, <2>2
<1>13. CASE Evidence
  <2>1. an' = JobOf("agent", an.queue, an.asks, an.g, an.id, Members(an.g), an.fit, an.needs)
    BY <1>0, <1>13, PcPatsMoves DEF Evidence
  <2> QED BY <1>0, <1>13, <1>s, <1>w, <2>1 DEF Evidence, JobOf, Working, JobInv
<1>14. CASE AgentReports
  <2>1. an' = JobOf("record", an.queue, an.asks, an.g, an.id, an.pats, an.fit, an.needs)
    BY <1>0, <1>14, PcMoves DEF AgentReports
  <2>2. SameReports
    BY <1>0, <1>14, OutcomeKeeps DEF AgentReports, JobInv, Working
  <2> QED BY <1>0, <1>14, <1>w, <2>1, <2>2 DEF AgentReports, JobOf, Working, JobInv
<1>15. CASE AgentRefused
  <2>1. SameReports
    BY <1>0, <1>15, OutcomeKeeps DEF AgentRefused, JobInv, Working
  <2> QED BY <1>15, <1>i, <2>1 DEF AgentRefused, Idle, Working
<1>16. CASE AgentFails
  <2>1. an' = JobOf("list", an.queue, an.asks, an.g, an.id, {}, an.fit, an.needs)
    BY <1>0, <1>16, PcPatsMoves DEF AgentFails
  <2>2. SameReports
    BY <1>0, <1>16, OutcomeKeeps DEF AgentFails, JobInv, Working
  <2> QED BY <1>0, <1>16, <1>w, <2>1, <2>2 DEF AgentFails, JobOf, Working, JobInv
<1>17. CASE ListPatterns
  <2>1. an' = JobOf("record", an.queue, an.asks, an.g, an.id, Members(an.g), an.fit, an.needs)
    BY <1>0, <1>17, PcPatsMoves DEF ListPatterns
  <2> QED BY <1>0, <1>17, <1>s, <1>w, <2>1 DEF ListPatterns, JobOf, Working, JobInv
<1>18. ASSUME NEW p \in Patterns, RecordPattern(p) PROVE StructInv'
  <2>0. an.pc = "record" /\ an.id \in Reports /\ an.g \in Groups
    BY <1>0, <1>18 DEF RecordPattern, JobInv, Working
  <2>1. PICK P : an' = JobOf(an.pc, an.queue, an.asks, an.g, an.id, P, an.fit, an.needs)
    BY <1>0, <1>18, PatsMoves DEF RecordPattern
  <2>2. /\ \A i \in Reports : rep'[i].g = rep[i].g /\ rep'[i].st = rep[i].st
        /\ \A i \in Reports : i # an.id => rep'[i] = rep[i]
        /\ rep[an.id].st = "gone" => rep'[an.id].pats = rep[an.id].pats
    BY <1>0, <1>18, <2>0, PatternWritten DEF RecordPattern
  <2>3. an'.pc = an.pc /\ an'.g = an.g /\ an'.id = an.id /\ an'.fit = an.fit /\ an'.needs = an.needs
    BY <2>1 DEF JobOf
  <2>4. JobInv'
    BY <1>0, <2>3 DEF JobInv
  <2>5. /\ \A k \in Reports : rep'[k].st \in {"none", "gone"} => rep'[k].g = NoGroup /\ rep'[k].pats = {}
        /\ \A k, l \in Reports : k < l /\ rep'[l].st # "none" => rep'[k].st # "none"
    BY <1>0, <2>0, <2>2 DEF ReportsInv, Working
  <2>6. /\ rep'[an.id].st # "none"
        /\ rep'[an.id].st = "gone" \/ rep'[an.id].g = an.g
        /\ \A i \in Reports : i > an.id => rep'[i].st = "none"
    BY <1>0, <2>0, <2>2 DEF ReportsInv, Working
  <2>7. ReportsInv'
    BY <2>3, <2>5, <2>6 DEF ReportsInv
  <2> QED BY <1>0, <2>4, <2>7 DEF StructInv
<1>19. CASE Reload
  <2> DEFINE fit == IF Exists(an.g) THEN Fit(an.g) ELSE an.fit
  <2>1. an' = JobOf("check", an.queue, an.asks, an.g, an.id, an.pats, fit, an.needs)
    BY <1>0, <1>19, ReloadMoves
  <2>2. fit => an.g \in Actionable
    BY <1>0 DEF Fit, JobInv
  <2> HIDE DEF fit
  <2>3. /\ an'.pc = "check" /\ an'.g = an.g /\ an'.id = an.id /\ an'.fit = fit
        /\ an'.needs = an.needs
    BY <2>1 DEF JobOf
  <2>4. SameReports /\ an.pc = "record"
    BY <1>19, <1>s DEF Reload
  <2>5. an.needs => an.g \in Actionable
    BY <1>0 DEF JobInv
  <2> QED BY <1>w, <2>2, <2>3, <2>4, <2>5 DEF Working
<1>20. CASE CheckCoverage
  <2> DEFINE needs == an.fit /\ Uncovered(an.g)
  <2>1. an' = JobOf("write", an.queue, an.asks, an.g, an.id, an.pats, FALSE, needs)
    BY <1>0, <1>20, CheckMoves
  <2>2. needs => an.g \in Actionable
    BY <1>0 DEF JobInv
  <2> HIDE DEF needs
  <2>3. /\ an'.pc = "write" /\ an'.g = an.g /\ an'.id = an.id /\ an'.fit = FALSE
        /\ an'.needs = needs
    BY <2>1 DEF JobOf
  <2>4. SameReports /\ an.pc = "check"
    BY <1>20, <1>s DEF CheckCoverage
  <2> QED BY <1>w, <2>2, <2>3, <2>4 DEF Working
<1>21. CASE WriteFlag
  <2>1. an' = JobOf("next", an.queue, {}, NoGroup, 0, {}, FALSE, FALSE)
    BY <1>0, <1>21, WriteMoves
  <2>2. SameReports
    BY <1>0, <1>21, RepUnchanged DEF WriteFlag
  <2> QED BY <1>i, <2>1, <2>2 DEF JobOf, Working
<1>22. CASE EndAnalysis
  BY <1>22, <1>i, <1>s DEF EndAnalysis, Idle, Working
<1>23. ASSUME NEW g \in Groups, NEW s \in {"open"} \cup Decided, ChangeState(g, s) PROVE StructInv'
  BY <1>23, <1>u DEF ChangeState
<1>24. CASE Restart
  <2>1. SameReports
    BY <1>0, <1>24, RestartKeeps
  <2> QED BY <1>24, <1>i, <2>1 DEF Restart, Idle, Working
<1> QED BY <1>1, <1>2, <1>3, <1>4, <1>5, <1>6, <1>7, <1>9, <1>10, <1>11, <1>12, <1>13, <1>14,
           <1>15, <1>16, <1>17, <1>18, <1>19, <1>20, <1>21, <1>22, <1>23, <1>24
        DEF Next, Grouping, Analyzing, Deciding

-----------------------------------------------------------------------------
(* Coverage.                                                               *)

\* The reports that settled something about g are what they were.
SettledAlike(g) ==
  \A i \in Reports : /\ rep'[i].g = g /\ rep'[i].pats # {} <=> rep[i].g = g /\ rep[i].pats # {}
                     /\ rep[i].g = g /\ rep[i].pats # {} => rep'[i].pats = rep[i].pats

LEMMA CoverageStays ==
  ASSUME NEW g \in Groups, SettledAlike(g)
  PROVE  /\ Latest(g)' = Latest(g)
         /\ \A p : PatternCovered(g, p)' <=> PatternCovered(g, p)
<1>1. Settling(g)' = Settling(g)
  BY DEF SettledAlike, Settling
<1>2. Latest(g)' = Latest(g)
  BY <1>1 DEF Latest
<1>3. \A i \in Latest(g) : rep'[i].pats = rep[i].pats
  BY DEF Latest, Settling, SettledAlike
<1>4. \A p : PatternCovered(g, p)' <=> PatternCovered(g, p)
  BY <1>2, <1>3 DEF PatternCovered
<1> QED BY <1>2, <1>4

\* A group that has no new patterns has none that is newly uncovered.
LEMMA UncoveredShrinks ==
  ASSUME NEW g \in Groups, SettledAlike(g), Members(g)' \subseteq Members(g), Uncovered(g)'
  PROVE  Uncovered(g)
<1>1. PICK p \in Members(g)' : ~PatternCovered(g, p)'
  BY DEF Uncovered
<1>2. p \in Members(g) /\ ~PatternCovered(g, p)
  BY <1>1, CoverageStays
<1> QED BY <1>2 DEF Uncovered

LEMMA SameSettled ==
  ASSUME SameReports, NEW g \in Groups
  PROVE  SettledAlike(g)
BY DEF SameReports, SettledAlike

\* Only the reports of the dropped groups are gone.
LEMMA DropSettled ==
  ASSUME TypeOK, GroupsAssumption, NEW G \in SUBSET Groups, Drop(G), NEW g \in Groups \ G
  PROVE  SettledAlike(g) /\ keys'[g] = keys[g]
<1>1. /\ \A i \in Reports : IF rep[i].g \in G
           THEN rep'[i].g = NoGroup /\ rep'[i].st = "gone" /\ rep'[i].pats = {}
           ELSE rep'[i] = rep[i]
      /\ keys'[g] = keys[g]
  BY DropKnown
<1> QED BY <1>1 DEF SettledAlike

-----------------------------------------------------------------------------
(* One group over a step.                                                  *)

\* Nothing was written about g, and it gets no new members.
LEMMA Untouched ==
  ASSUME NEW g \in Groups, GroupOk(g), SettledAlike(g),
         grp'[g] = grp[g], keys'[g] = keys[g], Members(g)' \subseteq Members(g),
         g \in raced => g \in raced', g \in asked /\ grp[g].flag => g \in asked',
         g \in flagged' => g \in flagged, cut \subseteq cut',
         Recorded(g) => Recorded(g)' \/ Latest(g) \cap cut' # {}
  PROVE  GroupOk(g)'
<1>1. Exists(g)' = Exists(g) /\ Fit(g)' = Fit(g) /\ Latest(g)' = Latest(g)
  BY CoverageStays DEF Exists, Fit
<1>2. AskedOk(g)' /\ ScanOk(g)'
  BY <1>1 DEF GroupOk, AskedOk, ScanOk
<1>3. WaitOk(g)'
  <2> SUFFICES ASSUME Waits(g)' PROVE g \in raced' \/ Recorded(g)' \/ Latest(g)' \cap cut' # {}
    BY DEF WaitOk
  <2>1. Waits(g)
    BY UncoveredShrinks DEF Waits
  <2>2. g \in raced \/ Recorded(g) \/ Latest(g) \cap cut # {}
    BY <2>1 DEF GroupOk, WaitOk
  <2> QED BY <1>1, <2>2
<1>4. UnaskedOk(g)'
  BY DEF GroupOk, UnaskedOk, FlaggedUnasked
<1>5. CauseOk(g)'
  BY DEF GroupOk, CauseOk, NewCauseMissed
<1> QED BY <1>2, <1>3, <1>4, <1>5 DEF GroupOk

\* The row of g is gone.
LEMMA GroupGone ==
  ASSUME NEW g \in Groups, GroupOk(g), grp'[g] = NoRow, g \in flagged' => g \in flagged
  PROVE  GroupOk(g)'
<1>1. ~Exists(g)' /\ grp'[g].state = "none" /\ ~grp'[g].flag
  BY DEF Exists, NoRow
<1>2. AskedOk(g)' /\ ScanOk(g)'
  BY <1>1 DEF GroupOk, AskedOk, ScanOk
<1>3. WaitOk(g)' /\ UnaskedOk(g)' /\ CauseOk(g)'
  BY <1>1 DEF WaitOk, Waits, UnaskedOk, FlaggedUnasked, CauseOk, NewCauseMissed, Decided
<1> QED BY <1>2, <1>3 DEF GroupOk

\* The mail that is filed adds members to g, which the tracker recounts.
LEMMA GroupRecounted ==
  ASSUME TypeOK, NEW g \in Groups, GroupOk(g), SettledAlike(g), keys'[g] = keys[g],
         NEW pats \in SUBSET Patterns, NEW late \in BOOLEAN, NEW r, r = Recount(g, pats, late),
         grp'[g] = r.row, Members(g)' \subseteq Members(g) \cup pats,
         g \in flagged' => g \in flagged \/ r.hit,
         g \in raced => g \in raced', g \in asked /\ grp'[g].flag => g \in asked',
         cut' = cut, Recorded(g) => Recorded(g)'
  PROVE  GroupOk(g)'
<1>1. /\ r.row \in RowType /\ r.hit \in BOOLEAN
      /\ r.row.state = IF Exists(g) THEN grp[g].state ELSE "open"
      /\ Exists(g) /\ grp[g].flag => r.row.flag
      /\ Exists(g) /\ grp[g].recheck => r.row.recheck
      /\ Exists(g) /\ g \in flagged => r.row = grp[g]
      /\ ~Exists(g) => r.row.flag = (g \in Actionable)
      /\ r.row.flag => g \in Actionable \/ (Exists(g) /\ grp[g].flag)
      /\ r.row.flag => r.row.state = "open" \/ r.row.recheck \/ (Exists(g) /\ grp[g].flag)
      /\ r.hit => g \in Actionable /\ r.row.flag /\ (r.row.state = "open" \/ r.row.recheck)
      /\ g \notin flagged /\ r.row.state \in Decided /\ ~r.row.recheck /\ g \in ByPattern
           => \A p \in pats : KeyOf[p] \in keys[g]
      /\ g \notin flagged /\ r.row.state = "open" /\ ~r.row.flag /\ g \in Actionable
           => \A p \in pats : PatternCovered(g, p)
  BY RecountKnown
<1>2. /\ grp'[g].flag \in BOOLEAN /\ grp'[g].recheck \in BOOLEAN
      /\ Latest(g)' = Latest(g)
      /\ \A p : PatternCovered(g, p)' <=> PatternCovered(g, p)
  BY <1>1, CoverageStays DEF RowType
<1>3. AskedOk(g)'
  <2>1. Exists(g)'
    BY <1>1 DEF Exists
  <2> QED BY <1>1, <2>1 DEF AskedOk, GroupOk
<1>4. ScanOk(g)'
  <2> SUFFICES ASSUME g \in flagged'
               PROVE  g \in Actionable /\ (g \in raced' \/ (grp'[g].flag /\ Fit(g)'))
    BY DEF ScanOk
  <2>1. CASE r.hit
    BY <1>1, <2>1 DEF Fit
  <2>2. CASE g \in flagged /\ Exists(g)
    BY <1>1, <2>2 DEF GroupOk, ScanOk, Fit
  <2>3. CASE g \in flagged /\ ~Exists(g)
    BY <1>1, <2>3 DEF GroupOk, ScanOk, Fit
  <2> QED BY <2>1, <2>2, <2>3
<1>5. WaitOk(g)'
  <2> SUFFICES ASSUME Waits(g)' PROVE g \in raced' \/ Recorded(g)' \/ Latest(g)' \cap cut' # {}
    BY DEF WaitOk
  <2>1. g \in Actionable /\ r.row.state = "open" /\ ~r.row.flag /\ Exists(g) /\ grp[g].state = "open"
        /\ ~grp[g].flag
    BY <1>1 DEF Waits
  <2>2. PICK p \in Members(g)' : ~PatternCovered(g, p)
    BY <1>2 DEF Waits, Uncovered
  <2>3. CASE g \in flagged
    BY <1>1, <2>1, <2>3 DEF GroupOk, ScanOk
  <2>4. CASE g \notin flagged
    <3>1. p \in Members(g)
      BY <1>1, <2>1, <2>2, <2>4
    <3>2. Waits(g)
      BY <2>1, <2>2, <3>1 DEF Waits, Uncovered
    <3> QED BY <1>2, <3>2 DEF GroupOk, WaitOk
  <2> QED BY <2>3, <2>4
<1>6. UnaskedOk(g)'
  <2> SUFFICES ASSUME FlaggedUnasked(g)' PROVE g \in raced'
    BY DEF UnaskedOk
  <2>1. r.row.flag /\ g \notin asked' /\ ((r.row.state \in Decided /\ ~r.row.recheck) \/ g \notin Actionable)
    BY DEF FlaggedUnasked
  <2>2. g \notin asked
    BY <2>1
  <2>3. Exists(g) /\ grp[g].flag
    BY <1>1, <2>1 DEF Decided
  <2>4. (grp[g].state \in Decided /\ ~grp[g].recheck) \/ g \notin Actionable
    BY <1>1, <2>1, <2>3
  <2> QED BY <2>2, <2>3, <2>4 DEF GroupOk, UnaskedOk, FlaggedUnasked
<1>7. CauseOk(g)'
  <2> SUFFICES ASSUME NewCauseMissed(g)' PROVE g \in raced'
    BY DEF CauseOk
  <2>1. /\ g \in ByPattern /\ r.row.state \in Decided /\ ~r.row.recheck
        /\ Exists(g) /\ grp[g].state \in Decided /\ ~grp[g].recheck
    BY <1>1 DEF NewCauseMissed, Decided
  <2>2. PICK p \in Members(g)' : KeyOf[p] \notin keys[g]
    BY DEF NewCauseMissed
  <2>3. CASE g \in flagged
    BY <2>1, <2>3 DEF GroupOk, ScanOk, Fit, Decided
  <2>4. CASE g \notin flagged
    <3>1. p \in Members(g)
      BY <1>1, <2>1, <2>2, <2>4
    <3> QED BY <2>1, <2>2, <3>1 DEF GroupOk, CauseOk, NewCauseMissed
  <2> QED BY <2>3, <2>4
<1> QED BY <1>3, <1>4, <1>5, <1>6, <1>7 DEF GroupOk

-----------------------------------------------------------------------------
(* What settle knows.                                                      *)

\* Settle is at work on a group that is untouched, gone or in a race.
LEMMA SettleStays ==
  ASSUME StructInv, SettleInv, an' = an,
         Settles(an.g) /\ an.g \notin raced' /\ Exists(an.g)' =>
           /\ grp'[an.g] = grp[an.g] /\ SettledAlike(an.g) /\ Members(an.g)' \subseteq Members(an.g)
           /\ an.g \notin raced
  PROVE  SettleInv'
<1> DEFINE h == an.g
<1> SUFFICES ASSUME an.pc \in Working, Exists(h)', h \notin raced'
             PROVE  /\ an.pc = "check" => (an.fit <=> Fit(h)')
                    /\ an.pc = "write" => /\ an.needs => Fit(h)'
                                          /\ Fit(h)' /\ Uncovered(h)' => an.needs
  BY DEF SettleInv
<1>1. h \in Groups
  BY DEF StructInv, JobInv
<1> SUFFICES ASSUME an.pc \in {"check", "write"}
             PROVE  /\ an.pc = "check" => (an.fit <=> Fit(h)')
                    /\ an.pc = "write" => /\ an.needs => Fit(h)'
                                          /\ Fit(h)' /\ Uncovered(h)' => an.needs
  OBVIOUS
<1>2. /\ grp'[h] = grp[h] /\ SettledAlike(h) /\ Members(h)' \subseteq Members(h) /\ h \notin raced
  BY DEF Settles
<1>3. Exists(h) /\ Fit(h)' = Fit(h)
  BY <1>2 DEF Exists, Fit
<1>4. Uncovered(h)' => Uncovered(h)
  BY <1>1, <1>2, UncoveredShrinks
<1> QED BY <1>2, <1>3, <1>4 DEF SettleInv

LEMMA SettleAway ==
  ASSUME an'.pc \notin {"check", "write"}
  PROVE  SettleInv'
BY DEF SettleInv

\* A step that writes nothing about the groups.
LEMMA RaceQuiet ==
  ASSUME RaceInv, SettleInv', UNCHANGED <<filed, grp, keys, flagged, asked, raced, cut>>,
         \A g \in Groups : SettledAlike(g), \A g \in Groups : Recorded(g) => Recorded(g)'
  PROVE  RaceInv'
<1>1. ASSUME NEW g \in Groups PROVE GroupOk(g)'
  <2>1. Members(g)' = Members(g)
    BY DEF Members, PatternsIn
  <2> QED BY <2>1, Untouched DEF RaceInv
<1> QED BY <1>1 DEF RaceInv

\* A step that leaves the job alone, writes nothing and adds no members.
LEMMA RaceShrinks ==
  ASSUME StructInv, RaceInv, an' = an, rep' = rep, UNCHANGED <<grp, keys, asked, raced, cut>>,
         flagged' \subseteq flagged,
         \A g \in Groups : Members(g)' \subseteq Members(g)
  PROVE  RaceInv'
<1>1. \A g \in Groups : SettledAlike(g) /\ Recorded(g)' = Recorded(g)
  BY DEF SettledAlike, Recorded
<1>2. ASSUME NEW g \in Groups PROVE GroupOk(g)'
  BY <1>1, Untouched DEF RaceInv
<1>3. Settles(an.g) => an.g \in Groups
  BY DEF StructInv, JobInv, Settles, Working
<1>4. SettleInv'
  BY <1>1, <1>3, SettleStays DEF RaceInv
<1> QED BY <1>2, <1>4 DEF RaceInv

\* Groups are gone, nothing else is written and no members are added.
LEMMA RaceGone ==
  ASSUME StructInv, RaceInv, GroupsAssumption, NEW G \in SUBSET Groups, Drop(G), an' = an,
         grp' = [g \in Groups |-> IF g \in G THEN NoRow ELSE grp[g]],
         StillAsked, UNCHANGED <<raced, cut>>, flagged' \subseteq flagged,
         \A g \in Groups : Members(g)' \subseteq Members(g)
  PROVE  RaceInv'
<1>1. TypeOK
  BY DEF StructInv
<1>2. ASSUME NEW g \in Groups \ G
      PROVE  SettledAlike(g) /\ keys'[g] = keys[g] /\ grp'[g] = grp[g]
             /\ (Recorded(g) => Recorded(g)')
  <2>1. SettledAlike(g) /\ keys'[g] = keys[g] /\ grp'[g] = grp[g]
    BY <1>1, DropSettled
  <2>2. Recorded(g) => Recorded(g)'
    BY <2>1 DEF Recorded, SettledAlike, StructInv, JobInv, ReportsInv, Working
  <2> QED BY <2>1, <2>2
<1>3. ASSUME NEW g \in Groups \ G PROVE GroupOk(g)'
  BY <1>2, <1>3, Untouched DEF RaceInv, StillAsked
<1>4. ASSUME NEW g \in G PROVE GroupOk(g)'
  BY GroupGone DEF RaceInv
<1>5. SettleInv'
  <2>1. Settles(an.g) => an.g \in Groups
    BY DEF StructInv, JobInv, Settles, Working
  <2>2. an.g \in G => ~Exists(an.g)'
    BY DEF Exists, NoRow
  <2> QED BY <1>2, <2>1, <2>2, SettleStays DEF RaceInv
<1> QED BY <1>3, <1>4, <1>5 DEF RaceInv

-----------------------------------------------------------------------------
(* The race invariant is kept.                                             *)

\* The mail is filed: its groups are recounted or gone.
LEMMA RaceFiled ==
  ASSUME StructInv, RaceInv, GroupsAssumption, NEW m \in Mails, NEW plan \in Plans,
         NEW late \in BOOLEAN, GroupMessage(m, plan, late)
  PROVE  RaceInv'
<1>0. TypeOK
  BY DEF StructInv
<1>1. PICK gone \in SUBSET Groups :
        /\ gone \cap Into(plan) = {} /\ Drop(gone)
        /\ \A g \in Into(plan) :
             /\ grp'[g] = Recount(g, Adds(plan, g), late).row
             /\ g \in flagged' <=> g \in flagged \/ Recount(g, Adds(plan, g), late).hit
             /\ Members(g)' \subseteq Members(g) \cup Adds(plan, g)
        /\ \A g \in Groups \ Into(plan) :
             /\ grp'[g] = IF g \in gone THEN NoRow ELSE grp[g]
             /\ g \in flagged' <=> g \in flagged
             /\ Members(g)' \subseteq Members(g)
        /\ raced' = (raced \cup {g \in Into(plan) : Settles(g)}) \ gone
  BY <1>0, MailFiled
<1>2. StillAsked /\ an' = an /\ cut' = cut
  BY DEF GroupMessage
<1>3. ASSUME NEW g \in Groups \ gone
      PROVE  SettledAlike(g) /\ keys'[g] = keys[g] /\ (Recorded(g) => Recorded(g)')
             /\ (g \in raced => g \in raced')
  <2>1. SettledAlike(g) /\ keys'[g] = keys[g]
    BY <1>0, <1>1, DropSettled
  <2>2. Recorded(g) => Recorded(g)'
    BY <1>2, <2>1 DEF Recorded, SettledAlike, StructInv, JobInv, ReportsInv, Working
  <2> QED BY <1>1, <2>1, <2>2
<1>4. ASSUME NEW g \in Into(plan) PROVE GroupOk(g)'
  <2>1. g \in Groups \ gone /\ Adds(plan, g) \in SUBSET Patterns
    BY <1>1 DEF Into, Adds
  <2> DEFINE r == Recount(g, Adds(plan, g), late)
  <2>2. /\ grp'[g] = r.row /\ Members(g)' \subseteq Members(g) \cup Adds(plan, g)
        /\ g \in flagged' => g \in flagged \/ r.hit
    BY <1>1
  <2>3. g \in asked /\ grp'[g].flag => g \in asked'
    BY <1>2 DEF StillAsked
  <2>4. GroupOk(g)
    BY <2>1 DEF RaceInv
  <2> HIDE DEF r
  <2>5. r = Recount(g, Adds(plan, g), late)
    BY DEF r
  <2> QED BY <1>0, <1>2, <1>3, <2>1, <2>2, <2>3, <2>4, <2>5, GroupRecounted
<1>5. ASSUME NEW g \in gone PROVE GroupOk(g)'
  <2>1. g \in Groups \ Into(plan)
    BY <1>1
  <2>2. grp'[g] = NoRow /\ (g \in flagged' => g \in flagged)
    BY <1>1, <2>1
  <2> QED BY <2>2, GroupGone DEF RaceInv
<1>6. ASSUME NEW g \in Groups \ gone, g \notin Into(plan) PROVE GroupOk(g)'
  <2>1. /\ grp'[g] = grp[g] /\ (g \in flagged' => g \in flagged)
        /\ Members(g)' \subseteq Members(g)
    BY <1>1, <1>6
  <2>2. g \in asked /\ grp[g].flag => g \in asked'
    BY <1>2, <2>1 DEF StillAsked
  <2> QED BY <1>2, <1>3, <2>1, <2>2, Untouched DEF RaceInv
<1>7. SettleInv'
  <2> SUFFICES ASSUME Settles(an.g), an.g \notin raced', Exists(an.g)'
               PROVE  /\ grp'[an.g] = grp[an.g] /\ SettledAlike(an.g)
                      /\ Members(an.g)' \subseteq Members(an.g) /\ an.g \notin raced
    BY <1>2, SettleStays DEF RaceInv
  <2>1. an.g \in Groups
    BY DEF StructInv, JobInv, Settles, Working
  <2> DEFINE h == an.g
  <2>2. h \in gone => grp'[h] = NoRow
    BY <1>1, <2>1
  <2>3. h \notin gone
    BY <1>2, <2>2 DEF Exists, NoRow
  <2>4. h \notin Into(plan)
    BY <1>1, <2>3
  <2>5. grp'[h] = grp[h] /\ Members(an.g)' \subseteq Members(h)
    BY <1>1, <1>2, <2>1, <2>3, <2>4 DEF Members
  <2> QED BY <1>3, <2>1, <2>3, <2>5
<1> QED BY <1>4, <1>5, <1>6, <1>7 DEF RaceInv

\* A request flags a group.
LEMMA RaceAsked ==
  ASSUME StructInv, RaceInv, GroupsAssumption, NEW h \in Groups, FlagAsked(h)
  PROVE  RaceInv'
<1>0. TypeOK
  BY DEF StructInv
<1>1. PICK pc \in {"next", "flag"} :
        an' = JobOf(pc, an.queue, an.asks \ {h}, an.g, an.id, an.pats, an.fit, an.needs)
  BY <1>0, FlagMoves
<1>2. an'.pc \notin {"check", "write"} /\ \A g \in Groups : ~Recorded(g)
  BY <1>1 DEF JobOf, FlagAsked, Recorded
<1>3. SettleInv'
  BY <1>2, SettleAway
<1>4. /\ UNCHANGED <<filed, keys, rep, flagged, raced, cut>>
      /\ grp' = IF Exists(h) THEN [grp EXCEPT ![h].flag = TRUE] ELSE grp
      /\ asked' = IF Exists(h) THEN asked \cup {h} ELSE asked
  BY DEF FlagAsked, scan
<1>5. ASSUME NEW g \in Groups PROVE SettledAlike(g) /\ Members(g)' = Members(g)
  BY <1>4 DEF SettledAlike, Members, PatternsIn
<1>6. CASE ~Exists(h)
  <2>1. ASSUME NEW g \in Groups PROVE GroupOk(g)'
    BY <1>2, <1>4, <1>5, <1>6, Untouched DEF RaceInv
  <2> QED BY <1>3, <2>1 DEF RaceInv
<1>7. CASE Exists(h)
  <2>1. /\ \A g \in Groups : g # h => grp'[g] = grp[g]
        /\ grp'[h].state = grp[h].state /\ grp'[h].recheck = grp[h].recheck /\ grp'[h].flag = TRUE
    BY <1>0, <1>4, <1>7, FlagWritten
  <2>2. ASSUME NEW g \in Groups, g # h PROVE GroupOk(g)'
    BY <1>2, <1>4, <1>5, <1>7, <2>1, <2>2, Untouched DEF RaceInv
  <2>3. GroupOk(h)'
    <3>1. GroupOk(h) /\ Exists(h)' /\ h \in asked'
      BY <1>4, <1>7, <2>1 DEF RaceInv, Exists
    <3>2. AskedOk(h)' /\ WaitOk(h)' /\ UnaskedOk(h)'
      BY <2>1, <3>1 DEF AskedOk, WaitOk, Waits, UnaskedOk, FlaggedUnasked
    <3>3. ScanOk(h)'
      BY <1>4, <1>7, <2>1, <3>1 DEF GroupOk, ScanOk, Fit
    <3>4. CauseOk(h)'
      BY <1>4, <1>5, <2>1, <3>1 DEF GroupOk, CauseOk, NewCauseMissed
    <3> QED BY <3>2, <3>3, <3>4 DEF GroupOk
  <2> QED BY <1>3, <2>2, <2>3 DEF RaceInv
<1> QED BY <1>6, <1>7

\* A pattern is recorded: only the coverage of the group of the job changes.
LEMMA RaceRecorded ==
  ASSUME StructInv, RaceInv, GroupsAssumption, NEW p \in Patterns, RecordPattern(p)
  PROVE  RaceInv'
<1>0. TypeOK /\ an.pc = "record" /\ an.id \in Reports /\ an.g \in Groups
  BY DEF StructInv, RecordPattern, JobInv, Working
<1>1. PICK P : an' = JobOf(an.pc, an.queue, an.asks, an.g, an.id, P, an.fit, an.needs)
  BY <1>0, PatsMoves DEF RecordPattern
<1>2. an'.pc = "record" /\ an'.g = an.g /\ an'.id = an.id
  BY <1>0, <1>1 DEF JobOf
<1>3. /\ \A i \in Reports : rep'[i].g = rep[i].g /\ rep'[i].st = rep[i].st
      /\ \A i \in Reports : i # an.id => rep'[i] = rep[i]
      /\ rep'[an.id].pats = IF rep[an.id].st = "gone" THEN rep[an.id].pats
                                                      ELSE rep[an.id].pats \cup {p}
  BY <1>0, PatternWritten DEF RecordPattern
<1>4. UNCHANGED <<filed, grp, keys, flagged, asked, raced, cut>>
  BY DEF RecordPattern, scan, ghost
<1>5. SettleInv'
  BY <1>2, SettleAway
<1>6. ASSUME NEW g \in Groups PROVE Members(g)' = Members(g)
  BY <1>4 DEF Members, PatternsIn
<1>7. \A g \in Groups : Recorded(g) => Recorded(g)'
  BY <1>0, <1>2, <1>3 DEF Recorded
<1>8. CASE rep[an.id].st = "gone"
  <2>1. \A g \in Groups : SettledAlike(g)
    BY <1>0, <1>3, <1>8 DEF SettledAlike
  <2> QED BY <1>4, <1>5, <1>7, <2>1, RaceQuiet
<1>9. CASE rep[an.id].st # "gone"
  <2>1. rep[an.id].g = an.g
    BY <1>0, <1>9 DEF StructInv, ReportsInv, Working
  <2>2. ASSUME NEW g \in Groups, g # an.g PROVE GroupOk(g)'
    <3>1. SettledAlike(g)
      BY <1>3, <2>1, <2>2 DEF SettledAlike
    <3> QED BY <1>4, <1>6, <1>7, <3>1, Untouched DEF RaceInv
  <2>3. GroupOk(an.g)'
    <3>1. GroupOk(an.g) /\ Recorded(an.g)'
      BY <1>0, <1>2, <1>3, <1>9 DEF RaceInv, Recorded
    <3> DEFINE h == an.g
    <3>2. WaitOk(h)'
      BY <1>2, <3>1 DEF WaitOk
    <3>3. AskedOk(h)' /\ ScanOk(h)' /\ UnaskedOk(h)'
      BY <1>2, <1>4, <3>1 DEF GroupOk, AskedOk, ScanOk, UnaskedOk, FlaggedUnasked, Exists, Fit
    <3>4. CauseOk(h)'
      BY <1>0, <1>2, <1>4, <1>6, <3>1 DEF GroupOk, CauseOk, NewCauseMissed
    <3> QED BY <1>2, <3>2, <3>3, <3>4 DEF GroupOk
  <2>4. ASSUME NEW g \in Groups PROVE GroupOk(g)'
    BY <1>2, <2>2, <2>3
  <2> QED BY <1>5, <2>4 DEF RaceInv
<1> QED BY <1>8, <1>9

\* Settle writes the flag it settled on.
LEMMA RaceWritten ==
  ASSUME StructInv, RaceInv, GroupsAssumption, WriteFlag
  PROVE  RaceInv'
<1> SUFFICES ASSUME NEW h, h = an.g PROVE RaceInv'
  OBVIOUS
<1>0. TypeOK /\ an.pc = "write" /\ h \in Groups /\ an.needs \in BOOLEAN
  BY JobKnown DEF StructInv, WriteFlag, JobInv, Working, JobType
<1>1. an'.pc = "next" /\ an'.g = NoGroup
  BY <1>0, WriteMoves DEF JobOf
<1>2. SettleInv'
  BY <1>1, SettleAway
<1>3. /\ UNCHANGED <<filed, keys, rep, flagged, cut>>
      /\ asked' = asked \ {h} /\ raced \subseteq raced' /\ (h \in flagged => h \in raced')
      /\ grp' = IF Exists(h) THEN [grp EXCEPT ![h].flag = an.needs] ELSE grp
  <2>1. /\ UNCHANGED <<mail, filed, keys, rep, scan, cut, events>> /\ asked' = asked \ {an.g}
        /\ raced' = IF an.g \in flagged THEN raced \cup {an.g} ELSE raced
        /\ grp' = IF Exists(an.g) THEN [grp EXCEPT ![an.g].flag = an.needs] ELSE grp
    BY DEF WriteFlag
  <2> QED BY <2>1 DEF scan
<1>4. ASSUME NEW g \in Groups PROVE SettledAlike(g) /\ Members(g)' = Members(g)
  BY <1>3 DEF SettledAlike, Members, PatternsIn
<1>5. Exists(h) => /\ \A g \in Groups : g # h => grp'[g] = grp[g]
                   /\ grp'[h].state = grp[h].state /\ grp'[h].recheck = grp[h].recheck
                   /\ grp'[h].flag = an.needs
  BY <1>0, <1>3, FlagWritten
<1>6. ASSUME NEW g \in Groups, g # h PROVE GroupOk(g)'
  <2>1. ~Recorded(g) /\ grp'[g] = grp[g]
    BY <1>3, <1>5, <1>6 DEF Recorded
  <2> QED BY <1>3, <1>4, <1>6, <2>1, Untouched DEF RaceInv
<1>7. CASE ~Exists(h)
  <2>1. grp'[h] = grp[h] /\ ~grp[h].flag /\ GroupOk(h) /\ ~Exists(h)'
    BY <1>0, <1>3, <1>7 DEF RaceInv, GroupOk, AskedOk, Exists
  <2>2. AskedOk(h)' /\ ScanOk(h)' /\ UnaskedOk(h)'
    BY <1>3, <2>1 DEF GroupOk, AskedOk, ScanOk, UnaskedOk, FlaggedUnasked
  <2>3. WaitOk(h)' /\ CauseOk(h)'
    BY <1>7, <2>1 DEF WaitOk, Waits, CauseOk, NewCauseMissed, Exists, Decided
  <2>4. GroupOk(h)'
    BY <2>2, <2>3 DEF GroupOk
  <2> QED BY <1>2, <1>6, <2>4 DEF RaceInv
<1>8. CASE Exists(h)
  <2>1. /\ grp'[h].state = grp[h].state /\ grp'[h].recheck = grp[h].recheck
        /\ grp'[h].flag = an.needs /\ GroupOk(h) /\ Exists(h)'
    BY <1>0, <1>5, <1>8 DEF RaceInv, Exists
  <2>2. h \notin raced => /\ an.needs => Fit(h)
                          /\ Fit(h) /\ Uncovered(h) => an.needs
    BY <1>0, <1>8 DEF RaceInv, SettleInv, Working
  <2>3. an.needs => h \in Actionable
    BY DEF StructInv, JobInv
  <2>4. AskedOk(h)' /\ ScanOk(h)'
    BY <1>3, <2>1, <2>3 DEF AskedOk, GroupOk, ScanOk
  <2>5. UnaskedOk(h)'
    BY <1>3, <2>1, <2>2, <2>3 DEF UnaskedOk, FlaggedUnasked, Fit, Decided
  <2>6. CauseOk(h)'
    BY <1>0, <1>3, <1>4, <2>1 DEF GroupOk, CauseOk, NewCauseMissed
  <2>7. WaitOk(h)'
    <3> SUFFICES ASSUME Waits(h)' PROVE h \in raced'
      BY DEF WaitOk
    <3>1. Uncovered(h) /\ h \in Actionable /\ grp[h].state = "open" /\ ~an.needs
      BY <1>0, <1>4, <2>1, UncoveredShrinks DEF Waits
    <3> QED BY <1>3, <2>2, <3>1 DEF Fit
  <2>8. GroupOk(h)'
    BY <2>4, <2>5, <2>6, <2>7 DEF GroupOk
  <2> QED BY <1>2, <1>6, <2>8 DEF RaceInv
<1> QED BY <1>7, <1>8

\* A user decides about a group, or opens it again.
LEMMA RaceDecided ==
  ASSUME StructInv, RaceInv, GroupsAssumption, NEW h \in Groups, NEW s \in {"open"} \cup Decided,
         ChangeState(h, s)
  PROVE  RaceInv'
<1>0. TypeOK
  BY DEF StructInv
<1>1. /\ UNCHANGED <<filed, rep, flagged, an, cut>> /\ Exists(h) /\ StillAsked
      /\ grp'  = [grp EXCEPT ![h] = [state |-> s, recheck |-> FALSE, flag |-> FlagAfterChange(h, s)]]
      /\ keys' = [keys EXCEPT ![h] = KeysNow(h)]
      /\ raced' = IF h \in flagged \/ Settles(h) THEN raced \cup {h} ELSE raced \ {h}
  BY DEF ChangeState, scan
<1>2. ASSUME NEW g \in Groups
      PROVE  SettledAlike(g) /\ Members(g)' = Members(g) /\ Recorded(g)' = Recorded(g)
  BY <1>1 DEF SettledAlike, Members, PatternsIn, Recorded
<1>3. /\ \A g \in Groups : g # h => grp'[g] = grp[g] /\ keys'[g] = keys[g]
      /\ grp'[h].state = s /\ grp'[h].recheck = FALSE /\ grp'[h].flag = FlagAfterChange(h, s)
      /\ keys'[h] = KeysNow(h)
  BY <1>0, <1>1, RowsKnown DEF TypeOK
<1>4. ASSUME NEW g \in Groups, g # h PROVE GroupOk(g)'
  BY <1>1, <1>2, <1>3, <1>4, Untouched DEF RaceInv, StillAsked
<1>5. GroupOk(h) /\ Exists(h)'
  BY <1>3 DEF RaceInv, Exists, Decided
<1>6. AskedOk(h)'
  BY <1>1, <1>3, <1>5 DEF GroupOk, AskedOk, FlagAfterChange, StillAsked
<1>7. ScanOk(h)'
  BY <1>1, <1>5 DEF GroupOk, ScanOk
<1>8. WaitOk(h)'
  <2>1. Uncovered(h)' => Uncovered(h)
    BY <1>2, UncoveredShrinks
  <2>2. ~Waits(h)'
    BY <1>3, <2>1 DEF Waits, FlagAfterChange
  <2> QED BY <2>2 DEF WaitOk
<1>9. UnaskedOk(h)'
  <2>1. s # "open" => ~grp'[h].flag
    BY <1>3 DEF FlagAfterChange
  <2>2. h \notin Actionable /\ grp'[h].flag => h \in asked'
    BY <1>6 DEF AskedOk
  <2> QED BY <1>3, <2>1, <2>2 DEF UnaskedOk, FlaggedUnasked, Decided
<1>10. CauseOk(h)'
  <2>1. \A p \in Members(h)' : KeyOf[p] \in keys'[h]
    BY <1>2, <1>3 DEF KeysNow
  <2> QED BY <2>1 DEF CauseOk, NewCauseMissed
<1>11. SettleInv'
  <2>1. Settles(an.g) => an.g \in Groups
    BY DEF StructInv, JobInv, Settles, Working
  <2>2. Settles(h) => h \in raced'
    BY <1>1
  <2>3. an.g # h => (an.g \in raced => an.g \in raced')
    BY <1>1
  <2>4. Settles(an.g) /\ an.g # h => /\ grp'[an.g] = grp[an.g] /\ SettledAlike(an.g)
                                     /\ Members(an.g)' \subseteq Members(an.g)
    BY <1>1, <1>2, <1>3, <2>1 DEF Members
  <2> QED BY <1>1, <2>2, <2>3, <2>4, SettleStays DEF RaceInv
<1> QED BY <1>4, <1>5, <1>6, <1>7, <1>8, <1>9, <1>10, <1>11 DEF RaceInv, GroupOk

\* A crash: what the analysis had begun to record is the latest report of its
\* group, and counts as cut off.
LEMMA RaceRestarted ==
  ASSUME StructInv, RaceInv, GroupsAssumption, Restart
  PROVE  RaceInv'
<1>0. TypeOK
  BY DEF StructInv
<1>1. /\ UNCHANGED <<filed, grp, keys, asked, raced>> /\ flagged' = {} /\ an' = Idle
      /\ cut' = IF BeingSettled(an.g) THEN cut \cup {an.id} ELSE cut
  BY DEF Restart
<1>2. SettleInv'
  BY <1>1, SettleAway DEF Idle
<1>3. ASSUME NEW g \in Groups PROVE SettledAlike(g) /\ Members(g)' = Members(g)
  BY <1>0, <1>1, RestartKeeps, SameSettled DEF Members, PatternsIn
<1>4. ASSUME NEW g \in Groups, Recorded(g) PROVE Latest(g) \cap cut' # {}
  <2>1. /\ an.g = g /\ an.pc \in {"record", "check", "write"} /\ an.pc \in Working
        /\ rep[an.id].pats # {} /\ an.id \in Reports
    BY <1>4 DEF Recorded, StructInv, JobInv, Working
  <2>2. rep[an.id].g = g /\ \A i \in Reports : i > an.id => rep[i].pats = {}
    BY <2>1 DEF StructInv, ReportsInv
  <2>3. an.id \in Settling(g) /\ \A i \in Settling(g) : i <= an.id
    BY <2>1, <2>2 DEF Settling, Reports
  <2>4. an.id \in Latest(g)
    BY <2>1, <2>3 DEF Latest
  <2>5. an.id \in cut'
    BY <1>1, <2>1 DEF BeingSettled
  <2> QED BY <2>4, <2>5
<1>5. cut \subseteq cut'
  BY <1>1
<1>6. ASSUME NEW g \in Groups PROVE GroupOk(g)'
  BY <1>1, <1>3, <1>4, <1>5, Untouched DEF RaceInv
<1> QED BY <1>2, <1>6 DEF RaceInv

LEMMA RaceKept ==
  ASSUME StructInv, RaceInv, GroupsAssumption, GroupBoundsAssumption, [Next]_vars
  PROVE  RaceInv'
<1> USE GroupsAssumption
<1>0. TypeOK /\ JobInv
  BY DEF StructInv
<1>s. ASSUME SameReports PROVE \A g \in Groups : SettledAlike(g)
  BY <1>s, SameSettled
<1>q. ASSUME SameReports, SettleInv', UNCHANGED <<filed, grp, keys, flagged, asked, raced, cut>>,
             \A g \in Groups : Recorded(g) => Recorded(g)'
      PROVE  RaceInv'
  BY <1>q, <1>s, RaceQuiet
<1>i. ASSUME UNCHANGED index PROVE SameReports
  BY <1>0, <1>i, RepUnchanged DEF index
<1>n. ASSUME an.pc \notin {"record", "check", "write"} PROVE \A g \in Groups : ~Recorded(g)
  BY <1>n DEF Recorded
<1>1. CASE UNCHANGED vars
  BY <1>1, RaceShrinks DEF vars, Members, PatternsIn
<1>2. ASSUME NEW m \in Mails, Fetch(m) PROVE RaceInv'
  BY <1>2, RaceShrinks DEF Fetch, Members, PatternsIn, scan, ghost
<1>3. ASSUME NEW full \in BOOLEAN, StartGrouping(full) PROVE RaceInv'
  <2>1. \A g \in Groups : Members(g)' \subseteq Members(g)
    BY <1>3 DEF StartGrouping, Members, PatternsIn
  <2> QED BY <1>3, <2>1, RaceShrinks DEF StartGrouping, ghost
<1>4. ASSUME NEW m \in Mails, NEW plan \in Plans, NEW late \in BOOLEAN, GroupMessage(m, plan, late)
      PROVE  RaceInv'
  BY <1>4, RaceFiled
<1>5. CASE EndGrouping
  <2> DEFINE gone == IF run = "full" /\ todo = {} THEN Emptied(filed, Groups) ELSE {}
  <2>1. /\ gone \in SUBSET Groups /\ grp' = [g \in Groups |-> IF g \in gone THEN NoRow ELSE grp[g]]
        /\ Drop(gone) /\ StillAsked /\ flagged' = {} /\ UNCHANGED <<filed, an, cut, raced>>
    BY <1>5 DEF EndGrouping, Emptied
  <2> HIDE DEF gone
  <2>2. \A g \in Groups : Members(g)' \subseteq Members(g)
    BY <2>1 DEF Members, PatternsIn
  <2> QED BY <2>1, <2>2, RaceGone
<1>6. ASSUME NEW S \in SUBSET Mails, Prune(S) PROVE RaceInv'
  <2> DEFINE gone == {g \in Groups : Exists(g) /\ PatternsIn(filed', g) = {}}
  <2>1. /\ gone \in SUBSET Groups /\ grp' = [g \in Groups |-> IF g \in gone THEN NoRow ELSE grp[g]]
        /\ Drop(gone) /\ StillAsked /\ UNCHANGED <<flagged, an, cut, raced>>
        /\ filed' = [m \in Mails |-> IF m \in S THEN {} ELSE filed[m]]
    BY <1>6 DEF Prune, Emptied, Expire, scan
  <2> HIDE DEF gone
  <2>2. \A g \in Groups : Members(g)' \subseteq Members(g)
    BY <2>1 DEF Members, PatternsIn
  <2> QED BY <2>1, <2>2, RaceGone
<1>7. ASSUME NEW S \in SUBSET Mails, PruneCutOff(S) PROVE RaceInv'
  <2>1. /\ UNCHANGED <<grp, keys, rep, flagged, an, asked, cut, raced>>
        /\ filed' = [m \in Mails |-> IF m \in S THEN {} ELSE filed[m]]
    BY <1>7 DEF PruneCutOff, Expire, scan, ghost
  <2>2. \A g \in Groups : Members(g)' \subseteq Members(g)
    BY <2>1 DEF Members, PatternsIn
  <2> QED BY <2>1, <2>2, RaceShrinks
<1>9. CASE StartAnalysis
  <2>1. an'.pc = "next"
    BY <1>9, StartMoves DEF JobOf
  <2> QED BY <1>9, <1>i, <1>n, <1>q, <2>1, SettleAway DEF StartAnalysis, index, scan, ghost
<1>10. CASE StartRequested
  <2>1. an'.pc = "flag"
    BY <1>10, RequestMoves DEF JobOf
  <2> QED BY <1>10, <1>i, <1>n, <1>q, <2>1, SettleAway DEF StartRequested, index, scan, ghost
<1>11. ASSUME NEW g \in Groups, FlagAsked(g) PROVE RaceInv'
  BY <1>11, RaceAsked
<1>12. ASSUME NEW h \in Groups, BeginGroup(h) PROVE RaceInv'
  <2>0. /\ an.pc = "next" /\ UNCHANGED <<filed, grp, keys, flagged, asked, raced, cut>>
        /\ \A g \in Groups : ~Recorded(g)
    BY <1>12, <1>n DEF BeginGroup, scan, ghost
  <2>1. CASE Exists(h)
    <3>1. PICK i \in Unused :
            /\ rep' = [rep EXCEPT ![i] = [g |-> h, st |-> "running", pats |-> {}]]
            /\ an' = [an EXCEPT !.pc = "evidence", !.queue = @ \ {h}, !.g = h, !.id = i, !.fit = Fit(h)]
      BY <1>12, <2>1 DEF BeginGroup
    <3>2. an'.pc = "evidence"
      BY <1>0, <3>1, BeginMoves DEF JobOf
    <3>3. /\ i \in Reports /\ rep[i].pats = {} /\ rep'[i].pats = {}
          /\ \A k \in Reports : k # i => rep'[k] = rep[k]
      BY <1>0, <3>1, RowsKnown DEF Unused, StructInv, ReportsInv
    <3>4. \A g \in Groups : SettledAlike(g)
      BY <3>3 DEF SettledAlike
    <3> QED BY <2>0, <3>2, <3>4, SettleAway, RaceQuiet
  <2>2. CASE ~Exists(h)
    <3>1. an'.pc = "next"
      BY <1>0, <1>12, <2>0, <2>2, PassMoves DEF BeginGroup, JobOf
    <3>2. SameReports
      BY <1>0, <1>12, <2>2, RepUnchanged DEF BeginGroup
    <3> QED BY <1>q, <2>0, <3>1, <3>2, SettleAway
  <2> QED BY <2>1, <2>2
<1>13. CASE Evidence
  <2>0. an' = JobOf("agent", an.queue, an.asks, an.g, an.id, Members(an.g), an.fit, an.needs)
    BY <1>0, <1>13, PcPatsMoves DEF Evidence
  <2>1. an'.pc = "agent"
    BY <2>0 DEF JobOf
  <2> QED BY <1>13, <1>i, <1>n, <1>q, <2>1, SettleAway DEF Evidence, index, scan, ghost
<1>14. CASE AgentReports
  <2>1. an'.pc = "record"
    BY <1>0, <1>14, PcMoves DEF AgentReports, JobOf
  <2>2. SameReports
    BY <1>0, <1>14, OutcomeKeeps DEF AgentReports, JobInv, Working
  <2> QED BY <1>14, <1>n, <1>q, <2>1, <2>2, SettleAway DEF AgentReports, scan, ghost
<1>15. CASE AgentRefused
  <2>1. SameReports
    BY <1>0, <1>15, OutcomeKeeps DEF AgentRefused, JobInv, Working
  <2> QED BY <1>15, <1>n, <1>q, <2>1, SettleAway DEF AgentRefused, Idle, scan, ghost
<1>16. CASE AgentFails
  <2>0. an' = JobOf("list", an.queue, an.asks, an.g, an.id, {}, an.fit, an.needs)
    BY <1>0, <1>16, PcPatsMoves DEF AgentFails
  <2>1. an'.pc = "list"
    BY <2>0 DEF JobOf
  <2>2. SameReports
    BY <1>0, <1>16, OutcomeKeeps DEF AgentFails, JobInv, Working
  <2> QED BY <1>16, <1>n, <1>q, <2>1, <2>2, SettleAway DEF AgentFails, scan, ghost
<1>17. CASE ListPatterns
  <2>0. an' = JobOf("record", an.queue, an.asks, an.g, an.id, Members(an.g), an.fit, an.needs)
    BY <1>0, <1>17, PcPatsMoves DEF ListPatterns
  <2>1. an'.pc = "record"
    BY <2>0 DEF JobOf
  <2> QED BY <1>17, <1>i, <1>n, <1>q, <2>1, SettleAway DEF ListPatterns, index, scan, ghost
<1>18. ASSUME NEW p \in Patterns, RecordPattern(p) PROVE RaceInv'
  BY <1>18, RaceRecorded
<1>19. CASE Reload
  <2> SUFFICES ASSUME NEW h, h = an.g PROVE RaceInv'
    OBVIOUS
  <2> DEFINE fit == IF Exists(h) THEN Fit(h) ELSE an.fit
  <2>1. an' = JobOf("check", an.queue, an.asks, h, an.id, an.pats, fit, an.needs)
    BY <1>0, <1>19, ReloadMoves
  <2>2. an'.pc = "check" /\ an'.g = h /\ an'.id = an.id /\ an'.fit = fit
    BY <2>1 DEF JobOf
  <2>3. UNCHANGED <<filed, grp, keys, rep, flagged, asked, raced, cut>> /\ an.pc = "record"
    BY <1>19 DEF Reload, index, scan, ghost
  <2>4. SettleInv'
    <3>1. /\ Exists(h)' <=> Exists(h)
          /\ Fit(h)' <=> Fit(h)
      BY <2>3 DEF Exists, Fit
    <3> QED BY <2>2, <3>1 DEF SettleInv, Exists, Fit
  <2>5. \A g \in Groups : Recorded(g) => Recorded(g)'
    BY <2>2, <2>3 DEF Recorded
  <2>6. SameReports
    BY <1>0, <2>3, RepUnchanged
  <2> QED BY <1>q, <2>3, <2>4, <2>5, <2>6
<1>20. CASE CheckCoverage
  <2> SUFFICES ASSUME NEW h, h = an.g PROVE RaceInv'
    OBVIOUS
  <2> DEFINE needs == an.fit /\ Uncovered(h)
  <2>1. an' = JobOf("write", an.queue, an.asks, h, an.id, an.pats, FALSE, needs)
    BY <1>0, <1>20, CheckMoves
  <2>2. an'.pc = "write" /\ an'.g = h /\ an'.id = an.id /\ an'.needs = needs
    BY <2>1 DEF JobOf
  <2>3. UNCHANGED <<filed, grp, keys, rep, flagged, asked, raced, cut>> /\ an.pc = "check"
    BY <1>20 DEF CheckCoverage, index, scan, ghost
  <2>4. SettleInv'
    <3>1. /\ Exists(h)' <=> Exists(h)
          /\ Fit(h)' <=> Fit(h)
          /\ Uncovered(h)' <=> Uncovered(h)
      BY <2>3 DEF Exists, Fit, Uncovered, Members, PatternsIn, PatternCovered, Latest, Settling
    <3>2. Exists(h) /\ h \notin raced => (an.fit <=> Fit(h))
      BY <2>3 DEF RaceInv, SettleInv, Working
    <3> SUFFICES ASSUME Exists(h), h \notin raced
                 PROVE  /\ needs => Fit(h)'
                        /\ Fit(h)' /\ Uncovered(h)' => needs
      BY <2>2, <2>3, <3>1 DEF SettleInv, Exists, Fit
    <3> QED BY <3>1, <3>2
  <2>5. \A g \in Groups : Recorded(g) => Recorded(g)'
    BY <2>2, <2>3 DEF Recorded
  <2>6. SameReports
    BY <1>0, <2>3, RepUnchanged
  <2> QED BY <1>q, <2>3, <2>4, <2>5, <2>6
<1>21. CASE WriteFlag
  BY <1>21, RaceWritten
<1>22. CASE EndAnalysis
  BY <1>22, <1>i, <1>n, <1>q, SettleAway DEF EndAnalysis, Idle, index, scan, ghost
<1>23. ASSUME NEW g \in Groups, NEW s \in {"open"} \cup Decided, ChangeState(g, s) PROVE RaceInv'
  BY <1>23, RaceDecided
<1>24. CASE Restart
  BY <1>24, RaceRestarted
<1> QED BY <1>1, <1>2, <1>3, <1>4, <1>5, <1>6, <1>7, <1>9, <1>10, <1>11, <1>12, <1>13, <1>14,
           <1>15, <1>16, <1>17, <1>18, <1>19, <1>20, <1>21, <1>22, <1>23, <1>24
        DEF Next, Grouping, Analyzing, Deciding

-----------------------------------------------------------------------------
(* The theorems.                                                           *)

LEMMA GroupStart ==
  ASSUME GroupsAssumption, GroupBoundsAssumption, Init
  PROVE  GroupInv
<1> USE GroupsAssumption, GroupBoundsAssumption
<1>1. TypeOK
  <2>1. grp \in [Groups -> [state : States, flag : BOOLEAN, recheck : BOOLEAN]]
    BY DEF Init, NoRow, States
  <2>2. rep \in [Reports -> [g : Groups \cup {NoGroup}, pats : SUBSET Patterns,
                             st : {"none", "running", "completed", "error", "gone"}]]
    BY DEF Init, NoReport
  <2>3. an \in JobType
    BY DEF Init, Idle, JobType
  <2> QED BY <2>1, <2>2, <2>3 DEF Init, TypeOK, JobType
<1>2. JobInv /\ ReportsInv
  BY DEF Init, Idle, NoReport, JobInv, ReportsInv, Working
<1>3. SettleInv
  BY DEF Init, Idle, SettleInv, Working
<1>4. ASSUME NEW g \in Groups PROVE GroupOk(g)
  <2>1. grp[g].state = "none" /\ ~grp[g].flag /\ g \notin flagged
    BY DEF Init, NoRow
  <2> QED BY <2>1 DEF GroupOk, AskedOk, ScanOk, WaitOk, Waits, UnaskedOk, FlaggedUnasked,
                      CauseOk, NewCauseMissed, Decided
<1> QED BY <1>1, <1>2, <1>3, <1>4 DEF GroupInv, StructInv, RaceInv

\* The invariant holds for every number of groups, patterns, mails, workers,
\* reports and state changes.
THEOREM GroupsHold == Spec => []GroupInv
<1> USE GroupsAssumption, GroupBoundsAssumption
<1>1. Init => GroupInv
  BY GroupStart
<1>2. GroupInv /\ [Next]_vars => GroupInv'
  BY StructKept, RaceKept DEF GroupInv
<1> QED BY <1>1, <1>2, PTL DEF Spec

\* A resolved or ignored group that nobody sent back, and a recipient-side
\* group, is flagged for analysis only by an explicit request, or in a race
\* (groupTracker.recount, settle, SetGroupState).
THEOREM FlagsAreAsked == Spec => []FlaggedOnlyOnRequest
<1>1. GroupInv => FlaggedOnlyOnRequest
  BY DEF GroupInv, RaceInv, GroupOk, UnaskedOk, FlaggedOnlyOnRequest
<1> QED BY <1>1, GroupsHold, PTL

\* No open actionable group with a pattern no analysis settled is left without
\* its flag, and no decided group misses a new cause, except in a race: filing,
\* settling and deciding may interleave in every other order (GroupMailbox,
\* settle, recheckBasis.sendsBack, ResetRunningAgentReports).
THEOREM NothingIsMissed == Spec => []MissedOnlyInRaces
<1>1. GroupInv => MissedOnlyInRaces
  <2> SUFFICES ASSUME GroupInv, NEW g \in Groups
               PROVE  (Forgotten(g) => g \in raced) /\ (NewCauseMissed(g) => g \in raced)
    BY DEF MissedOnlyInRaces, NothingForgottenButRaces, NewCauseMissedOnlyInRaces
  <2>1. GroupOk(g)
    BY DEF GroupInv, RaceInv
  <2>2. Forgotten(g) => Waits(g) /\ ~Recorded(g) /\ Latest(g) \cap cut = {}
    BY DEF Forgotten, Waits, Recorded, BeingSettled
  <2> QED BY <2>1, <2>2 DEF GroupOk, WaitOk, CauseOk
<1> QED BY <1>1, GroupsHold, PTL

=============================================================================
