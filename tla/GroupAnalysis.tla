--------------------------- MODULE GroupAnalysis ---------------------------
(***************************************************************************)
(* The problem groups of one mailbox index: the grouping phase files mails *)
(* into groups and flags the groups that need an analysis or a new         *)
(* decision, the analysis job runs the agent over the flagged groups and   *)
(* settles them, and users decide about groups at any time.                *)
(*                                                                         *)
(* Grouping and analysis hold different resource keys, so with two workers *)
(* they run at the same time on one index; a reindex and a cleanup take    *)
(* the keys of both.  A step is one SQL statement or one transaction.  The *)
(* text of mails and reports is abstracted: a member of a group is known   *)
(* by its pattern, a report by the patterns it settled.                    *)
(*                                                                         *)
(* A definition M_... is a faulty variant of the definition that follows   *)
(* it.                                                                     *)
(***************************************************************************)
EXTENDS Naturals, FiniteSets

CONSTANTS
  Groups,       \* group keys
  Actionable,   \* the groups of an actionable category (part of the key)
  ByPattern,    \* the groups whose category is in recheckByPattern
  Patterns,     \* pattern keys
  Keys,         \* re-check keys
  KeyOf,        \* pattern -> its re-check key (RecheckKey: the receiving server left out)
  Mails,        \* places for mails of the index
  Unverified,   \* the ones a DNS lookup failure of which was never verified
  Plans,        \* what planGrouping may decide: sets of <<group, pattern>>
  NoGroup

CONSTANTS       \* bounds of the model
  Workers,      \* jobs at once: 1, or more
  MaxReports,   \* agent reports ever inserted
  MaxEvents     \* state changes by users and restarts of the server, together

Reports == 1 .. MaxReports
States  == {"none", "open", "resolved", "ignored"}     \* "none": no row
Decided == {"resolved", "ignored"}

ASSUME GroupsAssumption ==
  /\ Actionable \subseteq Groups /\ ByPattern \subseteq Groups /\ NoGroup \notin Groups
  /\ KeyOf \in [Patterns -> Keys]
  /\ Unverified \subseteq Mails
  /\ Plans \subseteq SUBSET (Groups \X Patterns)

ASSUME GroupBoundsAssumption ==
  Workers \in Nat \ {0} /\ MaxReports \in Nat /\ MaxEvents \in Nat

VARIABLES
  mail,      \* mail -> "absent", "waiting" (classified = 0), "filed"
  filed,     \* mail -> its bounces and dmarc_records rows: <<group, pattern>>
  grp,       \* groups table: group -> [state, flag (needs_analysis), recheck]
  keys,      \* group -> the re-check keys of its latest state change
  rep,       \* agent_reports with their patterns
  run,       \* the grouping run: "off", "on", "full"
  todo,      \* run -> mails it has still to do
  flagged,   \* groupTracker.flagged: groups the run flagged so far
  an,        \* the analysis job
  asked,     \* history: the groups flagged by an explicit request
  cut,       \* history: reports a crash cut off while they settled their group
  raced,     \* history: groups whose flags were written in a race (see Windows)
  events     \* state changes and restarts so far

index == <<mail, filed, grp, keys, rep>>
scan  == <<run, todo, flagged>>
ghost == <<asked, cut, raced>>
vars  == <<mail, filed, grp, keys, rep, run, todo, flagged, an, asked, cut, raced, events>>

NoRow    == [state |-> "none", flag |-> FALSE, recheck |-> FALSE]
NoReport == [g |-> NoGroup, st |-> "none", pats |-> {}]
Idle     == [pc |-> "idle", queue |-> {}, asks |-> {}, g |-> NoGroup, id |-> 0,
             pats |-> {}, fit |-> FALSE, needs |-> FALSE]

-----------------------------------------------------------------------------
(* Members, coverage, deletion.                                            *)

Exists(g) == grp[g].state # "none"

PatternsIn(F, g) == {p \in Patterns : \E m \in Mails : <<g, p>> \in F[m]}
Members(g)       == PatternsIn(filed, g)

\* latestSettlingReportID: the latest report of the group that recorded patterns.
Settling(g) == {i \in Reports : rep[i].g = g /\ rep[i].pats # {}}
Latest(g)   == {i \in Settling(g) : \A k \in Settling(g) : k <= i}

PatternCovered(g, p) == \E i \in Latest(g) : p \in rep[i].pats
Uncovered(g) == \E p \in Members(g) : ~PatternCovered(g, p)

\* A group row goes with its reports and its history (ON DELETE CASCADE).
Drop(G) ==
  /\ keys' = [g \in Groups |-> IF g \in G THEN {} ELSE keys[g]]
  /\ rep'  = [i \in Reports |-> IF rep[i].g \in G
                THEN [g |-> NoGroup, st |-> "gone", pats |-> {}] ELSE rep[i]]

Emptied(F, G) == {g \in G : Exists(g) /\ PatternsIn(F, g) = {}}

\* The flag of an explicit request is gone once the flag is.
StillAsked == asked' = {g \in asked : grp'[g].flag}

\* Windows in which a write about g is based on what was read before: settle
\* has loaded the group (its flag is about to be written), or the tracker of a
\* run took g for flagged and does not look at it again.
Settles(g) == an.g = g /\ an.pc \in {"check", "write"}

\* The analysis is recording what it settled about g.
BeingSettled(g) == an.g = g /\ an.pc \in {"record", "check", "write"}

-----------------------------------------------------------------------------
(* The grouping phase (sync, group and reclassify jobs).                   *)

Fetch(m) ==
  /\ mail[m] = "absent"
  /\ mail' = [mail EXCEPT ![m] = "waiting"]
  /\ UNCHANGED <<filed, grp, keys, rep, scan, an, ghost, events>>

\* GroupMailbox starts; the full run (reclassify) clears the classification.
StartGrouping(full) ==
  /\ run = "off" /\ (Workers = 1 => an.pc = "idle")
  /\ run' = IF full THEN "full" ELSE "on"
  /\ IF full
       THEN /\ mail'  = [m \in Mails |-> IF mail[m] = "absent" THEN "absent" ELSE "waiting"]
            /\ filed' = [m \in Mails |-> {}]
            /\ todo'  = {m \in Mails : mail[m] # "absent"}
       ELSE /\ todo' = {m \in Mails : \/ mail[m] = "waiting"
                                      \/ mail[m] = "filed" /\ m \in Unverified}
            /\ UNCHANGED <<mail, filed>>
  /\ flagged' = {}
  /\ UNCHANGED <<grp, keys, rep, an, ghost, events>>

\* recheckBasis.sendsBack for the members one mail adds to a decided group:
\* late says they report on mail sent after the re-check days of the decision.
M_OnlyLate(g, pats, late) == grp[g].state = "resolved" /\ late
SendsBack(g, pats, late) ==
  \/ g \in ByPattern /\ \E p \in pats : KeyOf[p] \notin keys[g]
  \/ grp[g].state = "resolved" /\ late

\* groupTracker.recount: the row of a group after the members pats were added,
\* and whether the run flagged it.  A new row is open, and flagged when the
\* group is actionable (UpsertGroup).
Recount(g, pats, late) ==
  LET new  == [state |-> "open", flag |-> g \in Actionable, recheck |-> FALSE]
      cur  == IF Exists(g) THEN grp[g] ELSE new
      back == cur.state \in Decided /\ ~cur.recheck
  IN CASE g \in flagged -> [row |-> cur, hit |-> FALSE]
       [] g \notin flagged /\ back ->
            IF SendsBack(g, pats, late)
              THEN [row |-> [cur EXCEPT !.recheck = TRUE, !.flag = @ \/ g \in Actionable],
                    hit |-> g \in Actionable]
              ELSE [row |-> cur, hit |-> FALSE]
       [] OTHER ->
            IF g \in Actionable /\ \E p \in pats : ~PatternCovered(g, p)
              THEN [row |-> [cur EXCEPT !.flag = TRUE], hit |-> TRUE]
              ELSE [row |-> cur, hit |-> FALSE]

\* groupMessageIn, one transaction: the groups, the members, the counters and
\* flags, the groups the mail left, the classification.
GroupMessage(m, plan, late) ==
  LET into   == {g \in Groups : \E p \in Patterns : <<g, p>> \in plan}
      left   == {g \in Groups : \E p \in Patterns : <<g, p>> \in filed[m]} \ into
      F      == [filed EXCEPT ![m] = plan]
      gone   == Emptied(F, left)
      result == [g \in into |-> Recount(g, {p \in Patterns : <<g, p>> \in plan}, late)]
  IN /\ run # "off" /\ m \in todo
     /\ todo'    = todo \ {m}
     /\ filed'   = F
     /\ mail'    = [mail EXCEPT ![m] = "filed"]
     /\ grp'     = [g \in Groups |-> IF g \in into THEN result[g].row
                                     ELSE IF g \in gone THEN NoRow ELSE grp[g]]
     /\ flagged' = flagged \cup {g \in into : result[g].hit}
     /\ Drop(gone)
     /\ StillAsked
     /\ raced'   = (raced \cup {g \in into : Settles(g)}) \ gone
     /\ UNCHANGED <<run, an, cut, events>>

\* The run ends; a full one first removes the groups left empty.  With mails
\* still to do it failed or was canceled.
EndGrouping ==
  /\ run # "off"
  /\ LET gone == IF run = "full" /\ todo = {} THEN Emptied(filed, Groups) ELSE {}
     IN grp' = [g \in Groups |-> IF g \in gone THEN NoRow ELSE grp[g]] /\ Drop(gone)
  /\ run' = "off" /\ todo' = {} /\ flagged' = {}
  /\ StillAsked
  /\ UNCHANGED <<mail, filed, an, cut, raced, events>>

\* PruneMailbox (cleanup job, which excludes both other jobs): the expired
\* mails, then the groups left empty, unless a crash cuts it off before.
Expire(S) ==
  /\ run = "off" /\ an.pc = "idle"
  /\ S # {} /\ \A m \in S : mail[m] # "absent"
  /\ mail'  = [m \in Mails |-> IF m \in S THEN "absent" ELSE mail[m]]
  /\ filed' = [m \in Mails |-> IF m \in S THEN {} ELSE filed[m]]

Prune(S) ==
  /\ Expire(S)
  /\ LET gone == Emptied(filed', Groups)
     IN grp' = [g \in Groups |-> IF g \in gone THEN NoRow ELSE grp[g]] /\ Drop(gone)
  /\ StillAsked
  /\ UNCHANGED <<scan, an, cut, raced, events>>

PruneCutOff(S) ==
  /\ events < MaxEvents
  /\ Expire(S)
  /\ events' = events + 1
  /\ UNCHANGED <<grp, keys, rep, scan, an, ghost>>

-----------------------------------------------------------------------------
(* The analysis job: runAnalyze and, group by group, AnalyzeGroup.         *)

\* The groups a job is about: the flagged ones (no target), every actionable
\* one, or one group of any kind; the latter two are requests.
StartAnalysis ==
  /\ an.pc = "idle" /\ (Workers = 1 => run = "off")
  /\ \E g \in Groups : Exists(g) /\ grp[g].flag
  /\ an' = [Idle EXCEPT !.pc = "next", !.queue = {g \in Groups : Exists(g) /\ grp[g].flag}]
  /\ UNCHANGED <<index, scan, ghost, events>>

StartRequested ==
  /\ an.pc = "idle" /\ (Workers = 1 => run = "off")
  /\ \E G \in {{g \in Actionable : Exists(g)}} \cup {{g} : g \in Groups} :
       /\ G # {} /\ \A g \in G : Exists(g)
       /\ an' = [Idle EXCEPT !.pc = "flag", !.queue = G, !.asks = G]
  /\ UNCHANGED <<index, scan, ghost, events>>

\* A request flags its groups first, one statement each.
FlagAsked(g) ==
  /\ an.pc = "flag" /\ g \in an.asks
  /\ grp' = IF Exists(g) THEN [grp EXCEPT ![g].flag = TRUE] ELSE grp
  /\ asked' = IF Exists(g) THEN asked \cup {g} ELSE asked
  /\ an' = [an EXCEPT !.asks = @ \ {g}, !.pc = IF an.asks = {g} THEN "next" ELSE "flag"]
  /\ UNCHANGED <<mail, filed, keys, rep, scan, cut, raced, events>>

\* settle and runAnalyze look at the group as it is now: an actionable group
\* that is open or waits for a new decision may go on waiting for an analysis.
M_FitAlways(g) == g \in Actionable
Fit(g) == g \in Actionable /\ (grp[g].state = "open" \/ grp[g].recheck)

Unused == {i \in Reports : rep[i].st = "none"}

\* The group is loaded and a running report inserted (AnalyzeGroup fails for a
\* group that is gone).
BeginGroup(g) ==
  /\ an.pc = "next" /\ g \in an.queue
  /\ IF Exists(g)
       THEN \E i \in Unused :
              /\ \A k \in Unused : i <= k
              /\ rep' = [rep EXCEPT ![i] = [g |-> g, st |-> "running", pats |-> {}]]
              /\ an' = [an EXCEPT !.pc = "evidence", !.queue = @ \ {g}, !.g = g, !.id = i,
                                 !.fit = Fit(g)]
       ELSE an' = [an EXCEPT !.queue = @ \ {g}] /\ UNCHANGED rep
  /\ UNCHANGED <<mail, filed, grp, keys, scan, ghost, events>>

\* BuildEvidence: the patterns of the members at this moment.
Evidence ==
  /\ an.pc = "evidence"
  /\ an' = [an EXCEPT !.pc = "agent", !.pats = Members(an.g)]
  /\ UNCHANGED <<index, scan, ghost, events>>

\* The outcome of the report (an UPDATE by id: nothing when the row is gone).
Outcome(st) == rep' = IF rep[an.id].st = "running" THEN [rep EXCEPT ![an.id].st = st] ELSE rep

\* A report: the patterns of the evidence are settled.
AgentReports ==
  /\ an.pc = "agent"
  /\ Outcome("completed")
  /\ an' = [an EXCEPT !.pc = "record"]
  /\ UNCHANGED <<mail, filed, grp, keys, scan, ghost, events>>

\* A usage limit or a cancellation: nothing is settled, the job ends.
AgentRefused ==
  /\ an.pc \in {"evidence", "agent"}
  /\ Outcome("error")
  /\ an' = Idle
  /\ UNCHANGED <<mail, filed, grp, keys, scan, ghost, events>>

\* Any other failure settles the group as it is now.
AgentFails ==
  /\ an.pc \in {"evidence", "agent"}
  /\ Outcome("error")
  /\ an' = [an EXCEPT !.pc = "list", !.pats = {}]
  /\ UNCHANGED <<mail, filed, grp, keys, scan, ghost, events>>

ListPatterns ==
  /\ an.pc = "list"
  /\ an' = [an EXCEPT !.pc = "record", !.pats = Members(an.g)]
  /\ UNCHANGED <<index, scan, ghost, events>>

\* InsertAgentReportPatterns: one INSERT per pattern, which fails (and ends
\* the loop) when the report went with its group.
RecordPattern(p) ==
  /\ an.pc = "record" /\ p \in an.pats
  /\ IF rep[an.id].st = "gone"
       THEN an' = [an EXCEPT !.pats = {}] /\ UNCHANGED rep
       ELSE /\ rep' = [rep EXCEPT ![an.id].pats = @ \cup {p}]
            /\ an' = [an EXCEPT !.pats = @ \ {p}]
  /\ UNCHANGED <<mail, filed, grp, keys, scan, ghost, events>>

\* settle: the group is loaded again (when it is gone, what BeginGroup loaded
\* stands in for it),
Reload ==
  /\ an.pc = "record" /\ an.pats = {}
  /\ an' = [an EXCEPT !.pc = "check", !.fit = IF Exists(an.g) THEN Fit(an.g) ELSE @]
  /\ UNCHANGED <<index, scan, ghost, events>>

\* its patterns are compared with what is settled now,
CheckCoverage ==
  /\ an.pc = "check"
  /\ an' = [an EXCEPT !.pc = "write", !.fit = FALSE, !.needs = an.fit /\ Uncovered(an.g)]
  /\ UNCHANGED <<index, scan, ghost, events>>

\* and the flag is written.
WriteFlag ==
  /\ an.pc = "write"
  /\ grp' = IF Exists(an.g) THEN [grp EXCEPT ![an.g].flag = an.needs] ELSE grp
  /\ asked' = asked \ {an.g}
  /\ an' = [Idle EXCEPT !.pc = "next", !.queue = an.queue]
  /\ raced' = IF an.g \in flagged THEN raced \cup {an.g} ELSE raced
  /\ UNCHANGED <<mail, filed, keys, rep, scan, cut, events>>

\* The job ends: every group was done, or the rest is left (a known usage
\* limit, no agent on this machine, a cancellation).
EndAnalysis ==
  /\ an.pc = "next"
  /\ an' = Idle
  /\ UNCHANGED <<index, scan, ghost, events>>

-----------------------------------------------------------------------------
(* Users, and restarts of the server.                                      *)

\* SetGroupState: the analysis flag after a state change.
M_ReopenedQuietly(g, s) == FALSE
FlagAfterChange(g, s) ==
  IF s # "open" THEN FALSE ELSE IF g \in Actionable THEN Uncovered(g) ELSE grp[g].flag

\* RecordStateChangePatterns: the re-check keys of the current members.
KeysNow(g)   == {KeyOf[p] : p \in Members(g)}

\* ChangeGroupState: one transaction.
ChangeState(g, s) ==
  /\ events < MaxEvents /\ Exists(g)
  /\ events' = events + 1
  /\ grp'  = [grp EXCEPT ![g] = [state |-> s, recheck |-> FALSE, flag |-> FlagAfterChange(g, s)]]
  /\ keys' = [keys EXCEPT ![g] = KeysNow(g)]
  /\ StillAsked
  /\ raced' = IF g \in flagged \/ Settles(g) THEN raced \cup {g} ELSE raced \ {g}
  /\ UNCHANGED <<mail, filed, rep, scan, an, cut>>

\* The server dies and starts again: ResetRunningAgentReports.
Restart ==
  /\ events < MaxEvents
  /\ events' = events + 1
  /\ run' = "off" /\ todo' = {} /\ flagged' = {}
  /\ cut' = IF BeingSettled(an.g) THEN cut \cup {an.id} ELSE cut
  /\ an' = Idle
  /\ rep' = [i \in Reports |-> IF rep[i].st = "running" THEN [rep[i] EXCEPT !.st = "error"]
                               ELSE rep[i]]
  /\ UNCHANGED <<mail, filed, grp, keys, asked, raced>>

-----------------------------------------------------------------------------

Init ==
  /\ mail  = [m \in Mails |-> "absent"]
  /\ filed = [m \in Mails |-> {}]
  /\ grp   = [g \in Groups |-> NoRow]
  /\ keys  = [g \in Groups |-> {}]
  /\ rep   = [i \in Reports |-> NoReport]
  /\ run = "off" /\ todo = {} /\ flagged = {}
  /\ an = Idle
  /\ asked = {} /\ cut = {} /\ raced = {} /\ events = 0

Grouping ==
  \/ \E m \in Mails : \/ Fetch(m)
                      \/ \E plan \in Plans, late \in BOOLEAN : GroupMessage(m, plan, late)
  \/ \E full \in BOOLEAN : StartGrouping(full)
  \/ EndGrouping
  \/ \E S \in SUBSET Mails : Prune(S) \/ PruneCutOff(S)

Analyzing ==
  \/ StartAnalysis \/ StartRequested \/ EndAnalysis
  \/ \E g \in Groups : FlagAsked(g) \/ BeginGroup(g)
  \/ Evidence \/ AgentReports \/ AgentRefused \/ AgentFails \/ ListPatterns
  \/ \E p \in Patterns : RecordPattern(p)
  \/ Reload \/ CheckCoverage \/ WriteFlag

Deciding == \E g \in Groups, s \in {"open"} \cup Decided : ChangeState(g, s)

Next == Grouping \/ Analyzing \/ Deciding \/ Restart

Spec == Init /\ [][Next]_vars

-----------------------------------------------------------------------------
(* Properties.                                                             *)

\* Every variable has its type.
TypeOK ==
  /\ mail \in [Mails -> {"absent", "waiting", "filed"}]
  /\ filed \in [Mails -> SUBSET (Groups \X Patterns)]
  /\ grp \in [Groups -> [state : States, flag : BOOLEAN, recheck : BOOLEAN]]
  /\ keys \in [Groups -> SUBSET Keys]
  /\ rep \in [Reports -> [g : Groups \cup {NoGroup}, pats : SUBSET Patterns,
                          st : {"none", "running", "completed", "error", "gone"}]]
  /\ run \in {"off", "on", "full"} /\ todo \subseteq Mails /\ flagged \subseteq Groups
  /\ an \in [pc : {"idle", "flag", "next", "evidence", "agent", "list", "record", "check",
                   "write"},
             queue : SUBSET Groups, asks : SUBSET Groups, g : Groups \cup {NoGroup},
             id : 0 .. MaxReports, pats : SUBSET Patterns, fit : BOOLEAN, needs : BOOLEAN]
  /\ asked \subseteq Groups /\ raced \subseteq Groups /\ cut \subseteq Reports
  /\ events \in 0 .. MaxEvents

\* An open actionable group with a pattern no analysis settled is flagged for
\* analysis (GroupMailbox, settle), except while settle is at work on the group
\* or after a crash cut it off: the patterns are recorded one by one and the
\* flag is written last.
Forgotten(g) ==
  /\ g \in Actionable /\ grp[g].state = "open" /\ Uncovered(g) /\ ~grp[g].flag
  /\ ~BeingSettled(g) /\ Latest(g) \cap cut = {}

\* A decided group whose category tells causes apart waits for a new decision
\* as soon as it has a member whose re-check key it did not have at the
\* decision (recheckBasis.sendsBack).
NewCauseMissed(g) ==
  /\ g \in ByPattern /\ grp[g].state \in Decided /\ ~grp[g].recheck
  /\ \E p \in Members(g) : KeyOf[p] \notin keys[g]

\* A resolved or ignored group that nobody sent back, and a recipient-side
\* group, is flagged for analysis only by an explicit request.
FlaggedUnasked(g) ==
  /\ grp[g].flag /\ g \notin asked
  /\ (grp[g].state \in Decided /\ ~grp[g].recheck) \/ g \notin Actionable

\* Between grouping runs, analyses and users at work at the same time, a group
\* is forgotten, misses a new cause or is flagged against its decision only
\* when two of them met in one of the windows above: every other interleaving
\* of filing, settling and deciding is sound.
NothingForgottenButRaces  == \A g \in Groups : Forgotten(g) => g \in raced
NewCauseMissedOnlyInRaces == \A g \in Groups : NewCauseMissed(g) => g \in raced
MissedOnlyInRaces         == NothingForgottenButRaces /\ NewCauseMissedOnlyInRaces
FlaggedOnlyOnRequest      == \A g \in Groups : FlaggedUnasked(g) => g \in raced

=============================================================================
