---------------------------- MODULE NoticeFiling ----------------------------
(* The grouping of the mails of one mailbox (mailengine.GroupMailbox): each   *)
(* mail that is not classified yet, or whose DNS lookup failure an earlier    *)
(* run left unverified, is classified, its bounces are judged and filed in    *)
(* groups, one transaction a mail.  Runs of a mailbox exclude each other      *)
(* (JobQueue).  What a run looks up of the sending sources is drawn anew for  *)
(* each mail, where the program keeps it for the run.                         *)
EXTENDS NoticeCategories, FiniteSets

CONSTANTS
  Boxes,      \* the mails that arrive, in the order of their ids: sequences of mails
              \* as in NoticeRules, with  blocks of ds as in NoticeCategories and
              \*   body      the bounce the body alone speaks of
              \*   received  the Received headers of the notice, topmost first
              \*   peer      who really handed it to the inbound servers
  Settings,   \* sending sources of the mailbox, as in NoticeRules
  AddrsOf,    \* host name -> its addresses
  SPF,        \* addresses and host names in the SPF records of the domains
  Internal,   \* addresses of internal relays
  Families    \* the address families: a partition of the addresses

\* Settings name host names and addresses; "" is neither.
AreSources(s) ==
  /\ DOMAIN s = {"hosts", "others", "addrs", "found"} /\ s.found = {}
  /\ s.hosts \cup s.others \subseteq DOMAIN AddrsOf
  /\ s.addrs \intersect (DOMAIN AddrsOf \cup {""}) = {}

\* Whoever sends a notice cannot add a Received header above those of the
\* inbound servers, and these record who handed it in (internalHop).
EntersAt(received, k, peer) ==
  /\ peer \notin Internal \cup {""}
  /\ peer \in received[k].peer \/ (received[k].peer = {} /\ peer = received[k].word)
  /\ \A j \in 1..(k - 1) : PassedOver(received[j], Internal)
HandedIn(pm) == pm.received = <<>> \/ \E k \in DOMAIN pm.received : EntersAt(pm.received, k, pm.peer)

IsList(s) == Len(s) \in Nat /\ DOMAIN s = 1..Len(s)
IsMail(pm) ==
  /\ IsList(pm.received) /\ HandedIn(pm)
  /\ \A blocks \in pm.ds : IsList(blocks)
  /\ pm.ds = {} => pm.reporter = ""
  /\ \A om, other \in pm.orig : om = other

ASSUME FilingAssumption ==
  /\ \A b \in Boxes : IsList(b) /\ \A i \in DOMAIN b : IsMail(b[i])
  /\ \A s \in Settings : AreSources(s)
  /\ \A h \in DOMAIN AddrsOf : AddrsOf[h] \intersect (DOMAIN AddrsOf \cup {""}) = {}
  /\ "" \notin DOMAIN AddrsOf \cup SPF

VARIABLES
  box, sources, \* the mails of the mailbox and its sending sources
  have,       \* how many of the mails have arrived
  filed,      \* mail -> {}, or its classification and bounces {[...]}
  groups,     \* group -> the number of its messages as stored
  filing,     \* the run at work
  cut         \* has a full run been cut off and none been completed since?

filingVars == <<box, sources, have, filed, groups, filing, cut>>

Mails == 1..have
NotFiling == [on |-> FALSE, live |-> FALSE, full |-> FALSE, todo |-> {}, done |-> {}]

-----------------------------------------------------------------------------
(* What the lookups may give (sourceLookups.get): the addresses of the host   *)
(* names and, only while the DNS check is on, the SPF records.                *)

HostNames  == sources.hosts \cup sources.others
Looked(live) == (UNION {AddrsOf[h] : h \in HostNames}) \cup (IF live THEN SPF ELSE {})
Extras(live) ==
  {[found |-> Looked(live), complete |-> TRUE]} \cup
  (IF HostNames = {} /\ ~live THEN {} ELSE [found : SUBSET Looked(live), complete : {FALSE}])

\* ResolveReporter: no answer, all addresses or, when the query for the other
\* family got none (addressesOf), those of one family.
Replies(mta) ==
  IF mta \in DOMAIN AddrsOf THEN {{}, AddrsOf[mta]} \cup {AddrsOf[mta] \intersect F : F \in Families} ELSE {{}}

Partial(mta, reply) == reply # {} /\ reply # AddrsOf[mta]

\* dnsVerification.verdict: Checker.Verify may tell anything about the name
\* (DNSCheck says what).
Answer(mta, extra, outcome, reply) ==
  LET v == VerdictOf(outcome, MatchReporter(sources, extra, mta, DOMAIN AddrsOf, reply))
  IN [v |-> v, half |-> v.outcome = "exists" /\ Partial(mta, reply)]
Told == {"", "exists", "not_found", "broken"}
VerdictsOn(mta, extra) ==
  {Answer(mta, extra, outcome, reply) : outcome \in Told, reply \in Replies(mta)}

-----------------------------------------------------------------------------
(* planGrouping.                                                              *)

\* What the lookups decide of a mail.
View(pm, extra) ==
  [cls |-> ClassifyWithSources(pm, sources, extra), sent |-> AboutSentMail(sources, extra, pm.received, Internal),
   verdicts |-> VerdictsOn(pm.reporter, extra)]

Bounce(pm, i) == IF i = 0 THEN pm.body ELSE Blocks(pm)[i]
Reported(pm, e) == ParseDNSFailure(Bounce(pm, e.block)).found

\* groupForBounceWith
Judgement(pm, e, w) ==
  LET c == CategorizeWith(Bounce(pm, e.block), e.kind, w.v)
  IN [block |-> e.block, kind |-> e.kind, rule |-> c.rule, group |-> c.kind, outcome |-> w.v.outcome, half |-> w.half]

Extracted(pm, view) == IF IsGroupedKind(view.cls.kind) THEN ExtractBounces(Blocks(pm), view.cls.kind) ELSE {}

\* asked: what the DNS check says of the bounces it is asked about.
NotAsked == [v |-> NotVerified, half |-> FALSE]
Plan(pm, live, view, asked) ==
  [rule |-> view.cls.rule, kind |-> view.cls.kind, live |-> live, direct |-> DOMAIN asked # {} /\ view.sent,
   bounces |-> {Judgement(pm, e, IF e \in DOMAIN asked THEN asked[e] ELSE NotAsked) : e \in Extracted(pm, view)}]
PlansOf(pm, live, view) ==
  {Plan(pm, live, view, asked) : asked \in [{e \in Extracted(pm, view) : Reported(pm, e)} -> view.verdicts]}

Plans(pm, live) == UNION {PlansOf(pm, live, view) : view \in {View(pm, extra) : extra \in Extras(live)}}

-----------------------------------------------------------------------------
BouncesOf(f, i) == UNION {p.bounces : p \in f[i]}
GroupsOf(f, i)  == {b.group : b \in BouncesOf(f, i)}
Members(f, g)   == {i \in DOMAIN f : g \in GroupsOf(f, i)}

\* groupMessageIn: recount of the groups of the mail, refresh of those it has
\* left; DeleteGroupIfEmpty.
M_Regroup(f, i) ==
  [g \in DOMAIN groups \cup GroupsOf(f, i) |->
     IF g \in GroupsOf(f, i) THEN Cardinality(Members(f, g)) ELSE groups[g]]
Regroup(f, i) ==
  LET touched == GroupsOf(filed, i) \cup GroupsOf(f, i)
      gone    == {g \in GroupsOf(filed, i) : Members(f, g) = {}}
  IN [g \in (DOMAIN groups \cup GroupsOf(f, i)) \ gone |->
        IF g \in touched THEN Cardinality(Members(f, g)) ELSE groups[g]]

-----------------------------------------------------------------------------
\* A fetch indexes the next mail.
Arrive ==
  /\ ~filing.on /\ have < Len(box) /\ have' = have + 1
  /\ UNCHANGED <<box, sources, filed, groups, filing, cut>>

\* GroupMailbox up to its loop.  ClearMailClassification leaves the groups; the
\* mails left unverified by an earlier run follow those not classified.
Retried(f, live, full) ==
  {i \in DOMAIN f : live /\ ~full /\ \E b \in BouncesOf(f, i) : b.rule \in Unverified}
Precedes(i, j) ==
  (filed[i] = {} /\ filed[j] # {}) \/ ((filed[i] = {} <=> filed[j] = {}) /\ i < j)
NextMail(i) == i \in filing.todo /\ \A j \in filing.todo \ {i} : Precedes(i, j)

BeginRun(live, full) ==
  /\ ~filing.on
  /\ filed' = IF full THEN [i \in DOMAIN filed |-> {}] ELSE filed
  /\ filing' = [on |-> TRUE, live |-> live, full |-> full, done |-> {},
                todo |-> {i \in Mails : filed'[i] = {}} \cup Retried(filed', live, full)]
  /\ cut' = (cut \/ full)
  /\ UNCHANGED <<box, sources, have, groups>>

Done(i) == filing' = [filing EXCEPT !.todo = @ \ {i}, !.done = @ \cup {i}]

\* groupMessage: everything is decided before the transaction.
File(i) ==
  /\ NextMail(i) /\ Done(i)
  /\ \E p \in Plans(box[i], filing.live) :
       /\ filed' = [filed EXCEPT ![i] = {p}]
       /\ groups' = Regroup(filed', i)
  /\ UNCHANGED <<box, sources, have, cut>>

\* Without the original nothing is decided.
Skip(i) ==
  /\ NextMail(i) /\ Done(i)
  /\ UNCHANGED <<box, sources, have, filed, groups, cut>>

\* A full run deletes the groups that came back with no member.
FinishRun ==
  /\ filing.on /\ filing.todo = {} /\ filing' = NotFiling
  /\ groups' = IF filing.full THEN [g \in {g \in DOMAIN groups : Members(filed, g) # {}} |-> groups[g]] ELSE groups
  /\ cut' = (cut /\ ~filing.full)
  /\ UNCHANGED <<box, sources, have, filed>>

\* Canceled, failed or killed.
StopRun ==
  /\ filing.on /\ filing' = NotFiling
  /\ UNCHANGED <<box, sources, have, filed, groups, cut>>

FilingInit ==
  /\ box \in Boxes /\ sources \in Settings /\ have = 0
  /\ filed = [i \in DOMAIN box |-> {}] /\ groups = <<>> /\ filing = NotFiling /\ cut = FALSE

FilingNext ==
  \/ Arrive \/ FinishRun \/ StopRun
  \/ \E i \in filing.todo : File(i) \/ Skip(i)
  \/ \E live, full \in BOOLEAN : BeginRun(live, full)

FilingSpec == FilingInit /\ [][FilingNext]_filingVars
-----------------------------------------------------------------------------
(* The truth, which no lookup need have told.                                 *)
Ours(live) == Known(sources) \cup Looked(live)
OurServer(mta, live) ==
  mta \in Ours(live) \/ (mta \in DOMAIN AddrsOf /\ AddrsOf[mta] \intersect Ours(live) # {})

\* A notice about mail of our own is never junk for want of an answer: what is
\* taken for backscatter came back without any sending source in the headers
\* of the original, nor was it reported by one (classifyWithSources).
SentMailIsKept(pm, p) ==
  p.rule = "backscatter" =>
    /\ pm.reporter \notin Ours(p.live)
    /\ \A h \in UNION {om.hops : om \in pm.orig} : ReceivedSources(h) \intersect Ours(p.live) = {}

\* A name that exists is blamed on our resolver only for a server of ours, and
\* on the outside only for another's, unless half of the answer about a server
\* hid the address that is ours (sourceMatcher.match, addressesOf).
BlameIsTrue(pm, p) ==
  LET ours == Empty(sources) \/ OurServer(pm.reporter, p.live)
  IN \A b \in p.bounces :
       /\ b.rule = "dns_resolver_failure" => ours
       /\ b.rule = "dns_failure_external" /\ b.outcome = "exists" => ~ours \/ b.half

\* Every recipient a notice reports as failed or delayed is judged as such,
\* unless the notice is junk (ExtractBounces).
EveryRecipientJudged(pm, p) ==
  p.kind # "junk" =>
    \A i \in DOMAIN Blocks(pm) :
      LET b == Blocks(pm)[i]
      IN IsGroupedKind(BlockKind(b)) /\ ~b.excluded => \E e \in p.bounces : e.block = i /\ e.kind = BlockKind(b)

\* The authoritative servers of a name are asked only for a notice that a
\* sending server handed in, whatever its headers claim (aboutSentMail).
DirectOnlyForSent(pm, p) == p.direct => pm.peer \in Ours(p.live)

TrueOf(pm, p) ==
  SentMailIsKept(pm, p) /\ BlameIsTrue(pm, p) /\ EveryRecipientJudged(pm, p) /\ DirectOnlyForSent(pm, p)

\* What is decided about a notice is true of the mail it is about, whatever
\* could not be looked up (classifyWithSources, ExtractBounces, aboutSentMail).
JudgedByTruth == \A i \in Mails : \A p \in filed[i] : TrueOf(box[i], p)

\* A run with the check on leaves no bounce with an unverified DNS failure
\* that it did not try, unless its status code alone names the recipient
\* (dns_unverified_ rules, ListMessagesByBounceRulePrefix).
Untried(i) ==
  \E b \in BouncesOf(filed, i) :
    LET said == Bounce(box[i], b.block)
    IN ParseDNSFailure(said).found /\ b.outcome = "" /\ said.status \intersect {"user", "full", "disabled"} = {}
UnverifiedIsRetried == [][FinishRun /\ filing.live => \A i \in Mails : Untried(i) => i \in filing.done]_filingVars

\* The counter of every group with members is the number of its mails; a group
\* without any is left only by a full run that was cut off (groupMessageIn).
FiledIsCounted ==
  /\ \A i \in Mails : GroupsOf(filed, i) \subseteq DOMAIN groups
  /\ \A g \in DOMAIN groups :
       IF Members(filed, g) = {} THEN cut ELSE groups[g] = Cardinality(Members(filed, g))
=============================================================================
