----------------------------- MODULE NoticeRules -----------------------------
(* The detection of notices and junk among the mails (mailengine: classify,  *)
(* junk, sendingsources, extract): which rule takes a mail, and what a        *)
(* delivery-status part reports for each recipient.                           *)
(* A mail is what the rules tell apart of it:                                 *)
(*   ctype           "plain", or multipart/report: "dsn" (delivery-status),   *)
(*                   "untyped" or "other"                                     *)
(*   ds              {}, or the delivery-status part {<<block, ...>>}         *)
(*   reporter        its reporting MTA, a token (below) or ""                 *)
(*   dmarc           is a DMARC report attached?                              *)
(*   orig            {}, or the returned original {[hops, signed]}: its       *)
(*                   Received headers, and whether it is signed by the        *)
(*                   monitored domain                                         *)
(*   from, path      sender and Return-Path: "daemon", "own", "other", "null" *)
(*   name            display name: "daemon", "forged" or ""                   *)
(*   auto            Auto-Submitted: "replied", "generated", "no" or ""       *)
(*   subject         of Subjects below                                        *)
(*   text, html      {}, or the body {wording}, wording being of Wordings     *)
(*   links           of "foreign" (counted by F1), "victim" (by P3)           *)
(*   fails, spam     DMARC verdict of the receiving server; a spam header     *)
(* A token is a host name or an IP address.                                   *)
EXTENDS Naturals, Sequences

\* What the subject tables find (delayedSubjectRe, failedSubjectHintRe, ...), and
\* the tables for bodies: bounceBodyRe, genuineNoticeBodyRe beyond it, and the
\* wording of a failure and of a delay.
Subjects == {"reply", "away", "bounce", "delay", "hint"}
Wordings == {"report", "genuine", "failed", "delayed"}

\* The first row of a table that applies; the rows are tried in order.
Hits(table) == {i \in DOMAIN table : table[i].when}
First(table) == table[CHOOSE i \in Hits(table) : \A j \in Hits(table) : i <= j]

-----------------------------------------------------------------------------
(* Sending sources: [hosts, others, addrs, found].  hosts are those of the    *)
(* mailbox, others the SMTP hosts of the other mailboxes, found what the run  *)
(* looked up (withResolved).                                                  *)

Empty(S)    == S.hosts = {} /\ S.addrs = {}
HasHosts(S) == S.hosts # {}
Known(S)    == S.hosts \cup S.others \cup S.addrs \cup S.found
NoSources   == [hosts |-> {}, others |-> {}, addrs |-> {}, found |-> {}]
WithResolved(S, more) == [S EXCEPT !.found = @ \cup more]

\* Match: nothing is resolved.
Match(S, mta) == Empty(S) \/ (mta # "" /\ mta \in Known(S))

\* A Received header: the words after "by" and "from", the address(es) in the
\* comments of the from clause, the name found for them, the HELO argument.
\* receivedSources looks at all of these.
ReceivedSources(hop) == ({hop.by, hop.from, hop.name, hop.helo} \cup hop.peer) \ {""}
MatchReceived(S, hops) == ~Empty(S) /\ \E h \in hops : ReceivedSources(h) \intersect Known(S) # {}

-----------------------------------------------------------------------------
(* Signals.                                                                   *)

Daemons     == {"daemon", "own_daemon"}
OwnDomain   == {"own", "own_daemon"}
Daemon(pm)  == pm.from \in Daemons \/ pm.path \in Daemons
Wording(pm) == UNION (pm.text \cup pm.html)
HasNoticeWording(pm) == "report" \in Wording(pm)
HasGenuineNoticeWording(pm) == Wording(pm) \intersect {"report", "genuine"} # {}

LooksLikeNotice(pm) ==
  Daemon(pm) \/ HasNoticeWording(pm) \/ (pm.name = "daemon" /\ "bounce" \in pm.subject)
PersonalSubject(pm) == ~Daemon(pm) /\ pm.subject \intersect {"reply", "away"} # {}
HasNoticeStructure(pm) == pm.ds # {} \/ pm.ctype # "plain" \/ pm.orig # {}
Submitted(pm) == pm.auto \notin {"", "no"}

FakeNoticeCandidate(pm) ==
  ~Submitted(pm) /\ ~PersonalSubject(pm) /\ ~HasNoticeStructure(pm) /\ LooksLikeNotice(pm)
FakeNoticeLink(pm) == FakeNoticeCandidate(pm) /\ "foreign" \in pm.links
FakeNoticeAuth(pm) ==
  FakeNoticeCandidate(pm) /\ pm.fails /\ pm.from \notin OwnDomain /\ ~HasGenuineNoticeWording(pm)

\* phishingDisplayName, phishingForgedFrom, phishingLink
PhishingDisplayName(pm) == pm.name = "forged" /\ pm.from # "null"
PhishingForgedFrom(pm)  == pm.from \in OwnDomain /\ pm.fails
PhishingLink(pm)        == "victim" \in pm.links

IsBackscatter(pm, S) ==
  /\ HasHosts(S) /\ ~pm.dmarc
  /\ \E om \in pm.orig :
       /\ om.hops # {} /\ ~om.signed
       /\ ~MatchReceived(S, om.hops)
  /\ pm.ctype # "other" /\ (pm.ds # {} \/ pm.ctype = "dsn" \/ LooksLikeNotice(pm))
  /\ ~PersonalSubject(pm)
  /\ pm.ds # {} => ~Match(S, pm.reporter)

-----------------------------------------------------------------------------
(* Kinds.                                                                     *)

Blocks(pm) == IF pm.ds = {} THEN <<>> ELSE CHOOSE blocks \in pm.ds : TRUE

\* blockKind: the Action of a block, or else the class of its Status.
ByClass == [c \in {"2", "4", "5", ""} |->
  CASE c = "5" -> "failed" [] c = "4" -> "delayed" [] c = "2" -> "success" [] OTHER -> ""]
BlockKind(b) == IF b.action # "" THEN b.action ELSE ByClass[b.class]

Row(rule, kind, when) == [rule |-> rule, kind |-> kind, when |-> when]

\* kindFromText
KindFromText(subject, body) ==
  First(<<Row("", "delayed", "delay" \in subject /\ "hint" \notin subject),
          Row("", "failed",  "failed" \in body),
          Row("", "delayed", "delayed" \in body),
          Row("", "failed",  subject \intersect {"hint", "bounce"} # {}),
          Row("", "other",   TRUE)>>).kind

Says(pm, kind) == \E i \in DOMAIN Blocks(pm) : BlockKind(Blocks(pm)[i]) = kind
KindFromDeliveryStatus(pm, body) ==
  First(<<Row("", "failed",  Says(pm, "failed")),
          Row("", "delayed", Says(pm, "delayed")),
          Row("", "other",   Says(pm, "success")),
          Row("", KindFromText(pm.subject, body), TRUE)>>).kind

-----------------------------------------------------------------------------
(* The rule table, in its order.                                              *)

StructuralRules(pm, body, S) ==
  <<Row("backscatter", "junk", IsBackscatter(pm, S)),
    Row("dsn_report", KindFromDeliveryStatus(pm, body), pm.ctype = "dsn" \/ Blocks(pm) # <<>>),
    Row("dmarc_report", "report", pm.dmarc),
    Row("fake_notice_link", "junk", FakeNoticeLink(pm)),
    Row("fake_notice_auth", "junk", FakeNoticeAuth(pm))>>

CertainRules(pm, body) ==
  <<Row("daemon_sender", KindFromText(pm.subject, body), Daemon(pm)),
    Row("auto_reply", "auto_reply", pm.auto = "replied"),
    Row("auto_reply_marked", "auto_reply", "away" \in pm.subject /\ (pm.path = "null" \/ Submitted(pm)))>>

JunkRules(pm) ==
  <<Row("phishing_display_name", "junk", PhishingDisplayName(pm)),
    Row("phishing_forged_from", "junk", PhishingForgedFrom(pm)),
    Row("phishing_link", "junk", PhishingLink(pm)),
    Row("spam_flag", "junk", pm.spam)>>

WeakRules(pm, body) ==
  <<Row("auto_reply_subject", "auto_reply", "away" \in pm.subject),
    Row("auto_generated", "auto_reply", pm.auto = "generated"),
    Row("subject_pattern", IF "delay" \in pm.subject THEN "delayed" ELSE "failed", "bounce" \in pm.subject),
    Row("daemon_display_name", KindFromText(pm.subject, body), pm.name = "daemon"),
    Row("body_pattern", KindFromText(pm.subject, body), "report" \in body)>>

\* classifyWith: one pass over the table with one body.
NoRule == Row("", "", TRUE)
Pass(pm, body, S) ==
  First(StructuralRules(pm, body, S) \o CertainRules(pm, body) \o JunkRules(pm) \o WeakRules(pm, body)
        \o <<NoRule>>)

\* ClassifyWith: the primary body decides, or else the HTML text beside it.
Classify(pm, S) ==
  LET first == Pass(pm, UNION (IF pm.text # {} THEN pm.text ELSE pm.html), S)
  IN IF first = NoRule /\ pm.text # {} /\ pm.html # {} THEN Pass(pm, UNION pm.html, S) ELSE first

\* classifyWithSources: what the run looked up may show that a mail taken for
\* backscatter is none; without all of it nothing is.
M_ClassifyWithSources(pm, S, extra) ==
  IF Classify(pm, S).rule # "backscatter" THEN Classify(pm, S) ELSE Classify(pm, WithResolved(S, extra.found))
ClassifyWithSources(pm, S, extra) ==
  IF Classify(pm, S).rule # "backscatter" THEN Classify(pm, S)
  ELSE IF ~extra.complete THEN Classify(pm, NoSources)
  ELSE Classify(pm, WithResolved(S, extra.found))

-----------------------------------------------------------------------------
(* The bounces of a notice.                                                   *)

IsGroupedKind(kind) == kind \in {"failed", "delayed"}

\* pickBlock: the block the first bounce is read from; 0 is none.
PickBlock(blocks, kind) ==
  LET like  == {i \in DOMAIN blocks : BlockKind(blocks[i]) = kind}
      S     == IF like # {} THEN like ELSE {i \in DOMAIN blocks : BlockKind(blocks[i]) # "success"}
  IN IF S = {} THEN 0 ELSE CHOOSE i \in S : \A j \in S : i <= j

\* ExtractBounces, BounceKind: the kind each recipient block is judged as.  A
\* block is 0 when the body alone speaks.
M_ExtractBounces(blocks, kind) == {[block |-> PickBlock(blocks, kind), kind |-> kind]}
ExtractBounces(blocks, kind) ==
  {[block |-> PickBlock(blocks, kind), kind |-> kind]} \cup
  {[block |-> i, kind |-> BlockKind(blocks[i])] :
     i \in {i \in DOMAIN blocks \ {PickBlock(blocks, kind)} :
              IsGroupedKind(BlockKind(blocks[i])) /\ ~blocks[i].excluded}}
=============================================================================
