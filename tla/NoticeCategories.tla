-------------------------- MODULE NoticeCategories --------------------------
(* Why a notice says that a delivery failed (mailengine: dnsfailure,          *)
(* dnsverify, category): the DNS lookup failure a diagnostic reports, whether *)
(* the verification may ask the authoritative servers, whose server reported  *)
(* it, and the category the bounce is filed by.                               *)
(* A bounce is                                                                *)
(*   status    the tables of Statuses its status code is in                  *)
(*   words     what its diagnostic says, of Words                             *)
(*   forms     the DNS failure forms in it, in text order: [mta, name,        *)
(*             delivery (a record type of a delivery), temporary, local]      *)
(*   remote    is it the reply of a remote server?                            *)
EXTENDS NoticeRules

\* The status codes of statusIn and statusClass.
Statuses == {"user", "full", "disabled", "domain", "policy", "throttle", "auth", "size", "config", "transient"}

\* The wording tables; "address" quotes the sender, "ip" a sending address.
Words == {"sender", "address", "listed", "blocked", "ip", "rate", "auth", "relay", "size", "content", "server",
          "user", "full", "disabled", "domain", "delay"}

\* The forms of a DNS lookup failure, by the server that writes them, in the
\* order they are tried.
FormOrder == [postfix |-> 1, nullmx |-> 2, sendmail |-> 3, qmail |-> 4, exchange |-> 5, gmail |-> 6, unnamed |-> 7]

\* The bounces the rules can tell apart.
IsBounce(b) == b.status \subseteq Statuses /\ b.words \subseteq Words /\ \A i \in DOMAIN b.forms : b.forms[i].mta \in DOMAIN FormOrder

-----------------------------------------------------------------------------
(* ParseDNSFailure: the forms of the mail servers are tried one after         *)
(* another; of a server's, the first in the text that is a failure.           *)

\* A name is the recipient domain, another valid name, or no host name; "" is
\* a form that names none.  A form marked local is about the lookups of
\* whoever says it.
Counts(form, remote) ==
  /\ form.name # "invalid"
  /\ form.mta \in {"postfix", "gmail"} => form.delivery
  /\ form.mta = "postfix" => form.temporary # "neither"
  /\ ~(form.local /\ remote)

NoFailure == [found |-> FALSE, name |-> "", temporary |-> FALSE]
ParseDNSFailure(b) ==
  LET F == {i \in DOMAIN b.forms : Counts(b.forms[i], b.remote)}
      Earlier(i, j) == \/ FormOrder[b.forms[i].mta] < FormOrder[b.forms[j].mta]
                       \/ b.forms[i].mta = b.forms[j].mta /\ i <= j
      form == b.forms[CHOOSE i \in F : \A j \in F : Earlier(i, j)]
  IN IF F = {} THEN NoFailure
     ELSE [found |-> TRUE, name |-> form.name, temporary |-> form.temporary = "yes"]

-----------------------------------------------------------------------------
(* aboutSentMail: who handed the notice in.  A Received header of the notice  *)
(* records addresses in the comments of its from clause, or else one as its   *)
(* word; the HELO argument is never taken.                                    *)

\* receivedFromAddr
FromAddr(hop) ==
  CASE hop.peer # {}  -> CHOOSE a \in hop.peer : TRUE
    [] OTHER          -> hop.word
Judged(hop) == \A a, b \in hop.peer : a = b

\* noticeEntry: from the top, past internal relays and hops without an address.
PassedOver(hop, internal) == Judged(hop) /\ FromAddr(hop) \in internal \cup {""}
NoticeEntry(received, internal) ==
  LET stops == {i \in DOMAIN received : ~PassedOver(received[i], internal)}
      i     == CHOOSE i \in stops : \A j \in stops : i <= j
  IN IF stops = {} \/ ~Judged(received[i]) THEN "" ELSE FromAddr(received[i])

\* extra: what the run looked up, [found, complete].
M_AboutSentMail(S, extra, received, internal) ==
  LET A == (UNION {received[i].peer \cup {received[i].word} : i \in DOMAIN received}) \ {""}
  IN ~Empty(S) /\ (A \intersect S.addrs # {} \/ (extra.complete /\ A \intersect extra.found # {}))
AboutSentMail(S, extra, received, internal) ==
  LET a == NoticeEntry(received, internal)
  IN ~Empty(S) /\ a # "" /\ (a \in S.addrs \/ (extra.complete /\ a \in extra.found))

-----------------------------------------------------------------------------
(* sourceMatcher.match: is the reporting MTA a sending server?  "open" when   *)
(* that cannot be told.  names: the tokens that are host names; reply: the    *)
(* addresses ResolveReporter gave, {} without an answer.                      *)

M_MatchAddrs(S, extra, A) == IF A \intersect (S.addrs \cup extra.found) # {} THEN "yes" ELSE "no"
MatchAddrs(S, extra, A) ==
  CASE A = {}                                       -> "open"
    [] A \intersect (S.addrs \cup extra.found) # {} -> "yes"
    [] OTHER                                        -> IF extra.complete THEN "no" ELSE "open"

MatchReporter(S, extra, mta, names, reply) ==
  CASE Empty(S)                                                 -> "yes"
    [] ~Empty(S) /\ mta = ""                                    -> "open"
    [] mta \in names /\ mta \in S.hosts \cup S.others \cup extra.found -> "yes"
    [] OTHER -> MatchAddrs(S, extra, IF mta \in names THEN reply ELSE {mta})

\* verdict: without an answer to whose server it was, the name that exists
\* counts as not verified.
NotVerified == [outcome |-> "", source |-> FALSE]
VerdictOf(outcome, matched) ==
  IF outcome = "exists" /\ matched = "open" THEN NotVerified
  ELSE [outcome |-> outcome, source |-> outcome = "exists" /\ matched = "yes"]

-----------------------------------------------------------------------------
(* The categories, in the order of categoryRules.                             *)

Unverified == {"dns_unverified_temporary", "dns_unverified_not_found", "dns_unverified_name_not_found"}

RecipientRules(b) ==
  <<Row("status_user_unknown",     "user_unknown",     "user" \in b.status),
    Row("status_mailbox_full",     "mailbox_full",     "full" \in b.status),
    Row("status_mailbox_disabled", "mailbox_disabled", "disabled" \in b.status)>>

DNSRules(b, kind, v) ==
  LET dns  == ParseDNSFailure(b)
      mine == dns.name \in {"", "recipient"}
      is(o) == dns.found /\ v.outcome = o
  IN <<Row("dns_verified_not_found",        "domain_not_found",     is("not_found") /\ mine),
       Row("dns_verified_name_not_found",   "dns_failure_external", is("not_found")),
       Row("dns_resolver_failure",          "dns_resolver_failure", is("exists") /\ v.source),
       Row("dns_failure_external",          "dns_failure_external", is("exists") \/ is("broken")),
       Row("dns_unverified_temporary",      "dns_lookup_failure",   is("") /\ (kind = "delayed" \/ dns.temporary)),
       Row("dns_unverified_not_found",      "domain_not_found",     is("") /\ kind = "failed" /\ mine),
       Row("dns_unverified_name_not_found", "dns_failure_external", is("") /\ kind = "failed")>>

DomainRules(b) == <<Row("status_domain_not_found", "domain_not_found", "domain" \in b.status)>>

SenderRejection(b) == "sender" \in b.words \/ ("address" \in b.words /\ "policy" \in b.status)

SendingRules(b, kind) ==
  <<Row("ip_blocked", "ip_blocked",
        /\ ~SenderRejection(b)
        /\ \/ "listed" \in b.words
           \/ "policy" \in b.status /\ {"ip", "blocked"} \subseteq b.words /\ b.words \intersect {"rate", "content"} = {}),
    Row("rate_limited", "rate_limited", "rate" \in b.words \/ ("throttle" \in b.status /\ "server" \notin b.words)),
    Row("auth_failure", "auth_failure", "auth" \in b.status \/ ("auth" \in b.words /\ "relay" \notin b.words)),
    Row("sender_blocked", "sender_blocked", SenderRejection(b)),
    Row("message_too_large", "message_too_large", "size" \in b.status \cup b.words),
    Row("content_rejected", "content_rejected", "content" \in b.words),
    Row("server_config", "server_config", "config" \in b.status \/ "server" \in b.words),
    Row("delayed_kind", "delivery_delay", kind = "delayed")>>

WordingRules(b) ==
  <<Row("user_unknown", "user_unknown", "user" \in b.words),
    Row("mailbox_full", "mailbox_full", "full" \in b.words),
    Row("mailbox_disabled", "mailbox_disabled", "disabled" \in b.words),
    Row("domain_not_found", "domain_not_found", "domain" \in b.words),
    Row("delivery_delay", "delivery_delay", "transient" \in b.status \/ "delay" \in b.words),
    Row("unknown_failure", "unknown_failure", TRUE)>>

M_CategoryRules(b, kind, v) ==
  RecipientRules(b) \o DomainRules(b) \o DNSRules(b, kind, v) \o SendingRules(b, kind) \o WordingRules(b)
CategoryRules(b, kind, v) ==
  RecipientRules(b) \o DNSRules(b, kind, v) \o DomainRules(b) \o SendingRules(b, kind) \o WordingRules(b)

\* CategorizeWith: the rule and the category.
CategorizeWith(b, kind, v) == First(CategoryRules(b, kind, v))
=============================================================================
