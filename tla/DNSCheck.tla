------------------------------ MODULE DNSCheck ------------------------------
(* The verification of the DNS lookup failures that notices report            *)
(* (dnscheck.Checker): job runs verify the same name at once, through         *)
(* resolvers that may be silent, fail or say anything and, for a notice that  *)
(* shows mail of our own, through the authoritative servers; outcomes are     *)
(* stored in dns_checks and shared by all runs.  One name stands for all: no  *)
(* state but the table is shared between names.  Time passes in steps;    *)
(* queries take none of it.                                                   *)
EXTENDS DNSAnswers, FiniteSets

CONSTANTS
  Runs, Notices,        \* jobs at work at once; notices that report the name
  Rel, Direct,          \* of a notice: where its recipient stands to the name (see
                        \* Applicable), and whether it shows mail of our own
  Resolvers, Wild,      \* the configured resolvers; those of them that may say anything
  Servers, Lame,        \* the authoritative servers; those that do not serve the name
  Zones,                \* what the DNS may hold about the name
  Fresh, ReuseWindow,   \* CacheFreshAge and ReuseWindow
  MailKeep,             \* mail_keep_days
  MaxChecks, MaxTime    \* bounds: live verifications, and the clock

ASSUME Times == {Fresh, ReuseWindow, MailKeep, MaxChecks, MaxTime} \subseteq Nat
ASSUME SomeHonest == Resolvers \ Wild # {} /\ Notices # {}

\* What the DNS can hold: a name that does not exist has no records of any
\* type, and only MX records have targets.
NoName == <<"nx", "nx">>
ASSUME ZonesOK == \A z \in Zones :
  /\ z.mx \in {"data", "nodata", "nx"} /\ "name" \in DOMAIN z.addr /\ z.targets \subseteq DOMAIN z.addr
  /\ \A h \in DOMAIN z.addr : z.addr[h] \in {NoName} \cup {"data", "nodata"} \X {"data", "nodata"}
  /\ z.mx = "nx" <=> z.addr["name"] = NoName
  /\ z.mx # "data" => z.targets = {}

VARIABLES
  now, checks,          \* the clock, and how many names were looked up
  rows,                 \* dns_checks by id
  run                   \* the Checker of each job

vars == <<now, checks, rows, run>>

NoRow == [outcome |-> "", direct |-> FALSE, at |-> 0]
Ids == 1..MaxChecks

\* Checker between two notices.  control: {}, or the set {S} once the
\* resolvers S were found to resolve the control name.  What else a run
\* remembers (mxTargets, nameServers, silent) repeats an earlier answer; here
\* every verification may get any answer.
NoRun == [pc |-> "off", live |-> FALSE, system |-> FALSE, control |-> {},
          n |-> CHOOSE n \in Notices : TRUE, t |-> 0, out |-> "", asked |-> FALSE, sound |-> TRUE]

Goes(p, r) == run' = [run EXCEPT ![p] = r]

-----------------------------------------------------------------------------
(* What the servers may answer.                                               *)

HostsOf(z) == DOMAIN z.addr

ReplyFor(a) ==
  [kind |-> CASE a = "nodata" -> "empty" [] a \in {"nx", "data"} -> a, aa |-> TRUE]
ErrorReply(errs) == IF errs THEN {[kind |-> "error", aa |-> TRUE]} ELSE {}

\* The answers to one question the DNS answers with a.
Gets(auth, a, errs) == Asked(auth, {ReplyFor(a)} \cup ErrorReply(errs))

\* addressAnswer of an honest resolver.
HostGets(z, errs) ==
  [h \in HostsOf(z) |-> {AddressesAnswer({a, b}) : a \in Gets(FALSE, z.addr[h][1], errs), b \in Gets(FALSE, z.addr[h][2], errs)}]

\* resolveName through an honest resolver, or the OS resolver.
Honest(z, host, system, errs) ==
  LET gets == HostGets(z, errs)
      said == {g \in [HostsOf(z) -> Answers] : \A h \in HostsOf(z) : g[h] \in gets[h]}
      mxs  == Gets(FALSE, z.mx, errs)
  IN IF system THEN {SystemResolveName(host, m, z.targets, g) : m \in {SystemAnswer(x) : x \in mxs}, g \in said}
     ELSE {ResolveName(host, m, z.targets, g) : m \in mxs, g \in said}
Resolved == [z \in Zones |-> [t \in BOOLEAN \X BOOLEAN \X BOOLEAN |-> Honest(z, t[1], t[2], t[3])]]

\* authoritative: one server, asked whether the name exists; no data means
\* that it does.
ServerGets(z, host, s, errs) ==
  LET a == IF host THEN z.addr["name"][1] ELSE z.mx
      R == {[r EXCEPT !.aa = s \notin Lame] : r \in {ReplyFor(a)} \cup ErrorReply(errs)}
  IN {IF x = "nodata" THEN "data" ELSE x : x \in Asked(TRUE, R)}

\* The truth about the name: is there an address to deliver to?  The OS
\* resolver cannot tell a host without addresses from one that does not exist.
MailHosts(z, host) == IF host \/ z.mx = "nodata" THEN {"name"} ELSE z.targets
Truth(z, host, system) ==
  CASE \E h \in MailHosts(z, host) : z.addr[h][1] = "data" \/ z.addr[h][2] = "data" -> "exists"
    [] IF host THEN z.addr["name"] = NoName ELSE z.mx = "nx" -> "not_found"
    [] OTHER -> IF system /\ (host \/ z.mx = "nodata") THEN "not_found" ELSE "broken"

\* resolveAll: what the resolvers R may say of the name when the DNS holds z.
Said(z, host, system, errs, R) ==
  LET honest == Resolved[z][host, system, errs]
  IN {g \in [R -> Answers] : \A r \in R \ Wild : g[r] \in honest}

\* authoritative: what the servers of the name may answer together; none are
\* asked when nameServersOf finds none, or for a notice of third parties.  A
\* server that left a query unanswered a moment ago is one that gives none.
AuthAnswers(z, host, errs) ==
  LET gets == [s \in Servers |-> ServerGets(z, host, s, errs)]
  IN {{f[s] : s \in Servers} : f \in {f \in [Servers -> Answers] : \A s \in Servers : f[s] \in gets[s]}}

\* What may be stored, given what was said: the truth, when no resolver says
\* anything it likes and no server reports an error.  Errors make it "broken"
\* at worst; a resolver that says anything cannot turn the truth around once
\* an honest one answered, nor against the authoritative servers.
Evident(truth, errs, g, A) ==
  LET wild  == \E r \in DOMAIN g : r \in Wild /\ g[r] # "none"
      heard == \E r \in DOMAIN g : r \notin Wild /\ g[r] \in Answering
  IN {o \in Outcomes :
       /\ ~wild /\ ~errs => o = truth
       /\ heard \/ ~wild => o \in {truth, "broken"}
       /\ A \intersect {"nx", "data"} # {} => (o = "not_found" => truth = "not_found") /\ (truth = "not_found" => o # "exists")}

\* check: every reachable resolver verifies the name, then the authoritative
\* servers are asked, and all vote.
Verdict(truth, errs, g, A) ==
  LET out == Vote({g[r] : r \in DOMAIN g}, A) IN <<out, out = "" \/ out \in Evident(truth, errs, g, A)>>
Verdicts(c) ==
  LET truth == Truth(c.z, c.host, c.system)
      said  == Said(c.z, c.host, c.system, c.errs, c.R)
      shown == {{"none"}} \cup (IF c.asks THEN AuthAnswers(c.z, c.host, c.errs) ELSE {})
  IN UNION {{Verdict(truth, c.errs, g, A) : g \in said} : A \in shown}

\* Everything a verification may meet, over what the DNS may hold.
Cases == [z : Zones, host : BOOLEAN, system : BOOLEAN, errs : BOOLEAN, R : SUBSET Resolvers, asks : BOOLEAN]
EndOf(c, v) == [host |-> c.host, system |-> c.system, R |-> c.R, asks |-> c.asks, out |-> v[1], sound |-> v[2]]
Checks == UNION {{EndOf(c, v) : v \in Verdicts(c)} : c \in Cases}

-----------------------------------------------------------------------------
(* The table.                                                                 *)

In(i, from, to) == rows[i] # NoRow /\ rows[i].at >= from /\ rows[i].at <= to

\* FindDNSCheck: the earliest row of the window, the first stored one of a time.
Before(i, j) == rows[i].at < rows[j].at \/ (rows[i].at = rows[j].at /\ i <= j)
Usable(from, to, directOnly) == {i \in Ids : In(i, from, to) /\ (directOnly => rows[i].direct)}
FindDNSCheck(S) == rows[CHOOSE i \in S : \A j \in S : Before(i, j)].outcome

\* The id of a new row lies above all others.
NextId == CHOOSE i \in Ids : \A j \in Ids : j >= i => rows[j] = NoRow

\* LatestDNSCheck: the stand-in of a verification that gave nothing.
AllRows == {i \in Ids : rows[i] # NoRow}
LatestDNSCheck == rows[CHOOSE i \in AllRows : \A j \in AllRows : Before(j, i)].outcome

\* ReuseRange: the fresh period, or with the check switched off the window
\* before the notice was received, at time recv.
FreshFrom(t) == IF t < Fresh THEN 0 ELSE t - Fresh
ReuseFrom(recv) == IF recv < ReuseWindow THEN 0 ELSE recv - ReuseWindow

\* What a notice received at recv is filed by with the check switched off: a
\* row of its kind if there is one.
StoredOutcome(n, recv, t) ==
  LET mine == Usable(ReuseFrom(recv), t, Direct[n])
      any  == Usable(ReuseFrom(recv), t, FALSE)
  IN IF mine # {} THEN FindDNSCheck(mine) ELSE IF any # {} THEN FindDNSCheck(any) ELSE ""

\* The mails kept are those of the retention period.
Retained == {recv \in 0..now : recv + MailKeep >= now}

-----------------------------------------------------------------------------
(* A job run.                                                                 *)

\* groupOptions: a Checker of its own for the run, by the settings of now.
Begin(p) ==
  /\ run[p].pc = "off"
  /\ \E cfg \in {<<TRUE, FALSE>>, <<TRUE, TRUE>>, <<FALSE, FALSE>>} :
       Goes(p, [NoRun EXCEPT !.pc = "ready", !.live = cfg[1], !.system = cfg[2]])
  /\ UNCHANGED <<now, checks, rows>>

\* The run is over, or it is canceled, with nothing stored.
End(p) ==
  /\ run[p].pc # "off" /\ Goes(p, NoRun)
  /\ UNCHANGED <<now, checks, rows>>

\* How a verification ends for the notice; "" is not verified.
Files(p, r, outcome) ==
  Goes(p, [r EXCEPT !.pc = "ready", !.n = NoRun.n, !.t = 0, !.out = outcome, !.asked = FALSE, !.sound = TRUE])

\* verify: for the next notice, a stored outcome of the fresh period if there
\* is one; with the check switched off, one of the window of the notice.
TryDirect(p, n) == Direct[n] /\ ~run[p].system
FreshRows(p, n) == Usable(FreshFrom(now), now, TryDirect(p, n))
Read(p, n) ==
  /\ run[p].pc = "ready" /\ run[p].live
  /\ IF FreshRows(p, n) # {} THEN Files(p, run[p], FindDNSCheck(FreshRows(p, n)))
     ELSE Goes(p, [run[p] EXCEPT !.pc = "verify", !.n = n, !.t = now, !.out = ""])
  /\ UNCHANGED <<now, checks, rows>>

ReadStored(p, n) ==
  /\ run[p].pc = "ready" /\ ~run[p].live
  /\ \E recv \in Retained : Files(p, run[p], StoredOutcome(n, recv, now))
  /\ UNCHANGED <<now, checks, rows>>

\* controlAll: a resolver that does not resolve the control name is left out
\* for the whole run.  The OS resolver is one resolver.
Paths(p) == IF run[p].system THEN {CHOOSE r \in Resolvers : r \notin Wild} ELSE Resolvers
Controls(p) == IF run[p].control = {} THEN SUBSET Paths(p) ELSE run[p].control

\* applicable, mxTargetsOf: only the recipient domain ("same"), one of its MX
\* targets ("target") or a name of its organization ("inside") is looked up;
\* the targets of the recipient domain are asked for first.
FoundTarget(n, R) == IF Rel[n] = "target" /\ R # {} THEN BOOLEAN ELSE {FALSE}
Applicable(n, found) == Rel[n] \in {"same", "inside"} \/ found

\* The latest stored outcome of the name stands in for a verification that
\* gave nothing.
StandIn == IF AllRows = {} THEN "" ELSE LatestDNSCheck

\* verify, otherwise: the servers are asked.  Only its start and its end touch
\* what runs share.
Verify(p) ==
  /\ run[p].pc = "verify" /\ checks < MaxChecks /\ checks' = checks + 1
  /\ \E c \in Checks :
     /\ c.R \in Controls(p) /\ c.host \in FoundTarget(run[p].n, c.R)
     /\ c.system = run[p].system /\ c.asks = (TryDirect(p, run[p].n) /\ c.R # {})
     /\ LET r == [run[p] EXCEPT !.control = {c.R}]
        IN IF ~Applicable(run[p].n, c.host) \/ c.out = "" THEN Files(p, r, StandIn)
           ELSE Goes(p, [r EXCEPT !.pc = "store", !.out = c.out, !.asked = c.asks, !.sound = c.sound])
  /\ UNCHANGED <<now, rows>>

\* InsertDNSCheckIfAbsent: one statement, unless another run has stored a row
\* the notice would use, which is then the outcome of this one too.  The row
\* is dated when the verification began.  (There is always a free id: a row
\* takes a verification.)
M_Winners(p) == Usable(FreshFrom(run[p].t), run[p].t, run[p].asked)
Winners(p) == Usable(FreshFrom(run[p].t), now, run[p].asked)
Store(p) ==
  /\ run[p].pc = "store" /\ rows[MaxChecks] = NoRow
  /\ IF Winners(p) # {} THEN Files(p, run[p], FindDNSCheck(Winners(p))) /\ rows' = rows
     ELSE /\ rows' = [rows EXCEPT ![NextId] = [outcome |-> run[p].out, direct |-> run[p].asked, at |-> run[p].t]]
          /\ Files(p, run[p], run[p].out)
  /\ UNCHANGED <<now, checks>>

\* store: a failure is logged and the outcome used.
StoreFails(p) ==
  /\ run[p].pc = "store" /\ Files(p, run[p], run[p].out)
  /\ UNCHANGED <<now, checks, rows>>

-----------------------------------------------------------------------------
Tick ==
  /\ now < MaxTime /\ now' = now + 1
  /\ UNCHANGED <<checks, rows, run>>

\* pruneDNSChecks, a step of the cleanup: what no retained notice may use.
M_Outlived(i) == rows[i].at + MailKeep < now
Outlived(i) == rows[i].at + MailKeep + ReuseWindow < now
Prune ==
  /\ \E i \in AllRows : Outlived(i)
  /\ rows' = [i \in Ids |-> IF Outlived(i) THEN NoRow ELSE rows[i]]
  /\ UNCHANGED <<now, checks, run>>

Init ==
  /\ now = 0
  /\ checks = 0 /\ rows = [i \in Ids |-> NoRow]
  /\ run = [p \in Runs |-> NoRun]

Next ==
  \/ Tick \/ Prune
  \/ \E p \in Runs :
       \/ Begin(p) \/ End(p) \/ Verify(p) \/ Store(p) \/ StoreFails(p)
       \/ \E n \in Notices : Read(p, n) \/ ReadStored(p, n)

Spec == Init /\ [][Next]_vars
-----------------------------------------------------------------------------
\* Runs that verify a name at the same time agree: two rows of one kind never
\* lie within the fresh period of each other, nor is a row of the resolvers
\* alone stored beside any other (InsertDNSCheckIfAbsent).
OneOutcome ==
  \A i, j \in AllRows : i < j /\ (rows[i].direct = rows[j].direct \/ ~rows[j].direct) =>
    rows[j].at > rows[i].at + Fresh

\* What is stored about the name is true.  Servers that stay silent, and
\* datagrams that are lost or cut, never change an outcome; error replies make
\* it "broken" at worst; a resolver that says anything decides nothing once an
\* honest one answered, nor against the authoritative servers (vote).
VerdictIsTrue == \A p \in Runs : run[p].pc = "store" => run[p].sound

\* The cleanup takes no row a notice that is still kept may be filed by when
\* the check is switched off (pruneDNSChecks, ReuseRange).
PruneKeepsOutcomes ==
  [][Prune => \A n \in Notices, recv \in Retained : StoredOutcome(n, recv, now)' = StoredOutcome(n, recv, now)]_vars
=============================================================================
