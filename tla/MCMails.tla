------------------------------ MODULE MCMails ------------------------------
(* The mails, settings and DNS data that MCNotices gives to NoticeFiling.     *)
EXTENDS Naturals, Sequences, TLC

LOCAL INSTANCE NoticeRules

Form(mta, name, temporary, local) ==
  [mta |-> mta, name |-> name, delivery |-> TRUE, temporary |-> temporary, local |-> local]
Said(status, words, forms, remote) == [status |-> status, words |-> words, forms |-> forms, remote |-> remote]
Nothing == Said({}, {}, <<>>, FALSE)
Block(action, class, excluded, b) == b @@ [action |-> action, class |-> class, excluded |-> excluded]

NotFound  == Said({"domain"}, {"domain"}, <<Form("postfix", "recipient", "no", FALSE)>>, FALSE)
TryAgain  == Said({"transient"}, {}, <<Form("postfix", "invalid", "no", FALSE), Form("postfix", "other", "yes", FALSE)>>, FALSE)
OtherName == Said({}, {}, <<Form("unnamed", "", "no", FALSE), Form("sendmail", "other", "no", FALSE)>>, FALSE)
Theirs    == Said({"policy"}, {"domain"}, <<Form("unnamed", "", "yes", TRUE)>>, TRUE)
NoUser    == Said({"user"}, {"user"}, <<Form("unnamed", "", "no", FALSE)>>, FALSE)
Blocked   == Said({"policy"}, {"ip", "blocked"}, <<>>, TRUE)

Mail == [ctype |-> "dsn", ds |-> {<<Block("failed", "5", FALSE, NotFound)>>}, reporter |-> "own", dmarc |-> FALSE,
         orig |-> {}, from |-> "daemon", path |-> "null", name |-> "", auto |-> "", subject |-> {"bounce"},
         text |-> {{"report"}}, html |-> {}, links |-> {}, fails |-> FALSE, spam |-> FALSE,
         body |-> Nothing, received |-> <<>>, peer |-> "a1"]

\* A Received header of an original; of a notice.
Hop(from, peer) == [by |-> "", from |-> from, name |-> "", helo |-> "", peer |-> peer]
In(word, peer)  == [word |-> word, peer |-> peer]
Entry(peer)     == <<In("", {"i1"}), In("helo", {peer}), In("", {"a1"})>>
Exim(peer)      == <<In("", {}), In(peer, {}), In("", {"a2"})>>
Odd             == <<In("", {"a1", "b1"}), In("", {"a1"})>>

With(b)   == {<<Block("failed", "5", FALSE, b)>>}
Reporters == {[Mail EXCEPT !.reporter = r, !.ds = With(b)] :
                r \in {"own", "alias", "out", "a2", "b1", ""}, b \in {NotFound, OtherName}}
Handed    == UNION {{[Mail EXCEPT !.received = r, !.peer = p, !.reporter = "out"] : r \in {Entry(p), Exim(p)}} :
                      p \in {"a1", "a2", "b1"}}
             \cup {[Mail EXCEPT !.received = Odd, !.peer = "b1", !.reporter = "out"]}
Returned  == {[Mail EXCEPT !.orig = {[hops |-> h, signed |-> s]}, !.reporter = r, !.ctype = c] :
                h \in {{}, {Hop("own", {"b1"})}, {Hop("out", {"a2"}), Hop("out", {"b1"})}, {Hop("spfhost", {})}, {Hop("out", {"b1"})}},
                s \in BOOLEAN, r \in {"own", "spfhost", "out"}, c \in {"dsn", "other"}}
Several   == {[Mail EXCEPT !.ds = {blocks}, !.received = Entry("a1")] : blocks \in
                {<<Block("success", "2", FALSE, Nothing), Block("failed", "5", FALSE, NoUser), Block("delayed", "4", FALSE, TryAgain)>>,
                 <<Block("delayed", "4", FALSE, Theirs), Block("", "5", FALSE, Blocked), Block("failed", "5", TRUE, NotFound)>>,
                 <<Block("success", "2", FALSE, Nothing)>>,
                 <<Block("", "", FALSE, NotFound), Block("", "4", FALSE, TryAgain)>>}}
Plain     == [Mail EXCEPT !.ctype = "plain", !.ds = {}, !.reporter = "", !.body = TryAgain]
Undecided == {[Plain EXCEPT !.text = {t}, !.html = h] : t \in {{}, {"report", "delayed"}}, h \in {{}, {{"failed"}}}}
Suspect   == {[Plain EXCEPT !.links = {"foreign"}], [Plain EXCEPT !.fails = TRUE, !.from = "other", !.path = "other"],
              [Plain EXCEPT !.from = "own", !.path = "own", !.fails = TRUE, !.text = {}], [Plain EXCEPT !.auto = "replied"],
              [Plain EXCEPT !.from = "other", !.path = "other", !.name = "forged", !.text = {}],
              [Plain EXCEPT !.dmarc = TRUE], [Plain EXCEPT !.from = "other", !.path = "null", !.subject = {"away"}, !.text = {}]}
Single    == Reporters \cup Handed \cup Returned \cup Several \cup Undecided \cup Suspect
Pairs     == {Mail, [Mail EXCEPT !.reporter = "alias", !.ds = With(TryAgain)]}

MCBoxes    == {<<m>> : m \in Single} \cup {<<a, b>> : a, b \in Pairs}
MCSettings == {NoSources, [NoSources EXCEPT !.hosts = {"own"}], [NoSources EXCEPT !.addrs = {"a1"}, !.others = {"own"}]}
MCAddrsOf  == "own" :> {"a1"} @@ "alias" :> {"a1", "c6"} @@ "out" :> {"b1"} @@ "spfhost" :> {"a2"}
=============================================================================
