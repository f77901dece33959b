----------------------------- MODULE MCSettings -----------------------------
(* The changes of settings that MCServer lets callers ask for, and the two   *)
(* kinds of agent provider: "codex" lists models and levels, "plain" none.   *)
EXTENDS TLC

Providers == "codex" :> ("m1" :> {"big"} @@ "m2" :> {"big", "small"})
Defaults ==
  [enabled |-> TRUE, resolvers |-> "some", systemOnly |-> FALSE, provider |-> "codex",
   model |-> "", level |-> "", days |-> [c \in {"a", "b"} |-> 0], host |-> "",
   username |-> "", password |-> FALSE, from |-> FALSE, notify |-> FALSE]

\* Of the DNS verification and the re-check days.
AskedDNS ==
  [systemOnly : BOOLEAN] \cup [resolvers : {"none", "some"}] \cup [enabled : BOOLEAN]
  \cup {[enabled |-> TRUE, resolvers |-> "some", systemOnly |-> FALSE]}
  \cup {[days |-> [c \in {k} |-> n]] : k \in {"a", "b"}, n \in {0, 1}}

\* Of the agent; one request changes the DNS verification too.
AskedAgent ==
  [provider : {"plain", "codex"}] \cup [model : {"", "m1", "m2"}] \cup [level : {"", "big", "small"}]
  \cup {[provider |-> "codex", model |-> "m2", level |-> "small"], [model |-> "m1", level |-> "big"],
        [provider |-> "plain", model |-> "m2"], [enabled |-> FALSE, level |-> "small"]}

\* Of the notifications.
AskedNotify ==
  [host : {"", "s1", "s2"}] \cup [username : {"", "u1", "u2"}] \cup [password : {TRUE}]
  \cup [clear : {TRUE}] \cup [notify : BOOLEAN] \cup [from : BOOLEAN]
  \cup {[host |-> "s1", username |-> "u1", password |-> TRUE], [host |-> "s2", password |-> TRUE],
        [host |-> "s1", from |-> TRUE, notify |-> TRUE], [host |-> "s2", username |-> "", from |-> TRUE]}
=============================================================================
