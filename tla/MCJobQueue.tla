----------------------------- MODULE MCJobQueue -----------------------------
(* Small instances of JobQueue: two mailboxes on one IMAP server.          *)
EXTENDS JobQueue, TLC

CONSTANTS m1, m2

\* The terminals that run jobs in process are interchangeable.
Terminals == Permutations(CLIs)

Box(a, h) == [addr |-> a, host |-> h, enabled |-> TRUE, keep |-> FALSE, live |-> TRUE]

\* Both mailboxes on one IMAP server.
MCHome == [m \in Mailboxes |-> Box(IF m = m1 THEN "a1" ELSE "a2", "imap1")]

Ask(k, m, t) == [kind |-> k, mb |-> m, tgt |-> t]

\* Two writers of one mailbox; the analysis a sync queues needs the agent.
MCServing == {Ask("sync", m1, "none"), Ask("reindex", m1, "none")}

\* A full check: one child per enabled mailbox.
MCExpanding == {Ask("sync", NoMailbox, "none")}

\* What a command line run asks for, with the job it causes.
MCOneMailbox == {Ask("group", m1, "none")}
=============================================================================
