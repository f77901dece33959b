---------------------------- MODULE MCMailStore ----------------------------
(* Instances of MailStore for TLC. *)
EXTENDS MailStore

CONSTANTS a, b, c, x

\* a and b are copies, c is another mail.
MCMsgId == [m \in Mails |-> IF m = c THEN c ELSE x]
MCDate  == [m \in Mails |-> 0]
MCSize  == [m \in Mails |-> IF m = b THEN 2 ELSE 1]
=============================================================================
