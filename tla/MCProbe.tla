------------------------------ MODULE MCProbe ------------------------------
(***************************************************************************)
(* An instance of Probe for TLC: one mailbox and two mails, which are      *)
(* interchangeable.                                                        *)
(***************************************************************************)
EXTENDS Probe, TLC

CONSTANTS m1, m2, b1

MCMails  == {m1, m2}
MCBoxes  == {b1}
MCBoxOf  == [m \in MCMails |-> b1]
MCPerms  == Permutations(MCMails)
=============================================================================
