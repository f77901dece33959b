----------------------------- MODULE MCAccounts -----------------------------
(* Two systems that share nothing, checked one at a time: `part` says what a *)
(* behaviour is about, and the rest does not move.  With commands of the     *)
(* terminal beside the browsers, one password fewer is set.                  *)
EXTENDS Accounts, LoginLimiter, TLC

VARIABLE part

MCIds == 1 .. 2
MCSymmetry == Permutations(Web)

MCInit == part \in {"browsers", "mixed", "limiter"} /\ Init /\ LimiterInit
MCNext ==
  \/ part = "browsers" /\ (\E r \in Web : Step(r)) /\ UNCHANGED <<part, limiterVars>>
  \/ part = "mixed" /\ Next /\ lastPw' < MaxPasswords /\ UNCHANGED <<part, limiterVars>>
  \/ part = "limiter" /\ LimiterNext /\ UNCHANGED <<part, vars>>
MCSpec == MCInit /\ [][MCNext]_<<part, vars, limiterVars>>
=============================================================================
