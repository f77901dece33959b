---------------------------- MODULE SerialQueue ----------------------------
(***************************************************************************)
(* What the job queue promises the rest of the program.  A job is queued,  *)
(* then runs once or is canceled, and ends once.  While it is in progress  *)
(* it holds a set of resources that no other job in progress holds.  The   *)
(* jobs in progress are lost together when the process dies; what they     *)
(* left running is later marked as failed.                                 *)
(***************************************************************************)
CONSTANTS Jobs, Resources

VARIABLES
  status,   \* job -> "none", "queued", "running", "done", "error", "canceled"
  busy,     \* the jobs in progress
  holds     \* job -> the resources it holds

svars == <<status, busy, holds>>

Init ==
  /\ status = [j \in Jobs |-> "none"]
  /\ busy = {}
  /\ holds = [j \in Jobs |-> {}]

Submit(j) ==
  /\ status[j] = "none"
  /\ status' = [status EXCEPT ![j] = "queued"]
  /\ UNCHANGED <<busy, holds>>

\* Waiting jobs only; several at once when their mailbox goes.
Withdraw(S) ==
  /\ \A j \in S : status[j] = "queued"
  /\ status' = [j \in Jobs |-> IF j \in S THEN "canceled" ELSE status[j]]
  /\ UNCHANGED <<busy, holds>>

\* It may take any resources nobody in progress holds.
Begin(j) ==
  /\ status[j] = "queued" /\ j \notin busy
  /\ status' = [status EXCEPT ![j] = "running"]
  /\ busy' = busy \cup {j}
  /\ holds'[j] \subseteq Resources
  /\ holds' = [holds EXCEPT ![j] = holds'[j]]
  /\ \A i \in busy : holds[i] \cap holds'[j] = {}

\* A claim that took effect but was not learned of: the job never runs, and
\* counts as lost.
Mislay(j) ==
  /\ status[j] = "queued" /\ j \notin busy
  /\ status' = [status EXCEPT ![j] = "running"]
  /\ UNCHANGED <<busy, holds>>

\* The outcome is written while the resources are still held.
Conclude(j, st) ==
  /\ j \in busy /\ status[j] = "running" /\ st \in {"done", "error"}
  /\ status' = [status EXCEPT ![j] = st]
  /\ UNCHANGED <<busy, holds>>

Release(j) ==
  /\ j \in busy
  /\ busy' = busy \ {j}
  /\ holds' = [holds EXCEPT ![j] = {}]
  /\ UNCHANGED status

\* The process dies: nothing is in progress any more.
Lose ==
  /\ busy' = {}
  /\ holds' = [j \in Jobs |-> {}]
  /\ UNCHANGED status

\* Only once nothing is in progress: what was lost is marked as failed.
Recover ==
  /\ busy = {}
  /\ status' = [j \in Jobs |-> IF status[j] = "running" THEN "error" ELSE status[j]]
  /\ UNCHANGED <<busy, holds>>

Next ==
  \/ \E j \in Jobs : \/ Submit(j) \/ Begin(j) \/ Mislay(j) \/ Release(j)
                     \/ \E st \in {"done", "error"} : Conclude(j, st)
  \/ \E S \in SUBSET Jobs : Withdraw(S)
  \/ Lose \/ Recover

Spec == Init /\ [][Next]_svars

=============================================================================
