------------------------------ MODULE MCServer ------------------------------
(* What surrounds the jobs of a server, checked one system at a time: how it *)
(* starts (Startup), its clock (Scheduler) and the changes of its settings   *)
(* (Settings), for each group of settings that belong together.  They share  *)
(* nothing: part says what a behaviour is about, the rest does not move.     *)
EXTENDS Startup, Settings, Scheduler

VARIABLE part

\* How the clock is set: a day back, half a day, or a day ahead.
MCJumps == {-2, -1, 2}

ASSUME ClockOK == SchedulerAssumption

A == INSTANCE MCSettings
AskedIn(p) ==
  CASE p = "dns" -> A!AskedDNS [] p = "agent" -> A!AskedAgent [] p = "smtp" -> A!AskedNotify
Groups == {"dns", "agent", "smtp"}
MCAsked == UNION {AskedIn(p) : p \in Groups}
MCKnown == A!Providers
MCBuiltIn == A!Defaults

\* A part that does not run rests in one of its initial states.  The clock
\* has notifications without the agent, or the agent after a limit.
MCInit ==
  /\ part \in Groups \cup {"startup", "clock"}
  /\ Init /\ ClockInit /\ SettingsInit
  /\ agentOn = ~notifyOn /\ limit = IF agentOn THEN 3 ELSE Never
  /\ part = "startup" \/ (windows /\ applied = <<>>)
  /\ part = "clock" \/ ~agentOn

\* A request for another group of settings than the one checked.
Strays ==
  \E r \in Callers :
    work[r].pc = "idle" /\ work'[r].pc = "waiting" /\ work'[r].in \notin AskedIn(part)

MCNext ==
  /\ \/ part = "startup" /\ Next /\ UNCHANGED <<clockVars, settingsVars>>
     \/ part = "clock" /\ ClockNext /\ UNCHANGED <<vars, settingsVars>>
     \/ part \in Groups /\ SettingsNext /\ ~Strays /\ UNCHANGED <<vars, clockVars>>
  /\ UNCHANGED part
MCSpec == MCInit /\ [][MCNext]_<<part, vars, clockVars, settingsVars>>
=============================================================================
