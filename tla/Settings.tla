------------------------------ MODULE Settings ------------------------------
(***************************************************************************)
(* The settings table and its writers (settings.go, settingslock.go): a    *)
(* change reads the saved values, validates the combination it gives with   *)
(* them and commits its rows in one transaction, all under settingsMu of    *)
(* the process it runs in.  Modelled are the settings that are validated    *)
(* together: the DNS verification, the agent's provider, model and level,   *)
(* the re-check days (merged with the saved ones) and the SMTP connection   *)
(* with its stored password.  The requests of the Web (PUT settings and     *)
(* notifications) run in the server; a command runs in its own process.     *)
(* MCServer extends this module beside Startup, hence SettingsSpec.         *)
(***************************************************************************)
EXTENDS FiniteSets

CONSTANTS
  Web, Cmd,    \* the concurrent requests of the server; the commands
  Asked,       \* the changes a caller may ask for: records of the keys given
  Known,       \* provider with levels -> model it lists -> levels accepted
  BuiltIn,     \* the value of every setting without a row
  Together,    \* may a command run while the server does
  Unset, NoOne \* no value of a setting; nobody

Callers    == Web \cup Cmd
DNSKeys    == {"enabled", "resolvers", "systemOnly"}
AgentKeys  == {"provider", "model", "level"}
NotifyKeys == {"host", "username", "password", "clear", "from", "notify"}
Keys       == DNSKeys \cup AgentKeys \cup {"days"} \cup (NotifyKeys \ {"clear"})

\* A command names one setting; a request is to one of the two handlers.
ASSUME SettingsAssumption ==
  /\ Web \cap Cmd = {} /\ {"server", NoOne} \cap Callers = {} /\ NoOne # "server"
  /\ DOMAIN BuiltIn = Keys /\ BuiltIn = [k \in Keys |-> BuiltIn[k]]
  /\ \A in \in Asked : /\ DOMAIN in \subseteq Keys \cup {"clear"}
                       /\ DOMAIN in \subseteq NotifyKeys \/ DOMAIN in \cap NotifyKeys = {}

VARIABLES
  saved,   \* key -> value (host stands for the host, port and security mode)
  serves,  \* the connection the stored password was given for
  lock,    \* process -> holder of its settingsMu
  work,    \* caller -> its request and where it is
  up       \* the server runs
settingsVars == <<saved, serves, lock, work, up>>

Process(r) == IF r \in Web THEN "server" ELSE r
Idle       == [pc |-> "idle", in |-> <<>>, new |-> <<>>, for |-> <<>>]

Given(in, k, old) == IF k \in DOMAIN in THEN in[k] ELSE old
Touches(in, K)    == DOMAIN in \cap K # {}
Switches(s, in)   == Given(in, "provider", s.provider) # s.provider
Username(s, in)   == Given(in, "username", s.username)

-----------------------------------------------------------------------------
(* What a change gives.                                                     *)

\* Another provider clears the model and the level that are not given too.
AgentAfter(s, in, k) == Given(in, k, IF Switches(s, in) THEN Unset ELSE s[k])

\* The password goes with the username.
PasswordAfter(s, in) == Username(s, in) # Unset /\ (s.password \/ "password" \in DOMAIN in)

\* The keys of new take their values from it, the others from old.
Over(new, old) ==
  [k \in DOMAIN new \cup DOMAIN old |-> IF k \in DOMAIN new THEN new[k] ELSE old[k]]

MergedDays(s, in) == Over(Given(in, "days", <<>>), s.days)

After(s, in) ==
  [k \in Keys |-> CASE k \in {"model", "level"} -> AgentAfter(s, in, k)
                    [] k = "days"               -> MergedDays(s, in)
                    [] k = "password"           -> PasswordAfter(s, in)
                    [] OTHER                    -> Given(in, k, s[k])]

M_Written(r, s, in) == DOMAIN in \ {"clear"}

\* The rows written: those given, the three of the agent from the Web, those
\* a provider or username takes with it.
Written(r, s, in) ==
  (DOMAIN in \ {"password", "clear"})
  \cup (IF r \in Web /\ Touches(in, AgentKeys) THEN AgentKeys ELSE {})
  \cup (IF Switches(s, in) THEN {"model", "level"} ELSE {})
  \cup (IF /\ Touches(in, NotifyKeys)
           /\ IF Username(s, in) = Unset THEN s.password ELSE "password" \in DOMAIN in
        THEN {"password"} ELSE {})

Writes(r, s, in) == [k \in Written(r, s, in) |-> After(s, in)[k]]

-----------------------------------------------------------------------------
(* What is refused.                                                         *)

ValidDNS(s) == s.enabled /\ ~s.systemOnly => s.resolvers # "none"

Accepted(p, m) ==
  IF m = Unset THEN UNION {Known[p][x] : x \in DOMAIN Known[p]}
  ELSE IF m \in DOMAIN Known[p] THEN Known[p][m] ELSE {}

ValidAgent(s) ==
  \/ s.level = Unset
  \/ /\ s.provider \in DOMAIN Known
     /\ Accepted(s.provider, s.model) = {} \/ s.level \in Accepted(s.provider, s.model)

ValidNotify(s) == s.notify => s.host # Unset /\ s.from

M_PasswordMissing(s, in) ==
  Username(s, in) # Unset /\ "password" \notin DOMAIN in /\ "clear" \in DOMAIN in

\* errSMTPPasswordMissing: a username set, or its password removed, without one.
PasswordMissing(s, in) ==
  /\ Username(s, in) # Unset /\ "password" \notin DOMAIN in
  /\ "clear" \in DOMAIN in \/ (~s.password /\ "username" \in DOMAIN in)

M_Moved(s, in) == "host" \in DOMAIN in /\ in.host # s.host

\* ErrSMTPPasswordRequired: the stored password would serve another server.
Moved(s, in) == \E k \in {"host", "username"} \cap DOMAIN in : in[k] # s[k]
Required(s, in) ==
  Username(s, in) # Unset /\ "password" \notin DOMAIN in /\ s.password /\ Moved(s, in)

\* What the program starts with would be accepted, and names no user.
ASSUME DefaultsAssumption ==
  /\ ValidDNS(BuiltIn) /\ ValidAgent(BuiltIn) /\ ValidNotify(BuiltIn)
  /\ BuiltIn.username = Unset /\ BuiltIn.password = FALSE
  /\ BuiltIn.days = [c \in DOMAIN BuiltIn.days |-> BuiltIn.days[c]]

\* SetAgentProvider, the command's, checks no combination; a password needs
\* a saved username in a command.
Refused(r, s, in) ==
  LET new == After(s, in) IN
  \/ Touches(in, DNSKeys) /\ ~ValidDNS(new)
  \/ Touches(in, AgentKeys) /\ ~(r \in Cmd /\ "provider" \in DOMAIN in) /\ ~ValidAgent(new)
  \/ Touches(in, NotifyKeys) /\ (~ValidNotify(new) \/ PasswordMissing(s, in) \/ Required(s, in))
  \/ r \in Cmd /\ DOMAIN in = {"password"} /\ s.username = Unset

\* The command asks for the password these keys need.
Asks(r, s, in) ==
  /\ r \in Cmd /\ DOMAIN in \in {{"host"}, {"username"}}
  /\ ValidNotify(After(s, in)) /\ (PasswordMissing(s, in) \/ Required(s, in))

-----------------------------------------------------------------------------
M_Locked(r) == lock' = [lock EXCEPT ![Process(r)] = r]

\* settingsMu of the process, and its deferred Unlock.
Locked(r) == lock[Process(r)] = NoOne /\ lock' = [lock EXCEPT ![Process(r)] = r]
Freed(r)  == lock' = [lock EXCEPT ![Process(r)] = NoOne]
Becomes(r, w) == work' = [work EXCEPT ![r] = w]

\* A request arrives, or a command starts.
Submit(r) ==
  /\ work[r].pc = "idle"
  /\ IF r \in Web THEN up ELSE Together \/ ~up
  /\ \E in \in Asked : /\ r \in Cmd => Cardinality(DOMAIN in) = 1
                       /\ Becomes(r, [Idle EXCEPT !.pc = "waiting", !.in = in])
  /\ UNCHANGED <<saved, serves, lock, up>>

\* fill: the saved values are read and the result is validated, under the lock.
Fill(r) ==
  LET in == work[r].in IN
  /\ work[r].pc = "waiting" /\ ~Refused(r, saved, in)
  /\ Locked(r)
  /\ Becomes(r, [work[r] EXCEPT !.pc = "filled", !.new = Writes(r, saved, in),
                                !.for = <<After(saved, in).host, After(saved, in).username>>])
  /\ UNCHANGED <<saved, serves, up>>

\* Nothing is saved of a refused change; a command asks for the password and
\* tries again with it.
Refuse(r) ==
  LET in == work[r].in IN
  /\ work[r].pc = "waiting" /\ Refused(r, saved, in) /\ lock[Process(r)] = NoOne
  /\ Becomes(r, IF Asks(r, saved, in) THEN [work[r] EXCEPT !.pc = "asking"] ELSE Idle)
  /\ UNCHANGED <<saved, serves, lock, up>>

Answer(r) ==
  /\ work[r].pc = "asking"
  /\ \/ Becomes(r, [work[r] EXCEPT !.pc = "waiting", !.in = Over([password |-> TRUE], @)])
     \/ Becomes(r, Idle)
  /\ UNCHANGED <<saved, serves, lock, up>>

\* persistSettings: one transaction, committed or rolled back.
Committed(new) == Over(new, saved)
Save(r) ==
  LET w == work[r] IN
  /\ w.pc = "filled"
  /\ \/ /\ saved' = Committed(w.new)
        /\ serves' = IF ~saved'.password THEN <<>>
                     ELSE IF "password" \in DOMAIN w.new THEN w.for ELSE serves
     \/ UNCHANGED <<saved, serves>>
  /\ Freed(r) /\ Becomes(r, Idle) /\ UNCHANGED up

\* The server stops or dies with the requests it has; it starts alone when
\* commands do not run beside it.
Stop ==
  /\ up /\ up' = FALSE
  /\ work' = [r \in Callers |-> IF r \in Web THEN Idle ELSE work[r]]
  /\ lock' = [lock EXCEPT !["server"] = NoOne]
  /\ UNCHANGED <<saved, serves>>

Start ==
  /\ ~up /\ up' = TRUE
  /\ Together \/ \A r \in Cmd : work[r] = Idle
  /\ UNCHANGED <<saved, serves, lock, work>>

SettingsInit ==
  /\ saved = BuiltIn /\ serves = <<>> /\ up = TRUE
  /\ lock = [p \in {"server"} \cup Cmd |-> NoOne]
  /\ work = [r \in Callers |-> Idle]

SettingsNext ==
  \/ \E r \in Callers : Submit(r) \/ Fill(r) \/ Refuse(r) \/ Answer(r) \/ Save(r)
  \/ Stop \/ Start

SettingsSpec == SettingsInit /\ [][SettingsNext]_settingsVars

-----------------------------------------------------------------------------
\* No combination the validation refuses is ever stored, whatever the order
\* of the changes: the switches and resolvers of the DNS verification, the
\* agent's provider, model and level, notifications without a server or
\* sender, a username without its password (settingslock.go).
CombinationsValid ==
  /\ ValidDNS(saved) /\ ValidAgent(saved) /\ ValidNotify(saved)
  /\ (saved.username # Unset) <=> saved.password

\* The stored password belongs to the connection it was given for, and goes
\* when that connection is left (SaveNotificationSettings).
PasswordServesItsServer == saved.password => serves = <<saved.host, saved.username>>

\* Every commit is the whole effect of one accepted request on the values it
\* replaces: no half of a request, no value another one has changed since it
\* was read (UpdateSettings, persistSettings).
OneAtATime ==
  [][saved' # saved => \E r \in Callers :
       /\ work[r].pc = "filled" /\ ~Refused(r, saved, work[r].in)
       /\ saved' = After(saved, work[r].in)]_settingsVars
=============================================================================
