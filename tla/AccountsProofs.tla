--------------------------- MODULE AccountsProofs ---------------------------
(***************************************************************************)
(* What holds of the users and their sessions for any number of browsers,   *)
(* commands, users, addresses and passwords: users stay distinct, a session *)
(* that is accepted is its owner's, and the last administrator goes only by  *)
(* a request that worked with administrators another one had changed.        *)
(***************************************************************************)
EXTENDS Accounts, LoginLimiter, FiniteSetTheorems, TLAPS

-----------------------------------------------------------------------------
(* The invariant, by what it is about.                                      *)

Row == [email : Emails \cup {NoEmail}, role : Roles \cup {"none"}, pw : Nat]
Held == [id : Ids \cup {0}, row : Row]
Places == {"idle", "in", "login", "target", "update", "delete", "reload", "setup"}

\* The table: an id not given yet has no row, and addresses are unique.
TableInv ==
  /\ users \in [Ids -> Row] /\ nextId \in Nat \ {0} /\ lastPw \in Nat
  /\ \A i \in Ids : i >= nextId => users[i] = NoUser
  /\ EmailsUnique

\* A request works with users that were in the table when it read them.
Holds(r) ==
  LET w == work[r] IN
  /\ w = [at |-> w.at, me |-> w.me, target |-> w.target, new |-> w.new]
  /\ w.at \in Places /\ w.me \in Held /\ w.target \in Held /\ w.new \in Row
  /\ w.me.id < nextId /\ w.target.id < nextId
  /\ w.at \in {"in", "login"} => w.me.id \in Ids
  /\ w.at \in {"target", "update", "delete", "reload"} => w.target.id \in Ids
  /\ w.at \in {"in", "login", "setup"} => r \in Web
WorkInv == work = [r \in Reqs |-> work[r]] /\ \A r \in Reqs : Holds(r)

\* The setup screen: its mutex is held by the request between counting the
\* users and creating one, and no user it created is left then.
SetupInv ==
  /\ \A r \in Reqs : At(r, "setup") <=> setupMu = r
  /\ setupMu \in Reqs \cup {NoOne}
  /\ founders \subseteq {i \in Ids : i < nextId}
  /\ \A i, j \in founders : Exists(i) /\ Exists(j) => i = j
  /\ setupMu # NoOne => \A i \in founders : ~Exists(i)

\* A cookie is given to who knows the password it names; a request about to
\* give one set the password in force, unless it was replaced meanwhile.
CookieKnown(c) == c.knows = c.pw \/ c.late
Reloading(r) ==
  LET t == work[r].target IN
  At(r, "reload") => r \in crossed \/ ~Exists(t.id) \/ users[t.id].pw = t.row.pw
SessionInv ==
  /\ cookies = [r \in Web |-> cookies[r]]
  /\ \A r \in Web : CookieKnown(cookies[r]) /\ (cookies[r] = NoCookie \/ cookies[r].id \in Ids)
  /\ \A r \in Reqs : Reloading(r)

\* A request that has seen no other administrators than there are knows
\* whether its target is one, and was let through because there is another.
Others(r) == work[r].target.row.role # "admin" \/ Cardinality(Admins(users)) > 1
Seen(r) ==
  LET w == work[r] IN
  r \notin stale =>
    /\ w.at \in {"target", "update", "delete"} =>
         ((w.target.row.role = "admin") <=> (w.target.id \in Admins(users)))
    /\ w.at = "delete" \/ (w.at = "update" /\ w.new.role # "admin") => Others(r)
SeenInv == \A r \in Reqs : Seen(r)

AccountsInv == TableInv /\ WorkInv /\ SetupInv /\ SessionInv /\ SeenInv

-----------------------------------------------------------------------------
(* What every step does to the other requests and to the table.             *)

LEMMA OthersWait ==
  ASSUME NEW r \in Reqs, Step(r), WorkInv, NEW q \in Reqs, q # r
  PROVE  work'[q] = work[q]
BY DEF Step, Enter, Logout, GiveUp, Ends, Update, CheckDelete, Delete, SetPassword, SetOwnPassword,
       Reload, LoginDone, SetupBegin, ReadTarget, Login, OwnProfile, SetupEnd, Create, CheckUpdate,
       Does, WorkInv

\* The steps on the table: none, a row written, one deleted, one inserted
\* and a password set.
Keeps == UNCHANGED table
Puts(i, row) == users' = Updated(i, row) /\ UNCHANGED <<nextId, lastPw>>
Drops(i) == users' = [users EXCEPT ![i] = NoUser] /\ UNCHANGED <<nextId, lastPw>>
Adds(e, role) ==
  /\ CanInsert(e) /\ users' = Inserted(e, role) /\ nextId' = nextId + 1 /\ lastPw' = lastPw + 1
Sets(i) ==
  /\ users' = (IF Exists(i) THEN [users EXCEPT ![i].pw = lastPw + 1] ELSE users)
  /\ lastPw' = lastPw + 1 /\ nextId' = nextId

OnRows ==
  \/ Keeps
  \/ \E i \in Ids : Drops(i) \/ \E row \in Row : Puts(i, row)
  \/ \E e \in Emails \cup {NoEmail}, role \in Roles : Adds(e, role)
OnTable == OnRows \/ \E i \in Ids : Sets(i)
OfPassword(r) == SetPassword(r) \/ SetOwnPassword(r)

LEMMA StepOnTable ==
  ASSUME AccountsInv, NEW r \in Reqs, Step(r)
  PROVE  OnTable /\ (OfPassword(r) \/ OnRows)
<1> USE DEF AccountsInv
<1>1. CASE \/ Enter(r) \/ Logout(r) \/ GiveUp(r) \/ CheckDelete(r) \/ Reload(r)
           \/ LoginDone(r) \/ SetupBegin(r)
           \/ \E i \in Ids : ReadTarget(r, i) \/ Login(r, i)
           \/ \E e \in Emails \cup {NoEmail}, role \in Roles : CheckUpdate(r, e, role)
  BY <1>1 DEF Enter, Logout, GiveUp, CheckDelete, Reload, LoginDone, SetupBegin, ReadTarget, Login,
              CheckUpdate, OnTable, OnRows, Keeps
<1>2. CASE Update(r)
  <2>1. work[r].target.id \in Ids /\ work[r].new \in Row
    BY <1>2 DEF Update, At, WorkInv, Holds
  <2>2. Puts(work[r].target.id, work[r].new)
    BY <1>2 DEF Update, Writes, Puts
  <2> QED BY <2>1, <2>2 DEF OnTable, OnRows, OfPassword
<1>3. CASE Delete(r)
  <2>1. work[r].target.id \in Ids
    BY <1>3 DEF Delete, At, WorkInv, Holds
  <2>2. Drops(work[r].target.id)
    BY <1>3 DEF Delete, Writes, Drops
  <2> QED BY <2>1, <2>2 DEF OnTable, OnRows, OfPassword
<1>4. CASE SetPassword(r)
  <2>1. work[r].target.id \in Ids
    BY <1>4 DEF SetPassword, At, WorkInv, Holds
  <2>2. Sets(work[r].target.id)
    BY <1>4 DEF SetPassword, ChangePassword, Sets
  <2> QED BY <1>4, <2>1, <2>2 DEF OnTable, OnRows, OfPassword
<1>5. CASE SetOwnPassword(r)
  <2>1. work[r].me.id \in Ids
    BY <1>5 DEF SetOwnPassword, At, WorkInv, Holds
  <2>2. Sets(work[r].me.id)
    BY <1>5 DEF SetOwnPassword, ChangePassword, Sets
  <2> QED BY <1>5, <2>1, <2>2 DEF OnTable, OnRows, OfPassword
<1>6. ASSUME NEW e \in Emails \cup {NoEmail}, OwnProfile(r, e) PROVE OnTable /\ OnRows
  <2> DEFINE i == IF Console(r) THEN work[r].target.id ELSE work[r].me.id
             row == [users[i] EXCEPT !.email = e]
  <2>1. i \in Ids
    BY <1>6 DEF OwnProfile, At, WorkInv, Holds
  <2>2. users[i] \in Row
    BY <2>1 DEF TableInv
  <2>3. row \in Row
    BY <2>2 DEF Row
  <2>4. Puts(i, row)
    BY <1>6 DEF OwnProfile, Writes, Puts
  <2> QED BY <2>1, <2>3, <2>4 DEF OnTable, OnRows, OfPassword
<1>7. ASSUME NEW e \in Emails \cup {NoEmail}, SetupEnd(r, e) PROVE OnTable /\ OnRows
  <2>1. Adds(e, "admin")
    BY <1>7 DEF SetupEnd, Writes, Adds
  <2> QED BY <2>1 DEF OnTable, OnRows, OfPassword, Roles
<1>8. ASSUME NEW e \in Emails \cup {NoEmail}, NEW role \in Roles, Create(r, e, role) PROVE OnTable /\ OnRows
  <2>1. Adds(e, role)
    BY <1>8 DEF Create, Writes, Adds
  <2> QED BY <2>1 DEF OnTable, OnRows, OfPassword
<1> QED BY <1>1, <1>2, <1>3, <1>4, <1>5, <1>6, <1>7, <1>8 DEF Step, OfPassword

\* What the table keeps: unique addresses, fresh ids, and a user that is
\* gone stays gone.
LEMMA TableKept ==
  ASSUME AccountsAssumption, TableInv, OnTable
  PROVE  /\ TableInv'
         /\ nextId' >= nextId /\ lastPw' >= lastPw
         /\ \A i \in Ids : i < nextId /\ ~Exists(i) => ~Exists(i)'
<1> USE DEF TableInv
<1>0. NoUser \in Row
  BY DEF NoUser, Row
<1>1. CASE Keeps
  BY <1>1 DEF Keeps, table, EmailsUnique, Exists
<1>2. ASSUME NEW i \in Ids, NEW row \in Row, Puts(i, row) PROVE
         /\ TableInv'
         /\ nextId' >= nextId /\ lastPw' >= lastPw
         /\ \A j \in Ids : ~Exists(j) => ~Exists(j)'
  <2>1. CASE Exists(i) /\ EmailAllowed(i, row.email)
    <3>1. users' = [users EXCEPT ![i].email = row.email, ![i].role = row.role]
      BY <1>2, <2>1 DEF Puts, Updated
    <3>2. users' \in [Ids -> Row] /\ users'[i].email = row.email
          /\ \A j \in Ids \ {i} : users'[j] = users[j]
      BY <3>1 DEF Row
    <3>3. EmailsUnique'
      BY <2>1, <3>2 DEF EmailsUnique, EmailAllowed, EmailFree
    <3>4. i < nextId
      BY <2>1 DEF Exists, AccountsAssumption
    <3> QED BY <1>2, <2>1, <3>2, <3>3, <3>4 DEF Puts, Exists, AccountsAssumption
  <2>2. CASE ~(Exists(i) /\ EmailAllowed(i, row.email))
    BY <1>2, <2>2 DEF Puts, Updated, EmailsUnique, Exists
  <2> QED BY <2>1, <2>2
<1>3. ASSUME NEW i \in Ids, Drops(i) PROVE
         /\ TableInv'
         /\ nextId' >= nextId /\ lastPw' >= lastPw
         /\ \A j \in Ids : ~Exists(j) => ~Exists(j)'
  <2>1. users' \in [Ids -> Row] /\ users'[i] = NoUser /\ \A j \in Ids \ {i} : users'[j] = users[j]
    BY <1>0, <1>3 DEF Drops
  <2>2. EmailsUnique'
    BY <2>1 DEF EmailsUnique, NoUser
  <2> QED BY <1>3, <2>1, <2>2 DEF Drops, Exists
<1>4. ASSUME NEW i \in Ids, Sets(i) PROVE
         /\ TableInv'
         /\ nextId' >= nextId /\ lastPw' >= lastPw
         /\ \A j \in Ids : ~Exists(j) => ~Exists(j)'
  <2>1. /\ users' \in [Ids -> Row]
        /\ \A j \in Ids : users'[j].email = users[j].email
        /\ \A j \in Ids : ~Exists(j) => users'[j] = users[j]
    <3>1. CASE Exists(i)
      <4>1. users' = [users EXCEPT ![i].pw = lastPw + 1] /\ lastPw + 1 \in Nat
        BY <1>4, <3>1 DEF Sets
      <4>2. users' = [users EXCEPT ![i] = [users[i] EXCEPT !.pw = lastPw + 1]]
        BY <4>1
      <4>3. [users[i] EXCEPT !.pw = lastPw + 1] \in Row
        BY <4>1 DEF Row
      <4> QED BY <3>1, <4>1, <4>2, <4>3 DEF Row
    <3>2. CASE ~Exists(i)
      BY <1>4, <3>2 DEF Sets
    <3> QED BY <3>1, <3>2
  <2>2. EmailsUnique'
    BY <2>1 DEF EmailsUnique
  <2>3. nextId' = nextId /\ lastPw' = lastPw + 1
    BY <1>4 DEF Sets
  <2>4. \A j \in Ids : ~Exists(j) => ~Exists(j)'
    BY <2>1 DEF Exists
  <2>5. \A j \in Ids : j >= nextId' => users'[j] = NoUser
    BY <2>1, <2>3 DEF Exists
  <2> QED BY <2>1, <2>2, <2>3, <2>4, <2>5
<1>5. ASSUME NEW e \in Emails \cup {NoEmail}, NEW role \in Roles, Adds(e, role) PROVE
         /\ TableInv'
         /\ nextId' >= nextId /\ lastPw' >= lastPw
         /\ \A i \in Ids : i < nextId /\ ~Exists(i) => ~Exists(i)'
  <2> DEFINE new == [email |-> e, role |-> role, pw |-> lastPw + 1]
  <2>1. nextId \in Ids /\ new \in Row /\ (e = NoEmail \/ EmailFree(0, e))
    BY <1>5 DEF Adds, CanInsert, Row
  <2>2. users' = [users EXCEPT ![nextId] = new]
    BY <1>5 DEF Adds, Inserted
  <2>3. users' \in [Ids -> Row] /\ users'[nextId].email = e
        /\ \A j \in Ids \ {nextId} : users'[j] = users[j]
    BY <2>1, <2>2
  <2>4. EmailsUnique'
    BY <2>1, <2>3 DEF EmailsUnique, EmailFree, AccountsAssumption
  <2> QED BY <1>5, <2>1, <2>3, <2>4 DEF Adds, Exists, AccountsAssumption
<1> QED BY <1>1, <1>2, <1>3, <1>4, <1>5 DEF OnTable, OnRows

-----------------------------------------------------------------------------
(* The requests hold users of the table.                                    *)

LEMMA RowsRead ==
  ASSUME AccountsAssumption, TableInv, NEW r, NEW i \in Ids
  PROVE  /\ None \in Held /\ NoUser \in Row
         /\ Read(i) \in Held /\ Caller(i) \in Held /\ Target(r, i) \in Held
         /\ Exists(i) => i < nextId
<1>1. users[i] \in Row
  BY DEF TableInv
<1>2. NoUser \in Row
  BY DEF NoUser, Row
<1>3. /\ [users[i] EXCEPT !.email = NoEmail, !.pw = 0] \in Row
      /\ [users[i] EXCEPT !.email = IF Console(r) THEN @ ELSE NoEmail, !.pw = 0] \in Row
  BY <1>1 DEF Row
<1>4. Exists(i) => i < nextId
  BY DEF TableInv, Exists, AccountsAssumption
<1> QED BY <1>1, <1>2, <1>3, <1>4 DEF None, Held, Read, Caller, Target

LEMMA HeldUser ==
  ASSUME AccountsAssumption, NEW h \in Held
  PROVE  h.id \in Nat /\ h.row \in Row /\ h.id \in Ids \cup {0}
<1>1. h.id \in Ids \cup {0} /\ h.row \in Row
  BY DEF Held
<1>2. \A i \in Ids : i \in Nat
  BY DEF AccountsAssumption
<1>3. h.id \in Nat
  <2>1. CASE h.id \in Ids
    BY <1>2, <2>1, Zenon
  <2>2. CASE h.id = 0
    BY <2>2
  <2> QED BY <1>1, <2>1, <2>2
<1> QED BY <1>1, <1>3

LEMMA TaskHolds ==
  ASSUME NEW r \in Reqs, NEW at \in Places, NEW me \in Held, NEW target \in Held, NEW new \in Row,
         work'[r] = [at |-> at, me |-> me, target |-> target, new |-> new],
         me.id < nextId', target.id < nextId', at \in {"in", "login"} => me.id \in Ids,
         at \in {"target", "update", "delete", "reload"} => target.id \in Ids,
         at \in {"in", "login", "setup"} => r \in Web
  PROVE  Holds(r)'
BY DEF Holds

\* A task that goes on with another caller, target or new row, or with none
\* of them changed.
LEMMA NextOnly ==
  ASSUME NEW w, w = [at |-> w.at, me |-> w.me, target |-> w.target, new |-> w.new],
         NEW at
  PROVE  [w EXCEPT !.at = at]
         = [at |-> at, me |-> w.me, target |-> w.target, new |-> w.new]
<1> DEFINE x == [w EXCEPT !.at = at]
<1>1. DOMAIN w = {"at", "me", "target", "new"}
  OBVIOUS
<1>2. x = [k \in {"at", "me", "target", "new"} |-> x[k]]
  BY <1>1
<1>3. x.at = at /\ x.me = w.me /\ x.target = w.target /\ x.new = w.new
  BY <1>1
<1> HIDE DEF x
<1>4. x = [at |-> at, me |-> w.me, target |-> w.target, new |-> w.new]
  BY <1>2, <1>3
<1> QED BY <1>4 DEF x

LEMMA NextTarget ==
  ASSUME NEW w, w = [at |-> w.at, me |-> w.me, target |-> w.target, new |-> w.new],
         NEW at, NEW target
  PROVE  [w EXCEPT !.at = at, !.target = target]
         = [at |-> at, me |-> w.me, target |-> target, new |-> w.new]
<1> DEFINE x == [w EXCEPT !.at = at, !.target = target]
<1>1. DOMAIN w = {"at", "me", "target", "new"}
  OBVIOUS
<1>2. x = [k \in {"at", "me", "target", "new"} |-> x[k]]
  BY <1>1
<1>3. x.at = at /\ x.me = w.me /\ x.target = target /\ x.new = w.new
  BY <1>1
<1> HIDE DEF x
<1>4. x = [at |-> at, me |-> w.me, target |-> target, new |-> w.new]
  BY <1>2, <1>3
<1> QED BY <1>4 DEF x

LEMMA NextRow ==
  ASSUME NEW w, w = [at |-> w.at, me |-> w.me, target |-> w.target, new |-> w.new],
         NEW at, NEW new
  PROVE  [w EXCEPT !.at = at, !.new = new]
         = [at |-> at, me |-> w.me, target |-> w.target, new |-> new]
<1> DEFINE x == [w EXCEPT !.at = at, !.new = new]
<1>1. DOMAIN w = {"at", "me", "target", "new"}
  OBVIOUS
<1>2. x = [k \in {"at", "me", "target", "new"} |-> x[k]]
  BY <1>1
<1>3. x.at = at /\ x.me = w.me /\ x.target = w.target /\ x.new = new
  BY <1>1
<1> HIDE DEF x
<1>4. x = [at |-> at, me |-> w.me, target |-> w.target, new |-> new]
  BY <1>2, <1>3
<1> QED BY <1>4 DEF x

\* Nothing is a task too.
LEMMA NothingTask ==
  /\ Nothing = [at |-> Nothing.at, me |-> Nothing.me, target |-> Nothing.target, new |-> Nothing.new]
  /\ Nothing.at = "idle" /\ Nothing.me = None /\ Nothing.target = None /\ Nothing.new = NoUser
BY DEF Nothing

\* What the request of a step does next.
LEMMA MineHolds ==
  ASSUME AccountsAssumption, AccountsInv, TableInv', nextId' >= nextId, NEW r \in Reqs, Step(r)
  PROVE  Holds(r)'
<1> USE DEF AccountsInv
<1>0. /\ nextId \in Nat \ {0} /\ nextId' \in Nat \ {0} /\ lastPw \in Nat /\ lastPw' \in Nat
      /\ Ids \subseteq Nat \ {0}
  BY DEF TableInv, AccountsAssumption
<1> DEFINE w == work[r]
<1>1. /\ w = [at |-> w.at, me |-> w.me, target |-> w.target, new |-> w.new]
      /\ w.at \in Places /\ w.me \in Held /\ w.target \in Held /\ w.new \in Row
      /\ w.at \in {"in", "login"} => w.me.id \in Ids
      /\ w.at \in {"target", "update", "delete", "reload"} => w.target.id \in Ids
      /\ w.at \in {"in", "login", "setup"} => r \in Web
      /\ w.me.id < nextId /\ w.target.id < nextId
  BY DEF WorkInv, Holds
<1>a. w.me.id < nextId' /\ w.target.id < nextId'
  <2>1. w.me.id \in Nat /\ w.target.id \in Nat
    BY <1>1, HeldUser
  <2> QED BY <1>0, <1>1, <2>1
<1>2. ASSUME NEW v, Does(r, v) PROVE work'[r] = v
  BY <1>2 DEF Does, WorkInv
<1>3. None \in Held /\ NoUser \in Row /\ None.id < nextId'
  BY <1>0 DEF None, Held, NoUser, Row
<1>t. ASSUME NEW at \in Places, NEW me \in Held, NEW target \in Held, NEW new \in Row,
             Does(r, [at |-> at, me |-> me, target |-> target, new |-> new]),
             me.id < nextId', target.id < nextId', at \in {"in", "login"} => me.id \in Ids,
             at \in {"target", "update", "delete", "reload"} => target.id \in Ids,
             at \in {"in", "login", "setup"} => r \in Web
       PROVE Holds(r)'
  BY <1>2, <1>t, TaskHolds
<1> HIDE DEF w
<1>4. ASSUME Does(r, Nothing) PROVE Holds(r)'
  BY <1>3, <1>4, <1>t DEF Nothing, Places
<1>5. CASE GiveUp(r) \/ Update(r) \/ Delete(r) \/ Reload(r) \/ LoginDone(r)
  BY <1>4, <1>5 DEF GiveUp, Ends, Update, Delete, Reload, LoginDone
<1>6. CASE \E e \in Emails \cup {NoEmail} : \/ OwnProfile(r, e) \/ SetupEnd(r, e)
                                           \/ \E role \in Roles : Create(r, e, role)
  BY <1>4, <1>6 DEF OwnProfile, SetupEnd, Create
<1>7. CASE Logout(r)
  <2>1. work'[r] = w /\ nextId' = nextId
    BY <1>7 DEF Logout, table, w
  <2> QED BY <1>1, <2>1 DEF Holds
<1>8. CASE Enter(r)
  <2> DEFINE i == cookies[r].id
  <2>1. i \in Ids /\ Exists(i) /\ r \in Web
    BY <1>8 DEF Enter, Valid, SessionInv
  <2>2. Does(r, [at |-> "in", me |-> Caller(i), target |-> None, new |-> NoUser])
    <3> DEFINE x == [Nothing EXCEPT !.at = "in", !.me = Caller(i)]
    <3>1. DOMAIN x = {"at", "me", "target", "new"} /\ x = [k \in DOMAIN x |-> x[k]]
      BY DEF Nothing
    <3>2. x.at = "in" /\ x.me = Caller(i) /\ x.target = None /\ x.new = NoUser
      BY DEF Nothing
    <3>3. Does(r, x)
      BY <1>8 DEF Enter
    <3> HIDE DEF x
    <3>4. x = [at |-> "in", me |-> Caller(i), target |-> None, new |-> NoUser]
      BY <3>1, <3>2
    <3> QED BY <1>8, <3>3, <3>4 DEF Enter
  <2>4. Caller(i) \in Held /\ Caller(i).id = i /\ i < nextId
    BY <2>1, RowsRead DEF Caller
  <2> HIDE DEF i
  <2>5. i < nextId'
    BY <1>0, <2>1, <2>4
  <2> QED BY <1>3, <1>t, <2>1, <2>2, <2>4, <2>5 DEF Places
<1>9. ASSUME NEW i \in Ids, Login(r, i) PROVE Holds(r)'
  <2>1. Does(r, [at |-> "login", me |-> Read(i), target |-> None, new |-> NoUser]) /\ Exists(i) /\ r \in Web
    <3> DEFINE x == [Nothing EXCEPT !.at = "login", !.me = Read(i)]
    <3>1. DOMAIN x = {"at", "me", "target", "new"} /\ x = [k \in DOMAIN x |-> x[k]]
      BY DEF Nothing
    <3>2. x.at = "login" /\ x.me = Read(i) /\ x.target = None /\ x.new = NoUser
      BY DEF Nothing
    <3>3. Does(r, x)
      BY <1>9 DEF Login
    <3> HIDE DEF x
    <3>4. x = [at |-> "login", me |-> Read(i), target |-> None, new |-> NoUser]
      BY <3>1, <3>2
    <3> QED BY <1>9, <3>3, <3>4 DEF Login
  <2>2. Read(i) \in Held /\ Read(i).id = i /\ i < nextId
    BY <2>1, RowsRead DEF Read
  <2>3. i < nextId'
    BY <1>0, <2>2
  <2> QED BY <1>3, <1>t, <2>1, <2>2, <2>3 DEF Places
<1>10. ASSUME NEW i \in Ids, ReadTarget(r, i) PROVE Holds(r)'
  <2>1. Does(r, [w EXCEPT !.at = "target", !.target = Target(r, i)]) /\ Exists(i)
    BY <1>10 DEF ReadTarget, w
  <2>2. Target(r, i) \in Held /\ Target(r, i).id = i /\ i < nextId
    BY <2>1, RowsRead DEF Target
  <2>3. i < nextId'
    BY <1>0, <2>2
  <2>4. Does(r, [at |-> "target", me |-> w.me, target |-> Target(r, i), new |-> w.new])
    <3>1. [w EXCEPT !.at = "target", !.target = Target(r, i)]
          = [at |-> "target", me |-> w.me, target |-> Target(r, i), new |-> w.new]
      BY <1>1, NextTarget, Zenon
    <3> QED BY <2>1, <3>1
  <2> QED BY <1>1, <1>a, <1>t, <2>2, <2>3, <2>4 DEF Places
<1>11. ASSUME NEW e \in Emails \cup {NoEmail}, NEW role \in Roles, CheckUpdate(r, e, role)
       PROVE  Holds(r)'
  <2> DEFINE n == [w.new EXCEPT !.email = e, !.role = role]
  <2>1. Does(r, [w EXCEPT !.at = "update", !.new = n]) /\ w.at = "target"
    BY <1>1, <1>11 DEF CheckUpdate, At, w
  <2>2. n \in Row
    BY <1>1 DEF Row
  <2> HIDE DEF n
  <2>3. Does(r, [at |-> "update", me |-> w.me, target |-> w.target, new |-> n])
    <3>1. [w EXCEPT !.at = "update", !.new = n]
          = [at |-> "update", me |-> w.me, target |-> w.target, new |-> n]
      BY <1>1, NextRow, Zenon
    <3> QED BY <2>1, <3>1
  <2> QED BY <1>1, <1>a, <1>t, <2>1, <2>2, <2>3 DEF Places
<1>12. CASE CheckDelete(r)
  <2>1. Does(r, [w EXCEPT !.at = "delete"]) /\ w.at = "target"
    BY <1>12 DEF CheckDelete, At, w
  <2>2. Does(r, [at |-> "delete", me |-> w.me, target |-> w.target, new |-> w.new])
    <3>1. [w EXCEPT !.at = "delete"]
          = [at |-> "delete", me |-> w.me, target |-> w.target, new |-> w.new]
      BY <1>1, NextOnly, Zenon
    <3> QED BY <2>1, <3>1
  <2> QED BY <1>1, <1>a, <1>t, <2>1, <2>2 DEF Places
<1>13. CASE SetPassword(r)
  <2> DEFINE t == [w.target EXCEPT !.row.pw = lastPw + 1]
  <2>1. w.at = "target" /\ Does(r, IF w.target.id = w.me.id
                                   THEN [w EXCEPT !.at = "reload", !.target = t] ELSE Nothing)
    BY <1>1, <1>13 DEF SetPassword, At, w, Held
  <2>2. CASE w.target.id = w.me.id
    <3>1. Does(r, [w EXCEPT !.at = "reload", !.target = t])
      BY <2>1, <2>2
    <3>2. t \in Held /\ t.id = w.target.id
      BY <1>0, <1>1 DEF Held, Row
    <3> HIDE DEF t
    <3>3. Does(r, [at |-> "reload", me |-> w.me, target |-> t, new |-> w.new])
      <4>1. [w EXCEPT !.at = "reload", !.target = t]
            = [at |-> "reload", me |-> w.me, target |-> t, new |-> w.new]
        BY <1>1, NextTarget, Zenon
      <4> QED BY <3>1, <4>1
    <3> QED BY <1>1, <1>a, <1>t, <2>1, <3>2, <3>3 DEF Places
  <2>3. CASE w.target.id # w.me.id
    BY <1>4, <2>1, <2>3
  <2> QED BY <2>2, <2>3
<1>14. CASE SetOwnPassword(r)
  <2> DEFINE t == [w.me EXCEPT !.row.pw = lastPw + 1]
  <2>1. w.at = "in" /\ Does(r, [at |-> "reload", me |-> None, target |-> t, new |-> NoUser])
    <3>1. [Nothing EXCEPT !.at = "reload", !.target = t]
          = [at |-> "reload", me |-> Nothing.me, target |-> t, new |-> Nothing.new]
      BY NothingTask, NextTarget, Zenon
    <3> QED BY <1>14, <3>1, NothingTask DEF SetOwnPassword, At, w
  <2>2. t \in Held /\ t.id = w.me.id
    BY <1>0, <1>1 DEF Held, Row
  <2> HIDE DEF t
  <2> QED BY <1>1, <1>3, <1>a, <1>t, <2>1, <2>2 DEF Places
<1>15. CASE SetupBegin(r)
  <2>1. Does(r, [at |-> "setup", me |-> None, target |-> None, new |-> NoUser]) /\ r \in Web
    <3>1. [Nothing EXCEPT !.at = "setup"]
          = [at |-> "setup", me |-> Nothing.me, target |-> Nothing.target, new |-> Nothing.new]
      BY NothingTask, NextOnly, Zenon
    <3> QED BY <1>15, <3>1, NothingTask DEF SetupBegin
  <2> QED BY <1>3, <1>t, <2>1 DEF Places
<1> QED BY <1>5, <1>6, <1>7, <1>8, <1>9, <1>10, <1>11, <1>12, <1>13, <1>14, <1>15 DEF Step

LEMMA WorkKept ==
  ASSUME AccountsAssumption, AccountsInv, TableInv', nextId' >= nextId, NEW r \in Reqs, Step(r)
  PROVE  WorkInv'
<1>1. work' = [q \in Reqs |-> work'[q]]
  BY DEF AccountsInv, WorkInv, Step, Enter, Logout, GiveUp, Ends, Update, CheckDelete, Delete,
         SetPassword, SetOwnPassword, Reload, LoginDone, SetupBegin, ReadTarget, Login, OwnProfile,
         SetupEnd, Create, CheckUpdate, Does
<1>2. ASSUME NEW q \in Reqs PROVE Holds(q)'
  <2>1. CASE q = r
    BY <2>1, MineHolds
  <2>2. CASE q # r
    <3>1. work'[q] = work[q] /\ Holds(q)
      BY <2>2, OthersWait DEF AccountsInv, WorkInv
    <3>2. nextId \in Nat /\ nextId' \in Nat
      BY DEF AccountsInv, TableInv
    <3>3. work[q].me.id \in Nat /\ work[q].target.id \in Nat
      BY <3>1, HeldUser DEF Holds
    <3>4. work[q].me.id < nextId' /\ work[q].target.id < nextId'
      BY <3>1, <3>2, <3>3 DEF Holds
    <3> QED BY <3>1, <3>4 DEF Holds
  <2> QED BY <2>1, <2>2
<1> QED BY <1>1, <1>2 DEF WorkInv

-----------------------------------------------------------------------------
(* Where the request of a step goes.                                        *)

LEMMA GoesTo ==
  ASSUME AccountsInv, NEW r \in Reqs, Step(r)
  PROVE  /\ SetupBegin(r) => work'[r].at = "setup"
         /\ Enter(r) \/ (\E i \in Ids : Login(r, i)) => work'[r].at \in {"in", "login"}
         /\ \A i \in Ids : ReadTarget(r, i) =>
              work'[r].at = "target" /\ work'[r].target = Target(r, i)
         /\ \A e \in Emails \cup {NoEmail}, role \in Roles : CheckUpdate(r, e, role) =>
              work'[r].at = "update" /\ work'[r].target = work[r].target /\ work'[r].new.role = role
         /\ CheckDelete(r) => work'[r].at = "delete" /\ work'[r].target = work[r].target
         /\ SetPassword(r) => \/ work'[r].at = "idle"
                              \/ /\ work'[r].at = "reload" /\ work'[r].target.id = work[r].target.id
                                 /\ work'[r].target.row.pw = lastPw + 1
         /\ SetOwnPassword(r) => /\ work'[r].at = "reload" /\ work'[r].target.id = work[r].me.id
                                 /\ work'[r].target.row.pw = lastPw + 1
         /\ \/ Logout(r) \/ GiveUp(r) \/ Update(r) \/ Delete(r) \/ Reload(r) \/ LoginDone(r)
            \/ \E e \in Emails \cup {NoEmail} : \/ OwnProfile(r, e) \/ SetupEnd(r, e)
                                               \/ \E role \in Roles : Create(r, e, role)
            => work'[r].at = "idle"
<1>1. /\ DOMAIN work[r] = {"at", "me", "target", "new"} /\ work = [q \in Reqs |-> work[q]]
      /\ work[r].target \in Held /\ work[r].me \in Held /\ work[r].new \in Row
  <2>1. work[r] = [at |-> work[r].at, me |-> work[r].me, target |-> work[r].target, new |-> work[r].new]
    BY DEF AccountsInv, WorkInv, Holds
  <2> QED BY <2>1 DEF AccountsInv, WorkInv, Holds
<1>2. ASSUME NEW v, Does(r, v) PROVE work'[r] = v
  BY <1>1, <1>2 DEF Does
<1>3. ASSUME NEW h \in Held
      PROVE  /\ [h EXCEPT !.row.pw = lastPw + 1].id = h.id
             /\ [h EXCEPT !.row.pw = lastPw + 1].row.pw = lastPw + 1
  BY DEF Held, Row
<1>4. SetupBegin(r) => work'[r].at = "setup"
  BY <1>2 DEF SetupBegin, Nothing
<1>5. Enter(r) \/ (\E i \in Ids : Login(r, i)) => work'[r].at \in {"in", "login"}
  <2>1. SUFFICES ASSUME Enter(r) \/ \E i \in Ids : Login(r, i) PROVE work'[r].at \in {"in", "login"}
    OBVIOUS
  <2>2. PICK at, me : Does(r, [Nothing EXCEPT !.at = at, !.me = me]) /\ at \in {"in", "login"}
    BY <2>1 DEF Enter, Login
  <2>3. [Nothing EXCEPT !.at = at, !.me = me].at = at
    BY DEF Nothing
  <2> QED BY <1>2, <2>2, <2>3
<1>6. ASSUME NEW i \in Ids, ReadTarget(r, i)
      PROVE  work'[r].at = "target" /\ work'[r].target = Target(r, i)
  BY <1>1, <1>2, <1>6 DEF ReadTarget
<1>7. ASSUME NEW e \in Emails \cup {NoEmail}, NEW role \in Roles, CheckUpdate(r, e, role)
      PROVE  work'[r].at = "update" /\ work'[r].target = work[r].target /\ work'[r].new.role = role
  <2>1. work'[r] = [work[r] EXCEPT !.at = "update", !.new.email = e, !.new.role = role]
    BY <1>2, <1>7 DEF CheckUpdate
  <2>2. DOMAIN work[r].new = {"email", "role", "pw"}
    BY <1>1 DEF Row
  <2> QED BY ZenonT(60), <1>1, <2>1, <2>2
<1>8. CheckDelete(r) => work'[r].at = "delete" /\ work'[r].target = work[r].target
  BY <1>1, <1>2 DEF CheckDelete
<1>9. ASSUME SetPassword(r)
      PROVE  \/ work'[r].at = "idle"
             \/ /\ work'[r].at = "reload" /\ work'[r].target.id = work[r].target.id
                /\ work'[r].target.row.pw = lastPw + 1
  <2> DEFINE t == [work[r].target EXCEPT !.row.pw = lastPw + 1]
             step == [work[r] EXCEPT !.at = "reload", !.target = t]
  <2>1. step.at = "reload" /\ step.target = t
    BY <1>1
  <2>2. Does(r, IF work[r].target.id = work[r].me.id THEN step ELSE Nothing)
    BY <1>1, <1>9 DEF SetPassword
  <2>3. t.id = work[r].target.id /\ t.row.pw = lastPw + 1
    BY <1>1, <1>3
  <2> HIDE DEF step, t
  <2>4. work'[r] = IF work[r].target.id = work[r].me.id THEN step ELSE Nothing
    BY <1>2, <2>2
  <2> QED BY <2>1, <2>3, <2>4 DEF Nothing
<1>10. ASSUME SetOwnPassword(r)
       PROVE  /\ work'[r].at = "reload" /\ work'[r].target.id = work[r].me.id
              /\ work'[r].target.row.pw = lastPw + 1
  <2> DEFINE t == [work[r].me EXCEPT !.row.pw = lastPw + 1]
             step == [Nothing EXCEPT !.at = "reload", !.target = t]
  <2>1. step.at = "reload" /\ step.target = t
    BY DEF Nothing
  <2>2. Does(r, step)
    BY <1>10 DEF SetOwnPassword
  <2>3. t.id = work[r].me.id /\ t.row.pw = lastPw + 1
    BY <1>1, <1>3
  <2> HIDE DEF step, t
  <2> QED BY <1>2, <2>1, <2>2, <2>3
<1>11. Logout(r) => work'[r].at = "idle"
  BY DEF Logout, At
<1>12. Does(r, Nothing) => work'[r].at = "idle"
  BY <1>2 DEF Nothing
<1>13. \/ GiveUp(r) \/ Update(r) \/ Delete(r) \/ Reload(r) \/ LoginDone(r)
       \/ \E e \in Emails \cup {NoEmail} : \/ OwnProfile(r, e) \/ SetupEnd(r, e)
                                          \/ \E role \in Roles : Create(r, e, role)
       => Does(r, Nothing)
  BY DEF GiveUp, Ends, Update, Delete, Reload, LoginDone, OwnProfile, SetupEnd, Create
<1> QED BY <1>4, <1>5, <1>6, <1>7, <1>8, <1>9, <1>10, <1>11, <1>12, <1>13

-----------------------------------------------------------------------------
(* The setup creates one administrator.                                     *)

\* What a step does to the setup: it begins, ends or goes on.
LEMMA SetupMoves ==
  ASSUME AccountsInv, NEW r \in Reqs, Step(r)
  PROVE  \/ /\ setupMu = NoOne /\ setupMu' = r /\ work'[r].at = "setup"
            /\ founders' = founders /\ \A i \in Ids : ~Exists(i)
         \/ /\ At(r, "setup") /\ work'[r].at # "setup" /\ setupMu' = NoOne
            /\ founders' \in {founders, founders \cup {nextId}}
            /\ founders' # founders => nextId \in Ids /\ nextId' = nextId + 1
         \/ /\ setupMu' = setupMu /\ founders' = founders
            /\ (work'[r].at = "setup") <=> At(r, "setup")
<1> DEFINE Same == setupMu' = setupMu /\ founders' = founders
           Elsewhere == ~At(r, "setup") /\ work'[r].at # "setup"
<1>1. At(r, "setup") <=> setupMu = r
  BY DEF AccountsInv, SetupInv
<1>2. CASE SetupBegin(r)
  BY <1>2, GoesTo DEF SetupBegin, SetupFree, ghosts
<1>3. ASSUME NEW e \in Emails \cup {NoEmail}, SetupEnd(r, e)
      PROVE  /\ At(r, "setup") /\ work'[r].at # "setup" /\ setupMu' = NoOne
             /\ founders' = founders \cup {nextId} /\ nextId \in Ids /\ nextId' = nextId + 1
  BY <1>3, GoesTo DEF SetupEnd, CanInsert
<1>4. CASE GiveUp(r)
  <2>1. work'[r].at = "idle" /\ founders' = founders
    BY <1>4, GoesTo DEF GiveUp
  <2>2. setupMu' = IF setupMu = r THEN NoOne ELSE setupMu
    BY <1>4 DEF GiveUp
  <2> QED BY <1>1, <2>1, <2>2
<1>5. CASE \/ Logout(r) \/ Enter(r) \/ CheckDelete(r) \/ SetPassword(r) \/ SetOwnPassword(r)
           \/ Update(r) \/ Delete(r) \/ Reload(r) \/ LoginDone(r)
           \/ \E i \in Ids : Login(r, i)
  <2>1. Elsewhere
    BY <1>5, GoesTo DEF Logout, Enter, CheckDelete, SetPassword, SetOwnPassword, Update, Delete,
                        Reload, LoginDone, Login, CanCome, At
  <2>2. Same
    BY <1>5 DEF Logout, Enter, CheckDelete, SetPassword, SetOwnPassword, ChangePassword, Update,
                Delete, Reload, LoginDone, Login, ghosts
  <2> QED BY <2>1, <2>2
<1>6. ASSUME NEW i \in Ids, ReadTarget(r, i) PROVE Same /\ Elsewhere
  BY <1>6, GoesTo DEF ReadTarget, Ready, CanCome, At, ghosts
<1>7. ASSUME NEW e \in Emails \cup {NoEmail}, OwnProfile(r, e) PROVE Same /\ Elsewhere
  BY <1>7, GoesTo DEF OwnProfile, At
<1>8. ASSUME NEW e \in Emails \cup {NoEmail}, NEW role \in Roles, Create(r, e, role)
      PROVE  Same /\ Elsewhere
  BY <1>8, GoesTo DEF Create, Ready, CanCome, At
<1>9. ASSUME NEW e \in Emails \cup {NoEmail}, NEW role \in Roles, CheckUpdate(r, e, role)
      PROVE  Same /\ Elsewhere
  BY <1>9, GoesTo DEF CheckUpdate, At, ghosts
<1> QED BY <1>2, <1>3, <1>4, <1>5, <1>6, <1>7, <1>8, <1>9 DEF Step

LEMMA SetupKept ==
  ASSUME AccountsAssumption, AccountsInv, NEW r \in Reqs, Step(r), TableInv', nextId' >= nextId,
         \A i \in Ids : i < nextId /\ ~Exists(i) => ~Exists(i)'
  PROVE  SetupInv'
<1> USE DEF AccountsInv
<1>1. /\ nextId \in Nat /\ nextId' \in Nat /\ \A i \in Ids : i \in Nat
      /\ r # NoOne
  BY DEF TableInv, AccountsAssumption
<1>2. \A q \in Reqs : q # r => At(q, "setup")' = At(q, "setup")
  BY OthersWait DEF At
<1>3. \A i \in founders : i \in Ids /\ i < nextId /\ i < nextId' /\ (Exists(i)' => Exists(i))
  BY <1>1 DEF SetupInv
<1>4. (work'[r].at = "setup") <=> At(r, "setup")'
  BY DEF At
<1>5. CASE /\ setupMu = NoOne /\ setupMu' = r /\ work'[r].at = "setup"
           /\ founders' = founders /\ \A i \in Ids : ~Exists(i)
  <2>1. \A q \in Reqs : At(q, "setup")' <=> setupMu' = q
    BY <1>1, <1>2, <1>4, <1>5 DEF SetupInv
  <2> QED BY <1>1, <1>3, <1>5, <2>1 DEF SetupInv
<1>6. CASE /\ At(r, "setup") /\ work'[r].at # "setup" /\ setupMu' = NoOne
           /\ founders' \in {founders, founders \cup {nextId}}
           /\ founders' # founders => nextId \in Ids /\ nextId' = nextId + 1
  <2>1. setupMu = r /\ \A i \in founders : ~Exists(i)'
    BY <1>1, <1>3, <1>6 DEF SetupInv
  <2>2. \A q \in Reqs : At(q, "setup")' <=> setupMu' = q
    BY <1>1, <1>2, <1>4, <1>6, <2>1 DEF SetupInv, AccountsAssumption
  <2>3. founders' \subseteq {i \in Ids : i < nextId'}
    BY <1>1, <1>3, <1>6
  <2>4. \A i, j \in founders' : Exists(i)' /\ Exists(j)' => i = j
    BY <1>6, <2>1
  <2> QED BY <1>6, <2>2, <2>3, <2>4 DEF SetupInv
<1>7. CASE /\ setupMu' = setupMu /\ founders' = founders
           /\ (work'[r].at = "setup") <=> At(r, "setup")
  <2>1. \A q \in Reqs : At(q, "setup")' <=> setupMu' = q
    BY <1>2, <1>4, <1>7 DEF SetupInv
  <2> QED BY <1>3, <1>7, <2>1 DEF SetupInv
<1> QED BY <1>5, <1>6, <1>7, SetupMoves

-----------------------------------------------------------------------------
(* Cookies are given to who knows the password.                             *)

\* What a step does to passwords: it sets one, crossing the requests about
\* to answer for this user, or leaves those of the users that remain.
LEMMA PasswordMoves ==
  ASSUME AccountsAssumption, AccountsInv, NEW r \in Reqs, Step(r)
  PROVE  \/ /\ \A i \in Ids : i < nextId => ~Exists(i)' \/ users'[i].pw = users[i].pw
            /\ crossed \ {r} \subseteq crossed' /\ work'[r].at # "reload"
         \/ \E k \in Ids :
              /\ Sets(k) /\ crossed' = crossed \cup {q \in Reqs : At(q, "reload") /\ work[q].target.id = k}
              /\ work'[r].at = "reload" =>
                   work'[r].target.id = k /\ work'[r].target.row.pw = lastPw + 1
<1> USE DEF AccountsInv
<1>1. CASE SetPassword(r)
  <2>1. work[r].target.id \in Ids
    BY <1>1 DEF SetPassword, At, WorkInv, Holds
  <2>2. Sets(work[r].target.id)
        /\ crossed' = crossed \cup {q \in Reqs : At(q, "reload") /\ work[q].target.id = work[r].target.id}
    BY <1>1 DEF SetPassword, ChangePassword, Sets
  <2> QED BY <1>1, <2>1, <2>2, GoesTo
<1>2. CASE SetOwnPassword(r)
  <2>1. work[r].me.id \in Ids
    BY <1>2 DEF SetOwnPassword, At, WorkInv, Holds
  <2>2. Sets(work[r].me.id)
        /\ crossed' = crossed \cup {q \in Reqs : At(q, "reload") /\ work[q].target.id = work[r].me.id}
    BY <1>2 DEF SetOwnPassword, ChangePassword, Sets
  <2> QED BY <1>2, <2>1, <2>2, GoesTo
<1>3. CASE ~OfPassword(r)
  <2>1. work'[r].at # "reload"
    BY <1>3, GoesTo DEF Step, OfPassword
  <2>2. crossed \ {r} \subseteq crossed'
    BY <1>3 DEF Step, Enter, Logout, GiveUp, Ends, Update, CheckDelete, Delete, Reload, LoginDone,
         SetupBegin, ReadTarget, Login, OwnProfile, SetupEnd, Create, CheckUpdate, ghosts, OfPassword
  <2>3. \A i \in Ids : i < nextId => ~Exists(i)' \/ users'[i].pw = users[i].pw
    <3>1. OnRows
      BY <1>3, StepOnTable
    <3>2. CASE Keeps
      BY <3>2 DEF Keeps, table
    <3>3. ASSUME NEW k \in Ids, Drops(k)
          PROVE  \A i \in Ids : ~Exists(i)' \/ users'[i].pw = users[i].pw
      BY <3>3 DEF Drops, Exists, TableInv
    <3>4. ASSUME NEW k \in Ids, NEW row \in Row, Puts(k, row)
          PROVE  \A i \in Ids : users'[i].pw = users[i].pw
      BY <3>4 DEF Puts, Updated, TableInv, Row
    <3>5. ASSUME NEW e, NEW role, Adds(e, role)
          PROVE  \A i \in Ids : i < nextId => users'[i].pw = users[i].pw
      <4>1. /\ nextId \in Ids /\ nextId \in Nat
            /\ users' = [users EXCEPT ![nextId] = [email |-> e, role |-> role, pw |-> lastPw + 1]]
        BY <3>5 DEF Adds, CanInsert, Inserted, TableInv
      <4> QED BY <4>1 DEF TableInv
    <3> QED BY <3>1, <3>2, <3>3, <3>4, <3>5 DEF OnRows
  <2> QED BY <2>1, <2>2, <2>3
<1> QED BY <1>1, <1>2, <1>3 DEF OfPassword

LEMMA SessionKept ==
  ASSUME AccountsAssumption, AccountsInv, NEW r \in Reqs, Step(r), WorkInv'
  PROVE  SessionInv'
<1> USE DEF AccountsInv
<1> DEFINE t == work[r].target
<1>1. /\ cookies' = [q \in Web |-> cookies'[q]]
      /\ \A q \in Web : CookieKnown(cookies'[q]) /\ (cookies'[q] = NoCookie \/ cookies'[q].id \in Ids)
  <2>0. /\ cookies = [q \in Web |-> cookies[q]]
        /\ \A q \in Web : CookieKnown(cookies[q]) /\ (cookies[q] = NoCookie \/ cookies[q].id \in Ids)
    BY DEF SessionInv
  <2>1. ASSUME NEW c, cookies' = [cookies EXCEPT ![r] = c], CookieKnown(c), c = NoCookie \/ c.id \in Ids
        PROVE  /\ cookies' = [q \in Web |-> cookies'[q]]
               /\ \A q \in Web : CookieKnown(cookies'[q]) /\ (cookies'[q] = NoCookie \/ cookies'[q].id \in Ids)
    <3>1. \A q \in Web : cookies'[q] = IF q = r THEN c ELSE cookies[q]
      BY <2>0, <2>1
    <3>2. cookies' = [q \in Web |-> cookies'[q]]
      BY <2>0, <2>1
    <3> QED BY <2>0, <2>1, <3>1, <3>2
  <2>2. CASE Logout(r)
    <3>1. cookies' = [cookies EXCEPT ![r] = NoCookie]
      BY <2>2 DEF Logout
    <3>2. CookieKnown(NoCookie)
      BY DEF CookieKnown, NoCookie
    <3> QED BY <2>1, <3>1, <3>2
  <2>3. CASE Reload(r)
    <3> DEFINE c == Cookie(Read(t.id), t.row.pw, r \in crossed)
    <3>1. cookies' = IF Exists(t.id) THEN [cookies EXCEPT ![r] = c] ELSE cookies
      BY <2>3 DEF Reload
    <3>2. CASE ~Exists(t.id)
      BY <2>0, <3>1, <3>2
    <3>3. CASE Exists(t.id)
      <4>1. r \in crossed \/ users[t.id].pw = t.row.pw
        BY <2>3, <3>3 DEF Reload, SessionInv, Reloading
      <4>2. c.id = t.id /\ c.pw = users[t.id].pw /\ c.knows = t.row.pw /\ c.late = (r \in crossed)
        BY DEF Cookie, Read
      <4>3. t.id \in Ids
        BY <2>3 DEF Reload, At, WorkInv, Holds
      <4> HIDE DEF c
      <4> QED BY <2>1, <3>1, <3>3, <4>1, <4>2, <4>3 DEF CookieKnown
    <3> QED BY <3>2, <3>3
  <2>4. CASE LoginDone(r)
    <3> DEFINE c == Cookie(work[r].me, work[r].me.row.pw, FALSE)
    <3>1. cookies' = [cookies EXCEPT ![r] = c]
      BY <2>4 DEF LoginDone
    <3>2. CookieKnown(c) /\ c.id \in Ids
      BY <2>4 DEF CookieKnown, Cookie, LoginDone, At, WorkInv, Holds
    <3> HIDE DEF c
    <3> QED BY <2>1, <3>1, <3>2
  <2>5. ASSUME NEW e \in Emails \cup {NoEmail}, SetupEnd(r, e)
        PROVE  /\ cookies' = [q \in Web |-> cookies'[q]]
               /\ \A q \in Web : CookieKnown(cookies'[q]) /\ (cookies'[q] = NoCookie \/ cookies'[q].id \in Ids)
    <3> DEFINE c == [id |-> nextId, pw |-> lastPw + 1, knows |-> lastPw + 1, late |-> FALSE]
    <3>1. cookies' = [cookies EXCEPT ![r] = c] /\ nextId \in Ids
      BY <2>5 DEF SetupEnd, CanInsert
    <3>2. CookieKnown(c) /\ c.id \in Ids
      BY <3>1 DEF CookieKnown
    <3> HIDE DEF c
    <3> QED BY <2>1, <3>1, <3>2
  <2>6. CASE cookies' = cookies
    BY <2>0, <2>6
  <2> QED BY <2>2, <2>3, <2>4, <2>5, <2>6 DEF Step, Enter, GiveUp, Update, CheckDelete, Delete,
         SetPassword, SetOwnPassword, ChangePassword, SetupBegin, ReadTarget, Login, OwnProfile,
         Create, CheckUpdate
<1>2. ASSUME NEW q \in Reqs PROVE Reloading(q)'
  <2>1. SUFFICES ASSUME NEW i, i = work'[q].target.id, users'[i] # NoUser,
                        work'[q].at = "reload", q \notin crossed'
                 PROVE  users'[i].pw = work'[q].target.row.pw
    BY DEF Reloading, At, Exists
  <2>2. CASE /\ \A j \in Ids : j < nextId => ~Exists(j)' \/ users'[j].pw = users[j].pw
             /\ crossed \ {r} \subseteq crossed' /\ work'[r].at # "reload"
    <3>1. q # r
      BY <2>1, <2>2
    <3>2. work'[q] = work[q] /\ q \notin crossed
      BY <2>1, <2>2, <3>1, OthersWait
    <3>3. i \in Ids /\ i < nextId
      BY <2>1, <3>2 DEF WorkInv, Holds
    <3>4. users'[i].pw = users[i].pw
      BY <2>1, <2>2, <3>3 DEF Exists
    <3>5. Exists(i)
      <4>1. OnTable
        BY StepOnTable
      <4>2. ~Exists(i) => ~Exists(i)'
        BY <3>3, <4>1, TableKept
      <4> QED BY <2>1, <4>2 DEF Exists
    <3>6. users[i].pw = work[q].target.row.pw
      BY <2>1, <3>2, <3>5 DEF SessionInv, Reloading, At
    <3> QED BY <3>2, <3>4, <3>6
  <2>3. ASSUME NEW k \in Ids, Sets(k),
               crossed' = crossed \cup {p \in Reqs : At(p, "reload") /\ work[p].target.id = k},
               work'[r].at = "reload" => work'[r].target.id = k /\ work'[r].target.row.pw = lastPw + 1
        PROVE  users'[i].pw = work'[q].target.row.pw
    <3>1. CASE q = r
      <4>1. i = k /\ work'[q].target.row.pw = lastPw + 1
        BY <2>1, <2>3, <3>1
      <4>2. Exists(k)
        BY <2>1, <2>3, <4>1 DEF Sets, Exists
      <4>3. users' = [users EXCEPT ![k].pw = lastPw + 1]
        BY <2>3, <4>2 DEF Sets
      <4> QED BY <4>1, <4>3 DEF TableInv, Row
    <3>2. CASE q # r
      <4>1. work'[q] = work[q] /\ q \notin crossed
        BY <2>1, <2>3, <3>2, OthersWait
      <4>2. i \in Ids /\ i # k
        BY <2>1, <2>3, <4>1 DEF WorkInv, Holds, At
      <4>3. users'[i] = users[i]
        BY <2>3, <4>2 DEF Sets, TableInv
      <4>4. users[i].pw = work[q].target.row.pw
        BY <2>1, <4>1, <4>3 DEF SessionInv, Reloading, At, Exists
      <4> QED BY <4>1, <4>3, <4>4
    <3> QED BY <3>1, <3>2
  <2> QED BY <2>2, <2>3, PasswordMoves
<1> QED BY <1>1, <1>2 DEF SessionInv

-----------------------------------------------------------------------------
(* Who is an administrator.                                                 *)

\* What a step does to the administrators: none changes, or every other
\* request that works with one counts as stale.
LEMMA AdminMoves ==
  ASSUME AccountsAssumption, AccountsInv, NEW r \in Reqs, Step(r)
  PROVE  \/ Admins(users') = Admins(users) /\ stale \ {r} \subseteq stale'
         \/ stale' = (stale \cup {q \in Reqs : work[q].at \in {"target", "update", "delete"}}) \ {r}
<1>1. ASSUME NEW t, Writes(r, t)
      PROVE  \/ Admins(users') = Admins(users) /\ stale \ {r} \subseteq stale'
             \/ stale' = (stale \cup {q \in Reqs : work[q].at \in {"target", "update", "delete"}}) \ {r}
  <2>1. /\ users' = t
        /\ stale' = (IF Admins(t) = Admins(users) THEN stale
                     ELSE stale \cup {q \in Reqs : work[q].at \in {"target", "update", "delete"}}) \ {r}
    BY <1>1 DEF Writes
  <2> QED BY <2>1
<1>2. CASE \/ Update(r) \/ Delete(r)
           \/ \E e \in Emails \cup {NoEmail} : \/ OwnProfile(r, e) \/ SetupEnd(r, e)
                                              \/ \E role \in Roles : Create(r, e, role)
  <2>1. \E t : Writes(r, t)
    BY <1>2 DEF Update, Delete, OwnProfile, SetupEnd, Create
  <2> QED BY <1>1, <2>1
<1>3. CASE OfPassword(r)
  <2>1. PICK k \in Ids : Sets(k)
    <3>1. SetPassword(r) => work[r].target.id \in Ids /\ Sets(work[r].target.id)
      BY DEF SetPassword, ChangePassword, Sets, At, AccountsInv, WorkInv, Holds
    <3>2. SetOwnPassword(r) => work[r].me.id \in Ids /\ Sets(work[r].me.id)
      BY DEF SetOwnPassword, ChangePassword, Sets, At, AccountsInv, WorkInv, Holds
    <3> QED BY <1>3, <3>1, <3>2 DEF OfPassword
  <2>2. \A i \in Ids : users'[i].role = users[i].role
    BY <2>1 DEF Sets, AccountsInv, TableInv, Row
  <2>3. Admins(users') = Admins(users)
    BY <2>2 DEF Admins
  <2>4. stale \ {r} \subseteq stale'
    BY <1>3 DEF OfPassword, SetPassword, SetOwnPassword
  <2> QED BY <2>3, <2>4
<1>4. CASE \/ Enter(r) \/ Logout(r) \/ GiveUp(r) \/ CheckDelete(r) \/ Reload(r) \/ LoginDone(r)
           \/ SetupBegin(r) \/ \E i \in Ids : ReadTarget(r, i) \/ Login(r, i)
           \/ \E e \in Emails \cup {NoEmail}, role \in Roles : CheckUpdate(r, e, role)
  <2>1. users' = users /\ stale \ {r} \subseteq stale'
    BY <1>4 DEF Enter, Logout, GiveUp, Ends, CheckDelete, Reload, LoginDone, SetupBegin, ReadTarget,
                Login, CheckUpdate, table, ghosts
  <2> QED BY <2>1
<1> QED BY <1>2, <1>3, <1>4 DEF Step, OfPassword

LEMMA SeenKept ==
  ASSUME AccountsAssumption, AccountsInv, NEW r \in Reqs, Step(r)
  PROVE  SeenInv'
<1> USE DEF AccountsInv
<1>1. ASSUME NEW q \in Reqs, q # r PROVE Seen(q)'
  <2>1. work'[q] = work[q] /\ Seen(q)
    BY <1>1, OthersWait DEF SeenInv
  <2>2. CASE Admins(users') = Admins(users) /\ stale \ {r} \subseteq stale'
    <3>1. q \notin stale' => q \notin stale
      BY <1>1, <2>2
    <3> QED BY <2>1, <2>2, <3>1 DEF Seen, Others
  <2>3. CASE stale' = (stale \cup {p \in Reqs : work[p].at \in {"target", "update", "delete"}}) \ {r}
    <3>1. q \notin stale' => work'[q].at \notin {"target", "update", "delete"}
      BY <1>1, <2>1, <2>3
    <3> QED BY <3>1 DEF Seen
  <2> QED BY <2>2, <2>3, AdminMoves
<1>2. Seen(r)'
  <2>1. ASSUME NEW i \in Ids, ReadTarget(r, i) PROVE Seen(r)'
    <3>1. /\ work'[r].at = "target" /\ work'[r].target = Target(r, i) /\ users' = users
      BY <2>1, GoesTo DEF ReadTarget, table
    <3>2. Target(r, i).id = i /\ Target(r, i).row.role = users[i].role
      BY DEF Target, TableInv, Row
    <3>3. (users[i].role = "admin") <=> (i \in Admins(users))
      BY DEF Admins
    <3> QED BY <3>1, <3>2, <3>3 DEF Seen
  <2>2. ASSUME NEW e \in Emails \cup {NoEmail}, NEW role \in Roles, CheckUpdate(r, e, role) PROVE Seen(r)'
    <3>1. /\ work'[r].at = "update" /\ work'[r].target = work[r].target /\ work'[r].new.role = role
          /\ users' = users /\ stale' = stale
      BY <2>2, GoesTo DEF CheckUpdate, table, ghosts
    <3>2. work[r].at = "target" /\ (role # "admin" => Others(r))
      BY <2>2 DEF CheckUpdate, At, NotLast, Others
    <3>3. Seen(r)
      BY DEF SeenInv
    <3> QED BY <3>1, <3>2, <3>3 DEF Seen, Others
  <2>3. CASE CheckDelete(r)
    <3>1. /\ work'[r].at = "delete" /\ work'[r].target = work[r].target
          /\ users' = users /\ stale' = stale
      BY <2>3, GoesTo DEF CheckDelete, table, ghosts
    <3>2. work[r].at = "target" /\ Others(r)
      BY <2>3 DEF CheckDelete, At, NotLast, Others
    <3>3. Seen(r)
      BY DEF SeenInv
    <3> QED BY <3>1, <3>2, <3>3 DEF Seen, Others
  <2>4. CASE /\ ~CheckDelete(r) /\ \A i \in Ids : ~ReadTarget(r, i)
             /\ \A e \in Emails \cup {NoEmail}, role \in Roles : ~CheckUpdate(r, e, role)
    <3>1. work'[r].at \in {"idle", "in", "login", "reload", "setup"}
      BY <2>4, GoesTo DEF Step
    <3> QED BY <3>1 DEF Seen
  <2> QED BY <2>1, <2>2, <2>3, <2>4
<1> QED BY <1>1, <1>2 DEF SeenInv

-----------------------------------------------------------------------------
(* The theorems.                                                            *)

LEMMA AccountsStart ==
  ASSUME AccountsAssumption, Init
  PROVE  AccountsInv
<1> USE DEF Init
<1>0. 1 \in Ids /\ 2 \in Ids /\ \A i \in Ids : i \in Nat /\ i >= 1
  BY DEF AccountsAssumption
<1>1. TableInv
  <2>1. CASE Fresh
    BY <1>0, <2>1 DEF Fresh, TableInv, NoUser, Row, EmailsUnique
  <2>2. CASE Running
    <3>1. users \in [Ids -> Row]
      BY <1>0, <2>2 DEF Running, NoUser, Row, Roles
    <3>2. \A i \in Ids : users[i].email = NoEmail
      BY <2>2 DEF Running, NoUser
    <3>3. \A i \in Ids : i >= 3 => users[i] = NoUser
      BY <1>0, <2>2 DEF Running
    <3> QED BY <2>2, <3>1, <3>2, <3>3 DEF Running, TableInv, EmailsUnique
  <2> QED BY <2>1, <2>2
<1>2. WorkInv
  <2>1. nextId > 0
    BY DEF Fresh, Running
  <2>2. NoUser \in Row /\ None \in Held
    BY DEF NoUser, Row, None, Held
  <2>3. ASSUME NEW r \in Reqs PROVE Holds(r)
    BY <2>1, <2>2 DEF Holds, Nothing, Places, None
  <2> QED BY <2>3 DEF WorkInv
<1>3. SetupInv
  BY DEF SetupInv, At, Nothing, AccountsAssumption
<1>4. SessionInv
  <2>1. /\ cookies = [r \in Web |-> cookies[r]]
        /\ \A r \in Web : CookieKnown(cookies[r]) /\ (cookies[r] = NoCookie \/ cookies[r].id \in Ids)
    <3>1. CASE Fresh
      BY <3>1 DEF Fresh, NoCookie, CookieKnown
    <3>2. CASE Running
      BY <1>0, <3>2 DEF Running, CookieKnown
    <3> QED BY <3>1, <3>2
  <2>2. \A r \in Reqs : Reloading(r)
    BY DEF Reloading, At, Nothing
  <2> QED BY <2>1, <2>2 DEF SessionInv
<1>5. SeenInv
  BY DEF SeenInv, Seen, Nothing
<1> QED BY <1>1, <1>2, <1>3, <1>4, <1>5 DEF AccountsInv

LEMMA AccountsStep ==
  ASSUME AccountsAssumption, AccountsInv, [Next]_vars
  PROVE  AccountsInv'
<1>1. ASSUME NEW r \in Reqs, Step(r) PROVE AccountsInv'
  <2>1. OnTable
    BY <1>1, StepOnTable
  <2>2. /\ TableInv' /\ nextId' >= nextId
        /\ \A i \in Ids : i < nextId /\ ~Exists(i) => ~Exists(i)'
    BY <2>1, TableKept DEF AccountsInv
  <2>3. WorkInv'
    BY <1>1, <2>2, WorkKept
  <2>4. SetupInv'
    BY <1>1, <2>2, SetupKept
  <2>5. SessionInv'
    BY <1>1, <2>3, SessionKept
  <2>6. SeenInv'
    BY <1>1, SeenKept
  <2> QED BY <2>2, <2>3, <2>4, <2>5, <2>6 DEF AccountsInv
<1>2. CASE UNCHANGED vars
  BY <1>2 DEF vars, table, ghosts, AccountsInv, TableInv, WorkInv, SetupInv, SessionInv, SeenInv,
              EmailsUnique, Holds, Exists, At, Reloading, CookieKnown, Seen, Others
<1> QED BY <1>1, <1>2 DEF Next

\* The invariant above holds of every behaviour.
THEOREM AccountsHold == Spec => []AccountsInv
<1>1. Init => AccountsInv
  BY AccountsStart, AccountsAssumption
<1>2. AccountsInv /\ [Next]_vars => AccountsInv'
  BY AccountsStep, AccountsAssumption
<1> QED BY <1>1, <1>2, PTL DEF Spec

\* However requests and commands cross, no two users share a mail address and
\* the setup screen leaves one administrator (InsertUser, UpdateUserProfile,
\* handleSetup).
THEOREM UsersStayDistinct == Spec => []UsersDistinct
<1>1. ASSUME AccountsInv PROVE UsersDistinct
  <2> DEFINE F == {i \in founders : Exists(i)}
  <2>1. EmailsUnique
    BY <1>1 DEF AccountsInv, TableInv
  <2>2. \A i, j \in F : i = j
    BY <1>1 DEF AccountsInv, SetupInv
  <2>3. F = {} \/ \E i : F = {i}
    BY <2>2
  <2> HIDE DEF F
  <2>4. Cardinality(F) \in {0, 1}
    BY <2>3, FS_EmptySet, FS_Singleton
  <2>5. Cardinality(F) <= 1
    BY <2>4
  <2> QED BY <2>1, <2>5 DEF UsersDistinct, OneFounder, F
<1>2. AccountsInv => UsersDistinct
  BY <1>1
<1> QED BY <1>2, AccountsHold, PTL

\* A session that is accepted belongs to someone who knows the password in
\* force (ValidateSessionCookie), unless two changes of it crossed.
THEOREM SessionsEndWithPassword == Spec => []SessionsEnd
<1>1. AccountsInv => SessionsEnd
  BY DEF AccountsInv, SessionInv, SessionsEnd, CookieKnown, Valid
<1> QED BY <1>1, AccountsHold, PTL

\* The last administrator is removed only by a request that had read the
\* administrators before another one changed who they are (isLastAdmin).
THEOREM LastAdminStays == Spec => LastAdminOnlyByRace
<1> DEFINE A == Admins(users) # {} /\ Admins(users') = {} =>
                  \E r \in stale : work[r] # Nothing /\ work'[r] = Nothing
<1>1. ASSUME AccountsInv, [Next]_vars PROVE [A]_vars
  <2> USE DEF AccountsInv
  <2>1. SUFFICES ASSUME Admins(users) # {}, Admins(users') = {}
                 PROVE  \E r \in stale : work[r] # Nothing /\ work'[r] = Nothing
    OBVIOUS
  <2>2. PICK r \in Reqs : Step(r)
    BY <1>1, <2>1 DEF Next, vars, table
  <2>3. PICK a \in Ids : users[a].role = "admin" /\ users'[a].role # "admin"
    BY <2>1 DEF Admins
  <2>4. CASE OfPassword(r)
    <3>1. PICK k \in Ids : Sets(k)
      <4>1. SetPassword(r) => work[r].target.id \in Ids /\ Sets(work[r].target.id)
        BY <1>1 DEF SetPassword, ChangePassword, Sets, At, WorkInv, Holds
      <4>2. SetOwnPassword(r) => work[r].me.id \in Ids /\ Sets(work[r].me.id)
        BY <1>1 DEF SetOwnPassword, ChangePassword, Sets, At, WorkInv, Holds
      <4> QED BY <2>4, <4>1, <4>2 DEF OfPassword
    <3> QED BY <1>1, <2>3, <3>1 DEF Sets, TableInv, Row
  <2>5. CASE Update(r)
    <3> DEFINE t == work[r].target.id
               new == work[r].new
    <3>1. /\ users' = Updated(t, new) /\ t \in Ids /\ At(r, "update") /\ work'[r] = Nothing
      BY <1>1, <2>5 DEF Update, Writes, At, Does, WorkInv, Holds
    <3> HIDE DEF t, new
    <3>2. users' = [users EXCEPT ![t].email = new.email, ![t].role = new.role]
      BY <2>3, <3>1 DEF Updated
    <3>3. /\ \A i \in Ids : i # t => users'[i] = users[i]
          /\ users'[t].role = new.role
      BY <1>1, <3>1, <3>2 DEF TableInv, Row
    <3>4. a = t /\ new.role # "admin"
      BY <2>1, <2>3, <3>1, <3>3 DEF Admins
    <3>5. Admins(users) = {t}
      BY <2>1, <2>3, <3>1, <3>3, <3>4 DEF Admins
    <3>6. Cardinality(Admins(users)) = 1
      BY <3>5, FS_Singleton
    <3>7. r \in stale
      <4>1. Seen(r)
        BY <1>1 DEF SeenInv
      <4> QED BY <3>1, <3>4, <3>5, <3>6, <4>1 DEF Seen, Others, At, t, new
    <3> QED BY <3>1, <3>7 DEF At, Nothing
  <2>6. CASE Delete(r)
    <3> DEFINE t == work[r].target.id
    <3>1. /\ users' = [users EXCEPT ![t] = NoUser] /\ t \in Ids /\ At(r, "delete") /\ work'[r] = Nothing
      BY <1>1, <2>6 DEF Delete, Writes, At, Does, WorkInv, Holds
    <3> HIDE DEF t
    <3>2. Admins(users) = {t}
      BY <1>1, <2>1, <2>3, <3>1 DEF Admins, TableInv
    <3>3. Cardinality(Admins(users)) = 1
      BY <3>2, FS_Singleton
    <3>4. r \in stale
      <4>1. Seen(r)
        BY <1>1 DEF SeenInv
      <4> QED BY <3>1, <3>2, <3>3, <4>1 DEF Seen, Others, At, t
    <3> QED BY <3>1, <3>4 DEF At, Nothing
  <2>7. ASSUME NEW e \in Emails \cup {NoEmail}, OwnProfile(r, e) PROVE FALSE
    <3> DEFINE i == IF Console(r) THEN work[r].target.id ELSE work[r].me.id
               row == [users[i] EXCEPT !.email = e]
    <3>1. users' = Updated(i, row) /\ i \in Ids
      BY <1>1, <2>7 DEF OwnProfile, Writes, At, WorkInv, Holds
    <3>2. row.role = users[i].role
      BY <1>1, <3>1 DEF TableInv, Row
    <3> HIDE DEF i, row
    <3> QED BY <1>1, <2>3, <3>1, <3>2 DEF Updated, TableInv, Row
  <2>8. ASSUME NEW e, NEW role, CanInsert(e), users' = Inserted(e, role) PROVE FALSE
    <3>1. nextId \in Ids /\ users[nextId] = NoUser /\ \A i \in Ids : i # nextId => users'[i] = users[i]
      BY <1>1, <2>8 DEF CanInsert, Inserted, TableInv
    <3> QED BY <2>3, <3>1 DEF NoUser
  <2>9. CASE \E e \in Emails \cup {NoEmail} : SetupEnd(r, e) \/ \E role \in Roles : Create(r, e, role)
    BY <2>8, <2>9 DEF SetupEnd, Create, Writes
  <2>10. CASE users' = users
    BY <2>1, <2>10
  <2> QED BY <2>2, <2>4, <2>5, <2>6, <2>7, <2>9, <2>10 DEF Step, OfPassword, Enter, Logout, GiveUp,
       CheckDelete, Reload, LoginDone, SetupBegin, ReadTarget, Login, CheckUpdate, table
<1> HIDE DEF A
<1>2. AccountsInv /\ [Next]_vars => [A]_vars
  BY <1>1
<1>3. Spec => [][A]_vars
  BY <1>2, AccountsHold, PTL DEF Spec
<1> QED BY <1>3 DEF LastAdminOnlyByRace, A

-----------------------------------------------------------------------------
(* The login limiter, which shares nothing with the accounts: no wait is cut *)
(* short, for any clients, times, bounds and numbers of attempts in flight.  *)
(* The comment of pruneLocked gives the reason for the pruning: the time to  *)
(* live exceeds the longest wait.  The invariant adds what that needs: a     *)
(* wait lasts at most LockMax from the last failure, and only a record past  *)
(* the threshold has one.                                                    *)

\* One record at time t.
Sound(r, t) ==
  /\ r.lock <= LockMax /\ r.seen <= t /\ r.until <= r.seen + r.lock
  /\ r.until > 0 => r.failures >= BeforeLock

LimiterInv == LimiterTypeOK /\ \A k \in Keys : Sound(records[k], now)

Record == [failures : Nat, lock : Nat, until : Nat, seen : Nat]

-----------------------------------------------------------------------------
\* The wait that follows a wait is no shorter, and none exceeds the maximum.
LEMMA NextLockGrows ==
  ASSUME NEW l \in Nat, l <= LockMax
  PROVE  NextLock(l) \in Nat /\ NextLock(l) >= l /\ NextLock(l) <= LockMax
BY LimiterAssumption DEF NextLock

\* A failure keeps a record sound and does not shorten a wait in force.
LEMMA FailedSound ==
  ASSUME LimiterTypeOK, NEW r \in Record, Sound(r, now)
  PROVE  /\ Failed(r) \in Record /\ Sound(Failed(r), now)
         /\ r.until > now => Failed(r).until >= r.until
<1>1. r.failures \in Nat /\ r.lock \in Nat /\ r.until \in Nat /\ r.seen \in Nat /\ now \in Nat
  BY DEF Record, LimiterTypeOK
<1>2. NextLock(r.lock) \in Nat /\ NextLock(r.lock) >= r.lock /\ NextLock(r.lock) <= LockMax
  BY <1>1, NextLockGrows DEF Sound
<1>3. BeforeLock \in Nat \ {0}
  BY LimiterAssumption
<1>4. CASE r.failures + 1 < BeforeLock
  <2>1. /\ Failed(r).failures = r.failures + 1 /\ Failed(r).lock = r.lock
        /\ Failed(r).seen = now /\ Failed(r).until = 0
    BY <1>4 DEF Failed
  <2>2. Failed(r) \in Record
    BY <1>1, <1>4 DEF Failed, Record
  <2>3. QED
    BY <1>1, <1>3, <1>4, <2>1, <2>2 DEF Sound
<1>5. CASE ~(r.failures + 1 < BeforeLock)
  <2>1. /\ Failed(r).failures = r.failures + 1 /\ Failed(r).lock = NextLock(r.lock)
        /\ Failed(r).seen = now /\ Failed(r).until = now + NextLock(r.lock)
    BY <1>5 DEF Failed
  <2>2. Failed(r) \in Record
    BY <1>1, <1>2, <1>5 DEF Failed, Record
  <2>3. QED
    BY <1>1, <1>2, <1>3, <1>5, <2>1, <2>2 DEF Sound
<1>6. QED
  BY <1>4, <1>5

\* Pruning keeps records sound and every wait in force.
LEMMA PrunedSound ==
  ASSUME LimiterInv, NEW k \in Keys
  PROVE  /\ Pruned(records)[k] \in Record /\ Sound(Pruned(records)[k], now)
         /\ Blocked(k) => Pruned(records)[k] = records[k]
<1>1. records[k] \in Record /\ Sound(records[k], now) /\ now \in Nat
  BY DEF LimiterInv, LimiterTypeOK, Record
<1>2. NoRecord \in Record /\ Sound(NoRecord, now)
  BY <1>1, LimiterAssumption DEF NoRecord, Record, Sound
<1>3. Pruned(records)[k] = IF records[k].seen + TTL < now THEN NoRecord ELSE records[k]
  BY DEF Pruned
<1>4. Blocked(k) => ~(records[k].seen + TTL < now)
  BY <1>1, LimiterAssumption DEF Blocked, Sound, Record
<1>5. QED
  BY <1>1, <1>2, <1>3, <1>4

-----------------------------------------------------------------------------
LEMMA LimiterStarts == LimiterInit => LimiterInv
BY LimiterAssumption DEF LimiterInit, LimiterInv, LimiterTypeOK, NoRecord, Sound

\* What a failure leaves of every record.
LEMMA FailStep ==
  ASSUME LimiterInv, NEW j \in Keys, Fail(j)
  PROVE  /\ records' \in [Keys -> Record] /\ ops' \in 0 .. PruneEvery - 1
         /\ \A k \in Keys : /\ Sound(records'[k], now)
                            /\ Blocked(k) => records'[k].until >= records[k].until
<1> DEFINE recs == IF ops' = 0 THEN Pruned(records) ELSE records
<1>1. records' = [recs EXCEPT ![j] = Failed(recs[j])]
  BY DEF Fail
<1>2. ops' \in 0 .. PruneEvery - 1
  BY LimiterAssumption DEF Fail, LimiterInv, LimiterTypeOK
<1>3. \A k \in Keys : /\ recs[k] \in Record /\ Sound(recs[k], now)
                      /\ Blocked(k) => recs[k] = records[k]
  BY PrunedSound DEF LimiterInv, LimiterTypeOK, Record
<1>4. recs \in [Keys -> Record]
  BY <1>3 DEF Pruned, LimiterInv, LimiterTypeOK, Record
<1>5. Failed(recs[j]) \in Record /\ Sound(Failed(recs[j]), now)
      /\ (recs[j].until > now => Failed(recs[j]).until >= recs[j].until)
  BY <1>3, FailedSound DEF LimiterInv
<1>6. records' \in [Keys -> Record]
  BY <1>1, <1>4, <1>5
<1>7. ASSUME NEW k \in Keys
      PROVE  /\ Sound(records'[k], now)
             /\ Blocked(k) => records'[k].until >= records[k].until
  <2>1. CASE k = j
    <3>1. records'[k] = Failed(recs[j])
      BY <1>1, <1>4, <2>1
    <3>2. QED
      BY <1>3, <1>5, <2>1, <3>1 DEF Blocked
  <2>2. CASE k # j
    <3>1. records'[k] = recs[k]
      BY <1>1, <1>4, <2>2
    <3>2. records[k].until \in Nat
      BY DEF LimiterInv, LimiterTypeOK
    <3>3. QED
      BY <1>3, <3>1, <3>2
  <2>3. QED
    BY <2>1, <2>2
<1>8. QED
  BY <1>2, <1>6, <1>7

\* Every step keeps the invariant.
LEMMA LimiterSteps == LimiterInv /\ [LimiterNext]_limiterVars => LimiterInv'
<1> SUFFICES ASSUME LimiterInv, [LimiterNext]_limiterVars PROVE LimiterInv'
  OBVIOUS
<1> USE DEF LimiterInv
<1>1. CASE Pass
  <2>1. now' \in Nat /\ now' >= now /\ records' = records /\ ops' = ops /\ checking' = checking
    BY <1>1 DEF Pass, LimiterTypeOK
  <2>2. \A k \in Keys : Sound(records[k], now')
    BY <2>1 DEF LimiterTypeOK, Sound
  <2>3. QED
    BY <2>1, <2>2 DEF LimiterTypeOK
<1>2. ASSUME NEW j \in Keys, Admit(j) PROVE LimiterInv'
  BY <1>2 DEF Admit, LimiterTypeOK, Sound
<1>3. ASSUME NEW j \in Keys, Fail(j) PROVE LimiterInv'
  <2>1. now' = now /\ checking' \in [Keys -> Nat]
    BY <1>3 DEF Fail, LimiterTypeOK
  <2>2. QED
    BY <1>3, <2>1, FailStep DEF LimiterTypeOK, Record
<1>4. ASSUME NEW j \in Keys, Succeed(j) PROVE LimiterInv'
  <2>1. now' = now /\ ops' = ops /\ checking' \in [Keys -> Nat]
    BY <1>4 DEF Succeed, LimiterTypeOK
  <2>2. NoRecord \in Record /\ Sound(NoRecord, now)
    BY LimiterAssumption DEF NoRecord, Record, Sound, LimiterTypeOK
  <2>3. records' \in [Keys -> Record]
    BY <1>4, <2>2 DEF Succeed, LimiterTypeOK, Record
  <2>4. \A k \in Keys : Sound(records'[k], now)
    BY <1>4, <2>2 DEF Succeed, LimiterTypeOK
  <2>5. QED
    BY <2>1, <2>3, <2>4 DEF LimiterTypeOK, Record
<1>5. ASSUME NEW j \in Keys, Abandon(j) PROVE LimiterInv'
  BY <1>5 DEF Abandon, LimiterTypeOK, Sound
<1>6. CASE UNCHANGED limiterVars
  BY <1>6 DEF limiterVars, LimiterTypeOK, Sound
<1>7. QED
  BY <1>1, <1>2, <1>3, <1>4, <1>5, <1>6 DEF LimiterNext

\* Every step keeps the waits in force.
LEMMA KeepsWaits ==
  LimiterInv /\ [LimiterNext]_limiterVars =>
           [\A k \in Keys : Blocked(k) => records'[k].until >= records[k].until \/ Succeed(k)]_limiterVars
<1> SUFFICES ASSUME LimiterInv, LimiterNext, NEW k \in Keys, Blocked(k), ~Succeed(k)
             PROVE  records'[k].until >= records[k].until
  OBVIOUS
<1>1. records[k].until \in Nat
  BY DEF LimiterInv, LimiterTypeOK
<1>2. CASE Pass \/ \E j \in Keys : Admit(j) \/ Abandon(j)
  BY <1>1, <1>2 DEF Pass, Admit, Abandon
<1>3. ASSUME NEW j \in Keys, Fail(j) PROVE records'[k].until >= records[k].until
  BY <1>3, FailStep
<1>4. ASSUME NEW j \in Keys, Succeed(j) PROVE records'[k].until >= records[k].until
  <2>1. j # k
    BY <1>4
  <2>2. records'[k] = records[k]
    BY <1>4, <2>1 DEF Succeed, LimiterInv, LimiterTypeOK
  <2>3. QED
    BY <1>1, <2>2
<1>5. QED
  BY <1>2, <1>3, <1>4 DEF LimiterNext

\* A wait that follows failed logins is served in full: neither a late
\* failure nor the pruning of pruneLocked ends it, only a successful login.
THEOREM WaitsAreServed == LimiterSpec => WaitKept
<1>1. LimiterInit => LimiterInv
  BY LimiterStarts
<1>2. LimiterInv /\ [LimiterNext]_limiterVars => LimiterInv'
  BY LimiterSteps
<1>3. LimiterInv /\ [LimiterNext]_limiterVars =>
        [\A k \in Keys : Blocked(k) => records'[k].until >= records[k].until \/ Succeed(k)]_limiterVars
  BY KeepsWaits
<1>4. QED
  BY <1>1, <1>2, <1>3, PTL DEF LimiterSpec, WaitKept
=============================================================================
