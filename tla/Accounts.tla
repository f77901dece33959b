------------------------------ MODULE Accounts ------------------------------
(* The users of the Web screens and their sessions: handlers_users.go,       *)
(* handlers_auth.go, the user commands (cli_user.go), models/user.go and     *)
(* session.go.  A request works with the rows it read: the caller's when it  *)
(* is let in, the target's before it is checked; each statement on the table *)
(* is a step of its own.  A session lives in its cookie only, which names    *)
(* the user and the password in force.  The mail address stands for every    *)
(* field of the profile; names, which never change, are left out.            *)
EXTENDS Naturals, FiniteSets

CONSTANTS
  Ids,             \* 1, 2 and so on: AUTOINCREMENT, an id is never used again
  Emails, NoEmail,
  Web, Cli,        \* requests of browsers, commands of terminals
  NoOne,           \* the mutex of the setup is free
  MaxPasswords,    \* bound on the passwords ever set
  MaxBusy          \* bound on the requests and commands at work at once

Reqs == Web \cup Cli
ASSUME AccountsAssumption ==
  /\ Ids \subseteq Nat \ {0} /\ {1, 2} \subseteq Ids
  /\ NoEmail \notin Emails /\ Web \cap Cli = {} /\ NoOne \notin Reqs

NoUser == [email |-> NoEmail, role |-> "none", pw |-> 0]
Roles == {"admin", "user"}

VARIABLES
  users,           \* the table: id -> row, NoUser for none
  nextId,          \* the next id
  lastPw,          \* passwords set so far; a password is their number
  cookies,         \* the session cookie of every browser
  setupMu,         \* the request that holds setupMu
  work             \* request -> what it is doing, with the rows it read

\* What only the properties read.
VARIABLES
  founders,        \* users created by the setup screen
  stale,           \* requests that saw other administrators than there are
  crossed          \* requests whose new password was replaced before they answered

ghosts == <<founders, stale, crossed>>
table == <<users, nextId, lastPw>>
vars == <<table, cookies, setupMu, work, ghosts>>

None == [id |-> 0, row |-> NoUser]
NoCookie == [id |-> 0, pw |-> 0, knows |-> 0, late |-> FALSE]
Nothing == [at |-> "idle", me |-> None, target |-> None, new |-> NoUser]
Console(r) == r \in Cli
Exists(i) == users[i] # NoUser
Read(i) == [id |-> i, row |-> users[i]]
\* What a handler uses of the caller; what an administrator's request uses
\* of its target: a command writes the address back as it was read.
Caller(i) == [id |-> i, row |-> [users[i] EXCEPT !.email = NoEmail, !.pw = 0]]
Target(r, i) ==
  [id |-> i, row |-> [users[i] EXCEPT !.email = IF Console(r) THEN @ ELSE NoEmail, !.pw = 0]]
Admins(t) == {i \in Ids : t[i].role = "admin"}

\* No users yet, or two administrators one signed in.
Fresh ==
  /\ users = [i \in Ids |-> NoUser] /\ nextId = 1 /\ lastPw = 2 /\ cookies = [r \in Web |-> NoCookie]
Running ==
  /\ users = [i \in Ids |->
       IF i <= 2 THEN [email |-> NoEmail, role |-> "admin", pw |-> i] ELSE NoUser]
  /\ nextId = 3 /\ lastPw = 2
  /\ cookies = [r \in Web |-> [id |-> 1, pw |-> 1, knows |-> 1, late |-> FALSE]]
Init ==
  /\ Fresh \/ Running
  /\ setupMu = NoOne /\ work = [r \in Reqs |-> Nothing]
  /\ founders = {} /\ stale = {} /\ crossed = {}

-----------------------------------------------------------------------------
(* Helpers.                                                                *)

Does(r, step) == work' = [work EXCEPT ![r] = step]
At(r, pc) == work[r].at = pc
CanCome(r) == At(r, "idle") /\ Cardinality({q \in Reqs : ~At(q, "idle")}) < MaxBusy
\* requireAdmin; a command is the administrator's.
Ready(r) == IF Console(r) THEN CanCome(r) ELSE At(r, "in") /\ work[r].me.row.role = "admin"
Ends(r) == Does(r, Nothing) /\ stale' = stale \ {r} /\ crossed' = crossed \ {r}

\* The request writes the table and ends; whoever works with rows read
\* before saw other administrators when their set changes.
Writes(r, t) ==
  /\ users' = t
  /\ stale' = (IF Admins(t) = Admins(users) THEN stale
               ELSE stale \cup {q \in Reqs : work[q].at \in {"target", "update", "delete"}}) \ {r}

EmailFree(i, e) == \A j \in Ids \ {i} : users[j].email # e

\* The table is not asked again.
M_EmailAllowed(i, e) == TRUE

\* The condition in the UPDATE statements.
EmailAllowed(i, e) == users[i].email = e \/ e = NoEmail \/ EmailFree(i, e)

\* UPDATE ... WHERE id: nothing when the user is gone or the address taken.
Updated(i, row) ==
  IF Exists(i) /\ EmailAllowed(i, row.email)
  THEN [users EXCEPT ![i].email = row.email, ![i].role = row.role] ELSE users

\* InsertUser refuses an address another user has.
CanInsert(e) ==
  nextId \in Ids /\ lastPw < MaxPasswords /\ (e = NoEmail \/ EmailFree(0, e))
Inserted(e, role) == [users EXCEPT ![nextId] = [email |-> e, role |-> role, pw |-> lastPw + 1]]

\* Without the fingerprint of the password.
M_Valid(c) == c # NoCookie /\ Exists(c.id)

\* ValidateSessionCookie: the user exists and has the password of the cookie.
Valid(c) == c # NoCookie /\ Exists(c.id) /\ users[c.id].pw = c.pw

\* IssueSessionCookie.  `knows` is the password its holder gave or set.
Cookie(read, knows, late) == [id |-> read.id, pw |-> read.row.pw, knows |-> knows, late |-> late]

M_NotLast(row) == TRUE

\* isLastAdmin, and the same check of the commands.
NotLast(row) == row.role # "admin" \/ Cardinality(Admins(users)) > 1

-----------------------------------------------------------------------------
(* A request comes in.                                                     *)

\* webMiddleware: the session is valid; the handler gets the user as read.
Enter(r) ==
  /\ r \in Web /\ CanCome(r)
  /\ Valid(cookies[r]) /\ Does(r, [Nothing EXCEPT !.at = "in", !.me = Caller(cookies[r].id)])
  /\ UNCHANGED <<table, cookies, setupMu, ghosts>>

\* handleLogout, or the cookie expires.
Logout(r) ==
  /\ r \in Web /\ At(r, "idle") /\ cookies' = [cookies EXCEPT ![r] = NoCookie]
  /\ UNCHANGED <<table, setupMu, work, ghosts>>

\* The request is refused or fails, its client goes, or the process dies.
GiveUp(r) ==
  /\ ~At(r, "idle") /\ Ends(r)
  /\ setupMu' = IF setupMu = r THEN NoOne ELSE setupMu
  /\ UNCHANGED <<table, cookies, founders>>

-----------------------------------------------------------------------------
(* Administrators change users: handlers and commands.                     *)

\* userFromPath, findUser.
ReadTarget(r, i) ==
  /\ Ready(r) /\ Exists(i)
  /\ Does(r, [work[r] EXCEPT !.at = "target", !.target = Target(r, i)])
  /\ UNCHANGED <<table, cookies, setupMu, ghosts>>

\* handleUpdateUser and UserRoleCmd up to the write: fields not given keep
\* the values read.
CheckUpdate(r, email, role) ==
  /\ At(r, "target")
  /\ role # "admin" => NotLast(work[r].target.row)
  /\ Console(r) => email = work[r].target.row.email
  /\ Does(r, [work[r] EXCEPT !.at = "update", !.new.email = email, !.new.role = role])
  /\ UNCHANGED <<table, cookies, setupMu, ghosts>>

Update(r) ==
  /\ At(r, "update") /\ Writes(r, Updated(work[r].target.id, work[r].new))
  /\ Does(r, Nothing) /\ UNCHANGED <<nextId, lastPw, cookies, setupMu, founders, crossed>>

\* handleDeleteUser (not oneself) and UserDeleteCmd, which asks before it
\* deletes.
CheckDelete(r) ==
  /\ At(r, "target") /\ NotLast(work[r].target.row)
  /\ work[r].target.id # work[r].me.id
  /\ Does(r, [work[r] EXCEPT !.at = "delete"])
  /\ UNCHANGED <<table, cookies, setupMu, ghosts>>

Delete(r) ==
  /\ At(r, "delete") /\ Writes(r, [users EXCEPT ![work[r].target.id] = NoUser])
  /\ Does(r, Nothing) /\ UNCHANGED <<nextId, lastPw, cookies, setupMu, founders, crossed>>

\* handleCreateUser, UserCreateCmd.
Create(r, email, role) ==
  /\ Ready(r) /\ CanInsert(email)
  /\ Writes(r, Inserted(email, role)) /\ nextId' = nextId + 1 /\ lastPw' = lastPw + 1
  /\ Does(r, Nothing) /\ UNCHANGED <<cookies, setupMu, founders, crossed>>

-----------------------------------------------------------------------------
(* Passwords and profiles.                                                 *)

\* UpdateUserPassword; others about to answer a change of this user's
\* password read the new one.
ChangePassword(r, i) ==
  /\ lastPw < MaxPasswords /\ lastPw' = lastPw + 1
  /\ users' = IF Exists(i) THEN [users EXCEPT ![i].pw = lastPw + 1] ELSE users
  /\ crossed' = crossed \cup {q \in Reqs : At(q, "reload") /\ work[q].target.id = i}
  /\ UNCHANGED <<nextId, cookies, setupMu, founders>>

\* handleSetUserPassword and UserPasswdCmd: one's own session goes on.
SetPassword(r) ==
  LET i == work[r].target.id
      step == [work[r] EXCEPT !.at = "reload", !.target.row.pw = lastPw + 1] IN
  /\ At(r, "target") /\ ChangePassword(r, i)
  /\ stale' = stale \ {r} /\ Does(r, IF i = work[r].me.id THEN step ELSE Nothing)

\* The current password of the request is compared with the row read when
\* it came in.
SetOwnPassword(r) ==
  LET i == work[r].me.id IN
  /\ At(r, "in") /\ ~Console(r) /\ ChangePassword(r, i)
  /\ Does(r, [Nothing EXCEPT !.at = "reload", !.target = [work[r].me EXCEPT !.row.pw = lastPw + 1]])
  /\ UNCHANGED stale

\* The user is read again and the session cookie re-issued.
Reload(r) ==
  LET i == work[r].target.id IN
  /\ At(r, "reload")
  /\ cookies' = IF Exists(i)
                THEN [cookies EXCEPT ![r] = Cookie(Read(i), work[r].target.row.pw, r \in crossed)]
                ELSE cookies
  /\ Ends(r) /\ UNCHANGED <<table, setupMu, founders>>

\* handleChangeCurrentUserProfile, UserUpdateCmd: UpdateUserProfile leaves
\* the role alone.
OwnProfile(r, email) ==
  LET read == IF Console(r) THEN work[r].target ELSE work[r].me IN
  /\ IF Console(r) THEN At(r, "target") ELSE At(r, "in")
  /\ Writes(r, Updated(read.id, [users[read.id] EXCEPT !.email = email]))
  /\ Does(r, Nothing) /\ UNCHANGED <<nextId, lastPw, cookies, setupMu, founders, crossed>>

-----------------------------------------------------------------------------
(* Signing in.                                                             *)

\* AuthenticateUser: the password fits the row read.
Login(r, i) ==
  /\ r \in Web /\ CanCome(r) /\ Exists(i)
  /\ Does(r, [Nothing EXCEPT !.at = "login", !.me = Read(i)])
  /\ UNCHANGED <<table, cookies, setupMu, ghosts>>

LoginDone(r) ==
  /\ At(r, "login")
  /\ cookies' = [cookies EXCEPT ![r] = Cookie(work[r].me, work[r].me.row.pw, FALSE)]
  /\ Does(r, Nothing) /\ UNCHANGED <<table, setupMu, ghosts>>

\* Without the mutex.
M_SetupFree == TRUE

SetupFree == setupMu = NoOne

\* handleSetup: the users are counted under the mutex ...
SetupBegin(r) ==
  /\ r \in Web /\ CanCome(r) /\ SetupFree /\ \A i \in Ids : ~Exists(i)
  /\ setupMu' = r /\ Does(r, [Nothing EXCEPT !.at = "setup"])
  /\ UNCHANGED <<table, cookies, ghosts>>

\* ... and the administrator created and signed in.
SetupEnd(r, email) ==
  /\ At(r, "setup") /\ CanInsert(email)
  /\ Writes(r, Inserted(email, "admin")) /\ nextId' = nextId + 1 /\ lastPw' = lastPw + 1
  /\ cookies' = [cookies EXCEPT ![r] = [id |-> nextId, pw |-> lastPw + 1, knows |-> lastPw + 1, late |-> FALSE]]
  /\ founders' = founders \cup {nextId} /\ setupMu' = NoOne
  /\ Does(r, Nothing) /\ UNCHANGED crossed

Step(r) ==
  \/ Enter(r) \/ Logout(r) \/ GiveUp(r) \/ Update(r) \/ CheckDelete(r) \/ Delete(r) \/ SetPassword(r)
  \/ SetOwnPassword(r) \/ Reload(r) \/ LoginDone(r) \/ SetupBegin(r)
  \/ \E i \in Ids : ReadTarget(r, i) \/ Login(r, i)
  \/ \E e \in Emails \cup {NoEmail} :
       \/ OwnProfile(r, e) \/ SetupEnd(r, e)
       \/ \E role \in Roles : Create(r, e, role) \/ CheckUpdate(r, e, role)

Next == \E r \in Reqs : Step(r)

Spec == Init /\ [][Next]_vars

-----------------------------------------------------------------------------
\* No two users have one mail address, by which both could log in, although
\* every request writes back the address it read when it changes other
\* fields, and addresses move from user to user meanwhile.
EmailsUnique ==
  \A i, j \in Ids : i # j /\ users[i].email = users[j].email => users[i].email = NoEmail

\* The last administrator is removed only by a request that had read the
\* administrators before another one changed who they are.
LastAdminOnlyByRace ==
  [][Admins(users) # {} /\ Admins(users') = {} =>
       \E r \in stale : work[r] # Nothing /\ work'[r] = Nothing]_vars

\* However many first requests arrive at once, the setup screen creates one
\* administrator.
OneFounder == Cardinality({i \in founders : Exists(i)}) <= 1

\* Requests that cross create and keep no user twice.
UsersDistinct == EmailsUnique /\ OneFounder

\* A session that is accepted belongs to someone who gave or set the password
\* in force, unless two changes of one password crossed.
SessionsEnd ==
  \A r \in Web :
    LET c == cookies[r] IN Valid(c) => c.knows = users[c.id].pw \/ c.late
=============================================================================
