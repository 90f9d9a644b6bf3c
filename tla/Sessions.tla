------------------------------- MODULE Sessions -------------------------------
(***************************************************************************)
(* ctf-server: accounts and sessions.  The interceptor of every call reads *)
(* the session of the caller's token once and hands the handler its copy   *)
(* (interface/middleware/auth_interceptor.go); logins, logouts and the     *)
(* admin flag change the sessions table meanwhile (usecase/user_auth.go,   *)
(* usecase/admin_auth.go).                                                 *)
(*                                                                         *)
(* A statement on the database, like a call of the object storage, is a    *)
(* step.  The module has no behaviour of its own: Attachments adds the     *)
(* handlers behind the interceptor.                                        *)
(***************************************************************************)
EXTENDS Integers, FiniteSets

CONSTANTS
  Handlers,   \* calls served at the same time
  Names,      \* usernames
  Tokens,     \* the tokens that logins generate
  Targets,    \* what the calls of the extending module are about
  AdminOps,   \* and which of its procedures are for admins
  Faults      \* which outside failures can happen

\* fail: a statement or storage call is not executed, as none is once the caller has gone
\* and the context is cancelled; lost: it is executed, and answered with an error; kill: the
\* process dies.
ASSUME SessionsAssumption ==
  /\ Faults \subseteq {"fail", "lost", "kill"}
  /\ "none" \notin Names \cup Tokens \cup Targets
  /\ AdminOps \cap {"Register", "Login", "Logout", "AdminLogin", "AdminLogout", "none"} = {}

VARIABLES
  users,     \* the users table
  sessions,  \* the sessions table: is_admin of each token's row, or no row
  given,     \* tokens that were generated
  old,       \* tokens whose expires_at has passed
  out,       \* not in the code: tokens whose Logout was answered without an error
  req        \* what each handler is doing

accounts == <<users, sessions, given, old, out>>

None == "none"
AuthOps == {"Logout", "AdminLogin", "AdminLogout"}
Public == {"Register", "Login"}
Idle == [op |-> None, place |-> "idle", name |-> None, token |-> None, admin |-> FALSE,
         target |-> None, late |-> FALSE]

\* admin is the copy of the session's flag.  late is not in the code: the call came
\* after its token had expired or its Logout had been answered.
Request == [op : AuthOps \cup Public \cup AdminOps,
            place : {"find", "expired", "serve", "put", "insert", "undo", "remove", "row"},
            name : Names \cup {None}, token : Tokens \cup {None}, admin : BOOLEAN,
            target : Targets \cup {None}, late : BOOLEAN]

AccountsTypeOK ==
  /\ users \subseteq [name : Names, email : {""}]
  /\ \A u, v \in users : u.name = v.name \/ u.email = v.email => u = v
  /\ sessions \in [Tokens -> {"none", "user", "admin"}]
  /\ \A t \in Tokens : sessions[t] # "none" => t \in given
  /\ given \subseteq Tokens /\ old \subseteq given /\ out \subseteq given
  /\ req \in [Handlers -> Request \cup {Idle}]

InitAccounts ==
  /\ users = {}
  /\ sessions = [t \in Tokens |-> "none"]
  /\ given = {} /\ old = {} /\ out = {}
  /\ req = [h \in Handlers |-> Idle]

\* A call as it arrives.
Begin(h, op, name, token, target) ==
  /\ req[h] = Idle
  /\ req' = [req EXCEPT ![h] =
       [op |-> op, place |-> "find", name |-> name, token |-> token, admin |-> FALSE,
        target |-> target, late |-> token \in out \cup old]]

GoTo(h, place) == req' = [req EXCEPT ![h] = [@ EXCEPT !.place = place]]
Finish(h) == req' = [req EXCEPT ![h] = Idle]
At(h, op, place) == req[h].op = op /\ req[h].place = place

\* What can become of a statement or a storage call: done, and answered without an error.
Outcomes ==
  {o \in [done : BOOLEAN, said : BOOLEAN] :
     \/ o.done /\ o.said
     \/ ~o.done /\ ~o.said /\ "fail" \in Faults
     \/ o.done /\ ~o.said /\ "lost" \in Faults}

-----------------------------------------------------------------------------
(* Register and Login need no session *)

PublicRequest(h) ==
  \E op \in Public, n \in Names : Begin(h, op, n, None, None) /\ UNCHANGED accounts

FindByUsername(h) == {u \in users : u.name = req[h].name}

RegisterFind(h) ==
  /\ At(h, "Register", "find")
  /\ \/ FindByUsername(h) = {} /\ GoTo(h, "insert")
     \/ ("fail" \in Faults \/ FindByUsername(h) # {}) /\ Finish(h)
  /\ UNCHANGED accounts

\* The row's email is '' whoever registers, and both columns are UNIQUE.
CreateUser(h) ==
  LET row == [name |-> req[h].name, email |-> ""]
      Clash == \E u \in users : u.name = row.name \/ u.email = row.email
  IN
  /\ At(h, "Register", "insert")
  /\ \E o \in Outcomes : users' = IF o.done /\ ~Clash THEN users \cup {row} ELSE users
  /\ Finish(h)
  /\ UNCHANGED <<sessions, given, old, out>>

\* The password is wrong, or right.
LoginFind(h) ==
  /\ At(h, "Login", "find")
  /\ \/ FindByUsername(h) # {} /\ GoTo(h, "insert")
     \/ Finish(h)
  /\ UNCHANGED accounts

\* Left out: a row whose insert was executed and answered with an error.  Its token was
\* never told to anybody.
CreateSession(h) ==
  \E t \in Tokens \ given, o \in Outcomes :
    /\ At(h, "Login", "insert")
    /\ sessions' = [sessions EXCEPT ![t] = IF o.done THEN "user" ELSE "none"]
    /\ given' = IF o.said THEN given \cup {t} ELSE given
    /\ o.done => o.said
    /\ Finish(h)
    /\ UNCHANGED <<users, old, out>>

-----------------------------------------------------------------------------
(* The interceptor *)

\* A call about x with a token that was given out; another token is refused at once.
Call(h, op, x) == \E t \in given : Begin(h, op, None, t, x)

\* The first thing the procedures for admins do, on the copy.
requireAdminSession(op, admin) == op \in AdminOps => admin

\* A call that is handed its copy.
Served(r, admin) ==
  [op |-> r.op, place |-> "serve", name |-> r.name, token |-> r.token, admin |-> admin,
   target |-> r.target, late |-> r.late]

\* WrapUnary and WrapStreamingHandler: one read of the session serves the whole call.
FindByToken(h) ==
  LET t == req[h].token
      admin == sessions[t] = "admin"
  IN
  /\ req[h].op \notin Public /\ req[h].place = "find"
  /\ \/ /\ sessions[t] # "none"
        /\ \/ t \in old /\ GoTo(h, "expired")
           \/ /\ t \notin old /\ requireAdminSession(req[h].op, admin)
              /\ req' = [req EXCEPT ![h] = Served(@, admin)]
           \/ t \notin old /\ ~requireAdminSession(req[h].op, admin) /\ Finish(h)
     \/ ("fail" \in Faults \/ sessions[t] = "none") /\ Finish(h)
  /\ UNCHANGED accounts

\* The error of this Delete is not looked at.
DeleteExpired(h) ==
  /\ req[h].place = "expired"
  /\ \E o \in Outcomes :
       sessions' = IF o.done THEN [sessions EXCEPT ![req[h].token] = "none"] ELSE sessions
  /\ Finish(h)
  /\ UNCHANGED <<users, given, old, out>>

-----------------------------------------------------------------------------
(* The handlers of the sessions themselves *)

\* Deleting a row that is gone is answered "logout failed".
Logout(h) ==
  LET t == req[h].token IN
  /\ At(h, "Logout", "serve")
  /\ \E o \in Outcomes :
       /\ sessions' = IF o.done THEN [sessions EXCEPT ![t] = "none"] ELSE sessions
       /\ out' = IF o.said /\ sessions[t] # "none" THEN out \cup {t} ELSE out
  /\ Finish(h)
  /\ UNCHANGED <<users, given, old>>

\* Mutant: the row is written whole, and a missing one is inserted.
UpdateOrInsert(h, role) ==
  \E o \in Outcomes :
    sessions' = IF o.done THEN [sessions EXCEPT ![req[h].token] = role] ELSE sessions

\* Only is_admin of a row that is still there.
UpdateSession(h, role) ==
  \E o \in Outcomes :
    sessions' = IF o.done /\ sessions[req[h].token] # "none"
                THEN [sessions EXCEPT ![req[h].token] = role] ELSE sessions

\* With the copy's flag set, or the wrong code, nothing is written.  All of it is answered
\* the same way.
AdminLogin(h) ==
  /\ At(h, "AdminLogin", "serve")
  /\ \/ ~req[h].admin /\ UpdateSession(h, "admin")
     \/ UNCHANGED sessions
  /\ Finish(h)
  /\ UNCHANGED <<users, given, old, out>>

AdminLogout(h) ==
  /\ At(h, "AdminLogout", "serve")
  /\ \/ req[h].admin /\ UpdateSession(h, "user")
     \/ ~req[h].admin /\ UNCHANGED sessions
  /\ Finish(h)
  /\ UNCHANGED <<users, given, old, out>>

\* 24 hours after its login.
Expire(t) ==
  /\ t \in given /\ t \notin old
  /\ old' = old \cup {t}
  /\ UNCHANGED <<users, sessions, given, out, req>>

\* The process dies and comes back.
Kill ==
  /\ "kill" \in Faults
  /\ \E h \in Handlers : req[h] # Idle
  /\ req' = [h \in Handlers |-> Idle]
  /\ UNCHANGED accounts

Accounts(h) ==
  \/ PublicRequest(h)
  \/ RegisterFind(h) \/ CreateUser(h)
  \/ LoginFind(h) \/ CreateSession(h)
  \/ (\E op \in AuthOps : Call(h, op, None)) /\ UNCHANGED accounts
  \/ FindByToken(h) \/ DeleteExpired(h)
  \/ Logout(h) \/ AdminLogin(h) \/ AdminLogout(h)

===============================================================================
