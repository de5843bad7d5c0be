----------------------------- MODULE AccessControl -----------------------------
(***************************************************************************)
(* Who may do what: the way of a request through the firewall, the rate    *)
(* limiter and HybridAuth to the handlers of users, login sessions and     *)
(* blocked addresses (api/waf.go, middleware.go, handlers_auth.go,         *)
(* handlers_waf.go, store/users.go), next to the commands that write the   *)
(* same database from a process of their own (cmd/swoopsd).                *)
(*                                                                         *)
(* Hashes of passwords and tokens are the passwords and tokens.  A request *)
(* takes one step for each statement on the database that matters; what    *)
(* it only computes, as the comparison of a password, goes with the step   *)
(* that reads.  Nothing deletes a user or changes is_active and is_admin.  *)
(***************************************************************************)
EXTENDS RateLimiter, FiniteSets

CONSTANTS
  Users, Passwords,
  Tokens,    \* login tokens, each generated once
  ApiKey,    \* the API key: one is generated where none is configured (config.Load)
  None,      \* no user, no password, no credential
  Calls,     \* requests and commands at a time
  Settings   \* settings of the server to look at: is the limiter on, the addresses its file
             \* says to block, the calls at a time

ASSUME AccessAssumption ==
  /\ ApiKey \notin Tokens /\ None \notin Users \union Passwords \union Tokens \union {ApiKey}
  /\ Settings \subseteq [limited: BOOLEAN, blocked: SUBSET IPs, calls: SUBSET Calls]

AdminJobs   == {"block", "unblock", "create"}
Jobs        == AdminJobs \union {"login", "logout", "password", "reset", "createCli"}
Credentials == Tokens \union {ApiKey}
User        == [password: Passwords, admin: BOOLEAN]
\* A request: where it is, what it asks for, its credential, the user, the password and
\* the new password it names, the user of its context; and, as history, whether its
\* token had ended when it came and the users' passwords since.
Call        == [at: {"idle", "auth", "verify", "insert", "write", "delete", "act"},
                job: Jobs, cred: Credentials \union {None}, name: Users \union {None},
                given: Passwords \union {None}, fresh: Passwords \union {None},
                who: Users \union {None}, late: BOOLEAN, known: SUBSET (Users \X Passwords)]

VARIABLES
  setting,
  users,     \* rows of users
  sessions,  \* rows of user_sessions by token: their user and whether they are in time
  blocked,   \* blockedIPs
  call,
  \* history
  owner      \* the user each token that was ever issued was issued to

vars == <<setting, users, sessions, blocked, call, owner, visitors, credit, refused>>
rest == <<setting, limiterVars>>

Idle == [at |-> "idle", job |-> "login", cred |-> None, name |-> None, given |-> None,
         fresh |-> None, who |-> None, late |-> FALSE, known |-> {}]
Empty == [x \in {} |-> 0]

Init ==
  /\ LimiterInit
  /\ setting \in Settings
  /\ users = Empty /\ sessions = Empty /\ owner = Empty
  /\ blocked = setting.blocked
  /\ call = [c \in Calls |-> Idle]

With(f, k, v) == [x \in DOMAIN f \union {k} |-> IF x = k THEN v ELSE f[x]]
Current(rows) == {<<u, rows[u].password>> : u \in DOMAIN rows}
Ended(t)      == t \in DOMAIN owner /\ (t \in DOMAIN sessions => ~sessions[t].valid)

\* c goes on as r, or ends; the passwords that become current are noted for all calls.
Step(c, r) ==
  call' = [d \in Calls |->
             LET next == IF d = c THEN r ELSE call[d]
             IN  IF next.job \in {"login", "password"} /\ next.at # "idle"
                 THEN [next EXCEPT !.known = @ \union Current(users')] ELSE next]
Go(c, where) == Step(c, [call[c] EXCEPT !.at = where])
End(c)       == Step(c, Idle)
-----------------------------------------------------------------------------
(* The way in. *)

\* WAFMiddleware: an address that is blocked is sent away before the limiter counts it.
Passes(ip) ==
  /\ ip \notin blocked
  /\ IF setting.limited THEN Admit(ip) ELSE UNCHANGED limiterVars

Arrives(c, ip, r) ==
  /\ c \in setting.calls /\ call[c].at = "idle"
  /\ Passes(ip)
  /\ UNCHANGED <<setting, users, sessions, blocked, owner>>
  /\ Step(c, [r EXCEPT !.late = r.cred \in Tokens /\ Ended(r.cred)])

RequestLogin(c, ip, u, p) ==
  Arrives(c, ip, [Idle EXCEPT !.at = "verify", !.job = "login", !.name = u, !.given = p])

RequestLogout(c, ip, t) ==
  Arrives(c, ip, [Idle EXCEPT !.at = "delete", !.job = "logout", !.cred = t])

RequestPassword(c, ip, k, p, q) ==
  Arrives(c, ip, [Idle EXCEPT !.at = "auth", !.job = "password", !.cred = k, !.given = p,
                              !.fresh = q])

RequestBlock(c, ip, k, j) ==
  Arrives(c, ip, [Idle EXCEPT !.at = "auth", !.job = j, !.cred = k])

RequestCreateUser(c, ip, k, u, p) ==
  Arrives(c, ip, [Idle EXCEPT !.at = "auth", !.job = "create", !.cred = k, !.name = u,
                              !.fresh = p])

\* A request that is sent away by the limiter, or that passes it and is then refused by a
\* filter or changes nothing.
RequestOther(ip) ==
  /\ ip \notin blocked /\ setting.limited
  /\ Admit(ip) \/ Refuse(ip)
  /\ UNCHANGED <<setting, users, sessions, blocked, call, owner>>

\* swoopsd create-user and reset-password.
RunCommand(c, j, u, p) ==
  /\ c \in setting.calls /\ call[c].at = "idle"
  /\ UNCHANGED <<rest, users, sessions, blocked, owner>>
  /\ Step(c, [Idle EXCEPT !.at = IF j = "reset" THEN "write" ELSE "act", !.job = j,
                          !.name = u, !.fresh = p])
-----------------------------------------------------------------------------
(* HybridAuth and RequireAdmin. *)

\* Mutant: the time is not looked at.
LookupAny(t) == t \in DOMAIN sessions

\* GetUserSessionByToken finds a row that is in time.
Lookup(t) == t \in DOMAIN sessions /\ sessions[t].valid

\* The user of the token's session becomes the user of the context; with the API key
\* there is none.
HybridAuth(c) ==
  LET k     == call[c].cred
      where == IF call[c].job = "password" THEN "verify" ELSE "act"
  IN  /\ call[c].at = "auth"
      /\ UNCHANGED <<rest, users, sessions, blocked, owner>>
      /\ IF k \in Tokens /\ Lookup(k)
         THEN Step(c, [call[c] EXCEPT !.at = where, !.who = sessions[k].user])
         ELSE IF k = ApiKey THEN Go(c, where) ELSE End(c)

\* Mutant: who is nobody may pass.
RequireAnyone(c) == call[c].who # None => users[call[c].who].admin

\* The context says that the user is an admin.
RequireAdmin(c) == call[c].who # None /\ users[call[c].who].admin
-----------------------------------------------------------------------------
(* Handlers and commands. *)

\* Mutant: any password does.
VerifyNothing(u, p) == u \in DOMAIN users

\* VerifyPassword on the row that was just read.
VerifyPassword(u, p) == u \in DOMAIN users /\ users[u].password = p

\* handleLogin reads the user and compares.
CheckLogin(c) ==
  /\ call[c].at = "verify" /\ call[c].job = "login"
  /\ UNCHANGED <<rest, users, sessions, blocked, owner>>
  /\ IF VerifyPassword(call[c].name, call[c].given) THEN Go(c, "insert") ELSE End(c)

\* CreateUserSession: what was verified may have been replaced since.
CreateUserSession(c, t) ==
  /\ call[c].at = "insert" /\ t \notin DOMAIN owner
  /\ sessions' = With(sessions, t, [user |-> call[c].name, valid |-> TRUE])
  /\ owner'    = With(owner, t, call[c].name)
  /\ UNCHANGED <<rest, users, blocked>>
  /\ End(c)

\* handleUpdatePassword wants a user in the context; UpdateUserPassword reads and compares.
CheckPassword(c) ==
  /\ call[c].at = "verify" /\ call[c].job = "password"
  /\ UNCHANGED <<rest, users, sessions, blocked, owner>>
  /\ IF call[c].who # None /\ VerifyPassword(call[c].who, call[c].given)
     THEN Step(c, [call[c] EXCEPT !.at = "write", !.name = call[c].who]) ELSE End(c)

\* The UPDATE of UpdateUserPassword and of ResetUserPassword, which touches no row if
\* there is no such user.  The login sessions of the user stay.
WritePassword(c) ==
  LET u == call[c].name
  IN  /\ call[c].at = "write"
      /\ users' = IF u \in DOMAIN users THEN [users EXCEPT ![u].password = call[c].fresh]
                  ELSE users
      /\ UNCHANGED <<rest, sessions, blocked, owner>>
      /\ End(c)

DeleteUserSession(t) == [x \in DOMAIN sessions \ {t} |-> sessions[x]]

\* handleLogout, which asks for nothing but the token.
Logout(c) ==
  /\ call[c].at = "delete"
  /\ sessions' = DeleteUserSession(call[c].cred)
  /\ UNCHANGED <<rest, users, blocked, owner>>
  /\ End(c)

\* handleBlockIP and handleUnblockIP.
BlockIP(c, ip) ==
  /\ call[c].at = "act" /\ call[c].job \in {"block", "unblock"} /\ RequireAdmin(c)
  /\ blocked' = IF call[c].job = "block" THEN blocked \union {ip} ELSE blocked \ {ip}
  /\ UNCHANGED <<rest, users, sessions, owner>>
  /\ End(c)

\* The INSERT, which a user of that name makes fail.
CreateUser(u, row) == IF u \in DOMAIN users THEN users ELSE With(users, u, row)

\* handleCreateUser makes users of both kinds, swoopsd create-user only admins.
AddUser(c, admin) ==
  /\ call[c].at = "act"
  /\ \/ call[c].job = "create" /\ RequireAdmin(c)
     \/ call[c].job = "createCli" /\ admin
  /\ users' = CreateUser(call[c].name, [password |-> call[c].fresh, admin |-> admin])
  /\ UNCHANGED <<rest, sessions, blocked, owner>>
  /\ End(c)

\* RequireAdmin sends a request away; any statement may fail, which ends the request or
\* the command; so does the answer to a logout whose DELETE failed, which the code ignores.
Fail(c) ==
  /\ call[c].at # "idle"
  /\ UNCHANGED <<rest, users, sessions, blocked, owner>>
  /\ End(c)
-----------------------------------------------------------------------------
(* Surroundings. *)

\* The 7 days of a login session are over.
Expire(t) ==
  /\ t \in DOMAIN sessions /\ sessions[t].valid
  /\ sessions' = [sessions EXCEPT ![t].valid = FALSE]
  /\ UNCHANGED <<rest, users, blocked, call, owner>>

LimiterRuns ==
  /\ setting.limited /\ (CleanupVisitors \/ Tick)
  /\ UNCHANGED <<setting, users, sessions, blocked, call, owner>>

\* A new process has the database and the file of settings: what requests have blocked and
\* unblocked is forgotten.  Commands run on.
Restart ==
  /\ RestartLimiter
  /\ blocked' = setting.blocked
  /\ call' = [c \in Calls |-> IF call[c].job \in {"reset", "createCli"} THEN call[c] ELSE Idle]
  /\ UNCHANGED <<setting, users, sessions, owner>>

Next ==
  \/ \E c \in Calls, ip \in IPs :
       \/ \E u \in Users, p \in Passwords : RequestLogin(c, ip, u, p)
       \/ \E t \in DOMAIN owner : RequestLogout(c, ip, t)
       \/ \E k \in DOMAIN owner \union {ApiKey} :
            \/ \E p, q \in Passwords : RequestPassword(c, ip, k, p, q)
            \/ \E j \in {"block", "unblock"} : RequestBlock(c, ip, k, j)
            \/ \E u \in Users, p \in Passwords : RequestCreateUser(c, ip, k, u, p)
       \/ BlockIP(c, ip)
  \/ \E ip \in IPs : RequestOther(ip)
  \/ \E c \in Calls :
       \/ \E j \in {"reset", "createCli"}, u \in Users, p \in Passwords : RunCommand(c, j, u, p)
       \/ HybridAuth(c) \/ CheckLogin(c) \/ CheckPassword(c) \/ WritePassword(c)
       \/ \E t \in Tokens : CreateUserSession(c, t)
       \/ \E admin \in BOOLEAN : AddUser(c, admin)
       \/ Logout(c) \/ Fail(c)
  \/ \E t \in Tokens : Expire(t)
  \/ LimiterRuns \/ Restart

Spec == Init /\ [][Next]_vars
-----------------------------------------------------------------------------
(* Correctness. *)

TypeOK ==
  /\ LimiterTypeOK
  /\ setting \in Settings
  /\ DOMAIN users \subseteq Users /\ \A u \in DOMAIN users : users[u] \in User
  /\ DOMAIN sessions \subseteq DOMAIN owner
  /\ \A t \in DOMAIN sessions : sessions[t] \in [user: DOMAIN users, valid: BOOLEAN]
  /\ DOMAIN owner \subseteq Tokens /\ \A t \in DOMAIN owner : owner[t] \in DOMAIN users
  /\ blocked \subseteq IPs
  /\ call \in [Calls -> Call]

\* c ends with this step.
Ends(c) == call[c].at # "idle" /\ call'[c] = Idle
Knew(c, u) == <<u, call[c].given>> \in call[c].known

(* Nobody gets in or changes a password without the password: a login session is created
   only by a request that named the password its user had at some time since it came, a
   password is replaced only by a request of its user that did, or by the command on the
   server (handleLogin, UpdateUserPassword, runResetPassword); a name that is taken keeps
   its password when it is created again (CreateUser). *)
Proven ==
  [][/\ \A t \in DOMAIN owner' \ DOMAIN owner :
          \E c \in Calls : Ends(c) /\ call[c].job = "login" /\ Knew(c, owner'[t])
     /\ \A u \in DOMAIN users : users'[u] # users[u] =>
          \E c \in Calls : /\ Ends(c) /\ call[c].job \in {"password", "reset"}
                           /\ call[c].job = "password" =>
                                Knew(c, u) /\ call[c].cred \in DOMAIN owner
                                           /\ owner[call[c].cred] = u]_vars

(* The end of a login session is the end: a token that was logged out or has expired gives
   no request that comes later a way past HybridAuth, across restarts and whatever other
   requests do meanwhile (handleLogout, GetUserSessionByToken). *)
EndIsFinal == \A c \in Calls : call[c].late => call[c].at \in {"auth", "delete"}

(* An address that the settings do not block is blocked, and a user added who is no admin,
   only for a request whose token was issued to an admin: the API key does not do, although
   it gets past HybridAuth (RequireAdmin). *)
AdminOnly ==
  [][(\/ ~(blocked' \subseteq blocked \union setting.blocked)
      \/ \E u \in DOMAIN users' \ DOMAIN users : ~users'[u].admin)
     => \E c \in Calls : /\ Ends(c) /\ call[c].cred \in DOMAIN owner
                         /\ users[owner[call[c].cred]].admin]_vars
=============================================================================
