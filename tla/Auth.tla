-------------------------------- MODULE Auth --------------------------------
(***************************************************************************)
(* Accounts and sessions: the users and sessions tables of internal/store, *)
(* the session middleware and the setup, login, logout and user-admin      *)
(* handlers of internal/server, the session janitor, and the two admin     *)
(* subcommands of cmd/debeasy, which open the same database file from a    *)
(* second process.                                                         *)
(*                                                                         *)
(* A process of Procs is one HTTP handler goroutine or one CLI run.  The   *)
(* store has a single connection, so an SQL statement is one step; bcrypt  *)
(* runs between statements and lets other processes in.  Users are never   *)
(* deleted and names are unique, so a name stands for its row.  A password *)
(* is the number of resets the account has gone through.                   *)
(***************************************************************************)
EXTENDS Integers

CONSTANTS
    Procs,       \* handler goroutines and CLI runs
    Names,       \* usernames
    Sids,        \* session ids; Create draws one that was never used
    NoName,
    NoSid,
    SessionTTL,  \* startSession's 30 days, in ticks
    MaxResets,   \* bound: password resets per account
    MaxTime      \* bound: the last tick of the clock

ASSUME NoNameAssumption == NoName \notin Names
ASSUME NoSidAssumption == NoSid \notin Sids
ASSUME AuthBounds ==
    SessionTTL \in Nat /\ MaxResets \in Nat /\ MaxTime \in Nat

VARIABLES
    role,      \* users.role, "absent" where there is no row
    disabled,  \* names whose row has disabled = 1
    password,  \* users.password_hash, as the number of resets
    owner,     \* sessions.user_id of every id ever drawn
    expires,   \* sessions.expires_at
    sessions,  \* ids that have a row
    pc,        \* where each process is
    who,       \* the user a request acts as, or logs in as
    isAdmin,   \* role of the middleware's user snapshot is admin
    sid,       \* the session the request came with
    target,    \* the account a handler or CLI run is about
    asRole,    \* the role it is going to insert
    typed,     \* the password given to /login
    now,       \* time.Now()
    origin,    \* history: which code path created the account
    overtaken  \* history: logins under way when their account was reset

userVars == <<role, disabled, password, origin>>
sessVars == <<owner, expires, sessions>>
locals == <<who, isAdmin, sid, target, asRole, typed>>
vars == <<userVars, sessVars, pc, locals, now, overtaken>>

Roles == {"admin", "user"}
FormRoles == Roles \cup {"other"}   \* what a form can hold

(* Users.Create: anything that is not a role becomes "user". *)
Normalised(r) == IF r \in Roles THEN r ELSE "user"

Origins == {"none", "setup", "admin", "cli", "cliIfNone"}
Places == {"none", "user", "admitted", "insert", "reset", "setup", "session",
           "cliInsert", "cliIfNone", "cliReset"}

Exists(n) == role[n] # "absent"
Count0 == \A n \in Names : ~Exists(n)
SomeAdmin == \E n \in Names : role[n] = "admin"
LoggingIn(p, n) == pc[p] = "session" /\ who[p] = n

Init ==
    /\ role = [n \in Names |-> "absent"]
    /\ disabled = {}
    /\ password = [n \in Names |-> 0]
    /\ origin = [n \in Names |-> "none"]
    /\ owner = [s \in Sids |-> NoName]
    /\ expires = [s \in Sids |-> 0]
    /\ sessions = {}
    /\ pc = [p \in Procs |-> "none"]
    /\ who = [p \in Procs |-> NoName]
    /\ isAdmin = [p \in Procs |-> FALSE]
    /\ sid = [p \in Procs |-> NoSid]
    /\ target = [p \in Procs |-> NoName]
    /\ asRole = [p \in Procs |-> "user"]
    /\ typed = [p \in Procs |-> 0]
    /\ now = 0
    /\ overtaken = {}

(***************************************************************************)
(* Control flow of a process.                                              *)
(***************************************************************************)
Goto(p, place) == pc' = [pc EXCEPT ![p] = place]

(* The handler or CLI run is over; its locals are gone. *)
Done(p) ==
    /\ Goto(p, "none")
    /\ who' = [who EXCEPT ![p] = NoName]
    /\ isAdmin' = [isAdmin EXCEPT ![p] = FALSE]
    /\ sid' = [sid EXCEPT ![p] = NoSid]
    /\ target' = [target EXCEPT ![p] = NoName]
    /\ asRole' = [asRole EXCEPT ![p] = "user"]
    /\ typed' = [typed EXCEPT ![p] = 0]

(* An answer that changed nothing: refused, failed, or only read. *)
GiveUp(p) ==
    /\ pc[p] # "none"
    /\ Done(p)
    /\ overtaken' = overtaken \ {p}
    /\ UNCHANGED <<userVars, sessVars, now>>

-----------------------------------------------------------------------------
(* Sessions.Get in sessionMiddleware finds a row that has not expired. *)
SessionGet(p, s) ==
    /\ pc[p] = "none"
    /\ s \in sessions
    /\ now <= expires[s]
    /\ Goto(p, "user")
    /\ sid' = [sid EXCEPT ![p] = s]
    /\ UNCHANGED <<userVars, sessVars, who, isAdmin, target, asRole, typed,
                   now, overtaken>>

(* Sessions.Get finds an expired row and deletes it; the request goes on   *)
(* without a user and is sent to /login.                                   *)
SessionGetExpired(s) ==
    /\ s \in sessions
    /\ now > expires[s]
    /\ sessions' = sessions \ {s}
    /\ UNCHANGED <<userVars, owner, expires, pc, locals, now, overtaken>>

(* Users.Get in sessionMiddleware: the snapshot requireAuth and            *)
(* requireAdmin go by.  A disabled user's request falls to GiveUp.         *)
UserGet(p) ==
    /\ pc[p] = "user"
    /\ owner[sid[p]] \notin disabled
    /\ Goto(p, "admitted")
    /\ who' = [who EXCEPT ![p] = owner[sid[p]]]
    /\ isAdmin' = [isAdmin EXCEPT ![p] = role[owner[sid[p]]] = "admin"]
    /\ UNCHANGED <<userVars, sessVars, sid, target, asRole, typed, now,
                   overtaken>>

(* handleLogout *)
Logout(p) ==
    /\ pc[p] = "admitted"
    /\ sessions' = sessions \ {sid[p]}
    /\ Done(p)
    /\ UNCHANGED <<userVars, owner, expires, now, overtaken>>

-----------------------------------------------------------------------------
(* The user-admin handlers, behind requireAdmin.                           *)

(* Mutant: the route is not behind requireAdmin. *)
SetDisabledByAnyone(p, n, b) ==
    /\ pc[p] = "admitted"
    /\ disabled' = IF b THEN disabled \cup {m \in {n} : Exists(m)}
                   ELSE disabled \ {n}
    /\ Done(p)
    /\ UNCHANGED <<role, password, origin, sessVars, now, overtaken>>

(* handleUserSetDisabled: nothing keeps the last admin enabled. *)
SetDisabled(p, n, b) ==
    /\ pc[p] = "admitted"
    /\ isAdmin[p]
    /\ disabled' = IF b THEN disabled \cup {m \in {n} : Exists(m)}
                   ELSE disabled \ {n}
    /\ Done(p)
    /\ UNCHANGED <<role, password, origin, sessVars, now, overtaken>>

(* handleUserCreate and handleUserReset up to the bcrypt hash. *)
UserCreateHash(p, n, r) ==
    /\ pc[p] = "admitted"
    /\ isAdmin[p]
    /\ Goto(p, "insert")
    /\ target' = [target EXCEPT ![p] = n]
    /\ asRole' = [asRole EXCEPT ![p] = Normalised(r)]
    /\ UNCHANGED <<userVars, sessVars, who, isAdmin, sid, typed, now,
                   overtaken>>

UserResetHash(p, n) ==
    /\ pc[p] = "admitted"
    /\ isAdmin[p]
    /\ Goto(p, "reset")
    /\ target' = [target EXCEPT ![p] = n]
    /\ UNCHANGED <<userVars, sessVars, who, isAdmin, sid, asRole, typed, now,
                   overtaken>>

(* Users.Create's INSERT: the UNIQUE constraint refuses an existing name. *)
InsertUser(n, r, from) ==
    /\ ~Exists(n)
    /\ role' = [role EXCEPT ![n] = r]
    /\ origin' = [origin EXCEPT ![n] = from]
    /\ UNCHANGED <<disabled, password>>

UserCreateInsert(p) ==
    /\ pc[p] = "insert"
    /\ InsertUser(target[p], asRole[p], "admin")
    /\ Done(p)
    /\ UNCHANGED <<sessVars, now, overtaken>>

(* Users.ResetPassword's UPDATE, for handleUserReset and the CLI alike:    *)
(* no session of the account is ended.                                     *)
ResetPassword(p) ==
    LET n == target[p]
    IN  /\ pc[p] \in {"reset", "cliReset"}
        /\ Exists(n)
        /\ password[n] < MaxResets
        /\ password' = [password EXCEPT ![n] = @ + 1]
        /\ overtaken' = overtaken \cup {q \in Procs : LoggingIn(q, n)}
        /\ Done(p)
        /\ UNCHANGED <<role, disabled, origin, sessVars, now>>

-----------------------------------------------------------------------------
(* Mutant: setup is open again when no admin is enabled. *)
SetupCountEnabledAdmins(p, n) ==
    /\ pc[p] = "none"
    /\ \A m \in Names : role[m] = "admin" => m \in disabled
    /\ Goto(p, "setup")
    /\ target' = [target EXCEPT ![p] = n]
    /\ UNCHANGED <<userVars, sessVars, who, isAdmin, sid, asRole, typed, now,
                   overtaken>>

(* handleSetupSubmit: count, hash, insert, start a session. *)
SetupCount(p, n) ==
    /\ pc[p] = "none"
    /\ Count0
    /\ Goto(p, "setup")
    /\ target' = [target EXCEPT ![p] = n]
    /\ UNCHANGED <<userVars, sessVars, who, isAdmin, sid, asRole, typed, now,
                   overtaken>>

SetupInsert(p) ==
    /\ pc[p] = "setup"
    /\ InsertUser(target[p], "admin", "setup")
    /\ Goto(p, "session")
    /\ who' = [who EXCEPT ![p] = target[p]]
    /\ UNCHANGED <<sessVars, isAdmin, sid, target, asRole, typed, now,
                   overtaken>>

(* Mutant: the password given is not compared with the stored one. *)
VerifyNot(p, n, pw) ==
    /\ pc[p] = "none"
    /\ Exists(n)
    /\ n \notin disabled
    /\ Goto(p, "session")
    /\ who' = [who EXCEPT ![p] = n]
    /\ typed' = [typed EXCEPT ![p] = pw]
    /\ UNCHANGED <<userVars, sessVars, isAdmin, sid, target, asRole, now,
                   overtaken>>

(* handleLoginSubmit, once the rate limiter has let it through.  Verify    *)
(* reads the row and then compares with the hash it read, so the row       *)
(* decides at this step how the comparison ends; an unknown or disabled    *)
(* account, or a mismatch, is refused and changes nothing.                 *)
Verify(p, n, pw) ==
    /\ pc[p] = "none"
    /\ Exists(n)
    /\ n \notin disabled
    /\ pw = password[n]
    /\ Goto(p, "session")
    /\ who' = [who EXCEPT ![p] = n]
    /\ typed' = [typed EXCEPT ![p] = pw]
    /\ UNCHANGED <<userVars, sessVars, isAdmin, sid, target, asRole, now,
                   overtaken>>

(* startSession *)
StartSession(p, s) ==
    /\ pc[p] = "session"
    /\ owner[s] = NoName
    /\ owner' = [owner EXCEPT ![s] = who[p]]
    /\ expires' = [expires EXCEPT ![s] = now + SessionTTL]
    /\ sessions' = sessions \cup {s}
    /\ Done(p)
    /\ overtaken' = overtaken \ {p}
    /\ UNCHANGED <<userVars, now>>

-----------------------------------------------------------------------------
(* debeasy admin create [--if-not-exists], debeasy admin reset-password.   *)
CliCreate(p, n, r) ==
    /\ pc[p] = "none"
    /\ Goto(p, "cliInsert")
    /\ target' = [target EXCEPT ![p] = n]
    /\ asRole' = [asRole EXCEPT ![p] = r]
    /\ UNCHANGED <<userVars, sessVars, who, isAdmin, sid, typed, now,
                   overtaken>>

CliCreateIfNone(p, n, r) ==
    /\ pc[p] = "none"
    /\ ~SomeAdmin
    /\ Goto(p, "cliIfNone")
    /\ target' = [target EXCEPT ![p] = n]
    /\ asRole' = [asRole EXCEPT ![p] = r]
    /\ UNCHANGED <<userVars, sessVars, who, isAdmin, sid, typed, now,
                   overtaken>>

CliInsert(p) ==
    /\ pc[p] \in {"cliInsert", "cliIfNone"}
    /\ InsertUser(target[p], asRole[p],
                  IF pc[p] = "cliInsert" THEN "cli" ELSE "cliIfNone")
    /\ Done(p)
    /\ UNCHANGED <<sessVars, now, overtaken>>

CliReset(p, n) ==
    /\ pc[p] = "none"
    /\ Exists(n)
    /\ Goto(p, "cliReset")
    /\ target' = [target EXCEPT ![p] = n]
    /\ UNCHANGED <<userVars, sessVars, who, isAdmin, sid, asRole, typed, now,
                   overtaken>>

-----------------------------------------------------------------------------
(* Mutant: sessions go in the tick in which they expire, too early. *)
ExpiredInclusive(s) == expires[s] <= now

Expired(s) == expires[s] < now

(* PurgeExpired, every 15 minutes. *)
Janitor ==
    /\ \E s \in sessions : Expired(s)
    /\ sessions' = {s \in sessions : ~Expired(s)}
    /\ UNCHANGED <<userVars, owner, expires, pc, locals, now, overtaken>>

Tick ==
    /\ now < MaxTime
    /\ now' = now + 1
    /\ UNCHANGED <<userVars, sessVars, pc, locals, overtaken>>

Http(p) ==
    \/ \E s \in Sids : SessionGet(p, s) \/ StartSession(p, s)
    \/ UserGet(p) \/ Logout(p)
    \/ \E n \in Names :
         \/ \E b \in BOOLEAN : SetDisabled(p, n, b)
         \/ \E r \in FormRoles : UserCreateHash(p, n, r)
         \/ UserResetHash(p, n)
         \/ SetupCount(p, n)
         \/ \E pw \in 0 .. MaxResets : Verify(p, n, pw)
    \/ UserCreateInsert(p) \/ SetupInsert(p)

Cli(p) ==
    \/ \E n \in Names :
         \/ \E r \in Roles : CliCreate(p, n, r) \/ CliCreateIfNone(p, n, r)
         \/ CliReset(p, n)
    \/ CliInsert(p)

Next ==
    \/ \E p \in Procs : Http(p) \/ Cli(p) \/ ResetPassword(p) \/ GiveUp(p)
    \/ \E s \in Sids : SessionGetExpired(s)
    \/ Janitor
    \/ Tick

Spec == Init /\ [][Next]_vars

-----------------------------------------------------------------------------
(* Every variable has the type its column or Go counterpart has. *)
TypeOK ==
    /\ role \in [Names -> Roles \cup {"absent"}]
    /\ disabled \subseteq Names
    /\ password \in [Names -> 0 .. MaxResets]
    /\ origin \in [Names -> Origins]
    /\ owner \in [Sids -> Names \cup {NoName}]
    /\ expires \in [Sids -> Nat]
    /\ sessions \subseteq Sids
    /\ pc \in [Procs -> Places]
    /\ who \in [Procs -> Names \cup {NoName}]
    /\ isAdmin \in [Procs -> BOOLEAN]
    /\ sid \in [Procs -> Sids \cup {NoSid}]
    /\ target \in [Procs -> Names \cup {NoName}]
    /\ asRole \in [Procs -> Roles]
    /\ typed \in [Procs -> 0 .. MaxResets]
    /\ now \in 0 .. MaxTime
    /\ overtaken \subseteq Procs

(* Accounts are only changed by admins: whenever disabled flags change, or *)
(* a handler inserts or resets an account, the request's user is an admin  *)
(* at that very moment, although requireAdmin went by a snapshot taken     *)
(* before the handler hashed the password.                                 *)
ByAdmins ==
    /\ disabled' # disabled =>
         \E p \in Procs : /\ pc[p] = "admitted" /\ pc'[p] = "none"
                          /\ role[who[p]] = "admin"
    /\ \A p \in Procs :
         pc[p] \in {"insert", "reset"} => role[who[p]] = "admin"
AdminOpsByAdmins == [][ByAdmins]_vars

(* A lockout is final on the web: once there are accounts, every admin is  *)
(* disabled and no admin request or setup is under way, no request can get *)
(* an admin back, through /setup, an old session, or a login that read the *)
(* account before it was disabled and starts its session afterwards; only  *)
(* the CLI can.                                                            *)
AdminBusy(p) == pc[p] \in {"admitted", "insert", "reset"} /\ isAdmin[p]
LockedOut ==
    /\ ~Count0
    /\ \A n \in Names : role[n] = "admin" => n \in disabled
    /\ \A p \in Procs : ~AdminBusy(p) /\ pc[p] # "setup"
EndsByCli ==
    LockedOut /\ ~LockedOut' =>
        \E p \in Procs : pc[p] \in {"cliInsert", "cliIfNone"}
LockoutOnlyEndsByCli == [][EndsByCli]_vars

(* "rows live until expiry or logout" (schema.sql:11): a session row goes  *)
(* only once it has expired, or by a logout of a request that came with    *)
(* it; neither the janitor nor anybody else's logout takes it early.       *)
EndsByExpiryOrLogout ==
    \A s \in sessions \ sessions' :
        \/ now > expires[s]
        \/ \E p \in Procs : /\ pc[p] = "admitted" /\ pc'[p] = "none"
                           /\ sid[p] = s
ValidSessionsStay == [][EndsByExpiryOrLogout]_vars

(* A login with a password that has been replaced gets a session only if   *)
(* its row was read before the reset was committed; the variables keep     *)
(* their types.                                                            *)
OldPasswordOnlyIfOvertaken ==
    /\ TypeOK
    /\ \A p \in Procs :
           LoggingIn(p, who[p]) /\ typed[p] # password[who[p]]
               => p \in overtaken

-----------------------------------------------------------------------------
(***************************************************************************)
(* The inductive invariant of AuthProofs.                                  *)
(***************************************************************************)
(* A name without a row is not disabled and has no password. *)
AbsentAreBlank == \A n \in Names : ~Exists(n) => n \notin disabled /\ password[n] = 0

(* A session row belongs to a user that is there: nothing deletes one. *)
SessionsHaveOwners ==
    /\ \A s \in sessions : owner[s] # NoName
    /\ \A s \in Sids : owner[s] # NoName => Exists(owner[s])

(* What each process has in its locals where it is. *)
LocalsFit ==
    \A p \in Procs :
        /\ pc[p] \in {"user", "admitted", "insert", "reset"} =>
               sid[p] \in Sids /\ owner[sid[p]] # NoName
        /\ pc[p] \in {"admitted", "insert", "reset", "session"} =>
               who[p] \in Names /\ Exists(who[p])
        /\ pc[p] \in {"insert", "reset", "setup", "cliInsert", "cliIfNone", "cliReset"} =>
               target[p] \in Names
        /\ pc[p] # "session" => typed[p] = 0

(* The snapshot of the middleware is still right, for no handler changes a *)
(* role; and what only admins may do, only admins have begun.              *)
SnapshotsHold ==
    \A p \in Procs :
        /\ pc[p] \in {"admitted", "insert", "reset"} =>
               isAdmin[p] = (role[who[p]] = "admin")
        /\ pc[p] \in {"insert", "reset"} => isAdmin[p]

IInv ==
    /\ OldPasswordOnlyIfOvertaken
    /\ AbsentAreBlank
    /\ SessionsHaveOwners
    /\ LocalsFit
    /\ SnapshotsHold

-----------------------------------------------------------------------------
(* What the documentation says and the code does not do.                   *)

(* "first run seeds an admin; admins add more users" (README.md:13) and     *)
(* "exit 0 silently if any admin already exists" (cmd/debeasy/admin.go:54):*)
(* the setup page and --if-not-exists seed one admin between them.         *)
Seeded(n) == origin[n] \in {"setup", "cliIfNone"} /\ role[n] = "admin"

AdminSeededOnce == \A m, n \in Names : Seeded(m) /\ Seeded(n) => m = n
=============================================================================
