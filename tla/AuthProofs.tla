------------------------------- MODULE AuthProofs -------------------------------
(***************************************************************************)
(* What Auth promises, for any number of handlers, CLI runs, accounts and  *)
(* sessions.  IInv is preserved by every action; the lemma of an action    *)
(* has one step for each part of it.                                       *)
(***************************************************************************)
EXTENDS Auth, TLAPS

(* At the start there is no account, no session and no request. *)
LEMMA InitIInv == Init => IInv
  BY AuthBounds
  DEF Init, IInv, OldPasswordOnlyIfOvertaken, LoggingIn, AbsentAreBlank,
      SessionsHaveOwners, LocalsFit, SnapshotsHold, TypeOK, Roles, Origins,
      Places

(* A request comes with a session that has a row, and so an owner. *)
LEMMA SessionGetStep ==
  ASSUME IInv, NEW p \in Procs, NEW s \in Sids, SessionGet(p, s)
  PROVE  IInv'
<1> USE AuthBounds, NoNameAssumption, NoSidAssumption
    DEF SessionGet, Goto, userVars, sessVars, locals, IInv, OldPasswordOnlyIfOvertaken, TypeOK
<1>1. TypeOK'
  BY DEF Places
<1>2. (\A q \in Procs :
         LoggingIn(q, who[q]) /\ typed[q] # password[who[q]] => q \in overtaken)'
  BY DEF LoggingIn
<1>3. AbsentAreBlank'
  BY DEF AbsentAreBlank, Exists
<1>4. SessionsHaveOwners'
  BY DEF SessionsHaveOwners, Exists
<1>5. LocalsFit'
  BY DEF LocalsFit, Exists, SessionsHaveOwners
<1>6. SnapshotsHold'
  BY DEF SnapshotsHold
<1> QED
  BY <1>1, <1>2, <1>3, <1>4, <1>5, <1>6

(* An expired row goes; the owners of ids stay on record. *)
LEMMA SessionGetExpiredStep ==
  ASSUME IInv, NEW s \in Sids, SessionGetExpired(s)
  PROVE  IInv'
  BY DEF SessionGetExpired, userVars, locals, IInv, TypeOK,
         OldPasswordOnlyIfOvertaken, LoggingIn, AbsentAreBlank,
         SessionsHaveOwners, LocalsFit, SnapshotsHold, Exists

(* The middleware copies the role of the owner of the session. *)
LEMMA UserGetStep ==
  ASSUME IInv, NEW p \in Procs, UserGet(p)
  PROVE  IInv'
<1> USE AuthBounds, NoNameAssumption, NoSidAssumption
    DEF UserGet, Goto, userVars, sessVars, locals, IInv, OldPasswordOnlyIfOvertaken, TypeOK
<1>1. TypeOK'
  BY DEF LocalsFit, Places
<1>2. (\A q \in Procs :
         LoggingIn(q, who[q]) /\ typed[q] # password[who[q]] => q \in overtaken)'
  BY DEF LoggingIn
<1>3. AbsentAreBlank'
  BY DEF AbsentAreBlank, Exists
<1>4. SessionsHaveOwners'
  BY DEF SessionsHaveOwners, Exists
<1>5. LocalsFit'
  BY DEF LocalsFit, Exists, SessionsHaveOwners
<1>6. SnapshotsHold'
  BY DEF SnapshotsHold
<1> QED
  BY <1>1, <1>2, <1>3, <1>4, <1>5, <1>6

(* A logout removes a row and ends its request. *)
LEMMA LogoutStep ==
  ASSUME IInv, NEW p \in Procs, Logout(p)
  PROVE  IInv'
  BY DEF Logout, Done, Goto, userVars, IInv, TypeOK,
         OldPasswordOnlyIfOvertaken, LoggingIn, AbsentAreBlank,
         SessionsHaveOwners, LocalsFit, SnapshotsHold, Exists, Roles, Places

(* Only accounts that have a row become disabled. *)
LEMMA SetDisabledStep ==
  ASSUME IInv, NEW p \in Procs, NEW n \in Names, NEW b \in BOOLEAN, SetDisabled(p, n, b)
  PROVE  IInv'
<1> USE AuthBounds, NoNameAssumption, NoSidAssumption
    DEF SetDisabled, Done, Goto, userVars, sessVars, locals, IInv, OldPasswordOnlyIfOvertaken, TypeOK
<1>1. TypeOK'
  BY DEF Roles, Places
<1>2. (\A q \in Procs :
         LoggingIn(q, who[q]) /\ typed[q] # password[who[q]] => q \in overtaken)'
  BY DEF LoggingIn
<1>3. AbsentAreBlank'
  BY DEF AbsentAreBlank, Exists
<1>4. SessionsHaveOwners'
  BY DEF SessionsHaveOwners, Exists
<1>5. LocalsFit'
  BY DEF LocalsFit, Exists
<1>6. SnapshotsHold'
  BY DEF SnapshotsHold
<1> QED
  BY <1>1, <1>2, <1>3, <1>4, <1>5, <1>6

(* An admin begins to create an account. *)
LEMMA UserCreateHashStep ==
  ASSUME IInv, NEW p \in Procs, NEW n \in Names, NEW r \in FormRoles, UserCreateHash(p, n, r)
  PROVE  IInv'
  BY DEF UserCreateHash, Goto, Normalised, userVars, sessVars, IInv, TypeOK,
         OldPasswordOnlyIfOvertaken, LoggingIn, AbsentAreBlank,
         SessionsHaveOwners, LocalsFit, SnapshotsHold, Exists, Roles, Places

(* An admin begins to reset a password. *)
LEMMA UserResetHashStep ==
  ASSUME IInv, NEW p \in Procs, NEW n \in Names, UserResetHash(p, n)
  PROVE  IInv'
  BY DEF UserResetHash, Goto, userVars, sessVars, IInv, TypeOK,
         OldPasswordOnlyIfOvertaken, LoggingIn, AbsentAreBlank,
         SessionsHaveOwners, LocalsFit, SnapshotsHold, Exists, Places

(* The account an admin creates had no row, so no snapshot is about it. *)
LEMMA UserCreateInsertStep ==
  ASSUME IInv, NEW p \in Procs, UserCreateInsert(p)
  PROVE  IInv'
<1> USE AuthBounds, NoNameAssumption, NoSidAssumption
    DEF UserCreateInsert, Done, Goto, InsertUser, Origins, userVars, sessVars, locals, IInv, OldPasswordOnlyIfOvertaken, TypeOK
<1>1. TypeOK'
  BY DEF LocalsFit, Roles, Places
<1>2. (\A q \in Procs :
         LoggingIn(q, who[q]) /\ typed[q] # password[who[q]] => q \in overtaken)'
  BY DEF LoggingIn
<1>3. AbsentAreBlank'
  BY DEF AbsentAreBlank, Exists
<1>4. SessionsHaveOwners'
  BY DEF SessionsHaveOwners, Exists
<1>5. LocalsFit'
  BY DEF LocalsFit, Exists
<1>6. SnapshotsHold'
  BY DEF SnapshotsHold, LocalsFit
<1> QED
  BY <1>1, <1>2, <1>3, <1>4, <1>5, <1>6

(* A reset marks every login under way to the account as overtaken. *)
LEMMA ResetPasswordStep ==
  ASSUME IInv, NEW p \in Procs, ResetPassword(p)
  PROVE  IInv'
<1> USE AuthBounds, NoNameAssumption, NoSidAssumption
    DEF ResetPassword, Done, Goto, userVars, sessVars, locals, IInv, OldPasswordOnlyIfOvertaken, TypeOK
<1>1. TypeOK'
  BY DEF LocalsFit, Roles, Places
<1>2. (\A q \in Procs :
         LoggingIn(q, who[q]) /\ typed[q] # password[who[q]] => q \in overtaken)'
  BY DEF LoggingIn
<1>3. AbsentAreBlank'
  BY DEF AbsentAreBlank, Exists
<1>4. SessionsHaveOwners'
  BY DEF SessionsHaveOwners, Exists
<1>5. LocalsFit'
  BY DEF LocalsFit, Exists
<1>6. SnapshotsHold'
  BY DEF SnapshotsHold
<1> QED
  BY <1>1, <1>2, <1>3, <1>4, <1>5, <1>6

(* The setup page has seen no account. *)
LEMMA SetupCountStep ==
  ASSUME IInv, NEW p \in Procs, NEW n \in Names, SetupCount(p, n)
  PROVE  IInv'
  BY DEF SetupCount, Goto, userVars, sessVars, IInv, TypeOK,
         OldPasswordOnlyIfOvertaken, LoggingIn, AbsentAreBlank,
         SessionsHaveOwners, LocalsFit, SnapshotsHold, Exists, Places

(* The setup page logs in the account it has just inserted. *)
LEMMA SetupInsertStep ==
  ASSUME IInv, NEW p \in Procs, SetupInsert(p)
  PROVE  IInv'
<1> USE AuthBounds, NoNameAssumption, NoSidAssumption
    DEF SetupInsert, Goto, InsertUser, Origins, userVars, sessVars, locals, IInv, OldPasswordOnlyIfOvertaken, TypeOK
<1>1. TypeOK'
  BY DEF Roles, Places
<1>2. (\A q \in Procs :
         LoggingIn(q, who[q]) /\ typed[q] # password[who[q]] => q \in overtaken)'
  BY DEF LoggingIn, LocalsFit, AbsentAreBlank
<1>3. AbsentAreBlank'
  BY DEF AbsentAreBlank, Exists
<1>4. SessionsHaveOwners'
  BY DEF SessionsHaveOwners, Exists
<1>5. LocalsFit'
  BY DEF LocalsFit, Exists
<1>6. SnapshotsHold'
  BY DEF SnapshotsHold, LocalsFit
<1> QED
  BY <1>1, <1>2, <1>3, <1>4, <1>5, <1>6

(* A login that compares equal was typed with the current password. *)
LEMMA VerifyStep ==
  ASSUME IInv, NEW p \in Procs, NEW n \in Names, NEW pw \in 0 .. MaxResets, Verify(p, n, pw)
  PROVE  IInv'
<1> USE AuthBounds, NoNameAssumption, NoSidAssumption
    DEF Verify, Goto, userVars, sessVars, locals, IInv, OldPasswordOnlyIfOvertaken, TypeOK
<1>1. TypeOK'
  BY DEF Places
<1>2. (\A q \in Procs :
         LoggingIn(q, who[q]) /\ typed[q] # password[who[q]] => q \in overtaken)'
  BY DEF LoggingIn
<1>3. AbsentAreBlank'
  BY DEF AbsentAreBlank, Exists
<1>4. SessionsHaveOwners'
  BY DEF SessionsHaveOwners, Exists
<1>5. LocalsFit'
  BY DEF LocalsFit, Exists
<1>6. SnapshotsHold'
  BY DEF SnapshotsHold
<1> QED
  BY <1>1, <1>2, <1>3, <1>4, <1>5, <1>6

(* The session row gets the user who logged in. *)
LEMMA StartSessionStep ==
  ASSUME IInv, NEW p \in Procs, NEW s \in Sids, StartSession(p, s)
  PROVE  IInv'
<1> USE AuthBounds, NoNameAssumption, NoSidAssumption
    DEF StartSession, Done, Goto, userVars, sessVars, locals, IInv, OldPasswordOnlyIfOvertaken, TypeOK
<1>1. TypeOK'
  BY DEF Roles, Places
<1>2. (\A q \in Procs :
         LoggingIn(q, who[q]) /\ typed[q] # password[who[q]] => q \in overtaken)'
  BY DEF LoggingIn
<1>3. AbsentAreBlank'
  BY DEF AbsentAreBlank, Exists
<1>4. SessionsHaveOwners'
  BY DEF SessionsHaveOwners, Exists, LocalsFit
<1>5. LocalsFit'
  BY DEF LocalsFit, Exists
<1>6. SnapshotsHold'
  BY DEF SnapshotsHold
<1> QED
  BY <1>1, <1>2, <1>3, <1>4, <1>5, <1>6

(* debeasy admin create, with or without --if-not-exists, begins. *)
LEMMA CliCreateStep ==
  ASSUME IInv, NEW p \in Procs, NEW n \in Names, NEW r \in Roles, CliCreate(p, n, r) \/ CliCreateIfNone(p, n, r)
  PROVE  IInv'
  BY DEF CliCreate, Goto, CliCreateIfNone, userVars, sessVars, IInv, TypeOK,
         OldPasswordOnlyIfOvertaken, LoggingIn, AbsentAreBlank,
         SessionsHaveOwners, LocalsFit, SnapshotsHold, Exists, Places

(* The account the CLI inserts had no row either. *)
LEMMA CliInsertStep ==
  ASSUME IInv, NEW p \in Procs, CliInsert(p)
  PROVE  IInv'
<1> USE AuthBounds, NoNameAssumption, NoSidAssumption
    DEF CliInsert, Done, Goto, InsertUser, Origins, userVars, sessVars, locals, IInv, OldPasswordOnlyIfOvertaken, TypeOK
<1>1. TypeOK'
  BY DEF LocalsFit, Roles, Places
<1>2. (\A q \in Procs :
         LoggingIn(q, who[q]) /\ typed[q] # password[who[q]] => q \in overtaken)'
  BY DEF LoggingIn
<1>3. AbsentAreBlank'
  BY DEF AbsentAreBlank, Exists
<1>4. SessionsHaveOwners'
  BY DEF SessionsHaveOwners, Exists
<1>5. LocalsFit'
  BY DEF LocalsFit, Exists
<1>6. SnapshotsHold'
  BY DEF SnapshotsHold, LocalsFit
<1> QED
  BY <1>1, <1>2, <1>3, <1>4, <1>5, <1>6

(* debeasy admin reset-password begins. *)
LEMMA CliResetStep ==
  ASSUME IInv, NEW p \in Procs, NEW n \in Names, CliReset(p, n)
  PROVE  IInv'
  BY DEF CliReset, Goto, userVars, sessVars, IInv, TypeOK,
         OldPasswordOnlyIfOvertaken, LoggingIn, AbsentAreBlank,
         SessionsHaveOwners, LocalsFit, SnapshotsHold, Exists, Places

(* The janitor removes rows and nothing else. *)
LEMMA JanitorStep ==
  ASSUME IInv, Janitor
  PROVE  IInv'
  BY DEF Janitor, userVars, locals, IInv, TypeOK, OldPasswordOnlyIfOvertaken,
         LoggingIn, AbsentAreBlank, SessionsHaveOwners, LocalsFit,
         SnapshotsHold, Exists

(* Time goes by. *)
LEMMA TickStep ==
  ASSUME IInv, Tick
  PROVE  IInv'
  BY AuthBounds
  DEF Tick, userVars, sessVars, locals, IInv, TypeOK,
      OldPasswordOnlyIfOvertaken, LoggingIn, AbsentAreBlank,
      SessionsHaveOwners, LocalsFit, SnapshotsHold, Exists

(* A request that ends without effect forgets its locals. *)
LEMMA GiveUpStep ==
  ASSUME IInv, NEW p \in Procs, GiveUp(p)
  PROVE  IInv'
  BY AuthBounds
  DEF GiveUp, Done, Goto, userVars, sessVars, IInv, TypeOK,
      OldPasswordOnlyIfOvertaken, LoggingIn, AbsentAreBlank,
      SessionsHaveOwners, LocalsFit, SnapshotsHold, Exists, Roles, Places


(* The invariant is inductive. *)
LEMMA Inductive == IInv /\ [Next]_vars => IInv'
<1> SUFFICES ASSUME IInv, [Next]_vars PROVE IInv'
  OBVIOUS
<1>1. CASE UNCHANGED vars
  BY <1>1
  DEF vars, userVars, sessVars, locals, IInv, TypeOK,
      OldPasswordOnlyIfOvertaken, LoggingIn, AbsentAreBlank,
      SessionsHaveOwners, LocalsFit, SnapshotsHold, Exists
<1>2. ASSUME NEW p \in Procs, Http(p) PROVE IInv'
  BY <1>2, SessionGetStep, StartSessionStep, UserGetStep, LogoutStep,
     SetDisabledStep, UserCreateHashStep, UserResetHashStep, SetupCountStep,
     VerifyStep, UserCreateInsertStep, SetupInsertStep
  DEF Http
<1>3. ASSUME NEW p \in Procs, Cli(p) PROVE IInv'
  BY <1>3, CliCreateStep, CliResetStep, CliInsertStep DEF Cli
<1> QED
  BY <1>1, <1>2, <1>3, ResetPasswordStep, GiveUpStep, SessionGetExpiredStep,
     JanitorStep, TickStep
  DEF Next

(* Every reachable state is as IInv describes it. *)
THEOREM Invariant == Spec => []IInv
  BY InitIInv, Inductive, PTL DEF Spec

(* Type correctness. *)
THEOREM TypeCorrect == Spec => []TypeOK
<1>1. IInv => TypeOK
  BY DEF IInv, OldPasswordOnlyIfOvertaken
<1> QED
  BY <1>1, Invariant, PTL

(* A login with a password that has been replaced gets a session only if   *)
(* Verify had read the row before ResetPassword's UPDATE.                  *)
THEOREM OldPasswords == Spec => []OldPasswordOnlyIfOvertaken
<1>1. IInv => OldPasswordOnlyIfOvertaken
  BY DEF IInv
<1> QED
  BY <1>1, Invariant, PTL

(* The disabled flags change only in handleUserSetDisabled, and an account *)
(* is created or reset over HTTP only behind requireAdmin: roles do not    *)
(* change, so the snapshot it went by is right when the statement runs.    *)
THEOREM OnlyAdminsAdminister == Spec => AdminOpsByAdmins
<1>1. IInv /\ [Next]_vars => ByAdmins
  <2> SUFFICES ASSUME IInv, [Next]_vars PROVE ByAdmins
    OBVIOUS
  <2>1. \A p \in Procs : pc[p] \in {"insert", "reset"} => role[who[p]] = "admin"
    BY DEF IInv, SnapshotsHold
  <2>2. ASSUME disabled' # disabled
        PROVE  \E p \in Procs : /\ pc[p] = "admitted" /\ pc'[p] = "none"
                                /\ role[who[p]] = "admin"
    <3>1. PICK p \in Procs : \E n \in Names, b \in BOOLEAN : SetDisabled(p, n, b)
      BY <2>2
      DEF Next, Http, Cli, vars, userVars, InsertUser, SessionGet,
          StartSession, UserGet, Logout, UserCreateHash, UserResetHash,
          SetupCount, Verify, UserCreateInsert, SetupInsert, CliCreate,
          CliCreateIfNone, CliReset, CliInsert, ResetPassword, GiveUp,
          SessionGetExpired, Janitor, Tick
    <3>2. pc[p] = "admitted" /\ pc'[p] = "none" /\ isAdmin[p]
      BY <3>1
      DEF SetDisabled, Done, Goto, IInv, OldPasswordOnlyIfOvertaken, TypeOK
    <3> QED
      BY <3>2 DEF IInv, SnapshotsHold
  <2> QED
    BY <2>1, <2>2 DEF ByAdmins
<1> QED
  BY <1>1, Invariant, PTL DEF Spec, AdminOpsByAdmins

(* A session row goes when it has expired (Sessions.Get, PurgeExpired) or  *)
(* by the logout of a request that came with it.                           *)
THEOREM SessionsLive == Spec => ValidSessionsStay
<1>1. IInv /\ [Next]_vars => EndsByExpiryOrLogout
  <2> SUFFICES ASSUME IInv, [Next]_vars, NEW s \in sessions \ sessions',
                      ~(now > expires[s])
               PROVE  \E p \in Procs : /\ pc[p] = "admitted" /\ pc'[p] = "none"
                                       /\ sid[p] = s
    BY DEF EndsByExpiryOrLogout
  <2>1. \E p \in Procs : Logout(p)
    <3>1. \A z \in Sids : ~SessionGetExpired(z)
      BY DEF SessionGetExpired
    <3>2. ~Janitor
      BY DEF Janitor, Expired
    <3> QED
      BY <3>1, <3>2
      DEF Next, Http, Cli, vars, sessVars, SessionGet, StartSession, UserGet,
          SetDisabled, UserCreateHash, UserResetHash, SetupCount, Verify,
          UserCreateInsert, SetupInsert, CliCreate, CliCreateIfNone, CliReset,
          CliInsert, ResetPassword, GiveUp, Tick
  <2> QED
    BY <2>1 DEF Logout, Done, Goto, IInv, OldPasswordOnlyIfOvertaken, TypeOK
<1> QED
  BY <1>1, Invariant, PTL DEF Spec, ValidSessionsStay

(* No step of a handler ends a lockout: the only disabled flags that could *)
(* be cleared and the only admins that could be added are behind an admin  *)
(* request or a setup that counted no user, and neither can begin.         *)
LEMMA LockoutHolds ==
  ASSUME IInv, [Next]_vars, LockedOut,
         \A p \in Procs : pc[p] \notin {"cliInsert", "cliIfNone"}
  PROVE  LockedOut'
<1> USE DEF LockedOut, AdminBusy, Count0, Exists
<1>1. \A p \in Procs : pc[p] \notin {"insert", "reset"}
  BY DEF IInv, SnapshotsHold
<1>2. CASE UNCHANGED vars
  BY <1>2 DEF vars, userVars, locals
<1>3. ASSUME NEW p \in Procs, UserGet(p) PROVE LockedOut'
  <2>1. owner[sid[p]] \in Names
    BY <1>3 DEF UserGet, IInv, LocalsFit, OldPasswordOnlyIfOvertaken, TypeOK
  <2>2. ~isAdmin'[p]
    BY <1>3, <2>1 DEF UserGet, IInv, OldPasswordOnlyIfOvertaken, TypeOK
  <2> QED
    BY <1>3, <2>2 DEF UserGet, Goto, userVars
<1>4. ASSUME NEW p \in Procs, Http(p), ~UserGet(p) PROVE LockedOut'
  BY <1>1, <1>4
  DEF Http, userVars, Goto, Done, SessionGet, StartSession, Logout,
      SetDisabled, UserCreateHash, UserResetHash, SetupCount, Verify,
      UserCreateInsert, SetupInsert, IInv, OldPasswordOnlyIfOvertaken, TypeOK
<1>5. ASSUME NEW p \in Procs, Cli(p) \/ ResetPassword(p) \/ GiveUp(p) PROVE LockedOut'
  BY <1>5
  DEF Cli, CliCreate, CliCreateIfNone, CliReset, CliInsert, ResetPassword,
      GiveUp, Goto, Done, userVars, IInv, OldPasswordOnlyIfOvertaken, TypeOK
<1>6. CASE Janitor \/ Tick \/ \E s \in Sids : SessionGetExpired(s)
  BY <1>6 DEF Janitor, Tick, SessionGetExpired, userVars, locals
<1> QED
  BY <1>2, <1>3, <1>4, <1>5, <1>6 DEF Next

(* A lockout is final on the web; only an insert of the CLI ends it.       *)
THEOREM LockoutIsFinal == Spec => LockoutOnlyEndsByCli
<1>1. IInv /\ [Next]_vars => EndsByCli
  BY LockoutHolds DEF EndsByCli
<1> QED
  BY <1>1, Invariant, PTL DEF Spec, LockoutOnlyEndsByCli
=============================================================================
