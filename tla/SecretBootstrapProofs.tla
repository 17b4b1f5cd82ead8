------------------------- MODULE SecretBootstrapProofs -------------------------
(***************************************************************************)
(* What SecretBootstrap promises, for any number of servers, CLI runs and  *)
(* secrets.  The invariant is proved action by action; a step that leaves  *)
(* its variables alone preserves it trivially.                             *)
(***************************************************************************)
EXTENDS SecretBootstrap, TLAPS

(* At the start there is no file and every process is down.                *)
LEMMA InitIInv == Init => IInv
  BY FileAssumption
  DEF Init, IInv, TypeOK, OneCreator, CreatorsView, TornHasAuthor, SecretsHeld,
      SealsSurviveRestart, RefusedOnlyIfCut, Creating, Labels, Procs

(* A server that finds no file, or cannot read it, joins the creators. *)
LEMMA ReadMissingStep ==
  ASSUME IInv, NEW p \in Procs, ReadMissing(p)
  PROVE  IInv'
<1> USE FileAssumption DEF ReadMissing, Goto, Look, Procs, history
<1>1. TypeOK'
  BY DEF IInv, TypeOK, Labels, SecretsHeld
<1>2. OneCreator'
  BY DEF IInv, TypeOK, OneCreator, Creating
<1>3. CreatorsView'
  BY DEF IInv, TypeOK, OneCreator, CreatorsView, SecretsHeld, Creating
<1>4. TornHasAuthor'
  BY DEF IInv, TypeOK, TornHasAuthor, SecretsHeld
<1>5. SecretsHeld'
  BY DEF IInv, TypeOK, SecretsHeld
<1>6. SealsSurviveRestart'
  BY DEF IInv, TypeOK, SealsSurviveRestart, SecretsHeld, CreatorsView, OneCreator, Creating
<1>7. RefusedOnlyIfCut'
  BY DEF IInv, TypeOK, RefusedOnlyIfCut, TornHasAuthor, Creating
<1> QED  BY <1>1, <1>2, <1>3, <1>4, <1>5, <1>6, <1>7 DEF IInv

(* A server that reads a secret holds the one in the file. *)
LEMMA ReadSecretStep ==
  ASSUME IInv, NEW p \in Procs, ReadSecret(p)
  PROVE  IInv'
<1> USE FileAssumption DEF ReadSecret, Goto, Look, Procs, history
<1>1. TypeOK'
  BY DEF IInv, TypeOK, Labels, SecretsHeld
<1>2. OneCreator'
  BY DEF IInv, TypeOK, OneCreator, Creating
<1>3. CreatorsView'
  BY DEF IInv, TypeOK, OneCreator, CreatorsView, SecretsHeld, Creating
<1>4. TornHasAuthor'
  BY DEF IInv, TypeOK, TornHasAuthor, SecretsHeld
<1>5. SecretsHeld'
  BY DEF IInv, TypeOK, SecretsHeld
<1>6. SealsSurviveRestart'
  BY DEF IInv, TypeOK, SealsSurviveRestart, SecretsHeld, CreatorsView, OneCreator, Creating
<1>7. RefusedOnlyIfCut'
  BY DEF IInv, TypeOK, RefusedOnlyIfCut, TornHasAuthor, Creating
<1> QED  BY <1>1, <1>2, <1>3, <1>4, <1>5, <1>6, <1>7 DEF IInv

(* A server that reads a torn file sees a write under way or a cut one. *)
LEMMA ReadTornStep ==
  ASSUME IInv, NEW p \in Procs, ReadTorn(p)
  PROVE  IInv'
<1> USE FileAssumption DEF ReadTorn, Goto, Look, Procs, history
<1>1. TypeOK'
  BY DEF IInv, TypeOK, Labels, SecretsHeld
<1>2. OneCreator'
  BY DEF IInv, TypeOK, OneCreator, Creating
<1>3. CreatorsView'
  BY DEF IInv, TypeOK, OneCreator, CreatorsView, SecretsHeld, Creating
<1>4. TornHasAuthor'
  BY DEF IInv, TypeOK, TornHasAuthor, SecretsHeld
<1>5. SecretsHeld'
  BY DEF IInv, TypeOK, SecretsHeld
<1>6. SealsSurviveRestart'
  BY DEF IInv, TypeOK, SealsSurviveRestart, SecretsHeld, CreatorsView, OneCreator, Creating
<1>7. RefusedOnlyIfCut'
  BY DEF IInv, TypeOK, RefusedOnlyIfCut, TornHasAuthor, Creating
<1> QED  BY <1>1, <1>2, <1>3, <1>4, <1>5, <1>6, <1>7 DEF IInv

(* A CLI run that finds no file joins the creators. *)
LEMMA StatMissingStep ==
  ASSUME IInv, NEW p \in Procs, StatMissing(p)
  PROVE  IInv'
<1> USE FileAssumption DEF StatMissing, Goto, Look, Procs, history
<1>1. TypeOK'
  BY DEF IInv, TypeOK, Labels, SecretsHeld
<1>2. OneCreator'
  BY DEF IInv, TypeOK, OneCreator, Creating
<1>3. CreatorsView'
  BY DEF IInv, TypeOK, OneCreator, CreatorsView, SecretsHeld, Creating
<1>4. TornHasAuthor'
  BY DEF IInv, TypeOK, TornHasAuthor, SecretsHeld
<1>5. SecretsHeld'
  BY DEF IInv, TypeOK, SecretsHeld
<1>6. SealsSurviveRestart'
  BY DEF IInv, TypeOK, SealsSurviveRestart, SecretsHeld, CreatorsView, OneCreator, Creating
<1>7. RefusedOnlyIfCut'
  BY DEF IInv, TypeOK, RefusedOnlyIfCut, TornHasAuthor, Creating
<1> QED  BY <1>1, <1>2, <1>3, <1>4, <1>5, <1>6, <1>7 DEF IInv

(* A CLI run that finds a file leaves it alone. *)
LEMMA StatPresentStep ==
  ASSUME IInv, NEW p \in Procs, StatPresent(p)
  PROVE  IInv'
<1> USE FileAssumption DEF StatPresent, Goto, Look, Procs, history
<1>1. TypeOK'
  BY DEF IInv, TypeOK, Labels, SecretsHeld
<1>2. OneCreator'
  BY DEF IInv, TypeOK, OneCreator, Creating
<1>3. CreatorsView'
  BY DEF IInv, TypeOK, OneCreator, CreatorsView, SecretsHeld, Creating
<1>4. TornHasAuthor'
  BY DEF IInv, TypeOK, TornHasAuthor, SecretsHeld
<1>5. SecretsHeld'
  BY DEF IInv, TypeOK, SecretsHeld
<1>6. SealsSurviveRestart'
  BY DEF IInv, TypeOK, SealsSurviveRestart, SecretsHeld, CreatorsView, OneCreator, Creating
<1>7. RefusedOnlyIfCut'
  BY DEF IInv, TypeOK, RefusedOnlyIfCut, TornHasAuthor, Creating
<1> QED  BY <1>1, <1>2, <1>3, <1>4, <1>5, <1>6, <1>7 DEF IInv

(* A creator that is alone truncates nothing but an absent file. *)
LEMMA TruncateStep ==
  ASSUME IInv, NEW p \in Procs, Truncate(p)
  PROVE  IInv'
<1> USE FileAssumption DEF Truncate, Goto, Look, Procs, history
<1>1. TypeOK'
  BY DEF IInv, TypeOK, Labels, SecretsHeld
<1>2. OneCreator'
  BY DEF IInv, TypeOK, OneCreator, Creating
<1>3. CreatorsView'
  BY DEF IInv, TypeOK, OneCreator, CreatorsView, SecretsHeld, Creating
<1>4. TornHasAuthor'
  BY DEF IInv, TypeOK, TornHasAuthor, SecretsHeld
<1>5. SecretsHeld'
  BY DEF IInv, TypeOK, SecretsHeld
<1>6. SealsSurviveRestart'
  BY DEF IInv, TypeOK, SealsSurviveRestart, SecretsHeld, CreatorsView, OneCreator, Creating
<1>7. RefusedOnlyIfCut'
  BY DEF IInv, TypeOK, RefusedOnlyIfCut, TornHasAuthor, Creating
<1> QED  BY <1>1, <1>2, <1>3, <1>4, <1>5, <1>6, <1>7 DEF IInv

(* A creator that cannot open the file leaves. *)
LEMMA CreateFailStep ==
  ASSUME IInv, NEW p \in Procs, CreateFail(p)
  PROVE  IInv'
<1> USE FileAssumption DEF CreateFail, Goto, Look, Procs, history
<1>1. TypeOK'
  BY DEF IInv, TypeOK, Labels, SecretsHeld
<1>2. OneCreator'
  BY DEF IInv, TypeOK, OneCreator, Creating
<1>3. CreatorsView'
  BY DEF IInv, TypeOK, OneCreator, CreatorsView, SecretsHeld, Creating
<1>4. TornHasAuthor'
  BY DEF IInv, TypeOK, TornHasAuthor, SecretsHeld
<1>5. SecretsHeld'
  BY DEF IInv, TypeOK, SecretsHeld
<1>6. SealsSurviveRestart'
  BY DEF IInv, TypeOK, SealsSurviveRestart, SecretsHeld, CreatorsView, OneCreator, Creating
<1>7. RefusedOnlyIfCut'
  BY DEF IInv, TypeOK, RefusedOnlyIfCut, TornHasAuthor, Creating
<1> QED  BY <1>1, <1>2, <1>3, <1>4, <1>5, <1>6, <1>7 DEF IInv

(* The writer replaces the torn file by its own secret. *)
LEMMA WriteStep ==
  ASSUME IInv, NEW p \in Procs, Write(p)
  PROVE  IInv'
<1> USE FileAssumption DEF Write, Goto, Look, Procs, history
<1>1. TypeOK'
  BY DEF IInv, TypeOK, Labels, SecretsHeld
<1>2. OneCreator'
  BY DEF IInv, TypeOK, OneCreator, Creating
<1>3. CreatorsView'
  BY DEF IInv, TypeOK, OneCreator, CreatorsView, SecretsHeld, Creating
<1>4. TornHasAuthor'
  BY DEF IInv, TypeOK, TornHasAuthor, SecretsHeld
<1>5. SecretsHeld'
  BY DEF IInv, TypeOK, SecretsHeld
<1>6. SealsSurviveRestart'
  BY DEF IInv, TypeOK, SealsSurviveRestart, SecretsHeld, CreatorsView, OneCreator, Creating
<1>7. RefusedOnlyIfCut'
  BY DEF IInv, TypeOK, RefusedOnlyIfCut, TornHasAuthor, Creating
<1> QED  BY <1>1, <1>2, <1>3, <1>4, <1>5, <1>6, <1>7 DEF IInv

(* A failed write is remembered as cut. *)
LEMMA WriteFailStep ==
  ASSUME IInv, NEW p \in Procs, WriteFail(p)
  PROVE  IInv'
<1> USE FileAssumption DEF WriteFail, Goto, Look, Procs, history
<1>1. TypeOK'
  BY DEF IInv, TypeOK, Labels, SecretsHeld
<1>2. OneCreator'
  BY DEF IInv, TypeOK, OneCreator, Creating
<1>3. CreatorsView'
  BY DEF IInv, TypeOK, OneCreator, CreatorsView, SecretsHeld, Creating
<1>4. TornHasAuthor'
  BY DEF IInv, TypeOK, TornHasAuthor, SecretsHeld
<1>5. SecretsHeld'
  BY DEF IInv, TypeOK, SecretsHeld
<1>6. SealsSurviveRestart'
  BY DEF IInv, TypeOK, SealsSurviveRestart, SecretsHeld, CreatorsView, OneCreator, Creating
<1>7. RefusedOnlyIfCut'
  BY DEF IInv, TypeOK, RefusedOnlyIfCut, TornHasAuthor, Creating
<1> QED  BY <1>1, <1>2, <1>3, <1>4, <1>5, <1>6, <1>7 DEF IInv

(* A server that gets the address, or not, keeps its secret. *)
LEMMA ListenStep ==
  ASSUME IInv, NEW p \in Procs, Listen(p)
  PROVE  IInv'
<1> USE FileAssumption DEF Listen, Goto, Look, Procs, history
<1>1. TypeOK'
  BY DEF IInv, TypeOK, Labels, SecretsHeld
<1>2. OneCreator'
  BY DEF IInv, TypeOK, OneCreator, Creating
<1>3. CreatorsView'
  BY DEF IInv, TypeOK, OneCreator, CreatorsView, SecretsHeld, Creating
<1>4. TornHasAuthor'
  BY DEF IInv, TypeOK, TornHasAuthor, SecretsHeld
<1>5. SecretsHeld'
  BY DEF IInv, TypeOK, SecretsHeld
<1>6. SealsSurviveRestart'
  BY DEF IInv, TypeOK, SealsSurviveRestart, SecretsHeld, CreatorsView, OneCreator, Creating
<1>7. RefusedOnlyIfCut'
  BY DEF IInv, TypeOK, RefusedOnlyIfCut, TornHasAuthor, Creating
<1> QED  BY <1>1, <1>2, <1>3, <1>4, <1>5, <1>6, <1>7 DEF IInv

(* A password is sealed with the secret of the server that is up. *)
LEMMA SavePasswordStep ==
  ASSUME IInv, NEW p \in Procs, SavePassword(p)
  PROVE  IInv'
<1> USE FileAssumption DEF SavePassword, Goto, Look, Procs, history
<1>1. TypeOK'
  BY DEF IInv, TypeOK, Labels, SecretsHeld
<1>2. OneCreator'
  BY DEF IInv, TypeOK, OneCreator, Creating
<1>3. CreatorsView'
  BY DEF IInv, TypeOK, OneCreator, CreatorsView, SecretsHeld, Creating
<1>4. TornHasAuthor'
  BY DEF IInv, TypeOK, TornHasAuthor, SecretsHeld
<1>5. SecretsHeld'
  BY DEF IInv, TypeOK, SecretsHeld
<1>6. SealsSurviveRestart'
  BY DEF IInv, TypeOK, SealsSurviveRestart, SecretsHeld, CreatorsView, OneCreator, Creating
<1>7. RefusedOnlyIfCut'
  BY DEF IInv, TypeOK, RefusedOnlyIfCut, TornHasAuthor, Creating
<1> QED  BY <1>1, <1>2, <1>3, <1>4, <1>5, <1>6, <1>7 DEF IInv

(* A process that ends while it writes leaves a cut write. *)
LEMMA ExitStep ==
  ASSUME IInv, NEW p \in Procs, Exit(p)
  PROVE  IInv'
<1> USE FileAssumption DEF Exit, Goto, Look, Procs, history
<1>1. TypeOK'
  BY DEF IInv, TypeOK, Labels, SecretsHeld
<1>2. OneCreator'
  BY DEF IInv, TypeOK, OneCreator, Creating
<1>3. CreatorsView'
  BY DEF IInv, TypeOK, OneCreator, CreatorsView, SecretsHeld, Creating
<1>4. TornHasAuthor'
  BY DEF IInv, TypeOK, TornHasAuthor, SecretsHeld
<1>5. SecretsHeld'
  BY DEF IInv, TypeOK, SecretsHeld
<1>6. SealsSurviveRestart'
  BY DEF IInv, TypeOK, SealsSurviveRestart, SecretsHeld, CreatorsView, OneCreator, Creating
<1>7. RefusedOnlyIfCut'
  BY DEF IInv, TypeOK, RefusedOnlyIfCut, TornHasAuthor, Creating
<1> QED  BY <1>1, <1>2, <1>3, <1>4, <1>5, <1>6, <1>7 DEF IInv

(* Every step preserves the invariant.                                     *)
LEMMA IInvStep == IInv /\ [Next]_vars => IInv'
<1> SUFFICES ASSUME IInv, [Next]_vars PROVE IInv'
  OBVIOUS
<1>1. CASE UNCHANGED vars
  BY <1>1
  DEF vars, IInv, TypeOK, OneCreator, CreatorsView, TornHasAuthor, SecretsHeld,
      SealsSurviveRestart, RefusedOnlyIfCut, Creating
<1>2. CASE Next
  BY <1>2, ReadMissingStep, ReadSecretStep, ReadTornStep, StatMissingStep,
     StatPresentStep, TruncateStep, CreateFailStep, WriteStep,
     WriteFailStep, ListenStep, SavePasswordStep, ExitStep
  DEF Next
<1> QED  BY <1>1, <1>2

(* The inductive invariant holds of every run.                             *)
THEOREM Inductive == Spec => []IInv
<1> QED  BY InitIInv, IInvStep, PTL DEF Spec

(* Type correctness: no secret is in use that was not drawn.               *)
THEOREM TypeCorrect == Spec => []TypeOK
<1>1. IInv => TypeOK
  BY DEF IInv
<1> QED  BY Inductive, <1>1, PTL

(* Without a race or a failed read, seals survive every restart.           *)
THEOREM SealsSurvive == Spec => []SealsSurviveRestart
<1>1. IInv => SealsSurviveRestart
  BY DEF IInv
<1> QED  BY Inductive, <1>1, PTL

(* Servers refuse to start only because of a race or a cut write.          *)
THEOREM RefusalsExplained == Spec => []RefusedOnlyIfCut
<1>1. IInv => RefusedOnlyIfCut
  BY DEF IInv
<1> QED  BY Inductive, <1>1, PTL

(* A settled secret is replaced only after a race or a failed read.        *)
THEOREM SettledStays == Spec => SecretStays
<1>1. IInv /\ [Next]_vars =>
        [(file \in Secrets /\ file' # file) => (raced \/ misread)]_vars
  BY FileAssumption
  DEF IInv, TypeOK, CreatorsView, Next, vars, ReadMissing, ReadSecret, ReadTorn,
      StatMissing, StatPresent, Truncate, CreateFail, Write, WriteFail, Listen,
      SavePassword, Exit, Goto, Look, Procs, history
<1> QED  BY Inductive, <1>1, PTL DEF Spec, SecretStays
=============================================================================
