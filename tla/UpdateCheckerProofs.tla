-------------------------- MODULE UpdateCheckerProofs --------------------------
(***************************************************************************)
(* What UpdateChecker promises, for any set of versions.  The theorems are *)
(* about Spec and so hold of FairSpec, which implies it.                   *)
(***************************************************************************)
EXTENDS UpdateChecker, SequenceTheorems, TLAPS

-----------------------------------------------------------------------------
(* Newer is the strict order of versions of three numbers: it decides as   *)
(* the dictionary does (parseSemver, Newer).                               *)
LEMMA NewerIsAfter ==
  ASSUME NEW l \in Tags, NEW c \in Tags
  PROVE  Newer(l, c) <=> Parses(l) /\ Parses(c) /\ ~NotAfter(l, c)
<1> DEFINE After(i) == l[i] > c[i] /\ \A j \in 1 .. i - 1 : l[j] = c[j]
<1>1. l \in Seq(Nat) /\ c \in Seq(Nat)
  BY CheckerAssumption
<1> SUFFICES ASSUME Len(l) = 4, Len(c) = 4
             PROVE  Newer(l, c) <=> ~NotAfter(l, c)
  BY DEF Newer, Parses
<1>2. \A i \in 1 .. 3 : l[i] \in Nat /\ c[i] \in Nat
  <2> SUFFICES ASSUME NEW i \in 1 .. 3 PROVE l[i] \in Nat /\ c[i] \in Nat
    OBVIOUS
  <2>1. i \in 1 .. Len(l) /\ i \in 1 .. Len(c)
    OBVIOUS
  <2> QED
    BY <1>1, <2>1, ElementOfSeq
<1>3. Newer(l, c) <=> \/ l[1] > c[1]
                      \/ l[1] = c[1] /\ l[2] > c[2]
                      \/ l[1] = c[1] /\ l[2] = c[2] /\ l[3] > c[3]
  <2>1. Newer(l, c) <=> \E i \in 1 .. 3 : After(i)
    BY DEF Newer, Parses
  <2>2. After(1) <=> l[1] > c[1]
    OBVIOUS
  <2>3. After(2) <=> l[1] = c[1] /\ l[2] > c[2]
    OBVIOUS
  <2>4. After(3) <=> l[1] = c[1] /\ l[2] = c[2] /\ l[3] > c[3]
    OBVIOUS
  <2>5. \A i \in 1 .. 3 : i = 1 \/ i = 2 \/ i = 3
    OBVIOUS
  <2> HIDE DEF After
  <2> QED
    BY <2>1, <2>2, <2>3, <2>4
<1> QED
  BY <1>2, <1>3 DEF NotAfter

(* What Load takes from a file is newer than the running version, or       *)
(* nothing; a release that is newer is restored as it was.                 *)
LEMMA LoadedIsNewer ==
  ASSUME NEW f, NEW c
  PROVE  /\ Loaded(f, c) \in Tags \cup {None}
         /\ Loaded(f, c) # None => Newer(Loaded(f, c), c)
         /\ f \in Tags /\ Newer(f, c) => Loaded(f, c) = f
         /\ f \notin Tags => Loaded(f, c) = None
  BY DEF Loaded

-----------------------------------------------------------------------------
(* Before the server starts there is no banner and no file. *)
LEMMA InitIInv == Init => IInv
  BY DEF Init, IInv, TypeOK, MemoryIsNewer, SavesTheMemory, FileMatchesMemory

(* Load at boot: memory and file agree from the start. *)
LEMMA BootStep == IInv /\ Boot => IInv'
<1> SUFFICES ASSUME IInv, Boot PROVE IInv'
  OBVIOUS
<1>1. TypeOK'
  BY LoadedIsNewer DEF IInv, TypeOK, Boot, world
<1>2. MemoryIsNewer'
  BY LoadedIsNewer DEF Boot, MemoryIsNewer
<1>3. SavesTheMemory'
  BY DEF Boot, SavesTheMemory
<1>4. FileMatchesMemory'
  BY DEF Boot, FileMatchesMemory
<1> QED
  BY <1>1, <1>2, <1>3, <1>4 DEF IInv

(* A request that ends without an answer about a release changes nothing. *)
LEMMA AskStep == IInv /\ (Ask \/ AskFail \/ AnswerPassed) => IInv'
  BY DEF IInv, TypeOK, MemoryIsNewer, SavesTheMemory, FileMatchesMemory, world,
         Ask, AskFail, AnswerPassed

(* clear: the memory first, then the file, or the file is left behind. *)
LEMMA ClearStep == IInv /\ (AnswerClear \/ Remove) => IInv'
<1>1. Loaded(None, current) = None
  BY LoadedIsNewer, CheckerAssumption
<1> QED
  BY <1>1
  DEF IInv, TypeOK, MemoryIsNewer, SavesTheMemory, FileMatchesMemory, world,
      AnswerClear, Remove

(* A newer release is put in memory and then written beside the cache. *)
LEMMA WriteStep == IInv /\ (AnswerNewer \/ WriteTmp \/ WriteTmpFail) => IInv'
  BY CheckerAssumption
  DEF IInv, TypeOK, MemoryIsNewer, SavesTheMemory, FileMatchesMemory, world,
      AnswerNewer, WriteTmp, WriteTmpFail

(* The rename installs what is in memory: the temporary file is complete.  *)
LEMMA RenameStep == IInv /\ RenameTmp => IInv'
<1> SUFFICES ASSUME IInv, RenameTmp PROVE IInv'
  OBVIOUS
<1>1. tmp = latest /\ latest \in Tags /\ Newer(latest, current)
  BY DEF IInv, TypeOK, MemoryIsNewer, SavesTheMemory, RenameTmp
<1>2. TypeOK' /\ MemoryIsNewer' /\ SavesTheMemory'
  BY DEF IInv, TypeOK, MemoryIsNewer, SavesTheMemory, RenameTmp, world
<1>3. FileMatchesMemory'
  BY <1>1, LoadedIsNewer DEF RenameTmp, FileMatchesMemory
<1> QED
  BY <1>2, <1>3 DEF IInv

(* The process ends, or the machine does; the memory is gone. *)
LEMMA EndStep == IInv /\ (Stop \/ PowerLoss) => IInv'
  BY DEF IInv, TypeOK, MemoryIsNewer, SavesTheMemory, FileMatchesMemory, world,
         Stop, PowerLoss

(* What goes on at GitHub and on the disk does not reach the checker. *)
LEMMA WorldStep == IInv /\ (Upgrade \/ Publish \/ Reach \/ UNCHANGED vars) => IInv'
  BY DEF IInv, TypeOK, MemoryIsNewer, SavesTheMemory, FileMatchesMemory, vars,
         Upgrade, Publish, Reach

(* Every reachable state is as IInv describes it. *)
THEOREM Invariant == Spec => []IInv
<1>1. IInv /\ [Next]_vars => IInv'
  BY BootStep, AskStep, ClearStep, WriteStep, RenameStep, EndStep, WorldStep
  DEF Next, Check
<1> QED
  BY <1>1, InitIInv, PTL DEF Spec

-----------------------------------------------------------------------------
(* Type correctness. *)
THEOREM TypeCorrect == Spec => []TypeOK
<1>1. IInv => TypeOK
  BY DEF IInv
<1> QED
  BY <1>1, Invariant, PTL

(* The banner never offers the running version or an older one, and none   *)
(* on a development build (Load, Check, Newer).                            *)
THEOREM OnlyNewerIsOffered == Spec => []BannerIsNewer
<1>1. IInv => BannerIsNewer
  BY NewerIsAfter DEF IInv, TypeOK, MemoryIsNewer, BannerIsNewer
<1> QED
  BY <1>1, Invariant, PTL

(* Between checks the cache file restores what the memory shows, unless    *)
(* saving it failed (Check, clear, writeCache), or reading it did at the   *)
(* start (Load), when there is no banner.                                  *)
THEOREM RestartKeepsBanner == Spec => []BannerSurvivesRestart
<1>1. IInv => BannerSurvivesRestart
  BY DEF IInv, TypeOK, FileMatchesMemory, BannerSurvivesRestart
<1> QED
  BY <1>1, Invariant, PTL

(* Only a power failure tears the cache file: writeCache renames a         *)
(* temporary file that is complete.                                        *)
THEOREM CacheIsWhole == Spec => CacheStaysWhole
<1>1. IInv /\ [Next]_vars => TornByPowerOnly
  <2> SUFFICES ASSUME IInv, [Next]_vars, cache' # cache, pc' # "off"
               PROVE  cache' # Torn
    BY DEF TornByPowerOnly
  <2>1. Remove \/ RenameTmp
    BY DEF Next, Check, vars, Boot, Ask, AskFail, AnswerPassed, AnswerClear,
           AnswerNewer, WriteTmp, WriteTmpFail, Stop, PowerLoss, Upgrade,
           Publish, Reach
  <2> QED
    BY <2>1, CheckerAssumption
    DEF Remove, RenameTmp, IInv, TypeOK, SavesTheMemory
<1> QED
  BY <1>1, Invariant, PTL DEF Spec, CacheStaysWhole
=============================================================================
