----------------------------- MODULE UpdaterProofs -----------------------------
(***************************************************************************)
(* What Updater promises, for any number of updaters, temporary names,     *)
(* releases and uploads.  Every action preserves IInv; its lemma has one   *)
(* step for each part of it the action can disturb.                        *)
(***************************************************************************)
EXTENDS Updater, TLAPS

-----------------------------------------------------------------------------
(* What Sync and a download make of the contents of a file. *)
LEMMA ContentUpdates ==
  ASSUME NEW c \in Contents
  PROVE  /\ c.build \in Builds \cup {Garbage}
         /\ [c EXCEPT !.synced = TRUE] \in Contents
         /\ [c EXCEPT !.synced = TRUE].synced
         /\ [c EXCEPT !.synced = TRUE].build = c.build
         /\ \A b \in Builds \cup {Garbage} :
              /\ [c EXCEPT !.build = b] \in Contents
              /\ [c EXCEPT !.build = b].build = b
              /\ [c EXCEPT !.build = b].synced = c.synced
  BY DEF Contents

(* What a new name, Chmod and the removal make of a directory. *)
LEMMA NewName ==
  ASSUME NEW n \in Names, NEW f \in Files
  PROVE  \A d \in Directories :
           LET e == [d EXCEPT !.temps[n] = f] IN
           /\ e \in Directories /\ e.temps = [d.temps EXCEPT ![n] = f]
           /\ e.binary = d.binary /\ e.exec = d.exec
  BY DEF Directories

LEMMA NewMode ==
  ASSUME NEW f \in Files
  PROVE  \A d \in Directories :
           LET e == [d EXCEPT !.exec = @ \cup {f}] IN
           /\ e \in Directories /\ e.exec = d.exec \cup {f}
           /\ e.binary = d.binary /\ e.temps = d.temps
  BY DEF Directories

LEMMA NameGone ==
  ASSUME NEW n \in Names
  PROVE  \A d \in Directories :
           LET e == [d EXCEPT !.temps[n] = None] IN
           /\ e \in Directories /\ e.temps = [d.temps EXCEPT ![n] = None]
           /\ e.binary = d.binary /\ e.exec = d.exec
  BY DEF Directories

(* A power failure leaves contents that are on disk as they are. *)
LEMMA SurvivesIsContents ==
  ASSUME NEW c \in Contents
  PROVE  /\ Survives(c) \in Contents
         /\ Survives(c).synced = c.synced
         /\ c.synced => Survives(c) = c
  BY ContentUpdates DEF Survives

(* Facts of IInv about an updater that has a temporary file. *)
LEMMA HolderHasFile ==
  ASSUME IInv, NEW p \in Updaters, pc[p] \in Holding
  PROVE  /\ name[p] \in Names /\ dir.temps[name[p]] = p
         /\ p \in Files /\ p # None /\ p # Shipped
         /\ dir.binary # p
         /\ \A n \in Names : dir.temps[n] = p => n = name[p]
<1>1. p \in Files /\ p # None /\ p # Shipped
  BY UpdaterAssumption DEF Files
<1> QED
  BY <1>1
  DEF IInv, TempsAreAccounted, FindsItsFile, TempOf, NotThereYet, OneName

-----------------------------------------------------------------------------
(* At the start the first build is installed and running. *)
LEMMA InitIInv == Init => IInv
<1> SUFFICES ASSUME Init PROVE IInv
  OBVIOUS
<1>1. <<1, 1>> \in Builds /\ 1 \in Tags
  BY UpdaterAssumption DEF Builds, Tags
<1>2. /\ dir.temps = [n \in Names |-> None]
      /\ dir.binary = Shipped /\ dir.exec = {Shipped}
      /\ older = {} /\ Shipped \in Files
      /\ data[Shipped].build = <<1, 1>> /\ data[Shipped].synced
  BY DEF Init, Files
<1>3. TypeOK
  <2>1. asset \in [Tags -> 0 .. MaxRev] /\ sums \in [Tags -> 0 .. MaxRev]
    BY UpdaterAssumption DEF Init
  <2>2. vouched \subseteq Builds /\ running \in Builds /\ latest \in Tags
    BY <1>1 DEF Init
  <2>3. dir \in Directories /\ older \subseteq Directories
    BY <1>2 DEF Init, Directories
  <2>4. data \in [Files -> Contents]
    BY <1>1 DEF Init, Contents
  <2>5. /\ pc \in [Updaters -> Labels]
        /\ target \in [Updaters -> Tags]
        /\ name \in [Updaters -> Names \cup {None}]
        /\ got \in [Updaters -> Builds \cup {Garbage}]
        /\ stray \subseteq Updaters /\ behind \in BOOLEAN
    BY <1>1 DEF Init, Labels
  <2> QED
    BY <2>1, <2>2, <2>3, <2>4, <2>5 DEF TypeOK
<1>4. InstalledIsSound
  BY <1>2 DEF Init, InstalledIsSound
<1>5. ServiceFollowsSwap
  BY <1>2 DEF Init, ServiceFollowsSwap, Installed
<1>6. SumsOnRecord
  BY DEF Init, SumsOnRecord
<1>7. \A p \in Updaters : Staged(p) /\ FindsItsFile(p)
  BY DEF Init, Staged, FindsItsFile, Holding
<1>8. \A n \in Names : HasOwner(n)
  BY <1>2 DEF HasOwner
<1>9. OneName(dir) /\ OneNameBefore /\ TempsAreUpdaters
  BY <1>2, UpdaterAssumption DEF OneName, OneNameBefore, TempsAreUpdaters, Files
<1>10. \A p \in Updaters : NotThereYet(p)
  BY <1>2, UpdaterAssumption DEF NotThereYet, Files
<1> QED
  BY <1>3, <1>4, <1>5, <1>6, <1>7, <1>8, <1>9, <1>10 DEF IInv, TempsAreAccounted

-----------------------------------------------------------------------------
(* GitHub's steps add to what is vouched for and to the sums on record;    *)
(* nothing of the machine moves.                                           *)
LEMMA UpstreamStep ==
  ASSUME IInv, Announce \/ \E t \in Tags : UploadAsset(t) \/ UploadSums(t)
  PROVE  IInv'
<1>1. TypeOK /\ SumsOnRecord
  BY DEF IInv, TempsAreAccounted
<1>2. UNCHANGED <<disk, running, pc, local, behind>>
  BY DEF Announce, UploadAsset, UploadSums
<1>3. CASE Announce
  <2>1. latest' \in Tags /\ UNCHANGED <<asset, sums, vouched>>
    BY <1>1, <1>3, UpdaterAssumption DEF Announce, TypeOK, Tags
  <2>2. TypeOK'
    BY <1>1, <1>2, <2>1 DEF TypeOK, disk, local
  <2> QED
    BY <1>2, <2>1, <2>2
    DEF IInv, TempsAreAccounted, InstalledIsSound, ServiceFollowsSwap,
        OneNameBefore, TempsAreUpdaters, NotThereYet, Staged,
        FindsItsFile, HasOwner, Installed, TempOf, SumsOnRecord, disk, local
<1>4. ASSUME NEW t \in Tags, UploadAsset(t)
      PROVE  IInv'
  <2>1. asset' = [asset EXCEPT ![t] = @ + 1] /\ asset[t] < MaxRev
        /\ UNCHANGED <<latest, sums, vouched>>
    BY <1>4 DEF UploadAsset
  <2>2. asset' \in [Tags -> 0 .. MaxRev]
    BY <1>1, <2>1, UpdaterAssumption DEF TypeOK
  <2>3. TypeOK'
    BY <1>1, <1>2, <2>1, <2>2 DEF TypeOK, disk, local
  <2>4. SumsOnRecord'
    BY <1>1, <2>1 DEF TypeOK, SumsOnRecord
  <2> QED
    BY <1>2, <2>1, <2>3, <2>4
    DEF IInv, TempsAreAccounted, InstalledIsSound, ServiceFollowsSwap,
        OneNameBefore, TempsAreUpdaters, NotThereYet, Staged,
        FindsItsFile, HasOwner, Installed, TempOf, disk, local
<1>5. ASSUME NEW t \in Tags, UploadSums(t)
      PROVE  IInv'
  <2>1. sums' = [sums EXCEPT ![t] = asset[t]] /\ sums[t] # asset[t]
        /\ vouched' = vouched \cup {<<t, asset[t]>>}
        /\ UNCHANGED <<latest, asset>>
    BY <1>5 DEF UploadSums
  <2>2. asset[t] \in 1 .. MaxRev
    <3>1. asset[t] \in 0 .. MaxRev /\ sums[t] \in 0 .. MaxRev
      BY <1>1 DEF TypeOK
    <3>2. sums[t] <= asset[t] /\ sums[t] # asset[t]
      BY <1>1, <2>1 DEF SumsOnRecord
    <3> QED
      BY <3>1, <3>2
  <2>3. <<t, asset[t]>> \in Builds
    BY <2>2 DEF Builds
  <2>4. sums' \in [Tags -> 0 .. MaxRev]
    BY <1>1, <2>1 DEF TypeOK
  <2>5. TypeOK'
    BY <1>1, <1>2, <2>1, <2>3 DEF TypeOK, disk, local
  <2>6. SumsOnRecord'
    BY <1>1, <2>1 DEF TypeOK, SumsOnRecord
  <2>7. vouched \subseteq vouched'
    BY <2>1
  <2> QED
    BY <1>2, <2>5, <2>6, <2>7
    DEF IInv, TempsAreAccounted, InstalledIsSound, ServiceFollowsSwap,
        OneNameBefore, TempsAreUpdaters, NotThereYet, Staged,
        FindsItsFile, HasOwner, Installed, TempOf, disk, local
<1> QED
  BY <1>3, <1>4, <1>5

-----------------------------------------------------------------------------
(* Steps of an updater that has no temporary file and gets none: what the  *)
(* others have is not touched, and none of its names is of one at work.    *)
LEMMA NoFileStep ==
  ASSUME IInv, NEW p \in Updaters,
         Resolve(p) \/ FailEarly(p) \/ Restart(p) \/ NoRestart(p)
  PROVE  IInv'
<1> USE DEF Holding
<1>1. TypeOK /\ InstalledIsSound
  BY DEF IInv, TempsAreAccounted
<1>2. UNCHANGED <<upstream, disk, name, got>>
  BY DEF Resolve, FailEarly, Restart, NoRestart, local
<1>3. /\ pc[p] \in {"start", "temp", "restart"}
      /\ pc' \in {[pc EXCEPT ![p] = l] : l \in {"done", "temp", "failed"}}
  BY DEF Resolve, FailEarly, Restart, NoRestart, Goto
<1>4. /\ target' \in [Updaters -> Tags]
      /\ \A q \in Updaters \ {p} : target'[q] = target[q]
  BY <1>1 DEF TypeOK, Resolve, FailEarly, Restart, NoRestart, local
<1>5. running' \in Builds /\ behind' \in BOOLEAN
  <2>1. Installed \in vouched
    BY <1>1 DEF InstalledIsSound, Installed
  <2> QED
    BY <1>1, <2>1 DEF TypeOK, Resolve, FailEarly, Restart, NoRestart
<1>6. TypeOK'
  BY <1>1, <1>2, <1>3, <1>4, <1>5 DEF TypeOK, Labels, upstream, disk
<1>7. InstalledIsSound' /\ SumsOnRecord'
  BY <1>2 DEF IInv, InstalledIsSound, SumsOnRecord, upstream, disk
<1>8. ServiceFollowsSwap'
  BY <1>1
  DEF IInv, TypeOK, ServiceFollowsSwap, Installed, Resolve, FailEarly, Restart,
      NoRestart, disk, Goto
<1>9. \A q \in Updaters : FindsItsFile(q)'
  BY <1>2, <1>3 DEF TypeOK, IInv, TempsAreAccounted, FindsItsFile, TempOf, disk
<1>10. ASSUME NEW n \in Names PROVE HasOwner(n)'
  <2> SUFFICES ASSUME dir.temps[n] # None
               PROVE  HasOwner(n)'
    BY <1>2 DEF HasOwner, disk
  <2>1. PICK q \in Updaters : dir.temps[n] = q
                  /\ (pc[q] \in Holding \cup {"killed"} \/ q \in stray)
    BY DEF IInv, TempsAreAccounted, HasOwner
  <2>2. pc'[q] \in Holding \cup {"killed"} \/ q \in stray'
    BY <1>1, <1>2, <1>3, <2>1 DEF TypeOK, disk
  <2> QED
    BY <1>2, <2>1, <2>2 DEF HasOwner, disk
<1>12. OneName(dir)' /\ OneNameBefore' /\ TempsAreUpdaters'
  BY <1>2
  DEF IInv, TempsAreAccounted, OneName, OneNameBefore, TempsAreUpdaters, disk
<1>13. \A q \in Updaters : NotThereYet(q)'
  <2>1. pc[p] = "start" \/ pc'[p] # "temp"
    BY <1>1 DEF TypeOK, Resolve, FailEarly, Restart, NoRestart, Goto
  <2> QED
    BY <1>1, <1>2, <1>3, <2>1 DEF TypeOK, IInv, NotThereYet, disk
<1>11. \A q \in Updaters : Staged(q)'
  BY <1>1, <1>2, <1>3, <1>4 DEF TypeOK, IInv, Staged, upstream, disk
<1> QED
  BY <1>6, <1>7, <1>8, <1>9, <1>10, <1>11, <1>12, <1>13 DEF IInv, TempsAreAccounted

(* An updater that writes its own file and nothing else keeps every part   *)
(* but its own stage: its file is nobody else's and not in place, not even *)
(* after a power failure.                                                  *)
LEMMA RewriteStep ==
  ASSUME IInv, NEW p \in Updaters, pc[p] \in Holding,
         NEW c \in Contents, NEW l \in Holding, NEW b \in Builds \cup {Garbage},
         data' = [data EXCEPT ![p] = c],
         pc' = [pc EXCEPT ![p] = l],
         got' = [got EXCEPT ![p] = b],
         UNCHANGED <<upstream, dir, older, stray, running, target, name, behind>>,
         Staged(p)'
  PROVE  IInv'
<1> USE DEF Holding
<1>1. TypeOK /\ p \in Files
  BY HolderHasFile DEF IInv, TempsAreAccounted
<1>2. \A d \in older \cup {dir} : d.binary # p /\ d.binary \in Files
  BY <1>1 DEF IInv, NotThereYet, TypeOK, Directories
<1>3. \A d \in older \cup {dir} : data'[d.binary] = data[d.binary]
  BY <1>1, <1>2 DEF TypeOK
<1>4. TypeOK'
  BY <1>1 DEF TypeOK, Labels, upstream
<1>5. \A q \in Updaters : FindsItsFile(q)'
  BY <1>1 DEF TypeOK, IInv, TempsAreAccounted, FindsItsFile, TempOf
<1>6. ASSUME NEW m \in Names PROVE HasOwner(m)'
  BY <1>1 DEF TypeOK, IInv, TempsAreAccounted, HasOwner
<1>7. OneName(dir)' /\ OneNameBefore' /\ TempsAreUpdaters'
  BY DEF IInv, TempsAreAccounted, OneName, OneNameBefore, TempsAreUpdaters
<1>8. \A q \in Updaters : NotThereYet(q)'
  BY <1>1 DEF TypeOK, IInv, NotThereYet
<1>9. ASSUME NEW q \in Updaters PROVE Staged(q)'
  <2>1. CASE q = p
    BY <2>1
  <2>2. CASE q # p
    BY <1>1, <2>2 DEF TypeOK, IInv, Staged, upstream
  <2> QED
    BY <2>1, <2>2
<1>10. InstalledIsSound'
  BY <1>3 DEF IInv, InstalledIsSound, upstream
<1>11. ServiceFollowsSwap' /\ SumsOnRecord'
  BY <1>1, <1>3
  DEF TypeOK, IInv, ServiceFollowsSwap, Installed, SumsOnRecord, upstream
<1> QED
  BY <1>4, <1>5, <1>6, <1>7, <1>8, <1>9, <1>10, <1>11 DEF IInv, TempsAreAccounted

(* downloadWithHash: the digest is that of the bytes in the file. *)
LEMMA DownloadStep ==
  ASSUME IInv, NEW p \in Updaters, Download(p)
  PROVE  IInv'
<1> USE DEF Holding
<1>1. TypeOK /\ pc[p] = "download" /\ p \in Files
  BY HolderHasFile DEF IInv, TempsAreAccounted, Download
<1>2. PICK b \in {<<target[p], asset[target[p]]>>, Garbage} :
        /\ data' = [data EXCEPT ![p].build = b]
        /\ got' = [got EXCEPT ![p] = b]
  BY DEF Download
<1>3. b \in Builds \cup {Garbage}
  <2>1. target[p] \in Tags /\ asset[target[p]] \in 1 .. MaxRev
    BY <1>1 DEF Download, TypeOK
  <2> QED
    BY <2>1 DEF Builds
<1> DEFINE c == [data[p] EXCEPT !.build = b]
<1>4. c \in Contents /\ c.build = b
  <2>1. data[p] \in Contents
    BY <1>1 DEF TypeOK
  <2> QED
    BY <2>1, <1>3, ContentUpdates
<1>5. data' = [data EXCEPT ![p] = c]
  BY <1>2
<1> HIDE DEF c
<1>6. /\ pc' = [pc EXCEPT ![p] = "sync"]
      /\ UNCHANGED <<upstream, dir, older, stray, running, target, name, behind>>
  BY DEF Download, Goto
<1>7. Staged(p)'
  BY <1>1, <1>2, <1>4, <1>5, <1>6 DEF Staged, TypeOK
<1> QED
  BY <1>1, <1>2, <1>3, <1>4, <1>5, <1>6, <1>7, RewriteStep

(* Sync and Close: the file is on disk from here on. *)
LEMMA SyncCloseStep ==
  ASSUME IInv, NEW p \in Updaters, SyncClose(p)
  PROVE  IInv'
<1> USE DEF Holding
<1>1. TypeOK /\ pc[p] = "sync" /\ p \in Files /\ data[p].build = got[p]
  BY HolderHasFile DEF IInv, TempsAreAccounted, SyncClose, Staged
<1> DEFINE c == [data[p] EXCEPT !.synced = TRUE]
<1>2. c \in Contents /\ c.synced /\ c.build = got[p]
  <2>1. data[p] \in Contents
    BY <1>1 DEF TypeOK
  <2> QED
    BY <1>1, <2>1, ContentUpdates
<1>3. data' = [data EXCEPT ![p] = c]
  BY DEF SyncClose
<1> HIDE DEF c
<1>4. /\ pc' = [pc EXCEPT ![p] = "checksum"]
      /\ got' = [got EXCEPT ![p] = got[p]] /\ got[p] \in Builds \cup {Garbage}
      /\ UNCHANGED <<upstream, dir, older, stray, running, target, name, behind>>
  BY <1>1 DEF SyncClose, Goto, local, TypeOK
<1>5. Staged(p)'
  BY <1>1, <1>2, <1>3, <1>4 DEF Staged, TypeOK
<1> QED
  BY <1>1, <1>2, <1>3, <1>4, <1>5, RewriteStep

(* fetchChecksum: what was downloaded is what checksums.txt speaks of.     *)
LEMMA VerifyStep ==
  ASSUME IInv, NEW p \in Updaters, Verify(p)
  PROVE  IInv'
<1> USE DEF Holding
<1> DEFINE c == data[p]
           t == target[p]
<1>1. TypeOK /\ pc[p] = "checksum" /\ c.build = got[p] /\ c.synced
  BY DEF IInv, TempsAreAccounted, Verify, Staged
<1>2. p \in Files /\ c \in Contents /\ t \in Tags
  BY <1>1, HolderHasFile DEF TypeOK
<1>3. /\ got[p] = <<t, sums[t]>> /\ sums[t] \in 1 .. MaxRev
      /\ <<t, sums[t]>> \in vouched
  BY <1>1 DEF Verify, IInv, SumsOnRecord, TypeOK
<1>4. got[p] \in vouched /\ got[p] \in {t} \X (1 .. MaxRev)
  BY <1>3
<1>5. data' = [data EXCEPT ![p] = c]
  BY <1>1 DEF Verify, disk, TypeOK
<1>6. /\ pc' = [pc EXCEPT ![p] = "chmod"]
      /\ got' = [got EXCEPT ![p] = got[p]] /\ got[p] \in Builds \cup {Garbage}
      /\ UNCHANGED <<upstream, dir, older, stray, running, target, name, behind>>
  BY <1>1 DEF Verify, Goto, local, disk, TypeOK
<1>7. Staged(p)'
  BY <1>1, <1>2, <1>4, <1>5, <1>6 DEF Staged, upstream, TypeOK
<1> QED
  BY <1>1, <1>2, <1>5, <1>6, <1>7, RewriteStep

(* An error leads to the deferred removal; the file is still there.        *)
LEMMA FailStep ==
  ASSUME IInv, NEW p \in Updaters, Fail(p)
  PROVE  IInv'
<1> USE DEF Holding
<1> DEFINE c == data[p]
<1>1. TypeOK /\ pc[p] \in Holding
  BY DEF IInv, TempsAreAccounted, Fail
<1>2. p \in Files /\ c \in Contents
  BY <1>1, HolderHasFile DEF TypeOK
<1>3. data' = [data EXCEPT ![p] = c]
  BY <1>1 DEF Fail, disk, TypeOK
<1>4. /\ pc' = [pc EXCEPT ![p] = "cleanup"]
      /\ got' = [got EXCEPT ![p] = got[p]] /\ got[p] \in Builds \cup {Garbage}
      /\ UNCHANGED <<upstream, dir, older, stray, running, target, name, behind>>
  BY <1>1 DEF Fail, Goto, local, disk, TypeOK
<1>5. Staged(p)'
  BY <1>1, <1>4 DEF Staged, TypeOK
<1> QED
  BY <1>1, <1>2, <1>3, <1>4, <1>5, RewriteStep

-----------------------------------------------------------------------------
(* A change of the directory: what power failure can go back to is what it *)
(* could before and the directory as it was.  It is enough to look at the  *)
(* new directory and at p.                                                 *)
LEMMA ChangeDirStep ==
  ASSUME IInv, NEW p \in Updaters, NEW d \in Directories, NEW l \in Labels,
         ChangeDir(d), pc' = [pc EXCEPT ![p] = l],
         pc[p] \in {"temp"} \cup Holding, l \notin {"start", "temp"},
         name' \in [Updaters -> Names \cup {None}],
         UNCHANGED <<upstream, data, stray, running, target, got, behind>>,
         data[d.binary].synced, data[d.binary].build \in vouched,
         d.binary \in d.exec,
         OneName(d), \A n \in Names : d.temps[n] # Shipped,
         \A q \in Updaters :
            /\ pc'[q] \in {"start", "temp"} => \A n \in Names : d.temps[n] # q
            /\ pc'[q] \in {"start", "temp"} \cup Holding => d.binary # q
  PROVE  /\ TypeOK' /\ InstalledIsSound' /\ SumsOnRecord'
         /\ OneName(dir)' /\ OneNameBefore' /\ TempsAreUpdaters'
         /\ \A q \in Updaters : NotThereYet(q)'
<1> USE DEF Holding
<1>1. TypeOK
  BY DEF IInv, TempsAreAccounted
<1>2. dir' = d /\ older' = older \cup {dir}
  BY DEF ChangeDir
<1>3. TypeOK'
  BY <1>1, <1>2 DEF TypeOK, upstream
<1>4. InstalledIsSound' /\ SumsOnRecord'
  BY <1>2 DEF IInv, InstalledIsSound, SumsOnRecord, upstream
<1>5. OneName(dir)' /\ OneNameBefore' /\ TempsAreUpdaters'
  BY <1>2 DEF IInv, OneName, OneNameBefore, TempsAreUpdaters
<1>6. \A q \in Updaters : NotThereYet(q)'
  <2> SUFFICES ASSUME NEW q \in Updaters, NEW e \in older \cup {dir}
               PROVE  /\ pc'[q] \in {"start", "temp"} =>
                             \A n \in Names : e.temps[n] # q
                      /\ pc'[q] \in {"start", "temp"} \cup Holding => e.binary # q
    BY <1>2 DEF NotThereYet
  <2>1. NotThereYet(q) /\ NotThereYet(p)
    BY DEF IInv
  <2>2. q # p => pc'[q] = pc[q]
    BY <1>1 DEF TypeOK
  <2>3. q = p => pc'[q] = l
    BY <1>1 DEF TypeOK
  <2> QED
    BY <2>1, <2>2, <2>3 DEF NotThereYet
<1> QED
  BY <1>3, <1>4, <1>5, <1>6

(* What is in place stays in place unless it is swapped. *)
LEMMA DirNow ==
  ASSUME IInv
  PROVE  /\ dir \in Directories /\ dir.temps \in [Names -> Files \cup {None}]
         /\ dir.binary \in Files
         /\ data[dir.binary].synced /\ data[dir.binary].build \in vouched
         /\ dir.binary \in dir.exec
         /\ OneName(dir) /\ \A n \in Names : dir.temps[n] # Shipped
         /\ \A q \in Updaters :
              /\ pc[q] \in {"start", "temp"} => \A n \in Names : dir.temps[n] # q
              /\ pc[q] \in {"start", "temp"} \cup Holding => dir.binary # q
<1>1. dir \in Directories
  BY DEF IInv, TempsAreAccounted, TypeOK
<1>2. dir.temps \in [Names -> Files \cup {None}] /\ dir.binary \in Files
  BY <1>1 DEF Directories
<1> QED
  BY <1>1, <1>2
  DEF IInv, TempsAreAccounted, InstalledIsSound, TempsAreUpdaters, NotThereYet

(* The new temporary file is nobody else's: its name was free. *)
LEMMA CreateTempStep ==
  ASSUME IInv, NEW p \in Updaters, CreateTemp(p)
  PROVE  IInv'
<1> USE DEF Holding
<1>1. TypeOK /\ pc[p] = "temp" /\ p \in Files /\ p # None /\ p # Shipped
  BY UpdaterAssumption DEF IInv, TempsAreAccounted, CreateTemp, Files
<1>2. PICK n \in Names :
        /\ dir.temps[n] = None
        /\ ChangeDir([dir EXCEPT !.temps[n] = p])
        /\ name' = [name EXCEPT ![p] = n]
  BY DEF CreateTemp
<1> DEFINE d == [dir EXCEPT !.temps[n] = p]
<1>3. /\ d \in Directories
      /\ d.temps = [dir.temps EXCEPT ![n] = p]
      /\ d.binary = dir.binary /\ d.exec = dir.exec
  <2>1. dir \in Directories
    BY DirNow
  <2> QED
    BY <1>1, <2>1, NewName
<1>4. dir' = d
  BY <1>2 DEF ChangeDir
<1>5. ChangeDir(d)
  BY <1>2
<1> HIDE DEF d
<1>6. /\ pc' = [pc EXCEPT ![p] = "download"] /\ "download" \in Labels
      /\ UNCHANGED <<upstream, data, stray, running, target, got, behind>>
  BY DEF CreateTemp, Goto, Labels
<1>7. name' \in [Updaters -> Names \cup {None}]
  BY <1>1, <1>2 DEF TypeOK
<1>8. \A m \in Names : d.temps[m] = IF m = n THEN p ELSE dir.temps[m]
  BY <1>3, DirNow
<1>9. OneName(d)
  BY <1>1, <1>3, <1>8, DirNow DEF OneName
<1>10. \A q \in Updaters :
         /\ pc'[q] \in {"start", "temp"} => \A m \in Names : d.temps[m] # q
         /\ pc'[q] \in {"start", "temp"} \cup Holding => d.binary # q
  BY <1>1, <1>3, <1>6, <1>8, DirNow DEF TypeOK
<1>11. /\ TypeOK' /\ InstalledIsSound' /\ SumsOnRecord'
       /\ OneName(dir)' /\ OneNameBefore' /\ TempsAreUpdaters'
       /\ \A q \in Updaters : NotThereYet(q)'
  <2>1. /\ data[d.binary].synced /\ data[d.binary].build \in vouched
        /\ d.binary \in d.exec
    BY <1>3, DirNow
  <2>2. \A m \in Names : d.temps[m] # Shipped
    BY <1>1, <1>8, DirNow
  <2> QED
    BY <1>1, <1>3, <1>5, <1>6, <1>7, <1>9, <1>10, <2>1, <2>2, ChangeDirStep
<1>12. \A q \in Updaters : FindsItsFile(q)'
  BY <1>1, <1>2, <1>4, <1>6, <1>8, HolderHasFile
  DEF TypeOK, IInv, TempsAreAccounted, FindsItsFile, TempOf
<1>13. ASSUME NEW m \in Names PROVE HasOwner(m)'
  <2>1. CASE m = n
    BY <1>1, <1>4, <1>6, <1>8, <2>1 DEF TypeOK, HasOwner
  <2>2. CASE m # n
    <3> SUFFICES ASSUME dir.temps[m] # None PROVE HasOwner(m)'
      BY <1>4, <1>8, <2>2 DEF HasOwner
    <3>1. PICK q \in Updaters :
            /\ dir.temps[m] = q
            /\ pc[q] \in Holding \cup {"killed"} \/ q \in stray
      BY DEF IInv, TempsAreAccounted, HasOwner
    <3>2. pc'[q] \in Holding \cup {"killed"} \/ q \in stray'
      BY <1>1, <1>6, <3>1 DEF TypeOK
    <3> QED
      BY <1>4, <1>8, <2>2, <3>1, <3>2 DEF HasOwner
  <2> QED
    BY <2>1, <2>2
<1>14. \A q \in Updaters : Staged(q)'
  BY <1>1, <1>3, <1>4, <1>6 DEF TypeOK, IInv, Staged, upstream
<1>15. ServiceFollowsSwap'
  BY <1>1, <1>3, <1>4, <1>6
  DEF TypeOK, IInv, ServiceFollowsSwap, Installed, upstream
<1> QED
  BY <1>11, <1>12, <1>13, <1>14, <1>15 DEF IInv, TempsAreAccounted

(* Chmod finds the updater's own file, which is executable from here on. *)
LEMMA ChmodStep ==
  ASSUME IInv, NEW p \in Updaters, Chmod(p)
  PROVE  IInv'
<1> USE DEF Holding
<1>1. TypeOK /\ pc[p] = "chmod"
  BY DEF IInv, TempsAreAccounted, Chmod
<1>2. TempOf(p) = p /\ p \in Files /\ name[p] \in Names
  BY <1>1, HolderHasFile DEF TempOf
<1> DEFINE d == [dir EXCEPT !.exec = @ \cup {p}]
<1>3. ChangeDir(d)
  BY <1>2 DEF Chmod
<1>4. dir' = d
  BY <1>3 DEF ChangeDir
<1>5. /\ d \in Directories
      /\ d.temps = dir.temps /\ d.binary = dir.binary
      /\ d.exec = dir.exec \cup {p}
  <2>1. dir \in Directories
    BY DirNow
  <2> QED
    BY <1>2, <2>1, NewMode
<1> HIDE DEF d
<1>6. /\ pc' = [pc EXCEPT ![p] = "rename"] /\ "rename" \in Labels
      /\ UNCHANGED <<upstream, data, stray, running, target, got, name, behind>>
  BY DEF Chmod, Goto, Labels, local
<1>7. OneName(d)
  BY <1>5, DirNow DEF OneName
<1>8. \A q \in Updaters :
        /\ pc'[q] \in {"start", "temp"} => \A m \in Names : d.temps[m] # q
        /\ pc'[q] \in {"start", "temp"} \cup Holding => d.binary # q
  BY <1>1, <1>5, <1>6, DirNow DEF TypeOK
<1>9. /\ TypeOK' /\ InstalledIsSound' /\ SumsOnRecord'
      /\ OneName(dir)' /\ OneNameBefore' /\ TempsAreUpdaters'
      /\ \A q \in Updaters : NotThereYet(q)'
  <2>1. name' \in [Updaters -> Names \cup {None}]
    BY <1>1, <1>6 DEF TypeOK
  <2> QED
    BY <1>1, <1>3, <1>5, <1>6, <1>7, <1>8, <2>1, DirNow, ChangeDirStep
<1>10. \A q \in Updaters : FindsItsFile(q)'
  BY <1>1, <1>4, <1>5, <1>6
  DEF TypeOK, IInv, TempsAreAccounted, FindsItsFile, TempOf
<1>11. ASSUME NEW m \in Names PROVE HasOwner(m)'
  BY <1>1, <1>4, <1>5, <1>6 DEF TypeOK, IInv, TempsAreAccounted, HasOwner
<1>12. ASSUME NEW q \in Updaters PROVE Staged(q)'
  <2>1. Staged(q)
    BY DEF IInv
  <2> QED
    BY <1>1, <1>4, <1>5, <1>6, <2>1 DEF TypeOK, Staged, upstream
<1>13. ServiceFollowsSwap'
  BY <1>1, <1>4, <1>5, <1>6
  DEF TypeOK, IInv, ServiceFollowsSwap, Installed, upstream
<1> QED
  BY <1>9, <1>10, <1>11, <1>12, <1>13 DEF IInv, TempsAreAccounted

-----------------------------------------------------------------------------
(* An updater gives up its name, by the swap or the deferred removal: all  *)
(* others keep theirs.                                                     *)
LEMMA GiveUpName ==
  ASSUME IInv, NEW p \in Updaters, pc[p] \in Holding,
         NEW d \in Directories, d.temps = [dir.temps EXCEPT ![name[p]] = None],
         d.exec = dir.exec, d.binary \in {dir.binary, p},
         dir' = d, NEW l \in {"restart", "failed"}, pc' = [pc EXCEPT ![p] = l],
         stray \subseteq stray', UNCHANGED <<upstream, data, local>>
  PROVE  /\ OneName(d) /\ \A n \in Names : d.temps[n] # Shipped
         /\ \A q \in Updaters :
              /\ pc'[q] \in {"start", "temp"} => \A n \in Names : d.temps[n] # q
              /\ pc'[q] \in {"start", "temp"} \cup Holding => d.binary # q
         /\ \A q \in Updaters : FindsItsFile(q)' /\ Staged(q)'
         /\ \A n \in Names : HasOwner(n)'
<1> USE DEF Holding
<1>1. TypeOK /\ name[p] \in Names /\ dir.temps[name[p]] = p
      /\ \A n \in Names : dir.temps[n] = p => n = name[p]
  BY HolderHasFile DEF IInv, TempsAreAccounted
<1>2. \A n \in Names : d.temps[n] = IF n = name[p] THEN None ELSE dir.temps[n]
  BY <1>1, DirNow
<1>3. OneName(d)
  BY <1>1, <1>2, DirNow DEF OneName
<1>4. \A n \in Names : d.temps[n] # Shipped
  BY <1>2, DirNow, UpdaterAssumption DEF Files
<1>5. ASSUME NEW q \in Updaters
      PROVE  /\ pc'[q] \in {"start", "temp"} => \A n \in Names : d.temps[n] # q
             /\ pc'[q] \in {"start", "temp"} \cup Holding => d.binary # q
  <2>1. CASE q = p
    BY <1>1, <2>1 DEF TypeOK
  <2>2. CASE q # p
    BY <1>1, <1>2, <2>2, DirNow, UpdaterAssumption DEF TypeOK, Files
  <2> QED
    BY <2>1, <2>2
<1>6. ASSUME NEW q \in Updaters PROVE FindsItsFile(q)'
  <2> SUFFICES ASSUME pc'[q] \in Holding
               PROVE  name[q] \in Names /\ d.temps[name[q]] = q
    BY DEF FindsItsFile, TempOf, local
  <2>1. q # p /\ pc[q] \in Holding
    BY <1>1 DEF TypeOK
  <2>2. name[q] \in Names /\ dir.temps[name[q]] = q
    BY <2>1, HolderHasFile
  <2> QED
    BY <1>1, <1>2, <2>1, <2>2
<1>7. ASSUME NEW q \in Updaters PROVE Staged(q)'
  <2>1. Staged(q)
    BY DEF IInv
  <2> QED
    BY <1>1, <2>1 DEF TypeOK, Staged, upstream, local
<1>8. ASSUME NEW n \in Names PROVE HasOwner(n)'
  <2> SUFFICES ASSUME d.temps[n] # None PROVE HasOwner(n)'
    BY DEF HasOwner
  <2>1. n # name[p] /\ d.temps[n] = dir.temps[n] /\ dir.temps[n] # p
    BY <1>1, <1>2
  <2>2. PICK q \in Updaters :
          /\ dir.temps[n] = q
          /\ pc[q] \in Holding \cup {"killed"} \/ q \in stray
    BY <2>1 DEF IInv, TempsAreAccounted, HasOwner
  <2>3. pc'[q] \in Holding \cup {"killed"} \/ q \in stray'
    BY <1>1, <2>1, <2>2 DEF TypeOK
  <2> QED
    BY <2>1, <2>2, <2>3 DEF HasOwner
<1> QED
  BY <1>3, <1>4, <1>5, <1>6, <1>7, <1>8

(* os.Rename: what is swapped in is whole, and the service is behind until *)
(* this updater restarts it.                                               *)
LEMMA RenameStep ==
  ASSUME IInv, NEW p \in Updaters, Rename(p)
  PROVE  IInv'
<1> USE DEF Holding
<1>1. TypeOK /\ pc[p] = "rename"
  BY DEF IInv, TempsAreAccounted, Rename
<1>2. TempOf(p) = p /\ p \in Files /\ name[p] \in Names
  BY <1>1, HolderHasFile DEF TempOf
<1>3. /\ data[p].build = got[p] /\ data[p].synced /\ p \in dir.exec
      /\ got[p] \in vouched
  BY <1>1 DEF IInv, Staged
<1> DEFINE d == [dir EXCEPT !.binary = p, !.temps[name[p]] = None]
<1>4. ChangeDir(d)
  BY <1>2 DEF Rename
<1>5. dir' = d
  BY <1>4 DEF ChangeDir
<1>6. /\ d \in Directories
      /\ d.temps = [dir.temps EXCEPT ![name[p]] = None]
      /\ d.binary = p /\ d.exec = dir.exec
  <2>1. dir \in Directories
    BY DirNow
  <2> QED
    BY <1>2, <2>1 DEF Directories
<1> HIDE DEF d
<1>7. /\ pc' = [pc EXCEPT ![p] = "restart"] /\ pc'[p] = "restart"
      /\ "restart" \in Labels
      /\ UNCHANGED <<upstream, data, stray, running, local, behind>>
  BY <1>1 DEF Rename, Goto, TypeOK, Labels
<1>8. /\ OneName(d) /\ \A n \in Names : d.temps[n] # Shipped
      /\ \A q \in Updaters :
           /\ pc'[q] \in {"start", "temp"} => \A n \in Names : d.temps[n] # q
           /\ pc'[q] \in {"start", "temp"} \cup Holding => d.binary # q
      /\ \A q \in Updaters : FindsItsFile(q)' /\ Staged(q)'
      /\ \A n \in Names : HasOwner(n)'
  BY <1>1, <1>5, <1>6, <1>7, GiveUpName
<1>9. /\ TypeOK' /\ InstalledIsSound' /\ SumsOnRecord'
      /\ OneName(dir)' /\ OneNameBefore' /\ TempsAreUpdaters'
      /\ \A q \in Updaters : NotThereYet(q)'
  <2>1. name' \in [Updaters -> Names \cup {None}]
    BY <1>1, <1>7 DEF TypeOK, local
  <2>2. /\ data[d.binary].synced /\ data[d.binary].build \in vouched
        /\ d.binary \in d.exec
    BY <1>3, <1>6
  <2> QED
    BY <1>1, <1>4, <1>6, <1>7, <1>8, <2>1, <2>2, ChangeDirStep DEF local
<1>10. ServiceFollowsSwap'
  BY <1>7 DEF ServiceFollowsSwap
<1> QED
  BY <1>8, <1>9, <1>10 DEF IInv, TempsAreAccounted

(* The deferred function removes the name of its updater only, or fails    *)
(* to, and then the file has no owner.                                     *)
LEMMA CleanupStep ==
  ASSUME IInv, NEW p \in Updaters, Cleanup(p)
  PROVE  IInv'
<1> USE DEF Holding
<1>1. TypeOK /\ pc[p] = "cleanup" /\ "failed" \in Labels
  BY DEF IInv, TempsAreAccounted, Cleanup, Labels
<1>2. /\ pc' = [pc EXCEPT ![p] = "failed"]
      /\ UNCHANGED <<upstream, data, running, local, behind>>
  BY DEF Cleanup, Goto
<1>3. CASE UNCHANGED stray /\ ChangeDir([dir EXCEPT !.temps[name[p]] = None])
  <2> DEFINE d == [dir EXCEPT !.temps[name[p]] = None]
  <2>1. ChangeDir(d) /\ dir' = d
    BY <1>3 DEF ChangeDir
  <2>2. /\ d \in Directories
        /\ d.temps = [dir.temps EXCEPT ![name[p]] = None]
        /\ d.binary = dir.binary /\ d.exec = dir.exec
    <3>1. dir \in Directories /\ name[p] \in Names
      BY <1>1, DirNow, HolderHasFile
    <3> QED
      BY <3>1, NameGone
  <2> HIDE DEF d
  <2>3. /\ OneName(d) /\ \A n \in Names : d.temps[n] # Shipped
        /\ \A q \in Updaters :
             /\ pc'[q] \in {"start", "temp"} => \A n \in Names : d.temps[n] # q
             /\ pc'[q] \in {"start", "temp"} \cup Holding => d.binary # q
        /\ \A q \in Updaters : FindsItsFile(q)' /\ Staged(q)'
        /\ \A n \in Names : HasOwner(n)'
    BY <1>1, <1>2, <1>3, <2>1, <2>2, GiveUpName
  <2>4. /\ TypeOK' /\ InstalledIsSound' /\ SumsOnRecord'
        /\ OneName(dir)' /\ OneNameBefore' /\ TempsAreUpdaters'
        /\ \A q \in Updaters : NotThereYet(q)'
    <3>1. name' \in [Updaters -> Names \cup {None}]
      BY <1>1, <1>2 DEF TypeOK, local
    <3>2. /\ data[d.binary].synced /\ data[d.binary].build \in vouched
          /\ d.binary \in d.exec
      BY <2>2, DirNow
    <3> QED
      BY <1>1, <1>2, <1>3, <2>1, <2>2, <2>3, <3>1, <3>2, ChangeDirStep DEF local
  <2>5. ServiceFollowsSwap'
    BY <1>1, <1>2, <2>1, <2>2 DEF TypeOK, IInv, ServiceFollowsSwap, Installed
  <2> QED
    BY <2>3, <2>4, <2>5 DEF IInv, TempsAreAccounted
<1>4. CASE stray' = stray \cup {p} /\ UNCHANGED <<dir, older>>
  <2>1. TypeOK'
    BY <1>1, <1>2, <1>4 DEF TypeOK, upstream, local
  <2>2. InstalledIsSound' /\ SumsOnRecord' /\ ServiceFollowsSwap'
    BY <1>1, <1>2, <1>4
    DEF TypeOK, IInv, InstalledIsSound, SumsOnRecord, ServiceFollowsSwap,
        Installed, upstream
  <2>3. OneName(dir)' /\ OneNameBefore' /\ TempsAreUpdaters'
    BY <1>4
    DEF IInv, TempsAreAccounted, OneName, OneNameBefore, TempsAreUpdaters
  <2>4. \A q \in Updaters : NotThereYet(q)' /\ FindsItsFile(q)' /\ Staged(q)'
    BY <1>1, <1>2, <1>4
    DEF TypeOK, IInv, TempsAreAccounted, NotThereYet, FindsItsFile, TempOf,
        Staged, upstream, local
  <2>5. ASSUME NEW n \in Names PROVE HasOwner(n)'
    BY <1>1, <1>2, <1>4 DEF TypeOK, IInv, TempsAreAccounted, HasOwner
  <2> QED
    BY <2>1, <2>2, <2>3, <2>4, <2>5 DEF IInv, TempsAreAccounted
<1> QED
  BY <1>3, <1>4 DEF Cleanup

-----------------------------------------------------------------------------
(* The file stays with the updater that was killed. *)
LEMMA KillStep ==
  ASSUME IInv, NEW p \in Updaters, Kill(p)
  PROVE  IInv'
<1> USE DEF Holding
<1>1. TypeOK
  BY DEF IInv, TempsAreAccounted
<1>2. /\ pc' = [pc EXCEPT ![p] = "killed"]
      /\ behind' = (behind \/ pc[p] = "restart")
      /\ UNCHANGED <<upstream, disk, running, local>>
  BY DEF Kill, Goto
<1>3. TypeOK'
  BY <1>1, <1>2 DEF TypeOK, Labels, upstream, disk, local
<1>4. \A q \in Updaters : FindsItsFile(q)' /\ Staged(q)' /\ NotThereYet(q)'
  BY <1>1, <1>2
  DEF TypeOK, IInv, TempsAreAccounted, FindsItsFile, TempOf, Staged,
      NotThereYet, upstream, disk, local
<1>5. ASSUME NEW n \in Names PROVE HasOwner(n)'
  <2>1. HasOwner(n)
    BY DEF IInv, TempsAreAccounted
  <2> QED
    BY <1>1, <1>2, <2>1 DEF TypeOK, HasOwner, disk
<1>6. InstalledIsSound' /\ ServiceFollowsSwap' /\ SumsOnRecord'
  BY <1>1, <1>2
  DEF TypeOK, IInv, InstalledIsSound, ServiceFollowsSwap, Installed,
      SumsOnRecord, upstream, disk
<1>7. OneName(dir)' /\ OneNameBefore' /\ TempsAreUpdaters'
  BY <1>2
  DEF IInv, TempsAreAccounted, OneName, OneNameBefore, TempsAreUpdaters, disk
<1> QED
  BY <1>3, <1>4, <1>5, <1>6, <1>7 DEF IInv, TempsAreAccounted

(* Power fails: every updater at work dies, and what the install path goes *)
(* back to is on disk, so it survives as it was.                           *)
LEMMA PowerLossStep ==
  ASSUME IInv, PowerLoss
  PROVE  IInv'
<1> USE DEF Holding
<1>1. TypeOK /\ InstalledIsSound
  BY DEF IInv, TempsAreAccounted
<1>2. PICK d \in older \cup {dir} :
        /\ dir' = d
        /\ running' = Survives(data[d.binary]).build
        /\ stray' = stray \cup {p \in Updaters :
              /\ pc[p] \in {"done", "failed"}
              /\ \E n \in Names : d.temps[n] = p}
  BY DEF PowerLoss
<1>3. /\ data' = [f \in Files |-> Survives(data[f])]
      /\ older' = {} /\ behind' = FALSE
      /\ pc' = [p \in Updaters |-> IF pc[p] \in {"start", "done", "failed"}
                                     THEN pc[p] ELSE "killed"]
      /\ UNCHANGED <<upstream, local>>
  BY DEF PowerLoss
<1>4. /\ d \in Directories /\ d.binary \in Files
      /\ d.temps \in [Names -> Files \cup {None}]
      /\ data[d.binary].synced /\ data[d.binary].build \in vouched
      /\ d.binary \in d.exec
  BY <1>1 DEF TypeOK, InstalledIsSound, Directories
<1>5. data'[d.binary] = data[d.binary] /\ running' = data[d.binary].build
  BY <1>1, <1>2, <1>3, <1>4, SurvivesIsContents DEF TypeOK
<1>6. \A p \in Updaters :
        /\ pc'[p] \in {"start", "done", "failed", "killed"}
        /\ pc'[p] = "start" => pc[p] = "start"
  BY <1>3
<1>7. TypeOK'
  <2>1. pc' \in [Updaters -> Labels]
    BY <1>3 DEF Labels
  <2>2. data' \in [Files -> Contents]
    BY <1>1, <1>3, SurvivesIsContents DEF TypeOK
  <2>3. running' \in Builds /\ stray' \subseteq Updaters
    BY <1>1, <1>2, <1>4, <1>5 DEF TypeOK
  <2> QED
    BY <1>1, <1>2, <1>3, <1>4, <2>1, <2>2, <2>3 DEF TypeOK, upstream, local
<1>8. InstalledIsSound' /\ ServiceFollowsSwap' /\ SumsOnRecord'
  BY <1>2, <1>3, <1>4, <1>5
  DEF IInv, InstalledIsSound, ServiceFollowsSwap, Installed, SumsOnRecord,
      upstream
<1>9. OneName(dir)' /\ OneNameBefore' /\ TempsAreUpdaters'
  BY <1>2, <1>3 DEF IInv, OneName, OneNameBefore, TempsAreUpdaters
<1>10. \A p \in Updaters : FindsItsFile(p)' /\ Staged(p)' /\ NotThereYet(p)'
  BY <1>2, <1>3, <1>6 DEF IInv, FindsItsFile, Staged, NotThereYet
<1>11. ASSUME NEW n \in Names PROVE HasOwner(n)'
  <2> SUFFICES ASSUME d.temps[n] # None
               PROVE  \E p \in Updaters :
                         /\ d.temps[n] = p
                         /\ pc'[p] = "killed" \/ p \in stray'
    BY <1>2 DEF HasOwner
  <2>1. d.temps[n] \in Updaters
    BY <1>4 DEF IInv, TempsAreUpdaters, Files
  <2>2. PICK p \in Updaters : d.temps[n] = p
    BY <2>1
  <2>3. pc[p] # "start"
    BY <2>2 DEF IInv, NotThereYet
  <2>4. CASE pc[p] \in {"done", "failed"}
    BY <1>2, <2>2, <2>4
  <2>5. CASE pc[p] \notin {"start", "done", "failed"}
    BY <1>3, <2>2, <2>5
  <2> QED
    BY <2>3, <2>4, <2>5
<1> QED
  BY <1>7, <1>8, <1>9, <1>10, <1>11 DEF IInv, TempsAreAccounted

-----------------------------------------------------------------------------
(* The invariant is inductive. *)
LEMMA Inductive == IInv /\ [Next]_vars => IInv'
<1> SUFFICES ASSUME IInv, [Next]_vars PROVE IInv'
  OBVIOUS
<1>1. CASE UNCHANGED vars
  BY <1>1
  DEF vars, upstream, disk, local, IInv, TempsAreAccounted, TypeOK,
      FindsItsFile, TempOf, HasOwner, OneName, OneNameBefore, TempsAreUpdaters,
      NotThereYet, InstalledIsSound, ServiceFollowsSwap, Installed, Staged,
      SumsOnRecord
<1> QED
  BY <1>1, UpstreamStep, NoFileStep, CreateTempStep, DownloadStep,
     SyncCloseStep, VerifyStep, ChmodStep, RenameStep, FailStep, CleanupStep,
     KillStep, PowerLossStep
  DEF Next

(* Every reachable state is as IInv describes it. *)
THEOREM Invariant == Spec => []IInv
  BY InitIInv, Inductive, PTL DEF Spec

(* What is at the install path, also after a power failure, is complete,   *)
(* executable, on disk and a build that a checksums.txt has vouched for    *)
(* (runUpdateWithOpts).                                                    *)
THEOREM InstalledIsAlwaysSound == Spec => []InstalledIsSound
<1>1. IInv => InstalledIsSound
  BY DEF IInv
<1> QED
  BY <1>1, Invariant, PTL

(* A temporary file is that of an updater at work, of one that was killed, *)
(* or of one whose removal failed or was taken back by a power failure, as *)
(* its swap may be; nobody removes another's, no file has two names, and   *)
(* the variables keep their types (os.CreateTemp, os.Rename and the        *)
(* deferred os.Remove).                                                    *)
THEOREM NoTempIsLost == Spec => []TempsAreAccounted
<1>1. IInv => TempsAreAccounted
  BY DEF IInv
<1> QED
  BY <1>1, Invariant, PTL

(* The service runs something else than what is installed only while an    *)
(* updater is about to restart it or after a restart did not happen.       *)
THEOREM ServiceCatchesUp == Spec => []ServiceFollowsSwap
<1>1. IInv => ServiceFollowsSwap
  BY DEF IInv
<1> QED
  BY <1>1, Invariant, PTL

(* The swap of an updater puts in place the build it downloaded, of the    *)
(* release it announced.                                                   *)
THEOREM TargetIsInstalled == Spec => InstallsItsTarget
<1>1. ASSUME IInv, [Next]_vars, NEW p \in Updaters
      PROVE  SwapsIn(p)
  <2> SUFFICES ASSUME pc[p] = "rename", pc'[p] = "restart"
               PROVE  /\ Installed' = got[p]
                      /\ got[p] \in {target[p]} \X (1 .. MaxRev)
    BY DEF SwapsIn
  <2>1. Staged(p) /\ TypeOK /\ TempOf(p) = p /\ name[p] \in Names
    BY <1>1, HolderHasFile DEF IInv, TempsAreAccounted, TempOf, Holding
  <2>2. Rename(p)
    BY <1>1, <2>1
    DEF Next, vars, Goto, TypeOK, Announce, UploadAsset, UploadSums, Resolve,
        CreateTemp, Download, SyncClose, Verify, Chmod, Rename, Restart,
        NoRestart, FailEarly, Fail, Cleanup, Kill, PowerLoss
  <2>3. dir'.binary = p /\ data' = data
    BY <2>1, <2>2 DEF Rename, ChangeDir, TypeOK, Directories
  <2> QED
    BY <2>1, <2>3 DEF Staged, Installed
<1>2. IInv /\ [Next]_vars => \A p \in Updaters : SwapsIn(p)
  BY <1>1
<1> QED
  BY <1>2, Invariant, PTL DEF Spec, InstallsItsTarget

-----------------------------------------------------------------------------
(* The steps of an updater, seen as steps of AtomicInstall. *)
LEMMA InstallInit == Init => Install!Init
<1> SUFFICES ASSUME Init PROVE Install!Init
  OBVIOUS
<1>1. Installed = <<1, 1>> /\ older \cup {dir} = {dir}
  BY DEF Init, Files, Installed
<1>2. {data[d.binary].build : d \in older \cup {dir}} = {<<1, 1>>}
  BY <1>1 DEF Installed
<1> QED
  BY <1>1, <1>2 DEF Init, Install!Init

(* A change of the directory that leaves the same file in place, or a      *)
(* change of a file that is not in place and was not.                      *)
LEMMA SameBuilds ==
  ASSUME UNCHANGED data, NEW d, ChangeDir(d), d.binary = dir.binary
  PROVE  /\ Installed' = Installed
         /\ {data[e.binary].build : e \in older \cup {dir}}' =
               {data[e.binary].build : e \in older \cup {dir}}
<1>1. dir' = d /\ older' = older \cup {dir}
  BY DEF ChangeDir
<1>2. \A e \in older' \cup {dir'} : \E f \in older \cup {dir} : f.binary = e.binary
  BY <1>1
<1> QED
  BY <1>1, <1>2 DEF Installed

LEMMA OtherContents ==
  ASSUME IInv, NEW p \in Updaters, pc[p] \in Holding, UNCHANGED <<dir, older>>,
         \A f \in Files \ {p} : data'[f] = data[f]
  PROVE  /\ Installed' = Installed
         /\ {data[e.binary].build : e \in older \cup {dir}}' =
               {data[e.binary].build : e \in older \cup {dir}}
<1>1. \A e \in older \cup {dir} : e.binary \in Files \ {p}
  BY DEF IInv, TempsAreAccounted, TypeOK, Directories, NotThereYet
<1>2. \A e \in older \cup {dir} : data'[e.binary] = data[e.binary]
  BY <1>1
<1> QED
  BY <1>2 DEF Installed

LEMMA InstallStep ==
  ASSUME IInv, [Next]_vars
  PROVE  [Install!Next]_(Install!installVars)
<1> USE DEF Install!installVars
<1> DEFINE held == {data[e.binary].build : e \in older \cup {dir}}
<1>1. TypeOK /\ InstalledIsSound /\ \A p \in Updaters : Staged(p)
  BY DEF IInv, TempsAreAccounted
<1>2. ASSUME UNCHANGED <<vouched, running>>, Installed' = Installed, held' = held
      PROVE  UNCHANGED Install!installVars
  BY <1>2
<1>3. CASE UNCHANGED vars
  <2>1. UNCHANGED <<vouched, data, dir, older, running>>
    BY <1>3 DEF vars, upstream, disk
  <2> QED
    BY <2>1 DEF Installed
<1>4. CASE Announce \/ \E t \in Tags : UploadAsset(t)
  <2>1. UNCHANGED <<vouched, data, dir, older, running>>
    BY <1>4 DEF Announce, UploadAsset, disk
  <2> QED
    BY <2>1 DEF Installed
<1>5. ASSUME NEW t \in Tags, UploadSums(t)
      PROVE  Install!Next
  <2>1. <<t, asset[t]>> \in Builds
    <3>1. vouched' \subseteq Builds
      BY <1>5, UpstreamStep DEF IInv, TempsAreAccounted, TypeOK
    <3> QED
      BY <1>5, <3>1 DEF UploadSums
  <2>2. Install!Release(<<t, asset[t]>>)
    BY <1>5 DEF UploadSums, disk, Install!Release, Installed
  <2> QED
    BY <2>1, <2>2 DEF Install!Next
<1>6. ASSUME NEW p \in Updaters,
             \/ Resolve(p) \/ Verify(p) \/ NoRestart(p)
             \/ FailEarly(p) \/ Fail(p) \/ Kill(p)
      PROVE  UNCHANGED Install!installVars
  <2>1. UNCHANGED <<vouched, data, dir, older, running>>
    BY <1>6
    DEF Resolve, Verify, NoRestart, FailEarly, Fail, Kill, upstream, disk
  <2> QED
    BY <2>1 DEF Installed
<1>7. ASSUME NEW p \in Updaters, Download(p) \/ SyncClose(p)
      PROVE  UNCHANGED Install!installVars
  <2>1. UNCHANGED <<vouched, dir, older, running>> /\ pc[p] \in Holding
    BY <1>7 DEF Download, SyncClose, upstream, Holding
  <2>2. \A f \in Files \ {p} : data'[f] = data[f]
    BY <1>1, <1>7 DEF Download, SyncClose, TypeOK
  <2> QED
    BY <1>2, <2>1, <2>2, OtherContents
<1>8. ASSUME NEW p \in Updaters, NEW d, ChangeDir(d), d.binary = dir.binary,
             UNCHANGED <<vouched, data, running>>
      PROVE  UNCHANGED Install!installVars
  BY <1>2, <1>8, SameBuilds
<1>9. ASSUME NEW p \in Updaters, CreateTemp(p) \/ Chmod(p) \/ Cleanup(p)
      PROVE  UNCHANGED Install!installVars
  <2>1. UNCHANGED <<vouched, data, running>>
    BY <1>9 DEF CreateTemp, Chmod, Cleanup, upstream
  <2>2. \/ UNCHANGED <<dir, older>>
        \/ \E d : ChangeDir(d) /\ d.binary = dir.binary
    <3>1. ASSUME NEW n
          PROVE  /\ [dir EXCEPT !.temps[n] = p].binary = dir.binary
                 /\ [dir EXCEPT !.temps[n] = None].binary = dir.binary
                 /\ [dir EXCEPT !.exec = @ \cup {TempOf(p)}].binary = dir.binary
      BY <1>1 DEF TypeOK, Directories
    <3>2. CASE CreateTemp(p)
      BY <3>1, <3>2 DEF CreateTemp
    <3>3. CASE Chmod(p)
      BY <3>1, <3>3 DEF Chmod
    <3>4. CASE Cleanup(p)
      BY <3>1, <3>4 DEF Cleanup
    <3> QED
      BY <1>9, <3>2, <3>3, <3>4
  <2>3. CASE UNCHANGED <<dir, older>>
    BY <2>1, <2>3 DEF Installed
  <2> QED
    BY <1>8, <2>1, <2>2, <2>3
<1>10. ASSUME NEW p \in Updaters, Rename(p)
      PROVE  Install!Next
  <2>1. /\ pc[p] = "rename" /\ TempOf(p) = p /\ name[p] \in Names
        /\ data[p].build = got[p] /\ got[p] \in vouched
    BY <1>1, <1>10, HolderHasFile DEF Rename, Staged, TempOf, Holding
  <2>2. PICK b \in Builds : b = got[p] /\ b \in vouched
    BY <1>1, <2>1 DEF TypeOK
  <2>3. /\ dir'.binary = p /\ older' = older \cup {dir}
        /\ UNCHANGED <<vouched, data, running>>
    BY <1>1, <1>10, <2>1 DEF Rename, ChangeDir, upstream, TypeOK, Directories
  <2>4. Installed' = b
    BY <2>1, <2>2, <2>3 DEF Installed
  <2>5. held' = held \cup {b}
    BY <2>3, <2>4 DEF Installed
  <2>6. Install!Swap(b)
    BY <2>2, <2>3, <2>4, <2>5 DEF Install!Swap
  <2> QED
    BY <2>6 DEF Install!Next
<1>11. ASSUME NEW p \in Updaters, Restart(p)
      PROVE  Install!Next
  <2>1. UNCHANGED <<vouched, data, dir, older>> /\ running' = Installed
    BY <1>11 DEF Restart, upstream, disk
  <2>2. Install!StartService
    BY <2>1 DEF Install!StartService, Installed
  <2> QED
    BY <2>2 DEF Install!Next
<1>12. CASE PowerLoss
  <2>1. PICK d \in older \cup {dir} :
          dir' = d /\ running' = Survives(data[d.binary]).build
    BY <1>12 DEF PowerLoss
  <2>2. /\ data' = [f \in Files |-> Survives(data[f])]
        /\ older' = {} /\ vouched' = vouched
    BY <1>12 DEF PowerLoss, upstream
  <2>3. /\ d.binary \in Files /\ data[d.binary].synced
        /\ Survives(data[d.binary]) = data[d.binary]
    BY <1>1, SurvivesIsContents DEF InstalledIsSound, TypeOK, Directories
  <2>4. Installed' = data[d.binary].build /\ running' = data[d.binary].build
    BY <2>1, <2>2, <2>3 DEF Installed
  <2>5. held' = {Installed'}
    BY <2>2 DEF Installed
  <2>6. data[d.binary].build \in held
    OBVIOUS
  <2>7. Install!PowerCycle
    BY <2>2, <2>4, <2>5, <2>6 DEF Install!PowerCycle
  <2> QED
    BY <2>7 DEF Install!Next
<1> QED
  BY <1>3, <1>4, <1>5, <1>6, <1>7, <1>9, <1>10, <1>11, <1>12 DEF Next

(* Updaters, uploads, failures and power losses implement AtomicInstall:   *)
(* what is in place is one released build or another, never a mixture.     *)
THEOREM Refinement == Spec => ImplementsAtomicInstall
<1>1. Init => Install!Init
  BY InstallInit
<1>2. IInv /\ [Next]_vars => [Install!Next]_(Install!installVars)
  BY InstallStep
<1> QED
  BY <1>1, <1>2, Invariant, PTL DEF Spec, Install!Spec, ImplementsAtomicInstall
=============================================================================
