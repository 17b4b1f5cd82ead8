-------------------------------- MODULE Updater --------------------------------
(***************************************************************************)
(* debeasy update: cmd/debeasy/update.go, runUpdateWithOpts.  Several      *)
(* invocations may run at once on one installed binary, next to release    *)
(* uploads at GitHub (external), and any of them may fail or be killed at  *)
(* any step.  The machine may lose power, and then a file that was not     *)
(* synced has lost its contents, and the directory with its names and file *)
(* modes is back where it was at some moment since power last failed: the  *)
(* file system writes these changes in order, but later.                   *)
(*                                                                         *)
(* A build <<t, r>> is the r-th upload of the asset of release t; its      *)
(* digest is the build itself.  A file is known by the updater that makes  *)
(* it, whatever its name; the one installed by hand is Shipped.  Prompt,   *)
(* --check and the choice of the asset's name appear only as an end before *)
(* anything is touched.                                                    *)
(***************************************************************************)
EXTENDS Naturals

CONSTANTS Updaters,      \* invocations of debeasy update
          Names,         \* names os.CreateTemp can come up with
          MaxTag,        \* bound: releases 1 .. MaxTag
          MaxRev,        \* bound: uploads of one asset
          Shipped,       \* the file that was installed by hand
          None, Garbage  \* no file; contents that are no build

Tags == 1 .. MaxTag
Builds == Tags \X (1 .. MaxRev)
Files == Updaters \cup {Shipped}
Contents == [build : Builds \cup {Garbage}, synced : BOOLEAN]

(* What the file system writes in order: the file under each temporary     *)
(* name, the file at the install path, and the files that are executable.  *)
Directories ==
    [temps : [Names -> Files \cup {None}], binary : Files, exec : SUBSET Files]

ASSUME UpdaterAssumption ==
    /\ MaxTag \in Nat \ {0} /\ MaxRev \in Nat \ {0}
    /\ None \notin Names /\ None \notin Files
    /\ Shipped \notin Updaters
    /\ Garbage \notin Builds

VARIABLES latest,    \* the release the API reports
          asset,     \* per release: upload now being served, 0 if none
          sums,      \* per release: upload its checksums.txt speaks of
          data,      \* the contents of each file
          dir,       \* the directory of the binary
          older,     \* what it goes back to if power fails
          stray,     \* history: updaters whose file outlived its removal
          running,   \* build the service was last started from
          pc, target, name, got,
          vouched,   \* history: builds some checksums.txt has spoken of
          behind     \* history: a swap was not followed by a restart

upstream == <<latest, asset, sums, vouched>>
disk == <<data, dir, older, stray>>
local == <<target, name, got>>
vars == <<upstream, disk, running, pc, local, behind>>

Init ==
    /\ latest = 1
    /\ asset = [t \in Tags |-> IF t = 1 THEN 1 ELSE 0]
    /\ sums = asset
    /\ data = [f \in Files |-> IF f = Shipped
                                  THEN [build |-> <<1, 1>>, synced |-> TRUE]
                                  ELSE [build |-> Garbage, synced |-> FALSE]]
    /\ dir = [temps |-> [n \in Names |-> None],
              binary |-> Shipped, exec |-> {Shipped}]
    /\ older = {}
    /\ stray = {}
    /\ running = <<1, 1>>
    /\ pc = [p \in Updaters |-> "start"]
    /\ target = [p \in Updaters |-> 1]
    /\ name = [p \in Updaters |-> None]
    /\ got = [p \in Updaters |-> Garbage]
    /\ vouched = {<<1, 1>>}
    /\ behind = FALSE

Goto(p, l) == pc' = [pc EXCEPT ![p] = l]

(* What is installed, and the file p's temporary name leads to. *)
Installed == data[dir.binary].build
TempOf(p) == dir.temps[name[p]]

(* A change of the directory, which power failure can take back. *)
ChangeDir(d) ==
    /\ dir' = d
    /\ older' = older \cup {dir}

-----------------------------------------------------------------------------
(* GitHub: a release is announced, its asset uploaded (or replaced), and   *)
(* its checksums.txt uploaded, each on its own.                            *)
Announce ==
    /\ latest < MaxTag
    /\ latest' = latest + 1
    /\ UNCHANGED <<asset, sums, vouched, disk, running, pc, local, behind>>

UploadAsset(t) ==
    /\ asset[t] < MaxRev
    /\ asset' = [asset EXCEPT ![t] = @ + 1]
    /\ UNCHANGED <<latest, sums, vouched, disk, running, pc, local, behind>>

UploadSums(t) ==
    /\ sums[t] # asset[t]
    /\ sums' = [sums EXCEPT ![t] = asset[t]]
    /\ vouched' = vouched \cup {<<t, asset[t]>>}
    /\ UNCHANGED <<latest, asset, disk, running, pc, local, behind>>

-----------------------------------------------------------------------------
(* The program starts from the file in place, resolves the tag and stops   *)
(* unless it differs from its own version.                                 *)
Resolve(p) ==
    /\ pc[p] = "start"
    /\ \E t \in Tags :      \* --version, or fetchLatestTag
         /\ t <= latest
         /\ target' = [target EXCEPT ![p] = t]
         /\ Goto(p, IF t = Installed[1] THEN "done" ELSE "temp")
    /\ UNCHANGED <<upstream, disk, running, name, got, behind>>

(* os.CreateTemp in the directory of the binary. *)
CreateTemp(p) ==
    /\ pc[p] = "temp"
    /\ \E n \in Names :
         /\ dir.temps[n] = None
         /\ ChangeDir([dir EXCEPT !.temps[n] = p])
         /\ name' = [name EXCEPT ![p] = n]
    /\ Goto(p, "download")
    /\ UNCHANGED <<upstream, data, stray, running, target, got, behind>>

(* downloadWithHash reports success: the digest is that of the bytes it    *)
(* wrote, which may have been damaged on the way.                          *)
Download(p) ==
    /\ pc[p] = "download"
    /\ asset[target[p]] > 0
    /\ \E b \in {<<target[p], asset[target[p]]>>, Garbage} :
         /\ data' = [data EXCEPT ![p].build = b]
         /\ got' = [got EXCEPT ![p] = b]
    /\ Goto(p, "sync")
    /\ UNCHANGED <<upstream, dir, older, stray, running, target, name, behind>>

(* Mutant: the file is closed and not synced. *)
CloseUnsynced(p) ==
    /\ pc[p] = "sync"
    /\ Goto(p, "checksum")
    /\ UNCHANGED <<upstream, disk, running, local, behind>>

(* tmpFile.Sync and Close. *)
SyncClose(p) ==
    /\ pc[p] = "sync"
    /\ data' = [data EXCEPT ![p].synced = TRUE]
    /\ Goto(p, "checksum")
    /\ UNCHANGED <<upstream, dir, older, stray, running, local, behind>>

(* Mutant: an entry in checksums.txt is enough. *)
VerifyPresent(p) ==
    /\ pc[p] = "checksum"
    /\ sums[target[p]] > 0
    /\ Goto(p, "chmod")
    /\ UNCHANGED <<upstream, disk, running, local, behind>>

(* fetchChecksum finds the entry of the asset and it equals the digest of  *)
(* what was downloaded.                                                    *)
Verify(p) ==
    /\ pc[p] = "checksum"
    /\ sums[target[p]] > 0
    /\ got[p] = <<target[p], sums[target[p]]>>
    /\ Goto(p, "chmod")
    /\ UNCHANGED <<upstream, disk, running, local, behind>>

(* os.Chmod, by name. *)
Chmod(p) ==
    /\ pc[p] = "chmod"
    /\ TempOf(p) # None
    /\ ChangeDir([dir EXCEPT !.exec = @ \cup {TempOf(p)}])
    /\ Goto(p, "rename")
    /\ UNCHANGED <<upstream, data, stray, running, local, behind>>

(* Mutant: the restart is forgotten. *)
RenameOnly(p) ==
    /\ pc[p] = "rename"
    /\ TempOf(p) # None
    /\ ChangeDir([dir EXCEPT !.binary = TempOf(p), !.temps[name[p]] = None])
    /\ Goto(p, "done")
    /\ UNCHANGED <<upstream, data, stray, running, local, behind>>

(* Mutant: the file is copied over the binary, and the copy is not synced. *)
CopyOver(p) ==
    /\ pc[p] = "rename"
    /\ TempOf(p) # None
    /\ data' = [data EXCEPT ![dir.binary] = [data[TempOf(p)] EXCEPT !.synced = FALSE]]
    /\ ChangeDir([dir EXCEPT !.temps[name[p]] = None])
    /\ Goto(p, "restart")
    /\ UNCHANGED <<upstream, stray, running, local, behind>>

(* os.Rename, which replaces the file at the install path at once. *)
Rename(p) ==
    /\ pc[p] = "rename"
    /\ TempOf(p) # None
    /\ ChangeDir([dir EXCEPT !.binary = TempOf(p), !.temps[name[p]] = None])
    /\ Goto(p, "restart")
    /\ UNCHANGED <<upstream, data, stray, running, local, behind>>

(* systemctl restart succeeds. *)
Restart(p) ==
    /\ pc[p] = "restart"
    /\ running' = Installed
    /\ behind' = FALSE
    /\ Goto(p, "done")
    /\ UNCHANGED <<upstream, disk, local>>

(* --no-restart, or systemctl fails, which is a warning only. *)
NoRestart(p) ==
    /\ pc[p] = "restart"
    /\ behind' = TRUE
    /\ Goto(p, "done")
    /\ UNCHANGED <<upstream, disk, running, local>>

(* An error before the temporary file exists: nothing to clean up. *)
FailEarly(p) ==
    /\ pc[p] \in {"start", "temp"}
    /\ Goto(p, "failed")
    /\ UNCHANGED <<upstream, disk, running, local, behind>>

(* Mutant: only the steps up to the checksum clean up after themselves. *)
FailNoCleanup(p) ==
    /\ pc[p] \in {"download", "sync", "checksum", "chmod", "rename"}
    /\ Goto(p, IF pc[p] \in {"chmod", "rename"} THEN "failed" ELSE "cleanup")
    /\ UNCHANGED <<upstream, disk, running, local, behind>>

(* An error afterwards: no answer, a partial copy, no entry in             *)
(* checksums.txt, a digest that differs, no permission to rename.          *)
Fail(p) ==
    /\ pc[p] \in {"download", "sync", "checksum", "chmod", "rename"}
    /\ Goto(p, "cleanup")
    /\ UNCHANGED <<upstream, disk, running, local, behind>>

(* The deferred function closes and removes the temporary file; an error   *)
(* of os.Remove is ignored.                                                *)
Cleanup(p) ==
    /\ pc[p] = "cleanup"
    /\ \/ ChangeDir([dir EXCEPT !.temps[name[p]] = None]) /\ UNCHANGED stray
       \/ stray' = stray \cup {p} /\ UNCHANGED <<dir, older>>
    /\ Goto(p, "failed")
    /\ UNCHANGED <<upstream, data, running, local, behind>>

(* The process is killed; deferred functions do not run. *)
Kill(p) ==
    /\ pc[p] \notin {"done", "failed", "killed"}
    /\ behind' = (behind \/ pc[p] = "restart")
    /\ Goto(p, "killed")
    /\ UNCHANGED <<upstream, disk, running, local>>

(* What is left of a file's contents when power fails. *)
Survives(c) == IF c.synced THEN c ELSE [c EXCEPT !.build = Garbage]

(* Power fails: every process dies and the service starts at boot.  A swap *)
(* that is taken back leaves its file under the temporary name again, as   *)
(* does a removal.                                                         *)
PowerLoss ==
    /\ data' = [f \in Files |-> Survives(data[f])]
    /\ \E d \in older \cup {dir} :
         /\ dir' = d
         /\ running' = Survives(data[d.binary]).build
         /\ stray' = stray \cup {p \in Updaters :
                /\ pc[p] \in {"done", "failed"}
                /\ \E n \in Names : d.temps[n] = p}
    /\ older' = {}
    /\ behind' = FALSE
    /\ pc' = [p \in Updaters |-> IF pc[p] \in {"start", "done", "failed"}
                                   THEN pc[p] ELSE "killed"]
    /\ UNCHANGED <<upstream, local>>

Next ==
    \/ Announce
    \/ \E t \in Tags : UploadAsset(t) \/ UploadSums(t)
    \/ \E p \in Updaters :
         \/ Resolve(p) \/ CreateTemp(p) \/ Download(p) \/ SyncClose(p)
         \/ Verify(p) \/ Chmod(p) \/ Rename(p) \/ Restart(p) \/ NoRestart(p)
         \/ FailEarly(p) \/ Fail(p) \/ Cleanup(p) \/ Kill(p)
    \/ PowerLoss

Spec == Init /\ [][Next]_vars

-----------------------------------------------------------------------------
Labels == {"start", "temp", "download", "sync", "checksum", "chmod", "rename",
           "restart", "cleanup", "done", "failed", "killed"}
Holding == {"download", "sync", "checksum", "chmod", "rename", "cleanup"}

(* Every variable holds a value of its kind. *)
TypeOK ==
    /\ latest \in Tags
    /\ asset \in [Tags -> 0 .. MaxRev] /\ sums \in [Tags -> 0 .. MaxRev]
    /\ data \in [Files -> Contents]
    /\ dir \in Directories /\ older \subseteq Directories
    /\ stray \subseteq Updaters
    /\ running \in Builds
    /\ pc \in [Updaters -> Labels]
    /\ target \in [Updaters -> Tags]
    /\ name \in [Updaters -> Names \cup {None}]
    /\ got \in [Updaters -> Builds \cup {Garbage}]
    /\ vouched \subseteq Builds
    /\ behind \in BOOLEAN

(* An updater that has come to its temporary file still finds its own file *)
(* under that name, for nobody else removes it.                            *)
FindsItsFile(p) ==
    pc[p] \in Holding => name[p] \in Names /\ TempOf(p) = p
HasOwner(n) ==
    dir.temps[n] # None =>
        \E p \in Updaters :
            /\ dir.temps[n] = p
            /\ pc[p] \in Holding \cup {"killed"} \/ p \in stray

(* A file has one name, a temporary one or that of the binary. *)
OneName(d) ==
    \A n \in Names : d.temps[n] # None =>
        /\ d.temps[n] # d.binary
        /\ \A m \in Names : d.temps[m] = d.temps[n] => m = n

(* What is at the install path, now or after a power failure, is complete, *)
(* executable, on disk, and a build that a checksums.txt has vouched for:  *)
(* update.go:274, "a corrupted download never reaches $PREFIX/bin".        *)
InstalledIsSound ==
    \A d \in older \cup {dir} :
        /\ data[d.binary].synced /\ data[d.binary].build \in vouched
        /\ d.binary \in d.exec

(* Temporary files belong to an updater at work, to one that was killed,   *)
(* or to one whose removal failed or whose removal or swap a power failure *)
(* took back: no error leaves one behind, no updater removes or renames    *)
(* another's, and no file is in place and under a temporary name at once;  *)
(* the variables keep their types.                                         *)
TempsAreAccounted ==
    /\ TypeOK
    /\ \A p \in Updaters : FindsItsFile(p)
    /\ \A n \in Names : HasOwner(n)
    /\ OneName(dir)

(* The service runs something else than what is installed only while an    *)
(* updater is about to restart it, or after a restart was skipped, failed  *)
(* or prevented.  However updaters overlap, the last restart gets the last *)
(* swap.                                                                   *)
ServiceFollowsSwap ==
    running # Installed => behind \/ \E p \in Updaters : pc[p] = "restart"

(* An updater that gets to its swap installs a build of the release it     *)
(* announced, not another updater's download.                              *)
SwapsIn(p) ==
    pc[p] = "rename" /\ pc'[p] = "restart" =>
        /\ Installed' = got[p]
        /\ got[p] \in {target[p]} \X (1 .. MaxRev)
InstallsItsTarget == [][\A p \in Updaters : SwapsIn(p)]_vars

Install == INSTANCE AtomicInstall
             WITH First <- <<1, 1>>, released <- vouched,
                  installed <- Installed,
                  held <- {data[d.binary].build : d \in older \cup {dir}}

(* The updaters implement AtomicInstall: however they overlap, fail, are   *)
(* killed or lose power, a step of theirs puts a whole released build in   *)
(* place, starts the service from what is in place, or changes neither     *)
(* (README.md:124, "atomically replaces the binary").                      *)
ImplementsAtomicInstall == Install!Spec

-----------------------------------------------------------------------------
(***************************************************************************)
(* The inductive invariant of UpdaterProofs.                               *)
(***************************************************************************)
(* A power failure takes no file back to two names. *)
OneNameBefore == \A d \in older \cup {dir} : OneName(d)

(* An updater's file has no name before it is created, and is not in place *)
(* before the updater is past its swap.                                    *)
NotThereYet(p) ==
    \A d \in older \cup {dir} :
        /\ pc[p] \in {"start", "temp"} => \A n \in Names : d.temps[n] # p
        /\ pc[p] \in {"start", "temp"} \cup Holding => d.binary # p

(* Only updaters' files get temporary names. *)
TempsAreUpdaters ==
    \A d \in older \cup {dir} : \A n \in Names : d.temps[n] # Shipped

(* What an updater has established about its file by the time it is there. *)
Staged(p) ==
    /\ pc[p] \in {"sync", "checksum", "chmod", "rename"} => data[p].build = got[p]
    /\ pc[p] \in {"checksum", "chmod", "rename"} => data[p].synced
    /\ pc[p] \in {"chmod", "rename"} =>
           got[p] \in vouched /\ got[p] \in {target[p]} \X (1 .. MaxRev)
    /\ pc[p] = "rename" => p \in dir.exec

(* A checksums.txt speaks of an upload there has been, and is on record. *)
SumsOnRecord ==
    \A t \in Tags :
        /\ sums[t] <= asset[t]
        /\ sums[t] > 0 => <<t, sums[t]>> \in vouched

IInv ==
    /\ TempsAreAccounted
    /\ InstalledIsSound
    /\ ServiceFollowsSwap
    /\ OneNameBefore
    /\ TempsAreUpdaters
    /\ \A p \in Updaters : NotThereYet(p) /\ Staged(p)
    /\ SumsOnRecord
=============================================================================
