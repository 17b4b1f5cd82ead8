---------------------------- MODULE SecretBootstrap ----------------------------
(***************************************************************************)
(* How the application secret comes into being: internal/config/config.go *)
(* (loadOrCreateSecret, used by the server) and cmd/debeasy/admin.go       *)
(* (openStoreForCLI), two programs that share the file <data-dir>/secret,  *)
(* and what depends on it: the passwords of saved connections, sealed by   *)
(* internal/store/connections.go with a key derived from the secret that   *)
(* the running server holds in memory.                                     *)
(*                                                                         *)
(* Every process may crash at any point.  os.WriteFile opens with O_TRUNC  *)
(* and then writes, so there is a moment (and, after a crash or a full     *)
(* disk, more than a moment) at which the file exists and holds no secret. *)
(* All servers are given the same listen address.  DEBEASY_APP_SECRET is   *)
(* not set.  One saved password stands for all of them.                    *)
(***************************************************************************)
EXTENDS Naturals, FiniteSets

CONSTANTS Servers, Clis,      \* processes that may be started again and again
          Secrets,            \* the 32-byte values rand.Read may return
          Absent, Torn,       \* no file; a file that does not decode
          ReadMayFail         \* os.ReadFile may fail though the file exists

ASSUME FileAssumption ==
    /\ Absent \notin Secrets /\ Torn \notin Secrets /\ Absent # Torn
    /\ Servers \cap Clis = {}
    /\ ReadMayFail \in BOOLEAN

VARIABLES file,      \* what <data-dir>/secret holds
          drawn,     \* secrets generated so far: rand.Read never repeats one
          pc,        \* where each process is
          secret,    \* Config.AppSecret of a server; what a CLI is writing
          sealed,    \* the secret the saved password is sealed with, or Absent
          raced,     \* history: two processes were creating the file at once
          cut,       \* history: a write was cut short
          misread    \* history: ReadFile failed on an existing file

history == <<raced, cut, misread>>
vars == <<file, drawn, pc, secret, sealed, raced, cut, misread>>

Procs == Servers \cup Clis
Creating(p) == pc[p] \in {"missing", "writing"}

Init ==
    /\ file = Absent
    /\ drawn = {}
    /\ pc = [p \in Procs |-> "down"]
    /\ secret = [p \in Procs |-> Absent]
    /\ sealed = Absent
    /\ raced = FALSE /\ cut = FALSE /\ misread = FALSE

Goto(p, l) == pc' = [pc EXCEPT ![p] = l]

(* A process looks at the file while another is creating it. *)
Look(p) == raced' = (raced \/ \E q \in Procs \ {p} : Creating(q))

(* os.ReadFile finds no file, or fails: any error means "generate". *)
ReadMissing(p) ==
    /\ p \in Servers /\ pc[p] = "down"
    /\ file = Absent \/ ReadMayFail
    /\ misread' = (misread \/ file # Absent)
    /\ Goto(p, "missing") /\ Look(p)
    /\ UNCHANGED <<file, drawn, secret, sealed, cut>>

(* os.ReadFile succeeds and the contents decode to 32 bytes. *)
ReadSecret(p) ==
    /\ p \in Servers /\ pc[p] = "down"
    /\ file \in Secrets
    /\ secret' = [secret EXCEPT ![p] = file]
    /\ Goto(p, "loaded") /\ Look(p)
    /\ UNCHANGED <<file, drawn, sealed, cut, misread>>

(* "corrupt secret file": the server does not start. *)
ReadTorn(p) ==
    /\ p \in Servers /\ pc[p] = "down"
    /\ file = Torn
    /\ Goto(p, "refused") /\ Look(p)
    /\ UNCHANGED <<file, drawn, secret, sealed, cut, misread>>

(* Mutant: the CLI writes a secret without looking for one. *)
StatMissingAlways(p) ==
    /\ p \in Clis /\ pc[p] = "down"
    /\ Goto(p, "missing") /\ Look(p)
    /\ UNCHANGED <<file, drawn, secret, sealed, cut, misread>>

(* openStoreForCLI: os.Stat reports that there is no file. *)
StatMissing(p) ==
    /\ p \in Clis /\ pc[p] = "down"
    /\ file = Absent
    /\ Goto(p, "missing") /\ Look(p)
    /\ UNCHANGED <<file, drawn, secret, sealed, cut, misread>>

(* The file exists, whatever it holds: the CLI goes on to open the store. *)
StatPresent(p) ==
    /\ p \in Clis /\ pc[p] = "down"
    /\ file # Absent
    /\ Goto(p, "up") /\ Look(p)
    /\ UNCHANGED <<file, drawn, secret, sealed, cut, misread>>

(* rand.Read, then the first half of os.WriteFile: create or truncate. *)
Truncate(p) ==
    /\ pc[p] = "missing"
    /\ \E s \in Secrets \ drawn :
         /\ drawn' = drawn \cup {s}
         /\ secret' = [secret EXCEPT ![p] = s]
    /\ file' = Torn
    /\ Goto(p, "writing")
    /\ UNCHANGED <<sealed, history>>

(* os.WriteFile cannot open the file for writing. *)
CreateFail(p) ==
    /\ pc[p] = "missing"
    /\ Goto(p, "failed")
    /\ UNCHANGED <<file, drawn, secret, sealed, history>>

(* Mutant: a write that stores nothing is taken for a success. *)
WriteShort(p) ==
    /\ pc[p] = "writing"
    /\ Goto(p, IF p \in Servers THEN "loaded" ELSE "up")
    /\ UNCHANGED <<file, drawn, secret, sealed, history>>

(* The second half of os.WriteFile: all 64 hex digits, from offset 0. *)
Write(p) ==
    /\ pc[p] = "writing"
    /\ file' = secret[p]
    /\ Goto(p, IF p \in Servers THEN "loaded" ELSE "up")
    /\ UNCHANGED <<drawn, secret, sealed, history>>

(* The write fails: the process gives up and leaves the file as it is. *)
WriteFail(p) ==
    /\ pc[p] = "writing"
    /\ cut' = TRUE
    /\ Goto(p, "failed")
    /\ UNCHANGED <<file, drawn, secret, sealed, raced, misread>>

(* net.Listen, after the configuration and the store are loaded: the       *)
(* address is free, or another server has it and this one exits.           *)
Listen(p) ==
    /\ p \in Servers /\ pc[p] = "loaded"
    /\ Goto(p, IF \E q \in Servers : pc[q] = "up" THEN "failed" ELSE "up")
    /\ UNCHANGED <<file, drawn, secret, sealed, history>>

(* Connections.Create and Update seal with the key of the running server. *)
SavePassword(p) ==
    /\ p \in Servers /\ pc[p] = "up"
    /\ sealed' = secret[p]
    /\ UNCHANGED <<file, drawn, pc, secret, history>>

(* The process ends or dies; a write under way is cut short. *)
Exit(p) ==
    /\ pc[p] # "down"
    /\ cut' = (cut \/ pc[p] = "writing")
    /\ Goto(p, "down")
    /\ secret' = [secret EXCEPT ![p] = Absent]
    /\ UNCHANGED <<file, drawn, sealed, raced, misread>>

Next ==
    \E p \in Procs :
        \/ ReadMissing(p) \/ ReadSecret(p) \/ ReadTorn(p)
        \/ StatMissing(p) \/ StatPresent(p)
        \/ Truncate(p) \/ CreateFail(p) \/ Write(p) \/ WriteFail(p)
        \/ Listen(p) \/ SavePassword(p) \/ Exit(p)

Spec == Init /\ [][Next]_vars

-----------------------------------------------------------------------------
Labels == {"down", "missing", "writing", "loaded", "up", "refused", "failed"}

(* Each variable holds a value of its kind, and no secret is used that was *)
(* not drawn.                                                              *)
TypeOK ==
    /\ file \in drawn \cup {Absent, Torn}
    /\ drawn \subseteq Secrets
    /\ pc \in [Procs -> Labels]
    /\ secret \in [Procs -> drawn \cup {Absent}]
    /\ sealed \in drawn \cup {Absent}
    /\ raced \in BOOLEAN /\ cut \in BOOLEAN /\ misread \in BOOLEAN

(* As long as no two processes created the file at once and no read failed *)
(* spuriously, every server works with the secret that is in the file, and *)
(* the saved password is sealed with it, through all crashes and restarts: *)
(* the next server will be able to open it.                                *)
SealsSurviveRestart ==
    ~raced /\ ~misread =>
        /\ sealed \in {Absent, file}
        /\ \A p \in Servers : pc[p] \in {"loaded", "up"} => secret[p] = file

(* A server refuses to start only because a write was cut short or because *)
(* it read in the middle of one.                                           *)
RefusedOnlyIfCut ==
    (\E p \in Servers : pc[p] = "refused") => (raced \/ cut)

(* A file that holds a secret loses it only to a race or a failed read:    *)
(* no start, crash or CLI run replaces a settled secret.                   *)
SecretStays ==
    [][(file \in Secrets /\ file' # file) => (raced \/ misread)]_vars

(* The strengthening that makes these inductive.  Without a race there is  *)
(* one creator at most; it found no file, and the file it is writing is    *)
(* the torn one.  A torn file has a writer or is the trace of a cut write. *)
OneCreator ==
    ~raced => \A p, q \in Procs : Creating(p) /\ Creating(q) => p = q

CreatorsView ==
    ~raced /\ ~misread =>
        \A p \in Procs :
            /\ pc[p] = "missing" => file = Absent
            /\ pc[p] = "writing" => file = Torn

TornHasAuthor == file = Torn => cut \/ \E p \in Procs : pc[p] = "writing"

SecretsHeld ==
    /\ \A p \in Procs : pc[p] = "writing" => secret[p] \in drawn
    /\ \A p \in Servers : pc[p] \in {"loaded", "up"} => secret[p] \in drawn

IInv ==
    /\ TypeOK /\ OneCreator /\ CreatorsView /\ TornHasAuthor /\ SecretsHeld
    /\ SealsSurviveRestart /\ RefusedOnlyIfCut

(* Claim of config_test.go:40, "secret should persist across loads".       *)
SecretPersists == [][(file \in Secrets) => (file' = file)]_vars
=============================================================================
