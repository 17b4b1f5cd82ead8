----------------------------- MODULE UpdateChecker -----------------------------
(***************************************************************************)
(* The update banner: internal/updates/updates.go (Load, Check, clear,     *)
(* writeCache, Newer) and the goroutine of internal/server/server.go that  *)
(* drives it.  The newest release is kept in memory and in                 *)
(* <data-dir>/update_check.json, which is written through a temporary file *)
(* of a fixed name and neither synced nor locked.                          *)
(*                                                                         *)
(* The server may stop at any point, be upgraded or downgraded while it is *)
(* down, and lose the unsynced file when power fails.  GitHub is external: *)
(* it answers or does not, and reports a release tag or something Check    *)
(* passes over (a draft, a prerelease, an empty tag).                      *)
(* A tag is a sequence of numbers and, last, a suffix; only those of three *)
(* numbers parse.                                                          *)
(***************************************************************************)
EXTENDS Naturals, Sequences

CONSTANTS Tags,                \* versions that are released or installed
          Passed,              \* the API's answer is one Check passes over
          None, Torn           \* no release; a file that does not unmarshal

ASSUME CheckerAssumption ==
    /\ \A t \in Tags : t \in Seq(Nat) /\ Len(t) > 0
    /\ Passed \notin Tags /\ None \notin Tags /\ Torn \notin Tags
    /\ None # Torn

VARIABLES published,   \* what /releases/latest reports
          reachable,   \* whether a request to it succeeds
          installed,   \* version of the binary on disk
          current,     \* Checker.currentVersion
          latest,      \* Checker.latest
          cache, tmp,  \* the cache file and its temporary file
          pc,          \* where the server's checker goroutine is
          gap          \* history: why the file may differ from the memory

vars == <<published, reachable, installed, current, latest, cache, tmp, pc, gap>>
world == <<published, reachable, installed>>

Init ==
    /\ published \in Tags \cup {Passed}
    /\ reachable = TRUE
    /\ installed \in Tags
    /\ current = installed
    /\ latest = None
    /\ cache = None /\ tmp = None
    /\ pc = "off"
    /\ gap = "none"

(* parseSemver succeeds: three numbers (the fourth place is the suffix). *)
Parses(t) == Len(t) = 4

(* The first of the three numbers that differs decides. *)
Newer(l, c) ==
    /\ Parses(l) /\ Parses(c)
    /\ \E i \in 1 .. 3 : l[i] > c[i] /\ \A j \in 1 .. i - 1 : l[j] = c[j]

(* Mutant: the cache is believed whatever version is running. *)
LoadedUnchecked(f, c) == IF f \in Tags THEN f ELSE None

(* What Load takes from a file it can read: nothing if there is none, if   *)
(* it does not unmarshal, or if its tag is not newer than what is running. *)
Loaded(f, c) == IF f \in Tags /\ Newer(f, c) THEN f ELSE None

(* server.New: New, then Load, whose error is only logged.  A file that is *)
(* there but cannot be read leaves the memory empty and stays as it is.    *)
Boot ==
    /\ pc = "off"
    /\ current' = installed
    /\ \/ latest' = Loaded(cache, installed) /\ gap' = "none"
       \/ cache # None /\ latest' = None /\ gap' = "unread"
    /\ pc' = "idle"
    /\ UNCHANGED <<world, cache, tmp>>

(* The initial delay or the ticker: Check sends its request. *)
Ask ==
    /\ pc = "idle"
    /\ pc' = "asking"
    /\ UNCHANGED <<world, current, latest, cache, tmp, gap>>

(* No answer in time, a status that is not 2xx, or no JSON. *)
AskFail ==
    /\ pc = "asking" /\ ~reachable
    /\ pc' = "idle"
    /\ UNCHANGED <<world, current, latest, cache, tmp, gap>>

(* A draft, a prerelease or an empty tag: what is known stays. *)
AnswerPassed ==
    /\ pc = "asking" /\ reachable /\ published = Passed
    /\ pc' = "idle"
    /\ UNCHANGED <<world, current, latest, cache, tmp, gap>>

(* Mutant: the memory is cleared and the cache file is left behind. *)
AnswerClearMemory ==
    /\ pc = "asking" /\ reachable
    /\ published \in Tags /\ ~Newer(published, current)
    /\ latest' = None
    /\ pc' = "idle"
    /\ UNCHANGED <<world, current, cache, tmp, gap>>

(* Not newer than what is running: clear, first the memory. *)
AnswerClear ==
    /\ pc = "asking" /\ reachable
    /\ published \in Tags /\ ~Newer(published, current)
    /\ latest' = None
    /\ pc' = "remove"
    /\ UNCHANGED <<world, current, cache, tmp, gap>>

(* clear, then the file; an error is ignored. *)
Remove ==
    /\ pc = "remove"
    /\ \/ cache' = None /\ gap' = "none"
       \/ cache' = cache /\ gap' = "unsaved"
    /\ pc' = "idle"
    /\ UNCHANGED <<world, current, latest, tmp>>

(* Mutant: the first release found is kept. *)
AnswerFirst ==
    /\ pc = "asking" /\ reachable
    /\ published \in Tags /\ Newer(published, current)
    /\ latest' = IF latest = None THEN published ELSE latest
    /\ pc' = "write"
    /\ UNCHANGED <<world, current, cache, tmp, gap>>

(* A newer release: the memory is set before the file is written. *)
AnswerNewer ==
    /\ pc = "asking" /\ reachable
    /\ published \in Tags /\ Newer(published, current)
    /\ latest' = published
    /\ pc' = "write"
    /\ UNCHANGED <<world, current, cache, tmp, gap>>

(* writeCache: os.WriteFile of the temporary file succeeds. *)
WriteTmp ==
    /\ pc = "write"
    /\ tmp' = latest
    /\ pc' = "rename"
    /\ UNCHANGED <<world, current, latest, cache, gap>>

(* Mutant: the cache file is written in place. *)
WriteInPlaceFail ==
    /\ pc = "write"
    /\ cache' = Torn
    /\ gap' = "unsaved"
    /\ pc' = "idle"
    /\ UNCHANGED <<world, current, latest, tmp>>

(* It fails, perhaps half-way; Check returns the release and the error. *)
WriteTmpFail ==
    /\ pc = "write"
    /\ tmp' \in {tmp, Torn}
    /\ gap' = "unsaved"
    /\ pc' = "idle"
    /\ UNCHANGED <<world, current, latest, cache>>

RenameTmp ==
    /\ pc = "rename"
    /\ \/ cache' = tmp /\ tmp' = None /\ gap' = "none"
       \/ UNCHANGED <<cache, tmp>> /\ gap' = "unsaved"
    /\ pc' = "idle"
    /\ UNCHANGED <<world, current, latest>>

(* The process ends; the memory is gone. *)
Stop ==
    /\ pc # "off"
    /\ latest' = None
    /\ tmp' \in (IF pc = "write" THEN {tmp, Torn} ELSE {tmp})
    /\ gap' = (IF pc \in {"remove", "write", "rename"} THEN "unsaved" ELSE gap)
    /\ pc' = "off"
    /\ UNCHANGED <<world, current, cache>>

(* Power fails: files that were not synced may have lost their contents. *)
PowerLoss ==
    /\ latest' = None
    /\ cache' \in (IF cache = None THEN {None} ELSE {cache, Torn})
    /\ tmp' \in (IF tmp = None THEN {None} ELSE {tmp, Torn})
    /\ gap' = "unsaved"
    /\ pc' = "off"
    /\ UNCHANGED <<world, current>>

(* debeasy update, the installer, or a binary put there by hand. *)
Upgrade ==
    /\ installed' \in Tags
    /\ UNCHANGED <<published, reachable, current, latest, cache, tmp, pc, gap>>

(* GitHub: a release appears or is withdrawn; the API comes and goes. *)
Publish ==
    /\ published' \in Tags \cup {Passed}
    /\ UNCHANGED <<reachable, installed, current, latest, cache, tmp, pc, gap>>

Reach ==
    /\ reachable' = ~reachable
    /\ UNCHANGED <<published, installed, current, latest, cache, tmp, pc, gap>>

Check ==
    \/ Ask \/ AskFail \/ AnswerPassed \/ AnswerClear \/ AnswerNewer
    \/ Remove \/ WriteTmp \/ WriteTmpFail \/ RenameTmp

Next == Boot \/ Check \/ Stop \/ PowerLoss \/ Upgrade \/ Publish \/ Reach

Spec == Init /\ [][Next]_vars

(* The ticker goroutine runs as long as the server does, and a request     *)
(* ends: http.Client has a timeout.  Nothing else is fair.                 *)
FairSpec == Spec /\ WF_vars(Check)

-----------------------------------------------------------------------------
(* Every variable holds a value of its kind. *)
TypeOK ==
    /\ published \in Tags \cup {Passed} /\ reachable \in BOOLEAN
    /\ installed \in Tags /\ current \in Tags
    /\ latest \in Tags \cup {None}
    /\ cache \in Tags \cup {None, Torn} /\ tmp \in Tags \cup {None, Torn}
    /\ pc \in {"off", "idle", "asking", "remove", "write", "rename"}
    /\ gap \in {"none", "unsaved", "unread"}

(* Reference for Newer: l comes before c, or is the same release, in the    *)
(* order of dictionaries.                                                  *)
NotAfter(l, c) ==
    \/ l[1] < c[1]
    \/ l[1] = c[1] /\ l[2] < c[2]
    \/ l[1] = c[1] /\ l[2] = c[2] /\ l[3] <= c[3]

(* The banner never offers the running version or an older one, whatever   *)
(* was upgraded or downgraded since the cache was written, and there is    *)
(* none on a development build; the variables keep their types.            *)
BannerIsNewer ==
    /\ TypeOK
    /\ latest # None =>
           Parses(latest) /\ Parses(current) /\ ~NotAfter(latest, current)

(* "So the banner survives restarts" (updates.go:6): between checks, the   *)
(* file would restore exactly what the memory shows, unless saving it      *)
(* failed.  A start that could not read the file shows no banner, and      *)
(* nothing else, until a check has saved or removed the file.              *)
BannerSurvivesRestart ==
    pc = "idle" =>
        \/ latest = Loaded(cache, current)
        \/ gap = "unread" /\ latest = None
        \/ gap = "unsaved"

(* The cache file is complete at every moment, also when the server dies   *)
(* in the middle of writing it; only a power failure can tear it.          *)
TornByPowerOnly == cache' = Torn /\ cache # Torn => pc' = "off"
CacheStaysWhole == [][TornByPowerOnly]_vars

(* Once GitHub settles on a release and can be reached, and the server     *)
(* stays up, the banner settles on that release, or on none if it is not   *)
(* newer.                                                                  *)
BannerSettles ==
    \A t \in Tags :
        <>[](reachable /\ published = t /\ pc # "off")
            => <>[](latest = IF Newer(t, current) THEN t ELSE None)

-----------------------------------------------------------------------------
(***************************************************************************)
(* The inductive invariant of UpdateCheckerProofs.                         *)
(***************************************************************************)
(* What is in memory is newer than what runs, wherever it came from. *)
MemoryIsNewer == latest # None => Newer(latest, current)

(* What writeCache is about to save is what is in memory, and clear has    *)
(* emptied the memory before it removes the file.                          *)
SavesTheMemory ==
    /\ pc \in {"write", "rename"} => latest # None
    /\ pc = "rename" => tmp = latest
    /\ pc \in {"off", "remove"} => latest = None

(* While no file operation is due, the file restores the memory unless one *)
(* has failed; one that could not be read has left the memory empty.       *)
FileMatchesMemory ==
    pc \in {"idle", "asking"} =>
        /\ gap = "none" => latest = Loaded(cache, current)
        /\ gap = "unread" => latest = None

IInv == TypeOK /\ MemoryIsNewer /\ SavesTheMemory /\ FileMatchesMemory
=============================================================================
