-------------------------- MODULE LoginRateLimiter --------------------------
(***************************************************************************)
(* loginRateLimiter of internal/server/middleware.go: a token bucket per   *)
(* client address, asked once by every POST /login.  Allow runs wholly     *)
(* under the limiter's mutex, so one call is one step; calls from          *)
(* different requests interleave in any order and at any tick.             *)
(*                                                                         *)
(* refillPerSec = 0.1 appears as FillTime, the ticks it takes to earn one  *)
(* token: int(elapsed * 0.1) is elapsed \div FillTime.  time.Time carries  *)
(* a monotonic reading, so the clock does not go back.                     *)
(***************************************************************************)
EXTENDS Integers

CONSTANTS
    Ips,        \* client addresses
    MaxTokens,  \* const maxTokens
    FillTime,   \* ticks per token
    MaxTime     \* bound: the last tick of the clock

ASSUME LimiterAssumption ==
    /\ MaxTokens \in Nat \ {0}
    /\ FillTime \in Nat \ {0}
    /\ MaxTime \in Nat

VARIABLES
    seen,       \* addresses that have a bucket
    tokens,     \* ipBucket.tokens
    lastFill,   \* ipBucket.lastFill
    now,        \* time.Now()
    winStart,   \* history: the start of an observation window
    admitted,   \* history: attempts admitted in that window
    refusing,   \* history: addresses whose latest attempt was refused
    firstNo,    \* history: the first refusal of the current run of refusals
    lastNo      \* history: the last one

history == <<winStart, admitted, refusing, firstNo, lastNo>>
vars == <<seen, tokens, lastFill, now, winStart, admitted, refusing, firstNo,
          lastNo>>

Init ==
    /\ seen = {}
    /\ tokens = [ip \in Ips |-> 0]
    /\ lastFill = [ip \in Ips |-> 0]
    /\ now = 0
    /\ winStart = [ip \in Ips |-> 0]
    /\ admitted = [ip \in Ips |-> 0]
    /\ refusing = {}
    /\ firstNo = [ip \in Ips |-> 0]
    /\ lastNo = [ip \in Ips |-> 0]

Capped(n) == IF n > MaxTokens THEN MaxTokens ELSE n

(* Mutant: the elapsed time is rounded up to whole tokens. *)
AddRoundedUp(ip) == (now - lastFill[ip] + FillTime - 1) \div FillTime

(* add: the whole tokens earned since lastFill; none for a new bucket. *)
Add(ip) == IF ip \in seen THEN (now - lastFill[ip]) \div FillTime ELSE 0

(* The bucket after creation and refill, before the token is taken. *)
Level(ip) ==
    IF ip \notin seen THEN MaxTokens
    ELSE IF Add(ip) > 0 THEN Capped(tokens[ip] + Add(ip)) ELSE tokens[ip]

(* Mutant: every attempt restarts the refill clock. *)
FillClockAlwaysReset(ip) == now

FillClock(ip) == IF ip \notin seen \/ Add(ip) > 0 THEN now ELSE lastFill[ip]

(* Allow returns true. *)
Admit(ip) ==
    /\ Level(ip) > 0
    /\ seen' = seen \cup {ip}
    /\ tokens' = [tokens EXCEPT ![ip] = Level(ip) - 1]
    /\ lastFill' = [lastFill EXCEPT ![ip] = FillClock(ip)]
    /\ admitted' = [admitted EXCEPT ![ip] = @ + 1]
    /\ refusing' = refusing \ {ip}
    /\ UNCHANGED <<now, winStart, firstNo, lastNo>>

(* Allow returns false. *)
Refuse(ip) ==
    /\ Level(ip) <= 0
    /\ seen' = seen \cup {ip}
    /\ tokens' = [tokens EXCEPT ![ip] = Level(ip)]
    /\ lastFill' = [lastFill EXCEPT ![ip] = FillClock(ip)]
    /\ refusing' = refusing \cup {ip}
    /\ firstNo' = [firstNo EXCEPT ![ip] = IF ip \in refusing THEN @ ELSE now]
    /\ lastNo' = [lastNo EXCEPT ![ip] = now]
    /\ UNCHANGED <<now, winStart, admitted>>

Tick ==
    /\ now < MaxTime
    /\ now' = now + 1
    /\ UNCHANGED <<seen, tokens, lastFill, history>>

(* History only: a new observation window may be opened at any moment, so  *)
(* an invariant about the window is one about every window.                *)
Observe(ip) ==
    /\ winStart' = [winStart EXCEPT ![ip] = now]
    /\ admitted' = [admitted EXCEPT ![ip] = 0]
    /\ UNCHANGED <<seen, tokens, lastFill, now, refusing, firstNo, lastNo>>

Next ==
    \/ \E ip \in Ips : Admit(ip) \/ Refuse(ip) \/ Observe(ip)
    \/ Tick

Spec == Init /\ [][Next]_vars

-----------------------------------------------------------------------------
(* Buckets hold between none and maxTokens tokens; clocks are ticks. *)
TypeOK ==
    /\ seen \subseteq Ips
    /\ tokens \in [Ips -> 0 .. MaxTokens]
    /\ lastFill \in [Ips -> 0 .. MaxTime]
    /\ now \in 0 .. MaxTime
    /\ winStart \in [Ips -> 0 .. MaxTime]
    /\ admitted \in [Ips -> Nat]
    /\ refusing \subseteq Ips
    /\ firstNo \in [Ips -> 0 .. MaxTime]
    /\ lastNo \in [Ips -> 0 .. MaxTime]

(* Over any window of w ticks, wherever it starts, an address is admitted  *)
(* at most maxTokens times plus once per started FillTime:                 *)
(* admitted <= MaxTokens + ceil(w / FillTime).  The rounding of refills    *)
(* and the time left over when lastFill moves never add up to more.        *)
WindowBound ==
    \A ip \in Ips :
        FillTime * (admitted[ip] - MaxTokens)
            <= now - winStart[ip] + FillTime - 1

(* Refusals do not go on: however often a client retries, a run of         *)
(* uninterrupted refusals is over in less than FillTime, so the advice     *)
(* given with the refusal, to try again in a minute, is sound.             *)
RefusalsEnd ==
    \A ip \in refusing : lastNo[ip] - firstNo[ip] < FillTime

(* The strengthening that makes the two bounds inductive: tokens in the    *)
(* bucket and attempts admitted are paid for by the refills up to          *)
(* lastFill, which lies less than FillTime before the window once an       *)
(* attempt was admitted in it; and no refill happens during a run of       *)
(* refusals, which finds the bucket empty.                                 *)
Account(ip) ==
    /\ lastFill[ip] <= now /\ winStart[ip] <= now
    /\ admitted[ip] > 0 =>
         /\ ip \in seen
         /\ lastFill[ip] > winStart[ip] - FillTime
         /\ FillTime * (admitted[ip] + tokens[ip] - MaxTokens)
                <= lastFill[ip] - winStart[ip] + FillTime - 1
    /\ ip \in refusing =>
         /\ ip \in seen
         /\ lastFill[ip] <= firstNo[ip]
         /\ firstNo[ip] <= lastNo[ip]
         /\ lastNo[ip] <= now
         /\ lastNo[ip] - lastFill[ip] < FillTime
         /\ tokens[ip] = 0

Accounting == \A ip \in Ips : Account(ip)
=============================================================================
