----------------------- MODULE LoginRateLimiterProofs -----------------------
(***************************************************************************)
(* Proofs about LoginRateLimiter, for every set of addresses, bucket size  *)
(* and refill rate.                                                        *)
(*                                                                         *)
(* TypeOK and Accounting together are inductive.  Accounting says that an  *)
(* admitted attempt or a token in the bucket is paid for by the full       *)
(* bucket or by time that lastFill has moved over; both bounds follow from *)
(* it.  Times FillTime is written out instead of dividing by it, so that   *)
(* all that is needed of division is FillTime * Add(ip) <= elapsed.        *)
(***************************************************************************)
EXTENDS LoginRateLimiter, TLAPS

IInv == TypeOK /\ Accounting

(* Whole tokens never cost more than the time that has gone by, and what   *)
(* is left over is less than one token's worth.                            *)
LEMMA Division ==
    ASSUME NEW a \in Int, NEW b \in Nat \ {0}
    PROVE  /\ a \div b \in Int
           /\ b * (a \div b) <= a
           /\ a < b * (a \div b) + b
           /\ a >= 0 => a \div b >= 0
  OBVIOUS

(* What a call of Allow finds in the bucket: a level within bounds, and a  *)
(* fill clock that is less than one FillTime old and has moved far enough  *)
(* to pay for the tokens added.                                            *)
LEMMA Filling ==
    ASSUME IInv, NEW ip \in Ips
    PROVE  /\ Level(ip) \in 0 .. MaxTokens
           /\ FillClock(ip) \in 0 .. MaxTime
           /\ FillClock(ip) <= now
           /\ now - FillClock(ip) < FillTime
           /\ ip \in seen =>
                /\ lastFill[ip] <= FillClock(ip)
                /\ FillTime * (Level(ip) - tokens[ip])
                       <= FillClock(ip) - lastFill[ip]
                /\ Level(ip) = 0 => FillClock(ip) = lastFill[ip]
<1> USE LimiterAssumption DEF IInv, TypeOK, Accounting, Account
<1>1. CASE ip \notin seen
  BY <1>1 DEF Level, FillClock
<1>2. CASE ip \in seen
  <2> DEFINE e == now - lastFill[ip]
             q == e \div FillTime
  <2>1. e \in Nat /\ tokens[ip] \in 0 .. MaxTokens
    OBVIOUS
  <2>2. /\ q \in Int
        /\ FillTime * q <= e
        /\ e < FillTime * q + FillTime
        /\ q >= 0
    <3>1. e \in Int /\ e >= 0 /\ FillTime \in Nat \ {0}
      BY <2>1
    <3> QED
      BY ONLY <3>1, Division
  <2>3. Add(ip) = q
    BY <1>2 DEF Add
  <2> HIDE DEF q
  <2>4. CASE q = 0
    <3>1. Level(ip) = tokens[ip] /\ FillClock(ip) = lastFill[ip]
      BY <1>2, <2>3, <2>4 DEF Level, FillClock
    <3>2. FillTime * (Level(ip) - tokens[ip]) = 0
      BY <2>1, <3>1
    <3>3. e < FillTime
      BY <2>2, <2>4
    <3> QED
      BY <1>2, <2>1, <3>1, <3>2, <3>3
  <2>5. CASE q > 0
    <3>1. FillClock(ip) = now /\ Level(ip) = Capped(tokens[ip] + q)
      BY <1>2, <2>3, <2>5 DEF Level, FillClock
    <3>2. Level(ip) \in 1 .. MaxTokens /\ Level(ip) - tokens[ip] <= q
      BY <2>1, <2>2, <2>5, <3>1 DEF Capped
    <3>3. FillTime * (Level(ip) - tokens[ip]) <= FillTime * q
      BY <2>1, <2>2, <3>2
    <3>4. FillTime * (Level(ip) - tokens[ip]) \in Int /\ FillTime * q \in Int
      BY <2>1, <2>2, <3>2
    <3> QED
      BY <1>2, <2>1, <2>2, <3>1, <3>2, <3>3, <3>4
  <2> QED
    BY <2>2, <2>4, <2>5
<1> QED
  BY <1>1, <1>2

LEMMA InitIInv == Init => IInv
  BY LimiterAssumption DEF Init, IInv, TypeOK, Accounting, Account

(* Admitting an attempt trades one token for one admitted attempt. *)
LEMMA AdmitStep ==
    ASSUME IInv, NEW ip \in Ips, Admit(ip)
    PROVE  IInv'
<1> USE LimiterAssumption DEF IInv, TypeOK, Accounting, Account
<1> DEFINE lv == Level(ip)
           fc == FillClock(ip)
<1>1. /\ lv \in 1 .. MaxTokens
      /\ fc \in 0 .. MaxTime /\ fc <= now /\ now - fc < FillTime
      /\ ip \in seen =>
           /\ lastFill[ip] <= fc
           /\ FillTime * (lv - tokens[ip]) <= fc - lastFill[ip]
  BY Filling DEF Admit
<1> HIDE DEF lv, fc
<1>2. /\ tokens' = [tokens EXCEPT ![ip] = lv - 1]
      /\ lastFill' = [lastFill EXCEPT ![ip] = fc]
      /\ admitted' = [admitted EXCEPT ![ip] = @ + 1]
      /\ seen' = seen \cup {ip} /\ refusing' = refusing \ {ip}
      /\ UNCHANGED <<now, winStart, firstNo, lastNo>>
  BY DEF Admit, lv, fc
<1>3. TypeOK'
  BY <1>1, <1>2
<1>4. ASSUME NEW i \in Ips, i # ip
      PROVE  Account(i)'
  BY <1>2, <1>4
<1>5. Account(ip)'
  <2>1. FillTime * (admitted[ip] + lv - MaxTokens)
            <= fc - winStart[ip] + FillTime - 1
    <3>1. CASE admitted[ip] = 0
      <4>1. FillTime * (lv - MaxTokens) <= 0
        BY <1>1
      <4> QED
        BY <1>1, <3>1, <4>1
    <3>2. CASE admitted[ip] > 0
      <4>1. FillTime * (admitted[ip] + lv - MaxTokens)
              = FillTime * (admitted[ip] + tokens[ip] - MaxTokens)
                  + FillTime * (lv - tokens[ip])
        BY <1>1
      <4> QED
        BY <1>1, <3>2, <4>1
    <3> QED
      BY <3>1, <3>2
  <2>2. admitted'[ip] + tokens'[ip] = admitted[ip] + lv
    BY <1>1, <1>2
  <2> QED
    BY <1>1, <1>2, <2>1, <2>2
<1> QED
  BY <1>3, <1>4, <1>5

(* Refusing changes neither the level nor the fill clock: the bucket was   *)
(* empty and no whole token had been earned.                               *)
LEMMA RefuseStep ==
    ASSUME IInv, NEW ip \in Ips, Refuse(ip)
    PROVE  IInv'
<1> USE LimiterAssumption DEF IInv, TypeOK, Accounting, Account
<1> DEFINE lv == Level(ip)
           fc == FillClock(ip)
<1>1. /\ lv = 0
      /\ fc \in 0 .. MaxTime /\ fc <= now /\ now - fc < FillTime
      /\ ip \in seen =>
           /\ fc = lastFill[ip]
           /\ FillTime * (lv - tokens[ip]) <= fc - lastFill[ip]
  BY Filling DEF Refuse
<1>2. ip \in seen
  BY <1>1 DEF Level
<1> HIDE DEF lv, fc
<1>3. /\ tokens' = [tokens EXCEPT ![ip] = 0]
      /\ lastFill' = [lastFill EXCEPT ![ip] = lastFill[ip]]
      /\ seen' = seen \cup {ip} /\ refusing' = refusing \cup {ip}
      /\ firstNo' = [firstNo EXCEPT ![ip] = IF ip \in refusing THEN @ ELSE now]
      /\ lastNo' = [lastNo EXCEPT ![ip] = now]
      /\ UNCHANGED <<now, winStart, admitted>>
  BY <1>1, <1>2 DEF Refuse, lv, fc
<1>4. TypeOK'
  BY <1>3
<1>5. ASSUME NEW i \in Ips, i # ip
      PROVE  Account(i)'
  BY <1>3, <1>5
<1>6. Account(ip)'
  <2>1. FillTime * (admitted[ip] + 0 - MaxTokens)
            <= FillTime * (admitted[ip] + tokens[ip] - MaxTokens)
    OBVIOUS
  <2>2. admitted[ip] > 0 =>
          FillTime * (admitted'[ip] + tokens'[ip] - MaxTokens)
              <= lastFill'[ip] - winStart'[ip] + FillTime - 1
    BY <1>3, <2>1
  <2>3. (admitted[ip] > 0 =>
          /\ ip \in seen
          /\ lastFill[ip] > winStart[ip] - FillTime
          /\ FillTime * (admitted[ip] + tokens[ip] - MaxTokens)
                <= lastFill[ip] - winStart[ip] + FillTime - 1)'
    BY <1>3, <2>2
  <2>4. (ip \in refusing =>
          /\ ip \in seen
          /\ lastFill[ip] <= firstNo[ip]
          /\ firstNo[ip] <= lastNo[ip]
          /\ lastNo[ip] <= now
          /\ lastNo[ip] - lastFill[ip] < FillTime
          /\ tokens[ip] = 0)'
    <3>1. CASE ip \in refusing
      BY <1>1, <1>2, <1>3, <3>1
    <3>2. CASE ip \notin refusing
      BY <1>1, <1>2, <1>3, <3>2
    <3> QED
      BY <3>1, <3>2
  <2>5. (lastFill[ip] <= now /\ winStart[ip] <= now)'
    BY <1>3
  <2> QED
    BY <2>3, <2>4, <2>5
<1> QED
  BY <1>4, <1>5, <1>6

(* The other steps: time goes by, a window is opened, or nothing happens.  *)
LEMMA OtherStep ==
    ASSUME IInv,
           Tick \/ (\E ip \in Ips : Observe(ip)) \/ UNCHANGED vars
    PROVE  IInv'
<1> USE LimiterAssumption DEF IInv, TypeOK, Accounting, Account, history
<1>1. CASE Tick
  BY <1>1 DEF Tick
<1>2. ASSUME NEW ip \in Ips, Observe(ip) PROVE IInv'
  BY <1>2 DEF Observe
<1>3. CASE UNCHANGED vars
  BY <1>3 DEF vars
<1> QED
  BY <1>1, <1>2, <1>3

(* The strengthening is inductive. *)
THEOREM Inductive == Spec => []IInv
<1>1. Init => IInv
  BY InitIInv
<1>2. IInv /\ [Next]_vars => IInv'
  BY AdmitStep, RefuseStep, OtherStep DEF Next
<1> QED
  BY <1>1, <1>2, PTL DEF Spec

(* Type correctness: a bucket never holds a negative number of tokens nor  *)
(* more than maxTokens (loginRateLimiter.Allow).                           *)
THEOREM TypeCorrect == Spec => []TypeOK
<1>1. IInv => TypeOK
  BY DEF IInv
<1> QED
  BY <1>1, Inductive, PTL

(* The accounting of Allow's tokens against the time they cost. *)
THEOREM Accounted == Spec => []Accounting
<1>1. IInv => Accounting
  BY DEF IInv
<1> QED
  BY <1>1, Inductive, PTL

(* No window of w ticks sees more than MaxTokens + ceil(w / FillTime)      *)
(* attempts admitted (loginRateLimiter.Allow).                             *)
THEOREM BurstBound == Spec => []WindowBound
<1>1. IInv => WindowBound
  <2> SUFFICES ASSUME IInv, NEW ip \in Ips
               PROVE  FillTime * (admitted[ip] - MaxTokens)
                        <= now - winStart[ip] + FillTime - 1
    BY DEF WindowBound
  <2> USE LimiterAssumption DEF IInv, TypeOK, Accounting, Account
  <2>1. FillTime * (admitted[ip] - MaxTokens)
          <= FillTime * (admitted[ip] + tokens[ip] - MaxTokens)
    OBVIOUS
  <2>2. FillTime * (0 - MaxTokens) <= 0
    OBVIOUS
  <2>3. CASE admitted[ip] = 0
    BY <2>2, <2>3
  <2>4. CASE admitted[ip] > 0
    BY <2>1, <2>4
  <2> QED
    BY <2>3, <2>4
<1> QED
  BY <1>1, Inductive, PTL

(* A run of refusals lasts less than FillTime, whatever the client does    *)
(* (loginRateLimiter.Allow and the advice of handleLoginSubmit).           *)
THEOREM RefusalsAreShort == Spec => []RefusalsEnd
<1>1. IInv => RefusalsEnd
  <2> SUFFICES ASSUME IInv, NEW ip \in refusing
               PROVE  lastNo[ip] - firstNo[ip] < FillTime
    BY DEF RefusalsEnd
  <2>1. ip \in Ips /\ Account(ip)
    BY DEF IInv, TypeOK, Accounting
  <2>2. lastFill[ip] \in Int /\ firstNo[ip] \in Int /\ lastNo[ip] \in Int
    BY <2>1 DEF IInv, TypeOK
  <2>3. lastFill[ip] <= firstNo[ip] /\ lastNo[ip] - lastFill[ip] < FillTime
    BY <2>1 DEF Account
  <2> QED
    BY <2>2, <2>3, LimiterAssumption
<1> QED
  BY <1>1, Inductive, PTL
=============================================================================
