----------------------------- MODULE QueryRunProofs -----------------------------
(***************************************************************************)
(* What QueryRun promises of the connections of a driver and of the query  *)
(* history, for any number of requests, connections and scripts, and what  *)
(* a script that is alone on the driver does to the database.              *)
(***************************************************************************)
EXTENDS QueryRun, SequenceTheorems, FiniteSetTheorems, TLAPS

Places == Statements \cup {"open", "close", "none"}
Paired(ops) ==
    /\ ops \in Seq(Places) /\ Len(ops) % 2 = 0
    /\ \A i \in 1 .. Len(ops) : i % 2 = 1 =>
           /\ ops[i] \in Statements \cup {"open"} /\ ops[i] # "query"
           /\ ops[i] = "open" => ops[i + 1] = "close"

LEMMA RowsPaired == Paired(Rows)
  BY DEF Paired, Rows, Places

LEMMA NothingPaired == Paired(<<>>)
  BY DEF Paired

LEMMA ConcatPaired ==
  ASSUME NEW s, NEW t, Paired(s), Paired(t)
  PROVE  Paired(s \o t)
<1>1. s \in Seq(Places) /\ t \in Seq(Places) /\ Len(s) \in Nat /\ Len(t) \in Nat
  BY DEF Paired
<1>2. /\ s \o t \in Seq(Places)
      /\ Len(s \o t) = Len(s) + Len(t)
      /\ \A i \in 1 .. Len(s) + Len(t) :
           (s \o t)[i] = IF i <= Len(s) THEN s[i] ELSE t[i - Len(s)]
  BY <1>1
<1>3. Len(s) % 2 = 0 /\ Len(t) % 2 = 0
  BY DEF Paired
<1>4. ASSUME NEW i \in 1 .. Len(s \o t), i % 2 = 1
      PROVE  /\ (s \o t)[i] \in Statements \cup {"open"} /\ (s \o t)[i] # "query"
             /\ (s \o t)[i] = "open" => (s \o t)[i + 1] = "close"
  <2>1. i + 1 \in 1 .. Len(s) + Len(t)
    <3>1. (Len(s) + Len(t)) % 2 = 0
      BY <1>3
    <3>2. i \in 1 .. Len(s) + Len(t) /\ i # Len(s) + Len(t)
      BY <1>4, <3>1
    <3> QED
      BY <3>2
  <2>2. CASE i <= Len(s)
    <3>1. i + 1 <= Len(s) /\ i \in 1 .. Len(s)
      BY <1>3, <1>4, <2>2
    <3>2. (s \o t)[i] = s[i] /\ (s \o t)[i + 1] = s[i + 1]
      BY <3>1
    <3> QED
      BY <1>4, <3>1 DEF Paired
  <2>3. CASE ~(i <= Len(s))
    <3> DEFINE j == i - Len(s)
    <3>1. j \in 1 .. Len(t) /\ j % 2 = 1
      <4>1. i \in 1 .. Len(s) + Len(t)
        OBVIOUS
      <4> QED
        BY <1>3, <1>4, <2>3
    <3>2. (s \o t)[i] = t[j] /\ (s \o t)[i + 1] = t[j + 1]
      <4>1. i \in 1 .. Len(s) + Len(t) /\ ~(i + 1 <= Len(s))
        BY <2>3
      <4>2. (s \o t)[i] = t[i - Len(s)] /\ (s \o t)[i + 1] = t[i + 1 - Len(s)]
        BY <2>1, <2>3
      <4>3. i + 1 - Len(s) = j + 1
        OBVIOUS
      <4> QED
        BY <4>2
    <3>3. /\ t[j] \in Statements \cup {"open"} /\ t[j] # "query"
          /\ t[j] = "open" => t[j + 1] = "close"
      BY <3>1 DEF Paired
    <3> QED
      BY <3>2, <3>3
  <2> QED
    BY <2>2, <2>3
<1>5. Len(s \o t) % 2 = 0
  BY <1>3
<1> QED
  BY <1>2, <1>4, <1>5 DEF Paired

LEMMA PagesPaired ==
  ASSUME NEW k \in Kinds
  PROVE  Paired(HandleTree(k)) /\ Paired(HandleObjectData(k))
<1>1. Paired(ListSchemas(k)) /\ Paired(ListObjects(k)) /\ Paired(SampleRows)
  BY RowsPaired, NothingPaired, ConcatPaired
  DEF ListSchemas, ListObjects, SampleRows
<1>2. Paired(SqliteDescribe)
  BY RowsPaired, ConcatPaired DEF SqliteDescribe
<1>3. Paired(PgDescribe) /\ Paired(MySQLDescribe)
  BY RowsPaired, ConcatPaired DEF PgDescribe, MySQLDescribe
<1>4. Paired(DescribeTable(k))
  BY <1>2, <1>3, KindsAssumption DEF DescribeTable
<1> QED
  BY <1>1, <1>4, ConcatPaired DEF HandleTree, HandleObjectData

LEMMA ScriptPaired ==
  ASSUME NEW j \in Scripts
  PROVE  Paired(RunStatements(j)) /\ Len(RunStatements(j)) = 2 * Len(j)
<1> DEFINE ops == RunStatements(j)
           Half(i) == (i + 1) \div 2
<1>1. j \in Seq(Statements) /\ Len(j) \in Nat
  BY ScriptsAssumption
<1>2. ASSUME NEW i \in 1 .. 2 * Len(j)
      PROVE  j[Half(i)] \in Statements
  <2>1. Half(i) \in 1 .. Len(j)
    OBVIOUS
  <2> QED
    BY <1>1
<1>3. ASSUME NEW i \in 1 .. 2 * Len(j)
      PROVE  /\ i % 2 = 1 => ops[i] = IF j[Half(i)] = "query" THEN "open" ELSE j[Half(i)]
             /\ i % 2 # 1 => ops[i] = IF j[Half(i)] = "query" THEN "close" ELSE "none"
  BY DEF RunStatements, ExecOne, Rows
<1>4. ops \in [1 .. 2 * Len(j) -> Places]
  <2>1. \A i \in 1 .. 2 * Len(j) : ops[i] \in Places
    BY <1>2, <1>3 DEF Places
  <2> QED
    BY <2>1 DEF RunStatements
<1>5. ops \in Seq(Places) /\ Len(ops) = 2 * Len(j)
  BY <1>4
<1>6. ASSUME NEW i \in 1 .. Len(ops), i % 2 = 1
      PROVE  /\ ops[i] \in Statements \cup {"open"} /\ ops[i] # "query"
             /\ ops[i] = "open" => ops[i + 1] = "close"
  <2>1. i \in 1 .. 2 * Len(j) /\ i + 1 \in 1 .. 2 * Len(j) /\ (i + 1) % 2 # 1
    BY <1>5, <1>6
  <2>2. Half(i + 1) = Half(i)
    BY <1>6
  <2>3. "open" \notin Statements
    BY DEF Statements
  <2> QED
    BY <1>2, <1>3, <1>6, <2>1, <2>3
<1> HIDE DEF ops
<1>7. Paired(ops)
  BY <1>5, <1>6 DEF Paired
<1> QED
  BY <1>5, <1>7 DEF ops

LEMMA ProgramPaired ==
  ASSUME NEW k \in Kinds, NEW j \in Jobs
  PROVE  /\ Paired(Programs[k][j])
         /\ j \in Scripts => Len(Programs[k][j]) = 2 * Len(j)
<1>1. Programs[k][j] = IF j \in Scripts THEN RunStatements(j)
                       ELSE IF j = <<"tree">> THEN HandleTree(k) ELSE HandleObjectData(k)
  BY DEF Programs
<1> QED
  BY <1>1, ScriptPaired, PagesPaired

-----------------------------------------------------------------------------
(* The list of idle connections: taking the last or the first, returning   *)
(* one.                                                                    *)
LEMMA TakeLast ==
  ASSUME NEW S, NEW q \in Seq(S), q # <<>>, IsInjective(q)
  PROVE  /\ Front(q) \in Seq(S) /\ IsInjective(Front(q)) /\ Last(q) \in S
         /\ Len(Front(q)) + 1 = Len(q)
         /\ Last(q) \in Range(q) /\ Last(q) \notin Range(Front(q))
         /\ \A x : x \in Range(q) <=> x \in Range(Front(q)) \/ x = Last(q)
<1> DEFINE n == Len(q)
<1>1. n \in Nat \ {0} /\ DOMAIN q = 1 .. n /\ \A i \in 1 .. n : q[i] \in S
  OBVIOUS
<1>2. /\ Front(q) \in Seq(S) /\ Len(Front(q)) = n - 1
      /\ \A i \in 1 .. n - 1 : Front(q)[i] = q[i]
  <2>1. 1 \in Int /\ n - 1 \in Int /\ \A i \in 1 .. n - 1 : q[i] \in S
    OBVIOUS
  <2>2. /\ SubSeq(q, 1, n - 1) \in Seq(S)
        /\ Len(SubSeq(q, 1, n - 1)) = IF 1 <= n - 1 THEN n - 1 - 1 + 1 ELSE 0
        /\ \A i \in 1 .. n - 1 - 1 + 1 : SubSeq(q, 1, n - 1)[i] = q[1 + i - 1]
    OBVIOUS
  <2> QED
    BY <1>1 DEF Front
<1>3. DOMAIN Front(q) = 1 .. n - 1
  BY <1>2
<1>4. n \in 1 .. n /\ \A i \in 1 .. n : i \in 1 .. n - 1 \/ i = n
  <2>1. n \in Nat \ {0}
    OBVIOUS
  <2> HIDE DEF n
  <2> QED
    BY <2>1
<1>5. Last(q) = q[n]
  BY DEF Last
<1>6. \A i, j \in 1 .. n : q[i] = q[j] => i = j
  BY DEF IsInjective
<1>7. IsInjective(Front(q))
  BY <1>2 DEF IsInjective
<1>8. Range(q) = {q[i] : i \in 1 .. n} /\ Range(Front(q)) = {q[i] : i \in 1 .. n - 1}
  BY <1>2 DEF Range
<1>9. 1 .. n - 1 \subseteq 1 .. n /\ n \notin 1 .. n - 1
  OBVIOUS
<1>10. Len(Front(q)) + 1 = Len(q)
  BY <1>2
<1> HIDE DEF n
<1>11. \A x : x \in Range(q) <=> x \in Range(Front(q)) \/ x = Last(q)
  BY <1>4, <1>8, <1>5
<1>12. Last(q) \notin Range(Front(q))
  BY <1>4, <1>6, <1>8, <1>5
<1> QED
  BY <1>1, <1>2, <1>7, <1>11, <1>12, <1>10, <1>5

LEMMA TakeFirst ==
  ASSUME NEW S, NEW q \in Seq(S), q # <<>>, IsInjective(q)
  PROVE  /\ Tail(q) \in Seq(S) /\ IsInjective(Tail(q)) /\ Head(q) \in S
         /\ Len(Tail(q)) + 1 = Len(q)
         /\ Head(q) \in Range(q) /\ Head(q) \notin Range(Tail(q))
         /\ \A x : x \in Range(q) <=> x \in Range(Tail(q)) \/ x = Head(q)
<1> DEFINE n == Len(q)
           t == Tail(q)
<1>1. n \in Nat \ {0} /\ DOMAIN q = 1 .. n /\ \A i \in 1 .. n : q[i] \in S
  OBVIOUS
<1>2. /\ t \in Seq(S) /\ Len(t) = n - 1 /\ Head(q) = q[1]
      /\ \A i \in 1 .. n - 1 : t[i] = q[i + 1]
  OBVIOUS
<1> HIDE DEF n, t
<1>3. DOMAIN t = 1 .. n - 1
  BY <1>2
<1>4. /\ 1 \in 1 .. n /\ \A i \in 1 .. n : i = 1 \/ (i - 1 \in 1 .. n - 1 /\ i - 1 + 1 = i)
      /\ \A i \in 1 .. n - 1 : i + 1 \in 1 .. n /\ i + 1 # 1
      /\ \A i, j \in 1 .. n - 1 : i + 1 = j + 1 => i = j
  BY <1>1
<1>5. \A i, j \in 1 .. n : q[i] = q[j] => i = j
  BY <1>1 DEF IsInjective
<1>6. IsInjective(t)
  BY <1>2, <1>3, <1>4, <1>5 DEF IsInjective
<1>7. Range(q) = {q[i] : i \in 1 .. n} /\ Range(t) = {t[i] : i \in 1 .. n - 1}
  BY <1>1, <1>3 DEF Range
<1>8. ASSUME NEW x
      PROVE  x \in Range(q) <=> x \in Range(t) \/ x = Head(q)
  <2>1. ASSUME x \in Range(q)
        PROVE  x \in Range(t) \/ x = Head(q)
    <3>1. PICK i \in 1 .. n : x = q[i]
      BY <1>7, <2>1
    <3>2. CASE i = 1
      BY <1>2, <3>1, <3>2
    <3>3. CASE i # 1
      <4>1. PICK j \in 1 .. n - 1 : j + 1 = i
        BY <1>4, <3>3
      <4>2. t[j] = x
        BY <1>2, <3>1, <4>1
      <4> QED
        BY <1>7, <4>2
    <3> QED
      BY <3>2, <3>3
  <2>2. ASSUME x \in Range(t) \/ x = Head(q)
        PROVE  x \in Range(q)
    BY <1>2, <1>4, <1>7, <2>2
  <2> QED
    BY <2>1, <2>2
<1>9. Head(q) \notin Range(t)
  BY <1>2, <1>4, <1>5, <1>7
<1> QED
  BY <1>1, <1>2, <1>4, <1>6, <1>8, <1>9 DEF n, t

LEMMA PutBack ==
  ASSUME NEW S, NEW q \in Seq(S), IsInjective(q), NEW e \in S, e \notin Range(q)
  PROVE  /\ Append(q, e) \in Seq(S) /\ IsInjective(Append(q, e))
         /\ Len(Append(q, e)) = Len(q) + 1
         /\ \A x : x \in Range(Append(q, e)) <=> x \in Range(q) \/ x = e
<1> DEFINE n == Len(q)
           a == Append(q, e)
<1>1. n \in Nat /\ DOMAIN q = 1 .. n
  OBVIOUS
<1>2. /\ a \in Seq(S) /\ Len(a) = n + 1
      /\ \A i \in 1 .. n : a[i] = q[i]
      /\ a[n + 1] = e
  OBVIOUS
<1> HIDE DEF a
<1>3. DOMAIN a = 1 .. n + 1
  BY <1>2
<1>4. \A i \in 1 .. n + 1 : i \in 1 .. n \/ i = n + 1
  OBVIOUS
<1>5. \A i \in 1 .. n : q[i] # e
  BY DEF Range
<1>6. IsInjective(a)
  BY <1>2, <1>5 DEF IsInjective
<1>7. 1 .. n \subseteq 1 .. n + 1 /\ n + 1 \in 1 .. n + 1
  OBVIOUS
<1>8. Range(q) = {q[i] : i \in 1 .. n} /\ Range(a) = {a[i] : i \in 1 .. n + 1}
  BY <1>3 DEF Range
<1> HIDE DEF n
<1>9. \A x : x \in Range(a) <=> x \in Range(q) \/ x = e
  BY <1>2, <1>4, <1>7, <1>8
<1> QED
  BY <1>2, <1>6, <1>9 DEF a, n

(* A sequence of one slot is the slot it holds. *)
LEMMA OneSlot ==
  ASSUME NEW s \in Slots
  PROVE  /\ Last(<<s>>) = s /\ Front(<<s>>) = <<>> /\ <<s>> # <<>>
         /\ Append(<<>>, s) = <<s>>
         /\ \A x \in Slots : <<x>> = <<s>> => x = s
<1>1. Front(<<s>>) = SubSeq(<<s>>, 1, 0)
  BY DEF Front
<1>2. SubSeq(<<s>>, 1, 0) = <<>>
  OBVIOUS
<1>3. Last(<<s>>) = s
  BY DEF Last
<1>4. <<s>> # <<>> /\ \A x \in Slots : <<x>> = <<s>> => x = s
  OBVIOUS
<1>5. Append(<<>>, s) = <<s>>
  OBVIOUS
<1> QED
  BY <1>1, <1>3

-----------------------------------------------------------------------------
(* DB.conn takes the idle connection returned last or opens one that is    *)
(* not open: there is one as long as the limit is not reached.             *)
LEMMA AcquireConns ==
  ASSUME IInv, NEW r \in Requests, NEW s \in Slots, held[r] = <<>>,
         driver = "open", UNCHANGED driver, Acquire(r, s)
  PROVE  ConnsOK' /\ held' = [held EXCEPT ![r] = <<s>>]
<1>1. ConnsOK
  BY DEF IInv
<1>2. held' = [held EXCEPT ![r] = <<s>>]
  BY DEF Acquire
<1>3. \A q \in Requests : held'[q] = IF q = r THEN <<s>> ELSE held[q]
  BY <1>1, <1>2 DEF ConnsOK
<1>4. CASE idle # <<>>
  <2>1. s = Last(idle) /\ idle' = Front(idle) /\ opened' = opened
    BY <1>4 DEF Acquire
  <2>2. /\ idle' \in Seq(Slots) /\ IsInjective(idle') /\ Len(idle') + 1 = Len(idle)
        /\ s \in Range(idle) /\ s \notin Range(idle')
        /\ \A x : x \in Range(idle) <=> x \in Range(idle') \/ x = s
    BY <1>1, <1>4, <2>1, TakeLast DEF ConnsOK
  <2>3. ASSUME NEW x \in Slots
        PROVE  x \in opened' <=>
                 x \in Range(idle') \/ \E q \in Requests : held'[q] = <<x>>
    BY <1>1, <1>3, <2>1, <2>2, OneSlot DEF ConnsOK
  <2>4. ASSUME NEW q \in Requests, NEW x \in Slots, held'[q] = <<x>>
        PROVE  /\ x \notin Range(idle')
               /\ \A p \in Requests \ {q} : held'[p] # <<x>>
    BY <1>1, <1>3, <2>2, <2>4 DEF ConnsOK
  <2> QED
    <3>1. /\ held' \in [Requests -> {<<>>} \cup {<<x>> : x \in Slots}]
          /\ opened' \subseteq Slots /\ driver' = "open" /\ Len(idle') <= MaxIdle
      BY <1>1, <1>2, <2>1, <2>2, SlotsAssumption DEF ConnsOK
    <3> QED
      BY <1>2, <2>2, <2>3, <2>4, <3>1 DEF ConnsOK
<1>5. CASE idle = <<>>
  <2>1. /\ Cardinality(opened) < MaxOpen
        /\ s = CHOOSE new \in Slots : new \notin opened
        /\ opened' = opened \cup {s} /\ idle' = idle
    BY <1>5 DEF Acquire
  <2>2. opened # Slots
    BY <2>1, SlotsAssumption, FS_CardinalityType, FS_EmptySet DEF MaxOpen
  <2>3. s \notin opened
    BY <1>1, <2>1, <2>2 DEF ConnsOK
  <2>4. s \notin Range(idle) /\ \A q \in Requests : held[q] # <<s>>
    BY <1>1, <2>3 DEF ConnsOK
  <2>5. /\ held' \in [Requests -> {<<>>} \cup {<<x>> : x \in Slots}]
        /\ opened' \subseteq Slots
    BY <1>1, <1>2, <2>1 DEF ConnsOK
  <2>6. ASSUME NEW x \in Slots
        PROVE  x \in opened' <=>
                 x \in Range(idle') \/ \E q \in Requests : held'[q] = <<x>>
    BY <1>1, <1>3, <2>1, OneSlot DEF ConnsOK
  <2>7. ASSUME NEW q \in Requests, NEW x \in Slots, held'[q] = <<x>>
        PROVE  /\ x \notin Range(idle')
               /\ \A p \in Requests \ {q} : held'[p] # <<x>>
    <3>1. CASE q = r
      <4>1. x = s
        BY <1>3, <2>7, <3>1
      <4> QED
        BY <1>3, <2>1, <2>4, <3>1, <4>1
    <3>2. CASE q # r
      <4>1. held[q] = <<x>>
        BY <1>3, <2>7, <3>2
      <4>2. x # s
        BY <2>4, <4>1
      <4>3. x \notin Range(idle')
        BY <1>1, <2>1, <4>1 DEF ConnsOK
      <4>4. ASSUME NEW p \in Requests \ {q}
            PROVE  held'[p] # <<x>>
        <5>1. held[p] # <<x>>
          BY <1>1, <4>1 DEF ConnsOK
        <5> QED
          BY <1>3, <4>2, <5>1
      <4> QED
        BY <4>3, <4>4
    <3> QED
      BY <3>1, <3>2
  <2>8. idle' \in Seq(Slots) /\ IsInjective(idle') /\ driver' = driver
        /\ Len(idle') <= MaxIdle
    BY <1>1, <2>1 DEF ConnsOK
  <2> QED
    BY <1>2, <2>6, <2>7, <2>5, <2>8 DEF ConnsOK
<1> QED
  BY <1>4, <1>5

(* One idle connection less. *)
LEMMA DropConns ==
  ASSUME ConnsOK, NEW s \in Slots, s \in Range(idle), s \notin Range(idle'),
         idle' \in Seq(Slots), IsInjective(idle'), Len(idle') + 1 = Len(idle),
         \A x : x \in Range(idle) <=> x \in Range(idle') \/ x = s,
         opened' = opened \ {s}, UNCHANGED <<driver, held>>
  PROVE  ConnsOK'
<1>1. ASSUME NEW x \in Slots
      PROVE  x \in opened' <=>
               x \in Range(idle') \/ \E q \in Requests : held'[q] = <<x>>
  BY DEF ConnsOK
<1>2. ASSUME NEW q \in Requests, NEW x \in Slots, held'[q] = <<x>>
      PROVE  /\ x \notin Range(idle')
             /\ \A p \in Requests \ {q} : held'[p] # <<x>>
  BY <1>2 DEF ConnsOK
<1>3. driver = "open" /\ Len(idle') <= MaxIdle
  <2>1. Range(<<>>) = {}
    BY DEF Range
  <2>2. driver = "open"
    BY <2>1 DEF ConnsOK
  <2> QED
    BY <2>2, SlotsAssumption DEF ConnsOK
<1> QED
  BY <1>1, <1>2, <1>3 DEF ConnsOK

(* The connection taken last is idle again, or it is closed. *)
Releases(r) ==
    /\ held' = [held EXCEPT ![r] = Front(@)]
    /\ \/ /\ driver = "open" /\ Len(idle) < MaxIdle
          /\ idle' = Append(idle, Last(held[r])) /\ opened' = opened
       \/ idle' = idle /\ opened' = opened \ {Last(held[r])}

LEMMA ReleaseConns ==
  ASSUME IInv, NEW r \in Requests, held[r] # <<>>, UNCHANGED driver, Releases(r)
  PROVE  ConnsOK' /\ held' = [held EXCEPT ![r] = <<>>]
<1>1. ConnsOK
  BY DEF IInv
<1>2. PICK s \in Slots : held[r] = <<s>>
  BY <1>1 DEF ConnsOK
<1>3. Last(held[r]) = s /\ held' = [held EXCEPT ![r] = <<>>]
  BY <1>2, OneSlot DEF Releases
<1>4. \A q \in Requests : held'[q] = IF q = r THEN <<>> ELSE held[q]
  BY <1>1, <1>3 DEF ConnsOK
<1>5. s \notin Range(idle) /\ \A q \in Requests \ {r} : held[q] # <<s>>
  BY <1>1, <1>2 DEF ConnsOK
<1>6. CASE /\ driver = "open" /\ Len(idle) < MaxIdle
           /\ idle' = Append(idle, s) /\ opened' = opened
  <2>1. /\ idle' \in Seq(Slots) /\ IsInjective(idle') /\ Len(idle') = Len(idle) + 1
        /\ \A x : x \in Range(idle') <=> x \in Range(idle) \/ x = s
    BY <1>1, <1>5, <1>6, PutBack DEF ConnsOK
  <2>2. ASSUME NEW x \in Slots
        PROVE  x \in opened' <=>
                 x \in Range(idle') \/ \E q \in Requests : held'[q] = <<x>>
    BY <1>1, <1>2, <1>4, <1>6, <2>1, OneSlot DEF ConnsOK
  <2>3. ASSUME NEW q \in Requests, NEW x \in Slots, held'[q] = <<x>>
        PROVE  /\ x \notin Range(idle')
               /\ \A p \in Requests \ {q} : held'[p] # <<x>>
    BY <1>1, <1>4, <1>5, <2>1, <2>3 DEF ConnsOK
  <2>4. Len(idle') <= MaxIdle
    BY <1>1, <1>6, <2>1, SlotsAssumption DEF ConnsOK
  <2> QED
    BY <1>1, <1>3, <1>6, <2>1, <2>2, <2>3, <2>4 DEF ConnsOK
<1>7. CASE idle' = idle /\ opened' = opened \ {s}
  <2>1. ASSUME NEW x \in Slots
        PROVE  x \in opened' <=>
                 x \in Range(idle') \/ \E q \in Requests : held'[q] = <<x>>
    <3>1. x \in opened <=>
            x \in Range(idle) \/ \E q \in Requests : held[q] = <<x>>
      BY <1>1 DEF ConnsOK
    <3>2. x # s =>
            ((\E q \in Requests : held'[q] = <<x>>)
               <=> \E q \in Requests : held[q] = <<x>>)
      BY <1>2, <1>4
    <3>3. \A q \in Requests : held'[q] # <<s>>
      BY <1>4, <1>5
    <3> QED
      BY <1>5, <1>7, <3>1, <3>2, <3>3
  <2>2. ASSUME NEW q \in Requests, NEW x \in Slots, held'[q] = <<x>>
        PROVE  /\ x \notin Range(idle')
               /\ \A p \in Requests \ {q} : held'[p] # <<x>>
    BY <1>1, <1>4, <1>7, <2>2 DEF ConnsOK
  <2> QED
    BY <1>1, <1>3, <1>7, <2>1, <2>2 DEF ConnsOK
<1> QED
  BY <1>3, <1>6, <1>7 DEF Releases

(* Both ends of a statement release its connection. *)
LEMMA EndsRelease ==
  ASSUME NEW r \in Requests
  PROVE  /\ \A t : GiveBack(r, t) => Releases(r)
         /\ Interrupt(r) => Releases(r)
  BY DEF GiveBack, Interrupt, Releases

-----------------------------------------------------------------------------
(* A request of which nothing changes stays as it should be, whatever the  *)
(* others do, leave or delete.                                             *)
Keeps(q) ==
    /\ pc'[q] = pc[q] /\ job'[q] = job[q] /\ at'[q] = at[q] /\ held'[q] = held[q]
    /\ out'[q] = out[q] /\ history'[q] = history[q] /\ recorded'[q] = recorded[q]
    /\ kind' = kind /\ gone \subseteq gone' /\ (saved' => saved)

LEMMA ConnsKept ==
  ASSUME ConnsOK, UNCHANGED <<driver, opened, idle, held>>
  PROVE  ConnsOK'
  BY DEF ConnsOK

LEMMA RequestKept ==
  ASSUME NEW q \in Requests, RequestOK(q), Keeps(q)
  PROVE  RequestOK(q)'
<1>1. Ops(q)' = Ops(q)
  BY DEF Ops, Keeps
<1>2. WhereOK(q)'
  BY <1>1 DEF RequestOK, WhereOK, Keeps, Op
<1>3. ResultsOK(q)'
  BY DEF RequestOK, ResultsOK, Keeps, IsScript
<1>4. HistoryOK(q)'
  BY DEF RequestOK, HistoryOK, Keeps
<1> QED
  BY <1>2, <1>3, <1>4 DEF RequestOK

(* The program of a request that has started. *)
LEMMA JobOps ==
  ASSUME TypeOK, NEW r \in Requests, job[r] \in Jobs
  PROVE  /\ Paired(Ops(r)) /\ Len(Ops(r)) \in Nat /\ Len(Ops(r)) % 2 = 0
         /\ IsScript(r) => Len(Ops(r)) = 2 * Len(job[r]) /\ Len(job[r]) \in Nat \ {0}
<1>1. kind \in Kinds
  BY DEF TypeOK
<1>2. /\ Paired(Ops(r))
      /\ IsScript(r) => Len(Ops(r)) = 2 * Len(job[r])
  BY <1>1, ProgramPaired DEF Ops, IsScript
<1>3. Len(Ops(r)) \in Nat /\ Len(Ops(r)) % 2 = 0
  BY <1>2 DEF Paired
<1>4. IsScript(r) => Len(job[r]) \in Nat \ {0}
  BY ScriptsAssumption DEF IsScript
<1> QED
  BY <1>2, <1>3, <1>4

(* What is known of a request that has not come to the end of its program. *)
Serving(r) ==
    /\ Len(Ops(r)) \in Nat /\ Len(Ops(r)) % 2 = 0 /\ at[r] \in 1 .. Len(Ops(r))
    /\ job[r] \in Jobs /\ recorded[r] = 0 /\ history[r] = <<>>
    /\ IsScript(r) =>
         /\ Len(job[r]) \in Nat \ {0}
         /\ at[r] = IF at[r] % 2 = 1 THEN 2 * Len(out[r]) + 1 ELSE 2 * Len(out[r])
    /\ ~IsScript(r) => out[r] = <<>>
    /\ at[r] % 2 = 1 =>
         /\ Op(r) \in Statements \cup {"open"} /\ Op(r) # "query" /\ Op(r) # "close"
         /\ Op(r) = "open" => Ops(r)[at[r] + 1] = "close"
         /\ pc[r] = "run" => held[r] = <<>>
         /\ pc[r] = "exec" => held[r] # <<>> /\ Op(r) # "open"
    /\ at[r] % 2 # 1 => pc[r] = "run" /\ Op(r) = "close" /\ held[r] # <<>>

LEMMA IsServing ==
  ASSUME IInv, NEW r \in Requests,
         pc[r] = "exec" \/ (pc[r] = "run" /\ More(r))
  PROVE  Serving(r) /\ More(r)
<1>1. /\ TypeOK /\ WhereOK(r) /\ ResultsOK(r) /\ HistoryOK(r)
  BY DEF IInv, RequestOK
<1>2. job[r] \in Jobs
  BY <1>1 DEF WhereOK
<1>3. /\ Paired(Ops(r)) /\ Len(Ops(r)) \in Nat /\ Len(Ops(r)) % 2 = 0
      /\ IsScript(r) => Len(Ops(r)) = 2 * Len(job[r]) /\ Len(job[r]) \in Nat \ {0}
  BY <1>1, <1>2, JobOps
<1>4. at[r] \in 1 .. Len(Ops(r)) /\ More(r)
  <2>1. at[r] \in Nat
    BY <1>1 DEF TypeOK
  <2> QED
    BY <1>1 DEF WhereOK, More
<1>5. /\ IsScript(r) => at[r] = IF at[r] % 2 = 1 THEN 2 * Len(out[r]) + 1 ELSE 2 * Len(out[r])
      /\ ~IsScript(r) => out[r] = <<>>
  BY <1>1 DEF ResultsOK
<1>6. recorded[r] = 0
  BY <1>1, <1>3 DEF ResultsOK, More
<1>7. history[r] = <<>>
  <2>1. history[r] \in Seq(Nat \X Results)
    BY <1>1 DEF TypeOK
  <2>2. Len(history[r]) \in Nat /\ Len(history[r]) <= 0
    BY <1>1, <1>6 DEF HistoryOK
  <2>3. Len(history[r]) = 0
    BY <2>2
  <2> QED
    BY <2>3
<1>8. at[r] % 2 = 1 =>
        /\ Op(r) \in Statements \cup {"open"} /\ Op(r) # "query"
        /\ Op(r) = "open" => Ops(r)[at[r] + 1] = "close"
  BY <1>3, <1>4 DEF Paired, Op
<1>9. "close" \notin Statements \cup {"open"}
  BY DEF Statements
<1>10. at[r] % 2 = 1 =>
        /\ pc[r] = "run" => held[r] = <<>>
        /\ pc[r] = "exec" => held[r] # <<>> /\ Op(r) # "open"
  BY <1>1 DEF WhereOK
<1>11. at[r] % 2 # 1 => pc[r] = "run" /\ Op(r) = "close" /\ held[r] # <<>>
  BY <1>1 DEF WhereOK
<1> QED
  BY <1>2, <1>3, <1>4, <1>5, <1>6, <1>7, <1>8, <1>9, <1>10, <1>11 DEF Serving

(* Every step of a running request keeps the invariant if the connections  *)
(* and its place do, and its results are one per statement.                *)
Moves(r, p, a, o) ==
    /\ pc' = [pc EXCEPT ![r] = p] /\ at' = [at EXCEPT ![r] = a]
    /\ out' = [out EXCEPT ![r] = o]
    /\ UNCHANGED <<kind, saved, gone, job, history, recorded>>

LEMMA Served ==
  ASSUME IInv, NEW r \in Requests, Serving(r),
         NEW p \in {"run", "exec"}, NEW a \in Nat, NEW o \in Seq(Results),
         Moves(r, p, a, o), ~IsScript(r) => o = <<>>,
         IsScript(r) => a = IF a % 2 = 1 THEN 2 * Len(o) + 1 ELSE 2 * Len(o),
         NEW h, held' = [held EXCEPT ![r] = h], ConnsOK', WhereOK(r)'
  PROVE  IInv'
<1>1. TypeOK /\ ConnsOK
  BY DEF IInv
<1>2. TypeOK'
  BY <1>1 DEF TypeOK, Moves
<1>3. pc'[r] = p /\ at'[r] = a /\ out'[r] = o
  BY <1>1 DEF TypeOK, Moves
<1>4. job'[r] = job[r] /\ history'[r] = <<>> /\ recorded'[r] = 0
  BY DEF Moves, Serving
<1>5. ResultsOK(r)'
  BY <1>3, <1>4 DEF ResultsOK, IsScript, Serving
<1>6. HistoryOK(r)'
  <2>1. Len(history'[r]) = 0
    BY <1>4
  <2> QED
    BY <1>4 DEF HistoryOK
<1>7. ASSUME NEW q \in Requests, q # r
      PROVE  RequestOK(q)'
  <2>1. Keeps(q)
    BY <1>7 DEF Keeps, Moves
  <2> QED
    BY <2>1, RequestKept DEF IInv
<1> QED
  BY <1>2, <1>5, <1>6, <1>7 DEF IInv, RequestOK

LEMMA Reported ==
  ASSUME TypeOK, NEW r \in Requests, NEW res \in Results, Report(r, res)
  PROVE  \E o \in Seq(Results) :
           /\ out' = [out EXCEPT ![r] = o]
           /\ ~IsScript(r) => o = out[r]
           /\ IsScript(r) => Len(o) = Len(out[r]) + 1
<1> DEFINE o == IF IsScript(r) THEN Append(out[r], res) ELSE out[r]
<1>1. out[r] \in Seq(Results) /\ out \in [Requests -> Seq(Results)]
  BY DEF TypeOK
<1>2. /\ Append(out[r], res) \in Seq(Results)
      /\ Len(Append(out[r], res)) = Len(out[r]) + 1
  BY <1>1
<1>3. out' = [out EXCEPT ![r] = o]
  BY <1>1 DEF Report
<1> QED
  BY <1>1, <1>2, <1>3

(* Between two calls a request holds nothing. *)
LEMMA Between ==
  ASSUME IInv, NEW r \in Requests, Serving(r), NEW a, NEW o, Moves(r, "run", a, o),
         a \in 1 .. Len(Ops(r)) + 1, a % 2 = 1, held'[r] = <<>>
  PROVE  WhereOK(r)'
<1>1. pc'[r] = "run" /\ at'[r] = a /\ job'[r] = job[r]
  BY DEF IInv, TypeOK, Moves
<1>2. Ops(r)' = Ops(r)
  BY DEF Ops, Moves
<1> QED
  BY <1>1, <1>2 DEF WhereOK, Serving

(* The next call, or the end, is two places on, after one more result. *)
LEMMA TwoOn ==
  ASSUME IInv, NEW r \in Requests, Serving(r), at[r] % 2 = 1
  PROVE  /\ at[r] + 2 \in 1 .. Len(Ops(r)) + 1 /\ (at[r] + 2) % 2 = 1
         /\ at[r] + 2 \in Nat
         /\ IsScript(r) => at[r] + 2 = 2 * (Len(out[r]) + 1) + 1
<1>1. at[r] \in 1 .. Len(Ops(r)) /\ Len(Ops(r)) \in Nat /\ Len(Ops(r)) % 2 = 0
  BY DEF Serving
<1>2. /\ at[r] + 2 \in 1 .. Len(Ops(r)) + 1 /\ (at[r] + 2) % 2 = 1
      /\ at[r] + 2 \in Nat
  BY <1>1
<1>3. IsScript(r) => at[r] = 2 * Len(out[r]) + 1 /\ Len(out[r]) \in Nat
  BY DEF Serving
<1>4. ASSUME NEW n \in Nat
      PROVE  2 * n + 1 + 2 = 2 * (n + 1) + 1
  OBVIOUS
<1> QED
  BY <1>2, <1>3

-----------------------------------------------------------------------------
(* The invariant holds at the start and every step keeps it. *)
LEMMA InitIInv == Init => IInv
<1> SUFFICES ASSUME Init PROVE IInv
  OBVIOUS
<1>1. TypeOK
  BY DEF Init, TypeOK
<1>2. ConnsOK
  <2>1. Range(idle) = {} /\ IsInjective(idle)
    BY DEF Init, Range, IsInjective
  <2>2. \A r \in Requests, s \in Slots : held[r] # <<s>>
    BY DEF Init
  <2> QED
    BY <2>1, <2>2, SlotsAssumption DEF Init, ConnsOK
<1>3. ASSUME NEW r \in Requests
      PROVE  RequestOK(r)
  <2>1. ~IsScript(r)
    BY ScriptsAssumption DEF Init, IsScript
  <2> QED
    BY DEF Init, RequestOK, WhereOK, ResultsOK, HistoryOK
<1> QED
  BY <1>1, <1>2, <1>3 DEF IInv

LEMMA StartKeeps ==
  ASSUME IInv, NEW r \in Requests, Start(r)
  PROVE  IInv'
<1>1. TypeOK /\ ConnsOK /\ WhereOK(r) /\ ResultsOK(r) /\ HistoryOK(r)
  BY DEF IInv, RequestOK
<1>2. PICK j \in Jobs : job' = [job EXCEPT ![r] = j]
  BY DEF Start
<1>3. TypeOK' /\ ConnsOK'
  <2>1. TypeOK'
    BY <1>1 DEF Start, TypeOK
  <2> QED
    BY <1>1, <2>1, ConnsKept DEF Start, slotVars
<1>4. /\ pc'[r] = "run" /\ job'[r] = j /\ at'[r] = 1 /\ held'[r] = <<>>
      /\ job[r] = <<>>
  BY <1>1, <1>2 DEF Start, TypeOK, WhereOK
<1>5. out'[r] = <<>> /\ history'[r] = <<>> /\ recorded'[r] = 0
  <2>1. ~IsScript(r)
    BY <1>4, ScriptsAssumption DEF IsScript
  <2> QED
    BY <1>1, <2>1 DEF ResultsOK, Start
<1>6. /\ Len(Ops(r)') \in Nat
      /\ IsScript(r)' => Len(job'[r]) \in Nat \ {0}
  <2>1. Paired(Programs[kind'][j])
    BY <1>3, ProgramPaired DEF TypeOK
  <2>2. Len(Ops(r)') \in Nat
    OBVIOUS
  <2>3. IsScript(r)' => Len(job'[r]) \in Nat \ {0}
    BY ScriptsAssumption DEF IsScript
  <2> QED
    BY <2>3
<1>7. WhereOK(r)'
  BY <1>4 DEF WhereOK
<1>8. ResultsOK(r)' /\ HistoryOK(r)'
  BY <1>4, <1>5, <1>6 DEF ResultsOK, HistoryOK
<1>9. ASSUME NEW q \in Requests, q # r
      PROVE  RequestOK(q)'
  <2>1. Keeps(q)
    BY <1>9 DEF Keeps, Start
  <2> QED
    BY <2>1, RequestKept DEF IInv
<1> QED
  BY <1>3, <1>7, <1>8, <1>9 DEF IInv, RequestOK

LEMMA QueryKeeps ==
  ASSUME IInv, NEW r \in Requests, Query(r)
  PROVE  IInv'
<1>1. TypeOK /\ ConnsOK
  BY DEF IInv
<1>2. Serving(r) /\ at[r] % 2 = 1 /\ held[r] = <<>> /\ Op(r) = "open"
  <2>1. Serving(r)
    BY IsServing DEF Query, Asks
  <2> QED
    BY <2>1 DEF Query, Asks, Serving
<1>3. PICK o \in Seq(Results) :
        /\ out' = [out EXCEPT ![r] = o]
        /\ ~IsScript(r) => o = out[r]
        /\ IsScript(r) => Len(o) = Len(out[r]) + 1
  BY <1>1, Reported DEF Query, Results
<1>4. PICK s \in Slots : Acquire(r, s)
  BY DEF Query
<1>5. ConnsOK' /\ held' = [held EXCEPT ![r] = <<s>>]
  BY <1>2, <1>4, AcquireConns DEF Query, Asks
<1>6. Moves(r, "run", at[r] + 1, o)
  BY <1>1, <1>3 DEF Query, Asks, Moves, TypeOK
<1>7. /\ at[r] + 1 \in Nat /\ at[r] + 1 \in 1 .. Len(Ops(r)) /\ (at[r] + 1) % 2 # 1
      /\ IsScript(r) => at[r] + 1 = 2 * Len(o)
  <2>1. at[r] \in 1 .. Len(Ops(r)) /\ Len(Ops(r)) \in Nat /\ Len(Ops(r)) % 2 = 0
    BY <1>2 DEF Serving
  <2>2. IsScript(r) => at[r] = 2 * Len(out[r]) + 1 /\ Len(out[r]) \in Nat
    BY <1>2 DEF Serving
  <2>3. at[r] + 1 \in Nat /\ at[r] + 1 \in 1 .. Len(Ops(r)) /\ (at[r] + 1) % 2 # 1
    BY <1>2, <2>1
  <2> QED
    BY <1>3, <2>2, <2>3
<1>8. WhereOK(r)'
  <2>1. pc'[r] = "run" /\ at'[r] = at[r] + 1 /\ job'[r] = job[r] /\ held'[r] # <<>>
    BY <1>1, <1>5, <1>6 DEF TypeOK, Moves, ConnsOK
  <2>2. Ops(r)' = Ops(r)
    BY <1>6 DEF Ops, Moves
  <2>3. Ops(r)[at[r] + 1] = "close"
    BY <1>2 DEF Serving
  <2> QED
    BY <1>2, <1>7, <2>1, <2>2 DEF WhereOK, Serving, Op
<1> QED
  BY <1>2, <1>3, <1>5, <1>6, <1>7, <1>8, Served DEF Serving

LEMMA DiscardKeeps ==
  ASSUME IInv, NEW r \in Requests, Discard(r)
  PROVE  IInv'
<1>1. TypeOK /\ ConnsOK /\ idle # <<>>
  BY DEF IInv, Discard
<1>2. ConnsOK'
  BY <1>1, TakeLast, DropConns DEF Discard, ConnsOK
<1>3. TypeOK'
  BY <1>1 DEF Discard, TypeOK
<1>4. ASSUME NEW q \in Requests
      PROVE  RequestOK(q)'
  <2>1. Keeps(q)
    BY DEF Keeps, Discard
  <2> QED
    BY <2>1, RequestKept DEF IInv
<1> QED
  BY <1>2, <1>3, <1>4 DEF IInv

LEMMA TakeKeeps ==
  ASSUME IInv, NEW r \in Requests, Take(r)
  PROVE  IInv'
<1>1. TypeOK /\ ConnsOK
  BY DEF IInv
<1>2. Serving(r) /\ at[r] % 2 = 1 /\ held[r] = <<>> /\ Op(r) # "open"
  <2>1. Serving(r)
    BY IsServing DEF Take, Asks
  <2> QED
    BY <2>1 DEF Take, Asks, Serving
<1>3. PICK s \in Slots : Acquire(r, s)
  BY DEF Take
<1>4. ConnsOK' /\ held' = [held EXCEPT ![r] = <<s>>]
  BY <1>2, <1>3, AcquireConns DEF Take, Asks
<1>5. Moves(r, "exec", at[r], out[r]) /\ at[r] \in Nat /\ out[r] \in Seq(Results)
  BY <1>1 DEF Take, Moves, TypeOK
<1>6. WhereOK(r)'
  <2>1. pc'[r] = "exec" /\ at'[r] = at[r] /\ job'[r] = job[r] /\ held'[r] # <<>>
    BY <1>1, <1>4, <1>5 DEF TypeOK, Moves, ConnsOK
  <2>2. Ops(r)' = Ops(r)
    BY <1>5 DEF Ops, Moves
  <2> QED
    BY <1>2, <2>1, <2>2 DEF WhereOK, Serving, Op
<1> QED
  BY <1>2, <1>4, <1>5, <1>6, Served DEF Serving

LEMMA RefusedKeeps ==
  ASSUME IInv, NEW r \in Requests, Refused(r)
  PROVE  IInv'
<1>1. TypeOK /\ ConnsOK
  BY DEF IInv
<1>2. Serving(r) /\ at[r] % 2 = 1 /\ held[r] = <<>>
  <2>1. Serving(r)
    BY IsServing DEF Refused
  <2> QED
    BY <2>1 DEF Refused, Serving
<1>3. PICK o \in Seq(Results) :
        /\ out' = [out EXCEPT ![r] = o]
        /\ ~IsScript(r) => o = out[r]
        /\ IsScript(r) => Len(o) = Len(out[r]) + 1
  BY <1>1, Reported DEF Refused, Results
<1> DEFINE a == IF IsScript(r) THEN at[r] + 2 ELSE Len(Ops(r)) + 1
<1>4. a \in Nat /\ a % 2 = 1 /\ a \in 1 .. Len(Ops(r)) + 1
  <2>1. Len(Ops(r)) \in Nat /\ Len(Ops(r)) % 2 = 0
    BY <1>2 DEF Serving
  <2>2. Len(Ops(r)) + 1 \in Nat /\ (Len(Ops(r)) + 1) % 2 = 1
        /\ Len(Ops(r)) + 1 \in 1 .. Len(Ops(r)) + 1
    BY <2>1
  <2> QED
    BY <1>2, <2>2, TwoOn
<1>5. Moves(r, "run", a, o) /\ held' = [held EXCEPT ![r] = <<>>] /\ held'[r] = <<>>
  BY <1>1, <1>2, <1>3 DEF Refused, Moves, TypeOK, ConnsOK, AfterFailure, Leave
<1>6. ConnsOK'
  BY <1>1, ConnsKept DEF Refused, slotVars
<1>7. IsScript(r) => a = 2 * Len(o) + 1
  BY <1>2, <1>3, TwoOn
<1> HIDE DEF a
<1>8. WhereOK(r)'
  BY <1>2, <1>4, <1>5, Between
<1> QED
  BY <1>2, <1>3, <1>4, <1>5, <1>6, <1>7, <1>8, Served DEF Serving

(* ExecOne of a statement answers, whatever the transaction. *)
LEMMA PerformAnswers ==
  ASSUME NEW k, NEW op \in Statements, NEW w, NEW t, NEW D
  PROVE  Perform(k, op, w, t, D).result \in Results
<1>1. CASE op \in {"commit", "rollback"}
  BY <1>1 DEF Perform, Results
<1>2. CASE op = "begin"
  BY <1>2 DEF Perform, Results
<1>3. CASE op = "write"
  BY <1>3 DEF Perform, Results
<1>4. CASE op = "bad"
  BY <1>4 DEF Perform, Results
<1>5. CASE op = "query"
  BY <1>5 DEF Perform, Results
<1> QED
  BY <1>1, <1>2, <1>3, <1>4, <1>5 DEF Statements

(* A statement that ends, by itself or not. *)
LEMMA EndKeeps ==
  ASSUME IInv, NEW r \in Requests, pc[r] = "exec", Releases(r),
         NEW res \in Results, Report(r, res),
         at' = [at EXCEPT ![r] = @ + 2], pc' = [pc EXCEPT ![r] = "run"],
         UNCHANGED <<kind, driver, saved, gone, job, history, recorded>>
  PROVE  IInv'
<1>1. TypeOK /\ ConnsOK
  BY DEF IInv
<1>2. Serving(r) /\ at[r] % 2 = 1 /\ held[r] # <<>>
  <2>1. Serving(r)
    BY IsServing
  <2> QED
    BY <2>1 DEF Serving
<1>3. PICK o \in Seq(Results) :
        /\ out' = [out EXCEPT ![r] = o]
        /\ ~IsScript(r) => o = out[r]
        /\ IsScript(r) => Len(o) = Len(out[r]) + 1
  BY <1>1, Reported
<1>4. ConnsOK' /\ held' = [held EXCEPT ![r] = <<>>] /\ held'[r] = <<>>
  <2>1. ConnsOK' /\ held' = [held EXCEPT ![r] = <<>>]
    BY <1>2, ReleaseConns
  <2> QED
    BY <2>1 DEF ConnsOK
<1>5. Moves(r, "run", at[r] + 2, o)
  BY <1>3 DEF Moves
<1>6. /\ at[r] + 2 \in 1 .. Len(Ops(r)) + 1 /\ (at[r] + 2) % 2 = 1
      /\ at[r] + 2 \in Nat
  BY <1>2, TwoOn
<1>7. WhereOK(r)'
  BY <1>2, <1>4, <1>5, <1>6, Between
<1>8. IsScript(r) => at[r] + 2 = 2 * Len(o) + 1
  BY <1>2, <1>3, TwoOn
<1> QED
  BY <1>2, <1>3, <1>4, <1>5, <1>6, <1>7, <1>8, Served DEF Serving

LEMMA ExecuteKeeps ==
  ASSUME IInv, NEW r \in Requests, Execute(r)
  PROVE  IInv'
<1> DEFINE did == Perform(kind, Op(r), <<r, Len(out[r]) + 1>>, tx[Last(held[r])], db)
<1>1. pc[r] = "exec"
  BY DEF Execute
<1>2. Op(r) \in Statements
  <2>1. Serving(r)
    BY <1>1, IsServing
  <2> QED
    BY <1>1, <2>1 DEF Serving
<1>3. did.result \in Results
  BY <1>2, PerformAnswers
<1>4. Releases(r)
  BY EndsRelease DEF Execute
<1>5. /\ Report(r, did.result)
      /\ at' = [at EXCEPT ![r] = @ + 2] /\ pc' = [pc EXCEPT ![r] = "run"]
      /\ UNCHANGED <<kind, driver, saved, gone, job, history, recorded>>
  BY DEF Execute
<1> HIDE DEF did
<1> QED
  BY <1>1, <1>3, <1>4, <1>5, EndKeeps

LEMMA InterruptedKeeps ==
  ASSUME IInv, NEW r \in Requests, Interrupted(r)
  PROVE  IInv'
<1>1. /\ pc[r] = "exec" /\ Interrupt(r) /\ Report(r, "error")
      /\ at' = [at EXCEPT ![r] = @ + 2] /\ pc' = [pc EXCEPT ![r] = "run"]
      /\ UNCHANGED <<kind, driver, saved, gone, job, history, recorded>>
  BY DEF Interrupted
<1>2. Releases(r) /\ "error" \in Results
  BY <1>1, EndsRelease DEF Results
<1> QED
  BY <1>1, <1>2, EndKeeps

LEMMA CloseKeeps ==
  ASSUME IInv, NEW r \in Requests, Close(r)
  PROVE  IInv'
<1>1. TypeOK /\ ConnsOK
  BY DEF IInv
<1>2. Serving(r) /\ at[r] % 2 # 1 /\ held[r] # <<>> /\ pc[r] = "run"
  <2>1. Serving(r)
    BY IsServing DEF Close
  <2> QED
    BY <2>1 DEF Close, Serving
<1>3. Releases(r)
  BY EndsRelease DEF Close
<1>4. ConnsOK' /\ held' = [held EXCEPT ![r] = <<>>] /\ held'[r] = <<>>
  <2>1. ConnsOK' /\ held' = [held EXCEPT ![r] = <<>>]
    BY <1>2, <1>3, ReleaseConns DEF Close
  <2> QED
    BY <2>1 DEF ConnsOK
<1>5. /\ at[r] + 1 \in 1 .. Len(Ops(r)) + 1 /\ (at[r] + 1) % 2 = 1
      /\ at[r] + 1 \in Nat
  <2>1. at[r] \in 1 .. Len(Ops(r)) /\ Len(Ops(r)) \in Nat
    BY <1>2 DEF Serving
  <2> QED
    BY <1>2, <2>1
<1>6. PICK o \in Seq(Results) :
        /\ out' = [out EXCEPT ![r] = o]
        /\ ~IsScript(r) => o = out[r]
        /\ Len(o) = Len(out[r])
  <2>1. out[r] \in Seq(Results) /\ out \in [Requests -> Seq(Results)]
    BY <1>1 DEF TypeOK
  <2>2. CASE out' = out
    BY <2>1, <2>2
  <2>3. CASE IsScript(r) /\ out' = [out EXCEPT ![r][Len(out[r])] = "error"]
    <3> DEFINE o == [out[r] EXCEPT ![Len(out[r])] = "error"]
    <3>1. o \in Seq(Results) /\ Len(o) = Len(out[r])
      <4>1. "error" \in Results
        BY DEF Results
      <4>2. Len(out[r]) \in 1 .. Len(out[r])
        <5>1. Len(out[r]) \in Nat
          OBVIOUS
        <5>2. at[r] = 2 * Len(out[r]) /\ at[r] \in Nat \ {0}
          BY <1>2, <2>3 DEF Serving
        <5> QED
          BY <5>2
      <4> QED
        BY <2>1, <4>1, <4>2
    <3>2. out' = [out EXCEPT ![r] = o]
      BY <2>3
    <3> QED
      BY <2>3, <3>1
  <2> QED
    BY <2>2, <2>3 DEF Close
<1>7. Moves(r, "run", at[r] + 1, o)
  <2>1. pc' = [pc EXCEPT ![r] = "run"]
    BY <1>1 DEF Close, TypeOK
  <2> QED
    BY <1>6, <2>1 DEF Moves, Close
<1>8. WhereOK(r)'
  BY <1>2, <1>4, <1>5, <1>7, Between
<1>9. IsScript(r) => at[r] + 1 = 2 * Len(o) + 1
  BY <1>2, <1>6 DEF Serving
<1> QED
  BY <1>2, <1>4, <1>5, <1>6, <1>7, <1>8, Served DEF Serving

LEMMA ReturnKeeps ==
  ASSUME IInv, NEW r \in Requests, Return(r)
  PROVE  IInv'
<1>1. TypeOK /\ ConnsOK /\ WhereOK(r) /\ ResultsOK(r) /\ HistoryOK(r)
  BY DEF IInv, RequestOK
<1>2. TypeOK' /\ ConnsOK'
  <2>1. TypeOK'
    BY <1>1 DEF Return, TypeOK
  <2> QED
    BY <1>1, <2>1, ConnsKept DEF Return, slotVars
<1>3. /\ pc'[r] = "done" /\ job'[r] = job[r] /\ held'[r] = held[r] /\ pc[r] = "run"
      /\ ~IsScript(r) /\ ~IsScript(r)'
  BY <1>1 DEF Return, TypeOK, IsScript
<1>4. held[r] = <<>> /\ job[r] \in Jobs
  BY <1>1 DEF WhereOK, Return, More
<1>5. WhereOK(r)'
  BY <1>3, <1>4 DEF WhereOK
<1>6. ResultsOK(r)' /\ HistoryOK(r)'
  BY <1>1, <1>3 DEF ResultsOK, HistoryOK, Return
<1>7. ASSUME NEW q \in Requests, q # r
      PROVE  RequestOK(q)'
  <2>1. Keeps(q)
    BY <1>7 DEF Keeps, Return
  <2> QED
    BY <2>1, RequestKept DEF IInv
<1> QED
  BY <1>2, <1>5, <1>6, <1>7 DEF IInv, RequestOK

LEMMA RecordKeeps ==
  ASSUME IInv, NEW r \in Requests, Record(r)
  PROVE  IInv'
<1> DEFINE i == recorded[r] + 1
           h == IF r \notin gone /\ saved THEN Append(history[r], <<i, out[r][i]>>)
                ELSE history[r]
<1>1. TypeOK /\ ConnsOK /\ WhereOK(r) /\ ResultsOK(r) /\ HistoryOK(r)
  BY DEF IInv, RequestOK
<1>2. pc[r] = "run" /\ ~More(r) /\ IsScript(r) /\ job[r] \in Jobs
  BY <1>1 DEF Record, WhereOK
<1>3. /\ Len(Ops(r)) = 2 * Len(job[r]) /\ Len(job[r]) \in Nat
      /\ at[r] \in Nat /\ recorded[r] \in Nat
      /\ out[r] \in Seq(Results) /\ Len(out[r]) \in Nat
      /\ history[r] \in Seq(Nat \X Results) /\ Len(history[r]) \in Nat
  BY <1>1, <1>2, JobOps DEF TypeOK
<1>4. at[r] % 2 = 1 /\ at[r] = Len(Ops(r)) + 1 /\ held[r] = <<>>
  <2>1. ~(at[r] <= Len(Ops(r))) /\ Len(Ops(r)) \in Nat
    BY <1>2 DEF More
  <2>2. at[r] \notin 1 .. Len(Ops(r))
    BY <2>1
  <2>3. at[r] % 2 = 1
    BY <1>1, <1>2, <2>2 DEF WhereOK
  <2>4. at[r] \in 1 .. Len(Ops(r)) + 1 /\ held[r] = <<>>
    BY <1>1, <1>2, <2>3 DEF WhereOK
  <2>5. at[r] = Len(Ops(r)) + 1
    <3>1. ASSUME NEW n \in Nat, NEW a \in 1 .. n + 1, ~(a <= n)
          PROVE  a = n + 1
      BY <3>1
    <3> QED
      BY <2>1, <2>4
  <2> QED
    BY <2>3, <2>4, <2>5
<1>5. Len(out[r]) = Len(job[r]) /\ recorded[r] < Len(job[r])
  <2>1. at[r] = 2 * Len(out[r]) + 1 /\ recorded[r] < Len(job[r])
    BY <1>1, <1>2, <1>4 DEF ResultsOK
  <2> QED
    BY <1>3, <1>4, <2>1
<1>6. i \in Nat /\ i \in 1 .. Len(out[r]) /\ i = recorded[r] + 1
  BY <1>3, <1>5
<1>7. /\ h \in Seq(Nat \X Results)
      /\ r \notin gone /\ saved => Len(h) = Len(history[r]) + 1
      /\ ~(r \notin gone /\ saved) => h = history[r]
      /\ \A k \in 1 .. Len(history[r]) : h[k] = history[r][k]
      /\ r \notin gone /\ saved => h[Len(history[r]) + 1] = <<i, out[r][i]>>
  <2>1. <<i, out[r][i]>> \in Nat \X Results
    BY <1>3, <1>6
  <2> QED
    BY <1>3, <2>1
<1>8. /\ history' = [history EXCEPT ![r] = h]
      /\ recorded' = [recorded EXCEPT ![r] = i]
      /\ pc' = [pc EXCEPT ![r] = IF i = Len(out[r]) THEN "done" ELSE "run"]
      /\ UNCHANGED <<kind, driver, saved, slotVars, job, at, held, out, gone>>
  BY <1>1 DEF Record, TypeOK
<1> HIDE DEF i, h
<1>9. TypeOK' /\ ConnsOK'
  <2>1. TypeOK'
    BY <1>1, <1>6, <1>7, <1>8 DEF TypeOK
  <2> QED
    BY <1>1, <1>8, <2>1, ConnsKept DEF slotVars
<1>10. /\ history'[r] = h /\ recorded'[r] = i
       /\ pc'[r] = IF i = Len(out[r]) THEN "done" ELSE "run"
       /\ job'[r] = job[r] /\ at'[r] = at[r] /\ held'[r] = <<>> /\ out'[r] = out[r]
       /\ gone' = gone /\ saved' = saved
  BY <1>1, <1>4, <1>8 DEF TypeOK
<1>11. Ops(r)' = Ops(r) /\ IsScript(r)'
  BY <1>2, <1>8 DEF Ops, IsScript
<1>12. WhereOK(r)'
  <2>1. at[r] \in 1 .. Len(Ops(r)) + 1
    BY <1>4
  <2> QED
    BY <1>2, <1>4, <1>10, <1>11 DEF WhereOK
<1>13. ResultsOK(r)'
  <2>1. i < Len(job[r]) \/ i = Len(out[r])
    BY <1>5, <1>6
  <2>2. ~(at[r] <= 2 * Len(job[r])) /\ at[r] = 2 * Len(out[r]) + 1
    BY <1>3, <1>4, <1>5
  <2> QED
    BY <1>4, <1>5, <1>10, <1>11, <2>1, <2>2 DEF ResultsOK
<1>14. HistoryOK(r)'
  <2>1. Len(history[r]) <= recorded[r]
    BY <1>1 DEF HistoryOK
  <2>2. CASE r \notin gone /\ saved
    <3>1. Len(history[r]) = recorded[r] /\ Len(h) = i
      BY <1>1, <1>6, <1>7, <2>2 DEF HistoryOK
    <3>2. ASSUME NEW k \in 1 .. Len(h)
          PROVE  h[k] = <<k, out[r][k]>>
      <4>1. k \in 1 .. Len(history[r]) \/ k = i
        BY <1>6, <3>1
      <4>2. CASE k \in 1 .. Len(history[r])
        BY <1>1, <1>7, <4>2 DEF HistoryOK
      <4>3. CASE k = i
        BY <1>7, <2>2, <3>1, <4>3
      <4> QED
        BY <4>1, <4>2, <4>3
    <3>3. Len(h) <= i
      BY <3>1
    <3> QED
      BY <1>10, <3>1, <3>2 DEF HistoryOK
  <2>3. CASE ~(r \notin gone /\ saved)
    <3>1. h = history[r] /\ Len(h) <= i
      BY <1>3, <1>6, <1>7, <2>1, <2>3
    <3> QED
      BY <1>1, <1>10, <2>3, <3>1 DEF HistoryOK
  <2> QED
    BY <2>2, <2>3
<1>15. ASSUME NEW q \in Requests, q # r
       PROVE  RequestOK(q)'
  <2>1. Keeps(q)
    BY <1>8, <1>15 DEF Keeps
  <2> QED
    BY <2>1, RequestKept DEF IInv
<1> QED
  BY <1>9, <1>12, <1>13, <1>14, <1>15 DEF IInv, RequestOK

LEMMA CancelKeeps ==
  ASSUME IInv, NEW r \in Requests, Cancel(r)
  PROVE  IInv'
<1>1. TypeOK' /\ ConnsOK'
  <2>1. TypeOK'
    BY DEF IInv, Cancel, TypeOK
  <2> QED
    BY <2>1, ConnsKept DEF IInv, Cancel, slotVars
<1>2. ASSUME NEW q \in Requests
      PROVE  RequestOK(q)'
  <2>1. Keeps(q)
    BY DEF Keeps, Cancel
  <2> QED
    BY <2>1, RequestKept DEF IInv
<1> QED
  BY <1>1, <1>2 DEF IInv

LEMMA EvictKeeps ==
  ASSUME IInv, Evict
  PROVE  IInv'
<1>1. TypeOK /\ ConnsOK
  BY DEF IInv
<1>2. TypeOK'
  BY <1>1 DEF Evict, TypeOK
<1>3. ConnsOK'
  <2>1. /\ Range(idle') = {} /\ idle' \in Seq(Slots) /\ IsInjective(idle')
        /\ idle' = <<>>
    BY DEF Evict, Range, IsInjective
  <2>2. held' = held /\ driver' = "closed" /\ opened' = opened \ Range(idle)
    BY DEF Evict
  <2>3. ASSUME NEW x \in Slots
        PROVE  x \in opened' <=>
                 x \in Range(idle') \/ \E q \in Requests : held'[q] = <<x>>
    BY <1>1, <2>1, <2>2 DEF ConnsOK
  <2>4. ASSUME NEW q \in Requests, NEW x \in Slots, held'[q] = <<x>>
        PROVE  /\ x \notin Range(idle')
               /\ \A p \in Requests \ {q} : held'[p] # <<x>>
    BY <1>1, <2>1, <2>2, <2>4 DEF ConnsOK
  <2>5. Len(idle') <= MaxIdle
    BY <2>1, SlotsAssumption
  <2> QED
    BY <1>1, <2>1, <2>2, <2>3, <2>4, <2>5 DEF ConnsOK
<1>4. ASSUME NEW q \in Requests
      PROVE  RequestOK(q)'
  <2>1. Keeps(q)
    BY DEF Keeps, Evict
  <2> QED
    BY <2>1, RequestKept DEF IInv
<1> QED
  BY <1>2, <1>3, <1>4 DEF IInv

LEMMA ExpireKeeps ==
  ASSUME IInv, Expire
  PROVE  IInv'
<1>1. TypeOK /\ ConnsOK /\ idle # <<>>
  BY DEF IInv, Expire
<1>2. ConnsOK'
  BY <1>1, TakeFirst, DropConns DEF Expire, ConnsOK
<1>3. TypeOK'
  BY <1>1 DEF Expire, TypeOK
<1>4. ASSUME NEW q \in Requests
      PROVE  RequestOK(q)'
  <2>1. Keeps(q)
    BY DEF Keeps, Expire
  <2> QED
    BY <2>1, RequestKept DEF IInv
<1> QED
  BY <1>2, <1>3, <1>4 DEF IInv

LEMMA DeleteRowKeeps ==
  ASSUME IInv, DeleteRow
  PROVE  IInv'
<1>1. TypeOK' /\ ConnsOK'
  <2>1. TypeOK'
    BY DEF IInv, DeleteRow, TypeOK
  <2> QED
    BY <2>1, ConnsKept DEF IInv, DeleteRow, slotVars
<1>2. ASSUME NEW q \in Requests
      PROVE  RequestOK(q)'
  <2>1. Keeps(q)
    BY DEF Keeps, DeleteRow
  <2> QED
    BY <2>1, RequestKept DEF IInv
<1> QED
  BY <1>1, <1>2 DEF IInv

LEMMA Inductive == IInv /\ [Next]_vars => IInv'
<1> SUFFICES ASSUME IInv, [Next]_vars PROVE IInv'
  OBVIOUS
<1>1. CASE UNCHANGED vars
  <2>1. TypeOK' /\ ConnsOK'
    <3>1. TypeOK'
      BY <1>1 DEF IInv, TypeOK, vars
    <3> QED
      BY <1>1, <3>1, ConnsKept DEF IInv, vars, slotVars
  <2>2. ASSUME NEW q \in Requests
        PROVE  RequestOK(q)'
    <3>1. Keeps(q)
      BY <1>1 DEF Keeps, vars
    <3> QED
      BY <3>1, RequestKept DEF IInv
  <2> QED
    BY <2>1, <2>2 DEF IInv
<1>2. ASSUME NEW r \in Requests, Start(r) \/ Handle(r) \/ Cancel(r)
      PROVE  IInv'
  BY <1>2, StartKeeps, DiscardKeeps, QueryKeeps, TakeKeeps, RefusedKeeps, ExecuteKeeps,
     InterruptedKeeps, CloseKeeps, ReturnKeeps, RecordKeeps, CancelKeeps
  DEF Handle
<1> QED
  BY <1>1, <1>2, EvictKeeps, ExpireKeeps, DeleteRowKeeps DEF Next, Quiet

-----------------------------------------------------------------------------
(* IInv is an invariant. *)
THEOREM Invariant == Spec => []IInv
<1> QED
  BY InitIInv, Inductive, PTL DEF Spec

(* Every variable keeps to its type: no result is anything but ok or an    *)
(* error, and no request runs anything but a page or a submitted script.   *)
THEOREM TypeCorrect == Spec => []TypeOK
<1>1. IInv => TypeOK
  BY DEF IInv
<1> QED
  BY <1>1, Invariant, PTL

(* No connection leaks or serves two requests: those a driver has opened   *)
(* are idle, once, or held by one cursor or statement, and a request that  *)
(* is over holds none (the deferred Close of execOne and of the drivers).  *)
THEOREM ConnectionsAccounted == Spec => []SlotsAccounted
<1>1. ASSUME IInv
      PROVE  SlotsAccounted
  <2> DEFINE holds == [r \in Requests |-> Range(held[r])]
  <2>1. ConnsOK /\ \A r \in Requests : WhereOK(r)
    BY <1>1 DEF IInv, RequestOK
  <2>2. \A s \in Slots : Range(<<s>>) = {s}
    BY DEF Range
  <2>3. Range(<<>>) = {} /\ IsInjective(<<>>)
    BY DEF Range, IsInjective
  <2>4. \A s \in Slots : IsInjective(<<s>>)
    BY DEF IsInjective
  <2>5. ASSUME NEW r \in Requests
        PROVE  /\ holds[r] \subseteq Slots /\ IsInjective(held[r])
               /\ \A s \in Slots : s \in holds[r] <=> held[r] = <<s>>
    <3>1. CASE held[r] = <<>>
      BY <2>3, <3>1
    <3>2. CASE \E s \in Slots : held[r] = <<s>>
      BY <2>2, <2>4, <3>2
    <3> QED
      BY <2>1, <3>1, <3>2 DEF ConnsOK
  <2> HIDE DEF holds
  <2>6. Range(idle) \subseteq Slots
    BY <2>1 DEF ConnsOK, Range
  <2>7. UNION Range(holds) = UNION {holds[r] : r \in Requests}
    BY DEF holds, Range
  <2>8. opened = Range(idle) \cup UNION Range(holds)
    <3>1. opened \subseteq Slots /\ UNION Range(holds) \subseteq Slots
      BY <2>1, <2>5, <2>7 DEF ConnsOK
    <3>2. ASSUME NEW s \in Slots
          PROVE  s \in opened <=> s \in Range(idle) \cup UNION Range(holds)
      <4>1. s \in opened <=> s \in Range(idle) \/ \E r \in Requests : held[r] = <<s>>
        BY <2>1 DEF ConnsOK
      <4>2. (\E r \in Requests : held[r] = <<s>>) <=> s \in UNION Range(holds)
        BY <2>5, <2>7
      <4> QED
        BY <4>1, <4>2
    <3> QED
      BY <2>6, <3>1, <3>2
  <2>9. ASSUME NEW r \in Requests
        PROVE  /\ holds[r] \cap Range(idle) = {}
               /\ \A q \in Requests \ {r} : holds[q] \cap holds[r] = {}
    BY <2>1, <2>5 DEF ConnsOK
  <2>10. \A r \in Requests : pc[r] \in {"new", "done"} => held[r] = <<>>
    BY <2>1 DEF WhereOK
  <2>11. IsInjective(idle) /\ (driver = "closed" => idle = <<>>)
    BY <2>1 DEF ConnsOK
  <2> QED
    BY <2>5, <2>8, <2>9, <2>10, <2>11 DEF SlotsAccounted, holds
<1> QED
  BY <1>1, Invariant, PTL

(* The history holds what a script answered, in its order and from its     *)
(* start, and all of it when the client stayed and the connection was kept *)
(* (the loop over the results at the end of handleQuery).                  *)
THEOREM HistoryIsFaithful == Spec => []HistoryFollowsScript
<1>1. ASSUME IInv, NEW r \in Requests, IsScript(r)
      PROVE  /\ history[r] = [i \in 1 .. Len(history[r]) |-> <<i, out[r][i]>>]
             /\ pc[r] = "done" /\ r \notin gone /\ saved =>
                  Len(history[r]) = Len(job[r])
  <2>1. TypeOK /\ HistoryOK(r) /\ ResultsOK(r)
    BY <1>1 DEF IInv, RequestOK
  <2>2. DOMAIN history[r] = 1 .. Len(history[r])
        /\ history[r] = [i \in DOMAIN history[r] |-> history[r][i]]
    <3>1. history[r] \in Seq(Nat \X Results)
      BY <2>1 DEF TypeOK
    <3> QED
      BY <3>1
  <2>3. history[r] = [i \in 1 .. Len(history[r]) |-> <<i, out[r][i]>>]
    BY <2>1, <2>2 DEF HistoryOK
  <2> QED
    BY <1>1, <2>1, <2>3 DEF HistoryOK, ResultsOK
<1>2. IInv => HistoryFollowsScript
  BY <1>1 DEF HistoryFollowsScript
<1> QED
  BY <1>2, Invariant, PTL

-----------------------------------------------------------------------------
(***************************************************************************)
(* A script that is alone on the driver.                                   *)
(***************************************************************************)
(* Transactions are whole, and only requests that have started write, or   *)
(* leave.                                                                  *)
Writes == Requests \X Nat
Transactions == [by : Requests \cup {NoRequest}, writes : SUBSET Writes]
Session(t) == t \in Transactions /\ (~InTx(t) => t = NoTx)
TxOK ==
    /\ tx \in [Slots -> Transactions] /\ \A s \in Slots : Session(tx[s])
    /\ db \in SUBSET Writes /\ \A w \in db : pc[w[1]] # "new"
    /\ \A s \in Slots : \A w \in tx[s].writes : pc[w[1]] # "new"
    /\ \A r \in gone : pc[r] # "new"

(* The part of Serial that the request has come to. *)
Ran(r, run) ==
    /\ run[0] = Fresh
    /\ \A i \in 1 .. Len(out[r]) :
           run[i] = Perform(kind, job[r][i], <<r, i>>, Carried(run[i - 1].tx), run[i - 1].db)

(* A request that is alone has its transaction on one connection, the one  *)
(* it holds or the last to be given back, from which it is carried over to *)
(* the next statement, or not.                                             *)
Here(r, D) == {w \in D : w[1] = r}
Views(r, t) ==
    IF pc[r] = "exec" THEN {Carried(t)}
    ELSE IF pc[r] = "run" /\ More(r) /\ Op(r) # "close" THEN {t, Carried(t)} ELSE {t}
AtHome(r, state) ==
    /\ Here(r, db) = state.db
    /\ Session(state.tx) /\ state.tx.by \in {r, NoRequest}
    /\ \A w \in state.tx.writes : w[1] = r
    /\ held[r] # <<>> => Len(idle) < MaxIdle
    /\ \E home \in Slots :
           /\ tx[home] \in Views(r, state.tx)
           /\ \A s \in Slots \ {home} : tx[s] = NoTx
           /\ held[r] # <<>> => held[r] = <<home>>
           /\ held[r] = <<>> /\ idle # <<>> => home = Last(idle)
           /\ held[r] = <<>> /\ idle = <<>> => tx[home] = NoTx

Answered(r, run) == \A i \in 1 .. Len(out[r]) : out[r][i] = run[i].result

(* There is such a run, and it is what has happened. *)
Serially(r) ==
    /\ \E run : Ran(r, run)
    /\ \A run, state : Ran(r, run) /\ state = run[Len(out[r])] =>
           Answered(r, run) /\ AtHome(r, state)

AloneOK(r) ==
    /\ r \notin gone /\ driver = "open"
    /\ \A q \in Requests \ {r} : ~Active(q)
    /\ IsScript(r) => Serially(r)

SerialInv == IInv /\ TxOK /\ alone \subseteq Requests /\ \A r \in alone : AloneOK(r)

LEMMA NoTxIsSession == Session(NoTx) /\ NoTx.writes = {} /\ NoTx.by = NoRequest
  BY DEF Session, Transactions, NoTx

(* A statement keeps a session whole and writes at most what it has there. *)
LEMMA PerformTyped ==
  ASSUME NEW k, NEW op \in Statements, NEW w \in Writes, NEW t, Session(t), NEW D
  PROVE  LET p == Perform(k, op, w, t, D) IN
           /\ Session(p.tx)
           /\ p.tx.by \in {NoRequest, w[1], t.by}
           /\ p.tx.writes \subseteq t.writes \cup {w}
           /\ p.db \subseteq D \cup t.writes \cup {w}
<1>1. t \in Transactions /\ (~InTx(t) => t = NoTx) /\ w[1] \in Requests
  BY DEF Session, Writes
<1>2. w[1] # NoRequest
  BY <1>1, NAssumption
<1>3. CASE op \in {"commit", "rollback"}
  BY <1>3, NoTxIsSession DEF Perform
<1>4. CASE op = "begin"
  <2> DEFINE begun == [NoTx EXCEPT !.by = w[1]]
  <2>1. begun \in Transactions /\ begun.by = w[1] /\ begun.writes = {}
    BY <1>1 DEF Transactions, NoTx
  <2>2. Session(begun)
    BY <1>2, <2>1 DEF Session, InTx
  <2> HIDE DEF begun
  <2>3. \/ Perform(k, op, w, t, D).tx = begun
           /\ Perform(k, op, w, t, D).db \in {D, D \cup t.writes}
        \/ Perform(k, op, w, t, D).tx = t /\ Perform(k, op, w, t, D).db = D
    BY <1>4 DEF Perform, begun
  <2> QED
    BY <2>1, <2>2, <2>3
<1>5. CASE op = "write"
  <2>1. CASE InTx(t)
    <3> DEFINE u == [t EXCEPT !.writes = @ \cup {w}]
    <3>1. u \in Transactions /\ u.by = t.by /\ u.writes = t.writes \cup {w}
      BY <1>1 DEF Transactions
    <3>2. Session(u)
      BY <2>1, <3>1 DEF Session, InTx
    <3>3. Perform(k, op, w, t, D).tx = u /\ Perform(k, op, w, t, D).db = D
      BY <1>5, <2>1 DEF Perform
    <3> QED
      BY <3>2, <3>3
  <2>2. CASE ~InTx(t)
    BY <1>5, <2>2 DEF Perform
  <2> QED
    BY <2>1, <2>2
<1>6. CASE op = "bad"
  BY <1>1, <1>6 DEF Perform
<1>7. CASE op = "query"
  BY <1>7 DEF Perform
<1> QED
  BY <1>3, <1>4, <1>5, <1>6, <1>7 DEF Statements

(* What a statement of r does on a session of r does not depend on what    *)
(* others have written.                                                    *)
LEMMA PerformLocal ==
  ASSUME NEW k, NEW op \in Statements, NEW r, NEW i, NEW t,
         \A w \in t.writes : w[1] = r, NEW D
  PROVE  LET p == Perform(k, op, <<r, i>>, t, D)
             own == Perform(k, op, <<r, i>>, t, Here(r, D))
         IN p.tx = own.tx /\ p.result = own.result /\ Here(r, p.db) = own.db
<1>1. Here(r, D \cup t.writes) = Here(r, D) \cup t.writes
  BY DEF Here
<1>2. Here(r, D \cup {<<r, i>>}) = Here(r, D) \cup {<<r, i>>}
  BY DEF Here
<1>3. CASE op \in {"commit", "rollback"}
  BY <1>1, <1>3 DEF Perform
<1>4. CASE op = "begin"
  BY <1>1, <1>4 DEF Perform
<1>5. CASE op = "write"
  BY <1>2, <1>5 DEF Perform
<1>6. CASE op \in {"bad", "query"}
  BY <1>6 DEF Perform
<1> QED
  BY <1>3, <1>4, <1>5, <1>6 DEF Statements

(* Sessions stay as they are, or end. *)
Lessens ==
    /\ tx' \in [Slots -> Transactions]
    /\ \A s \in Slots : tx'[s] \in {tx[s], NoTx}

LEMMA TxKept ==
  ASSUME TxOK, Lessens, db' = db, \A q \in Requests : pc[q] # "new" => pc'[q] # "new",
         \A q \in gone' : pc'[q] # "new"
  PROVE  TxOK'
<1>1. \A w \in Writes : w[1] \in Requests
  BY DEF Writes
<1>2. \A w \in db' : pc'[w[1]] # "new"
  BY <1>1 DEF TxOK
<1>3. ASSUME NEW s \in Slots
      PROVE  Session(tx'[s]) /\ \A w \in tx'[s].writes : pc'[w[1]] # "new"
  <2>1. Session(tx[s]) /\ \A w \in tx[s].writes : w \in Writes /\ pc[w[1]] # "new"
    BY DEF TxOK, Transactions
  <2>2. CASE tx'[s] = tx[s]
    BY <1>1, <2>1, <2>2
  <2>3. CASE tx'[s] = NoTx
    BY <2>3, NoTxIsSession
  <2> QED
    BY <2>2, <2>3 DEF Lessens
<1> QED
  BY <1>2, <1>3 DEF TxOK, Lessens

LEMMA EndsLessen ==
  ASSUME TxOK
  PROVE  /\ UNCHANGED tx => Lessens
         /\ \A S : tx' = Disconnect(S, tx) => Lessens
         /\ \A r \in Requests : GiveBack(r, tx) \/ Interrupt(r) => Lessens
<1>1. NoTx \in Transactions /\ \A s \in Slots : tx[s] \in Transactions
  BY NoTxIsSession DEF Session, TxOK
<1>2. UNCHANGED tx => Lessens
  BY DEF TxOK, Lessens
<1>3. ASSUME NEW S, NEW t \in [Slots -> Transactions],
             \A s \in Slots : t[s] \in {tx[s], NoTx}
      PROVE  /\ Disconnect(S, t) \in [Slots -> Transactions]
             /\ \A s \in Slots : Disconnect(S, t)[s] \in {tx[s], NoTx}
  BY <1>1, <1>3 DEF Disconnect
<1>4. ASSUME NEW S, tx' = Disconnect(S, tx)
      PROVE  Lessens
  BY <1>3, <1>4 DEF TxOK, Lessens
<1>5. ASSUME NEW r \in Requests, NEW t \in [Slots -> Transactions],
             \A s \in Slots : t[s] \in {tx[s], NoTx}, GiveBack(r, t)
      PROVE  Lessens
  <2>1. tx' = t \/ tx' = Disconnect({Last(held[r])}, t)
    BY <1>5 DEF GiveBack
  <2> QED
    BY <1>3, <1>5, <2>1 DEF Lessens
<1>6. \A r \in Requests : GiveBack(r, tx) => Lessens
  BY <1>5 DEF TxOK
<1>7. ASSUME NEW r \in Requests, Interrupt(r)
      PROVE  Lessens
  <2> DEFINE S == {Last(held[r])}
  <2>1. GiveBack(r, tx) \/ GiveBack(r, Disconnect(S, tx)) \/ tx' = Disconnect(S, tx)
    BY <1>7 DEF Interrupt
  <2>2. /\ Disconnect(S, tx) \in [Slots -> Transactions]
        /\ \A s \in Slots : Disconnect(S, tx)[s] \in {tx[s], NoTx}
    BY <1>3 DEF TxOK
  <2> HIDE DEF S
  <2> QED
    BY <1>4, <1>5, <1>6, <2>1, <2>2
<1> QED
  BY <1>2, <1>4, <1>6, <1>7

LEMMA ExecuteTx ==
  ASSUME IInv, TxOK, NEW r \in Requests, Execute(r)
  PROVE  TxOK'
<1> DEFINE s == Last(held[r])
           w == <<r, Len(out[r]) + 1>>
           did == Perform(kind, Op(r), w, tx[s], db)
           t == [tx EXCEPT ![s] = did.tx]
<1>1. Op(r) \in Statements /\ held[r] # <<>> /\ pc[r] = "exec"
  <2>1. Serving(r) /\ pc[r] = "exec"
    BY IsServing DEF Execute
  <2> QED
    BY <2>1 DEF Serving
<1>2. s \in Slots
  BY <1>1, OneSlot DEF IInv, ConnsOK
<1>3. w \in Writes /\ w[1] = r
  <2>1. out[r] \in Seq(Results)
    BY DEF IInv, TypeOK
  <2> QED
    BY DEF Writes
<1>4. Session(tx[s]) /\ tx[s] \in Transactions
  BY <1>2 DEF TxOK
<1> HIDE DEF s, w
<1>5. /\ Session(did.tx) /\ did.tx.writes \subseteq tx[s].writes \cup {w}
      /\ did.db \subseteq db \cup tx[s].writes \cup {w}
  BY <1>1, <1>3, <1>4, PerformTyped
<1>6. /\ db' = did.db /\ pc' = [pc EXCEPT ![r] = "run"] /\ gone' = gone
      /\ tx' = t \/ tx' = Disconnect({s}, t)
  BY DEF Execute, GiveBack, s, w
<1> HIDE DEF did
<1>7. ASSUME NEW x \in Slots
      PROVE  tx'[x] \in {tx[x], did.tx, NoTx}
  BY <1>6 DEF Disconnect, TxOK
<1>8. \A q \in Requests : pc[q] # "new" => pc'[q] # "new"
  BY <1>6
<1>9. pc'[r] # "new"
  BY <1>6 DEF IInv, TypeOK
<1>10. \A x \in Writes : x[1] \in Requests
  BY DEF Writes
<1>11. \A x \in db \cup tx[s].writes \cup {w} : x \in Writes /\ pc'[x[1]] # "new"
  BY <1>2, <1>3, <1>8, <1>9, <1>10 DEF TxOK, Transactions
<1>12. ASSUME NEW x \in Slots
       PROVE  Session(tx'[x]) /\ \A y \in tx'[x].writes : pc'[y[1]] # "new"
  <2>1. CASE tx'[x] = tx[x]
    <3>1. Session(tx[x]) /\ \A y \in tx[x].writes : y \in Writes /\ pc[y[1]] # "new"
      BY DEF TxOK, Transactions
    <3> QED
      BY <1>8, <1>10, <2>1, <3>1
  <2>2. CASE tx'[x] = did.tx
    BY <1>5, <1>11, <2>2
  <2>3. CASE tx'[x] = NoTx
    BY <2>3, NoTxIsSession
  <2> QED
    BY <1>7, <2>1, <2>2, <2>3
<1>13. tx' \in [Slots -> Transactions]
  <2>1. DOMAIN tx' = Slots /\ tx' = [x \in Slots |-> tx'[x]]
    BY <1>6 DEF Disconnect, TxOK
  <2>2. \A x \in Slots : tx'[x] \in Transactions
    BY <1>12 DEF Session
  <2> QED
    BY <2>1, <2>2
<1>14. db' \in SUBSET Writes /\ \A x \in db' : pc'[x[1]] # "new"
  BY <1>5, <1>6, <1>11
<1>15. \A q \in gone' : pc'[q] # "new"
  BY <1>6 DEF TxOK
<1> QED
  BY <1>12, <1>13, <1>14, <1>15 DEF TxOK

LEMMA TxStep ==
  ASSUME IInv, TxOK, [Next]_vars
  PROVE  TxOK'
<1>1. ASSUME UNCHANGED <<pc, tx, db, gone>>
      PROVE  TxOK'
  BY <1>1 DEF TxOK
<1>2. ASSUME NEW r \in Requests, Start(r) \/ Discard(r) \/ Query(r) \/ Take(r) \/ Refused(r)
                \/ Interrupted(r) \/ Close(r) \/ Return(r) \/ Record(r)
      PROVE  TxOK'
  <2>1. Lessens /\ db' = db /\ gone' = gone
    BY <1>2, EndsLessen
    DEF Start, Discard, Query, Take, Refused, Interrupted, Close, Return,
        Record, slotVars
  <2>2. \A q \in Requests : pc[q] # "new" => pc'[q] # "new"
    BY <1>2
    DEF Start, Discard, Query, Take, Refused, Interrupted, Close, Return,
        Record, IInv, TypeOK
  <2> QED
    BY <2>1, <2>2, TxKept DEF IInv, TypeOK, TxOK
<1>3. ASSUME NEW r \in Requests, Cancel(r)
      PROVE  TxOK'
  BY <1>3 DEF Cancel, Active, TxOK, slotVars
<1>4. ASSUME Evict \/ Expire
      PROVE  TxOK'
  <2>1. /\ \E S : tx' = Disconnect(S, tx)
        /\ UNCHANGED <<db, pc, gone>>
    BY <1>4 DEF Evict, Expire
  <2>2. Lessens
    BY <2>1, EndsLessen
  <2> QED
    BY <2>1, <2>2, TxKept DEF TxOK
<1> QED
  BY <1>1, <1>2, <1>3, <1>4, ExecuteTx
  DEF Next, Handle, DeleteRow, Quiet, vars, slotVars

-----------------------------------------------------------------------------
(* The connection of a request that is alone, from one call to the next. *)
LEMMA HomeKept ==
  ASSUME NEW r \in Requests, NEW state, AtHome(r, state),
         UNCHANGED <<kind, db, tx, idle>>, held'[r] = held[r],
         Views(r, state.tx) \subseteq Views(r, state.tx)'
  PROVE  AtHome(r, state)'
<1> DEFINE V == Views(r, state.tx)
<1> HIDE DEF V
<1>1. PICK home \in Slots :
         /\ tx[home] \in V
         /\ \A s \in Slots \ {home} : tx[s] = NoTx
         /\ held[r] # <<>> => held[r] = <<home>>
         /\ held[r] = <<>> /\ idle # <<>> => home = Last(idle)
         /\ held[r] = <<>> /\ idle = <<>> => tx[home] = NoTx
  BY DEF AtHome, V
<1>2. tx'[home] \in V'
  BY <1>1 DEF V
<1> QED
  BY <1>1, <1>2 DEF AtHome, V

LEMMA ViewsCarried ==
  ASSUME NEW r \in Requests, NEW t
  PROVE  /\ Views(r, t) \subseteq {t, Carried(t)}
         /\ t = NoTx => Carried(t) = NoTx
         /\ kind # "postgres" => Carried(t) = t
         /\ kind = "postgres" => Carried(t) = NoTx
  BY DEF Views, Carried

(* The connection that a statement is given is in the transaction that is  *)
(* carried over to it.                                                     *)
LEMMA HomeTaken ==
  ASSUME IInv, TxOK, NEW r \in Requests, NEW state, AtHome(r, state), held[r] = <<>>,
         NEW s \in Slots, Acquire(r, s)
  PROVE  /\ held'[r] = <<s>> /\ <<s>> # <<>> /\ Len(idle') < MaxIdle
         /\ tx[s] = Carried(state.tx) /\ \A x \in Slots \ {s} : tx[x] = NoTx
<1>1. held'[r] = <<s>> /\ <<s>> # <<>>
  BY DEF Acquire, IInv, ConnsOK
<1>2. PICK home \in Slots :
         /\ tx[home] \in {state.tx, Carried(state.tx)}
         /\ \A x \in Slots \ {home} : tx[x] = NoTx
         /\ idle # <<>> => home = Last(idle)
         /\ idle = <<>> => tx[home] = NoTx
  BY ViewsCarried DEF AtHome
<1>3. CASE idle # <<>>
  <2>1. s = home /\ ~Unusable(s) /\ idle' = Front(idle)
    BY <1>2, <1>3 DEF Acquire
  <2>2. Len(idle') + 1 = Len(idle)
    BY <1>3, <2>1, TakeLast DEF IInv, ConnsOK
  <2>3. Len(idle') < MaxIdle
    BY <2>2, SlotsAssumption DEF IInv, ConnsOK
  <2>4. kind = "postgres" => tx[s] = NoTx
    BY <2>1 DEF Unusable, TxOK, Session
  <2>5. tx[s] = Carried(state.tx)
    BY <1>2, <2>1, <2>4, ViewsCarried
  <2> QED
    BY <1>1, <1>2, <2>1, <2>3, <2>5
<1>4. CASE idle = <<>>
  <2>1. \A x \in Slots : tx[x] = NoTx
    BY <1>2, <1>4
  <2>2. Carried(state.tx) = NoTx
    BY <1>2, <1>4, ViewsCarried
  <2>3. idle' = <<>> /\ Len(idle') < MaxIdle
    BY <1>4, SlotsAssumption DEF Acquire
  <2> QED
    BY <1>1, <2>1, <2>2, <2>3
<1> QED
  BY <1>3, <1>4

(* A connection in a transaction is not carried over. *)
LEMMA HomeDiscarded ==
  ASSUME IInv, TxOK, NEW r \in Requests, NEW state, AtHome(r, state), Discard(r),
         held[r] = <<>>
  PROVE  AtHome(r, state)'
<1> DEFINE s == Last(idle)
<1>1. /\ kind = "postgres" /\ idle # <<>> /\ Unusable(s)
      /\ tx' = Disconnect({s}, tx) /\ held' = held /\ held'[r] = <<>>
      /\ UNCHANGED <<kind, db, pc, job, at>>
      /\ pc[r] = "run" /\ More(r) /\ Op(r) # "close"
  BY DEF Discard, Asks, Unusable
<1>2. s \in Slots /\ \A x \in Slots \ {s} : tx[x] = NoTx
  BY <1>1 DEF AtHome
<1>3. \A x \in Slots : tx'[x] = NoTx
  BY <1>1, <1>2 DEF Disconnect
<1>4. NoTx \in Views(r, state.tx)'
  <2>1. pc'[r] = "run" /\ More(r)' /\ Op(r)' # "close"
    BY <1>1 DEF More, Op, Ops
  <2>2. Carried(state.tx)' = NoTx
    BY <1>1 DEF Carried
  <2> QED
    BY <2>1, <2>2 DEF Views
<1>5. PICK home \in Slots : idle' # <<>> => home = Last(idle')
  <2>1. idle' \in Seq(Slots)
    BY <1>1, TakeLast DEF Discard, IInv, ConnsOK
  <2>2. idle' # <<>> => Last(idle') \in Slots
    BY <2>1 DEF Last
  <2> QED
    BY <2>2, SlotsAssumption
<1>6. tx'[home] \in Views(r, state.tx)'
  BY <1>3, <1>4
<1> QED
  BY <1>1, <1>3, <1>5, <1>6 DEF AtHome

LEMMA HomeLeft ==
  ASSUME IInv, NEW r \in Requests, NEW s \in Slots, held[r] = <<s>>, driver = "open",
         NEW t, GiveBack(r, t), NEW state, t[s] = state.tx,
         \A x \in Slots \ {s} : t[x] = NoTx,
         Len(idle) < MaxIdle, state.tx \in Views(r, state.tx)',
         Here(r, db') = state.db, Session(state.tx), state.tx.by \in {r, NoRequest},
         \A w \in state.tx.writes : w[1] = r
  PROVE  AtHome(r, state)'
<1>1. Last(held[r]) = s /\ Front(held[r]) = <<>>
  BY OneSlot
<1>2. held'[r] = <<>> /\ idle' = Append(idle, s) /\ tx' = t
  BY <1>1 DEF GiveBack, IInv, ConnsOK
<1>3. idle' # <<>> /\ Last(idle') = s
  <2>1. idle \in Seq(Slots) /\ Len(idle) \in Nat
    BY DEF IInv, ConnsOK
  <2>2. Len(Append(idle, s)) = Len(idle) + 1 /\ Append(idle, s)[Len(idle) + 1] = s
    BY <2>1
  <2>3. Append(idle, s) # <<>> /\ Last(Append(idle, s)) = s
    BY <2>1, <2>2 DEF Last
  <2> QED
    BY <1>2, <2>3
<1>4. tx'[s] \in Views(r, state.tx)'
  BY <1>2
<1> QED
  BY <1>2, <1>3, <1>4 DEF AtHome

(* One more statement, here and in the run of its own. *)
LEMMA RunGoesOn ==
  ASSUME NEW r \in Requests, Serially(r), UNCHANGED kind, job'[r] = job[r],
         out[r] \in Seq(Results), NEW res \in Results, out'[r] = Append(out[r], res),
         \A state : AtHome(r, state) =>
           \A own : own = Perform(kind, job[r][Len(out[r]) + 1], <<r, Len(out[r]) + 1>>,
                                  Carried(state.tx), state.db) =>
                      own.result = res /\ AtHome(r, own)'
  PROVE  Serially(r)'
<1> DEFINE n == Len(out[r])
           After(i, state) == Perform(kind, job[r][i], <<r, i>>, Carried(state.tx), state.db)
<1>1. n \in Nat /\ Len(out'[r]) = n + 1
  OBVIOUS
<1>2. out'[r][n + 1] = res /\ \A i \in 1 .. n : out'[r][i] = out[r][i]
  OBVIOUS
<1>3. ASSUME NEW run
      PROVE  /\ Ran(r, run) <=>
                  run[0] = Fresh /\ \A i \in 1 .. n : run[i] = After(i, run[i - 1])
             /\ Ran(r, run)' <=>
                  run[0] = Fresh /\ \A i \in 1 .. n + 1 : run[i] = After(i, run[i - 1])
  <2>1. \A t : Carried(t)' = Carried(t)
    BY DEF Carried
  <2>2. Ran(r, run) <=>
          run[0] = Fresh /\ \A i \in 1 .. n : run[i] = After(i, run[i - 1])
    BY DEF Ran
  <2>3. Ran(r, run)' <=>
          run[0] = Fresh /\ \A i \in 1 .. n + 1 : run[i] = After(i, run[i - 1])
    BY <1>1, <2>1 DEF Ran
  <2> QED
    BY <2>2, <2>3
<1> HIDE DEF n, After
<1>4. \E run : Ran(r, run)'
  <2>1. PICK run : Ran(r, run)
    BY DEF Serially
  <2> DEFINE longer == [i \in 0 .. n + 1 |->
                          IF i = n + 1 THEN After(i, run[n]) ELSE run[i]]
  <2>2. longer[0] = Fresh
    BY <1>1, <1>3, <2>1
  <2>3. ASSUME NEW i \in 1 .. n + 1
        PROVE  longer[i] = After(i, longer[i - 1])
    <3>1. i \in 0 .. n + 1 /\ i - 1 \in 0 .. n + 1 /\ i - 1 # n + 1
      BY <1>1
    <3>2. CASE i = n + 1
      BY <1>1, <3>2
    <3>3. CASE i # n + 1
      <4>1. i \in 1 .. n
        BY <1>1, <3>3
      <4> QED
        BY <1>3, <2>1, <3>1, <3>3, <4>1
    <3> QED
      BY <3>2, <3>3
  <2> HIDE DEF longer
  <2> QED
    BY <1>3, <2>2, <2>3
<1>5. ASSUME NEW run, NEW state, Ran(r, run)', state = run[Len(out'[r])]
      PROVE  Answered(r, run)' /\ AtHome(r, state)'
  <2>1. 1 .. n \subseteq 1 .. n + 1 /\ n + 1 \in 1 .. n + 1 /\ n + 1 - 1 = n
    BY <1>1
  <2>2. Ran(r, run)
    BY <1>3, <1>5, <2>1
  <2>3. state = After(n + 1, run[n])
    <3>1. \A i \in 1 .. n + 1 : run[i] = After(i, run[i - 1])
      BY <1>3, <1>5
    <3>2. PICK i \in 1 .. n + 1 : i = n + 1
      BY <2>1
    <3>3. run[i] = After(i, run[i - 1])
      BY <3>1
    <3>4. i - 1 = n
      BY <1>1, <3>2
    <3> QED
      BY <1>1, <1>5, <3>3, <3>4
  <2>4. Answered(r, run) /\ AtHome(r, run[n])
    BY <2>2 DEF Serially, n
  <2>5. state.result = res /\ AtHome(r, state)'
    BY <2>3, <2>4 DEF n, After
  <2>6. \A i \in 1 .. n + 1 : out'[r][i] = run[i].result
    <3>1. \A i \in 1 .. n + 1 : i \in 1 .. n \/ i = n + 1
      BY <1>1
    <3> QED
      BY <1>5, <2>4, <2>5 DEF Answered, n
  <2> QED
    BY <1>1, <2>5, <2>6 DEF Answered
<1> QED
  BY <1>4, <1>5 DEF Serially

(* Nothing has been answered meanwhile. *)
LEMMA RunWaits ==
  ASSUME NEW r \in Requests, Serially(r), UNCHANGED kind, job'[r] = job[r],
         out'[r] = out[r], \A state : AtHome(r, state) => AtHome(r, state)'
  PROVE  Serially(r)'
<1>1. ASSUME NEW run
      PROVE  (Ran(r, run)' <=> Ran(r, run)) /\ (Answered(r, run)' <=> Answered(r, run))
  BY DEF Ran, Answered, Carried
<1> QED
  BY <1>1 DEF Serially

-----------------------------------------------------------------------------
(* The call of a script that is due belongs to its next statement. *)
LEMMA NextStatement ==
  ASSUME IInv, NEW r \in Requests, IsScript(r), Serving(r), at[r] % 2 = 1
  PROVE  /\ job[r][Len(out[r]) + 1] \in Statements
         /\ Op(r) = IF job[r][Len(out[r]) + 1] = "query" THEN "open"
                    ELSE job[r][Len(out[r]) + 1]
<1> DEFINE j == job[r]
           n == Len(out[r])
<1>1. j \in Scripts /\ j \in Seq(Statements) /\ Len(j) \in Nat
  BY ScriptsAssumption DEF IsScript
<1>2. out[r] \in Seq(Results) /\ n \in Nat /\ kind \in Kinds /\ j \in Jobs
  BY <1>1 DEF IInv, TypeOK, Jobs
<1>3. Ops(r) = RunStatements(j) /\ Len(RunStatements(j)) = 2 * Len(j)
  BY <1>1, <1>2, ScriptPaired DEF Ops, Programs
<1>4. at[r] = 2 * n + 1 /\ at[r] \in 1 .. 2 * Len(j)
  BY <1>3 DEF Serving
<1>5. n + 1 \in 1 .. Len(j) /\ (at[r] + 1) \div 2 = n + 1
  <2>1. ASSUME NEW m \in Nat, NEW l \in Nat, NEW a \in 1 .. 2 * l, a = 2 * m + 1
        PROVE  m + 1 \in 1 .. l /\ (a + 1) \div 2 = m + 1
    BY <2>1
  <2> QED
    BY <1>1, <1>2, <1>4, <2>1
<1>6. j[n + 1] \in Statements
  BY <1>1, <1>5
<1>7. Op(r) = ExecOne(j[(at[r] + 1) \div 2])[1]
  BY <1>3, <1>4 DEF Op, RunStatements
<1>8. Op(r) = ExecOne(j[n + 1])[1]
  BY <1>5, <1>7
<1> QED
  BY <1>6, <1>8 DEF ExecOne, Rows

LEMMA QueryAlone ==
  ASSUME SerialInv, NEW r \in Requests, Query(r), IsScript(r), Serially(r)
  PROVE  Serially(r)'
<1>1. IInv /\ TypeOK /\ ConnsOK /\ TxOK
  BY DEF SerialInv, IInv
<1>2. Serving(r) /\ at[r] % 2 = 1 /\ held[r] = <<>> /\ Op(r) = "open"
  <2>1. Serving(r)
    BY <1>1, IsServing DEF Query, Asks
  <2> QED
    BY <2>1 DEF Query, Asks, Serving
<1>3. job[r][Len(out[r]) + 1] = "query"
  <2>1. "open" \notin Statements
    BY DEF Statements
  <2> QED
    BY <1>1, <1>2, <2>1, NextStatement
<1>4. \A w, t, D : Perform(kind, "query", w, t, D) =
        [result |-> "ok", tx |-> t, db |-> D]
  BY DEF Perform
<1>5. out'[r] = Append(out[r], "ok") /\ "ok" \in Results /\ out[r] \in Seq(Results)
  BY <1>1 DEF TypeOK, Query, Report, Results
<1>6. PICK s \in Slots : Acquire(r, s)
  BY DEF Query
<1>7. UNCHANGED <<kind, job, db, tx>>
  BY DEF Query
<1>8. ASSUME NEW state, AtHome(r, state), NEW own,
             own = [result |-> "ok", tx |-> Carried(state.tx), db |-> state.db]
      PROVE  own.result = "ok" /\ AtHome(r, own)'
  <2>1. /\ held'[r] = <<s>> /\ <<s>> # <<>> /\ Len(idle') < MaxIdle
        /\ tx[s] = own.tx /\ \A x \in Slots \ {s} : tx[x] = NoTx
    BY <1>1, <1>2, <1>6, <1>8, HomeTaken
  <2>2. /\ own.tx \in {state.tx, NoTx} /\ own.db = state.db
    BY <1>8 DEF Carried
  <2>3. /\ Here(r, db) = own.db /\ Session(own.tx) /\ own.tx.by \in {r, NoRequest}
        /\ \A w \in own.tx.writes : w[1] = r
    BY <1>8, <2>2, NoTxIsSession DEF AtHome
  <2>4. own.tx \in Views(r, own.tx)'
    <3>1. pc'[r] = "run"
      BY DEF Query, Asks
    <3> QED
      BY <3>1 DEF Views
  <2>5. tx'[s] \in Views(r, own.tx)'
    BY <1>7, <2>1, <2>4
  <2> QED
    BY <1>7, <1>8, <2>1, <2>3, <2>5 DEF AtHome
<1>9. \A state : AtHome(r, state) =>
        \A own : own = Perform(kind, job[r][Len(out[r]) + 1], <<r, Len(out[r]) + 1>>,
                               Carried(state.tx), state.db) =>
                   own.result = "ok" /\ AtHome(r, own)'
  BY <1>3, <1>4, <1>8
<1> QED
  BY <1>5, <1>7, <1>9, RunGoesOn

LEMMA TakeAlone ==
  ASSUME SerialInv, NEW r \in Requests, Take(r), Serially(r)
  PROVE  Serially(r)'
<1>1. IInv /\ TxOK
  BY DEF SerialInv
<1>2. held[r] = <<>>
  <2>1. Serving(r)
    BY <1>1, IsServing DEF Take, Asks
  <2> QED
    BY <2>1 DEF Take, Asks, Serving
<1>3. PICK s \in Slots : Acquire(r, s)
  BY DEF Take
<1>4. UNCHANGED <<kind, job, out, db, tx>> /\ pc'[r] = "exec"
  BY <1>1 DEF Take, IInv, TypeOK
<1>5. ASSUME NEW state, AtHome(r, state)
      PROVE  AtHome(r, state)'
  <2>1. /\ held'[r] = <<s>> /\ <<s>> # <<>> /\ Len(idle') < MaxIdle
        /\ tx[s] = Carried(state.tx) /\ \A x \in Slots \ {s} : tx[x] = NoTx
    BY <1>1, <1>2, <1>3, <1>5, HomeTaken
  <2>2. Views(r, state.tx)' = {Carried(state.tx)}
    BY <1>4 DEF Views, Carried
  <2>3. tx'[s] \in Views(r, state.tx)'
    BY <1>4, <2>1, <2>2
  <2> QED
    BY <1>4, <1>5, <2>1, <2>3 DEF AtHome
<1> QED
  BY <1>4, <1>5, RunWaits

LEMMA DiscardAlone ==
  ASSUME SerialInv, NEW r \in Requests, Discard(r), Serially(r)
  PROVE  Serially(r)'
<1>1. IInv /\ TxOK
  BY DEF SerialInv
<1>2. held[r] = <<>>
  <2>1. Serving(r)
    BY <1>1, IsServing DEF Discard, Asks
  <2> QED
    BY <2>1 DEF Discard, Asks, Serving
<1>3. UNCHANGED <<kind, job, out>>
  BY DEF Discard
<1> QED
  BY <1>1, <1>2, <1>3, HomeDiscarded, RunWaits

LEMMA ExecuteAlone ==
  ASSUME SerialInv, NEW r \in Requests, Execute(r), IsScript(r), Serially(r),
         driver = "open"
  PROVE  Serially(r)'
<1> DEFINE op == job[r][Len(out[r]) + 1]
           w == <<r, Len(out[r]) + 1>>
<1>1. IInv /\ TypeOK /\ ConnsOK /\ TxOK
  BY DEF SerialInv, IInv
<1>2. Op(r) = op /\ op \in Statements /\ held[r] # <<>>
  <2>1. Serving(r) /\ pc[r] = "exec"
    BY <1>1, IsServing DEF Execute
  <2>2. at[r] % 2 = 1 /\ held[r] # <<>> /\ Op(r) # "open"
    BY <2>1 DEF Serving
  <2> QED
    BY <1>1, <2>1, <2>2, NextStatement
<1>3. PICK s \in Slots : held[r] = <<s>>
  BY <1>1, <1>2 DEF ConnsOK
<1>4. out[r] \in Seq(Results) /\ out \in [Requests -> Seq(Results)] /\ w \in Writes
  BY <1>1 DEF TypeOK, Writes
<1>5. PICK did : did = Perform(kind, op, w, tx[s], db)
  OBVIOUS
<1>6. did.result \in Results
  BY <1>2, <1>5, PerformAnswers
<1>7. /\ db' = did.db /\ GiveBack(r, [tx EXCEPT ![s] = did.tx]) /\ Report(r, did.result)
      /\ UNCHANGED <<kind, job>>
  BY <1>2, <1>3, <1>5, OneSlot DEF Execute
<1>8. out'[r] = Append(out[r], did.result)
  BY <1>4, <1>7 DEF Report
<1>9. ASSUME NEW state, AtHome(r, state), NEW own,
             own = Perform(kind, op, w, Carried(state.tx), state.db)
      PROVE  own.result = did.result /\ AtHome(r, own)'
  <2>1. PICK t0 : t0 = Carried(state.tx)
    OBVIOUS
  <2>2. /\ Here(r, db) = state.db /\ tx[s] = t0
        /\ \A x \in Slots \ {s} : tx[x] = NoTx
        /\ Session(t0) /\ t0.by \in {r, NoRequest}
        /\ \A x \in t0.writes : x[1] = r
        /\ Len(idle) < MaxIdle
    <3>1. Views(r, state.tx) = {t0}
      BY <2>1 DEF Execute, Views
    <3>2. t0 \in {state.tx, NoTx}
      BY <2>1 DEF Carried
    <3>3. /\ Session(t0) /\ t0.by \in {r, NoRequest}
          /\ \A x \in t0.writes : x[1] = r
      BY <1>9, <3>2, NoTxIsSession DEF AtHome
    <3> QED
      BY <1>2, <1>3, <1>9, <3>1, <3>3, OneSlot DEF AtHome
  <2>3. did.tx = own.tx /\ did.result = own.result /\ Here(r, did.db) = own.db
    BY <1>2, <1>5, <1>9, <2>1, <2>2, PerformLocal
  <2> HIDE DEF w
  <2>4. /\ Session(own.tx) /\ own.tx.by \in {NoRequest, w[1], t0.by}
        /\ own.tx.writes \subseteq t0.writes \cup {w}
    <3> HIDE DEF op
    <3>1. Session(t0) /\ w \in Writes /\ op \in Statements
      BY <1>2, <1>4, <2>2
    <3> QED
      BY <1>9, <2>1, <3>1, PerformTyped
  <2>5. own.tx.by \in {r, NoRequest} /\ \A x \in own.tx.writes : x[1] = r
    BY <2>2, <2>4 DEF w
  <2> DEFINE t == [tx EXCEPT ![s] = did.tx]
  <2>6. t[s] = own.tx /\ \A x \in Slots \ {s} : t[x] = NoTx
    BY <1>1, <2>2, <2>3 DEF TxOK
  <2>7. GiveBack(r, t) /\ Here(r, db') = own.db
    BY <1>7, <2>3
  <2> HIDE DEF t
  <2>8. own.tx \in Views(r, own.tx)'
    <3>1. pc'[r] = "run"
      BY <1>1 DEF Execute, TypeOK
    <3> QED
      BY <3>1 DEF Views
  <2>9. AtHome(r, own)'
    BY <1>1, <1>3, <2>2, <2>8, <2>4, <2>5, <2>6, <2>7, HomeLeft
  <2> QED
    BY <2>3, <2>9
<1> QED
  BY <1>4, <1>6, <1>7, <1>8, <1>9, RunGoesOn

LEMMA CloseAlone ==
  ASSUME SerialInv, NEW r \in Requests, Close(r), Serially(r),
         driver = "open", r \notin gone
  PROVE  Serially(r)'
<1>1. IInv /\ ConnsOK
  BY DEF SerialInv, IInv
<1>2. held[r] # <<>>
  <2>1. Serving(r)
    BY <1>1, IsServing DEF Close
  <2> QED
    BY <2>1 DEF Close, Serving
<1>3. PICK s \in Slots : held[r] = <<s>>
  BY <1>1, <1>2 DEF ConnsOK
<1>4. GiveBack(r, tx) /\ UNCHANGED <<kind, job, out, db>>
  BY DEF Close
<1>5. ASSUME NEW state, AtHome(r, state)
      PROVE  AtHome(r, state)'
  <2>1. Views(r, state.tx) = {state.tx}
    BY DEF Close, Views
  <2>2. /\ Here(r, db') = state.db /\ tx[s] = state.tx
        /\ \A x \in Slots \ {s} : tx[x] = NoTx
        /\ Session(state.tx) /\ state.tx.by \in {r, NoRequest}
        /\ \A x \in state.tx.writes : x[1] = r
        /\ Len(idle) < MaxIdle
    BY <1>2, <1>3, <1>4, <1>5, <2>1, OneSlot DEF AtHome
  <2>3. state.tx \in Views(r, state.tx)'
    <3>1. pc'[r] = "run"
      BY DEF Close
    <3> QED
      BY <3>1 DEF Views
  <2> QED
    BY <1>1, <1>3, <1>4, <2>2, <2>3, HomeLeft
<1> QED
  BY <1>4, <1>5, RunWaits

(* A request that arrives on a quiet driver begins as on a fresh session. *)
LEMMA StartAlone ==
  ASSUME SerialInv, NEW r \in Requests, Start(r), r \in alone'
  PROVE  AloneOK(r)'
<1>1. IInv /\ TypeOK /\ ConnsOK /\ TxOK /\ WhereOK(r) /\ ResultsOK(r)
  BY DEF SerialInv, IInv, RequestOK
<1>2. /\ pc[r] = "new" /\ driver = "open"
      /\ \A q \in Requests : ~Active(q)
      /\ \A s \in Slots : ~InTx(tx[s])
      /\ UNCHANGED <<driver, db, idle, tx, held, out, gone>>
      /\ pc' = [pc EXCEPT ![r] = "run"]
  BY DEF Start, slotVars
<1>3. \A s \in Slots : tx[s] = NoTx
  BY <1>1, <1>2 DEF TxOK, Session
<1>4. held[r] = <<>> /\ job[r] = <<>> /\ r \notin gone
  BY <1>1, <1>2 DEF WhereOK, TxOK
<1>5. out[r] = <<>>
  <2>1. ~IsScript(r)
    BY <1>4, ScriptsAssumption DEF IsScript
  <2> QED
    BY <1>1, <2>1 DEF ResultsOK
<1>6. Here(r, db) = {}
  BY <1>1, <1>2 DEF Here, TxOK
<1>7. ASSUME NEW state, state = Fresh
      PROVE  AtHome(r, state)'
  <2>1. state.tx = NoTx /\ state.db = {}
    BY <1>7 DEF Fresh
  <2>2. PICK home \in Slots : idle # <<>> => home = Last(idle)
    BY <1>1, TakeLast, SlotsAssumption DEF ConnsOK
  <2>3. NoTx \in Views(r, NoTx)'
    <3>1. pc'[r] = "run"
      BY <1>1, <1>2 DEF TypeOK
    <3> QED
      BY <3>1 DEF Views
  <2>4. tx'[home] \in Views(r, state.tx)'
    BY <1>2, <1>3, <2>1, <2>3
  <2> QED
    BY <1>2, <1>3, <1>4, <1>6, <2>1, <2>2, <2>4, NoTxIsSession DEF AtHome
<1>8. ASSUME NEW run
      PROVE  (Ran(r, run)' <=> run[0] = Fresh) /\ Answered(r, run)'
  BY <1>2, <1>5 DEF Ran, Answered
<1>9. Serially(r)'
  <2>1. \E run : run[0] = Fresh
    <3> DEFINE run == [i \in {0} |-> Fresh]
    <3>1. run[0] = Fresh
      OBVIOUS
    <3> QED
      BY <3>1
  <2>2. Len(out'[r]) = 0
    BY <1>2, <1>5
  <2> QED
    BY <1>7, <1>8, <2>1, <2>2 DEF Serially
<1>10. ASSUME NEW q \in Requests \ {r}
       PROVE  ~Active(q)'
  BY <1>2 DEF Active
<1> QED
  BY <1>2, <1>4, <1>9, <1>10 DEF AloneOK

(* Whoever takes a step while r is alone is r. *)
LEMMA HandleAlone ==
  ASSUME SerialInv, NEW q \in Requests, Handle(q), NEW r \in alone
  PROVE  AloneOK(r)'
<1>1. r \in Requests /\ AloneOK(r) /\ IInv /\ TypeOK
  BY DEF SerialInv, IInv
<1>2. Active(q)
  BY DEF Handle, Active, Asks, Discard, Query, Take, Refused, Execute, Interrupted, Close,
         Return, Record
<1>3. q = r
  BY <1>1, <1>2 DEF AloneOK
<1>4. /\ UNCHANGED <<kind, driver, gone, job>>
      /\ \A p \in Requests \ {r} : pc'[p] = pc[p]
  BY <1>1, <1>3
  DEF Handle, Discard, Query, Take, Refused, Execute, Interrupted, Close, Return,
      Record, TypeOK
<1>5. ASSUME IsScript(r)
      PROVE  Serially(r)'
  <2>1. Serially(r) /\ driver = "open" /\ r \notin gone
    BY <1>1, <1>5 DEF AloneOK
  <2>2. ~Refused(r) /\ ~Interrupted(r) /\ ~Return(r)
    BY <1>5, <2>1 DEF Refused, Interrupted, Return
  <2>3. CASE Record(r)
    <3>1. UNCHANGED <<kind, job, at, out, db, tx, idle, held>>
      BY <2>3 DEF Record, slotVars
    <3>2. \A t : Views(r, t) = {t} /\ Views(r, t)' = {t}
      <4>1. pc[r] = "run" /\ ~More(r) /\ ~More(r)' /\ pc'[r] # "exec"
        BY <1>1, <2>3, <3>1 DEF Record, More, Ops, TypeOK
      <4> QED
        BY <4>1 DEF Views
    <3>3. \A state : AtHome(r, state) => AtHome(r, state)'
      BY <1>1, <3>1, <3>2, HomeKept
    <3> QED
      BY <1>1, <2>1, <3>1, <3>3, RunWaits
  <2> QED
    BY <1>3, <1>5, <2>1, <2>2, <2>3, DiscardAlone, QueryAlone, TakeAlone, ExecuteAlone,
       CloseAlone
    DEF Handle
<1>6. IsScript(r)' <=> IsScript(r)
  BY <1>4 DEF IsScript
<1>7. ASSUME NEW p \in Requests \ {r}
      PROVE  ~Active(p)'
  BY <1>1, <1>4 DEF AloneOK, Active
<1> QED
  BY <1>1, <1>4, <1>5, <1>6, <1>7 DEF AloneOK

LEMMA SerialInductive == SerialInv /\ [Next]_vars => SerialInv'
<1> SUFFICES ASSUME SerialInv, [Next]_vars PROVE SerialInv'
  OBVIOUS
<1>1. IInv' /\ TxOK'
  BY Inductive, TxStep DEF SerialInv
<1>2. ASSUME UNCHANGED <<kind, driver, db, idle, tx, pc, job, at, held, out, gone, alone>>
      PROVE  alone' \subseteq Requests /\ \A r \in alone' : AloneOK(r)'
  <2>1. ASSUME NEW r \in alone'
        PROVE  AloneOK(r)'
    <3>1. AloneOK(r) /\ r \in Requests
      BY <1>2 DEF SerialInv
    <3>2. Serially(r) => Serially(r)'
      <4>1. \A t : Views(r, t)' = Views(r, t)
        BY <1>2 DEF Views, Carried, More, Op, Ops
      <4>2. \A state : AtHome(r, state) => AtHome(r, state)'
        BY <1>2, <3>1, <4>1, HomeKept
      <4> QED
        BY <1>2, <3>1, <4>2, RunWaits
    <3> QED
      BY <1>2, <3>1, <3>2 DEF AloneOK, IsScript, Active
  <2> QED
    BY <1>2, <2>1 DEF SerialInv
<1>3. ASSUME NEW r \in Requests, Start(r)
      PROVE  alone' \subseteq Requests /\ \A q \in alone' : AloneOK(q)'
  <2>1. alone' \subseteq {r}
    BY <1>3 DEF Start
  <2> QED
    BY <1>3, <2>1, StartAlone
<1>4. ASSUME NEW r \in Requests, Handle(r)
      PROVE  alone' \subseteq Requests /\ \A q \in alone' : AloneOK(q)'
  <2>1. alone' = alone
    BY <1>4
    DEF Handle, Discard, Query, Take, Refused, Execute, Interrupted, Close, Return,
        Record
  <2> QED
    BY <1>4, <2>1, HandleAlone DEF SerialInv
<1>5. ASSUME NEW r \in Requests, Cancel(r)
      PROVE  alone' \subseteq Requests /\ \A q \in alone' : AloneOK(q)'
  <2>1. /\ Active(r) /\ alone' = alone \ {r} /\ gone' = gone \cup {r}
    BY <1>5 DEF Cancel
  <2>2. ASSUME NEW q \in alone'
        PROVE  FALSE
    BY <2>1 DEF SerialInv, AloneOK
  <2> QED
    BY <2>2
<1>6. ASSUME Evict \/ Expire
      PROVE  alone' = {}
  BY <1>6 DEF Evict, Expire
<1>7. alone' \subseteq Requests /\ \A q \in alone' : AloneOK(q)'
  BY <1>2, <1>3, <1>4, <1>5, <1>6 DEF Next, DeleteRow, Quiet, vars, slotVars
<1> QED
  BY <1>1, <1>7 DEF SerialInv

LEMMA InitSerial == Init => SerialInv
<1> SUFFICES ASSUME Init PROVE SerialInv
  OBVIOUS
<1>1. TxOK
  BY NoTxIsSession DEF Init, TxOK, Session
<1> QED
  BY <1>1, InitIInv DEF Init, SerialInv

(* A script that nothing interfered with is answered, has done and has     *)
(* left open what its statements do one after the other: execOne takes a   *)
(* connection per statement, and the pool hands out the same one again, or *)
(* one that is in no transaction where pgx refuses it.                     *)
THEOREM UndisturbedRunsAreSerial == Spec => []UndisturbedIsSerial
<1>1. ASSUME SerialInv, NEW r \in alone, pc[r] = "done", IsScript(r)
      PROVE  /\ out[r] = [i \in DOMAIN job[r] |-> Serial(r)[i].result]
             /\ {w \in db : w[1] = r} = Serial(r)[Len(job[r])].db
             /\ {tx[s] : s \in {x \in Slots : tx[x].by = r}}
                  = {Serial(r)[Len(job[r])].tx} \ {NoTx}
  <2> DEFINE l == Len(job[r])
             Step(f) == [i \in 0 .. l |->
                           IF i = 0 THEN Fresh
                           ELSE Perform(kind, job[r][i], <<r, i>>,
                                        Carried(f[i - 1].tx), f[i - 1].db)]
  <2>1. r \in Requests /\ AloneOK(r) /\ IInv /\ TypeOK /\ ResultsOK(r) /\ TxOK
    BY <1>1 DEF SerialInv, IInv, RequestOK
  <2>2. Serially(r) /\ Len(out[r]) = l /\ l \in Nat
    BY <1>1, <2>1 DEF AloneOK, ResultsOK
  <2>3. PICK run : Ran(r, run)
    BY <2>2 DEF Serially
  <2>4. Serial(r) = CHOOSE f : f = Step(f)
    BY DEF Serial
  <2>5. \E f : f = Step(f)
    <3> DEFINE f == [i \in 0 .. l |-> run[i]]
    <3>1. ASSUME NEW i \in 0 .. l
          PROVE  f[i] = Step(f)[i]
      <4>1. CASE i = 0
        BY <2>3, <4>1 DEF Ran
      <4>2. CASE i # 0
        <5>1. i \in 1 .. l /\ i - 1 \in 0 .. l
          BY <4>2
        <5> QED
          BY <2>2, <2>3 DEF Ran
      <4> QED
        BY <4>1, <4>2
    <3>2. f = Step(f)
      BY <3>1
    <3> HIDE DEF f
    <3> QED
      BY <3>2
  <2>6. PICK f : f = Serial(r) /\ f = Step(f)
    BY <2>4, <2>5
  <2>7. Ran(r, f)
    <3>1. f[0] = Fresh
      BY <2>6
    <3>2. ASSUME NEW i \in 1 .. l
          PROVE  f[i] = Perform(kind, job[r][i], <<r, i>>, Carried(f[i - 1].tx), f[i - 1].db)
      <4>1. i \in 0 .. l /\ i # 0
        OBVIOUS
      <4>2. f[i] = Step(f)[i]
        BY <2>6
      <4> QED
        BY <4>2
    <3> QED
      BY <2>2, <3>1, <3>2 DEF Ran
  <2>8. Answered(r, f) /\ AtHome(r, f[l])
    BY <2>2, <2>7 DEF Serially
  <2>9. out[r] = [i \in DOMAIN job[r] |-> f[i].result]
    <3>1. job[r] \in Seq(Statements) /\ out[r] \in Seq(Results)
      BY <1>1, <2>1, ScriptsAssumption DEF IsScript, TypeOK
    <3>2. DOMAIN job[r] = 1 .. l /\ out[r] = [i \in 1 .. l |-> out[r][i]]
      BY <2>2, <3>1
    <3> QED
      BY <2>2, <2>8, <3>2 DEF Answered
  <2>10. PICK end : end = f[l]
    OBVIOUS
  <2>11. AtHome(r, end)
    BY <2>8, <2>10
  <2>12. PICK home \in Slots : tx[home] = end.tx /\ \A s \in Slots \ {home} : tx[s] = NoTx
    <3>1. Views(r, end.tx) = {end.tx}
      BY <1>1 DEF Views
    <3> QED
      BY <2>11, <3>1 DEF AtHome
  <2>13. {tx[s] : s \in {x \in Slots : tx[x].by = r}} = {end.tx} \ {NoTx}
    <3>1. r # NoRequest
      BY <2>1, NAssumption
    <3>2. end.tx = NoTx \/ (end.tx.by = r /\ end.tx # NoTx)
      BY <2>11 DEF AtHome, Session, InTx
    <3> QED
      BY <2>12, <3>1, <3>2, NoTxIsSession
  <2>14. {w \in db : w[1] = r} = end.db
    BY <2>11 DEF AtHome, Here
  <2> QED
    BY <2>6, <2>9, <2>10, <2>13, <2>14
<1>2. SerialInv => UndisturbedIsSerial
  BY <1>1 DEF UndisturbedIsSerial
<1> QED
  BY <1>2, InitSerial, SerialInductive, PTL DEF Spec
=============================================================================
