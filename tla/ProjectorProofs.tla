-------------------------- MODULE ProjectorProofs ---------------------------
(***************************************************************************)
(* What holds of the event log, of the journal's pages and of the asked    *)
(* index for every deployment, number of appenders, message table and      *)
(* bound.                                                                  *)
(***************************************************************************)
EXTENDS Projector, NaturalsLemmas, FiniteSetTheorems, SequenceTheorems

-----------------------------------------------------------------------------
(* Counting. *)

\* A set of positions gains at most one with each position looked at.
LEMMA CountStep ==
  ASSUME NEW S, NEW n \in Nat
  PROVE  /\ IsFiniteSet({q \in 1..n : q \in S}) /\ Cardinality({q \in 1..n : q \in S}) \in Nat
         /\ Cardinality({q \in 1..(n + 1) : q \in S}) =
              Cardinality({q \in 1..n : q \in S}) + (IF n + 1 \in S THEN 1 ELSE 0)
  <1> DEFINE A == {q \in 1..n : q \in S}
             B == {q \in 1..(n + 1) : q \in S}
  <1>1. IsFiniteSet(1..n)
    BY FS_Interval
  <1>2. IsFiniteSet(A) /\ Cardinality(A) \in Nat
    BY <1>1, FS_Subset, FS_CardinalityType
  <1>3. B = IF n + 1 \in S THEN A \cup {n + 1} ELSE A
    OBVIOUS
  <1>4. n + 1 \notin A
    OBVIOUS
  <1> HIDE DEF A, B
  <1>5. Cardinality(A \cup {n + 1}) = Cardinality(A) + 1
    BY <1>2, <1>4, FS_AddElement
  <1> QED BY <1>2, <1>3, <1>5 DEF A, B

LEMMA SequenceOf ==
  ASSUME NEW T, NEW n \in Nat, NEW f, f = [i \in 1..n |-> f[i]], \A i \in 1..n : f[i] \in T
  PROVE  f \in Seq(T) /\ Len(f) = n
  <1>1. f \in [1..n -> T]
    OBVIOUS
  <1>2. f \in Seq(T)
    BY <1>1, SeqDef
  <1>3. Len(f) \in Nat /\ DOMAIN f = 1..Len(f) /\ DOMAIN f = 1..n
    BY <1>1, <1>2
  <1> QED BY <1>2, <1>3

-----------------------------------------------------------------------------
(* Stream positions. *)

LogRecords == [msg : Msgs, at : Nat]

\* The positions among the first n that hold a record of the run.
Of(s, r, n) == {q \in 1..n : Msg[s[q].msg].run = r}
HowMany(s, r, n) == Cardinality(Of(s, r, n))

\* Each record is numbered by how many of its run the log holds up to it.
Numbered(s) == \A p \in 1..Len(s) : s[p].at = HowMany(s, Msg[s[p].msg].run, p)

LEMMA HowManyStep ==
  ASSUME NEW s, NEW r, NEW n \in Nat
  PROVE  /\ IsFiniteSet(Of(s, r, n)) /\ HowMany(s, r, n) \in Nat
         /\ HowMany(s, r, n + 1) = HowMany(s, r, n) + (IF Msg[s[n + 1].msg].run = r THEN 1 ELSE 0)
  <1> DEFINE S == {q \in Nat : Msg[s[q].msg].run = r}
  <1>1. /\ Of(s, r, n) = {q \in 1..n : q \in S}
        /\ Of(s, r, n + 1) = {q \in 1..(n + 1) : q \in S}
        /\ n + 1 \in S <=> Msg[s[n + 1].msg].run = r
    BY DEF Of
  <1> HIDE DEF S
  <1>2. /\ IsFiniteSet({q \in 1..n : q \in S}) /\ Cardinality({q \in 1..n : q \in S}) \in Nat
        /\ Cardinality({q \in 1..(n + 1) : q \in S}) =
             Cardinality({q \in 1..n : q \in S}) + (IF n + 1 \in S THEN 1 ELSE 0)
    BY CountStep
  <1> QED BY <1>1, <1>2 DEF HowMany

LEMMA HowManyGrows ==
  ASSUME NEW s, NEW r, NEW n \in Nat, NEW m \in Nat, n <= m
  PROVE  HowMany(s, r, n) <= HowMany(s, r, m)
  <1>1. Of(s, r, n) \in SUBSET Of(s, r, m)
    BY DEF Of
  <1>2. IsFiniteSet(Of(s, r, m))
    BY HowManyStep
  <1> QED BY <1>1, <1>2, FS_Subset DEF HowMany

\* The last stream position of a run is how many records of it there are.
LEMMA LastIsHowMany ==
  ASSUME NEW s \in Seq(LogRecords), Numbered(s), NEW r
  PROVE  LastStreamPosition(s, r) = HowMany(s, r, Len(s))
  <1> DEFINE of == {p \in DOMAIN s : Msg[s[p].msg].run = r}
  <1>1. of = Of(s, r, Len(s)) /\ Len(s) \in Nat
    BY DEF Of
  <1>2. CASE of = {}
    BY <1>1, <1>2, FS_EmptySet DEF LastStreamPosition, HowMany
  <1>3. CASE of # {}
    <2>1. of \in SUBSET Nat /\ \A y \in of : y <= Len(s)
      BY <1>1 DEF Of
    <2>2. \E p \in of : \A q \in of : q <= p
      <3> HIDE DEF of
      <3> QED BY <1>1, <1>3, <2>1, MaxOfBounded
    <2> DEFINE p == CHOOSE p \in of : \A q \in of : q <= p
    <2>3. p \in of /\ \A q \in of : q <= p
      BY <2>2
    <2>4. LastStreamPosition(s, r) = s[p].at
      BY <1>3 DEF LastStreamPosition
    <2> HIDE DEF p
    <2>5. p \in 1..Len(s) /\ Msg[s[p].msg].run = r
      BY <1>1, <2>3 DEF Of
    <2>6. s[p].at = HowMany(s, r, p)
      BY <2>5 DEF Numbered
    <2>7. Of(s, r, p) = Of(s, r, Len(s))
      BY <1>1, <2>1, <2>3, <2>5 DEF Of
    <2> QED BY <2>4, <2>6, <2>7 DEF HowMany
  <1> QED BY <1>2, <1>3

\* How many of a batch's first k events are of a run.
Sent(b, r, k) == Cardinality({j \in 1..k : Msg[b[j]].run = r})

\* Records numbered on from the counts of a log keep it numbered.
LEMMA NumberedOn ==
  ASSUME NEW s \in Seq(LogRecords), Numbered(s), NEW t \in Seq(LogRecords),
         NEW b, \A i \in 1..Len(t) :
           /\ t[i].msg = b[i]
           /\ t[i].at = HowMany(s, Msg[b[i]].run, Len(s)) + Sent(b, Msg[b[i]].run, i)
  PROVE  /\ s \o t \in Seq(LogRecords) /\ Numbered(s \o t)
         /\ \A r : HowMany(s \o t, r, Len(s \o t))
                     = HowMany(s, r, Len(s)) + Sent(b, r, Len(t))
  <1> DEFINE u == s \o t
  <1>1. /\ u \in Seq(LogRecords) /\ Len(u) = Len(s) + Len(t) /\ Len(s) \in Nat /\ Len(t) \in Nat
        /\ \A p \in 1..Len(s) : u[p] = s[p]
        /\ \A i \in 1..Len(t) : u[Len(s) + i] = t[i]
    BY SMTT(30)
  <1> HIDE DEF u
  <1>2. ASSUME NEW r, NEW n \in 0..Len(s) PROVE Of(u, r, n) = Of(s, r, n)
    <2>1. \A q \in 1..n : u[q] = s[q]
      BY <1>1
    <2> QED BY <2>1 DEF Of
  <1>2b. ASSUME NEW r, NEW n \in Nat
         PROVE  HowMany(u, r, n + 1) =
                  HowMany(u, r, n) + (IF Msg[u[n + 1].msg].run = r THEN 1 ELSE 0)
    BY HowManyStep, SMTT(30)
  <1> DEFINE In(r, i) == {j \in 1..i : Msg[b[j]].run = r}
  <1>3. ASSUME NEW r, NEW i \in 0..Len(t)
        PROVE  HowMany(u, r, Len(s) + i) = HowMany(s, r, Len(s)) + Cardinality(In(r, i))
    <2> DEFINE P == {k \in Nat : k <= Len(t) =>
                       HowMany(u, r, Len(s) + k) = HowMany(s, r, Len(s)) + Cardinality(In(r, k))}
    <2>1. 0 \in P
      <3>1. In(r, 0) = {} /\ Len(s) + 0 = Len(s) /\ Len(s) \in 0..Len(s)
        BY <1>1
      <3>2. HowMany(s, r, Len(s)) \in Nat
        BY <1>1, HowManyStep
      <3>3. Of(u, r, Len(s)) = Of(s, r, Len(s))
        BY <1>2, <3>1
      <3>4. HowMany(u, r, Len(s) + 0) = HowMany(s, r, Len(s)) + Cardinality(In(r, 0))
        BY <3>1, <3>2, <3>3, FS_EmptySet DEF HowMany
      <3> QED BY <3>4
    <2>2. ASSUME NEW k \in Nat, k \in P PROVE k + 1 \in P
      <3> SUFFICES ASSUME k + 1 <= Len(t)
                   PROVE  HowMany(u, r, Len(s) + (k + 1))
                            = HowMany(s, r, Len(s)) + Cardinality(In(r, k + 1))
        <4> HIDE DEF In
        <4> QED OBVIOUS
      <3> DEFINE S == {j \in Nat : Msg[b[j]].run = r}
      <3>1. /\ k + 1 \in 1..Len(t) /\ Len(s) + k \in Nat
            /\ Len(s) + (k + 1) = (Len(s) + k) + 1
        BY <1>1
      <3>2. Msg[u[Len(s) + (k + 1)].msg].run = Msg[b[k + 1]].run
        BY <1>1, <3>1
      <3>3. In(r, k) = {j \in 1..k : j \in S} /\ In(r, k + 1) = {j \in 1..(k + 1) : j \in S}
        OBVIOUS
      <3>4. k + 1 \in S <=> Msg[b[k + 1]].run = r
        OBVIOUS
      <3> HIDE DEF S, In
      <3>5. /\ Cardinality(In(r, k + 1)) = Cardinality(In(r, k)) + (IF k + 1 \in S THEN 1 ELSE 0)
            /\ Cardinality(In(r, k)) \in Nat
        BY <3>3, CountStep
      <3>6. HowMany(u, r, (Len(s) + k) + 1) =
              HowMany(u, r, Len(s) + k)
                + (IF Msg[u[(Len(s) + k) + 1].msg].run = r THEN 1 ELSE 0)
        BY <1>2b, <3>1
      <3>7. HowMany(u, r, Len(s) + k) = HowMany(s, r, Len(s)) + Cardinality(In(r, k))
        BY <2>2, <3>1, <1>1
      <3>8. HowMany(s, r, Len(s)) \in Nat
        BY <1>1, HowManyStep
      <3> QED BY <3>1, <3>2, <3>4, <3>5, <3>6, <3>7, <3>8
    <2>3. P \in SUBSET Nat
      OBVIOUS
    <2> HIDE DEF P
    <2>4. P = Nat
      BY <2>1, <2>2, <2>3, SetInduction
    <2>5. i \in P /\ i <= Len(t)
      BY <1>1, <2>4
    <2> HIDE DEF In
    <2> QED BY <2>5 DEF P
  <1>4. ASSUME NEW p \in 1..Len(u) PROVE u[p].at = HowMany(u, Msg[u[p].msg].run, p)
    <2>1. CASE p \in 1..Len(s)
      <3>1. u[p] = s[p] /\ p \in 0..Len(s)
        BY <1>1, <2>1
      <3>2. s[p].at = HowMany(s, Msg[s[p].msg].run, p)
        BY <2>1 DEF Numbered
      <3> QED BY <1>2, <3>1, <3>2 DEF HowMany
    <2>2. CASE p \notin 1..Len(s)
      <3> DEFINE i == p - Len(s)
      <3>1. i \in 1..Len(t) /\ i \in 0..Len(t) /\ p = Len(s) + i
        BY <1>1, <2>2
      <3> HIDE DEF i
      <3>2. u[p] = t[i] /\ Msg[u[p].msg].run = Msg[b[i]].run
        BY <1>1, <3>1
      <3>3. t[i].at = HowMany(s, Msg[b[i]].run, Len(s)) + Cardinality(In(Msg[b[i]].run, i))
        BY <3>1 DEF Sent
      <3> HIDE DEF In
      <3>4. HowMany(u, Msg[b[i]].run, Len(s) + i)
              = HowMany(s, Msg[b[i]].run, Len(s)) + Cardinality(In(Msg[b[i]].run, i))
        BY <1>3, <3>1
      <3> QED BY <3>1, <3>2, <3>3, <3>4
    <2> QED BY <2>1, <2>2
  <1>5. ASSUME NEW r
        PROVE  HowMany(u, r, Len(u)) = HowMany(s, r, Len(s)) + Sent(b, r, Len(t))
    <2>1. Len(t) \in 0..Len(t) /\ Len(u) = Len(s) + Len(t)
      BY <1>1
    <2>2. Sent(b, r, Len(t)) = Cardinality(In(r, Len(t)))
      BY DEF Sent
    <2> HIDE DEF In
    <2> QED BY <1>3, <2>1, <2>2
  <1> QED BY <1>1, <1>4, <1>5 DEF Numbered, u

LEMMA RecordTyped ==
  ASSUME NEW s \in Seq(LogRecords), NEW p \in 1..Len(s)
  PROVE  s[p].msg \in Msgs /\ s[p].at \in Nat
  <1>1. s[p] \in LogRecords
    OBVIOUS
  <1>2. \A x \in LogRecords : x.msg \in Msgs /\ x.at \in Nat
    BY DEF LogRecords
  <1> QED BY <1>1, <1>2

LEMMA SentGrows ==
  ASSUME NEW b, NEW r, NEW i \in Nat, NEW j \in Nat, i <= j
  PROVE  /\ Sent(b, r, i) \in Nat /\ Sent(b, r, j) \in Nat /\ Sent(b, r, i) <= Sent(b, r, j)
         /\ i < j /\ Msg[b[j]].run = r => Sent(b, r, i) < Sent(b, r, j)
  <1> DEFINE In(k) == {q \in 1..k : Msg[b[q]].run = r}
  <1>1. In(i) \in SUBSET In(j) /\ In(i) \in SUBSET (1..i) /\ In(j) \in SUBSET (1..j)
    OBVIOUS
  <1>2. IsFiniteSet(1..i) /\ IsFiniteSet(1..j)
    BY FS_Interval
  <1>3. i < j /\ Msg[b[j]].run = r => j \notin In(i) /\ In(i) \cup {j} \in SUBSET In(j)
    OBVIOUS
  <1>4. Sent(b, r, i) = Cardinality(In(i)) /\ Sent(b, r, j) = Cardinality(In(j))
    BY DEF Sent
  <1> HIDE DEF In
  <1>5. IsFiniteSet(In(i)) /\ IsFiniteSet(In(j))
    BY <1>1, <1>2, FS_Subset
  <1>6. /\ Cardinality(In(i)) \in Nat /\ Cardinality(In(j)) \in Nat
        /\ Cardinality(In(i)) <= Cardinality(In(j))
    BY <1>1, <1>5, FS_Subset, FS_CardinalityType
  <1>7. ASSUME i < j, Msg[b[j]].run = r PROVE Cardinality(In(i)) < Cardinality(In(j))
    <2>1. Cardinality(In(i) \cup {j}) = Cardinality(In(i)) + 1
      BY <1>3, <1>5, <1>7, FS_AddElement
    <2>2. Cardinality(In(i) \cup {j}) <= Cardinality(In(j))
      BY <1>3, <1>5, <1>7, FS_Subset
    <2> QED BY <1>6, <2>1, <2>2
  <1> QED BY <1>4, <1>6, <1>7

LEMMA AdvancedBySent ==
  ASSUME NEW batch, NEW k \in Nat, NEW r \in Runs, streamPositions[r] \in Nat
  PROVE  /\ Advanced(batch, k)[r] = streamPositions[r] + Sent(batch, r, k)
         /\ Sent(batch, r, k) \in Nat /\ streamPositions[r] \in Nat
         /\ Advanced(batch, k)[r] \in Nat
  <1>1. k <= k
    OBVIOUS
  <1>2. Sent(batch, r, k) \in Nat
    BY <1>1, SentGrows
  <1>3. Advanced(batch, k)[r] = streamPositions[r] + Sent(batch, r, k)
    BY DEF Advanced, Sent
  <1> QED BY <1>2, <1>3

\* A run's records have rising numbers in the order of the log.
Rising(s) ==
  /\ \A p \in 1..Len(s) : s[p].at > 0
  /\ \A p, q \in 1..Len(s) :
       p < q /\ Msg[s[p].msg].run = Msg[s[q].msg].run => s[p].at < s[q].at

\* Every record is numbered by a position at most its run's.
Within(s, at) ==
  \A r \in Runs : at[r] \in Nat /\ \A p \in 1..Len(s) : Msg[s[p].msg].run = r => s[p].at <= at[r]

\* The last position of a run is one no record of it is past.
LEMMA LastIsHighest ==
  ASSUME NEW s \in Seq(LogRecords), Rising(s), NEW r
  PROVE  /\ LastStreamPosition(s, r) \in Nat
         /\ \A p \in 1..Len(s) : Msg[s[p].msg].run = r => s[p].at <= LastStreamPosition(s, r)
  <1> DEFINE of == {p \in DOMAIN s : Msg[s[p].msg].run = r}
  <1>1. of \in SUBSET Nat /\ (\A y \in of : y <= Len(s)) /\ Len(s) \in Nat
        /\ of = {p \in 1..Len(s) : Msg[s[p].msg].run = r}
    OBVIOUS
  <1>2. CASE of = {}
    BY <1>1, <1>2 DEF LastStreamPosition
  <1>3. CASE of # {}
    <2>2. \E p \in of : \A q \in of : q <= p
      <3> HIDE DEF of
      <3> QED BY <1>1, <1>3, MaxOfBounded
    <2> DEFINE last == CHOOSE p \in of : \A q \in of : q <= p
    <2>3. last \in of /\ \A q \in of : q <= last
      BY <2>2
    <2>4. LastStreamPosition(s, r) = s[last].at
      BY <1>3 DEF LastStreamPosition
    <2> HIDE DEF last
    <2>5. last \in 1..Len(s) /\ Msg[s[last].msg].run = r
      BY <1>1, <2>3
    <2>6. \A p \in 1..Len(s) : s[p].at \in Nat
      BY RecordTyped
    <2>7. ASSUME NEW p \in 1..Len(s), Msg[s[p].msg].run = r PROVE s[p].at <= s[last].at
      <3>1. p <= last
        BY <1>1, <2>3, <2>7
      <3>2. p = last \/ p < last
        BY <2>5, <3>1
      <3>3. p < last => s[p].at < s[last].at
        BY <2>5, <2>7 DEF Rising
      <3> QED BY <2>5, <2>6, <3>2, <3>3
    <2> QED BY <2>4, <2>5, <2>6, <2>7
  <1> QED BY <1>2, <1>3

\* Records numbered on from positions no record is past keep the numbers rising.
LEMMA RisingOn ==
  ASSUME NEW s \in Seq(LogRecords), Rising(s), NEW t \in Seq(LogRecords), NEW at, Within(s, at),
         NEW b, \A i \in 1..Len(t) :
           /\ t[i].msg = b[i] /\ Msg[b[i]].run \in Runs
           /\ t[i].at = at[Msg[b[i]].run] + Sent(b, Msg[b[i]].run, i)
  PROVE  /\ s \o t \in Seq(LogRecords) /\ Rising(s \o t)
         /\ \A after : (\A r \in Runs : after[r] = at[r] + Sent(b, r, Len(t))) => Within(s \o t, after)
  <1> DEFINE u == s \o t
  <1>1. /\ u \in Seq(LogRecords) /\ Len(u) = Len(s) + Len(t) /\ Len(s) \in Nat /\ Len(t) \in Nat
        /\ \A p \in 1..Len(s) : u[p] = s[p]
        /\ \A i \in 1..Len(t) : u[Len(s) + i] = t[i]
    BY SMTT(30)
  <1> HIDE DEF u
  <1>2. ASSUME NEW p \in 1..Len(u), p \notin 1..Len(s)
        PROVE  \E i \in 1..Len(t) : p = Len(s) + i /\ u[p] = t[i]
    <2>1. p - Len(s) \in 1..Len(t) /\ p = Len(s) + (p - Len(s))
      BY <1>1, <1>2
    <2> QED BY <1>1, <2>1
  <1>3. ASSUME NEW i \in 1..Len(t)
        PROVE  /\ Msg[t[i].msg].run \in Runs /\ at[Msg[t[i].msg].run] \in Nat
               /\ t[i].at = at[Msg[t[i].msg].run] + Sent(b, Msg[t[i].msg].run, i)
               /\ Sent(b, Msg[t[i].msg].run, i) \in Nat
               /\ Sent(b, Msg[t[i].msg].run, i) > 0
    <2>1. i \in Nat /\ 0 \in Nat /\ 0 <= i /\ 0 < i
      BY <1>1
    <2>2. /\ Sent(b, Msg[b[i]].run, 0) \in Nat /\ Sent(b, Msg[b[i]].run, i) \in Nat
          /\ Sent(b, Msg[b[i]].run, 0) < Sent(b, Msg[b[i]].run, i)
      BY <2>1, SentGrows
    <2> QED BY <2>2 DEF Within
  <1>4. \A p \in 1..Len(s) : s[p].at \in Nat /\ s[p].at > 0
    BY RecordTyped DEF Rising
  <1>5. ASSUME NEW p \in 1..Len(u) PROVE u[p].at > 0
    <2>1. CASE p \in 1..Len(s)
      BY <1>1, <1>4, <2>1
    <2>2. CASE p \notin 1..Len(s)
      <3>1. PICK i \in 1..Len(t) : u[p] = t[i]
        BY <1>2, <2>2
      <3> DEFINE r == Msg[t[i].msg].run
      <3>2. at[r] \in Nat /\ t[i].at = at[r] + Sent(b, r, i) /\ Sent(b, r, i) \in Nat
            /\ Sent(b, r, i) > 0
        BY <1>3
      <3> HIDE DEF r
      <3> QED BY <3>1, <3>2
    <2> QED BY <2>1, <2>2
  <1>6. ASSUME NEW p \in 1..Len(u), NEW q \in 1..Len(u), p < q,
               Msg[u[p].msg].run = Msg[u[q].msg].run
        PROVE  u[p].at < u[q].at
    <2>1. CASE q \in 1..Len(s)
      <3>1. p \in 1..Len(s)
        BY <1>1, <1>6, <2>1
      <3>2. u[p] = s[p] /\ u[q] = s[q]
        BY <1>1, <2>1, <3>1
      <3> QED BY <1>6, <2>1, <3>1, <3>2 DEF Rising
    <2>2. CASE q \notin 1..Len(s) /\ p \in 1..Len(s)
      <3>1. PICK j \in 1..Len(t) : u[q] = t[j]
        BY <1>2, <2>2
      <3>2. u[p] = s[p]
        BY <1>1, <2>2
      <3>3. Msg[s[p].msg].run = Msg[t[j].msg].run
        BY <1>6, <3>1, <3>2
      <3>4. s[p].at <= at[Msg[t[j].msg].run]
        BY <1>3, <2>2, <3>3 DEF Within
      <3>5. s[p].at \in Nat
        BY <1>4, <2>2
      <3> DEFINE r == Msg[t[j].msg].run
      <3>6. at[r] \in Nat /\ t[j].at = at[r] + Sent(b, r, j) /\ Sent(b, r, j) \in Nat
            /\ Sent(b, r, j) > 0 /\ s[p].at <= at[r]
        BY <1>3, <3>4
      <3> HIDE DEF r
      <3> QED BY <3>1, <3>2, <3>5, <3>6
    <2>3. CASE q \notin 1..Len(s) /\ p \notin 1..Len(s)
      <3>1. PICK i \in 1..Len(t) : p = Len(s) + i /\ u[p] = t[i]
        BY <1>2, <2>3
      <3>2. PICK j \in 1..Len(t) : q = Len(s) + j /\ u[q] = t[j]
        BY <1>2, <2>3
      <3>3. i \in Nat /\ j \in Nat /\ i < j /\ i <= j
        BY <1>1, <1>6, <3>1, <3>2
      <3> DEFINE r == Msg[t[j].msg].run
      <3>4. Msg[t[i].msg].run = r /\ Msg[b[j]].run = r
        BY <1>6, <3>1, <3>2
      <3> HIDE DEF r
      <3>5. Sent(b, r, i) < Sent(b, r, j) /\ Sent(b, r, i) \in Nat /\ Sent(b, r, j) \in Nat
        BY <3>3, <3>4, SentGrows
      <3>6. t[i].at = at[r] + Sent(b, r, i) /\ t[j].at = at[r] + Sent(b, r, j) /\ at[r] \in Nat
        BY <1>3, <3>4 DEF r
      <3> QED BY <3>1, <3>2, <3>5, <3>6
    <2> QED BY <2>1, <2>2, <2>3
  <1>7. ASSUME NEW after, \A r \in Runs : after[r] = at[r] + Sent(b, r, Len(t))
        PROVE  Within(u, after)
    <2> SUFFICES ASSUME NEW r \in Runs
                 PROVE  /\ after[r] \in Nat
                        /\ \A p \in 1..Len(u) : Msg[u[p].msg].run = r => u[p].at <= after[r]
      BY DEF Within
    <2>1. /\ after[r] = at[r] + Sent(b, r, Len(t)) /\ at[r] \in Nat
          /\ Sent(b, r, Len(t)) \in Nat
      BY <1>1, <1>7, SentGrows DEF Within
    <2>2. ASSUME NEW p \in 1..Len(u), Msg[u[p].msg].run = r PROVE u[p].at <= after[r]
      <3>1. CASE p \in 1..Len(s)
        <4>1. u[p] = s[p] /\ s[p].at \in Nat
          BY <1>1, <1>4, <3>1
        <4>2. s[p].at <= at[r]
          BY <2>2, <3>1, <4>1 DEF Within
        <4> QED BY <2>1, <4>1, <4>2
      <3>2. CASE p \notin 1..Len(s)
        <4>1. PICK i \in 1..Len(t) : u[p] = t[i]
          BY <1>2, <3>2
        <4>2. t[i].at = at[r] + Sent(b, r, i)
          BY <1>3, <2>2, <4>1
        <4>3. i \in Nat /\ i <= Len(t)
          BY <1>1
        <4>4. Sent(b, r, i) <= Sent(b, r, Len(t)) /\ Sent(b, r, i) \in Nat
          BY <1>1, <4>3, SentGrows
        <4> QED BY <2>1, <4>1, <4>2, <4>4
      <3> QED BY <3>1, <3>2
    <2> QED BY <2>1, <2>2
  <1>8. Rising(u)
    BY <1>5, <1>6 DEF Rising
  <1> QED BY <1>1, <1>7, <1>8 DEF u

\* The writer of an open log is past no record's number, in memory; where no append
\* fails in a server that lives on, it has the number of each run's records.
Exact ==
  ~wiring.appendsFail =>
    /\ Numbered(log)
    /\ up => \A r \in Runs : streamPositions[r] = HowMany(log, r, Len(log))

StreamInv ==
  /\ log \in Seq(LogRecords) /\ produced \in Nat
  /\ Rising(log)
  /\ up => Within(log, streamPositions)
  /\ Exact

\* What the invariant says after a step, part by part.
LEMMA NumbersPrimed ==
  ASSUME log' \in Seq(LogRecords), produced' \in Nat, Rising(log'),
         up' => Within(log', streamPositions'), wiring' = wiring,
         ~wiring.appendsFail =>
           /\ Numbered(log')
           /\ up' => \A r \in Runs : streamPositions'[r] = HowMany(log', r, Len(log'))
  PROVE  StreamInv'
  <1>1. Rising(log)' <=> Rising(log')
    BY DEF Rising
  <1>2. Within(log, streamPositions)' <=> Within(log', streamPositions')
    BY DEF Within
  <1>3. Numbered(log)' <=> Numbered(log')
    BY DEF Numbered, HowMany, Of
  <1>4. \A r \in Runs : HowMany(log, r, Len(log))' = HowMany(log', r, Len(log'))
    BY DEF HowMany, Of
  <1> QED BY <1>1, <1>2, <1>3, <1>4 DEF StreamInv, Exact

LEMMA RunOfMessage ==
  /\ Msgs = 1..Len(Msg) /\ Len(Msg) \in Nat
  /\ \A m \in Msgs : Msg[m].run \in Runs /\ Msg[m].at \in Nat
  <1> DEFINE R == [run: Runs, subject: {"run", "llm"}, phase: {"start", "end"}, at: Nat]
  <1>1. Msg \in Seq(R)
    BY LogAssumption
  <1>2. \A x \in R : x.run \in Runs /\ x.at \in Nat
    OBVIOUS
  <1> HIDE DEF R
  <1>3. Msgs = 1..Len(Msg) /\ Len(Msg) \in Nat /\ \A m \in Msgs : Msg[m] \in R
    BY <1>1 DEF Msgs
  <1> QED BY <1>2, <1>3

LEMMA BatchTyped ==
  ASSUME StreamInv, NEW batch \in SendableBatches
  PROVE  /\ batch \in Seq(Msgs) /\ Len(batch) \in {1, 2} /\ batch[Len(batch)] \in Nat
         /\ Len(batch) \in 1..Len(batch)
  <1>1. batch \in Seq(Nat) /\ Len(batch) \in {1, 2}
    <2>0. produced \in Nat
      BY DEF StreamInv
    <2>1. CASE batch = <<produced + 1>>
      BY <2>0, <2>1
    <2>2. CASE batch = <<produced + 1, produced + 2>>
      BY <2>0, <2>2
    <2>3. ASSUME NEW m \in 1..produced, batch = <<m>>
          PROVE  batch \in Seq(Nat) /\ Len(batch) \in {1, 2}
      BY <2>0, <2>3
    <2> QED BY <2>1, <2>2, <2>3 DEF SendableBatches, Batches
  <1>2. \A i \in 1..Len(batch) : batch[i] \in Msgs
    BY <1>1 DEF SendableBatches
  <1>3. batch = [i \in 1..Len(batch) |-> batch[i]] /\ Len(batch) \in Nat
    BY <1>1
  <1>4. batch \in Seq(Msgs)
    BY <1>2, <1>3, SequenceOf
  <1>5. Len(batch) \in 1..Len(batch)
    BY <1>1
  <1> QED BY <1>1, <1>4, <1>5

\* What is written of a batch, all of it or a first part, is numbered on.
LEMMA RecordedTyped ==
  ASSUME StreamInv, up, NEW batch \in Seq(Msgs), NEW k \in 1..Len(batch)
  PROVE  /\ SubSeq(Recorded(batch), 1, k) \in Seq(LogRecords)
         /\ Len(SubSeq(Recorded(batch), 1, k)) = k
         /\ log \o SubSeq(Recorded(batch), 1, k) \in Seq(LogRecords)
         /\ Rising(log \o SubSeq(Recorded(batch), 1, k))
         /\ Within(log \o SubSeq(Recorded(batch), 1, k), Advanced(batch, k))
         /\ ~wiring.appendsFail =>
              /\ Numbered(log \o SubSeq(Recorded(batch), 1, k))
              /\ \A r \in Runs :
                   Advanced(batch, k)[r] =
                     HowMany(log \o SubSeq(Recorded(batch), 1, k), r,
                             Len(log \o SubSeq(Recorded(batch), 1, k)))
  <1> DEFINE all == Recorded(batch)
             t == SubSeq(all, 1, k)
  <1>0. /\ log \in Seq(LogRecords) /\ Rising(log) /\ Within(log, streamPositions)
        /\ Len(batch) \in Nat /\ DOMAIN batch = 1..Len(batch)
    BY DEF StreamInv
  <1>1. ASSUME NEW r \in Runs, NEW i \in Nat
        PROVE  /\ Advanced(batch, i)[r] = streamPositions[r] + Sent(batch, r, i)
               /\ Sent(batch, r, i) \in Nat /\ streamPositions[r] \in Nat
    <2>1. streamPositions[r] \in Nat
      BY <1>0 DEF Within
    <2> QED BY <2>1, AdvancedBySent
  <1>2. ASSUME NEW i \in 1..Len(batch)
        PROVE  /\ all[i] \in LogRecords /\ all[i].msg = batch[i] /\ Msg[batch[i]].run \in Runs
               /\ all[i].at = streamPositions[Msg[batch[i]].run]
                                + Sent(batch, Msg[batch[i]].run, i)
    <2>1. batch[i] \in Msgs /\ Msg[batch[i]].run \in Runs /\ i \in Nat
      BY RunOfMessage
    <2>2. all[i] = [msg |-> batch[i], at |-> Advanced(batch, i)[Msg[batch[i]].run]]
      BY <1>0, Zenon DEF Recorded
    <2>3. /\ Advanced(batch, i)[Msg[batch[i]].run] \in Nat
          /\ Advanced(batch, i)[Msg[batch[i]].run] =
               streamPositions[Msg[batch[i]].run] + Sent(batch, Msg[batch[i]].run, i)
      <3> DEFINE r == Msg[batch[i]].run
      <3>1. /\ Advanced(batch, i)[r] = streamPositions[r] + Sent(batch, r, i)
            /\ Sent(batch, r, i) \in Nat /\ streamPositions[r] \in Nat
        BY <1>1, <2>1
      <3> HIDE DEF r
      <3>2. Advanced(batch, i)[r] \in Nat
        BY <3>1
      <3> QED BY <3>1, <3>2 DEF r
    <2> HIDE DEF all
    <2> QED BY <2>1, <2>2, <2>3 DEF LogRecords
  <1>3. all \in Seq(LogRecords) /\ Len(all) = Len(batch)
    <2>1. all = [i \in 1..Len(batch) |-> all[i]] /\ Len(batch) \in Nat
      BY <1>0 DEF Recorded
    <2> HIDE DEF all
    <2>2. \A i \in 1..Len(batch) : all[i] \in LogRecords
      BY <1>2
    <2> QED BY <2>1, <2>2, SequenceOf
  <1> HIDE DEF all
  <1>4. t \in Seq(LogRecords) /\ Len(t) = k /\ k \in Nat
        /\ \A i \in 1..Len(t) : t[i] = all[i] /\ i \in 1..Len(batch)
    BY <1>0, <1>3
  <1>5. \A i \in 1..Len(t) :
           /\ t[i].msg = batch[i] /\ Msg[batch[i]].run \in Runs
           /\ t[i].at = streamPositions[Msg[batch[i]].run] + Sent(batch, Msg[batch[i]].run, i)
    BY <1>2, <1>4
  <1> HIDE DEF t
  <1>6. \A r \in Runs : Advanced(batch, k)[r] = streamPositions[r] + Sent(batch, r, Len(t))
    BY <1>1, <1>4
  <1>7. /\ log \o t \in Seq(LogRecords) /\ Rising(log \o t)
        /\ Within(log \o t, Advanced(batch, k))
    <2>1. log \in Seq(LogRecords) /\ t \in Seq(LogRecords) /\ Rising(log) /\ Within(log, streamPositions)
      BY <1>0, <1>4
    <2>2. /\ log \o t \in Seq(LogRecords) /\ Rising(log \o t)
          /\ \A after : (\A r \in Runs : after[r] = streamPositions[r] + Sent(batch, r, Len(t)))
                         => Within(log \o t, after)
      BY <1>5, <2>1, RisingOn
    <2> QED BY <1>6, <2>2
  <1>8. ASSUME ~wiring.appendsFail
        PROVE  /\ Numbered(log \o t)
               /\ \A r \in Runs : Advanced(batch, k)[r] = HowMany(log \o t, r, Len(log \o t))
    <2>1. Numbered(log) /\ \A r \in Runs : streamPositions[r] = HowMany(log, r, Len(log))
      BY <1>8 DEF StreamInv, Exact
    <2>2. \A i \in 1..Len(t) :
             /\ t[i].msg = batch[i]
             /\ t[i].at = HowMany(log, Msg[batch[i]].run, Len(log)) + Sent(batch, Msg[batch[i]].run, i)
      BY <1>5, <2>1
    <2>3. /\ Numbered(log \o t)
          /\ \A r : HowMany(log \o t, r, Len(log \o t))
                      = HowMany(log, r, Len(log)) + Sent(batch, r, Len(t))
      <3>1. log \in Seq(LogRecords) /\ t \in Seq(LogRecords) /\ Numbered(log)
        BY <1>0, <1>4, <2>1
      <3> QED BY <2>2, <3>1, NumberedOn
    <2> QED BY <1>6, <2>1, <2>3
  <1> QED BY <1>4, <1>7, <1>8 DEF t, all

LEMMA AppendBatchNumbers ==
  ASSUME StreamInv, NEW a \in Appenders, AppendBatch(a)
  PROVE  StreamInv'
  <1>1. PICK batch \in SendableBatches :
          /\ log' = log \o Recorded(batch)
          /\ produced' = Max2(produced, batch[Len(batch)])
          /\ streamPositions' = Advanced(batch, Len(batch))
    BY DEF AppendBatch
  <1>2. /\ batch \in Seq(Msgs) /\ batch[Len(batch)] \in Nat /\ Len(batch) \in 1..Len(batch)
    BY BatchTyped
  <1>3. SubSeq(Recorded(batch), 1, Len(batch)) = Recorded(batch)
    BY <1>2 DEF Recorded
  <1>4. up /\ wiring' = wiring
    BY DEF AppendBatch
  <1>5. /\ log' \in Seq(LogRecords) /\ Rising(log') /\ Within(log', streamPositions')
        /\ ~wiring.appendsFail =>
             /\ Numbered(log')
             /\ \A r \in Runs : streamPositions'[r] = HowMany(log', r, Len(log'))
    BY <1>1, <1>2, <1>3, <1>4, RecordedTyped
  <1>6. produced' \in Nat
    BY <1>1, <1>2 DEF Max2, StreamInv
  <1> QED BY <1>4, <1>5, <1>6, NumbersPrimed

\* A failed append takes numbers and gives them to no record.
LEMMA AppendFailsNumbers ==
  ASSUME StreamInv, NEW a \in Appenders, AppendFails(a)
  PROVE  StreamInv'
  <1>1. PICK batch \in SendableBatches : \E k \in 0..Len(batch) :
          /\ streamPositions' = Advanced(batch, k)
          /\ produced' = Max2(produced, batch[Len(batch)])
    BY DEF AppendFails
  <1>2. PICK k \in 0..Len(batch) :
          /\ streamPositions' = Advanced(batch, k)
          /\ produced' = Max2(produced, batch[Len(batch)])
    BY <1>1
  <1>3. batch[Len(batch)] \in Nat /\ k \in Nat
    BY <1>2, BatchTyped
  <1>4. up /\ wiring' = wiring /\ wiring.appendsFail /\ log' = log
    BY DEF AppendFails
  <1>5. log \in Seq(LogRecords) /\ Rising(log) /\ Within(log, streamPositions) /\ produced \in Nat
    BY <1>4 DEF StreamInv
  <1>6. Within(log, streamPositions')
    <2> SUFFICES ASSUME NEW r \in Runs
                 PROVE  /\ streamPositions'[r] \in Nat
                        /\ \A p \in 1..Len(log) :
                             Msg[log[p].msg].run = r => log[p].at <= streamPositions'[r]
      BY DEF Within
    <2>1. /\ streamPositions'[r] = streamPositions[r] + Sent(batch, r, k)
          /\ Sent(batch, r, k) \in Nat /\ streamPositions[r] \in Nat
      <3>1. streamPositions[r] \in Nat
        BY <1>5 DEF Within
      <3> QED BY <1>2, <1>3, <3>1, AdvancedBySent
    <2>2. \A p \in 1..Len(log) : log[p].at \in Nat
      BY <1>5, RecordTyped
    <2> QED BY <1>5, <2>1, <2>2 DEF Within
  <1>7. produced' \in Nat
    BY <1>2, <1>3, <1>5 DEF Max2
  <1> QED BY <1>4, <1>5, <1>6, <1>7, NumbersPrimed

LEMMA CrashNumbers ==
  ASSUME StreamInv, CrashLog
  PROVE  StreamInv'
  <1>1. up /\ ~up' /\ wiring' = wiring
    BY DEF CrashLog
  <1>2. CASE UNCHANGED <<log, produced>>
    BY <1>1, <1>2, NumbersPrimed DEF StreamInv, Exact
  <1>3. ASSUME NEW batch \in SendableBatches, NEW k \in DOMAIN batch,
               log' = log \o SubSeq(Recorded(batch), 1, k),
               produced' = Max2(produced, batch[Len(batch)])
        PROVE  StreamInv'
    <2>1. batch \in Seq(Msgs) /\ batch[Len(batch)] \in Nat
      BY BatchTyped
    <2>2. k \in 1..Len(batch)
      BY <2>1
    <2>3. log' \in Seq(LogRecords) /\ Rising(log') /\ (~wiring.appendsFail => Numbered(log'))
      BY <1>1, <1>3, <2>1, <2>2, RecordedTyped
    <2>4. produced' \in Nat
      BY <1>3, <2>1 DEF Max2, StreamInv
    <2> QED BY <1>1, <2>3, <2>4, NumbersPrimed
  <1> QED BY <1>2, <1>3 DEF CrashLog

LEMMA OpenNumbers ==
  ASSUME StreamInv, OpenLog
  PROVE  StreamInv'
  <1>1. log' = log /\ produced' = produced /\ wiring' = wiring
        /\ streamPositions' = [r \in Runs |-> LastStreamPosition(log, r)]
    BY DEF OpenLog
  <1>2. log \in Seq(LogRecords) /\ Rising(log) /\ produced \in Nat
        /\ (~wiring.appendsFail => Numbered(log))
    BY DEF StreamInv, Exact
  <1>3. Within(log, streamPositions')
    BY <1>1, <1>2, LastIsHighest DEF Within
  <1>4. ~wiring.appendsFail =>
          \A r \in Runs : streamPositions'[r] = HowMany(log, r, Len(log))
    BY <1>1, <1>2, LastIsHowMany
  <1> QED BY <1>1, <1>2, <1>3, <1>4, NumbersPrimed

LEMMA InitNumbers ==
  ASSUME NEW held \in Seq(Msgs), LogInit(held)
  PROVE  StreamInv
  <1> DEFINE At(p) == Cardinality({q \in 1..p : Msg[held[q]].run = Msg[held[p]].run})
  <1>1. Len(held) \in Nat /\ DOMAIN held = 1..Len(held) /\ \A p \in 1..Len(held) : held[p] \in Msgs
    OBVIOUS
  <1>2. log = [p \in 1..Len(held) |-> [msg |-> held[p], at |-> At(p)]]
    BY <1>1 DEF LogInit
  <1>3. ASSUME NEW p \in 1..Len(held)
        PROVE  /\ log[p] \in LogRecords /\ log[p].msg = held[p]
               /\ log[p].at = HowMany(log, Msg[log[p].msg].run, p)
    <2>1. log[p] = [msg |-> held[p], at |-> At(p)] /\ \A q \in 1..p : log[q].msg = held[q]
      BY <1>2
    <2>2. log[p].msg = held[p] /\ log[p].at = At(p)
      BY <2>1
    <2>3. {q \in 1..p : Msg[held[q]].run = Msg[held[p]].run} = Of(log, Msg[log[p].msg].run, p)
      BY <2>1, <2>2 DEF Of
    <2>4. At(p) = HowMany(log, Msg[log[p].msg].run, p)
      BY <2>3 DEF HowMany
    <2>5. At(p) \in Nat
      BY <2>4, HowManyStep
    <2> HIDE DEF At
    <2>6. log[p] \in LogRecords
      BY <1>1, <2>1, <2>5 DEF LogRecords
    <2> QED BY <2>2, <2>4, <2>6
  <1>4. log \in Seq(LogRecords) /\ Len(log) = Len(held)
    <2>1. log = [p \in 1..Len(held) |-> log[p]]
      BY <1>2
    <2>2. \A p \in 1..Len(held) : log[p] \in LogRecords
      BY <1>3
    <2> QED BY <1>1, <2>1, <2>2, SequenceOf
  <1>5. Numbered(log)
    BY <1>3, <1>4 DEF Numbered
  <1>6. produced \in Nat
    <2>1. produced = IF held = <<>> THEN 0 ELSE held[Len(held)]
      BY DEF LogInit
    <2>2. held # <<>> => Len(held) \in 1..Len(held)
      BY <1>1
    <2> QED BY <1>1, <2>1, <2>2, RunOfMessage
  <1>7. \A r \in Runs : streamPositions[r] = HowMany(log, r, Len(log))
    <2>1. streamPositions = [r \in Runs |-> LastStreamPosition(log, r)]
      BY DEF LogInit
    <2> QED BY <1>4, <1>5, <2>1, LastIsHowMany
  <1>8. Rising(log)
    <2>1. \A p \in 1..Len(log) : p \in Nat /\ log[p].at = HowMany(log, Msg[log[p].msg].run, p)
      BY <1>4, <1>5 DEF Numbered
    <2>2. ASSUME NEW p \in 1..Len(log) PROVE log[p].at > 0
      <3>1. p \in Of(log, Msg[log[p].msg].run, p)
        BY <1>4 DEF Of
      <3>2. IsFiniteSet(Of(log, Msg[log[p].msg].run, p)) /\ HowMany(log, Msg[log[p].msg].run, p) \in Nat
        BY <2>1, HowManyStep
      <3> QED BY <2>1, <3>1, <3>2, FS_EmptySet DEF HowMany
    <2>3. ASSUME NEW p \in 1..Len(log), NEW q \in 1..Len(log), p < q,
                 Msg[log[p].msg].run = Msg[log[q].msg].run
          PROVE  log[p].at < log[q].at
      <3> DEFINE r == Msg[log[q].msg].run
                 last == q - 1
      <3>1. last \in Nat /\ p \in Nat /\ p <= last /\ last + 1 = q
        BY <1>4, <2>3
      <3>2. log[p].at = HowMany(log, r, p) /\ log[q].at = HowMany(log, r, q)
        BY <2>1, <2>3
      <3> HIDE DEF last, r
      <3>3. HowMany(log, r, p) <= HowMany(log, r, last)
        BY <3>1, HowManyGrows
      <3>4. HowMany(log, r, last + 1) = HowMany(log, r, last) + (IF Msg[log[last + 1].msg].run = r THEN 1 ELSE 0)
        BY <3>1, HowManyStep
      <3>5. HowMany(log, r, p) \in Nat /\ HowMany(log, r, last) \in Nat
        BY <3>1, HowManyStep
      <3>6. Msg[log[last + 1].msg].run = r
        BY <3>1 DEF r
      <3> QED BY <3>1, <3>2, <3>3, <3>4, <3>5, <3>6
    <2> QED BY <2>2, <2>3 DEF Rising
  <1>9. Within(log, streamPositions)
    <2>1. streamPositions = [r \in Runs |-> LastStreamPosition(log, r)]
      BY DEF LogInit
    <2> QED BY <1>4, <1>8, <2>1, LastIsHighest DEF Within
  <1> QED BY <1>4, <1>5, <1>6, <1>7, <1>8, <1>9 DEF StreamInv, Exact

-----------------------------------------------------------------------------
(* The steps of the projector that leave the log's records alone. *)

recordVars == <<wiring, log, produced, streamPositions, up>>

LEMMA ReadersLeaveTheLog ==
  ASSUME ReadStep \/ FlushStep \/ JournalStep \/ Shutdown
  PROVE  UNCHANGED recordVars
  <1>1. CASE ReadStep
    BY <1>1 DEF ReadStep, StartProjector, Handle, CaughtUp, SweepTimer, FlushTimer, SourceEnds,
                recordVars, logVars, busVars
  <1>2. CASE FlushStep
    BY <1>2 DEF FlushStep, WriteSpans, WriteGap, WriteClosed, SaveFold, FlushAsked, Commit,
                recordVars, logVars, busVars
  <1>3. CASE JournalStep
    BY <1>3 DEF JournalStep, StartJournal, JournalReads, JournalCaughtUp, JournalTick, KeepPage,
                recordVars, logVars, busVars
  <1>4. CASE Shutdown
    BY <1>4 DEF Shutdown, recordVars, logVars, busVars
  <1> QED BY <1>1, <1>2, <1>3, <1>4

LEMMA StreamStep == StreamInv /\ [ProjectorNext]_vars => StreamInv'
  <1> SUFFICES ASSUME StreamInv, [ProjectorNext]_vars PROVE StreamInv'
    OBVIOUS
  <1>0. ASSUME UNCHANGED <<wiring, log, produced>>, ~up' \/ UNCHANGED recordVars PROVE StreamInv'
    BY <1>0, NumbersPrimed DEF recordVars, StreamInv, Exact
  <1>1. ASSUME NEW a \in Appenders, AppendBatch(a) PROVE StreamInv'
    BY <1>1, AppendBatchNumbers
  <1>2. ASSUME NEW a \in Appenders, Broadcast(a) PROVE StreamInv'
    BY <1>0, <1>2 DEF Broadcast, recordVars
  <1>3. ASSUME NEW c \in Readers, SkipDelivered(c) PROVE StreamInv'
    BY <1>0, <1>3 DEF SkipDelivered, recordVars
  <1>4. CASE Trim
    BY <1>0, <1>4 DEF Trim, recordVars
  <1>5. CASE OpenLog
    BY <1>5, OpenNumbers
  <1>6. CASE Crash
    BY <1>6, CrashNumbers DEF Crash
  <1>7. CASE Exit
    BY <1>0, <1>7 DEF Exit
  <1>8. CASE ReadStep \/ FlushStep \/ JournalStep \/ Shutdown
    BY <1>0, <1>8, ReadersLeaveTheLog DEF recordVars
  <1>9. CASE UNCHANGED vars
    BY <1>0, <1>9 DEF vars, logVars, busVars, recordVars
  <1>10. ASSUME NEW a \in Appenders, AppendFails(a) PROVE StreamInv'
    BY <1>10, AppendFailsNumbers
  <1>11. CASE LogStep
    BY <1>1, <1>2, <1>3, <1>4, <1>5, <1>10, <1>11 DEF LogStep
  <1> QED BY <1>6, <1>7, <1>8, <1>9, <1>11 DEF ProjectorNext

\* wal.rs append, scan and open: for every set of appenders, runs and messages and
\* every history the server is started on, the records of a run are numbered upwards
\* in the order of the file, across appends that race, appends that fail and take
\* numbers with them, crashes that leave a first part of a batch, and reopened logs;
\* and they are numbered 1, 2, 3, ... where no append fails in a server that lives
\* on.  It is a theorem about a log in which a failed append leaves nothing in the
\* file: what a write that fails half way does is in WalFile.  The invariant adds
\* what makes it inductive: the positions an open log's writer keeps in memory are at
\* least every number in the file, and exactly the numbers of records there where no
\* append fails; after a crash they are not, until the scan.
THEOREM StreamsStayNumbered == ProjectorSpec => []StreamsAreNumbered
  <1>1. ASSUME NEW held \in Seq(Msgs), ProjectorInit(held) PROVE StreamInv
    BY <1>1, InitNumbers DEF ProjectorInit
  <1>2. (\E held \in Seq(Msgs) : Len(held) <= MaxRecords /\ ProjectorInit(held)) => StreamInv
    BY <1>1
  <1>3. StreamInv => StreamsAreNumbered
    BY DEF StreamInv, Exact, Rising, Numbered, HowMany, Of, StreamsAreNumbered, Positions
  <1> QED BY <1>2, <1>3, StreamStep, PTL DEF ProjectorSpec

-----------------------------------------------------------------------------
(* The log grows at its end and within its bound. *)

LogGrows ==
  /\ Len(log) <= Len(log') /\ \A p \in 1..Len(log) : log'[p] = log[p]
  /\ Len(log) <= MaxRecords => Len(log') <= MaxRecords

LEMMA WrittenGrows ==
  ASSUME StreamInv, up, NEW batch \in SendableBatches, NEW k \in 1..Len(batch),
         log' = log \o SubSeq(Recorded(batch), 1, k)
  PROVE  LogGrows
  <1> DEFINE t == SubSeq(Recorded(batch), 1, k)
  <1>1. batch \in Seq(Msgs) /\ Len(batch) \in Nat
    BY BatchTyped
  <1>2. t \in Seq(LogRecords) /\ Len(t) = k /\ log \in Seq(LogRecords)
    BY <1>1, RecordedTyped DEF StreamInv
  <1>3. Len(log) + Len(batch) <= MaxRecords /\ MaxRecords \in Nat
    BY LogAssumption DEF SendableBatches
  <1> HIDE DEF t
  <1>4. log' = log \o t
    BY DEF t
  <1>5. Len(log') = Len(log) + k /\ \A p \in 1..Len(log) : log'[p] = log[p]
    BY <1>2, <1>4
  <1> QED BY <1>1, <1>2, <1>3, <1>5 DEF LogGrows

LEMMA EveryStepGrows == StreamInv /\ [ProjectorNext]_vars => LogGrows
  <1> SUFFICES ASSUME StreamInv, [ProjectorNext]_vars PROVE LogGrows
    OBVIOUS
  <1>0. ASSUME log' = log PROVE LogGrows
    <2>1. Len(log) \in Nat
      BY DEF StreamInv
    <2> QED BY <1>0, <2>1 DEF LogGrows
  <1>1. ASSUME NEW a \in Appenders, AppendBatch(a) PROVE LogGrows
    <2>1. PICK batch \in SendableBatches : log' = log \o Recorded(batch)
      BY <1>1 DEF AppendBatch
    <2>2. batch \in Seq(Msgs) /\ Len(batch) \in {1, 2} /\ up
      <3>1. up
        BY <1>1 DEF AppendBatch
      <3> QED BY <3>1, BatchTyped
    <2>3. SubSeq(Recorded(batch), 1, Len(batch)) = Recorded(batch)
      BY <2>2 DEF Recorded
    <2>4. Len(batch) \in 1..Len(batch)
      BY BatchTyped
    <2> QED BY <2>1, <2>2, <2>3, <2>4, WrittenGrows
  <1>2. CASE Crash
    <2>1. ASSUME NEW batch \in SendableBatches, NEW k \in DOMAIN batch,
                 log' = log \o SubSeq(Recorded(batch), 1, k)
          PROVE  LogGrows
      <3>1. k \in 1..Len(batch)
        BY BatchTyped
      <3>2. up
        BY <1>2 DEF Crash, CrashLog
      <3> QED BY <2>1, <3>1, <3>2, WrittenGrows
    <2> QED BY <1>0, <1>2, <2>1 DEF Crash, CrashLog
  <1>3. CASE ReadStep \/ FlushStep \/ JournalStep \/ Shutdown
    BY <1>0, <1>3, ReadersLeaveTheLog DEF recordVars
  <1>4. CASE LogStep
    BY <1>0, <1>1, <1>4 DEF LogStep, AppendFails, Broadcast, SkipDelivered, Trim, OpenLog
  <1>5. CASE Exit \/ UNCHANGED vars
    BY <1>0, <1>5 DEF Exit, vars, logVars, busVars
  <1> QED BY <1>2, <1>3, <1>4, <1>5 DEF ProjectorNext

\* What is broadcast, or still to be, are positions of the log.
BusInv == outgoing \in [Appenders -> Seq(Positions)] /\ live \in Seq(Positions)

LEMMA BusStep == StreamInv /\ BusInv /\ StreamInv' /\ [ProjectorNext]_vars => BusInv'
  <1> SUFFICES ASSUME StreamInv, BusInv, StreamInv', [ProjectorNext]_vars PROVE BusInv'
    OBVIOUS
  <1>1. LogGrows
    BY EveryStepGrows
  <1>2. Len(log) \in Nat /\ Len(log') \in Nat /\ Positions \subseteq Positions'
    BY <1>1 DEF StreamInv, LogGrows, Positions
  <1>3. \A s \in Seq(Positions) : s \in Seq(Positions')
    BY <1>2, SeqMonotonic
  <1>4. outgoing \in [Appenders -> Seq(Positions')] /\ live \in Seq(Positions')
    BY <1>3 DEF BusInv
  <1> HIDE DEF BusInv
  <1>5. ASSUME outgoing' \in [Appenders -> Seq(Positions')], live' \in Seq(Positions')
        PROVE  BusInv'
    BY <1>5 DEF BusInv
  <1>6. ASSUME NEW a \in Appenders, AppendBatch(a) PROVE BusInv'
    <2>1. PICK batch \in SendableBatches :
            /\ log' = log \o Recorded(batch)
            /\ outgoing' = IF wiring.log = "wal"
                           THEN [outgoing EXCEPT ![a] = [i \in DOMAIN batch |-> Len(log) + i]]
                           ELSE outgoing
      BY <1>6 DEF AppendBatch
    <2>2. batch \in Seq(Msgs) /\ Len(batch) \in 1..Len(batch) /\ DOMAIN batch = 1..Len(batch)
          /\ Len(batch) \in Nat
      BY BatchTyped
    <2>3. Len(log') = Len(log) + Len(batch)
      <3>1. up
        BY <1>6 DEF AppendBatch
      <3>2. /\ SubSeq(Recorded(batch), 1, Len(batch)) \in Seq(LogRecords)
            /\ Len(SubSeq(Recorded(batch), 1, Len(batch))) = Len(batch)
        BY <2>2, <3>1, RecordedTyped
      <3>3. SubSeq(Recorded(batch), 1, Len(batch)) = Recorded(batch)
        BY <2>2 DEF Recorded
      <3>4. log \in Seq(LogRecords)
        BY DEF StreamInv
      <3>5. Recorded(batch) \in Seq(LogRecords) /\ Len(Recorded(batch)) = Len(batch)
        BY <3>2, <3>3
      <3>6. Len(log \o Recorded(batch)) = Len(log) + Len(Recorded(batch))
        BY <3>4, <3>5, ConcatProperties
      <3> QED BY <2>1, <3>5, <3>6
    <2> DEFINE out == [i \in 1..Len(batch) |-> Len(log) + i]
    <2>4. out \in Seq(Positions')
      <3>1. \A i \in 1..Len(batch) : out[i] \in Positions'
        BY <1>2, <2>2, <2>3 DEF Positions
      <3>2. out = [i \in 1..Len(batch) |-> out[i]]
        OBVIOUS
      <3> HIDE DEF out
      <3> QED BY <2>2, <3>1, <3>2, SequenceOf
    <2>5. outgoing' \in {outgoing, [outgoing EXCEPT ![a] = out]}
      BY <2>1, <2>2
    <2> HIDE DEF out
    <2>6. outgoing' \in [Appenders -> Seq(Positions')]
      BY <1>4, <2>4, <2>5
    <2>7. live' = live
      BY <1>6 DEF AppendBatch
    <2> QED BY <1>4, <1>5, <2>6, <2>7
  <1>7. ASSUME NEW a \in Appenders, Broadcast(a) PROVE BusInv'
    <2>1. /\ outgoing[a] # <<>> /\ live' = Append(live, Head(outgoing[a]))
          /\ outgoing' = [outgoing EXCEPT ![a] = Tail(@)]
      BY <1>7 DEF Broadcast
    <2>2. Head(outgoing[a]) \in Positions' /\ Tail(outgoing[a]) \in Seq(Positions')
      BY <1>4, <2>1, HeadTailProperties
    <2>3. live' \in Seq(Positions')
      BY <1>4, <2>1, <2>2
    <2>4. outgoing' \in [Appenders -> Seq(Positions')]
      BY <1>4, <2>1, <2>2
    <2> QED BY <1>5, <2>3, <2>4
  <1>8. CASE Crash \/ Exit
    <2>1. outgoing' = [a \in Appenders |-> <<>>] /\ live' = <<>>
      BY <1>8 DEF Crash, CrashLog, Exit
    <2>2. <<>> \in Seq(Positions')
      OBVIOUS
    <2>3. outgoing' \in [Appenders -> Seq(Positions')]
      BY <2>1, <2>2
    <2> QED BY <1>5, <2>1, <2>2, <2>3
  <1>9. ASSUME UNCHANGED <<outgoing, live>> PROVE BusInv'
    BY <1>4, <1>5, <1>9
  <1>10. CASE ReadStep
    BY <1>9, <1>10 DEF ReadStep, StartProjector, Handle, CaughtUp, SweepTimer, FlushTimer,
                       SourceEnds, logVars, busVars
  <1>11. CASE FlushStep
    BY <1>9, <1>11 DEF FlushStep, WriteSpans, WriteGap, WriteClosed, SaveFold, FlushAsked, Commit,
                       logVars, busVars
  <1>12. CASE JournalStep
    BY <1>9, <1>12 DEF JournalStep, StartJournal, JournalReads, JournalCaughtUp, JournalTick,
                       KeepPage, logVars, busVars
  <1>13. CASE Shutdown \/ UNCHANGED vars
    BY <1>9, <1>13 DEF Shutdown, vars, logVars, busVars
  <1>14. CASE LogStep
    BY <1>6, <1>7, <1>9, <1>14 DEF LogStep, AppendFails, SkipDelivered, Trim, OpenLog
  <1> QED BY <1>8, <1>10, <1>11, <1>12, <1>13, <1>14 DEF ProjectorNext

LEMMA BusInit ==
  ASSUME NEW held, LogInit(held)
  PROVE  BusInv
  <1>1. <<>> \in Seq(Positions)
    OBVIOUS
  <1> QED BY <1>1 DEF LogInit, BusInv

-----------------------------------------------------------------------------
(* The pages a journal holds. *)

PageRecords == [first : Nat, last : Nat, from : Nat, clock : Nat, kept : SUBSET Nat]
JournalRecords ==
  [at : {"loop", "keep"}, through : Nat, reading : Seq(PageRecords), waiting : Seq(PageRecords)]

\* Pages of whole stretches, one after the other, none past top.
InOrder(q, top) ==
  /\ q \in Seq(PageRecords)
  /\ \A i \in 1..Len(q) : /\ 1 <= q[i].first /\ q[i].first <= q[i].last /\ q[i].last <= top
                          /\ q[i].kept = q[i].first..q[i].last
  /\ \A i, k \in 1..Len(q) : i < k => q[i].last < q[k].first

Pages(j) == j.waiting \o j.reading
InPages(q, p) == \E i \in 1..Len(q) : p \in q[i].first..q[i].last

JournalOK(j, top) ==
  /\ j \in JournalRecords /\ Len(j.reading) <= 1 /\ j.through <= top
  /\ InOrder(Pages(j), top)

\* Pages in order hold no more positions than their last one's number.
LEMMA HeldBounded ==
  ASSUME NEW top \in Nat, NEW j, JournalOK(j, top)
  PROVE  HeldPositions(j) \in Int /\ HeldPositions(j) <= top
  <1> DEFINE q == Pages(j)
             N == Len(q)
  <1>1. /\ q \in Seq(PageRecords) /\ N \in Nat
        /\ \A i \in 1..N : /\ q[i] \in PageRecords /\ 1 <= q[i].first /\ q[i].first <= q[i].last
                           /\ q[i].last <= top
        /\ \A i, k \in 1..N : i < k => q[i].last < q[k].first
    BY DEF JournalOK, InOrder
  <1>2. \A i \in 1..N : q[i].first \in Nat /\ q[i].last \in Nat
    BY <1>1 DEF PageRecords
  <1> HIDE DEF q
  <1> DEFINE Step == [x \in Int \X Nat |-> IF x[2] \in 1..N THEN x[1] + PageSize(q[x[2]]) ELSE x[1]]
  <1>3. Step \in [Int \X Nat -> Int]
    <2>1. ASSUME NEW x \in Int \X Nat
          PROVE  (IF x[2] \in 1..N THEN x[1] + PageSize(q[x[2]]) ELSE x[1]) \in Int
      BY <1>2 DEF PageSize
    <2> QED BY <2>1
  <1>4. PICK f : Defines(Int, 0, Step, f)
    <2> HIDE DEF Step
    <2> QED BY <1>3, RecursionExists
  <1>5. f \in [Nat -> Int] /\ f[0] = 0
    BY <1>4 DEF Defines
  <1>6. ASSUME NEW i \in 1..N PROVE f[i] = f[i - 1] + PageSize(q[i])
    <2>1. i - 1 \in Nat /\ i - 1 + 1 = i /\ i \in Nat
      BY <1>1
    <2>2. <<f[i - 1], i>> \in Int \X Nat
      BY <1>5, <2>1
    <2>3. Step[<<f[i - 1], i>>] = f[i - 1] + PageSize(q[i])
      BY <2>2
    <2>4. f[i - 1 + 1] = Step[<<f[i - 1], i - 1 + 1>>]
      <3> HIDE DEF Step
      <3> QED BY <1>4, <2>1 DEF Defines
    <2> QED BY <2>1, <2>3, <2>4
  <1> HIDE DEF Step
  <1> DEFINE UpTo(g) == [i \in 0..N |-> IF i = 0 THEN 0 ELSE g[i - 1] + PageSize(q[i])]
             h == [i \in 0..N |-> f[i]]
  <1>7. h = UpTo(h)
    <2>1. ASSUME NEW i \in 0..N PROVE h[i] = UpTo(h)[i]
      <3>1. CASE i = 0
        BY <1>5, <3>1
      <3>2. CASE i # 0
        <4>1. i \in 1..N /\ i - 1 \in 0..N
          BY <1>1, <3>2
        <4> QED BY <1>6, <3>2, <4>1
      <3> QED BY <3>1, <3>2
    <2> QED BY <2>1
  <1> DEFINE upTo == CHOOSE g : g = UpTo(g)
  <1>8. upTo = UpTo(upTo)
    <2> HIDE DEF h, UpTo
    <2>1. \E g : g = UpTo(g)
      BY <1>7
    <2> QED BY <2>1
  <1>9. HeldPositions(j) = upTo[N]
    BY Zenon DEF HeldPositions, q, Pages
  <1> HIDE DEF upTo
  <1>10. upTo[0] = 0 /\ \A i \in 1..N : upTo[i] = upTo[i - 1] + PageSize(q[i])
    <2>1. ASSUME NEW i \in 0..N
          PROVE  upTo[i] = IF i = 0 THEN 0 ELSE upTo[i - 1] + PageSize(q[i])
      <3>1. UpTo(upTo)[i] = IF i = 0 THEN 0 ELSE upTo[i - 1] + PageSize(q[i])
        OBVIOUS
      <3> HIDE DEF UpTo
      <3> QED BY <1>8, <3>1
    <2>2. 0 \in 0..N /\ \A i \in 1..N : i \in 0..N /\ i # 0
      BY <1>1
    <2> QED BY <2>1, <2>2
  <1> DEFINE Bound(i) == IF i = 0 THEN 0 ELSE q[i].last
             P == {i \in Nat : i <= N => upTo[i] \in Int /\ upTo[i] <= Bound(i)}
  <1>11. 0 \in P
    BY <1>10
  <1>12. ASSUME NEW i \in Nat, i \in P PROVE i + 1 \in P
    <2> SUFFICES ASSUME i + 1 <= N
                 PROVE  upTo[i + 1] \in Int /\ upTo[i + 1] <= Bound(i + 1)
      OBVIOUS
    <2>1. i + 1 \in 1..N /\ i + 1 - 1 = i /\ i <= N
      BY <1>1
    <2>2. upTo[i + 1] = upTo[i] + (q[i + 1].last - q[i + 1].first + 1)
      BY <1>10, <2>1 DEF PageSize
    <2>3. upTo[i] \in Int /\ upTo[i] <= Bound(i)
      BY <1>12, <2>1
    <2>4. Bound(i) \in Nat /\ Bound(i) < q[i + 1].first
      <3>1. CASE i = 0
        BY <1>1, <1>2, <2>1, <3>1
      <3>2. CASE i # 0
        <4>1. i \in 1..N /\ i < i + 1
          BY <1>1, <2>1, <3>2
        <4> QED BY <1>1, <1>2, <2>1, <3>2, <4>1
      <3> QED BY <3>1, <3>2
    <2>5. Bound(i + 1) = q[i + 1].last /\ q[i + 1].last \in Nat /\ q[i + 1].first \in Nat
      BY <1>2, <2>1
    <2>6. upTo[i] \in Int /\ upTo[i] < q[i + 1].first
      <3> HIDE DEF Bound
      <3> QED BY <2>3, <2>4, <2>5
    <2>7. upTo[i + 1] \in Int /\ upTo[i + 1] <= q[i + 1].last
      BY <2>2, <2>5, <2>6
    <2> HIDE DEF Bound
    <2> QED BY <2>5, <2>7
  <1>13. P \in SUBSET Nat
    OBVIOUS
  <1> HIDE DEF P
  <1>14. P = Nat
    BY <1>11, <1>12, <1>13, SetInduction
  <1>15. upTo[N] \in Int /\ upTo[N] <= Bound(N)
    BY <1>1, <1>14 DEF P
  <1>16. Bound(N) \in Nat /\ Bound(N) <= top
    BY <1>1, <1>2
  <1> QED BY <1>9, <1>15, <1>16

\* So a journal that may hold a whole log lets no page go.
LEMMA NothingLetGo ==
  ASSUME NEW top \in Nat, top <= MostHeld, NEW j, JournalOK(j, top)
  PROVE  LetGo(j) = j
  <1> DEFINE Dropping(k) == [j EXCEPT !.waiting = SubSeq(@, k + 1, Len(@))]
             enough == {k \in 0..Len(j.waiting) : HeldPositions(Dropping(k)) <= MostHeld}
             least == CHOOSE k \in enough : \A o \in enough : k <= o
  <1>1. j \in JournalRecords /\ j.waiting \in Seq(PageRecords) /\ Len(j.waiting) \in Nat
    BY DEF JournalOK, JournalRecords
  <1>2. Dropping(0) = j
    <2>1. SubSeq(j.waiting, 0 + 1, Len(j.waiting)) = j.waiting
      BY <1>1
    <2> QED BY <1>1, <2>1 DEF JournalRecords
  <1>3. HeldPositions(j) \in Int /\ HeldPositions(j) <= top /\ MostHeld \in Nat
    BY HeldBounded, JournalAssumption
  <1>4. HeldPositions(j) <= MostHeld
    BY <1>3
  <1>5. 0 \in enough
    BY <1>1, <1>2, <1>4
  <1>6. enough \subseteq Nat
    BY <1>1
  <1>7. LetGo(j) = Dropping(least)
    BY <1>5 DEF LetGo
  <1>8. least = 0
    <2> HIDE DEF enough
    <2>1. \A o \in enough : 0 <= o
      BY <1>6
    <2>2. least \in enough /\ \A o \in enough : least <= o
      BY <1>5, <2>1
    <2> HIDE DEF least
    <2> QED BY <1>5, <1>6, <2>2
  <1> HIDE DEF Dropping, least
  <1> QED BY <1>2, <1>7, <1>8

\* A sequence that may have one member, behind another one.
LEMMA OneBehind ==
  ASSUME NEW T, NEW w \in Seq(T), NEW r \in Seq(T), Len(r) <= 1, r # <<>>
  PROVE  /\ Len(r) = 1 /\ r[1] \in T /\ r = <<r[1]>> /\ Len(w) \in Nat
         /\ w \o r = Append(w, r[1]) /\ Append(w, r[1]) \in Seq(T)
         /\ Append(w, r[1]) \o <<>> = Append(w, r[1])
         /\ Len(w \o r) = Len(w) + 1 /\ (w \o r)[Len(w) + 1] = r[1]
         /\ \A i \in 1..Len(w) : (w \o r)[i] = w[i]
  <1>1. Len(r) = 1 /\ Len(w) \in Nat
    <2>1. Len(r) \in Nat \ {0}
      BY EmptySeq
    <2>2. \A n \in Nat \ {0} : n <= 1 => n = 1
      OBVIOUS
    <2>3. Len(w) \in Nat
      OBVIOUS
    <2> QED BY <2>1, <2>2, <2>3, Zenon
  <1>2. r[1] \in T /\ r = <<r[1]>>
    BY <1>1
  <1>3. Append(w, r[1]) \in Seq(T)
    BY <1>2
  <1>4. w \o <<r[1]>> = Append(w, r[1])
    BY <1>2
  <1>5. Append(w, r[1]) \o <<>> = Append(w, r[1])
    BY <1>3, ConcatEmptySeq
  <1>6. /\ Len(Append(w, r[1])) = Len(w) + 1 /\ Append(w, r[1])[Len(w) + 1] = r[1]
        /\ \A i \in 1..Len(w) : Append(w, r[1])[i] = w[i]
    BY <1>1, <1>2
  <1> QED BY <1>1, <1>2, <1>3, <1>4, <1>5, <1>6

\* A page behind the others that reaches p.
LEMMA LastPage ==
  ASSUME NEW d \in Nat, NEW p \in Nat, d <= p, NEW w, InOrder(w, d),
         NEW page \in PageRecords, 1 <= page.first, page.first <= page.last, page.last = p,
         page.kept = page.first..page.last,
         \A i \in 1..Len(w) : w[i].last < page.first
  PROVE  /\ InOrder(Append(w, page), p)
         /\ \A x : InPages(w, x) \/ x \in page.first..p => InPages(Append(w, page), x)
  <1> DEFINE q == Append(w, page)
             n == Len(w) + 1
  <1>1. w \in Seq(PageRecords) /\ Len(w) \in Nat
    BY DEF InOrder
  <1>2. /\ q \in Seq(PageRecords) /\ Len(q) = n /\ q[n] = page /\ n \in 1..n
        /\ \A i \in 1..Len(w) : q[i] = w[i] /\ i \in 1..n
        /\ \A i \in 1..n : i = n \/ i \in 1..Len(w)
    BY <1>1
  <1>3. \A i \in 1..Len(w) : w[i].last \in Nat /\ w[i].first \in Nat
    <2>1. \A i \in 1..Len(w) : w[i] \in PageRecords
      BY <1>1
    <2>2. \A g \in PageRecords : g.last \in Nat /\ g.first \in Nat
      BY DEF PageRecords
    <2> QED BY <2>1, <2>2
  <1>4. page.first \in Nat /\ page.last \in Nat
    BY DEF PageRecords
  <1> HIDE DEF q
  <1>5. \A i \in 1..Len(q) : /\ 1 <= q[i].first /\ q[i].first <= q[i].last /\ q[i].last <= p
                             /\ q[i].kept = q[i].first..q[i].last
    BY <1>2, <1>3, <1>4 DEF InOrder
  <1>6. \A i, k \in 1..Len(q) : i < k => q[i].last < q[k].first
    <2> SUFFICES ASSUME NEW i \in 1..Len(q), NEW k \in 1..Len(q), i < k
                 PROVE  q[i].last < q[k].first
      OBVIOUS
    <2>1. i \in 1..Len(w)
      BY <1>1, <1>2
    <2>2. CASE k = n
      BY <1>2, <2>1, <2>2
    <2>3. CASE k # n
      BY <1>2, <2>1, <2>3 DEF InOrder
    <2> QED BY <2>2, <2>3
  <1>7. ASSUME NEW x, InPages(w, x) \/ x \in page.first..p PROVE InPages(q, x)
    <2>1. CASE InPages(w, x)
      <3>1. PICK i \in 1..Len(w) : x \in w[i].first..w[i].last
        BY <2>1 DEF InPages
      <3>2. i \in 1..Len(q) /\ q[i] = w[i]
        BY <1>2
      <3> QED BY <3>1, <3>2 DEF InPages
    <2>2. CASE x \in page.first..p
      BY <1>2, <2>2 DEF InPages
    <2> QED BY <1>7, <2>1, <2>2
  <1> QED BY <1>2, <1>5, <1>6, <1>7 DEF InOrder, q

\* The step of the journal is no part of what it holds.
LEMMA AnyStep ==
  ASSUME NEW top \in Nat, NEW j, JournalOK(j, top), NEW a \in {"loop", "keep"}
  PROVE  JournalOK([j EXCEPT !.at = a], top) /\ Pages([j EXCEPT !.at = a]) = Pages(j)
  <1>1. j \in JournalRecords
    BY DEF JournalOK
  <1>2. [j EXCEPT !.at = a] \in JournalRecords
    BY <1>1 DEF JournalRecords
  <1>3. /\ [j EXCEPT !.at = a].reading = j.reading /\ [j EXCEPT !.at = a].waiting = j.waiting
        /\ [j EXCEPT !.at = a].through = j.through
    BY <1>1 DEF JournalRecords
  <1> QED BY <1>2, <1>3 DEF JournalOK, Pages

\* Closing the page that is being read changes where it is held and nothing else.
LEMMA ClosePageKeeps ==
  ASSUME NEW top \in Nat, top <= MostHeld, NEW j, JournalOK(j, top)
  PROVE  /\ JournalOK(ClosePage(j), top) /\ Pages(ClosePage(j)) = Pages(j)
         /\ ClosePage(j).reading = <<>> /\ ClosePage(j).waiting = Pages(j)
         /\ ClosePage(j) \in JournalRecords
  <1> DEFINE w == j.waiting
             r == j.reading
  <1>1. /\ j \in JournalRecords /\ w \in Seq(PageRecords) /\ r \in Seq(PageRecords)
        /\ Len(w) \in Nat /\ Len(r) \in Nat /\ Len(r) <= 1 /\ j.through \in Nat /\ j.through <= top
        /\ InOrder(w \o r, top)
    BY DEF JournalOK, JournalRecords, Pages
  <1>2. CASE r = <<>>
    <2>1. ClosePage(j) = j
      BY <1>2, NothingLetGo DEF ClosePage
    <2>2. w \o r = w
      BY <1>1, <1>2
    <2> QED BY <1>1, <1>2, <2>1, <2>2 DEF Pages
  <1>3. CASE r # <<>>
    <2> DEFINE c == [j EXCEPT !.through = j.reading[1].last, !.reading = <<>>,
                              !.waiting = Append(@, j.reading[1])]
    <2>1. /\ r[1] \in PageRecords /\ w \o r = Append(w, r[1]) /\ Append(w, r[1]) \in Seq(PageRecords)
          /\ Append(w, r[1]) \o <<>> = Append(w, r[1])
          /\ Len(w \o r) = Len(w) + 1 /\ (w \o r)[Len(w) + 1] = r[1]
      <3> HIDE DEF w, r
      <3> QED BY <1>1, <1>3, OneBehind
    <2>2. r[1].last \in Nat /\ r[1].last <= top
      <3> HIDE DEF w, r
      <3>1. Len(w) + 1 \in 1..Len(w \o r)
        BY <1>1, <2>1
      <3>2. (w \o r)[Len(w) + 1].last <= top
        BY <1>1, <3>1 DEF InOrder
      <3>3. r[1].last \in Nat
        BY <2>1 DEF PageRecords
      <3> QED BY <2>1, <3>2, <3>3
    <2>4. /\ c \in JournalRecords /\ c.reading = <<>> /\ c.waiting = Append(w, r[1])
          /\ c.through = r[1].last
      <3> DEFINE e(t, v) == [j EXCEPT !.through = t, !.reading = <<>>, !.waiting = v]
      <3>1. ASSUME NEW t \in Nat, NEW v \in Seq(PageRecords)
            PROVE  /\ e(t, v) \in JournalRecords /\ e(t, v).reading = <<>>
                   /\ e(t, v).waiting = v /\ e(t, v).through = t
        <4>1. <<>> \in Seq(PageRecords)
          OBVIOUS
        <4> QED BY <1>1, <4>1 DEF JournalRecords
      <3>2. c = e(r[1].last, Append(w, r[1]))
        OBVIOUS
      <3> HIDE DEF c, w, r, e
      <3> QED BY <2>1, <2>2, <3>1, <3>2
    <2>5. Append(w, r[1]) = w \o r /\ Append(w, r[1]) \o <<>> = Append(w, r[1])
      BY <2>1
    <2> HIDE DEF c
    <2>6. Pages(c) = w \o r /\ c.waiting = w \o r
      BY <2>4, <2>5 DEF Pages
    <2>7. JournalOK(c, top)
      BY <1>1, <2>2, <2>4, <2>6 DEF JournalOK
    <2>8. LetGo(c) = c
      BY <2>7, NothingLetGo
    <2>9. ClosePage(j) = LetGo(c)
      BY <1>3 DEF ClosePage, c
    <2> QED BY <2>4, <2>6, <2>7, <2>8, <2>9 DEF Pages
  <1> QED BY <1>2, <1>3

LEMMA NewReading ==
  ASSUME NEW p \in Nat, NEW j \in JournalRecords, j.through <= p, NEW page \in PageRecords,
         InOrder(Append(j.waiting, page), p)
  PROVE  /\ JournalOK([j EXCEPT !.reading = <<page>>], p)
         /\ Pages([j EXCEPT !.reading = <<page>>]) = Append(j.waiting, page)
  <1> DEFINE k == [j EXCEPT !.reading = <<page>>]
  <1>1. <<page>> \in Seq(PageRecords) /\ Len(<<page>>) = 1
    OBVIOUS
  <1>2. \A r \in Seq(PageRecords) : /\ [j EXCEPT !.reading = r] \in JournalRecords
                                    /\ [j EXCEPT !.reading = r].reading = r
                                    /\ [j EXCEPT !.reading = r].waiting = j.waiting
                                    /\ [j EXCEPT !.reading = r].through = j.through
    BY DEF JournalRecords
  <1>3. k \in JournalRecords /\ k.reading = <<page>> /\ k.waiting = j.waiting /\ k.through = j.through
    BY <1>1, <1>2
  <1> HIDE DEF k
  <1>4. j.waiting \in Seq(PageRecords)
    BY DEF JournalRecords
  <1>5. j.waiting \o <<page>> = Append(j.waiting, page)
    BY <1>4
  <1>6. Pages(k) = Append(j.waiting, page)
    BY <1>3, <1>5 DEF Pages
  <1>7. JournalOK(k, p)
    BY <1>1, <1>3, <1>6 DEF JournalOK
  <1> QED BY <1>6, <1>7 DEF k

\* The pages that wait are in order without the one being read.
LEMMA WaitingInOrder ==
  ASSUME NEW d \in Nat, NEW j, JournalOK(j, d)
  PROVE  /\ InOrder(j.waiting, d)
         /\ j.reading = <<>> => Pages(j) = j.waiting
         /\ j.reading # <<>> =>
              /\ j.reading[1] \in PageRecords /\ 1 <= j.reading[1].first
              /\ j.reading[1].first <= j.reading[1].last /\ j.reading[1].last <= d
              /\ j.reading[1].kept = j.reading[1].first..j.reading[1].last
              /\ \A i \in 1..Len(j.waiting) : j.waiting[i].last < j.reading[1].first
              /\ \A x : InPages(Pages(j), x) =>
                   InPages(j.waiting, x) \/ x \in j.reading[1].first..j.reading[1].last
  <1> DEFINE w == j.waiting
             r == j.reading
             q == w \o r
  <1>1. w \in Seq(PageRecords) /\ r \in Seq(PageRecords) /\ Len(r) <= 1 /\ InOrder(q, d)
    BY DEF JournalOK, JournalRecords, Pages
  <1>2. Len(w) \in Nat /\ Len(r) \in Nat /\ Len(q) = Len(w) + Len(r)
        /\ \A i \in 1..Len(w) : q[i] = w[i] /\ i \in 1..Len(q)
    <2> HIDE DEF w, r
    <2> QED BY <1>1
  <1>3. InOrder(w, d)
    <2> HIDE DEF w, r, q
    <2> QED BY <1>1, <1>2 DEF InOrder
  <1>4. r = <<>> => q = w
    <2> HIDE DEF w, r
    <2> QED BY <1>1, ConcatEmptySeq
  <1>5. ASSUME r # <<>>
        PROVE  /\ r[1] \in PageRecords /\ 1 <= r[1].first /\ r[1].first <= r[1].last
               /\ r[1].last <= d /\ r[1].kept = r[1].first..r[1].last
               /\ \A i \in 1..Len(w) : w[i].last < r[1].first
               /\ \A x : InPages(q, x) => InPages(w, x) \/ x \in r[1].first..r[1].last
    <2> HIDE DEF w, r
    <2>1. r[1] \in PageRecords /\ Len(q) = Len(w) + 1 /\ q[Len(w) + 1] = r[1]
      BY <1>1, <1>5, OneBehind
    <2> HIDE DEF q
    <2>2. Len(w) + 1 \in 1..Len(q) /\ \A i \in 1..Len(w) : i < Len(w) + 1
      BY <1>2, <2>1
    <2>3. \A i \in 1..Len(q) : i = Len(w) + 1 \/ i \in 1..Len(w)
      BY <1>2, <2>1
    <2>4. \A i \in 1..Len(w) : w[i].last < r[1].first
      BY <1>1, <1>2, <2>1, <2>2 DEF InOrder
    <2>5. /\ 1 <= r[1].first /\ r[1].first <= r[1].last /\ r[1].last <= d
          /\ r[1].kept = r[1].first..r[1].last
      BY <1>1, <2>1, <2>2 DEF InOrder
    <2>6. ASSUME NEW x, InPages(q, x) PROVE InPages(w, x) \/ x \in r[1].first..r[1].last
      <3>1. PICK i \in 1..Len(q) : x \in q[i].first..q[i].last
        BY <2>6 DEF InPages
      <3> QED BY <1>2, <2>1, <2>3, <3>1 DEF InPages
    <2> QED BY <2>1, <2>4, <2>5, <2>6
  <1> HIDE DEF q
  <1>6. Pages(j) = q
    BY DEF Pages, q
  <1> QED BY <1>3, <1>4, <1>5, <1>6

\* Journal::read of the next record: the pages stay in order and gain its position.
LEMMA ReadIntoKeeps ==
  ASSUME NEW d \in Nat, NEW p \in Nat, d < p, p <= MostHeld, NEW j, JournalOK(j, d),
         Msg[log[p].msg].at \in Nat
  PROVE  /\ JournalOK(ReadInto(j, p), p)
         /\ \A x : InPages(Pages(j), x) \/ x = p => InPages(Pages(ReadInto(j, p)), x)
  <1> DEFINE at == Msg[log[p].msg].at
             w == j.waiting
             r == j.reading
             follows == r # <<>> /\ p = r[1].last + 1
             j1 == IF r # <<>> /\ ~follows THEN ClosePage(j) ELSE j
             page == IF follows
                     THEN [j1.reading[1] EXCEPT !.last = p, !.clock = Max2(@, at), !.kept = @ \cup {p}]
                     ELSE [first |-> p, last |-> p, from |-> at, clock |-> at, kept |-> {p}]
             j2 == [j1 EXCEPT !.reading = <<page>>]
  <1>1. j \in JournalRecords /\ j.through <= d /\ j.through \in Nat
    BY DEF JournalOK, JournalRecords
  <1>2. /\ InOrder(w, d) /\ (r = <<>> => Pages(j) = w)
        /\ r # <<>> => /\ r[1] \in PageRecords /\ 1 <= r[1].first /\ r[1].first <= r[1].last
                       /\ r[1].last <= d /\ r[1].kept = r[1].first..r[1].last
                       /\ \A i \in 1..Len(w) : w[i].last < r[1].first
                       /\ \A x : InPages(Pages(j), x) =>
                            InPages(w, x) \/ x \in r[1].first..r[1].last
    BY WaitingInOrder
  <1>3. ~(p <= j.through) /\ ~(r # <<>> /\ p <= r[1].last)
    <2>1. r # <<>> => r[1].last \in Nat
      BY <1>2 DEF PageRecords
    <2> QED BY <1>1, <1>2, <2>1
  <1>4. ReadInto(j, p) = IF PageSize(page) >= PagePositions THEN ClosePage(j2) ELSE j2
    BY <1>3 DEF ReadInto
  <1>5. /\ j1 \in JournalRecords /\ j1.through <= p /\ page \in PageRecords
        /\ InOrder(Append(j1.waiting, page), p)
        /\ \A x : InPages(Pages(j), x) \/ x = p => InPages(Append(j1.waiting, page), x)
    <2>1. CASE follows
      <3>1. j1 = j /\ r # <<>> /\ p = r[1].last + 1 /\ r[1] \in PageRecords
        BY <1>2, <2>1
      <3>2. page = [r[1] EXCEPT !.last = p, !.clock = Max2(@, at), !.kept = @ \cup {p}]
        BY <2>1
      <3>3. Max2(r[1].clock, at) \in Nat
        BY <3>1 DEF Max2, PageRecords
      <3>4. /\ page \in PageRecords /\ page.first = r[1].first /\ page.last = p
            /\ page.kept = r[1].kept \cup {p}
        <4> DEFINE e(c, k) == [r[1] EXCEPT !.last = p, !.clock = c, !.kept = k]
        <4>1. ASSUME NEW c \in Nat, NEW k \in SUBSET Nat
              PROVE  /\ e(c, k) \in PageRecords /\ e(c, k).first = r[1].first
                     /\ e(c, k).last = p /\ e(c, k).kept = k
          BY <3>1 DEF PageRecords
        <4>2. page = e(Max2(r[1].clock, at), r[1].kept \cup {p})
          BY <3>2
        <4>3. r[1].kept \cup {p} \in SUBSET Nat
          BY <3>1 DEF PageRecords
        <4> HIDE DEF page, e
        <4> QED BY <3>3, <4>1, <4>2, <4>3
      <3>5. r[1].first \in Nat /\ r[1].last \in Nat
        BY <3>1 DEF PageRecords
      <3> HIDE DEF page, j1, follows
      <3>6. page.kept = page.first..page.last /\ page.first <= page.last /\ 1 <= page.first
        BY <1>2, <3>1, <3>4, <3>5, SMTT(30)
      <3>7. \A i \in 1..Len(w) : w[i].last < page.first
        BY <1>2, <3>1, <3>4
      <3>8. /\ InOrder(Append(w, page), p)
            /\ \A x : InPages(w, x) \/ x \in page.first..p => InPages(Append(w, page), x)
        BY <1>2, <3>4, <3>6, <3>7, LastPage
      <3>9. \A x : InPages(Pages(j), x) \/ x = p => InPages(w, x) \/ x \in page.first..p
        BY <1>2, <3>1, <3>4, <3>5, <3>6
      <3>10. j1 \in JournalRecords /\ j1.through <= p /\ j1.waiting = w
        BY <1>1, <3>1
      <3> QED BY <3>4, <3>8, <3>9, <3>10
    <2>2. CASE ~follows
      <3>1. page = [first |-> p, last |-> p, from |-> at, clock |-> at, kept |-> {p}]
        BY <2>2
      <3>2. /\ page \in PageRecords /\ page.first = p /\ page.last = p
            /\ page.kept = page.first..page.last /\ 1 <= page.first /\ page.first <= page.last
        <4>1. p..p = {p} /\ 1 <= p /\ {p} \in SUBSET Nat /\ at \in Nat
          OBVIOUS
        <4> HIDE DEF at
        <4>2. page \in PageRecords /\ page.first = p /\ page.last = p /\ page.kept = {p}
          BY <3>1, <4>1 DEF PageRecords
        <4> HIDE DEF page
        <4> QED BY <4>1, <4>2
      <3>3. j1 \in JournalRecords /\ j1.waiting = Pages(j) /\ j1.through <= d
            /\ InOrder(Pages(j), d) /\ j1.through \in Nat
        <4>1. d <= MostHeld /\ MostHeld \in Nat
          BY JournalAssumption
        <4>2. CASE r # <<>>
          <5>1. j1 = ClosePage(j)
            BY <2>2, <4>2
          <5>2. /\ JournalOK(ClosePage(j), d) /\ ClosePage(j).waiting = Pages(j)
                /\ ClosePage(j) \in JournalRecords
            BY <4>1, ClosePageKeeps
          <5> HIDE DEF j1
          <5>3. j1.through \in Nat /\ j1.through <= d
            BY <5>1, <5>2 DEF JournalOK, JournalRecords
          <5> QED BY <5>1, <5>2, <5>3 DEF JournalOK
        <4>3. CASE r = <<>>
          <5>1. j1 = j
            BY <4>3
          <5> HIDE DEF j1
          <5> QED BY <1>1, <1>2, <4>3, <5>1 DEF JournalOK
        <4> QED BY <4>2, <4>3
      <3> HIDE DEF page, j1, follows
      <3>4. \A i \in 1..Len(Pages(j)) : Pages(j)[i].last < page.first
        <4>1. \A i \in 1..Len(Pages(j)) : Pages(j)[i].last <= d /\ Pages(j)[i] \in PageRecords
          BY <3>3 DEF InOrder
        <4>2. \A g \in PageRecords : g.last \in Nat
          BY DEF PageRecords
        <4> QED BY <3>2, <4>1, <4>2
      <3>5. /\ InOrder(Append(Pages(j), page), p)
            /\ \A x : InPages(Pages(j), x) \/ x \in page.first..p
                        => InPages(Append(Pages(j), page), x)
        <4>1. d <= p /\ page.last = p
          BY <3>2
        <4> QED BY <3>2, <3>3, <3>4, <4>1, LastPage
      <3>6. p \in page.first..p
        BY <3>2
      <3> QED BY <3>2, <3>3, <3>5, <3>6
    <2> QED BY <2>1, <2>2
  <1> HIDE DEF page, j1, follows
  <1>6. JournalOK(j2, p) /\ Pages(j2) = Append(j1.waiting, page)
    BY <1>5, NewReading
  <1> HIDE DEF j2
  <1>7. JournalOK(ClosePage(j2), p) /\ Pages(ClosePage(j2)) = Pages(j2)
    BY <1>6, ClosePageKeeps
  <1> QED BY <1>4, <1>5, <1>6, <1>7

-----------------------------------------------------------------------------
(* The journal beside the log. *)

SubRecords == [state : {"off", "replay", "live", "ended"}, delivered : Nat, cursor : Nat]

\* The position the journal's subscription has handed over.
Handed == sub["journal"].delivered

\* A position is in a page that was kept, or the log no longer holds it.
Covered(p) == p <= trimmed \/ \E page \in kept : p \in page.kept

LogSide ==
  /\ wiring \in WiringSpace /\ trimmed \in 0..Len(log) /\ Len(log) <= MaxRecords
  /\ DOMAIN sub = Readers /\ DOMAIN committed = Readers
  /\ sub["journal"] \in SubRecords /\ (sub["journal"].state # "off" => wiring.journaled)
  /\ Handed <= Len(log) /\ committed["journal"] \in 0..Len(log)

\* What the journal was handed is kept, in a page it holds, or gone from the log.
ReadIsHeld == \A p \in 1..Handed : Covered(p) \/ InPages(Pages(journal), p)

KeepInv == LogSide /\ JournalOK(journal, Handed) /\ ReadIsHeld /\ JournalKeptWhatItPassed

LEMMA BothRead == "journal" \in Readers /\ "projector" \in Readers /\ "journal" # "projector"
  BY ProjectorAssumption

\* A step that leaves the journal's own state alone.
LEMMA BesideTheJournal ==
  ASSUME StreamInv, KeepInv, LogGrows, StreamInv',
         wiring' = wiring, kept' = kept, journal' = journal,
         trimmed' \in 0..Len(log'), trimmed <= trimmed',
         DOMAIN sub' = DOMAIN sub, DOMAIN committed' = DOMAIN committed,
         committed'["journal"] = committed["journal"],
         sub'["journal"] \in SubRecords, sub'["journal"].delivered = sub["journal"].delivered,
         sub'["journal"].state = sub["journal"].state
  PROVE  KeepInv'
  <1>1. Len(log) \in Nat /\ Len(log') \in Nat /\ Len(log) <= Len(log') /\ MaxRecords \in Nat
        /\ (Len(log) <= MaxRecords => Len(log') <= MaxRecords)
    BY LogAssumption DEF StreamInv, LogGrows
  <1>2. Handed' = Handed /\ Handed \in Nat
    BY DEF Handed, KeepInv, LogSide, SubRecords
  <1>3. LogSide'
    BY <1>1, <1>2 DEF KeepInv, LogSide, Handed
  <1>4. ASSUME NEW p \in Nat, Covered(p) PROVE Covered(p)'
    <2>1. trimmed \in Nat /\ trimmed' \in Nat
      BY <1>1 DEF KeepInv, LogSide
    <2> QED BY <1>4, <2>1 DEF Covered
  <1>5. JournalOK(journal, Handed)'
    BY <1>2 DEF KeepInv
  <1>6. ReadIsHeld'
    BY <1>2, <1>4 DEF KeepInv, ReadIsHeld
  <1>7. JournalKeptWhatItPassed'
    <2>1. ASSUME NEW p \in 1..committed["journal"] PROVE Covered(p)'
      <3>1. Covered(p)
        BY DEF KeepInv, JournalKeptWhatItPassed, Covered
      <3> QED BY <1>4, <3>1
    <2> QED BY <2>1 DEF JournalKeptWhatItPassed, Covered
  <1> QED BY <1>3, <1>5, <1>6, <1>7 DEF KeepInv

\* The steps of the projector's task leave what is the journal's alone.
LEMMA TaskLeavesTheJournal ==
  ASSUME KeepInv, ReadStep \/ FlushStep \/ Shutdown
  PROVE  /\ UNCHANGED <<wiring, log, trimmed, journal, kept>>
         /\ DOMAIN sub' = DOMAIN sub /\ DOMAIN committed' = DOMAIN committed
         /\ committed'["journal"] = committed["journal"] /\ sub'["journal"] = sub["journal"]
  <1>1. /\ "journal" \in DOMAIN sub /\ "journal" \in DOMAIN committed
        /\ "journal" # "projector"
    BY BothRead DEF KeepInv, LogSide
  <1>2. \A v : LET f == [sub EXCEPT !["projector"] = v]
               IN  DOMAIN f = DOMAIN sub /\ f["journal"] = sub["journal"]
    BY <1>1
  <1>3. \A v : LET f == [committed EXCEPT !["projector"] = v]
               IN  DOMAIN f = DOMAIN committed /\ f["journal"] = committed["journal"]
    BY <1>1
  <1>4. CASE StartProjector
    BY <1>2, <1>4 DEF StartProjector, journalVars
  <1>5. CASE Handle
    BY <1>2, <1>5 DEF Handle, journalVars
  <1>6. CASE CaughtUp
    BY <1>1, <1>6 DEF CaughtUp, journalVars
  <1>7. CASE SourceEnds
    BY <1>1, <1>7 DEF SourceEnds, journalVars
  <1>8. CASE SweepTimer \/ FlushTimer \/ Shutdown
    BY <1>8 DEF SweepTimer, FlushTimer, Shutdown, journalVars, logVars, busVars
  <1>9. CASE WriteSpans \/ WriteGap \/ WriteClosed \/ SaveFold \/ FlushAsked
    BY <1>9 DEF WriteSpans, WriteGap, WriteClosed, SaveFold, FlushAsked, journalVars, busVars
  <1>10. CASE Commit
    BY <1>3, <1>10 DEF Commit, journalVars
  <1> QED BY <1>4, <1>5, <1>6, <1>7, <1>8, <1>9, <1>10 DEF ReadStep, FlushStep

LEMMA FreshJournal ==
  ASSUME NEW top \in Nat
  PROVE  JournalOK(NewJournal(0), top) /\ Pages(NewJournal(0)) = <<>>
  <1> DEFINE j == NewJournal(0)
  <1>1. j.reading = <<>> /\ j.waiting = <<>> /\ j.through = 0 /\ j \in JournalRecords
    BY DEF NewJournal, JournalRecords
  <1>2. <<>> \o <<>> = <<>> /\ Len(<<>>) = 0
    OBVIOUS
  <1>3. InOrder(<<>>, top)
    BY DEF InOrder
  <1> HIDE DEF j
  <1>4. Pages(j) = <<>>
    BY <1>1, <1>2 DEF Pages
  <1>5. Len(j.reading) <= 1 /\ j.through <= top
    BY <1>1, <1>2
  <1>6. JournalOK(j, top)
    BY <1>1, <1>3, <1>4, <1>5 DEF JournalOK
  <1> QED BY <1>4, <1>6 DEF j

\* A crash or an exit: nothing is handed over and nothing is held.
LEMMA ForgottenJournal ==
  ASSUME StreamInv, KeepInv, LogGrows, StreamInv',
         sub' = [c \in Readers |-> NoSubscription], journal' = NewJournal(0),
         UNCHANGED <<wiring, trimmed, committed, kept>>
  PROVE  KeepInv'
  <1>1. Len(log) \in Nat /\ Len(log') \in Nat /\ Len(log) <= Len(log') /\ MaxRecords \in Nat
        /\ (Len(log) <= MaxRecords => Len(log') <= MaxRecords)
    BY LogAssumption DEF StreamInv, LogGrows
  <1>2. sub'["journal"] = NoSubscription /\ DOMAIN sub' = Readers
    BY BothRead
  <1>3. sub'["journal"] \in SubRecords /\ Handed' = 0 /\ sub'["journal"].state = "off"
    BY <1>2 DEF NoSubscription, SubRecords, Handed
  <1>4. LogSide'
    BY <1>1, <1>2, <1>3 DEF KeepInv, LogSide
  <1>5. JournalOK(NewJournal(0), 0)
    BY FreshJournal
  <1>6. ReadIsHeld'
    BY <1>3 DEF ReadIsHeld
  <1>7. JournalKeptWhatItPassed'
    BY DEF KeepInv, JournalKeptWhatItPassed
  <1> QED BY <1>3, <1>4, <1>5, <1>6, <1>7 DEF KeepInv

LEMMA StartJournalKeeps ==
  ASSUME StreamInv, BusInv, KeepInv, StartJournal
  PROVE  KeepInv'
  <1>1. wiring.journaled /\ wiring.log = "laser" /\ "journal" \in DOMAIN sub
    BY BothRead DEF StartJournal, KeepInv, LogSide, WiringSpace
  <1>2. /\ committed["journal"] \in Nat /\ committed["journal"] <= Len(log)
        /\ Len(log) \in Nat /\ Len(live) \in Nat
    BY DEF KeepInv, LogSide, StreamInv, BusInv
  <1>3. /\ journal' = NewJournal(0)
        /\ sub' = [sub EXCEPT !["journal"] = Subscribed(committed["journal"])]
        /\ UNCHANGED <<wiring, log, trimmed, committed, kept>>
    BY <1>1 DEF StartJournal, StoredCheckpoint, ColdStart
  <1>4. sub'["journal"] = Subscribed(committed["journal"]) /\ DOMAIN sub' = DOMAIN sub
    BY <1>1, <1>3
  <1>5. sub'["journal"] \in SubRecords /\ Handed' = committed["journal"]
    BY <1>2, <1>4 DEF Subscribed, SubRecords, Handed
  <1>6. LogSide'
    BY <1>1, <1>2, <1>3, <1>4, <1>5 DEF KeepInv, LogSide
  <1>7. JournalOK(journal', Handed')
    BY <1>2, <1>3, <1>5, FreshJournal
  <1>8. JournalKeptWhatItPassed'
    BY <1>3 DEF KeepInv, JournalKeptWhatItPassed
  <1>9. ReadIsHeld'
    BY <1>3, <1>5, <1>8 DEF ReadIsHeld, JournalKeptWhatItPassed, Covered
  <1> QED BY <1>6, <1>7, <1>8, <1>9 DEF KeepInv

\* What the broker hands over next.
LEMMA NextOfJournal ==
  ASSUME StreamInv, KeepInv, NextDelivery("journal") # 0
  PROVE  /\ wiring.log = "laser" /\ wiring.journaled
         /\ NextDelivery("journal") = Max2(Handed, trimmed) + 1
         /\ NextDelivery("journal") <= Len(log)
  <1>1. /\ sub["journal"].state \in {"off", "replay", "live", "ended"}
        /\ (sub["journal"].state # "off" => wiring.log = "laser" /\ wiring.journaled)
    BY DEF KeepInv, LogSide, SubRecords, WiringSpace
  <1>2. CASE sub["journal"].state \in {"off", "ended"}
    <2>1. NextDelivery("journal") = 0
      BY <1>2 DEF NextDelivery
    <2> QED BY <2>1
  <1>3. CASE sub["journal"].state \in {"replay", "live"}
    <2> DEFINE next == Max2(Handed, trimmed) + 1
    <2>1. wiring.log = "laser" /\ wiring.journaled
      BY <1>1, <1>3
    <2>2. NextDelivery("journal") = IF next <= Len(log) THEN next ELSE 0
      BY <1>3, <2>1 DEF NextDelivery, Handed
    <2> HIDE DEF next
    <2>3. next <= Len(log)
      BY <2>2
    <2> QED BY <2>1, <2>2, <2>3 DEF next
  <1> QED BY <1>1, <1>2, <1>3

LEMMA JournalReadsKeeps ==
  ASSUME MaxRecords <= MostHeld, StreamInv, KeepInv, JournalReads
  PROVE  KeepInv'
  <1> DEFINE p == NextDelivery("journal")
             read == ReadInto(journal, p)
  <1>1. /\ p # 0 /\ sub' = [sub EXCEPT !["journal"] = Delivered("journal", p)]
        /\ journal' = IF read.through # journal.through THEN [read EXCEPT !.at = "keep"] ELSE read
        /\ UNCHANGED <<wiring, log, trimmed, committed, kept>>
    BY DEF JournalReads
  <1>2. wiring.log = "laser" /\ wiring.journaled /\ p = Max2(Handed, trimmed) + 1 /\ p <= Len(log)
    BY <1>1, NextOfJournal
  <1> HIDE DEF p
  <1>3. /\ Handed \in Nat /\ trimmed \in Nat /\ Len(log) \in Nat /\ Len(log) <= MaxRecords
        /\ MaxRecords \in Nat /\ MostHeld \in Nat /\ "journal" \in DOMAIN sub
        /\ sub["journal"] \in SubRecords
    BY BothRead, LogAssumption, JournalAssumption
       DEF KeepInv, LogSide, StreamInv, SubRecords, Handed
  <1>4. p \in Nat /\ Handed < p /\ trimmed < p /\ p <= MostHeld
        /\ \A x \in 1..p : x = p \/ x \in 1..Handed \/ x <= trimmed
    BY <1>2, <1>3 DEF Max2
  <1>5. sub'["journal"] = Delivered("journal", p) /\ DOMAIN sub' = DOMAIN sub
    BY <1>1, <1>3
  <1>6. Delivered("journal", p) \in SubRecords /\ Delivered("journal", p).delivered = p
    BY <1>2, <1>3, <1>4 DEF Delivered, SubRecords
  <1>7. Handed' = p
    BY <1>5, <1>6 DEF Handed
  <1>8. LogSide'
    BY <1>1, <1>2, <1>5, <1>6, <1>7 DEF KeepInv, LogSide
  <1>9. Msg[log[p].msg].at \in Nat
    <2>1. p \in 1..Len(log) /\ log \in Seq(LogRecords)
      <3>1. 1 <= p
        BY <1>3, <1>4
      <3>2. p \in 1..Len(log)
        BY <1>2, <1>3, <1>4, <3>1
      <3> QED BY <3>2 DEF StreamInv
    <2>2. log[p] \in LogRecords
      BY <2>1
    <2>3. log[p].msg \in Msgs
      BY <2>2 DEF LogRecords
    <2> QED BY <2>3, RunOfMessage
  <1>10. /\ JournalOK(read, p)
         /\ \A x : InPages(Pages(journal), x) \/ x = p => InPages(Pages(read), x)
    BY <1>3, <1>4, <1>9, ReadIntoKeeps DEF KeepInv
  <1> HIDE DEF read
  <1>11. JournalOK(journal', p) /\ Pages(journal') = Pages(read)
    <2>1. "keep" \in {"loop", "keep"}
      OBVIOUS
    <2>2. /\ JournalOK([read EXCEPT !.at = "keep"], p)
          /\ Pages([read EXCEPT !.at = "keep"]) = Pages(read)
      BY <1>4, <1>10, <2>1, AnyStep
    <2> QED BY <1>1, <1>10, <2>2
  <1>12. ReadIsHeld'
    <2>1. ASSUME NEW x \in 1..p PROVE Covered(x)' \/ InPages(Pages(journal'), x)
      <3>1. CASE x \in 1..Handed
        <4>1. Covered(x) \/ InPages(Pages(journal), x)
          BY <3>1 DEF KeepInv, ReadIsHeld
        <4> QED BY <1>1, <1>10, <1>11, <4>1 DEF Covered
      <3>2. CASE x = p
        BY <1>10, <1>11, <3>2
      <3>3. CASE x <= trimmed
        BY <1>1, <3>3 DEF Covered
      <3> QED BY <1>4, <3>1, <3>2, <3>3
    <2> QED BY <1>7, <2>1 DEF ReadIsHeld
  <1>13. JournalKeptWhatItPassed'
    BY <1>1 DEF KeepInv, JournalKeptWhatItPassed
  <1> QED BY <1>7, <1>8, <1>11, <1>12, <1>13 DEF KeepInv

\* The page being read is closed, or not, and the journal goes on to keep pages.
LEMMA ClosingKeepsThem ==
  ASSUME MaxRecords <= MostHeld, StreamInv, KeepInv,
         NEW closed \in {journal, ClosePage(journal)},
         journal' = [closed EXCEPT !.at = "keep"],
         UNCHANGED <<wiring, log, trimmed, committed, kept>>,
         DOMAIN sub' = DOMAIN sub, sub'["journal"] \in SubRecords,
         sub'["journal"].delivered = sub["journal"].delivered,
         sub'["journal"].state # "off" => wiring.journaled
  PROVE  KeepInv'
  <1>1. /\ Handed \in Nat /\ Len(log) \in Nat /\ Handed <= Len(log) /\ Len(log) <= MaxRecords
        /\ MaxRecords \in Nat /\ MostHeld \in Nat
    BY LogAssumption, JournalAssumption DEF KeepInv, LogSide, StreamInv, SubRecords, Handed
  <1>2. JournalOK(journal, Handed) /\ Handed <= MostHeld
    BY <1>1 DEF KeepInv
  <1>3. JournalOK(closed, Handed) /\ Pages(closed) = Pages(journal)
    BY <1>1, <1>2, ClosePageKeeps
  <1>4. JournalOK(journal', Handed) /\ Pages(journal') = Pages(journal)
    <2>1. "keep" \in {"loop", "keep"}
      OBVIOUS
    <2> QED BY <1>1, <1>3, <2>1, AnyStep
  <1>5. Handed' = Handed
    BY DEF Handed
  <1>6. LogSide'
    BY <1>5 DEF KeepInv, LogSide
  <1>7. ReadIsHeld'
    BY <1>4, <1>5 DEF KeepInv, ReadIsHeld, Covered
  <1>8. JournalKeptWhatItPassed'
    BY DEF KeepInv, JournalKeptWhatItPassed
  <1> QED BY <1>4, <1>5, <1>6, <1>7, <1>8 DEF KeepInv

LEMMA JournalCaughtUpKeeps ==
  ASSUME MaxRecords <= MostHeld, StreamInv, KeepInv, JournalCaughtUp
  PROVE  KeepInv'
  <1>1. /\ sub' = [sub EXCEPT !["journal"].state = "live"]
        /\ journal' = [ClosePage(journal) EXCEPT !.at = "keep"]
        /\ sub["journal"].state = "replay"
        /\ UNCHANGED <<wiring, log, trimmed, committed, kept>>
    BY DEF JournalCaughtUp, CatchesUp
  <1>2. "journal" \in DOMAIN sub /\ sub["journal"] \in SubRecords /\ wiring.journaled
    BY <1>1, BothRead DEF KeepInv, LogSide
  <1>3. sub'["journal"] = [sub["journal"] EXCEPT !.state = "live"] /\ DOMAIN sub' = DOMAIN sub
    BY <1>1, <1>2
  <1>4. /\ [sub["journal"] EXCEPT !.state = "live"] \in SubRecords
        /\ [sub["journal"] EXCEPT !.state = "live"].delivered = sub["journal"].delivered
    BY <1>2 DEF SubRecords
  <1> QED BY <1>1, <1>2, <1>3, <1>4, ClosingKeepsThem

LEMMA JournalTickKeeps ==
  ASSUME MaxRecords <= MostHeld, StreamInv, KeepInv, JournalTick
  PROVE  KeepInv'
  <1>1. PICK closed \in {journal, ClosePage(journal)} : journal' = [closed EXCEPT !.at = "keep"]
    BY DEF JournalTick
  <1>2. UNCHANGED <<wiring, log, trimmed, committed, kept, sub>>
    BY DEF JournalTick, logVars, busVars
  <1>3. sub["journal"] \in SubRecords /\ (sub["journal"].state # "off" => wiring.journaled)
    BY DEF KeepInv, LogSide
  <1> QED BY <1>1, <1>2, <1>3, ClosingKeepsThem

\* Without its first member a sequence of pages is in order still.
LEMMA FirstPageLeaves ==
  ASSUME NEW d \in Nat, NEW j, JournalOK(j, d), j.waiting # <<>>
  PROVE  /\ JournalOK([j EXCEPT !.waiting = Tail(@)], d)
         /\ Head(j.waiting) \in PageRecords /\ Head(j.waiting).last <= d
         /\ Head(j.waiting).kept = Head(j.waiting).first..Head(j.waiting).last
         /\ \A x : InPages(Pages(j), x) =>
              \/ x \in Head(j.waiting).first..Head(j.waiting).last
              \/ /\ InPages(Pages([j EXCEPT !.waiting = Tail(@)]), x)
                 /\ x > Head(j.waiting).last
  <1> DEFINE w == j.waiting
             r == j.reading
             q == w \o r
             u == Tail(w) \o r
             k == [j EXCEPT !.waiting = Tail(@)]
  <1>1. /\ w \in Seq(PageRecords) /\ r \in Seq(PageRecords) /\ Len(r) <= 1 /\ InOrder(q, d)
        /\ j \in JournalRecords /\ j.through <= d
    BY DEF JournalOK, JournalRecords, Pages
  <1>2. /\ Tail(w) \in Seq(PageRecords) /\ Head(w) \in PageRecords /\ Head(w) = w[1]
        /\ Len(w) \in Nat \ {0} /\ Len(Tail(w)) = Len(w) - 1
        /\ \A i \in 1..(Len(w) - 1) : Tail(w)[i] = w[i + 1]
    <2> HIDE DEF w
    <2> QED BY <1>1, HeadTailProperties, EmptySeq DEF w
  <1>3. k \in JournalRecords /\ k.waiting = Tail(w) /\ k.reading = r /\ k.through = j.through
    <2>1. \A t \in Seq(PageRecords) : /\ [j EXCEPT !.waiting = t] \in JournalRecords
                                      /\ [j EXCEPT !.waiting = t].waiting = t
                                      /\ [j EXCEPT !.waiting = t].reading = j.reading
                                      /\ [j EXCEPT !.waiting = t].through = j.through
      BY <1>1 DEF JournalRecords
    <2> QED BY <1>2, <2>1
  <1>4. Pages(k) = u /\ Pages(j) = q
    BY <1>3 DEF Pages
  <1>5. /\ Len(q) = Len(u) + 1 /\ Len(u) \in Nat /\ u \in Seq(PageRecords) /\ q[1] = Head(w)
        /\ \A i \in 1..Len(u) : u[i] = q[i + 1] /\ i + 1 \in 1..Len(q)
    <2> HIDE DEF w, r
    <2>1. /\ Len(q) = Len(w) + Len(r) /\ Len(u) = Len(Tail(w)) + Len(r) /\ Len(r) \in Nat
          /\ u \in Seq(PageRecords)
      BY <1>1, <1>2
    <2>2. Len(q) = Len(u) + 1 /\ Len(u) \in Nat
      BY <1>2, <2>1
    <2>3. q[1] = w[1]
      BY <1>1, <1>2
    <2>4. ASSUME NEW i \in 1..Len(u) PROVE u[i] = q[i + 1] /\ i + 1 \in 1..Len(q)
      <3>1. CASE i <= Len(w) - 1
        <4>1. i \in 1..Len(Tail(w)) /\ i + 1 \in 1..Len(w)
          BY <1>2, <3>1, <2>2
        <4>2. u[i] = Tail(w)[i] /\ q[i + 1] = w[i + 1]
          BY <1>1, <1>2, <4>1, ConcatProperties
        <4> QED BY <1>2, <2>1, <2>2, <3>1, <4>1, <4>2
      <3>2. CASE i > Len(w) - 1
        <4>1. i - (Len(w) - 1) \in 1..Len(r) /\ i + 1 - Len(w) = i - (Len(w) - 1)
          BY <1>2, <2>1, <2>2, <3>2
        <4>2. u[i] = r[i - (Len(w) - 1)]
          BY <1>1, <1>2, <2>1, <3>2, ConcatProperties
        <4>3. q[i + 1] = r[i + 1 - Len(w)]
          BY <1>1, <1>2, <2>1, <2>2, <3>2, ConcatProperties
        <4> QED BY <2>2, <4>1, <4>2, <4>3
      <3> QED BY <1>2, <2>2, <3>1, <3>2
    <2> QED BY <1>2, <2>1, <2>2, <2>3, <2>4
  <1> HIDE DEF w, r, q, u, k
  <1>6. /\ Head(w).last <= d /\ Head(w).kept = Head(w).first..Head(w).last
    <2>1. 1 \in 1..Len(q)
      BY <1>5
    <2> QED BY <1>1, <1>5, <2>1 DEF InOrder
  <1>7. InOrder(u, d)
    <2>1. \A i \in 1..Len(u) : /\ 1 <= u[i].first /\ u[i].first <= u[i].last /\ u[i].last <= d
                               /\ u[i].kept = u[i].first..u[i].last
      BY <1>1, <1>5 DEF InOrder
    <2>2. ASSUME NEW i \in 1..Len(u), NEW l \in 1..Len(u), i < l PROVE u[i].last < u[l].first
      <3>1. i + 1 < l + 1
        BY <1>5, <2>2
      <3> QED BY <1>1, <1>5, <3>1 DEF InOrder
    <2> QED BY <1>5, <2>1, <2>2 DEF InOrder
  <1>8. JournalOK(k, d)
    BY <1>1, <1>3, <1>4, <1>7 DEF JournalOK
  <1>9. ASSUME NEW x, InPages(q, x)
        PROVE  x \in Head(w).first..Head(w).last \/ (InPages(u, x) /\ x > Head(w).last)
    <2>1. PICK i \in 1..Len(q) : x \in q[i].first..q[i].last
      BY <1>9 DEF InPages
    <2>2. CASE i = 1
      BY <1>5, <2>1, <2>2
    <2>3. CASE i # 1
      <3>1. i - 1 \in 1..Len(u) /\ i - 1 + 1 = i /\ 1 \in 1..Len(q) /\ 1 < i
        BY <1>5, <2>3
      <3>2. u[i - 1] = q[i]
        BY <1>5, <3>1
      <3>3. q[1].last < q[i].first
        BY <1>1, <3>1 DEF InOrder
      <3>4. q[1] \in PageRecords /\ q[i] \in PageRecords
        BY <1>1, <3>1 DEF InOrder
      <3>5. q[1].last \in Nat /\ q[i].first \in Nat /\ q[i].last \in Nat
        BY <3>4 DEF PageRecords
      <3>6. x > Head(w).last
        BY <1>5, <2>1, <3>3, <3>5
      <3> QED BY <2>1, <3>1, <3>2, <3>6 DEF InPages
    <2> QED BY <2>2, <2>3
  <1> QED BY <1>2, <1>4, <1>6, <1>8, <1>9 DEF w, k

\* The first waiting page is kept, and the position committed is its last.
LEMMA KeepPageKeeps ==
  ASSUME StreamInv, KeepInv, KeepPage
  PROVE  KeepInv'
  <1> DEFINE page == Head(journal.waiting)
  <1>1. /\ Handed \in Nat /\ Len(log) \in Nat /\ Handed <= Len(log) /\ JournalOK(journal, Handed)
        /\ "journal" \in DOMAIN committed /\ committed["journal"] \in 0..Len(log)
    BY BothRead DEF KeepInv, LogSide, StreamInv, SubRecords, Handed
  <1>2. UNCHANGED <<wiring, log, trimmed, sub>> /\ Handed' = Handed
    BY DEF KeepPage, Handed
  <1>3. CASE journal' = [journal EXCEPT !.at = "loop"] /\ UNCHANGED <<kept, committed>>
    <2>1. "loop" \in {"loop", "keep"}
      OBVIOUS
    <2>2. JournalOK(journal', Handed) /\ Pages(journal') = Pages(journal)
      BY <1>1, <1>3, <2>1, AnyStep
    <2>3. LogSide'
      BY <1>2, <1>3 DEF KeepInv, LogSide
    <2>4. ReadIsHeld'
      BY <1>2, <1>3, <2>2 DEF KeepInv, ReadIsHeld, Covered
    <2>5. JournalKeptWhatItPassed'
      BY <1>2, <1>3 DEF KeepInv, JournalKeptWhatItPassed
    <2> QED BY <1>2, <2>2, <2>3, <2>4, <2>5 DEF KeepInv
  <1>4. ASSUME journal.waiting # <<>>, kept' = kept \cup {page},
               journal' = [journal EXCEPT !.waiting = Tail(@)],
               committed' \in {committed, [committed EXCEPT !["journal"] = page.last]}
        PROVE  KeepInv'
    <2>1. /\ JournalOK(journal', Handed) /\ page \in PageRecords /\ page.last <= Handed
          /\ page.kept = page.first..page.last
          /\ \A x : InPages(Pages(journal), x) =>
               \/ x \in page.first..page.last
               \/ InPages(Pages(journal'), x) /\ x > page.last
      BY <1>1, <1>4, FirstPageLeaves
    <2>2. page.last \in Nat
      BY <2>1 DEF PageRecords
    <2> HIDE DEF page
    <2>3. ASSUME NEW x, Covered(x) PROVE Covered(x)'
      BY <1>2, <1>4, <2>3 DEF Covered
    <2>4. ASSUME NEW x, x \in page.first..page.last PROVE Covered(x)'
      BY <1>4, <2>1, <2>4 DEF Covered
    <2>5. ASSUME NEW x \in 1..Handed
          PROVE  Covered(x)' \/ (InPages(Pages(journal'), x) /\ x > page.last)
      <3>1. Covered(x) \/ InPages(Pages(journal), x)
        BY DEF KeepInv, ReadIsHeld
      <3> QED BY <2>1, <2>3, <2>4, <3>1
    <2>6. ReadIsHeld'
      BY <1>2, <2>5 DEF ReadIsHeld
    <2>7. ASSUME NEW x \in 1..page.last PROVE Covered(x)'
      <3>1. x \in 1..Handed /\ ~(x > page.last)
        BY <1>1, <2>1, <2>2
      <3> QED BY <2>5, <3>1
    <2>8. DOMAIN committed' = DOMAIN committed
          /\ committed'["journal"] \in {committed["journal"], page.last}
      BY <1>1, <1>4
    <2>9. JournalKeptWhatItPassed'
      <3>1. ASSUME NEW x \in 1..committed["journal"] PROVE Covered(x)'
        <4>1. Covered(x)
          BY DEF KeepInv, JournalKeptWhatItPassed, Covered
        <4> QED BY <2>3, <4>1
      <3> QED BY <2>7, <2>8, <3>1 DEF JournalKeptWhatItPassed, Covered
    <2>10. committed'["journal"] \in 0..Len(log)
      BY <1>1, <2>1, <2>2, <2>8
    <2>11. LogSide'
      BY <1>2, <2>8, <2>10 DEF KeepInv, LogSide
    <2> QED BY <1>2, <2>1, <2>6, <2>9, <2>11 DEF KeepInv
  <1> QED BY <1>3, <1>4 DEF KeepPage

LEMMA KeepInit ==
  ASSUME NEW held \in Seq(Msgs), Len(held) <= MaxRecords, wiring \in WiringSpace,
         ProjectorInit(held)
  PROVE  KeepInv
  <1>1. LogInit(held) /\ journal = NewJournal(0) /\ kept = {}
    BY DEF ProjectorInit
  <1>2. sub = [c \in Readers |-> NoSubscription] /\ committed = [c \in Readers |-> 0]
        /\ trimmed = 0
    BY <1>1 DEF LogInit
  <1>3. Len(log) = Len(held) /\ Len(log) \in Nat
    <2>1. StreamInv
      BY <1>1, InitNumbers
    <2>2. Len(log) \in Nat /\ DOMAIN log = 1..Len(log)
      BY <2>1 DEF StreamInv
    <2>3. DOMAIN log = DOMAIN held
      BY <1>1 DEF LogInit
    <2>4. Len(held) \in Nat /\ DOMAIN held = 1..Len(held)
      OBVIOUS
    <2>5. ASSUME NEW m \in Nat, NEW n \in Nat, 1..m = 1..n PROVE m = n
      <3>1. (m >= 1 => m \in 1..n) /\ (n >= 1 => n \in 1..m)
        BY <2>5
      <3> QED BY <3>1
    <2> QED BY <2>2, <2>3, <2>4, <2>5
  <1>4. sub["journal"] = NoSubscription /\ committed["journal"] = 0
    BY <1>2, BothRead
  <1>5. sub["journal"] \in SubRecords /\ Handed = 0 /\ sub["journal"].state = "off"
    BY <1>4 DEF NoSubscription, SubRecords, Handed
  <1>6. LogSide
    BY <1>2, <1>3, <1>4, <1>5 DEF LogSide
  <1>7. JournalOK(journal, Handed)
    BY <1>1, <1>5, FreshJournal
  <1>8. ReadIsHeld /\ JournalKeptWhatItPassed
    BY <1>4, <1>5 DEF ReadIsHeld, JournalKeptWhatItPassed
  <1> QED BY <1>6, <1>7, <1>8 DEF KeepInv

LEMMA KeepStep ==
  ASSUME MaxRecords <= MostHeld
  PROVE  StreamInv /\ BusInv /\ KeepInv /\ StreamInv' /\ [ProjectorNext]_vars => KeepInv'
  <1> SUFFICES ASSUME StreamInv, BusInv, KeepInv, StreamInv', [ProjectorNext]_vars
               PROVE  KeepInv'
    OBVIOUS
  <1>0. LogGrows
    BY EveryStepGrows
  <1>1. /\ Len(log) \in Nat /\ Len(log') \in Nat /\ Len(log) <= Len(log')
        /\ trimmed \in 0..Len(log) /\ sub["journal"] \in SubRecords /\ "journal" \in DOMAIN sub
    BY <1>0, BothRead DEF StreamInv, LogGrows, KeepInv, LogSide
  <1>2. ASSUME UNCHANGED <<wiring, kept, journal, committed, sub>>,
               trimmed' \in 0..Len(log'), trimmed <= trimmed'
        PROVE  KeepInv'
    BY <1>0, <1>1, <1>2, BesideTheJournal
  <1>3. ASSUME UNCHANGED <<wiring, kept, journal, committed, sub, trimmed>> PROVE KeepInv'
    BY <1>1, <1>2, <1>3
  <1>4. ASSUME NEW a \in Appenders, (AppendBatch(a) \/ AppendFails(a) \/ Broadcast(a)) /\ Unlogged
        PROVE  KeepInv'
    BY <1>3, <1>4 DEF AppendBatch, AppendFails, Broadcast, Unlogged, journalVars
  <1>5. CASE OpenLog /\ Unlogged
    BY <1>3, <1>5 DEF OpenLog, Unlogged, journalVars
  <1>6. CASE Trim /\ Unlogged
    <2>1. /\ trimmed' = trimmed + 1 /\ trimmed < Len(log) /\ log' = log
          /\ UNCHANGED <<wiring, kept, journal, committed, sub>>
      BY <1>6 DEF Trim, Unlogged, journalVars
    <2>2. trimmed' \in 0..Len(log') /\ trimmed <= trimmed'
      BY <1>1, <2>1
    <2> QED BY <1>2, <2>1, <2>2
  <1>7. ASSUME NEW c \in Readers, SkipDelivered(c), Unlogged PROVE KeepInv'
    <2>1. /\ sub' = [sub EXCEPT ![c].cursor = @ + 1]
          /\ UNCHANGED <<wiring, log, trimmed, kept, journal, committed>>
      BY <1>7 DEF SkipDelivered, Unlogged, journalVars
    <2>2. DOMAIN sub' = DOMAIN sub
          /\ sub'["journal"] \in {sub["journal"],
                                  [sub["journal"] EXCEPT !.cursor = sub["journal"].cursor + 1]}
      BY <1>1, <2>1
    <2>3. LET s == [sub["journal"] EXCEPT !.cursor = sub["journal"].cursor + 1]
          IN  s \in SubRecords /\ s.delivered = sub["journal"].delivered
              /\ s.state = sub["journal"].state
      BY <1>1 DEF SubRecords
    <2>4. sub'["journal"] \in SubRecords /\ sub'["journal"].delivered = sub["journal"].delivered
          /\ sub'["journal"].state = sub["journal"].state
      BY <1>1, <2>2, <2>3
    <2>5. trimmed' \in 0..Len(log') /\ trimmed <= trimmed'
      BY <1>1, <2>1
    <2> QED BY <1>0, <2>1, <2>2, <2>4, <2>5, BesideTheJournal
  <1>8. CASE LogStep
    BY <1>4, <1>5, <1>6, <1>7, <1>8 DEF LogStep
  <1>9. CASE ReadStep \/ FlushStep \/ Shutdown
    <2>1. /\ UNCHANGED <<wiring, log, trimmed, journal, kept>>
          /\ DOMAIN sub' = DOMAIN sub /\ DOMAIN committed' = DOMAIN committed
          /\ committed'["journal"] = committed["journal"] /\ sub'["journal"] = sub["journal"]
      BY <1>9, TaskLeavesTheJournal
    <2>2. trimmed' \in 0..Len(log') /\ trimmed <= trimmed'
      BY <1>1, <2>1
    <2> QED BY <1>0, <1>1, <2>1, <2>2, BesideTheJournal
  <1>10. CASE JournalStep
    BY <1>10, StartJournalKeeps, JournalReadsKeeps, JournalCaughtUpKeeps, JournalTickKeeps,
       KeepPageKeeps DEF JournalStep
  <1>11. CASE Crash \/ Exit
    <2>1. /\ sub' = [c \in Readers |-> NoSubscription] /\ journal' = NewJournal(0)
          /\ UNCHANGED <<wiring, trimmed, committed, kept>>
      BY <1>11 DEF Crash, CrashLog, Exit, Forgotten
    <2> QED BY <1>0, <2>1, ForgottenJournal
  <1>12. CASE UNCHANGED vars
    BY <1>3, <1>12 DEF vars, logVars, busVars, journalVars
  <1> QED BY <1>8, <1>9, <1>10, <1>11, <1>12 DEF ProjectorNext

\* journal.rs Journal::keep: every position the journal has committed past is in a
\* page that was kept, or the broker had already let it go, whatever is read twice,
\* trimmed, refused by the store or lost in a crash.  The hypothesis is that the
\* journal may hold as many positions as the log ever has: past MOST_HELD the code
\* lets the oldest waiting pages go and commits past them, knowingly.  The invariant
\* adds that what was handed over is kept or in a page still held, that the pages are
\* whole stretches in order, and that none lies past what was handed over.
THEOREM JournalKeeps ==
  ASSUME MaxRecords <= MostHeld
  PROVE  ProjectorSpec => []JournalKeptWhatItPassed
  <1> DEFINE Inv == StreamInv /\ BusInv /\ KeepInv
  <1>1. ASSUME wiring \in WiringSpace, NEW held \in Seq(Msgs), Len(held) <= MaxRecords,
               ProjectorInit(held)
        PROVE  Inv
    <2>1. LogInit(held)
      BY <1>1 DEF ProjectorInit
    <2> QED BY <1>1, <2>1, InitNumbers, BusInit, KeepInit
  <1>2. wiring \in WiringSpace
        /\ (\E held \in Seq(Msgs) : Len(held) <= MaxRecords /\ ProjectorInit(held)) => Inv
    BY <1>1
  <1>3. Inv /\ [ProjectorNext]_vars => Inv'
    BY StreamStep, BusStep, KeepStep
  <1>4. Inv => JournalKeptWhatItPassed
    BY DEF KeepInv
  <1> HIDE DEF Inv
  <1> QED BY <1>2, <1>3, <1>4, PTL DEF ProjectorSpec

-----------------------------------------------------------------------------
(* The periods that close, in order. *)

Sorted(q, S) == /\ q \in [1..Cardinality(S) -> S]
                /\ \A i, j \in DOMAIN q : i < j => q[i] < q[j]

\* A finite set of numbers can be put in order.
LEMMA SortedExists ==
  \A n \in Nat : \A S \in SUBSET Nat :
     IsFiniteSet(S) /\ Cardinality(S) = n => \E q : Sorted(q, S)
  <1> DEFINE P == {n \in Nat : \A S \in SUBSET Nat :
                      IsFiniteSet(S) /\ Cardinality(S) = n => \E q : Sorted(q, S)}
  <1>1. 0 \in P
    <2>1. ASSUME NEW S \in SUBSET Nat, IsFiniteSet(S), Cardinality(S) = 0
          PROVE  Sorted([i \in 1..0 |-> 0], S)
      BY <2>1 DEF Sorted
    <2> QED BY <2>1
  <1>2. ASSUME NEW n \in Nat, n \in P PROVE n + 1 \in P
    <2>1. ASSUME NEW S \in SUBSET Nat, IsFiniteSet(S), Cardinality(S) = n + 1
          PROVE  \E q : Sorted(q, S)
      <3>1. S # {}
        BY <1>2, <2>1, FS_EmptySet
      <3>2. PICK m \in S : \A y \in S : m <= y
        BY <3>1, LeastNumber
      <3> DEFINE R == S \ {m}
      <3>3. R \in SUBSET Nat /\ IsFiniteSet(R) /\ Cardinality(R) = n
        BY <1>2, <2>1, FS_RemoveElement
      <3>4. PICK q : Sorted(q, R)
        <4> HIDE DEF R
        <4> QED BY <1>2, <3>3
      <3> DEFINE g == [i \in 1..(n + 1) |-> IF i = 1 THEN m ELSE q[i - 1]]
      <3>5. q \in [1..n -> R] /\ \A i, j \in 1..n : i < j => q[i] < q[j]
        BY <3>3, <3>4 DEF Sorted
      <3>6. \A i \in 2..(n + 1) : i - 1 \in 1..n
        BY <1>2
      <3>7. \A x \in R : x \in S /\ x \in Nat /\ m < x
        BY <3>2
      <3> HIDE DEF R
      <3>8. \A i \in 1..(n + 1) : g[i] \in S
        BY <1>2, <3>5, <3>6, <3>7
      <3>9. ASSUME NEW i \in 1..(n + 1), NEW j \in 1..(n + 1), i < j PROVE g[i] < g[j]
        <4>1. j - 1 \in 1..n /\ g[j] = q[j - 1]
          BY <1>2, <3>6, <3>9
        <4>2. CASE i = 1
          BY <3>5, <3>7, <4>1, <4>2
        <4>3. CASE i # 1
          <5>1. i - 1 \in 1..n /\ g[i] = q[i - 1] /\ i - 1 < j - 1
            BY <1>2, <3>9, <4>3
          <5> QED BY <3>5, <4>1, <5>1
        <4> QED BY <4>2, <4>3
      <3>10. g \in [1..(n + 1) -> S] /\ DOMAIN g = 1..(n + 1)
        BY <3>8
      <3> HIDE DEF g
      <3> QED BY <2>1, <3>9, <3>10 DEF Sorted
    <2> HIDE DEF P
    <2>2. n + 1 \in Nat
      BY <1>2
    <2> QED BY <2>1, <2>2 DEF P
  <1>3. P \in SUBSET Nat
    OBVIOUS
  <1>4. P = Nat
    <2> HIDE DEF P
    <2> QED BY <1>1, <1>2, <1>3, SetInduction
  <1> QED BY <1>4

LEMMA AscendingSorts ==
  ASSUME NEW S \in SUBSET Nat, IsFiniteSet(S)
  PROVE  Sorted(Ascending(S), S) /\ Cardinality(S) \in Nat
  <1>1. Cardinality(S) \in Nat
    BY FS_CardinalityType
  <1>2. \E q : Sorted(q, S)
    BY <1>1, SortedExists
  <1> QED BY <1>1, <1>2, Zenon DEF Ascending, Sorted

\* No message of a table is later than some moment.
LEMMA LatestMessage == \E b \in Nat : \A m \in Msgs : Msg[m].at <= b
  <1>1. /\ Msgs = 1..Len(Msg) /\ Len(Msg) \in Nat
        /\ \A m \in Msgs : Msg[m].at \in Nat
    BY RunOfMessage
  <1> DEFINE P == {n \in Nat : n <= Len(Msg) => \E b \in Nat : \A m \in 1..n : Msg[m].at <= b}
  <1>2. 0 \in P
    <2>1. 0 \in Nat /\ \A m \in 1..0 : Msg[m].at <= 0
      OBVIOUS
    <2> QED BY <2>1
  <1>3. ASSUME NEW n \in Nat, n \in P PROVE n + 1 \in P
    <2>1. ASSUME n + 1 <= Len(Msg) PROVE \E b \in Nat : \A m \in 1..(n + 1) : Msg[m].at <= b
      <3>1. PICK b \in Nat : \A m \in 1..n : Msg[m].at <= b
        <4>1. n <= Len(Msg)
          BY <1>1, <1>3, <2>1
        <4> QED BY <1>3, <4>1
      <3>2. n + 1 \in Msgs /\ Msg[n + 1].at \in Nat
        BY <1>1, <1>3, <2>1
      <3> DEFINE c == IF b <= Msg[n + 1].at THEN Msg[n + 1].at ELSE b
      <3>3. c \in Nat /\ b <= c /\ Msg[n + 1].at <= c
        BY <3>2
      <3> HIDE DEF c
      <3>4. ASSUME NEW m \in 1..(n + 1) PROVE Msg[m].at <= c
        <4>1. CASE m = n + 1
          BY <3>3, <4>1
        <4>2. CASE m \in 1..n
          <5>1. Msg[m].at \in Nat /\ Msg[m].at <= b
            BY <1>1, <2>1, <3>1, <4>2
          <5> QED BY <3>3, <5>1
        <4> QED BY <1>3, <4>1, <4>2
      <3> QED BY <3>3, <3>4
    <2> QED BY <1>3, <2>1
  <1>4. Len(Msg) \in P
    <2>1. P \in SUBSET Nat
      OBVIOUS
    <2> HIDE DEF P
    <2>2. P = Nat
      BY <1>2, <1>3, <2>1, SetInduction
    <2> QED BY <1>1, <2>2
  <1> QED BY <1>1, <1>4

\* A table of messages has a latest one, so it has finitely many periods.
LEMMA StartsAreFinite ==
  ASSUME NEW w \in {Width, Rollup}, Msgs # {}
  PROVE  /\ Starts(w) \in SUBSET Nat /\ IsFiniteSet(Starts(w))
         /\ \E b \in Nat : \A s \in Starts(w) : s <= b
  <1>1. \A m \in Msgs : Msg[m].at \in Nat
    BY RunOfMessage
  <1>5. PICK b \in Nat : \A m \in Msgs : Msg[m].at <= b
    BY LatestMessage
  <1>6. Times \in SUBSET Nat /\ Times # {} /\ \A t \in Times : t <= b
    BY <1>1, <1>5 DEF Times
  <1>7. Max(Times) \in Times /\ \A t \in Times : t <= Max(Times)
    BY <1>6, MaxOfBounded
  <1> DEFINE top == CHOOSE t \in Times : \A u \in Times : u <= t
  <1>8. top \in Times
    BY <1>7
  <1>9. top \in Nat
    BY <1>6, <1>8
  <1>10. Starts(w) = {s \in 0..top : s % w = 0}
    BY DEF Starts, StartsOf, Latest
  <1> HIDE DEF top
  <1>11. IsFiniteSet(0..top) /\ Starts(w) \in SUBSET (0..top)
    BY <1>9, <1>10, FS_Interval
  <1>12. \A s \in Starts(w) : s <= top
    BY <1>9, <1>11
  <1> QED BY <1>9, <1>11, <1>12, FS_Subset

-----------------------------------------------------------------------------
(* The position a fold says it has read through. *)

\* A fold and what it has closed name positions.
FoldShape(f) ==
  /\ {"through", "closed", "open"} \subseteq DOMAIN f /\ f.through \in Nat
  /\ f.closed # <<>> => Msgs # {}
  /\ \E X : f.closed \in Seq(X) /\ \A e \in X : e.through \in Nat

LEMMA ClosedPeriodsShape ==
  ASSUME NEW f, f.through \in Nat, NEW w, NEW S \in SUBSET Nat, IsFiniteSet(S), NEW records
  PROVE  \E X : ClosedPeriods(f, w, S, records) \in Seq(X) /\ \A e \in X : e.through \in Nat
  <1> DEFINE q == Ascending(S)
             R(i) == [level |-> w, from |-> q[i], record |-> records[q[i]],
                      first |-> f.first, through |-> f.through, began |-> f.began]
             X == {R(i) : i \in DOMAIN q}
             c == ClosedPeriods(f, w, S, records)
  <1>1. DOMAIN q = 1..Cardinality(S) /\ Cardinality(S) \in Nat
    BY AscendingSorts DEF Sorted
  <1>2. c = [i \in DOMAIN q |-> R(i)]
    BY DEF ClosedPeriods
  <1>3. \A i : R(i).through = f.through
    OBVIOUS
  <1> HIDE DEF c, q, R
  <1>4. c \in [1..Cardinality(S) -> X]
    BY <1>1, <1>2
  <1>5. c \in Seq(X)
    BY <1>1, <1>4, SequenceOf
  <1>6. \A e \in X : e.through \in Nat
    BY <1>3
  <1> QED BY <1>5, <1>6 DEF c

LEMMA CloseShape ==
  ASSUME Msgs # {}, NEW f, FoldShape(f)
  PROVE  FoldShape(Close(f)) /\ Close(f).through = f.through
  <1> DEFINE merged == Merged(f)
             ended == {r \in Starts(Rollup) : r + Rollup <= Edge(f) /\ merged[r].counted # {}}
             a == ClosedPeriods(f, Width, Closing(f), f.open)
             b == ClosedPeriods(f, Rollup, ended, merged)
             g == Close(f)
  <1>1. /\ Closing(f) \in SUBSET Nat /\ IsFiniteSet(Closing(f))
        /\ ended \in SUBSET Nat /\ IsFiniteSet(ended)
    <2>1. /\ Starts(Width) \in SUBSET Nat /\ IsFiniteSet(Starts(Width))
          /\ Starts(Rollup) \in SUBSET Nat /\ IsFiniteSet(Starts(Rollup))
      BY PeriodAssumption, StartsAreFinite
    <2>2. Closing(f) \in SUBSET Starts(Width) /\ ended \in SUBSET Starts(Rollup)
      BY DEF Closing
    <2> HIDE DEF ended
    <2> QED BY <2>1, <2>2, FS_Subset
  <1>2. g = f \/ (/\ DOMAIN g = DOMAIN f /\ g.through = f.through
                  /\ g.closed = (f.closed \o a) \o b)
    BY DEF Close, FoldShape
  <1> HIDE DEF g, ended, merged
  <1>3. PICK X : f.closed \in Seq(X) /\ \A e \in X : e.through \in Nat
    BY DEF FoldShape
  <1>4. PICK Y : a \in Seq(Y) /\ \A e \in Y : e.through \in Nat
    BY <1>1, ClosedPeriodsShape DEF FoldShape
  <1>5. PICK Z : b \in Seq(Z) /\ \A e \in Z : e.through \in Nat
    BY <1>1, ClosedPeriodsShape DEF FoldShape
  <1> HIDE DEF a, b
  <1> DEFINE U == X \cup Y \cup Z
  <1>6. f.closed \in Seq(U) /\ a \in Seq(U) /\ b \in Seq(U)
    <2>1. X \subseteq U /\ Y \subseteq U /\ Z \subseteq U
      OBVIOUS
    <2> HIDE DEF U
    <2> QED BY <1>3, <1>4, <1>5, <2>1, SeqMonotonic
  <1>7. \A e \in U : e.through \in Nat
    BY <1>3, <1>4, <1>5
  <1> HIDE DEF U
  <1>8. (f.closed \o a) \o b \in Seq(U)
    <2>1. f.closed \o a \in Seq(U)
      BY <1>6, ConcatProperties
    <2> QED BY <1>6, <2>1, ConcatProperties
  <1> QED BY <1>2, <1>7, <1>8 DEF FoldShape, g

\* What a step of the fold before its close leaves alone.
KeepsShape(f, g) ==
  DOMAIN g = DOMAIN f /\ g.closed = f.closed

LEMMA FoldEventShape ==
  ASSUME NEW f, FoldShape(f), NEW p
  PROVE  KeepsShape(f, FoldEvent(f, p)) /\ FoldEvent(f, p).through = f.through
  <1>1. ASSUME NEW end, NEW whole
        PROVE  KeepsShape(f, Place(f, p, end, whole)) /\ Place(f, p, end, whole).through = f.through
    BY DEF Place, KeepsShape, FoldShape
  <1> DEFINE m == Msg[log[p].msg]
             ends == m.subject = "run" /\ m.phase = "end"
             starts == m.subject = "run" /\ m.phase = "start"
             P == Place(f, p, m.at, m.run \in f.sawStart)
             E == [P EXCEPT !.tracked = @ \ {m.run}, !.sawStart = @ \ {m.run}]
             N == [f EXCEPT !.tracked = @ \cup {m.run},
                            !.sawStart = IF starts THEN @ \cup {m.run} ELSE @]
  <1>2. FoldEvent(f, p) = IF ends THEN E ELSE N
    BY DEF FoldEvent
  <1>3. KeepsShape(f, P) /\ P.through = f.through
    BY <1>1
  <1> HIDE DEF P
  <1>4. KeepsShape(f, E) /\ E.through = f.through
    BY <1>3 DEF KeepsShape, FoldShape
  <1>5. KeepsShape(f, N) /\ N.through = f.through
    BY DEF KeepsShape, FoldShape
  <1> HIDE DEF E, N
  <1> QED BY <1>2, <1>4, <1>5

LEMMA ApplyShape ==
  ASSUME Msgs # {}, NEW f, FoldShape(f), NEW p \in Nat
  PROVE  FoldShape(Apply(f, p))
  <1> DEFINE bound == Msg[log[p].msg].at
             told  == IF f.through # 0 /\ p > f.through + 1
                      THEN MissedBefore(f, f.through, p, bound) ELSE f
             begun == [told EXCEPT !.through = p,
                                   !.first = IF @ = 0 THEN p ELSE @,
                                   !.began = IF @ = None THEN Floor(bound, Width) ELSE @]
             folded == FoldEvent(begun, p)
             clocked == [folded EXCEPT !.clock = Max2(@, bound)]
  <1>1. KeepsShape(f, told)
    BY DEF MissedBefore, KeepsShape, FoldShape
  <1>2. Apply(f, p) = IF p <= f.through THEN f ELSE Close(clocked)
    BY DEF Apply
  <1> HIDE DEF told
  <1>3. KeepsShape(f, begun) /\ begun.through = p
    BY <1>1 DEF KeepsShape, FoldShape
  <1> HIDE DEF begun
  <1>4. FoldShape(begun)
    BY <1>3 DEF KeepsShape, FoldShape
  <1>5. KeepsShape(begun, folded) /\ folded.through = p
    BY <1>3, <1>4, FoldEventShape
  <1> HIDE DEF folded
  <1>6. KeepsShape(begun, clocked) /\ clocked.through = p
    BY <1>4, <1>5 DEF KeepsShape, FoldShape
  <1> HIDE DEF clocked
  <1>7. FoldShape(clocked)
    BY <1>4, <1>6 DEF KeepsShape, FoldShape
  <1> QED BY <1>2, <1>7, CloseShape

-----------------------------------------------------------------------------
(* What the index reads back. *)

IndexRecords ==
  [through : Nat, applied : Nat, began : BOOLEAN, readsFrom : Nat \cup {NoMoment},
   pending : SUBSET Nat]

\* An index that has begun has applied something, and reads back honestly.
IndexOK(x, pages) ==
  /\ x \in IndexRecords /\ x.applied <= Len(log) /\ (x.applied = 0 => ~x.began)
  /\ ReadsBackHonestly(x, pages)

ReachRecords == [through : Nat, began : BOOLEAN, readsFrom : Nat \cup {NoMoment}]

LEMMA AskedApplyIsHonest ==
  ASSUME StreamInv, NEW x, NEW pages, IndexOK(x, pages), NEW p \in Positions
  PROVE  IndexOK(AskedApply(x, p), pages)
  <1>1. p \in Nat /\ Len(log) \in Nat /\ 1 <= p /\ p <= Len(log) /\ Msg[log[p].msg].at \in Nat
    <2>1. log[p] \in LogRecords /\ Len(log) \in Nat
      BY DEF StreamInv, Positions
    <2>2. log[p].msg \in Msgs
      BY <2>1 DEF LogRecords
    <2> QED BY <2>1, <2>2, RunOfMessage DEF Positions
  <1> DEFINE at == Msg[log[p].msg].at
             passedOver == x.applied # 0 /\ p > x.applied + 1
             fromTheFirst == ~x.began /\ p = 1
             from == IF (~x.began \/ passedOver) /\ ~fromTheFirst
                     THEN Max2(x.readsFrom, at) ELSE x.readsFrom
             pend == IF IsCall(p) THEN x.pending \cup {p} ELSE x.pending
             y == AskedApply(x, p)
  <1>2. /\ x \in IndexRecords /\ x.applied \in Nat /\ x.readsFrom \in Int /\ x.pending \in SUBSET Nat
        /\ x.began \in BOOLEAN /\ x.readsFrom \in Nat \cup {NoMoment}
    BY DEF IndexOK, IndexRecords, NoMoment
  <1>3. CASE p <= x.applied
    BY <1>3 DEF AskedApply
  <1>4. CASE ~(p <= x.applied)
    <2>1. /\ y \in IndexRecords /\ y.applied = p /\ y.began = TRUE /\ y.readsFrom = from
          /\ y.pending = pend
      <3>1. from \in Nat \cup {NoMoment} /\ pend \in SUBSET Nat
        BY <1>1, <1>2 DEF Max2, NoMoment
      <3>2. y = [x EXCEPT !.applied = p, !.began = TRUE, !.readsFrom = from, !.pending = pend]
        BY <1>4 DEF AskedApply
      <3> HIDE DEF y, from, pend
      <3> QED BY <1>1, <1>2, <3>1, <3>2 DEF IndexRecords
    <2>2. x.readsFrom <= from /\ from \in Int
      BY <1>1, <1>2 DEF Max2, NoMoment
    <2>3. ASSUME NEW c \in 1..p, IsCall(c), c \notin pages \cup pend
          PROVE  \E q \in (c + 1)..p : Msg[log[q].msg].at <= from
      <3>1. CASE c <= x.applied
        <4>1. c \in 1..x.applied /\ c \notin pages \cup x.pending
          BY <1>1, <1>2, <2>3, <3>1
        <4>2. PICK q \in (c + 1)..x.applied : Msg[log[q].msg].at <= x.readsFrom
          BY <2>3, <4>1 DEF IndexOK, ReadsBackHonestly
        <4>3. q \in (c + 1)..p /\ q \in Positions
          BY <1>1, <1>2, <1>4, <4>1, <4>2 DEF IndexOK, Positions
        <4>4. Msg[log[q].msg].at \in Nat
          <5>1. log[q] \in LogRecords
            BY <4>3 DEF StreamInv, Positions
          <5>2. log[q].msg \in Msgs
            BY <5>1 DEF LogRecords
          <5> QED BY <5>2, RunOfMessage
        <4> HIDE DEF from
        <4>5. Msg[log[q].msg].at <= from
          BY <1>2, <2>2, <4>2, <4>4
        <4> QED BY <4>3, <4>5
      <3>2. CASE ~(c <= x.applied) /\ c # p
        <4>1. c + 1 <= p /\ x.applied + 1 < p /\ p # 1
          BY <1>1, <1>2, <2>3, <3>2
        <4>2. ~x.began \/ passedOver
          BY <1>1, <1>2, <4>1 DEF IndexOK
        <4>3. from = Max2(x.readsFrom, at)
          BY <4>1, <4>2
        <4>4. at <= from
          BY <1>1, <1>2, <4>3 DEF Max2
        <4>5. p \in (c + 1)..p
          BY <1>1, <2>3, <4>1
        <4> QED BY <4>4, <4>5
      <3>3. CASE c = p
        BY <2>3, <3>3
      <3> QED BY <3>1, <3>2, <3>3
    <2> HIDE DEF y, from, pend
    <2>4. ReadsBackHonestly(y, pages)
      BY <2>1, <2>3 DEF ReadsBackHonestly
    <2>5. y.applied <= Len(log) /\ (y.applied = 0 => ~y.began)
      BY <1>1, <2>1
    <2>6. IndexOK(y, pages)
      BY <2>1, <2>4, <2>5 DEF IndexOK
    <2> QED BY <2>6 DEF y
  <1> QED BY <1>3, <1>4

\* A log that grows and pages that are added take nothing back.
LEMMA HonestyStays ==
  ASSUME StreamInv, LogGrows, NEW x, NEW pages, IndexOK(x, pages), NEW more, pages \subseteq more,
         StreamInv'
  PROVE  /\ x \in IndexRecords /\ x.applied <= Len(log') /\ (x.applied = 0 => ~x.began)
         /\ \A p \in 1..x.applied : IsCall(p)' /\ p \notin more \cup x.pending =>
              \E q \in (p + 1)..x.applied : Msg[log'[q].msg].at <= x.readsFrom
  <1>1. Len(log) \in Nat /\ Len(log') \in Nat /\ x.applied \in Nat /\ x.applied <= Len(log)
    BY DEF StreamInv, IndexOK, IndexRecords
  <1>2. \A p \in 1..x.applied : log'[p] = log[p]
    BY <1>1 DEF LogGrows
  <1>3. \A p \in 1..x.applied : IsCall(p)' <=> IsCall(p)
    BY <1>2 DEF IsCall
  <1>4. ASSUME NEW p \in 1..x.applied, IsCall(p)', p \notin more \cup x.pending
        PROVE  \E q \in (p + 1)..x.applied : Msg[log'[q].msg].at <= x.readsFrom
    <2>1. PICK q \in (p + 1)..x.applied : Msg[log[q].msg].at <= x.readsFrom
      BY <1>3, <1>4 DEF IndexOK, ReadsBackHonestly
    <2>2. q \in 1..x.applied
      BY <1>1, <2>1
    <2> QED BY <1>2, <2>1, <2>2
  <1>5. x.applied <= Len(log')
    BY <1>1 DEF LogGrows
  <1> QED BY <1>4, <1>5 DEF IndexOK

\* A store that holds a period holds a last one.
LEMMA LastIsWritten ==
  ASSUME Msgs # {}, NEW store, \E k \in PeriodKeys : store[k].present
  PROVE  /\ LastWritten(store) \in PeriodKeys /\ store[LastWritten(store)].present
         /\ \A k \in PeriodKeys : store[k].present =>
              k[1] + k[2] <= LastWritten(store)[1] + LastWritten(store)[2]
  <1> DEFINE keys == {k \in PeriodKeys : store[k].present}
             End(k) == k[1] + k[2]
             ends == {End(k) : k \in keys}
             IsLast(k) == \A o \in keys : End(o) < End(k) \/ (End(o) = End(k) /\ k[1] <= o[1])
  <1>1. Width \in Nat /\ Rollup \in Nat /\ Width < Rollup
    BY PeriodAssumption
  <1>2. PICK b \in Nat : Starts(Width) \in SUBSET Nat /\ \A s \in Starts(Width) : s <= b
    BY <1>1, StartsAreFinite
  <1>3. PICK c \in Nat : Starts(Rollup) \in SUBSET Nat /\ \A s \in Starts(Rollup) : s <= c
    BY <1>1, StartsAreFinite
  <1>4. \A k \in keys : /\ k[1] \in {Width, Rollup} /\ k[2] \in Nat /\ End(k) \in Nat
                        /\ End(k) <= b + c + Rollup
    <2>1. \A s \in Starts(Width) : <<Width, s>>[1] = Width /\ <<Width, s>>[2] = s
      OBVIOUS
    <2>2. \A s \in Starts(Rollup) : <<Rollup, s>>[1] = Rollup /\ <<Rollup, s>>[2] = s
      OBVIOUS
    <2> QED BY <1>1, <1>2, <1>3, <2>1, <2>2 DEF PeriodKeys
  <1>5. keys # {}
    OBVIOUS
  <1>6. ends \in SUBSET Nat /\ ends # {} /\ \A y \in ends : y <= b + c + Rollup
    <2> HIDE DEF keys, End
    <2> QED BY <1>4, <1>5
  <1>7. Max(ends) \in ends /\ \A y \in ends : y <= Max(ends)
    <2>1. b + c + Rollup \in Nat
      BY <1>1
    <2> HIDE DEF ends
    <2> QED BY <1>6, <2>1, MaxOfBounded
  <1>8. PICK k \in keys : End(k) = Max(ends)
    BY <1>7
  <1>9. \A o \in keys : End(o) <= End(k) /\ End(o) \in Nat /\ o[1] \in {Width, Rollup}
    <2>1. \A o \in keys : End(o) \in ends
      OBVIOUS
    <2> HIDE DEF keys, End, ends
    <2> QED BY <1>4, <1>7, <1>8, <2>1
  <1> HIDE DEF keys, End, ends
  <1>10. \E l \in keys : IsLast(l)
    <2>1. CASE \E l \in keys : End(l) = End(k) /\ l[1] = Width
      <3>1. PICK l \in keys : End(l) = End(k) /\ l[1] = Width
        BY <2>1
      <3>2. IsLast(l)
        BY <1>1, <1>9, <3>1
      <3> QED BY <3>2
    <2>2. CASE ~\E l \in keys : End(l) = End(k) /\ l[1] = Width
      <3>1. \A o \in keys : End(o) = End(k) => o[1] = Rollup
        BY <1>9, <2>2
      <3>2. IsLast(k)
        BY <1>1, <1>9, <3>1
      <3> QED BY <3>2
    <2> QED BY <2>1, <2>2
  <1>11. LastWritten(store) = CHOOSE l \in keys : IsLast(l)
    BY DEF LastWritten, keys, End
  <1> HIDE DEF IsLast
  <1>12. LastWritten(store) \in keys /\ IsLast(LastWritten(store))
    BY <1>10, <1>11
  <1>13. \A o \in keys : End(o) <= End(LastWritten(store))
    BY <1>9, <1>12 DEF IsLast
  <1> QED BY <1>12, <1>13 DEF keys, End

-----------------------------------------------------------------------------
(* What the fold is loaded from. *)

StoreShape(store) ==
  /\ DOMAIN store = PeriodKeys
  /\ \A k \in PeriodKeys : store[k].through \in Nat /\ (store[k].present => Msgs # {})

LEMMA NewFoldShape == FoldShape(NewFold)
  <1>1. NewFold.closed \in Seq({}) /\ NewFold.closed = <<>>
    BY DEF NewFold
  <1>2. {"through", "closed", "open"} \subseteq DOMAIN NewFold /\ NewFold.through = 0
    BY DEF NewFold
  <1>3. PICK none : none = {}
    OBVIOUS
  <1>4. NewFold.closed \in Seq(none) /\ \A e \in none : e.through \in Nat
    BY <1>1, <1>3
  <1>5. NewFold.through \in Nat
    BY <1>2
  <1> QED BY <1>1, <1>2, <1>4, <1>5, Zenon DEF FoldShape

LEMMA LoadedShape ==
  ASSUME NEW saved, FoldShape(saved), NEW store, StoreShape(store)
  PROVE  FoldShape(Loaded(saved, store))
  <1>1. ASSUME \E k \in PeriodKeys : store[k].present
        PROVE  FoldShape(Recovered(store))
    <2> DEFINE k == LastWritten(store)
               closed == k[1] + k[2]
               r == Floor(closed, Rollup)
               part == {s \in Starts(Width) : /\ Floor(s, Rollup) = r /\ s < closed
                                              /\ store[<<Width, s>>].present}
               f == [NewFold EXCEPT !.first = store[k].through + 1,
                                    !.through = store[k].through, !.began = store[k].began,
                                    !.closedThrough = closed, !.gapFrom = closed]
               g == [f EXCEPT !.rollups[r] = AddedUp(store, part)]
    <2>1. Msgs # {}
      BY <1>1 DEF StoreShape
    <2>2. k \in PeriodKeys
      BY <1>1, <2>1, LastIsWritten
    <2>3. store[k].through \in Nat
      BY <2>2 DEF StoreShape
    <2>4. Recovered(store) = f \/ Recovered(store) = g
      BY DEF Recovered
    <2> HIDE DEF k, closed, r, part
    <2>5. /\ DOMAIN f = DOMAIN NewFold /\ f.through = store[k].through /\ f.closed = NewFold.closed
      BY DEF NewFold
    <2> HIDE DEF f
    <2>6. DOMAIN g = DOMAIN NewFold /\ g.through = store[k].through /\ g.closed = NewFold.closed
      BY <2>5 DEF NewFold
    <2> HIDE DEF g
    <2>7. FoldShape(f) /\ FoldShape(g)
      BY <2>3, <2>5, <2>6, NewFoldShape DEF FoldShape
    <2> QED BY <2>4, <2>7
  <1>2. CASE saved.through # 0
    BY <1>2 DEF Loaded
  <1>3. CASE saved.through = 0 /\ \E k \in PeriodKeys : store[k].present
    BY <1>1, <1>3 DEF Loaded
  <1>4. CASE saved.through = 0 /\ ~\E k \in PeriodKeys : store[k].present
    BY <1>4, NewFoldShape DEF Loaded
  <1> QED BY <1>2, <1>3, <1>4

\* The oldest closed period is written and leaves the fold.
LEMMA WrittenShape ==
  ASSUME NEW f, FoldShape(f), f.closed # <<>>, NEW store, StoreShape(store)
  PROVE  /\ StoreShape(WritePeriod(store, Head(f.closed)))
         /\ FoldShape([f EXCEPT !.closed = Tail(@)])
  <1>1. PICK X : f.closed \in Seq(X) /\ \A e \in X : e.through \in Nat
    BY DEF FoldShape
  <1>2. Head(f.closed) \in X /\ Tail(f.closed) \in Seq(X) /\ Msgs # {}
    BY <1>1, HeadTailProperties DEF FoldShape
  <1> DEFINE c == Head(f.closed)
             key == <<c.level, c.from>>
             row == [present |-> TRUE, record |-> c.record, first |-> c.first,
                     through |-> c.through, began |-> c.began, refused |-> {}]
             s == [store EXCEPT ![key] = row]
             refused == [store EXCEPT ![key].refused = @ \cup c.record.counted]
             g == [f EXCEPT !.closed = Tail(@)]
  <1>3. row.through \in Nat
    BY <1>1, <1>2
  <1>4. WritePeriod(store, c) = refused \/ WritePeriod(store, c) = s
    BY DEF WritePeriod
  <1> HIDE DEF row, key
  <1>4a. StoreShape(refused)
    BY DEF StoreShape
  <1>5. StoreShape(s)
    BY <1>2, <1>3 DEF StoreShape
  <1>6. DOMAIN g = DOMAIN f /\ g.closed = Tail(f.closed) /\ g.through = f.through
    BY DEF FoldShape
  <1> HIDE DEF g, s, refused
  <1>7. FoldShape(g)
    BY <1>1, <1>2, <1>6 DEF FoldShape
  <1> QED BY <1>4, <1>4a, <1>5, <1>7 DEF g

-----------------------------------------------------------------------------
(* The index beside the projector. *)

\* Where the projector's subscription stands, and what it committed.
SourceSide ==
  /\ wiring \in WiringSpace /\ trimmed \in Nat
  /\ DOMAIN sub = Readers /\ DOMAIN committed = Readers
  /\ sub["projector"] \in SubRecords /\ committed["projector"] \in Nat
  /\ "checkpoint" \in DOMAIN task /\ task.checkpoint \in Nat

\* Only the broker is journaled, and its positions come from the group alone: a
\* fold that is refilled from pages never says where to read from.
FoldSide ==
  ~wiring.journaled => FoldShape(fold) /\ FoldShape(savedFold) /\ StoreShape(periods)

\* The saved reach is as honest as the index is, with the pages alone.
IndexSide ==
  /\ IndexOK(asked, askedPages)
  /\ reach \in ReachRecords /\ IndexOK(LoadedIndex(reach), askedPages)

AskedInv == SourceSide /\ FoldSide /\ IndexSide

\* What a reader is handed next is a position of the log.
LEMMA NextOfReader ==
  ASSUME StreamInv, BusInv, wiring \in WiringSpace, trimmed \in Nat,
         NEW c, sub[c] \in SubRecords, NextDelivery(c) # 0
  PROVE  NextDelivery(c) \in Positions
  <1> DEFINE s == sub[c]
             n == NextDelivery(c)
  <1>1. /\ Len(log) \in Nat /\ s.delivered \in Nat /\ s.cursor \in Nat /\ trimmed \in Nat
        /\ wiring.log \in {"wal", "laser"}
        /\ s.state \in {"off", "replay", "live", "ended"}
    BY DEF StreamInv, SubRecords, WiringSpace
  <1>2. CASE wiring.log = "laser"
    <2> DEFINE next == Max2(s.delivered, trimmed) + 1
    <2>1. n = IF next <= Len(log) THEN next ELSE 0
      <3>1. s.state \in {"replay", "live"}
        BY <1>1, <1>2 DEF NextDelivery
      <3> QED BY <1>2, <3>1 DEF NextDelivery
    <2>2. next \in Nat /\ next >= 1
      BY <1>1 DEF Max2
    <2> HIDE DEF next
    <2> QED BY <1>1, <2>1, <2>2 DEF Positions
  <1>3. CASE wiring.log = "wal" /\ s.state = "replay"
    <2>1. n = IF s.delivered < Len(log) THEN s.delivered + 1 ELSE 0
      BY <1>3 DEF NextDelivery
    <2> HIDE DEF n
    <2> QED BY <1>1, <2>1 DEF Positions, n
  <1>4. CASE wiring.log = "wal" /\ s.state # "replay"
    <2>1. s.state = "live" /\ s.cursor < Len(live) /\ n = live[s.cursor + 1]
      <3>1. s.state = "live" /\ s.cursor < Len(live)
        BY <1>1, <1>4 DEF NextDelivery
      <3>2. n = IF Len(live) - s.cursor <= Capacity /\ live[s.cursor + 1] > s.delivered
                THEN live[s.cursor + 1] ELSE 0
        BY <1>4, <3>1 DEF NextDelivery
      <3> QED BY <3>1, <3>2
    <2>2. live \in Seq(Positions)
      BY DEF BusInv
    <2>3. s.cursor + 1 \in 1..Len(live)
      BY <1>1, <2>1, <2>2
    <2> HIDE DEF s, n
    <2> QED BY <2>1, <2>2, <2>3 DEF n
  <1> QED BY <1>1, <1>2, <1>3, <1>4

LEMMA NextOfProjector ==
  ASSUME StreamInv, BusInv, SourceSide, NextDelivery("projector") # 0
  PROVE  NextDelivery("projector") \in Positions
  BY NextOfReader DEF SourceSide

\* The position a start resumes from is a position.
LEMMA ResumesAtANumber ==
  ASSUME SourceSide, NEW folded, ~wiring.journaled => folded \in Nat, NEW indexed \in Nat
  PROVE  ResumeAt(folded, indexed) \in Nat
  <1>1. committed["projector"] \in Nat /\ (wiring.journaled => wiring.log # "wal")
    BY DEF SourceSide, WiringSpace
  <1> DEFINE stored == StoredCheckpoint("projector")
             behind == IF folded # 0 /\ indexed # 0
                       THEN (IF folded <= indexed THEN folded ELSE indexed)
                       ELSE Max2(folded, indexed)
  <1>2. stored \in Nat /\ ColdStart("projector") \in Nat
    BY <1>1 DEF StoredCheckpoint, ColdStart
  <1>3. CASE wiring.rebuild
    BY <1>3 DEF ResumeAt
  <1>4. CASE ~wiring.rebuild /\ stored = 0
    BY <1>2, <1>4 DEF ResumeAt
  <1>5. CASE ~wiring.rebuild /\ stored # 0
    <2>1. folded \in Nat
      BY <1>1, <1>5 DEF StoredCheckpoint
    <2>2. behind \in Nat
      BY <2>1 DEF Max2
    <2>3. ResumeAt(folded, indexed) = IF behind # 0 /\ stored > behind THEN behind ELSE stored
      BY <1>5 DEF ResumeAt
    <2> HIDE DEF behind
    <2> QED BY <1>2, <2>2, <2>3
  <1> QED BY <1>3, <1>4, <1>5

\* A step that leaves the index and its pages alone.
LEMMA IndexBeside ==
  ASSUME StreamInv, StreamInv', LogGrows, IndexSide, asked' = asked, reach' = reach,
         askedPages' = askedPages
  PROVE  IndexSide'
  <1>1. /\ asked \in IndexRecords /\ asked.applied <= Len(log') /\ (asked.applied = 0 => ~asked.began)
        /\ \A p \in 1..asked.applied : IsCall(p)' /\ p \notin askedPages \cup asked.pending =>
             \E q \in (p + 1)..asked.applied : Msg[log'[q].msg].at <= asked.readsFrom
    <2>1. IndexOK(asked, askedPages)
      BY DEF IndexSide
    <2> QED BY <2>1, HonestyStays
  <1> DEFINE x == LoadedIndex(reach)
  <1>2. /\ x \in IndexRecords /\ x.applied <= Len(log') /\ (x.applied = 0 => ~x.began)
        /\ \A p \in 1..x.applied : IsCall(p)' /\ p \notin askedPages \cup x.pending =>
             \E q \in (p + 1)..x.applied : Msg[log'[q].msg].at <= x.readsFrom
    <2>1. IndexOK(x, askedPages)
      BY DEF IndexSide
    <2> HIDE DEF x
    <2> QED BY <2>1, HonestyStays
  <1>3. IndexOK(asked, askedPages)'
    BY <1>1 DEF IndexOK, ReadsBackHonestly
  <1>4. LoadedIndex(reach)' = x
    OBVIOUS
  <1> HIDE DEF x
  <1>5. IndexOK(LoadedIndex(reach), askedPages)'
    BY <1>2, <1>4 DEF IndexOK, ReadsBackHonestly
  <1> QED BY <1>3, <1>5 DEF IndexSide

\* A subscription that moved, of a reader that is not the projector.
LEMMA SourceBeside ==
  ASSUME SourceSide, wiring' = wiring, task' = task, trimmed' \in Nat,
         DOMAIN sub' = DOMAIN sub, DOMAIN committed' = DOMAIN committed,
         sub'["projector"] = sub["projector"], committed'["projector"] = committed["projector"]
  PROVE  SourceSide'
  BY DEF SourceSide

LEMMA LogStepKeepsAsked ==
  ASSUME StreamInv, StreamInv', LogGrows, AskedInv, LogStep
  PROVE  AskedInv'
  <1>1. /\ UNCHANGED <<task, foldVars, askedVars, committed, wiring>>
    BY DEF LogStep, AppendBatch, AppendFails, Broadcast, SkipDelivered, Trim, OpenLog, Unlogged
  <1>2. IndexSide'
    BY <1>1, IndexBeside DEF AskedInv, askedVars
  <1>3. FoldSide'
    BY <1>1 DEF AskedInv, FoldSide, foldVars
  <1>4. trimmed' \in Nat
    BY DEF LogStep, AppendBatch, AppendFails, Broadcast, SkipDelivered, Trim, OpenLog, AskedInv, SourceSide
  <1>5. DOMAIN sub' = DOMAIN sub /\ sub'["projector"] \in SubRecords
    <2>1. CASE sub' = sub
      BY <2>1 DEF AskedInv, SourceSide
    <2>2. ASSUME NEW c \in Readers, sub' = [sub EXCEPT ![c].cursor = @ + 1]
          PROVE  DOMAIN sub' = DOMAIN sub /\ sub'["projector"] \in SubRecords
      <3> DEFINE s == sub["projector"]
                 t == [s EXCEPT !.cursor = s.cursor + 1]
      <3>1. s \in SubRecords /\ "projector" \in DOMAIN sub
        BY BothRead DEF AskedInv, SourceSide
      <3>2. t \in SubRecords
        BY <3>1 DEF SubRecords
      <3>3. DOMAIN sub' = DOMAIN sub /\ sub'["projector"] \in {s, t}
        BY <2>2, <3>1
      <3> QED BY <3>1, <3>2, <3>3
    <2> QED BY <2>1, <2>2 DEF LogStep, AppendBatch, AppendFails, Broadcast, SkipDelivered, Trim, OpenLog
  <1>6. SourceSide'
    BY <1>1, <1>4, <1>5 DEF AskedInv, SourceSide
  <1> QED BY <1>2, <1>3, <1>6 DEF AskedInv

LEMMA StartKeepsAsked ==
  ASSUME StreamInv, BusInv, AskedInv, StartProjector
  PROVE  AskedInv'
  <1>1. /\ UNCHANGED <<wiring, log, trimmed, committed, savedFold, periods, reach, askedPages>>
        /\ fold' = Loaded(savedFold, periods) /\ asked' = LoadedIndex(reach)
        /\ sub' = [sub EXCEPT !["projector"] =
                     Subscribed(ResumeAt(fold'.through, reach.through))]
        /\ task' = [NewTask EXCEPT !.at = "loop"]
    BY DEF StartProjector
  <1>2. FoldSide'
    BY <1>1, LoadedShape DEF AskedInv, FoldSide
  <1>3. IndexSide'
    <2>1. \A p : IsCall(p)' <=> IsCall(p)
      BY <1>1 DEF IsCall
    <2>2. IndexOK(LoadedIndex(reach), askedPages)
      BY DEF AskedInv, IndexSide
    <2> DEFINE x == LoadedIndex(reach)
    <2>3. LoadedIndex(reach)' = x
      BY <1>1 DEF LoadedIndex
    <2> HIDE DEF x
    <2>4. IndexOK(x, askedPages)
      BY <2>2 DEF x
    <2>5. asked' = x
      BY <1>1 DEF x
    <2> QED BY <1>1, <2>1, <2>3, <2>4, <2>5 DEF AskedInv, IndexSide, IndexOK, ReadsBackHonestly
  <1>4. ResumeAt(fold'.through, reach.through) \in Nat
    <2>1. ~wiring.journaled => fold'.through \in Nat
      BY <1>1, <1>2 DEF FoldSide, FoldShape
    <2>2. reach.through \in Nat
      BY DEF AskedInv, IndexSide, ReachRecords
    <2> QED BY <2>1, <2>2, ResumesAtANumber DEF AskedInv
  <1> DEFINE n == ResumeAt(fold'.through, reach.through)
  <1> HIDE DEF n
  <1>5. Subscribed(n) \in SubRecords
    <2>1. Len(live) \in Nat
      BY DEF BusInv
    <2> QED BY <1>4, <2>1 DEF Subscribed, SubRecords, n
  <1>6. sub' = [sub EXCEPT !["projector"] = Subscribed(n)] /\ "projector" \in DOMAIN sub
    BY <1>1, BothRead DEF n, AskedInv, SourceSide
  <1>7. "checkpoint" \in DOMAIN task' /\ task'.checkpoint = 0
    BY <1>1 DEF NewTask
  <1>8. SourceSide'
    BY <1>1, <1>5, <1>6, <1>7 DEF AskedInv, SourceSide
  <1> QED BY <1>2, <1>3, <1>8 DEF AskedInv

LEMMA HandleKeepsAsked ==
  ASSUME StreamInv, BusInv, AskedInv, Handle
  PROVE  AskedInv'
  <1> DEFINE p == NextDelivery("projector")
  <1>1. /\ UNCHANGED <<wiring, log, trimmed, committed, savedFold, periods, reach, askedPages>>
        /\ sub' = [sub EXCEPT !["projector"] = Delivered("projector", p)]
        /\ p # 0 /\ HandleEvent(p)
    BY DEF Handle
  <1>2. p \in Positions
    BY <1>1, NextOfProjector DEF AskedInv
  <1>3. asked' \in {asked, AskedApply(asked, p)}
    BY <1>1 DEF HandleEvent
  <1>4. task'.checkpoint = p /\ "checkpoint" \in DOMAIN task'
    BY <1>1 DEF HandleEvent, AskedInv, SourceSide
  <1>5. fold' \in {fold, Apply(fold, p)} \/ wiring.journaled
    <2>1. fold' = fold \/ Folded(fold, p)
      BY <1>1 DEF HandleEvent
    <2>2. Folded(fold, p) => fold' = Apply(fold, p) \/ wiring.journaled
      BY Zenon DEF Folded, HasGap
    <2> QED BY <2>1, <2>2
  <1>6. Delivered("projector", p) \in SubRecords
    <2>1. sub["projector"] \in SubRecords /\ p \in Nat
      BY <1>2 DEF AskedInv, SourceSide, Positions
    <2> DEFINE s == sub["projector"]
               c == IF wiring.log = "wal" /\ s.state = "live" THEN s.cursor + 1 ELSE s.cursor
               t == IF wiring.log = "laser" THEN "replay" ELSE s.state
    <2> HIDE DEF p
    <2>2. Delivered("projector", p) = [s EXCEPT !.delivered = p, !.cursor = c, !.state = t]
      BY DEF Delivered
    <2>3. c \in Nat /\ t \in {"off", "replay", "live", "ended"}
      BY <2>1 DEF SubRecords
    <2> HIDE DEF s, c, t
    <2> QED BY <2>1, <2>2, <2>3 DEF SubRecords, s
  <1> HIDE DEF p
  <1>7. SourceSide'
    <2>1. "projector" \in DOMAIN sub /\ p \in Nat
      BY <1>2, BothRead DEF AskedInv, SourceSide, Positions
    <2> QED BY <1>1, <1>4, <1>6, <2>1 DEF AskedInv, SourceSide
  <1>8. FoldSide'
    <2>1. Msgs # {} /\ p \in Nat
      <3>1. log[p] \in LogRecords
        BY <1>2 DEF StreamInv, Positions
      <3>2. log[p].msg \in Msgs
        BY <3>1 DEF LogRecords
      <3> QED BY <1>2, <3>2 DEF Positions
    <2>2. ASSUME ~wiring.journaled PROVE FoldShape(fold')
      <3>1. FoldShape(fold) /\ FoldShape(Apply(fold, p))
        BY <2>1, <2>2, ApplyShape DEF AskedInv, FoldSide
      <3> QED BY <1>5, <2>2, <3>1
    <2> QED BY <1>1, <2>2 DEF AskedInv, FoldSide
  <1>9. IndexSide'
    <2>1. IndexOK(asked, askedPages) /\ IndexOK(AskedApply(asked, p), askedPages)
      BY <1>2, AskedApplyIsHonest DEF AskedInv, IndexSide
    <2>2. PICK x : asked' = x /\ IndexOK(x, askedPages)
      BY <1>3, <2>1
    <2>3. \A q : IsCall(q)' <=> IsCall(q)
      BY <1>1 DEF IsCall
    <2>4. IndexOK(asked, askedPages)'
      BY <1>1, <2>2, <2>3 DEF IndexOK, ReadsBackHonestly
    <2> DEFINE y == LoadedIndex(reach)
    <2>5. LoadedIndex(reach)' = y /\ IndexOK(y, askedPages)
      BY <1>1 DEF LoadedIndex, AskedInv, IndexSide
    <2> HIDE DEF y
    <2>6. IndexOK(LoadedIndex(reach), askedPages)'
      BY <1>1, <2>3, <2>5 DEF IndexOK, ReadsBackHonestly
    <2> QED BY <1>1, <2>4, <2>6 DEF AskedInv, IndexSide
  <1> QED BY <1>7, <1>8, <1>9 DEF AskedInv

LEMMA IndexUnread ==
  ASSUME IndexSide, log' = log, asked' = asked, reach' = reach, askedPages' = askedPages
  PROVE  IndexSide'
  <1>1. \A p : IsCall(p)' <=> IsCall(p)
    BY DEF IsCall
  <1> DEFINE x == LoadedIndex(reach)
  <1>2. LoadedIndex(reach)' = x /\ IndexOK(x, askedPages) /\ IndexOK(asked, askedPages)
    BY DEF LoadedIndex, IndexSide
  <1> HIDE DEF x
  <1>3. IndexOK(asked, askedPages)' /\ IndexOK(LoadedIndex(reach), askedPages)'
    BY <1>1, <1>2 DEF IndexOK, ReadsBackHonestly
  <1> QED BY <1>3 DEF IndexSide

\* An index that has read nothing claims nothing.
LEMMA FreshIndex ==
  ASSUME StreamInv, asked = NewIndex
  PROVE  IndexOK(asked, askedPages)
  <1>1. NewIndex \in IndexRecords /\ NewIndex.applied = 0 /\ ~NewIndex.began
    BY DEF NewIndex, IndexRecords, NoMoment
  <1>2. Len(log) \in Nat
    BY DEF StreamInv
  <1> HIDE DEF NewIndex
  <1> QED BY <1>1, <1>2 DEF IndexOK, ReadsBackHonestly

\* The steps of the task that leave what it has read alone.
LEMMA TaskKeepsAsked ==
  ASSUME StreamInv, AskedInv,
         CaughtUp \/ SweepTimer \/ FlushTimer \/ SourceEnds \/ Shutdown \/ WriteSpans
  PROVE  AskedInv'
  <1>1. UNCHANGED <<wiring, log, trimmed, committed, fold, savedFold, periods, asked, reach, askedPages>>
    BY DEF CaughtUp, SweepTimer, FlushTimer, SourceEnds, Shutdown, WriteSpans, logVars, busVars,
           foldVars, askedVars
  <1>2. FoldSide'
    BY <1>1 DEF AskedInv, FoldSide
  <1>3. IndexSide'
    BY <1>1, IndexUnread DEF AskedInv
  <1>4. DOMAIN sub' = DOMAIN sub /\ sub'["projector"] \in SubRecords
    <2>1. CASE sub' = sub
      BY <2>1 DEF AskedInv, SourceSide
    <2>2. ASSUME NEW st \in {"live", "ended"}, sub' = [sub EXCEPT !["projector"].state = st]
          PROVE  DOMAIN sub' = DOMAIN sub /\ sub'["projector"] \in SubRecords
      <3> DEFINE s == sub["projector"]
                 t == [s EXCEPT !.state = st]
      <3>1. s \in SubRecords /\ "projector" \in DOMAIN sub
        BY BothRead DEF AskedInv, SourceSide
      <3>2. t \in SubRecords
        BY <3>1 DEF SubRecords
      <3>3. DOMAIN sub' = DOMAIN sub /\ sub'["projector"] = t
        BY <2>2, <3>1
      <3> QED BY <3>2, <3>3
    <2> QED BY <2>1, <2>2 DEF CaughtUp, SweepTimer, FlushTimer, SourceEnds, Shutdown, WriteSpans,
                              logVars, busVars
  <1>5. "checkpoint" \in DOMAIN task' /\ task'.checkpoint \in Nat
    <2>1. /\ "checkpoint" \in DOMAIN task /\ task.checkpoint \in Nat
          /\ sub["projector"].delivered \in Nat
      BY DEF AskedInv, SourceSide, SubRecords
    <2>2. CASE CaughtUp
      BY <2>1, <2>2 DEF CaughtUp, StartsFlush
    <2>3. CASE SweepTimer
      BY <2>1, <2>3 DEF SweepTimer
    <2>4. CASE FlushTimer \/ SourceEnds \/ Shutdown
      BY <2>1, <2>4 DEF FlushTimer, SourceEnds, Shutdown, StartsFlush
    <2>5. CASE WriteSpans
      BY <2>1, <2>5 DEF WriteSpans, Goes, Holds
    <2> QED BY <2>2, <2>3, <2>4, <2>5
  <1>6. SourceSide'
    BY <1>1, <1>4, <1>5 DEF AskedInv, SourceSide
  <1> QED BY <1>2, <1>3, <1>6 DEF AskedInv

\* The steps of a flush that write the periods.
LEMMA PeriodStepsKeepAsked ==
  ASSUME StreamInv, AskedInv, WriteGap \/ WriteClosed \/ SaveFold
  PROVE  AskedInv'
  <1>1. UNCHANGED <<wiring, log, trimmed, committed, sub, asked, reach, askedPages>>
    BY DEF WriteGap, WriteClosed, SaveFold, busVars, askedVars
  <1>2. IndexSide'
    BY <1>1, IndexUnread DEF AskedInv
  <1>3. "checkpoint" \in DOMAIN task' /\ task'.checkpoint \in Nat
    <2>1. "checkpoint" \in DOMAIN task /\ task.checkpoint \in Nat
      BY DEF AskedInv, SourceSide
    <2>2. CASE task' = task
      BY <2>1, <2>2
    <2>3. ASSUME NEW at, Goes(at) \/ Holds(at)
          PROVE  "checkpoint" \in DOMAIN task' /\ task'.checkpoint \in Nat
      BY <2>1, <2>3 DEF Goes, Holds
    <2>4. CASE PeriodsFail
      <3>1. Goes(FromAsked("leave")) \/ Holds("commit")
        BY <2>4 DEF PeriodsFail
      <3> QED BY <2>3, <3>1
    <2>5. CASE WriteGap \/ WriteClosed
      BY <2>2, <2>4, <2>5 DEF WriteGap, WriteClosed
    <2>6. CASE SaveFold
      <3>1. Goes(FromAsked(task.mode))
        BY <2>6 DEF SaveFold
      <3> QED BY <2>3, <3>1
    <2> QED BY <2>5, <2>6
  <1>4. SourceSide'
    BY <1>1, <1>3 DEF AskedInv, SourceSide
  <1>5. ASSUME ~wiring.journaled
        PROVE  FoldShape(fold') /\ FoldShape(savedFold') /\ StoreShape(periods')
    <2>1. FoldShape(fold) /\ FoldShape(savedFold) /\ StoreShape(periods)
      BY <1>5 DEF AskedInv, FoldSide
    <2>2. CASE UNCHANGED foldVars
      BY <2>1, <2>2 DEF foldVars
    <2>3. CASE WriteGap /\ ~UNCHANGED foldVars
      <3>1. UNCHANGED <<savedFold, periods>> /\ \E gap : fold' = [fold EXCEPT !.missed = @ \ {gap}]
        BY <2>3 DEF WriteGap, PeriodsFail
      <3>2. PICK gap : fold' = [fold EXCEPT !.missed = @ \ {gap}]
        BY <3>1
      <3>3. DOMAIN fold' = DOMAIN fold /\ fold'.closed = fold.closed /\ fold'.through = fold.through
        BY <2>1, <3>2 DEF FoldShape
      <3>4. FoldShape(fold')
        BY <2>1, <3>3 DEF FoldShape
      <3> QED BY <2>1, <3>1, <3>4
    <2>4. CASE WriteClosed /\ ~UNCHANGED foldVars
      <3>1. /\ savedFold' = savedFold /\ fold.closed # <<>>
            /\ periods' = WritePeriod(periods, Head(fold.closed))
            /\ fold' = [fold EXCEPT !.closed = Tail(@)]
        BY <2>4 DEF WriteClosed, PeriodsFail
      <3> QED BY <2>1, <3>1, WrittenShape
    <2>5. CASE SaveFold
      <3>1. savedFold' \in {fold, savedFold} /\ UNCHANGED <<fold, periods>>
        BY <2>5 DEF SaveFold
      <3> QED BY <2>1, <3>1
    <2> QED BY <2>2, <2>3, <2>4, <2>5
  <1>6. FoldSide'
    BY <1>1, <1>5 DEF FoldSide
  <1> QED BY <1>2, <1>4, <1>6 DEF AskedInv

\* A page of the waiting calls is written before the reach that covers it.
LEMMA FlushAskedKeeps ==
  ASSUME StreamInv, AskedInv, FlushAsked
  PROVE  AskedInv'
  <1>1. UNCHANGED <<wiring, log, trimmed, committed, sub, fold, savedFold, periods>>
    BY DEF FlushAsked, busVars, foldVars
  <1>2. FoldSide'
    BY <1>1 DEF AskedInv, FoldSide
  <1>3. PICK at : Goes(at) \/ Holds(at)
    BY DEF FlushAsked
  <1>4. "checkpoint" \in DOMAIN task' /\ task'.checkpoint \in Nat
    BY <1>3 DEF Goes, Holds, AskedInv, SourceSide
  <1>5. SourceSide'
    BY <1>1, <1>4 DEF AskedInv, SourceSide
  <1>6. CASE UNCHANGED askedVars
    <2>1. IndexSide'
      BY <1>1, <1>6, IndexUnread DEF AskedInv, askedVars
    <2> QED BY <1>2, <1>5, <2>1 DEF AskedInv
  <1>7. CASE ~UNCHANGED askedVars
    <2>1. /\ askedPages' = askedPages \cup asked.pending
          /\ asked' = [asked EXCEPT !.pending = {}, !.through = asked.applied]
          /\ reach' \in {reach, ReachOf(asked)}
      BY <1>7 DEF FlushAsked
    <2>2. /\ IndexOK(asked, askedPages) /\ reach \in ReachRecords
          /\ IndexOK(LoadedIndex(reach), askedPages)
      BY DEF AskedInv, IndexSide
    <2>3. \A q : IsCall(q)' <=> IsCall(q)
      BY <1>1 DEF IsCall
    <2>4. /\ asked' \in IndexRecords /\ asked'.applied = asked.applied /\ asked'.began = asked.began
          /\ asked'.readsFrom = asked.readsFrom /\ asked'.pending = {}
      BY <2>1, <2>2 DEF IndexOK, IndexRecords
    <2>5. ASSUME NEW x, x \in IndexRecords, x.applied = asked.applied, x.began = asked.began,
                 x.readsFrom = asked.readsFrom, x.pending = {}
          PROVE  /\ x.applied <= Len(log) /\ (x.applied = 0 => ~x.began)
                 /\ \A p \in 1..x.applied : IsCall(p)' /\ p \notin askedPages' \cup x.pending =>
                      \E q \in (p + 1)..x.applied : Msg[log'[q].msg].at <= x.readsFrom
      BY <1>1, <2>1, <2>2, <2>3, <2>5 DEF IndexOK, ReadsBackHonestly
    <2>6. IndexOK(asked, askedPages)'
      BY <1>1, <2>4, <2>5 DEF IndexOK, ReadsBackHonestly
    <2>7. CASE reach' = reach
      <3> DEFINE y == LoadedIndex(reach)
      <3>1. LoadedIndex(reach)' = y /\ IndexOK(y, askedPages)
        BY <2>2, <2>7 DEF LoadedIndex
      <3> HIDE DEF y
      <3>2. IndexOK(LoadedIndex(reach), askedPages)'
        BY <1>1, <2>1, <2>3, <3>1 DEF IndexOK, ReadsBackHonestly
      <3>3. IndexSide'
        BY <2>2, <2>6, <2>7, <3>2 DEF IndexSide
      <3> QED BY <1>2, <1>5, <3>3 DEF AskedInv
    <2>8. CASE reach' = ReachOf(asked)
      <3>1. reach' \in ReachRecords
        BY <2>2, <2>8 DEF ReachOf, ReachRecords, IndexOK, IndexRecords
      <3> DEFINE y == LoadedIndex(reach')
      <3>2. LoadedIndex(reach)' = y
        BY DEF LoadedIndex
      <3>3. /\ y \in IndexRecords /\ y.applied = asked.applied /\ y.began = asked.began
            /\ y.readsFrom = asked.readsFrom /\ y.pending = {}
        BY <2>2, <2>8 DEF LoadedIndex, ReachOf, IndexOK, IndexRecords
      <3> HIDE DEF y
      <3>4. IndexOK(LoadedIndex(reach), askedPages)'
        BY <1>1, <2>5, <3>2, <3>3 DEF IndexOK, ReadsBackHonestly
      <3>5. IndexSide'
        BY <2>6, <3>1, <3>4 DEF IndexSide
      <3> QED BY <1>2, <1>5, <3>5 DEF AskedInv
    <2> QED BY <2>1, <2>7, <2>8
  <1> QED BY <1>6, <1>7

LEMMA CommitKeepsAsked ==
  ASSUME StreamInv, AskedInv, Commit
  PROVE  AskedInv'
  <1>1. UNCHANGED <<wiring, log, trimmed, sub, fold, savedFold, periods, asked, reach, askedPages>>
    BY DEF Commit, foldVars, askedVars
  <1>2. FoldSide'
    BY <1>1 DEF AskedInv, FoldSide
  <1>3. IndexSide'
    BY <1>1, IndexUnread DEF AskedInv
  <1>4. committed' \in {committed, [committed EXCEPT !["projector"] = task.checkpoint]}
    BY DEF Commit
  <1>5. "projector" \in DOMAIN committed /\ task.checkpoint \in Nat /\ "checkpoint" \in DOMAIN task
    BY BothRead DEF AskedInv, SourceSide
  <1>6. DOMAIN committed' = DOMAIN committed /\ committed'["projector"] \in Nat
    BY <1>4, <1>5 DEF AskedInv, SourceSide
  <1>7. "checkpoint" \in DOMAIN task' /\ task'.checkpoint = 0
    BY <1>5 DEF Commit
  <1>8. SourceSide'
    BY <1>1, <1>6, <1>7 DEF AskedInv, SourceSide
  <1> QED BY <1>2, <1>3, <1>8 DEF AskedInv

LEMMA JournalKeepsAsked ==
  ASSUME StreamInv, AskedInv, JournalStep
  PROVE  AskedInv'
  <1>1. UNCHANGED <<wiring, log, trimmed, task, fold, savedFold, periods, asked, reach, askedPages>>
    BY DEF JournalStep, StartJournal, JournalReads, JournalCaughtUp, JournalTick, KeepPage,
           logVars, busVars, foldVars, askedVars
  <1>2. FoldSide'
    BY <1>1 DEF AskedInv, FoldSide
  <1>3. IndexSide'
    BY <1>1, IndexUnread DEF AskedInv
  <1>4. \A v : LET f == [sub EXCEPT !["journal"] = v]
               IN  DOMAIN f = DOMAIN sub /\ f["projector"] = sub["projector"]
    BY BothRead DEF AskedInv, SourceSide
  <1>5. \A v : LET f == [committed EXCEPT !["journal"] = v]
               IN  DOMAIN f = DOMAIN committed /\ f["projector"] = committed["projector"]
    BY BothRead DEF AskedInv, SourceSide
  <1>6. /\ DOMAIN sub' = DOMAIN sub /\ sub'["projector"] = sub["projector"]
        /\ DOMAIN committed' = DOMAIN committed /\ committed'["projector"] = committed["projector"]
    <2>1. CASE StartJournal \/ JournalReads
      BY <1>4, <2>1 DEF StartJournal, JournalReads
    <2>2. CASE JournalCaughtUp
      BY BothRead, <2>2 DEF JournalCaughtUp, AskedInv, SourceSide
    <2>3. CASE JournalTick
      BY <2>3 DEF JournalTick, logVars, busVars
    <2>4. CASE KeepPage
      BY <1>5, <2>4 DEF KeepPage
    <2> QED BY <2>1, <2>2, <2>3, <2>4 DEF JournalStep
  <1>7. SourceSide'
    BY <1>1, <1>6, SourceBeside DEF AskedInv, SourceSide
  <1> QED BY <1>2, <1>3, <1>7 DEF AskedInv

LEMMA ForgottenIndex ==
  ASSUME StreamInv, StreamInv', LogGrows, AskedInv, Crash \/ Exit
  PROVE  AskedInv'
  <1>1. /\ UNCHANGED <<wiring, trimmed, committed, savedFold, periods, reach, askedPages>>
        /\ sub' = [c \in Readers |-> NoSubscription]
        /\ task' = NewTask /\ fold' = NewFold /\ asked' = NewIndex
    BY DEF Crash, CrashLog, Exit, Forgotten
  <1>2. FoldSide'
    BY <1>1, NewFoldShape DEF AskedInv, FoldSide
  <1>3. SourceSide'
    <2>1. sub'["projector"] \in SubRecords /\ DOMAIN sub' = Readers
      BY <1>1, BothRead DEF NoSubscription, SubRecords
    <2>2. "checkpoint" \in DOMAIN task' /\ task'.checkpoint \in Nat
      BY <1>1 DEF NewTask
    <2> QED BY <1>1, <2>1, <2>2 DEF AskedInv, SourceSide
  <1>4. IndexOK(asked, askedPages)'
    <2>1. NewIndex \in IndexRecords /\ NewIndex.applied = 0 /\ ~NewIndex.began
      BY DEF NewIndex, IndexRecords, NoMoment
    <2>2. Len(log)' \in Nat
      BY DEF StreamInv
    <2> QED BY <1>1, <2>1, <2>2 DEF IndexOK, ReadsBackHonestly
  <1>5. IndexSide'
    <2> DEFINE x == LoadedIndex(reach)
    <2>1. IndexOK(x, askedPages) /\ LoadedIndex(reach)' = x
      BY <1>1 DEF AskedInv, IndexSide, LoadedIndex
    <2> HIDE DEF x
    <2>2. /\ x \in IndexRecords /\ x.applied <= Len(log') /\ (x.applied = 0 => ~x.began)
          /\ \A p \in 1..x.applied : IsCall(p)' /\ p \notin askedPages \cup x.pending =>
               \E q \in (p + 1)..x.applied : Msg[log'[q].msg].at <= x.readsFrom
      BY <2>1, HonestyStays
    <2>3. IndexOK(LoadedIndex(reach), askedPages)'
      BY <1>1, <2>1, <2>2 DEF IndexOK, ReadsBackHonestly
    <2> QED BY <1>1, <1>4, <2>3 DEF AskedInv, IndexSide
  <1> QED BY <1>2, <1>3, <1>5 DEF AskedInv

LEMMA AskedStep ==
  StreamInv /\ BusInv /\ AskedInv /\ StreamInv' /\ [ProjectorNext]_vars => AskedInv'
  <1> SUFFICES ASSUME StreamInv, BusInv, AskedInv, StreamInv', [ProjectorNext]_vars
               PROVE  AskedInv'
    OBVIOUS
  <1>1. LogGrows
    BY EveryStepGrows
  <1>2. CASE LogStep
    BY <1>1, <1>2, LogStepKeepsAsked
  <1>3. CASE ReadStep \/ Shutdown
    BY <1>3, StartKeepsAsked, HandleKeepsAsked, TaskKeepsAsked DEF ReadStep
  <1>4. CASE FlushStep
    BY <1>4, TaskKeepsAsked, PeriodStepsKeepAsked, FlushAskedKeeps, CommitKeepsAsked DEF FlushStep
  <1>5. CASE JournalStep
    BY <1>5, JournalKeepsAsked
  <1>6. CASE Crash \/ Exit
    BY <1>1, <1>6, ForgottenIndex
  <1>7. CASE UNCHANGED vars
    <2>1. /\ UNCHANGED <<wiring, log, trimmed, task, fold, savedFold, periods, asked, reach, askedPages>>
          /\ UNCHANGED <<sub, committed>>
      BY <1>7 DEF vars, logVars, busVars, foldVars, askedVars
    <2>2. IndexSide'
      BY <2>1, IndexUnread DEF AskedInv
    <2> QED BY <2>1, <2>2 DEF AskedInv, SourceSide, FoldSide
  <1> QED BY <1>2, <1>3, <1>4, <1>5, <1>6, <1>7 DEF ProjectorNext

LEMMA AskedInit ==
  ASSUME NEW held \in Seq(Msgs), wiring \in WiringSpace, ProjectorInit(held), StreamInv
  PROVE  AskedInv
  <1>1. /\ LogInit(held) /\ task = NewTask /\ fold = NewFold /\ savedFold = NewFold
        /\ periods = NoPeriods /\ asked = NewIndex /\ reach = NoReach
    BY DEF ProjectorInit
  <1>2. SourceSide
    <2>1. /\ sub = [c \in Readers |-> NoSubscription] /\ committed = [c \in Readers |-> 0]
          /\ trimmed = 0
      BY <1>1 DEF LogInit
    <2>2. NoSubscription \in SubRecords
      BY DEF NoSubscription, SubRecords
    <2>3. "checkpoint" \in DOMAIN task /\ task.checkpoint = 0
      BY <1>1 DEF NewTask
    <2> QED BY <2>1, <2>2, <2>3, BothRead DEF SourceSide
  <1>3. StoreShape(periods)
    BY <1>1 DEF NoPeriods, NoPeriod, StoreShape
  <1>4. FoldSide
    BY <1>1, <1>3, NewFoldShape DEF FoldSide
  <1>5. IndexOK(NewIndex, askedPages)
    BY <1>1, FreshIndex
  <1>6. LoadedIndex(reach) = NewIndex /\ reach \in ReachRecords
    BY <1>1 DEF LoadedIndex, NewIndex, NoReach, ReachRecords, NoMoment
  <1> HIDE DEF NewIndex
  <1> QED BY <1>1, <1>2, <1>4, <1>5, <1>6 DEF AskedInv, IndexSide

\* asked.rs AskedIndex::apply and flush: of the calls the index has passed, one that is
\* in no page and not in memory is older than the moment the index says it reads back
\* to, whatever was broadcast out of order, replayed, trimmed, refused by the store or
\* lost in a crash.  The invariant adds that the saved reach is as honest with the
\* written pages alone, which is what a restart has, and that an index that has applied
\* nothing has not begun; and that every position the projector is handed is one of the
\* log, for which the fold's and the saved state's positions have to be numbers.
THEOREM AskedIndexStaysHonest == ProjectorSpec => []AskedIndexIsHonest
  <1> DEFINE Inv == StreamInv /\ BusInv /\ AskedInv
  <1>1. ASSUME wiring \in WiringSpace, NEW held \in Seq(Msgs), Len(held) <= MaxRecords,
               ProjectorInit(held)
        PROVE  Inv
    <2>1. LogInit(held)
      BY <1>1 DEF ProjectorInit
    <2>2. StreamInv /\ BusInv
      BY <2>1, InitNumbers, BusInit
    <2> QED BY <1>1, <2>2, AskedInit
  <1>2. wiring \in WiringSpace
        /\ (\E held \in Seq(Msgs) : Len(held) <= MaxRecords /\ ProjectorInit(held)) => Inv
    BY <1>1
  <1>3. Inv /\ [ProjectorNext]_vars => Inv'
    BY StreamStep, BusStep, AskedStep
  <1>4. Inv => AskedIndexIsHonest
    BY DEF AskedInv, IndexSide, IndexOK, AskedIndexIsHonest
  <1> HIDE DEF Inv
  <1> QED BY <1>2, <1>3, <1>4, PTL DEF ProjectorSpec
=============================================================================
