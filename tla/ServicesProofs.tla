--------------------------- MODULE ServicesProofs ---------------------------
(***************************************************************************)
(* What holds of the file store's derived files, of the span assembler, of *)
(* the scheduler's slots, of hosted sessions, of alert deliveries and of   *)
(* the log's file for every number of processes, every sequence of         *)
(* decisions, every set of slots, timers, spans, failures and streams, and *)
(* every lease, cap and bound: an inductive invariant for each component,  *)
(* one proof step per action.                                              *)
(***************************************************************************)
EXTENDS MCServices, NaturalsLemmas, FiniteSetTheorems, SequenceTheorems

-----------------------------------------------------------------------------
(* The file store: its derived files stay in step with the stream, however *)
(* often apply is run again over what an earlier run wrote.                *)

RowStates == {"none", "pending", "claimed", "parked"}
RowTable == [RowKeys -> RowStates]

\* The decisions are numbered from 1, and each writes rows and timers by key.
LEMMA CommitFacts ==
  /\ Decided = 1..Len(Commit) /\ Len(Commit) \in Nat /\ MaxBreaks \in Nat
  /\ \A d \in Decided :
       /\ d \in Nat \ {0} /\ Commit[d].lines \in Nat \ {0}
       /\ Commit[d].schedule \in SUBSET RowKeys /\ Commit[d].clear \in SUBSET RowKeys
  <1>1. Decided = 1..Len(Commit) /\ Len(Commit) \in Nat /\ MaxBreaks \in Nat
    BY CommitAssumption DEF Decided
  <1>2. ASSUME NEW d \in Decided
        PROVE  /\ d \in Nat \ {0} /\ Commit[d].lines \in Nat \ {0}
               /\ Commit[d].schedule \in SUBSET RowKeys /\ Commit[d].clear \in SUBSET RowKeys
    <2> DEFINE R == [lines : Nat \ {0}, dispatch : SUBSET RowKeys, park : SUBSET RowKeys,
                     retire : SUBSET RowKeys, schedule : SUBSET RowKeys, clear : SUBSET RowKeys]
    <2>1. Commit \in Seq(R) /\ d \in 1..Len(Commit)
      BY <1>1, CommitAssumption
    <2> HIDE DEF R
    <2>2. Commit[d] \in R
      BY <2>1
    <2>3. d \in Nat \ {0}
      BY <1>1, <2>1
    <2> QED BY <2>2, <2>3 DEF R
  <1> QED BY <1>1, <1>2

-----------------------------------------------------------------------------
(* What apply writes, and what a second run of it writes. *)

\* What WriteRows says of one key.
LEMMA WriteRowsAt ==
  ASSUME NEW t, NEW d, NEW k \in RowKeys
  PROVE  /\ k \in Commit[d].retire => WriteRows(t, d)[k] = "none"
         /\ k \notin Commit[d].retire /\ k \in Commit[d].dispatch =>
              WriteRows(t, d)[k] = "pending"
         /\ k \notin Commit[d].retire /\ k \notin Commit[d].dispatch =>
              /\ k \in Commit[d].park /\ t[k] # "none" => WriteRows(t, d)[k] = "parked"
              /\ k \notin Commit[d].park \/ t[k] = "none" => WriteRows(t, d)[k] = t[k]
  BY DEF WriteRows

LEMMA WriteRowsType ==
  ASSUME NEW t \in RowTable, NEW d
  PROVE  WriteRows(t, d) \in RowTable
  <1>1. ASSUME NEW k \in RowKeys PROVE WriteRows(t, d)[k] \in RowStates
    <2>1. t[k] \in RowStates
      BY DEF RowTable
    <2> QED BY <2>1, WriteRowsAt DEF RowStates
  <1> QED BY <1>1 DEF WriteRows, RowTable

\* Two tables that agree at every key are the same.
LEMMA SameRows ==
  ASSUME NEW t \in RowTable, NEW u \in RowTable, \A k \in RowKeys : t[k] = u[k]
  PROVE  t = u
  BY DEF RowTable

\* A second run of apply over the rows of the first changes none of them.
LEMMA WriteRowsTwice ==
  ASSUME NEW t \in RowTable, NEW d
  PROVE  WriteRows(WriteRows(t, d), d) = WriteRows(t, d)
  <1> DEFINE u == WriteRows(t, d)
  <1>1. u \in RowTable /\ WriteRows(u, d) \in RowTable
    BY WriteRowsType
  <1>2. ASSUME NEW k \in RowKeys PROVE WriteRows(u, d)[k] = u[k]
    BY WriteRowsAt
  <1> QED BY <1>1, <1>2, SameRows

\* A claim is lost or kept by the rows a decision writes, and seen by none.
LEMMA ClaimsAreNotSeen ==
  ASSUME NEW t \in RowTable, NEW d
  PROVE  /\ Unclaimed(t) \in RowTable
         /\ Unclaimed(WriteRows(t, d)) = WriteRows(Unclaimed(t), d)
  <1>1. ASSUME NEW u \in RowTable PROVE Unclaimed(u) \in RowTable
    <2>1. ASSUME NEW k \in RowKeys PROVE Unclaimed(u)[k] \in RowStates
      BY DEF Unclaimed, RowTable, RowStates
    <2> QED BY <2>1 DEF Unclaimed, RowTable
  <1>2. WriteRows(t, d) \in RowTable /\ WriteRows(Unclaimed(t), d) \in RowTable
    BY <1>1, WriteRowsType
  <1>3. ASSUME NEW k \in RowKeys
        PROVE  Unclaimed(WriteRows(t, d))[k] = WriteRows(Unclaimed(t), d)[k]
    <2>1. \A u : Unclaimed(u)[k] = IF u[k] = "claimed" THEN "pending" ELSE u[k]
      BY DEF Unclaimed
    <2> QED BY <2>1, WriteRowsAt
  <1> QED BY <1>1, <1>2, <1>3, SameRows

LEMMA WriteTimersTwice ==
  ASSUME NEW t, NEW d
  PROVE  WriteTimers(WriteTimers(t, d), d) = WriteTimers(t, d)
  BY DEF WriteTimers

-----------------------------------------------------------------------------
(* RowsAfter and TimersAfter are defined by recursion over the decisions. *)

LEMMA RowsAfterDef ==
  /\ RowsAfter[0] = [k \in RowKeys |-> "none"]
  /\ \A n \in Nat : RowsAfter[n] \in RowTable /\ RowsAfter[n + 1] = WriteRows(RowsAfter[n], n + 1)
  <1> DEFINE Step == [p \in RowTable \X Nat |-> WriteRows(p[1], p[2])]
             none == [k \in RowKeys |-> "none"]
  <1>1. none \in RowTable /\ Step \in [RowTable \X Nat -> RowTable]
    <2>1. \A p \in RowTable \X Nat : WriteRows(p[1], p[2]) \in RowTable
      BY WriteRowsType
    <2>2. Step \in [RowTable \X Nat -> RowTable]
      BY <2>1
    <2>3. none \in RowTable
      BY DEF RowTable, RowStates
    <2> QED BY <2>2, <2>3
  <1>2. PICK f : Defines(RowTable, none, Step, f)
    <2> HIDE DEF Step, none
    <2> QED BY <1>1, RecursionExists
  <1>3. f \in [Nat -> RowTable] /\ f[0] = none
    BY <1>2 DEF Defines
  <1>4. ASSUME NEW n \in Nat PROVE f[n + 1] = WriteRows(f[n], n + 1)
    <2>1. <<f[n], n + 1>> \in RowTable \X Nat
      BY <1>3
    <2>2. Step[<<f[n], n + 1>>] = WriteRows(f[n], n + 1)
      BY <2>1
    <2>3. f[n + 1] = Step[<<f[n], n + 1>>]
      BY <1>2 DEF Defines
    <2> QED BY <2>2, <2>3
  <1>5. f = [n \in Nat |-> IF n = 0 THEN none ELSE WriteRows(f[n - 1], n)]
    <2>1. ASSUME NEW n \in Nat PROVE f[n] = IF n = 0 THEN none ELSE WriteRows(f[n - 1], n)
      <3>1. CASE n = 0
        BY <1>3, <3>1
      <3>2. CASE n # 0
        <4>1. n - 1 \in Nat /\ n - 1 + 1 = n
          BY <3>2
        <4> QED BY <1>4, <3>2, <4>1
      <3> QED BY <3>1, <3>2
    <2> QED BY <1>3, <2>1
  <1>6. RowsAfter = [n \in Nat |-> IF n = 0 THEN none ELSE WriteRows(RowsAfter[n - 1], n)]
    <2>1. \E g : g = [n \in Nat |-> IF n = 0 THEN none ELSE WriteRows(g[n - 1], n)]
      BY <1>5
    <2> QED BY <2>1, Zenon DEF RowsAfter
  <1> HIDE DEF none
  <1>7. RowsAfter[0] = none
    BY <1>6
  <1>8. ASSUME NEW n \in Nat PROVE RowsAfter[n + 1] = WriteRows(RowsAfter[n], n + 1)
    <2>1. n + 1 \in Nat /\ n + 1 # 0 /\ n + 1 - 1 = n
      OBVIOUS
    <2> QED BY <1>6, <2>1
  <1>9. \A n \in Nat : RowsAfter[n] \in RowTable
    <2> DEFINE P == {n \in Nat : RowsAfter[n] \in RowTable}
    <2>1. 0 \in P /\ P \in SUBSET Nat
      BY <1>1, <1>7
    <2>2. \A n \in Nat : n \in P => n + 1 \in P
      BY <1>8, WriteRowsType
    <2> HIDE DEF P
    <2>3. P = Nat
      BY <2>1, <2>2, SetInduction
    <2> QED BY <2>3 DEF P
  <1> QED BY <1>7, <1>8, <1>9 DEF none

LEMMA TimersAfterDef ==
  /\ TimersAfter[0] = {}
  /\ \A n \in Nat : TimersAfter[n + 1] = WriteTimers(TimersAfter[n], n + 1)
  <1> DEFINE X == SUBSET UNION {Commit[n].schedule : n \in Nat}
             Step == [p \in X \X Nat |-> WriteTimers(p[1], p[2])]
  <1>1. {} \in X /\ Step \in [X \X Nat -> X]
    <2>1. \A t \in X, n \in Nat : WriteTimers(t, n) \in X
      BY DEF WriteTimers
    <2>2. \A p \in X \X Nat : WriteTimers(p[1], p[2]) \in X
      <3> HIDE DEF X
      <3> QED BY <2>1
    <2> QED BY <2>2
  <1> HIDE DEF X
  <1>2. PICK f : Defines(X, {}, Step, f)
    <2> HIDE DEF Step
    <2> QED BY <1>1, RecursionExists
  <1>3. f \in [Nat -> X] /\ f[0] = {}
    BY <1>2 DEF Defines
  <1>4. ASSUME NEW n \in Nat PROVE f[n + 1] = WriteTimers(f[n], n + 1)
    <2>1. <<f[n], n + 1>> \in X \X Nat
      BY <1>3
    <2>2. Step[<<f[n], n + 1>>] = WriteTimers(f[n], n + 1)
      BY <2>1
    <2>3. f[n + 1] = Step[<<f[n], n + 1>>]
      BY <1>2 DEF Defines
    <2> QED BY <2>2, <2>3
  <1>5. f = [n \in Nat |-> IF n = 0 THEN {} ELSE WriteTimers(f[n - 1], n)]
    <2>1. ASSUME NEW n \in Nat PROVE f[n] = IF n = 0 THEN {} ELSE WriteTimers(f[n - 1], n)
      <3>1. CASE n = 0
        BY <1>3, <3>1
      <3>2. CASE n # 0
        <4>1. n - 1 \in Nat /\ n - 1 + 1 = n
          BY <3>2
        <4> QED BY <1>4, <3>2, <4>1
      <3> QED BY <3>1, <3>2
    <2> QED BY <1>3, <2>1
  <1>6. TimersAfter = [n \in Nat |-> IF n = 0 THEN {} ELSE WriteTimers(TimersAfter[n - 1], n)]
    <2>1. \E g : g = [n \in Nat |-> IF n = 0 THEN {} ELSE WriteTimers(g[n - 1], n)]
      BY <1>5
    <2> QED BY <2>1, Zenon DEF TimersAfter
  <1>7. TimersAfter[0] = {}
    BY <1>6
  <1>8. ASSUME NEW n \in Nat PROVE TimersAfter[n + 1] = WriteTimers(TimersAfter[n], n + 1)
    <2>1. n + 1 \in Nat /\ n + 1 # 0 /\ n + 1 - 1 = n
      OBVIOUS
    <2> QED BY <1>6, <2>1
  <1> QED BY <1>7, <1>8

-----------------------------------------------------------------------------
(* The inductive invariant: m decisions have their input in the stream. *)

ApplySteps ==
  {"owner", "stream", "projection", "outbox", "timers", "attempts", "checkpoint", "remove"}

\* The decisions whose consequences are all on disk, and the one that is being
\* applied or was applied last.
Done(j, m) == IF j = NoCommit THEN m ELSE j - 1
Latest(j, m) == IF j = NoCommit THEN m ELSE j

TypePart ==
  /\ open \in BOOLEAN /\ torn \in BOOLEAN /\ owned \in BOOLEAN /\ own \in BOOLEAN
  /\ rows \in RowTable /\ timerRows \in SUBSET RowKeys
  /\ outbox \in SUBSET Decided /\ sent \in SUBSET Decided
  /\ gate \in ApplySteps \cup {"free", "recover"} /\ breaks \in 0..MaxBreaks

StreamPart(m) ==
  /\ lines \in Seq(Decided \X Nat)
  /\ lines # <<>> => m > 0
  /\ m <= Len(Commit) /\ InStream = 1..m

\* The record under commits/ is of the last decision in the stream or of the
\* one after it, and who holds the gate knows which.
RecordPart(m) ==
  /\ call \in Decided \cup {NoCommit} /\ journal \in Decided \cup {NoCommit}
  /\ call <= m + 1
  /\ journal # NoCommit => journal \in {m, m + 1}
  /\ gate \in ApplySteps => journal # NoCommit
  /\ own => gate \in ApplySteps /\ call = journal

\* Every file is from before the record or from after it, never from between.
TablesPart(m) ==
  LET done == Done(journal, m)
      latest == Latest(journal, m)
  IN /\ projected \in {done, latest} /\ checkpointed \in {done, latest}
     /\ timerRows \in {TimersAfter[done], TimersAfter[latest]}
     /\ Unclaimed(rows) \in {RowsAfter[done], RowsAfter[latest]}
     /\ 1..done \subseteq outbox \cup sent
     /\ done > 0 => owned
     /\ answered \subseteq 1..done

\* How far the run of apply that holds the gate has come.
ProgressPart(m) ==
  /\ gate \in ApplySteps \ {"owner"} => owned
  /\ gate \in ApplySteps \ {"owner", "stream"} => journal = m
  /\ gate \in {"outbox", "timers", "attempts", "checkpoint", "remove"} => projected = journal
  /\ gate \in {"timers", "attempts", "checkpoint", "remove"} => journal \in outbox \cup sent
  /\ gate \in {"attempts", "checkpoint", "remove"} => timerRows = TimersAfter[journal]
  /\ gate \in {"checkpoint", "remove"} => Unclaimed(rows) = RowsAfter[journal]
  /\ gate = "remove" => checkpointed = journal

JournalOK(m) ==
  StreamPart(m) /\ RecordPart(m) /\ TablesPart(m) /\ ProgressPart(m)

JournalInv == TypePart /\ \E m \in Nat : JournalOK(m)

-----------------------------------------------------------------------------
(* The stream *)

\* What a concatenation is made of.
LEMMA Concatenated ==
  ASSUME NEW T, NEW s \in Seq(T), NEW t \in Seq(T)
  PROVE  /\ s \o t \in Seq(T) /\ Len(s \o t) = Len(s) + Len(t)
         /\ Len(s) \in Nat /\ Len(t) \in Nat
         /\ \A i \in 1..Len(s) : (s \o t)[i] = s[i]
         /\ \A i \in 1..Len(t) : (s \o t)[Len(s) + i] = t[i]
  BY SMTT(30)

LEMMA ToSetOfConcat ==
  ASSUME NEW T, NEW a \in Seq(T), NEW b \in Seq(T)
  PROVE  ToSet(a \o b) = ToSet(a) \cup ToSet(b)
  <1> DEFINE c == a \o b
  <1>1. /\ c \in Seq(T) /\ Len(c) = Len(a) + Len(b) /\ Len(a) \in Nat /\ Len(b) \in Nat
        /\ \A i \in 1..Len(a) : c[i] = a[i]
        /\ \A i \in 1..Len(b) : c[Len(a) + i] = b[i]
    BY Concatenated
  <1> HIDE DEF c
  <1>2. /\ ToSet(c) = {c[i] : i \in 1..Len(c)} /\ ToSet(a) = {a[i] : i \in 1..Len(a)}
        /\ ToSet(b) = {b[i] : i \in 1..Len(b)}
    <2>1. DOMAIN c = 1..Len(c) /\ DOMAIN a = 1..Len(a) /\ DOMAIN b = 1..Len(b)
      BY <1>1
    <2> QED BY <2>1, Zenon DEF ToSet
  <1>3. ASSUME NEW x \in ToSet(c) PROVE x \in ToSet(a) \cup ToSet(b)
    <2>1. PICK j \in 1..Len(c) : x = c[j]
      BY <1>2
    <2>2. CASE j <= Len(a)
      BY <1>1, <1>2, <2>1, <2>2
    <2>3. CASE j > Len(a)
      <3>1. j - Len(a) \in 1..Len(b) /\ Len(a) + (j - Len(a)) = j
        BY <1>1, <2>1, <2>3
      <3> QED BY <1>1, <1>2, <2>1, <3>1
    <2>4. j \in Nat
      BY <1>1
    <2> QED BY <1>1, <2>2, <2>3, <2>4
  <1>4. ASSUME NEW x \in ToSet(a) PROVE x \in ToSet(c)
    <2>1. PICK j \in 1..Len(a) : x = a[j]
      BY <1>2
    <2>2. j \in 1..Len(c) /\ c[j] = x
      BY <1>1, <2>1
    <2> QED BY <1>2, <2>2
  <1>5. ASSUME NEW x \in ToSet(b) PROVE x \in ToSet(c)
    <2>1. PICK j \in 1..Len(b) : x = b[j]
      BY <1>2
    <2>2. Len(a) + j \in 1..Len(c) /\ c[Len(a) + j] = x
      BY <1>1, <2>1
    <2> QED BY <1>2, <2>2
  <1>6. ToSet(c) = ToSet(a) \cup ToSet(b)
    BY <1>3, <1>4, <1>5
  <1> QED BY <1>6 DEF c

\* Some of the lines of d, or all of them, behind the stream: its input is among
\* them if there are any.
LEMMA StreamGrows ==
  ASSUME lines \in Seq(Decided \X Nat), NEW d \in Decided,
         NEW n \in 0..Commit[d].lines, NEW s \in Seq(Decided \X Nat), Len(s) = n,
         \A i \in 1..n : s[i] = <<d, i>>,
         lines' = lines \o s
  PROVE  /\ lines' \in Seq(Decided \X Nat)
         /\ n = 0 => lines' = lines /\ InStream' = InStream
         /\ n > 0 => InStream' = InStream \cup {d} /\ lines' # <<>>
  <1>1. /\ lines' \in Seq(Decided \X Nat) /\ Len(lines') = Len(lines) + n
        /\ \A i \in 1..Len(lines) : lines'[i] = lines[i]
        /\ \A i \in 1..n : lines'[Len(lines) + i] = s[i]
        /\ Len(lines) \in Nat /\ n \in Nat
    <2> DEFINE T == Decided \X Nat
    <2>1. lines \in Seq(T) /\ s \in Seq(T)
      OBVIOUS
    <2> HIDE DEF T
    <2>2. /\ lines \o s \in Seq(T) /\ Len(lines \o s) = Len(lines) + Len(s)
          /\ Len(lines) \in Nat /\ Len(s) \in Nat
          /\ \A i \in 1..Len(lines) : (lines \o s)[i] = lines[i]
          /\ \A i \in 1..Len(s) : (lines \o s)[Len(lines) + i] = s[i]
      <3>1. /\ lines \o s \in Seq(T) /\ Len(lines \o s) = Len(lines) + Len(s)
        BY <2>1, Concatenated
      <3>2. Len(lines) \in Nat /\ Len(s) \in Nat
        BY <2>1, Concatenated
      <3>3. \A i \in 1..Len(lines) : (lines \o s)[i] = lines[i]
        BY <2>1, Concatenated
      <3>4. \A i \in 1..Len(s) : (lines \o s)[Len(lines) + i] = s[i]
        BY <2>1, Concatenated
      <3> QED BY <3>1, <3>2, <3>3, <3>4
    <2>3. /\ lines' \in Seq(T) /\ Len(lines') = Len(lines) + n /\ Len(lines) \in Nat /\ n \in Nat
          /\ \A i \in 1..Len(lines) : lines'[i] = lines[i]
          /\ \A i \in 1..n : lines'[Len(lines) + i] = s[i]
      <3>1. lines' = lines \o s /\ Len(s) = n
        OBVIOUS
      <3>2. lines' \in Seq(T) /\ Len(lines') = Len(lines) + Len(s)
        BY <2>2, <3>1
      <3>3. /\ \A i \in 1..Len(lines) : lines'[i] = lines[i]
            /\ \A i \in 1..Len(s) : lines'[Len(lines) + i] = s[i]
        BY <2>2, <3>1
      <3> QED BY <2>2, <3>1, <3>2, <3>3
    <2> QED BY <2>3, Zenon DEF T
  <1>2. \A x : x \in ToSet(lines') <=>
                 x \in ToSet(lines) \/ \E i \in 1..n : x = <<d, i>>
    <2>1. ToSet(lines') = ToSet(lines) \cup ToSet(s)
      BY ToSetOfConcat
    <2>2. ToSet(s) = {s[i] : i \in 1..n}
      <3>1. DOMAIN s = 1..Len(s) /\ Len(s) = n
        OBVIOUS
      <3>2. ToSet(s) = {s[i] : i \in DOMAIN s}
        BY Zenon DEF ToSet
      <3> QED BY <3>1, <3>2
    <2>3. \A x : x \in ToSet(s) <=> \E i \in 1..n : x = <<d, i>>
      BY <2>2
    <2> QED BY <2>1, <2>3
  <1>3. CASE n = 0
    <2>1. s = <<>>
      BY <1>3
    <2>2. lines' = lines
      BY <2>1
    <2> QED BY <1>1, <1>3, <2>2 DEF InStream
  <1>4. CASE n > 0
    <2>1. InStream' = {e \in Decided : <<e, 1>> \in ToSet(lines')}
          /\ InStream = {e \in Decided : <<e, 1>> \in ToSet(lines)}
      BY DEF InStream
    <2>2. \A e \in Decided : (\E i \in 1..n : <<e, 1>> = <<d, i>>) <=> e = d
      BY <1>1, <1>4
    <2>3. InStream' = InStream \cup {d}
      BY <1>2, <2>1, <2>2
    <2>4. lines' # <<>>
      BY <1>1, <1>4
    <2> QED BY <1>1, <1>4, <2>3, <2>4
  <1> QED BY <1>1, <1>3, <1>4

\* What the stream holds of a decision after a write of it, whole or cut short.
LEMMA LinesWritten ==
  ASSUME NEW d \in Decided
  PROVE  /\ LinesOf(d) \in Seq(Decided \X Nat) /\ Len(LinesOf(d)) = Commit[d].lines
         /\ \A i \in 1..Commit[d].lines : LinesOf(d)[i] = <<d, i>>
         /\ \A n \in 0..Commit[d].lines :
              /\ SubSeq(LinesOf(d), 1, n) \in Seq(Decided \X Nat)
              /\ Len(SubSeq(LinesOf(d), 1, n)) = n
              /\ \A i \in 1..n : SubSeq(LinesOf(d), 1, n)[i] = <<d, i>>
  <1>1. Commit[d].lines \in Nat \ {0}
    BY CommitFacts
  <1>2. /\ LinesOf(d) \in Seq(Decided \X Nat) /\ Len(LinesOf(d)) = Commit[d].lines
        /\ \A i \in 1..Commit[d].lines : LinesOf(d)[i] = <<d, i>>
    <2>1. \A i \in 1..Commit[d].lines : <<d, i>> \in Decided \X Nat
      BY <1>1
    <2> QED BY <1>1, <2>1 DEF LinesOf
  <1>3. ASSUME NEW n \in 0..Commit[d].lines
        PROVE  /\ SubSeq(LinesOf(d), 1, n) \in Seq(Decided \X Nat)
               /\ Len(SubSeq(LinesOf(d), 1, n)) = n
               /\ \A i \in 1..n : SubSeq(LinesOf(d), 1, n)[i] = <<d, i>>
    <2> DEFINE s == LinesOf(d)
    <2> HIDE DEF s
    <2>1. s \in Seq(Decided \X Nat) /\ Len(s) = Commit[d].lines
          /\ \A i \in 1..Commit[d].lines : s[i] = <<d, i>>
      BY <1>2 DEF s
    <2>2. /\ SubSeq(s, 1, n) \in Seq(Decided \X Nat) /\ Len(SubSeq(s, 1, n)) = n
          /\ \A i \in 1..n : SubSeq(s, 1, n)[i] = s[i]
      BY <1>1, <2>1
    <2>3. \A i \in 1..n : s[i] = <<d, i>>
      BY <1>1, <2>1
    <2> QED BY <2>2, <2>3 DEF s
  <1> QED BY <1>2, <1>3

-----------------------------------------------------------------------------
(* The file store's tables *)

LEMMA RowsWritten ==
  ASSUME NEW t \in RowTable, NEW j \in Decided,
         Unclaimed(t) \in {RowsAfter[j - 1], RowsAfter[j]}
  PROVE  WriteRows(t, j) \in RowTable /\ Unclaimed(WriteRows(t, j)) = RowsAfter[j]
  <1>1. j - 1 \in Nat /\ j - 1 + 1 = j
    BY CommitFacts
  <1>2. RowsAfter[j - 1] \in RowTable /\ RowsAfter[j] = WriteRows(RowsAfter[j - 1], j)
    BY <1>1, RowsAfterDef
  <1>3. WriteRows(RowsAfter[j], j) = RowsAfter[j]
    BY <1>2, WriteRowsTwice
  <1>4. Unclaimed(WriteRows(t, j)) = WriteRows(Unclaimed(t), j)
    BY ClaimsAreNotSeen
  <1> QED BY <1>2, <1>3, <1>4, WriteRowsType

LEMMA TimersWritten ==
  ASSUME NEW t \in SUBSET RowKeys, NEW j \in Decided, t \in {TimersAfter[j - 1], TimersAfter[j]}
  PROVE  WriteTimers(t, j) \in SUBSET RowKeys /\ WriteTimers(t, j) = TimersAfter[j]
  <1>1. j - 1 \in Nat /\ j - 1 + 1 = j
    BY CommitFacts
  <1>2. TimersAfter[j] = WriteTimers(TimersAfter[j - 1], j)
    BY <1>1, TimersAfterDef
  <1>3. WriteTimers(TimersAfter[j], j) = TimersAfter[j]
    BY <1>2, WriteTimersTwice
  <1>4. WriteTimers(t, j) \in SUBSET RowKeys
    BY CommitFacts DEF WriteTimers
  <1> QED BY <1>2, <1>3, <1>4

\* A claim changes no row another reader of the table would see.
LEMMA RowClaimed ==
  ASSUME NEW t \in RowTable, NEW k \in RowKeys, t[k] = "pending"
  PROVE  /\ [t EXCEPT ![k] = "claimed"] \in RowTable
         /\ Unclaimed([t EXCEPT ![k] = "claimed"]) = Unclaimed(t)
  BY DEF RowTable, RowStates, Unclaimed

LEMMA StreamRests ==
  ASSUME NEW m \in Nat, StreamPart(m), UNCHANGED lines
  PROVE  StreamPart(m)'
  BY DEF StreamPart, InStream

LEMMA TablesRest ==
  ASSUME NEW m \in Nat, TablesPart(m),
         UNCHANGED <<journal, projected, checkpointed, timerRows, rows, owned, answered>>,
         outbox' \cup sent' = outbox \cup sent
  PROVE  TablesPart(m)'
  BY DEF TablesPart, Unclaimed

\* The numbers the parts speak of.
LEMMA JournalNumbers ==
  ASSUME NEW m \in Nat, RecordPart(m), StreamPart(m)
  PROVE  /\ Done(journal, m) \in Nat /\ Latest(journal, m) \in Nat
         /\ Done(journal, m) <= m /\ m <= Len(Commit)
         /\ journal # NoCommit =>
              /\ journal \in Decided /\ journal \in Nat \ {0}
              /\ Done(journal, m) = journal - 1 /\ Latest(journal, m) = journal
         /\ journal = NoCommit => Done(journal, m) = m /\ Latest(journal, m) = m
         /\ Decided = 1..Len(Commit) /\ Len(Commit) \in Nat /\ 1..m \subseteq Decided
  BY CommitFacts DEF RecordPart, StreamPart, Done, Latest, NoCommit

-----------------------------------------------------------------------------
(* The file store's inductive step *)

\* Opening the store, asking for an append, recovering and the commit point.
LEMMA EntryKeeps ==
  ASSUME TypePart, NEW m \in Nat, JournalOK(m),
         \/ OpenStore \/ Recover \/ Recovered
         \/ \E d \in Decided : BeginAppend(d)
  PROVE  TypePart' /\ JournalOK(m)'
  <1>0. StreamPart(m) /\ RecordPart(m) /\ TablesPart(m) /\ ProgressPart(m)
    BY DEF JournalOK
  <1>1. CASE OpenStore
    <2>1. TypePart' /\ RecordPart(m)' /\ ProgressPart(m)'
      <3>1. gate' = "recover" /\ own' = FALSE /\ call' = 0 /\ journal' = journal
        BY <1>1 DEF OpenStore, NoCommit
      <3>2. TypePart'
        BY <1>1, <3>1 DEF OpenStore, TypePart
      <3>3. RecordPart(m)'
        BY <1>0, <3>1 DEF RecordPart, ApplySteps, NoCommit
      <3>4. ProgressPart(m)'
        BY <3>1 DEF ProgressPart, ApplySteps
      <3> QED BY <3>2, <3>3, <3>4
    <2>2. TablesPart(m)' /\ StreamPart(m)'
      BY <1>0, <1>1, TablesRest, StreamRests DEF OpenStore
    <2> QED BY <2>1, <2>2 DEF JournalOK
  <1>2. ASSUME NEW d \in Decided, BeginAppend(d) PROVE TypePart' /\ JournalOK(m)'
    <2>1. d <= m + 1
      BY <1>0, <1>2, CommitFacts DEF BeginAppend, StreamPart
    <2>2. TypePart' /\ RecordPart(m)' /\ ProgressPart(m)'
      BY <1>0, <1>2, <2>1 DEF BeginAppend, TypePart, RecordPart, ProgressPart, ApplySteps
    <2>3. TablesPart(m)' /\ StreamPart(m)'
      BY <1>0, <1>2, TablesRest, StreamRests DEF BeginAppend
    <2> QED BY <2>2, <2>3 DEF JournalOK
  <1>3. CASE Recover
    <2>1. TypePart' /\ RecordPart(m)' /\ ProgressPart(m)'
      BY <1>0, <1>3 DEF Recover, Holding, TypePart, RecordPart, ProgressPart, ApplySteps
    <2>2. TablesPart(m)' /\ StreamPart(m)'
      BY <1>0, <1>3, TablesRest, StreamRests DEF Recover
    <2> QED BY <2>1, <2>2 DEF JournalOK
  <1>4. CASE Recovered
    <2>1. /\ gate = "recover" /\ journal = NoCommit
          /\ UNCHANGED <<open, lines, torn, owned, projected, outbox, rows, timerRows,
                         checkpointed, sent, breaks>>
      BY <1>4 DEF Recovered, Holding
    <2>2. StreamPart(m)' /\ InStream = 1..m
      BY <1>0, <2>1, StreamRests DEF StreamPart
    <2>3. CASE call = NoCommit /\ Release /\ UNCHANGED <<journal, answered>>
      <3>1. TypePart' /\ RecordPart(m)' /\ ProgressPart(m)'
        BY <1>0, <2>1, <2>3 DEF Release, TypePart, RecordPart, ProgressPart, ApplySteps, NoCommit
      <3> QED BY <1>0, <2>1, <2>2, <2>3, <3>1, TablesRest DEF JournalOK
    <2>4. CASE call \in InStream /\ answered' = answered \cup {call} /\ Release
               /\ UNCHANGED journal
      <3>0. gate' = "free" /\ own' = FALSE /\ call' = 0 /\ journal' = journal
        BY <2>4 DEF Release, NoCommit
      <3>1. TypePart' /\ ProgressPart(m)'
        BY <2>1, <3>0 DEF TypePart, ProgressPart, ApplySteps
      <3>2. RecordPart(m)'
        BY <1>0, <3>0 DEF RecordPart, ApplySteps, NoCommit
      <3>3. TablesPart(m)'
        BY <1>0, <2>1, <2>2, <2>4 DEF TablesPart, Done, Latest, Unclaimed
      <3> QED BY <2>2, <3>1, <3>2, <3>3 DEF JournalOK
    <2>5. CASE /\ call \in Decided \ InStream
               /\ journal' = call /\ own' = TRUE /\ gate' = "owner"
               /\ UNCHANGED <<call, answered>>
      <3>1. call = m + 1 /\ call # NoCommit
        BY <1>0, <2>2, <2>5, CommitFacts DEF RecordPart, NoCommit
      <3>2. TypePart' /\ RecordPart(m)' /\ ProgressPart(m)'
        BY <1>0, <2>1, <2>5, <3>1 DEF TypePart, RecordPart, ProgressPart, ApplySteps
      <3>3. Done(journal', m) = m /\ Done(journal, m) = m /\ Latest(journal, m) = m
        BY <2>1, <2>5, <3>1 DEF Done, Latest
      <3>4. TablesPart(m)'
        BY <1>0, <2>1, <2>5, <3>3 DEF TablesPart, Unclaimed
      <3> QED BY <2>2, <3>2, <3>4 DEF JournalOK
    <2> QED BY <1>4, <2>3, <2>4, <2>5 DEF Recovered
  <1> QED BY <1>1, <1>2, <1>3, <1>4

\* The steps of apply that write beside the stream.
LEMMA ApplyKeeps ==
  ASSUME TypePart, NEW m \in Nat, JournalOK(m),
         \/ ApplyOwner \/ ApplyProjection \/ ApplyOutbox \/ ApplyTimers
         \/ ApplyAttempts \/ ApplyCheckpoint
  PROVE  TypePart' /\ JournalOK(m)'
  <1>0. StreamPart(m) /\ RecordPart(m) /\ TablesPart(m) /\ ProgressPart(m)
    BY DEF JournalOK
  <1>1. /\ gate \in ApplySteps /\ gate' \in ApplySteps /\ journal # NoCommit
        /\ UNCHANGED <<open, lines, torn, journal, call, own, answered, sent, breaks>>
    BY <1>0 DEF ApplyOwner, ApplyProjection, ApplyOutbox, ApplyTimers, ApplyAttempts,
                ApplyCheckpoint, Then, Holding, ApplySteps, RecordPart
  <1>2. StreamPart(m)' /\ RecordPart(m)'
    BY <1>0, <1>1, StreamRests DEF RecordPart
  <1>3. /\ journal \in Decided /\ Done(journal, m) = journal - 1 /\ Latest(journal, m) = journal
        /\ journal \in Nat \ {0}
    BY <1>0, <1>1, JournalNumbers
  <1>4. /\ projected \in {journal - 1, journal} /\ checkpointed \in {journal - 1, journal}
        /\ timerRows \in {TimersAfter[journal - 1], TimersAfter[journal]}
        /\ Unclaimed(rows) \in {RowsAfter[journal - 1], RowsAfter[journal]}
        /\ 1..(journal - 1) \subseteq outbox \cup sent
        /\ journal - 1 > 0 => owned
        /\ answered \subseteq 1..(journal - 1)
    BY <1>0, <1>3 DEF TablesPart
  <1>5. ASSUME projected' \in {journal - 1, journal}, checkpointed' \in {journal - 1, journal},
               timerRows' \in {TimersAfter[journal - 1], TimersAfter[journal]},
               Unclaimed(rows') \in {RowsAfter[journal - 1], RowsAfter[journal]},
               outbox \subseteq outbox', owned => owned'
        PROVE  TablesPart(m)'
    BY <1>1, <1>3, <1>4, <1>5 DEF TablesPart, Unclaimed
  <1>6. CASE ApplyOwner
    <2>1. /\ owned' = TRUE /\ gate = "owner" /\ gate' = "stream"
          /\ UNCHANGED <<projected, outbox, rows, timerRows, checkpointed>>
      BY <1>6 DEF ApplyOwner, Holding, Then
    <2>2. TablesPart(m)'
      BY <1>4, <1>5, <2>1
    <2>3. TypePart' /\ ProgressPart(m)'
      BY <1>0, <1>1, <2>1 DEF TypePart, ProgressPart, ApplySteps
    <2> QED BY <1>2, <2>2, <2>3 DEF JournalOK
  <1>7. CASE ApplyProjection
    <2>1. /\ projected' = journal /\ gate = "projection" /\ gate' = "outbox"
          /\ UNCHANGED <<owned, outbox, rows, timerRows, checkpointed>>
      BY <1>7 DEF ApplyProjection, Holding, Then
    <2>2. TablesPart(m)'
      BY <1>4, <1>5, <2>1
    <2>3. TypePart' /\ ProgressPart(m)'
      BY <1>0, <1>1, <2>1 DEF TypePart, ProgressPart, ApplySteps
    <2> QED BY <1>2, <2>2, <2>3 DEF JournalOK
  <1>8. CASE ApplyOutbox
    <2>1. /\ outbox' = outbox \cup {journal} /\ gate = "outbox" /\ gate' = "timers"
          /\ UNCHANGED <<owned, projected, rows, timerRows, checkpointed>>
      BY <1>8 DEF ApplyOutbox, Holding, Then
    <2>2. TablesPart(m)'
      BY <1>4, <1>5, <2>1
    <2>3. TypePart' /\ ProgressPart(m)'
      BY <1>0, <1>1, <1>3, <2>1 DEF TypePart, ProgressPart, ApplySteps
    <2> QED BY <1>2, <2>2, <2>3 DEF JournalOK
  <1>9. CASE ApplyTimers
    <2>1. /\ timerRows' = WriteTimers(timerRows, journal) /\ gate = "timers" /\ gate' = "attempts"
          /\ UNCHANGED <<owned, projected, outbox, rows, checkpointed>>
      BY <1>9 DEF ApplyTimers, Holding, Then
    <2>2. timerRows' = TimersAfter[journal] /\ timerRows' \in SUBSET RowKeys
      BY <1>3, <1>4, <2>1, TimersWritten DEF TypePart
    <2>3. TablesPart(m)'
      BY <1>4, <1>5, <2>1, <2>2
    <2>4. TypePart' /\ ProgressPart(m)'
      BY <1>0, <1>1, <2>1, <2>2 DEF TypePart, ProgressPart, ApplySteps
    <2> QED BY <1>2, <2>3, <2>4 DEF JournalOK
  <1>10. CASE ApplyAttempts
    <2>1. /\ rows' = WriteRows(rows, journal) /\ gate = "attempts" /\ gate' = "checkpoint"
          /\ UNCHANGED <<owned, projected, outbox, timerRows, checkpointed>>
      BY <1>10 DEF ApplyAttempts, Holding, Then
    <2>2. Unclaimed(rows') = RowsAfter[journal] /\ rows' \in RowTable
      BY <1>3, <1>4, <2>1, RowsWritten DEF TypePart
    <2>3. TablesPart(m)'
      BY <1>4, <1>5, <2>1, <2>2
    <2>4. TypePart'
      BY <1>1, <2>1, <2>2 DEF TypePart
    <2>5. ProgressPart(m)'
      BY <1>0, <1>1, <2>1, <2>2 DEF ProgressPart, ApplySteps, Unclaimed
    <2> QED BY <1>2, <2>3, <2>4, <2>5 DEF JournalOK
  <1>11. CASE ApplyCheckpoint
    <2>1. /\ checkpointed' = journal /\ gate = "checkpoint" /\ gate' = "remove"
          /\ UNCHANGED <<owned, projected, outbox, rows, timerRows>>
      BY <1>11 DEF ApplyCheckpoint, Holding, Then
    <2>2. TablesPart(m)'
      BY <1>4, <1>5, <2>1
    <2>3. TypePart' /\ ProgressPart(m)'
      BY <1>0, <1>1, <2>1 DEF TypePart, ProgressPart, ApplySteps, Unclaimed
    <2> QED BY <1>2, <2>2, <2>3 DEF JournalOK
  <1> QED BY <1>6, <1>7, <1>8, <1>9, <1>10, <1>11

\* Every file has been written when the record goes.
LEMMA RemoveKeeps ==
  ASSUME TypePart, NEW m \in Nat, JournalOK(m), RemoveRecord
  PROVE  TypePart' /\ JournalOK(m)'
  <1>0. StreamPart(m) /\ RecordPart(m) /\ TablesPart(m) /\ ProgressPart(m)
    BY DEF JournalOK
  <1>1. /\ gate = "remove" /\ gate \in ApplySteps /\ journal' = NoCommit
        /\ UNCHANGED <<open, lines, torn, owned, projected, outbox, rows, timerRows, checkpointed,
                       sent, breaks>>
    BY DEF RemoveRecord, Holding, ApplySteps
  <1>2. journal # NoCommit
    BY <1>0, <1>1 DEF RecordPart
  <1>3. /\ Done(journal, m) = journal - 1 /\ Latest(journal, m) = journal /\ journal \in Nat \ {0}
    BY <1>0, <1>2, JournalNumbers
  <1>4. /\ owned /\ journal = m /\ projected = m /\ checkpointed = m /\ m \in outbox \cup sent
        /\ timerRows = TimersAfter[m] /\ Unclaimed(rows) = RowsAfter[m]
    BY <1>0, <1>1 DEF ProgressPart, ApplySteps
  <1>5. 1..(m - 1) \subseteq outbox \cup sent /\ answered \subseteq 1..(m - 1)
    BY <1>0, <1>3, <1>4 DEF TablesPart
  <1>6. 1..m \subseteq outbox \cup sent /\ answered \cup {m} \subseteq 1..m
    BY <1>3, <1>4, <1>5
  <1>7. answered' \in {answered, answered \cup {m}} /\ gate' \in {"free", "recover"} /\ own' = FALSE
        /\ call' \in {call, NoCommit}
    BY <1>0, <1>1, <1>4 DEF RemoveRecord, Release, RecordPart, TypePart
  <1>8. Done(journal', m) = m /\ Latest(journal', m) = m
    BY <1>1 DEF Done, Latest
  <1>9. TablesPart(m)'
    BY <1>1, <1>4, <1>5, <1>6, <1>7, <1>8 DEF TablesPart, Unclaimed
  <1>10. TypePart' /\ ProgressPart(m)'
    BY <1>1, <1>7 DEF TypePart, ProgressPart, ApplySteps
  <1>11. RecordPart(m)'
    BY <1>0, <1>1, <1>7 DEF RecordPart, ApplySteps, NoCommit
  <1> QED BY <1>0, <1>1, <1>9, <1>10, <1>11, StreamRests DEF JournalOK

\* The stream takes lines of the record: all of them, or what an interrupted
\* write left.
LEMMA LinesKeep ==
  ASSUME NEW m \in Nat, StreamPart(m), RecordPart(m), journal # NoCommit,
         journal \notin InStream,
         NEW n \in 0..Commit[journal].lines, NEW s \in Seq(Decided \X Nat), Len(s) = n,
         \A i \in 1..n : s[i] = <<journal, i>>, lines' = lines \o s
  PROVE  /\ journal = m + 1
         /\ n = 0 => StreamPart(m)'
         /\ n > 0 => StreamPart(m + 1)'
  <1>1. journal \in Decided /\ Decided = 1..Len(Commit) /\ Len(Commit) \in Nat
        /\ lines \in Seq(Decided \X Nat) /\ InStream = 1..m
        /\ Commit[journal].lines \in Nat
    <2>1. journal \in Decided
      BY DEF RecordPart
    <2> QED BY <2>1, CommitFacts DEF StreamPart
  <1>2. journal = m + 1
    BY <1>1 DEF RecordPart
  <1>3. /\ lines' \in Seq(Decided \X Nat)
        /\ n = 0 => lines' = lines /\ InStream' = InStream
        /\ n > 0 => InStream' = InStream \cup {journal} /\ lines' # <<>>
    BY <1>1, StreamGrows
  <1>4. CASE n = 0
    BY <1>2, <1>3, <1>4 DEF StreamPart
  <1>5. CASE n > 0
    <2>1. InStream' = 1..(m + 1)
      <3>1. 1..m \cup {m + 1} = 1..(m + 1)
        OBVIOUS
      <3> QED BY <1>1, <1>2, <1>3, <1>5, <3>1
    <2>2. m + 1 <= Len(Commit) /\ m + 1 > 0
      BY <1>1, <1>2
    <2> QED BY <1>2, <1>3, <1>5, <2>1, <2>2 DEF StreamPart
  <1> QED BY <1>1, <1>4, <1>5

\* The other parts when the record's input has come into the stream.
LEMMA InputLands ==
  ASSUME NEW m \in Nat, RecordPart(m), TablesPart(m), journal = m + 1, journal # NoCommit
  PROVE  RecordPart(m + 1) /\ TablesPart(m + 1)
  <1>1. Done(journal, m) = Done(journal, m + 1) /\ Latest(journal, m) = Latest(journal, m + 1)
    BY DEF Done, Latest
  <1>2. TablesPart(m + 1)
    BY <1>1 DEF TablesPart
  <1>3. RecordPart(m + 1)
    BY CommitFacts DEF RecordPart, NoCommit
  <1> QED BY <1>2, <1>3

LEMMA StreamKeeps ==
  ASSUME TypePart, NEW m \in Nat, JournalOK(m), ApplyStream
  PROVE  TypePart' /\ \E k \in Nat : JournalOK(k)'
  <1>0. StreamPart(m) /\ RecordPart(m) /\ TablesPart(m) /\ ProgressPart(m)
    BY DEF JournalOK
  <1>1. /\ gate = "stream" /\ gate' = "projection" /\ journal # NoCommit
        /\ UNCHANGED <<open, call, own, answered, sent, breaks, owned, projected, outbox, rows,
                       timerRows, checkpointed, journal>>
    BY <1>0 DEF ApplyStream, Holding, Then, RecordPart, ApplySteps
  <1>2. TypePart'
    BY <1>1 DEF ApplyStream, TypePart, ApplySteps
  <1>3. owned /\ journal \in Decided
    BY <1>0, <1>1 DEF ProgressPart, RecordPart, ApplySteps
  <1>4. CASE journal \in InStream
    <2>1. lines' = lines
      BY <1>4 DEF ApplyStream
    <2>2. journal = m
      BY <1>0, <1>1, <1>4 DEF StreamPart, RecordPart
    <2>3. RecordPart(m)' /\ ProgressPart(m)'
      BY <1>0, <1>1, <1>3, <2>2 DEF RecordPart, ProgressPart, ApplySteps
    <2>4. JournalOK(m)'
      BY <1>0, <1>1, <2>1, <2>3, StreamRests, TablesRest DEF JournalOK
    <2> QED BY <1>2, <2>4
  <1>5. CASE journal \notin InStream
    <2> DEFINE n == Commit[journal].lines
    <2>1. lines' = lines \o LinesOf(journal) /\ n \in 0..n /\ n > 0
      BY <1>3, <1>5, CommitFacts DEF ApplyStream
    <2>2. journal = m + 1 /\ StreamPart(m + 1)'
      BY <1>0, <1>1, <1>3, <1>5, <2>1, LinesWritten, LinesKeep
    <2>3. RecordPart(m + 1) /\ TablesPart(m + 1)
      BY <1>0, <1>1, <2>2, InputLands
    <2>4. RecordPart(m + 1)' /\ ProgressPart(m + 1)'
      BY <1>0, <1>1, <1>3, <2>2, <2>3 DEF RecordPart, ProgressPart, ApplySteps
    <2>5. m + 1 \in Nat
      OBVIOUS
    <2>6. JournalOK(m + 1)'
      BY <1>0, <1>1, <2>2, <2>3, <2>4, <2>5, TablesRest DEF JournalOK
    <2> QED BY <1>2, <2>5, <2>6
  <1> QED BY <1>4, <1>5

\* A crash or a failed write, at any step.
LEMMA BreakKeeps ==
  ASSUME TypePart, NEW m \in Nat, JournalOK(m), CrashStore \/ WriteFails
  PROVE  TypePart' /\ \E k \in Nat : JournalOK(k)'
  <1>0. StreamPart(m) /\ RecordPart(m) /\ TablesPart(m) /\ ProgressPart(m)
    BY DEF JournalOK
  <1>1. /\ gate' = "free" /\ call' = NoCommit /\ own' = FALSE /\ Interrupted
        /\ breaks < MaxBreaks /\ breaks' = breaks + 1 /\ open' \in BOOLEAN
        /\ UNCHANGED <<owned, projected, outbox, rows, timerRows, checkpointed, journal, answered,
                       sent>>
    BY DEF CrashStore, WriteFails, Release
  <1>2. TypePart'
    <2>1. torn' \in BOOLEAN
      BY <1>1 DEF Interrupted, TypePart
    <2>2. breaks' \in 0..MaxBreaks
      BY <1>1, CommitFacts DEF TypePart
    <2> QED BY <1>1, <2>1, <2>2 DEF TypePart
  <1>3. ASSUME NEW k \in Nat, StreamPart(k)', RecordPart(k), TablesPart(k)
        PROVE  JournalOK(k)'
    <2>1. RecordPart(k)' /\ ProgressPart(k)'
      BY <1>1, <1>3, CommitFacts DEF RecordPart, ProgressPart, ApplySteps, NoCommit
    <2> QED BY <1>1, <1>3, <2>1, TablesRest DEF JournalOK
  <1>4. CASE gate = "stream" /\ journal \notin InStream
    <2>1. journal # NoCommit /\ journal \in Decided
      BY <1>0, <1>4 DEF RecordPart, ApplySteps
    <2>2. PICK n \in 0..Commit[journal].lines :
            lines' = lines \o SubSeq(LinesOf(journal), 1, n)
      BY <1>1, <1>4 DEF Interrupted
    <2>3. /\ journal = m + 1
          /\ n = 0 => StreamPart(m)'
          /\ n > 0 => StreamPart(m + 1)'
      BY <1>0, <1>4, <2>1, <2>2, LinesWritten, LinesKeep
    <2>4. CASE n = 0
      BY <1>0, <1>2, <1>3, <2>3, <2>4
    <2>5. CASE n > 0
      <3>1. m + 1 \in Nat /\ RecordPart(m + 1) /\ TablesPart(m + 1)
        BY <1>0, <2>1, <2>3, InputLands
      <3> QED BY <1>2, <1>3, <2>3, <2>5, <3>1
    <2>6. n \in Nat
      BY <2>1, CommitFacts
    <2> QED BY <2>4, <2>5, <2>6
  <1>5. CASE ~(gate = "stream" /\ journal \notin InStream)
    <2>1. lines' = lines
      BY <1>1, <1>5 DEF Interrupted
    <2> QED BY <1>0, <1>2, <1>3, <2>1, StreamRests
  <1> QED BY <1>4, <1>5

\* A claim, and the publisher.
LEMMA OthersKeep ==
  ASSUME TypePart, NEW m \in Nat, JournalOK(m),
         \/ \E k \in RowKeys : ClaimRow(k)
         \/ \E d \in Decided : SendFact(d) \/ MarkSent(d)
  PROVE  TypePart' /\ JournalOK(m)'
  <1>0. StreamPart(m) /\ RecordPart(m) /\ TablesPart(m) /\ ProgressPart(m)
    BY DEF JournalOK
  <1>1. ASSUME NEW k \in RowKeys, ClaimRow(k) PROVE TypePart' /\ JournalOK(m)'
    <2>1. /\ rows[k] = "pending" /\ rows' = [rows EXCEPT ![k] = "claimed"] /\ gate = "free"
          /\ UNCHANGED <<open, lines, torn, owned, projected, outbox, timerRows, checkpointed,
                         journal, gate, call, own, answered, sent, breaks>>
      BY <1>1 DEF ClaimRow
    <2>2. rows' \in RowTable /\ Unclaimed(rows') = Unclaimed(rows)
      BY <2>1, RowClaimed DEF TypePart
    <2>3. TypePart' /\ RecordPart(m)' /\ ProgressPart(m)'
      BY <1>0, <2>1, <2>2 DEF TypePart, RecordPart, ProgressPart, ApplySteps
    <2>4. TablesPart(m)'
      <3> DEFINE done == Done(journal, m)
                 latest == Latest(journal, m)
      <3>1. Unclaimed(rows)' \in {RowsAfter[done], RowsAfter[latest]}
        BY <1>0, <2>2 DEF TablesPart, Unclaimed
      <3> QED BY <1>0, <2>1, <3>1 DEF TablesPart
    <2> QED BY <1>0, <2>1, <2>3, <2>4, StreamRests DEF JournalOK
  <1>2. ASSUME NEW d \in Decided, SendFact(d) \/ MarkSent(d) PROVE TypePart' /\ JournalOK(m)'
    <2>1. /\ outbox' \cup sent' = outbox \cup sent
          /\ UNCHANGED <<open, lines, torn, owned, projected, rows, timerRows, checkpointed,
                         journal, gate, call, own, answered, breaks>>
      BY <1>2 DEF SendFact, MarkSent
    <2>2. TypePart'
      BY <1>2, <2>1 DEF TypePart, SendFact, MarkSent
    <2>3. RecordPart(m)' /\ ProgressPart(m)'
      BY <1>0, <2>1 DEF RecordPart, ProgressPart, Unclaimed
    <2> QED BY <1>0, <2>1, <2>2, <2>3, TablesRest, StreamRests DEF JournalOK
  <1> QED BY <1>1, <1>2

LEMMA JournalStepKeeps ==
  ASSUME JournalInv, [JournalNext]_journalVars
  PROVE  JournalInv'
  <1>0. TypePart /\ \E m \in Nat : JournalOK(m)
    BY DEF JournalInv
  <1>1. PICK m \in Nat : JournalOK(m)
    BY <1>0
  <1>2. CASE UNCHANGED journalVars
    <2>1. TypePart' /\ StreamPart(m)' /\ RecordPart(m)' /\ ProgressPart(m)' /\ TablesPart(m)'
      BY <1>0, <1>1, <1>2, StreamRests, TablesRest
      DEF journalVars, JournalOK, TypePart, RecordPart, ProgressPart, Unclaimed
    <2> QED BY <2>1 DEF JournalOK, JournalInv
  <1>3. CASE JournalNext
    <2>1. TypePart' /\ \E k \in Nat : JournalOK(k)'
      BY <1>0, <1>1, <1>3, EntryKeeps, ApplyKeeps, RemoveKeeps, StreamKeeps, BreakKeeps, OthersKeep
      DEF JournalNext
    <2> QED BY <2>1 DEF JournalInv
  <1> QED BY <1>2, <1>3

-----------------------------------------------------------------------------
(* The file store's theorems *)

\* The record, the stream and the derived files stay in step.
THEOREM JournalInvariant == JournalSpec => []JournalInv
  <1>1. JournalInit => JournalInv
    <2> SUFFICES ASSUME JournalInit PROVE JournalInv
      OBVIOUS
    <2>1. TypePart
      <3>1. breaks \in 0..MaxBreaks /\ rows \in RowTable
        BY CommitFacts DEF JournalInit, RowTable, RowStates
      <3> QED BY <3>1 DEF JournalInit, TypePart
    <2>2. StreamPart(0)
      <3>1. ToSet(<<>>) = {}
        BY DEF ToSet
      <3>2. InStream = {} /\ 1..0 = {} /\ lines = <<>> /\ lines \in Seq(Decided \X Nat)
        BY <3>1 DEF JournalInit, InStream
      <3> QED BY <3>2, CommitFacts DEF StreamPart
    <2>3. RecordPart(0) /\ ProgressPart(0)
      BY DEF JournalInit, RecordPart, ProgressPart, ApplySteps, NoCommit
    <2>4. Done(journal, 0) = 0 /\ Latest(journal, 0) = 0
      BY DEF JournalInit, Done, Latest
    <2>5. Unclaimed(rows) = RowsAfter[0] /\ timerRows = TimersAfter[0]
      BY RowsAfterDef, TimersAfterDef DEF JournalInit, Unclaimed
    <2>6. TablesPart(0)
      BY <2>4, <2>5 DEF JournalInit, TablesPart, NoCommit
    <2> QED BY <2>1, <2>2, <2>3, <2>6 DEF JournalInv, JournalOK
  <1>2. JournalInv /\ [JournalNext]_journalVars => JournalInv'
    BY JournalStepKeeps
  <1> QED BY <1>1, <1>2, PTL DEF JournalSpec

\* Every file of the store keeps its type.
THEOREM JournalTypeCorrect == JournalSpec => []JournalTypeOK
  <1>1. JournalInv => JournalTypeOK
    <2> SUFFICES ASSUME JournalInv PROVE JournalTypeOK
      OBVIOUS
    <2>1. PICK m \in Nat : JournalOK(m)
      BY DEF JournalInv
    <2>2. TypePart /\ StreamPart(m) /\ RecordPart(m) /\ TablesPart(m)
      BY <2>1 DEF JournalInv, JournalOK
    <2>3. /\ Done(journal, m) \in Decided \cup {NoCommit}
          /\ Latest(journal, m) \in Decided \cup {NoCommit}
          /\ 1..Done(journal, m) \subseteq Decided
      BY <2>2, JournalNumbers DEF NoCommit
    <2>4. projected \in Decided \cup {NoCommit} /\ checkpointed \in Decided \cup {NoCommit}
          /\ answered \subseteq Decided
      BY <2>2, <2>3 DEF TablesPart
    <2>5. /\ lines \in Seq(Decided \X Nat)
          /\ journal \in Decided \cup {NoCommit} /\ call \in Decided \cup {NoCommit}
      BY <2>2 DEF StreamPart, RecordPart
    <2>6. {open, torn, owned, own} \subseteq BOOLEAN
      BY <2>2 DEF TypePart
    <2>7. outbox \cup answered \cup sent \subseteq Decided /\ timerRows \subseteq RowKeys
          /\ breaks \in 0..MaxBreaks /\ rows \in RowTable
          /\ gate \in ApplySteps \cup {"free", "recover"}
      BY <2>2, <2>4 DEF TypePart
    <2> QED BY <2>4, <2>5, <2>6, <2>7 DEF JournalTypeOK, RowTable, RowStates, ApplySteps
  <1> QED BY <1>1, JournalInvariant, PTL

\* append and recover, for every sequence of decisions and any number of crashes
\* and failed writes: a caller that was answered Appended or Duplicate has every
\* consequence of its decision on disk.
THEOREM AnswersAreApplied == JournalSpec => []AnsweredIsApplied
  <1>1. JournalInv => AnsweredIsApplied
    <2> SUFFICES ASSUME JournalInv, NEW d \in answered
                 PROVE  /\ d \in InStream /\ d # journal /\ d \in outbox \cup sent
                        /\ projected >= d
      BY DEF AnsweredIsApplied
    <2>1. PICK m \in Nat : JournalOK(m)
      BY DEF JournalInv
    <2>2. StreamPart(m) /\ RecordPart(m) /\ TablesPart(m)
      BY <2>1 DEF JournalOK
    <2>3. /\ Done(journal, m) \in Nat /\ Latest(journal, m) \in Nat /\ Done(journal, m) <= m
          /\ Done(journal, m) <= Latest(journal, m)
          /\ journal # NoCommit => journal \in Nat /\ Done(journal, m) = journal - 1
      BY <2>2, JournalNumbers
    <2>4. d \in 1..Done(journal, m) /\ d \in outbox \cup sent
          /\ projected \in {Done(journal, m), Latest(journal, m)} /\ InStream = 1..m
      BY <2>2 DEF TablesPart, StreamPart
    <2> QED BY <2>3, <2>4 DEF NoCommit
  <1> QED BY <1>1, JournalInvariant, PTL

\* append, apply and recover: while no record waits under commits/, every derived
\* file is what the decisions in the stream say, however often apply was
\* interrupted, run again, or raced by a claim or by the publisher.
THEOREM FilesFollowTheStream == JournalSpec => []TablesFollowTheStream
  <1>1. JournalInv => TablesFollowTheStream
    <2> SUFFICES ASSUME JournalInv, journal = NoCommit, lines # <<>>
                 PROVE  Applied(Cardinality(InStream))
      BY DEF TablesFollowTheStream
    <2>1. PICK m \in Nat : JournalOK(m)
      BY DEF JournalInv
    <2>2. TablesPart(m) /\ InStream = 1..m /\ m > 0
      BY <2>1 DEF JournalOK, StreamPart
    <2>3. Cardinality(InStream) = m
      BY <2>2, FS_Interval
    <2>4. Done(journal, m) = m /\ Latest(journal, m) = m
      BY DEF Done, Latest
    <2> QED BY <2>2, <2>3, <2>4 DEF TablesPart, Applied
  <1> QED BY <1>1, JournalInvariant, PTL

-----------------------------------------------------------------------------
(* The span assembler: taking spans off a list. *)

\* What keeping the first i members of a list, without some, leaves.
KeptOK(T, list, ids, i, q) ==
  /\ q \in Seq(T)
  /\ ToSet(q) = {list[j] : j \in 1..i} \ ids
  /\ IsInjective(list) => IsInjective(q)

\* One member behind the others: a new one keeps the list without repetition.
LEMMA OneMore ==
  ASSUME NEW T, NEW q \in Seq(T), NEW x \in T
  PROVE  /\ Append(q, x) \in Seq(T)
         /\ ToSet(Append(q, x)) = ToSet(q) \cup {x}
         /\ IsInjective(q) /\ x \notin ToSet(q) => IsInjective(Append(q, x))
  <1> DEFINE p == Append(q, x)
             n == Len(q) + 1
  <1>1. /\ p \in Seq(T) /\ Len(p) = n /\ p[n] = x /\ Len(q) \in Nat
        /\ \A i \in 1..Len(q) : p[i] = q[i]
    OBVIOUS
  <1> HIDE DEF p
  <1>2. ToSet(p) = {p[i] : i \in 1..n} /\ ToSet(q) = {q[i] : i \in 1..Len(q)}
    BY <1>1 DEF ToSet
  <1>3. \A i \in 1..n : i = n \/ i \in 1..Len(q)
    BY <1>1
  <1>4. ToSet(p) = ToSet(q) \cup {x}
    <2>1. \A y \in ToSet(p) : y \in ToSet(q) \cup {x}
      BY <1>1, <1>2, <1>3
    <2>2. \A y \in ToSet(q) : y \in ToSet(p)
      <3>1. ASSUME NEW y \in ToSet(q) PROVE y \in ToSet(p)
        <4>1. PICK i \in 1..Len(q) : y = q[i]
          BY <1>2
        <4>2. i \in 1..n /\ y = p[i]
          BY <1>1, <4>1
        <4> QED BY <1>2, <4>2
      <3> QED BY <3>1
    <2>3. n \in 1..n
      BY <1>1
    <2>4. x \in ToSet(p)
      BY <1>1, <1>2, <2>3
    <2> QED BY <2>1, <2>2, <2>4
  <1>5. ASSUME IsInjective(q), x \notin ToSet(q) PROVE IsInjective(p)
    <2>1. \A i \in 1..Len(q) : q[i] # x
      BY <1>2, <1>5
    <2>2. \A i, j \in 1..Len(q) : q[i] = q[j] => i = j
      BY <1>1, <1>5 DEF IsInjective
    <2>3. \A i, j \in 1..n : p[i] = p[j] => i = j
      BY <1>1, <1>3, <2>1, <2>2
    <2> QED BY <1>1, <2>3 DEF IsInjective
  <1> QED BY <1>1, <1>4, <1>5 DEF p

\* kept[i] is what the first i members of the list leave, and the last of them
\* is what Retain answers.
Retains(T, list, ids, kept) ==
  /\ kept \in [0..Len(list) -> Seq(T)]
  /\ Retain(list, ids) = kept[Len(list)] /\ kept[0] = <<>>
  /\ \A i \in 1..Len(list) :
       kept[i] = IF list[i] \in ids THEN kept[i - 1] ELSE Append(kept[i - 1], list[i])

\* The recursion that Retain is defined by has a solution.
LEMMA RetainDef ==
  ASSUME NEW T, NEW list \in Seq(T), NEW ids
  PROVE  \E kept : Retains(T, list, ids, kept)
  <1> DEFINE N == Len(list)
             Step == [p \in Seq(T) \X Nat |->
                        IF p[2] \in 1..N /\ list[p[2]] \notin ids
                        THEN Append(p[1], list[p[2]]) ELSE p[1]]
  <1>1. Step \in [Seq(T) \X Nat -> Seq(T)] /\ <<>> \in Seq(T) /\ N \in Nat
    <2>1. ASSUME NEW p \in Seq(T) \X Nat
          PROVE  (IF p[2] \in 1..N /\ list[p[2]] \notin ids
                  THEN Append(p[1], list[p[2]]) ELSE p[1]) \in Seq(T)
      <3>1. p[1] \in Seq(T) /\ (p[2] \in 1..N => list[p[2]] \in T)
        OBVIOUS
      <3> QED BY <3>1
    <2>2. Step \in [Seq(T) \X Nat -> Seq(T)]
      BY <2>1
    <2> QED BY <2>2
  <1>2. PICK f : Defines(Seq(T), <<>>, Step, f)
    <2> HIDE DEF Step
    <2> QED BY <1>1, RecursionExists
  <1>3. f \in [Nat -> Seq(T)] /\ f[0] = <<>>
    BY <1>2 DEF Defines
  <1>4. ASSUME NEW i \in 1..N
        PROVE  f[i] = IF list[i] \in ids THEN f[i - 1] ELSE Append(f[i - 1], list[i])
    <2>1. i - 1 \in Nat /\ i - 1 + 1 = i /\ i \in Nat
      BY <1>1
    <2>2. <<f[i - 1], i>> \in Seq(T) \X Nat
      BY <1>3, <2>1
    <2>3. Step[<<f[i - 1], i>>] =
            IF list[i] \in ids THEN f[i - 1] ELSE Append(f[i - 1], list[i])
      BY <2>2
    <2>4. f[i - 1 + 1] = Step[<<f[i - 1], i - 1 + 1>>]
      <3> HIDE DEF Step
      <3> QED BY <1>2, <2>1 DEF Defines
    <2> QED BY <2>1, <2>3, <2>4
  <1> DEFINE Kept(g) == [i \in 0..N |->
                           IF i = 0 THEN <<>>
                           ELSE IF list[i] \in ids THEN g[i - 1] ELSE Append(g[i - 1], list[i])]
             h == [i \in 0..N |-> f[i]]
  <1>5. h = Kept(h)
    <2>1. ASSUME NEW i \in 0..N PROVE h[i] = Kept(h)[i]
      <3>1. CASE i = 0
        BY <1>3, <3>1
      <3>2. CASE i # 0
        <4>1. i \in 1..N /\ i - 1 \in 0..N
          BY <1>1, <3>2
        <4> QED BY <1>4, <3>2, <4>1
      <3> QED BY <3>1, <3>2
    <2> QED BY <2>1
  <1> DEFINE kept == CHOOSE g : g = Kept(g)
  <1>6. kept = Kept(kept)
    <2> HIDE DEF h, Kept
    <2>1. \E g : g = Kept(g)
      BY <1>5
    <2> QED BY <2>1
  <1>7. Retain(list, ids) = kept[N]
    BY Zenon DEF Retain
  <1> HIDE DEF kept
  <1>8. kept[0] = <<>>
        /\ \A i \in 1..N :
             kept[i] = IF list[i] \in ids THEN kept[i - 1] ELSE Append(kept[i - 1], list[i])
    <2>1. ASSUME NEW i \in 0..N
          PROVE  kept[i] = IF i = 0 THEN <<>>
                           ELSE IF list[i] \in ids THEN kept[i - 1]
                                ELSE Append(kept[i - 1], list[i])
      <3>1. Kept(kept)[i] = IF i = 0 THEN <<>>
                            ELSE IF list[i] \in ids THEN kept[i - 1]
                                 ELSE Append(kept[i - 1], list[i])
        OBVIOUS
      <3> HIDE DEF Kept
      <3> QED BY <1>6, <3>1
    <2>2. 0 \in 0..N /\ \A i \in 1..N : i \in 0..N /\ i # 0
      BY <1>1
    <2> QED BY <2>1, <2>2
  <1>9. \A i \in 0..N : kept[i] \in Seq(T)
    <2> DEFINE P == {i \in Nat : i \in 0..N => kept[i] \in Seq(T)}
    <2>1. 0 \in P /\ P \in SUBSET Nat
      <3>1. kept[0] \in Seq(T)
        BY <1>8
      <3> QED BY <3>1
    <2>2. ASSUME NEW i \in Nat, i \in P PROVE i + 1 \in P
      <3>1. CASE i + 1 \in 0..N
        <4>1. i \in 0..N /\ i + 1 \in 1..N /\ i + 1 - 1 = i /\ list[i + 1] \in T
          BY <1>1, <3>1
        <4>2. kept[i] \in Seq(T)
          BY <2>2, <4>1
        <4>3. kept[i + 1] = IF list[i + 1] \in ids THEN kept[i] ELSE Append(kept[i], list[i + 1])
          BY <1>8, <4>1
        <4>4. kept[i + 1] \in Seq(T)
          BY <4>1, <4>2, <4>3
        <4> QED BY <4>4
      <3>2. CASE i + 1 \notin 0..N
        BY <3>2
      <3> QED BY <3>1, <3>2
    <2> HIDE DEF P
    <2>3. P = Nat
      BY <2>1, <2>2, SetInduction
    <2> QED BY <1>1, <2>3 DEF P
  <1>10. kept \in [0..N -> Seq(T)]
    <2>1. kept = [i \in 0..N |-> kept[i]]
      BY <1>6
    <2> QED BY <1>9, <2>1
  <1>11. Retains(T, list, ids, kept)
    BY <1>7, <1>8, <1>10 DEF Retains
  <1> QED BY <1>11

\* What is left of a list: the members that were not taken off, each once if
\* each was there once.
LEMMA RetainKeeps ==
  ASSUME NEW T, NEW list \in Seq(T), NEW ids
  PROVE  /\ Retain(list, ids) \in Seq(T)
         /\ ToSet(Retain(list, ids)) = ToSet(list) \ ids
         /\ IsInjective(list) => IsInjective(Retain(list, ids))
  <1> DEFINE N == Len(list)
             First(i) == {list[j] : j \in 1..i}
  <1>0. PICK kept : Retains(T, list, ids, kept)
    BY RetainDef
  <1>1. /\ kept \in [0..N -> Seq(T)]
        /\ Retain(list, ids) = kept[N] /\ kept[0] = <<>>
        /\ \A i \in 1..N :
             kept[i] = IF list[i] \in ids THEN kept[i - 1] ELSE Append(kept[i - 1], list[i])
    BY <1>0, Zenon DEF Retains
  <1>2. N \in Nat /\ N \in 0..N /\ ToSet(list) = First(N)
    BY DEF ToSet
  <1> DEFINE P == {i \in Nat : i \in 0..N => KeptOK(T, list, ids, i, kept[i])}
  <1>3. 0 \in P
    <2>1. ToSet(<<>>) = {} /\ IsInjective(<<>>) /\ <<>> \in Seq(T)
      BY DEF ToSet, IsInjective
    <2>2. First(0) = {}
      OBVIOUS
    <2>3. KeptOK(T, list, ids, 0, kept[0])
      BY <1>1, <2>1, <2>2 DEF KeptOK
    <2> QED BY <2>3
  <1>4. ASSUME NEW i \in Nat, i \in P PROVE i + 1 \in P
    <2> SUFFICES ASSUME i + 1 \in 0..N PROVE KeptOK(T, list, ids, i + 1, kept[i + 1])
      OBVIOUS
    <2> DEFINE q == kept[i]
               x == list[i + 1]
    <2>1. i \in 0..N /\ i + 1 \in 1..N /\ i + 1 - 1 = i /\ x \in T
      BY <1>2
    <2>2. q \in Seq(T) /\ ToSet(q) = First(i) \ ids /\ (IsInjective(list) => IsInjective(q))
      BY <1>4, <2>1 DEF KeptOK
    <2>3. First(i + 1) = First(i) \cup {x}
      <3>1. \A j \in 1..(i + 1) : j = i + 1 \/ j \in 1..i
        BY <1>2
      <3>2. \A j \in 1..i : j \in 1..(i + 1)
        BY <1>2
      <3>3. i + 1 \in 1..(i + 1)
        BY <1>2
      <3> QED BY <3>1, <3>2, <3>3
    <2>4. kept[i + 1] = IF x \in ids THEN q ELSE Append(q, x)
      BY <1>1, <2>1
    <2>5. IsInjective(list) => x \notin First(i)
      <3> SUFFICES ASSUME IsInjective(list), NEW j \in 1..i, list[j] = list[i + 1] PROVE FALSE
        OBVIOUS
      <3>1. j \in DOMAIN list /\ i + 1 \in DOMAIN list /\ j # i + 1
        BY <1>2, <2>1
      <3> QED BY <3>1 DEF IsInjective
    <2> HIDE DEF First, q, x
    <2>6. CASE x \in ids
      BY <2>2, <2>3, <2>4, <2>6 DEF KeptOK, First
    <2>7. CASE x \notin ids
      <3>1. /\ Append(q, x) \in Seq(T) /\ ToSet(Append(q, x)) = ToSet(q) \cup {x}
            /\ IsInjective(q) /\ x \notin ToSet(q) => IsInjective(Append(q, x))
        BY <2>1, <2>2, OneMore
      <3>2. ToSet(Append(q, x)) = First(i + 1) \ ids
        BY <2>2, <2>3, <2>7, <3>1
      <3>3. IsInjective(list) => IsInjective(Append(q, x))
        BY <2>2, <2>5, <3>1
      <3> QED BY <2>4, <2>7, <3>1, <3>2, <3>3 DEF KeptOK, First
    <2> QED BY <2>6, <2>7
  <1>5. P \in SUBSET Nat
    OBVIOUS
  <1> HIDE DEF P
  <1>6. P = Nat
    BY <1>3, <1>4, <1>5, SetInduction
  <1>7. KeptOK(T, list, ids, N, kept[N])
    BY <1>2, <1>6 DEF P
  <1> QED BY <1>1, <1>2, <1>7 DEF KeptOK

-----------------------------------------------------------------------------
(* The span assembler: the invariant. *)

OpenRecords == [parent : SpanIds \cup {Root}, lastSeen : Nat]
Clock == instant \in 0..LastInstant /\ ingested \in 0..MaxEvents
OpenOK == OpenIds \subseteq SpanIds /\ opened \in [OpenIds -> OpenRecords]
ListsOK == containers \in [SpanRuns -> Seq(SpanIds)]

\* The containers among some spans that belong to a run.
ContainersOf(ids, r) == {s \in ids : Spans[s].run = r /\ Spans[s].container}

AssemblerInv == Clock /\ OpenOK /\ ListsOK /\ ContainersAreOpen

\* Closing spans takes each off the list of its run and leaves the rest.
LEMMA ClosingKeeps ==
  ASSUME AssemblerInv, NEW ids,
         opened' = Without(opened, ids), containers' = PopContainers(ids)
  PROVE  (OpenOK /\ ListsOK /\ ContainersAreOpen)'
  <1>1. /\ OpenIds \subseteq SpanIds /\ opened \in [OpenIds -> OpenRecords]
        /\ containers \in [SpanRuns -> Seq(SpanIds)]
    BY DEF AssemblerInv, OpenOK, ListsOK
  <1>2. opened' \in [OpenIds \ ids -> OpenRecords]
    BY <1>1 DEF Without, OpenIds
  <1>3. OpenIds' = OpenIds \ ids
    BY <1>2 DEF OpenIds
  <1>4. OpenOK'
    BY <1>1, <1>2, <1>3 DEF OpenOK, SpanIds, OpenRecords
  <1>5. ASSUME NEW r \in SpanRuns
        PROVE  /\ containers'[r] \in Seq(SpanIds)
               /\ ToSet(containers'[r]) = ContainersOf(OpenIds \ ids, r)
               /\ IsInjective(containers'[r])
    <2>1. containers[r] \in Seq(SpanIds) /\ containers'[r] = Retain(containers[r], ids)
      BY <1>1 DEF PopContainers
    <2>2. ToSet(containers[r]) = ContainersOf(OpenIds, r) /\ IsInjective(containers[r])
      BY DEF AssemblerInv, ContainersAreOpen, ContainersOf
    <2>3. /\ Retain(containers[r], ids) \in Seq(SpanIds)
          /\ ToSet(Retain(containers[r], ids)) = ToSet(containers[r]) \ ids
          /\ IsInjective(Retain(containers[r], ids))
      BY <2>1, <2>2, RetainKeeps
    <2>4. ContainersOf(OpenIds, r) \ ids = ContainersOf(OpenIds \ ids, r)
      BY DEF ContainersOf
    <2> QED BY <2>1, <2>2, <2>3, <2>4
  <1>6. ListsOK'
    BY <1>5 DEF ListsOK, PopContainers, SpanRuns, SpanIds
  <1>7. ContainersAreOpen'
    BY <1>3, <1>5 DEF ContainersAreOpen, ContainersOf, SpanRuns, SpanIds
  <1> QED BY <1>4, <1>6, <1>7

\* Hearing of an open span changes when it was last seen and nothing else.
LEMMA HearingKeeps ==
  ASSUME AssemblerInv, NEW s \in OpenIds, NEW at \in Nat,
         opened' = [opened EXCEPT ![s].lastSeen = at], containers' = containers
  PROVE  (OpenOK /\ ListsOK /\ ContainersAreOpen)'
  <1>1. OpenIds \subseteq SpanIds /\ opened \in [OpenIds -> OpenRecords]
    BY DEF AssemblerInv, OpenOK
  <1>2. opened[s] \in OpenRecords
    BY <1>1
  <1>3. [opened[s] EXCEPT !.lastSeen = at] \in OpenRecords
    BY <1>2 DEF OpenRecords
  <1>4. opened' \in [OpenIds -> OpenRecords]
    BY <1>1, <1>3
  <1>5. OpenIds' = OpenIds
    BY <1>4 DEF OpenIds
  <1>6. OpenOK'
    BY <1>1, <1>4, <1>5 DEF OpenOK, SpanIds, OpenRecords
  <1>7. ListsOK'
    BY DEF AssemblerInv, ListsOK, SpanRuns, SpanIds
  <1>8. ContainersAreOpen'
    BY <1>5 DEF AssemblerInv, ContainersAreOpen, SpanRuns, SpanIds
  <1> QED BY <1>6, <1>7, <1>8

\* The parent of a new span: the one it names, an open container of its run, or none.
LEMMA ParentTyped ==
  ASSUME AssemblerInv, NEW s \in SpanIds
  PROVE  ParentOf(s) \in SpanIds \cup {Root}
  <1> DEFINE r == Spans[s].run
             others == Retain(containers[r], {s})
  <1>1. r \in SpanRuns
    BY DEF SpanRuns
  <1>2. containers[r] \in Seq(SpanIds)
    BY <1>1 DEF AssemblerInv, ListsOK
  <1>3. others \in Seq(SpanIds)
    BY <1>2, RetainKeeps
  <1> HIDE DEF others, r
  <1>4. others # <<>> => Last(others) \in SpanIds
    BY <1>3 DEF Last
  <1>5. InferParent(s) \in SpanIds \cup {Root}
    BY <1>4 DEF InferParent, others, r
  <1> QED BY <1>5, SpanAssumption DEF ParentOf

\* A span that opens goes behind the containers of its run, if it is one.
LEMMA OpeningKeeps ==
  ASSUME AssemblerInv, NEW s \in SpanIds, s \notin OpenIds, NEW at \in Nat,
         opened' = [t \in OpenIds \cup {s} |->
                      IF t = s THEN [parent |-> ParentOf(s), lastSeen |-> at] ELSE opened[t]],
         containers' = IF Spans[s].container
                       THEN [containers EXCEPT ![Spans[s].run] = Append(@, s)] ELSE containers
  PROVE  (OpenOK /\ ListsOK /\ ContainersAreOpen)'
  <1>1. /\ OpenIds \subseteq SpanIds /\ opened \in [OpenIds -> OpenRecords]
        /\ containers \in [SpanRuns -> Seq(SpanIds)]
    BY DEF AssemblerInv, OpenOK, ListsOK
  <1>2. [parent |-> ParentOf(s), lastSeen |-> at] \in OpenRecords
    BY ParentTyped DEF OpenRecords
  <1>3. opened' \in [OpenIds \cup {s} -> OpenRecords]
    BY <1>1, <1>2
  <1>4. OpenIds' = OpenIds \cup {s}
    BY <1>3 DEF OpenIds
  <1>5. OpenOK'
    BY <1>1, <1>3, <1>4 DEF OpenOK, SpanIds, OpenRecords
  <1>6. ASSUME NEW r \in SpanRuns
        PROVE  /\ containers'[r] \in Seq(SpanIds)
               /\ ToSet(containers'[r]) = ContainersOf(OpenIds \cup {s}, r)
               /\ IsInjective(containers'[r])
    <2> DEFINE q == containers[r]
    <2>1. q \in Seq(SpanIds)
      BY <1>1
    <2>2. ToSet(q) = ContainersOf(OpenIds, r) /\ IsInjective(q)
      BY DEF AssemblerInv, ContainersAreOpen, ContainersOf
    <2>3. CASE Spans[s].container /\ Spans[s].run = r
      <3>1. containers'[r] = Append(q, s)
        BY <1>1, <2>3
      <3>2. s \notin ToSet(q)
        BY <2>2 DEF ContainersOf
      <3> HIDE DEF q
      <3>3. /\ Append(q, s) \in Seq(SpanIds) /\ ToSet(Append(q, s)) = ToSet(q) \cup {s}
            /\ IsInjective(Append(q, s))
        BY <2>1, <2>2, <3>2, OneMore
      <3>4. ContainersOf(OpenIds \cup {s}, r) = ContainersOf(OpenIds, r) \cup {s}
        BY <2>3 DEF ContainersOf
      <3> QED BY <2>2, <3>1, <3>3, <3>4
    <2>4. CASE ~(Spans[s].container /\ Spans[s].run = r)
      <3>1. containers'[r] = q
        BY <1>1, <2>4
      <3>2. ContainersOf(OpenIds \cup {s}, r) = ContainersOf(OpenIds, r)
        BY <2>4 DEF ContainersOf
      <3> QED BY <2>1, <2>2, <3>1, <3>2
    <2> QED BY <2>3, <2>4
  <1>7. ListsOK'
    <2>1. containers' = [r \in SpanRuns |-> containers'[r]]
      BY <1>1
    <2>2. containers' \in [SpanRuns -> Seq(SpanIds)]
      BY <1>6, <2>1
    <2> QED BY <2>2 DEF ListsOK, SpanRuns, SpanIds
  <1>8. ContainersAreOpen'
    BY <1>4, <1>6 DEF ContainersAreOpen, ContainersOf, SpanRuns, SpanIds
  <1> QED BY <1>5, <1>7, <1>8

LEMMA AssemblerInvInit == AssemblerInit => AssemblerInv
  <1> SUFFICES ASSUME AssemblerInit PROVE AssemblerInv
    OBVIOUS
  <1>1. Clock
    BY SpanAssumption DEF AssemblerInit, Clock
  <1>2. OpenIds = {} /\ opened \in [{} -> OpenRecords]
    BY DEF AssemblerInit, OpenIds
  <1>3. OpenOK
    BY <1>2 DEF OpenOK
  <1>4. ListsOK
    BY DEF AssemblerInit, ListsOK
  <1>5. ToSet(<<>>) = {} /\ IsInjective(<<>>)
    BY DEF ToSet, IsInjective
  <1>6. ContainersAreOpen
    BY <1>2, <1>5 DEF AssemblerInit, ContainersAreOpen
  <1> QED BY <1>1, <1>3, <1>4, <1>6 DEF AssemblerInv

LEMMA AssemblerInvStep == AssemblerInv /\ [AssemblerNext]_assemblerVars => AssemblerInv'
  <1> SUFFICES ASSUME AssemblerInv, [AssemblerNext]_assemblerVars PROVE AssemblerInv'
    OBVIOUS
  <1>c. Clock /\ LastInstant \in Nat /\ MaxEvents \in Nat
    BY SpanAssumption DEF AssemblerInv
  <1>i. Ingests => Clock'
    BY <1>c DEF Clock, Ingests
  <1>k. ASSUME opened' = opened, containers' = containers
        PROVE  (OpenOK /\ ListsOK /\ ContainersAreOpen)'
    BY <1>k DEF AssemblerInv, OpenOK, ListsOK, ContainersAreOpen, OpenIds, SpanRuns, SpanIds,
                OpenRecords
  <1>1. CASE UNCHANGED assemblerVars
    BY <1>1, <1>c, <1>k DEF assemblerVars, AssemblerInv, Clock
  <1>2. CASE NextInstant
    <2>1. Clock'
      BY <1>2, <1>c DEF NextInstant, Clock
    <2> QED BY <1>2, <1>k, <2>1 DEF NextInstant, AssemblerInv
  <1>3. CASE Drain
    <2>1. Clock'
      BY <1>3, <1>c DEF Drain, Clock
    <2>2. opened' = Without(opened, OpenIds)
      <3>1. OpenIds \ OpenIds = {}
        OBVIOUS
      <3>2. \A f : [s \in {} |-> f[s]] = <<>>
        OBVIOUS
      <3> QED BY <1>3, <3>1, <3>2 DEF Drain, Without, OpenIds
    <2>3. containers' = PopContainers(OpenIds)
      BY <1>3 DEF Drain
    <2> QED BY <2>1, <2>2, <2>3, ClosingKeeps DEF AssemblerInv
  <1>4. ASSUME NEW ids, Sweep(ids) PROVE AssemblerInv'
    <2>1. Clock'
      BY <1>4, <1>c DEF Sweep, Clock
    <2>2. opened' = Without(opened, ids) /\ containers' = PopContainers(ids)
      BY <1>4 DEF Sweep
    <2> QED BY <2>1, <2>2, ClosingKeeps DEF AssemblerInv
  <1>5. ASSUME NEW s \in SpanIds, CloseSpan(s) PROVE AssemblerInv'
    <2>1. Clock'
      BY <1>5, <1>i DEF CloseSpan
    <2>2. opened' = Without(opened, {s}) /\ containers' = PopContainers({s})
      BY <1>5 DEF CloseSpan
    <2> QED BY <2>1, <2>2, ClosingKeeps DEF AssemblerInv
  <1>6. ASSUME NEW s \in SpanIds, NEW at \in 0..instant, OpenSpan(s, at) PROVE AssemblerInv'
    <2>1. Clock' /\ at \in Nat
      BY <1>6, <1>i DEF OpenSpan
    <2>2. CASE s \in OpenIds
      <3>1. opened' = [opened EXCEPT ![s].lastSeen = at] /\ containers' = containers
        BY <1>6, <2>2 DEF OpenSpan
      <3> QED BY <2>1, <2>2, <3>1, HearingKeeps DEF AssemblerInv
    <2>3. CASE s \notin OpenIds
      <3>1. /\ opened' = [t \in OpenIds \cup {s} |->
                  IF t = s THEN [parent |-> ParentOf(s), lastSeen |-> at] ELSE opened[t]]
            /\ containers' = IF Spans[s].container
                   THEN [containers EXCEPT ![Spans[s].run] = Append(@, s)] ELSE containers
        BY <1>6, <2>3 DEF OpenSpan
      <3> QED BY <2>1, <2>3, <3>1, OpeningKeeps DEF AssemblerInv
    <2> QED BY <2>2, <2>3
  <1>7. ASSUME NEW s \in SpanIds, NEW at \in 0..instant, RecordPoint(s, at) PROVE AssemblerInv'
    <2>1. Clock' /\ at \in Nat
      BY <1>7, <1>i DEF RecordPoint
    <2>2. s \in OpenIds /\ opened' = [opened EXCEPT ![s].lastSeen = at] /\ containers' = containers
      BY <1>7 DEF RecordPoint
    <2> QED BY <2>1, <2>2, HearingKeeps DEF AssemblerInv
  <1> QED BY <1>1, <1>2, <1>3, <1>4, <1>5, <1>6, <1>7 DEF AssemblerNext

-----------------------------------------------------------------------------
(* The span assembler: the theorems. *)

\* assembler.rs: the assembler's inductive invariant. What a list holds is only
\* preserved together with its type, and the type of what a new span's parent is
\* inferred to be rests on the lists.
THEOREM AssemblerInvariant == AssemblerSpec => []AssemblerInv
  BY AssemblerInvInit, AssemblerInvStep, PTL DEF AssemblerSpec

\* assembler.rs: whatever arrives, each open span has a parent that is a span or
\* the root, and each run's list holds spans.
THEOREM AssemblerTypeCorrect == AssemblerSpec => []AssemblerTypeOK
  <1>1. AssemblerInv => AssemblerTypeOK
    BY DEF AssemblerInv, AssemblerTypeOK, Clock, OpenOK, ListsOK, OpenRecords
  <1> QED BY AssemblerInvariant, <1>1, PTL

\* assembler.rs open_span, close_span, sweep, drain: parents are inferred from the
\* open containers of the run, each listed once, for every set of spans and runs,
\* every cap and timeout, and every loss, repetition and order of starts and ends.
THEOREM ParentsAreOpen == AssemblerSpec => []ContainersAreOpen
  <1>1. AssemblerInv => ContainersAreOpen
    BY DEF AssemblerInv
  <1> QED BY AssemblerInvariant, <1>1, PTL

-----------------------------------------------------------------------------
(* The scheduler's slots *)

TickerRecord ==
  [at : {"idle", "pass", "start", "settle", "gone"}, now : 0..EndOfTime,
   due : SUBSET SlotTimes, slot : SlotTimes \cup {0},
   says : Outcomes \cup {"none", "again"}]

SlotRecord ==
  [outcome : Outcomes \cup {"none"}, owner : Tickers \cup {Nobody}, leasedAt : 0..EndOfTime]

\* A ticker that starts or settles names a slot, and says started only of a
\* slot whose run it has seen started.
TickerOK(w) ==
  /\ ticker[w].at \in {"start", "settle"} => ticker[w].slot \in SlotTimes
  /\ ticker[w].at = "settle" /\ ticker[w].says = "started" => run[ticker[w].slot] # "none"

\* A decided slot has no holder, so that nobody may settle it again: why a
\* decision stands.
SlotOK(s) ==
  /\ slot[s].outcome # "none" => slot[s].owner = Nobody
  /\ slot[s].outcome = "started" => run[s] # "none"

ScheduleInv ==
  /\ second \in 0..EndOfTime /\ cursor \in 0..EndOfTime \cup {NoCursor}
  /\ slot \in [SlotTimes -> SlotRecord]
  /\ run \in [SlotTimes -> {"none", "running", "ended"}]
  /\ ticker \in [Tickers -> TickerRecord]
  /\ found \subseteq SlotTimes /\ trouble \in 0..MaxTrouble
  /\ \A w \in Tickers : TickerOK(w)
  /\ \A s \in SlotTimes : SlotOK(s)

\* One ticker moves, the slots and their runs stay.
LEMMA TickerMoves ==
  ASSUME ScheduleInv, NEW w \in Tickers, NEW t \in TickerRecord,
         ticker' = [ticker EXCEPT ![w] = t],
         t.at \in {"start", "settle"} => t.slot \in SlotTimes,
         t.at = "settle" /\ t.says = "started" => run'[t.slot] # "none",
         run' \in [SlotTimes -> {"none", "running", "ended"}],
         \A s \in SlotTimes : run[s] # "none" => run'[s] # "none"
  PROVE  ticker' \in [Tickers -> TickerRecord] /\ \A v \in Tickers : TickerOK(v)'
  <1>1. ticker' \in [Tickers -> TickerRecord] /\ ticker'[w] = t
    BY DEF ScheduleInv
  <1>2. TickerOK(w)'
    BY <1>1 DEF TickerOK
  <1>3. ASSUME NEW v \in Tickers, v # w PROVE TickerOK(v)'
    <2>1. ticker'[v] = ticker[v] /\ TickerOK(v) /\ ticker[v] \in TickerRecord
      BY <1>3 DEF ScheduleInv
    <2> QED BY <2>1 DEF TickerOK
  <1> QED BY <1>1, <1>2, <1>3

\* What a step that leaves the slots and the runs alone has to show.
LEMMA SlotsRest ==
  ASSUME ScheduleInv, UNCHANGED <<slot, run>>
  PROVE  slot' \in [SlotTimes -> SlotRecord] /\ \A s \in SlotTimes : SlotOK(s)'
  BY DEF ScheduleInv, SlotOK

\* A tick moves on to its next slot.
LEMMA MovesOnKeepsTickers ==
  ASSUME ScheduleInv, NEW w \in Tickers, NEW s \in SlotTimes \cup {0}, MovesOn(w, s),
         UNCHANGED run
  PROVE  ticker' \in [Tickers -> TickerRecord] /\ \A v \in Tickers : TickerOK(v)'
  <1> DEFINE t == [ticker[w] EXCEPT !.at = "pass", !.due = ticker[w].due \ {s}, !.slot = 0,
                              !.says = "none"]
  <1>1. ticker[w] \in TickerRecord /\ run \in [SlotTimes -> {"none", "running", "ended"}]
        /\ ticker \in [Tickers -> TickerRecord]
    BY DEF ScheduleInv
  <1>2. 0 \in 0..EndOfTime /\ {} \in SUBSET SlotTimes
    BY ScheduleAssumption
  <1>3. t \in TickerRecord /\ t.at = "pass"
    BY <1>1 DEF TickerRecord
  <1>4. ticker' = [ticker EXCEPT ![w] = t]
    BY <1>1 DEF MovesOn
  <1> QED BY <1>1, <1>3, <1>4, TickerMoves

\* The inductive step of the scheduler: every action of ScheduleNext keeps
\* ScheduleInv, and no action changes what was decided about a slot.
LEMMA ScheduleStepKeeps ==
  ASSUME ScheduleInv, [ScheduleNext]_scheduleVars
  PROVE  /\ ScheduleInv'
         /\ \A s \in SlotTimes : slot[s].outcome # "none" => slot'[s].outcome = slot[s].outcome
  <1> DEFINE Keeps == \A s \in SlotTimes :
                        slot[s].outcome # "none" => slot'[s].outcome = slot[s].outcome
  <1>0. /\ 0 \in 0..EndOfTime /\ EndOfTime \in Nat /\ MaxTrouble \in Nat
        /\ second \in 0..EndOfTime /\ cursor \in 0..EndOfTime \cup {NoCursor}
        /\ slot \in [SlotTimes -> SlotRecord]
        /\ run \in [SlotTimes -> {"none", "running", "ended"}]
        /\ ticker \in [Tickers -> TickerRecord]
        /\ found \subseteq SlotTimes /\ trouble \in 0..MaxTrouble
    BY ScheduleAssumption DEF ScheduleInv
  <1>1. CASE UNCHANGED scheduleVars
    BY <1>1 DEF scheduleVars, ScheduleInv, TickerOK, SlotOK
  <1>2. CASE NextSecond
    BY <1>0, <1>2 DEF NextSecond, ScheduleInv, TickerOK, SlotOK
  <1>3. ASSUME NEW s \in SlotTimes, ScheduledRunEnds(s) PROVE ScheduleInv' /\ Keeps
    <2>1. run' = [run EXCEPT ![s] = "ended"]
          /\ UNCHANGED <<second, cursor, slot, ticker, found, trouble>>
      BY <1>3 DEF ScheduledRunEnds
    <2>2. run' \in [SlotTimes -> {"none", "running", "ended"}]
          /\ \A x \in SlotTimes : run[x] # "none" => run'[x] # "none"
      BY <1>0, <2>1
    <2>3. \A w \in Tickers : TickerOK(w)'
      BY <1>0, <2>1, <2>2 DEF TickerOK, ScheduleInv
    <2>4. \A x \in SlotTimes : SlotOK(x)'
      BY <1>0, <2>1, <2>2 DEF SlotOK, ScheduleInv
    <2> QED BY <1>0, <2>1, <2>2, <2>3, <2>4 DEF ScheduleInv
  <1>4. ASSUME NEW w \in Tickers, BeginTick(w) PROVE ScheduleInv' /\ Keeps
    <2>1. PICK due \in SUBSET SlotTimes :
            /\ ticker' = [ticker EXCEPT ![w] =
                            [Idle EXCEPT !.at = "pass", !.now = second, !.due = due]]
            /\ found' = found \cup due
      BY <1>4 DEF BeginTick, SlotsDue, SlotsBetween
    <2>2. UNCHANGED <<second, cursor, slot, run, trouble>>
      BY <1>4 DEF BeginTick
    <2>3. [Idle EXCEPT !.at = "pass", !.now = second, !.due = due] \in TickerRecord
      BY <1>0 DEF Idle, TickerRecord
    <2>4. [Idle EXCEPT !.at = "pass", !.now = second, !.due = due].at = "pass"
      BY DEF Idle
    <2>5. ticker' \in [Tickers -> TickerRecord] /\ \A v \in Tickers : TickerOK(v)'
      BY <1>0, <2>1, <2>2, <2>3, <2>4, TickerMoves
    <2> QED BY <1>0, <2>1, <2>2, <2>5, SlotsRest DEF ScheduleInv
  <1>5. ASSUME NEW w \in Tickers, NEW s \in SlotTimes, SlotTaken(w, s)
        PROVE  ScheduleInv' /\ Keeps
    <2>1. MovesOn(w, s) /\ UNCHANGED <<second, cursor, slot, run, found, trouble>>
      BY <1>5 DEF SlotTaken
    <2> QED BY <1>0, <2>1, MovesOnKeepsTickers, SlotsRest DEF ScheduleInv
  <1>6. ASSUME NEW w \in Tickers, NEW s \in SlotTimes, SlotBlocked(w, s)
        PROVE  ScheduleInv' /\ Keeps
    <2> DEFINE t == [ticker[w] EXCEPT !.at = "settle", !.slot = s, !.says = "skipped"]
    <2>1. ticker' = [ticker EXCEPT ![w] = t] /\ UNCHANGED <<second, cursor, slot, run, found, trouble>>
      BY <1>6 DEF SlotBlocked
    <2>2. t \in TickerRecord /\ t.slot = s /\ t.says = "skipped"
      BY <1>0 DEF TickerRecord, Outcomes
    <2>3. ticker' \in [Tickers -> TickerRecord] /\ \A v \in Tickers : TickerOK(v)'
      BY <1>0, <2>1, <2>2, TickerMoves
    <2> QED BY <1>0, <2>1, <2>3, SlotsRest DEF ScheduleInv
  <1>7. ASSUME NEW w \in Tickers, NEW s \in SlotTimes, SlotAdmitted(w, s)
        PROVE  ScheduleInv' /\ Keeps
    <2> DEFINE t == [ticker[w] EXCEPT !.at = "start", !.slot = s]
               r == [outcome |-> "none", owner |-> w, leasedAt |-> ticker[w].now]
    <2>1. /\ ticker' = [ticker EXCEPT ![w] = t] /\ slot' = [slot EXCEPT ![s] = r]
          /\ slot[s].outcome = "none" /\ UNCHANGED <<second, cursor, run, found, trouble>>
      BY <1>7 DEF SlotAdmitted, IsAvailable
    <2>2. t \in TickerRecord /\ t.slot = s /\ t.at = "start"
      BY <1>0 DEF TickerRecord
    <2>3. ticker' \in [Tickers -> TickerRecord] /\ \A v \in Tickers : TickerOK(v)'
      BY <1>0, <2>1, <2>2, TickerMoves
    <2>4. r \in SlotRecord /\ r.outcome = "none"
      BY <1>0 DEF TickerRecord, SlotRecord
    <2>5. slot' \in [SlotTimes -> SlotRecord] /\ slot'[s].outcome = "none"
          /\ \A x \in SlotTimes : x # s => slot'[x] = slot[x]
      BY <1>0, <2>1, <2>4
    <2>6. \A x \in SlotTimes : SlotOK(x)'
      BY <2>1, <2>5 DEF SlotOK, ScheduleInv
    <2> QED BY <1>0, <2>1, <2>3, <2>5, <2>6 DEF ScheduleInv
  <1>8. ASSUME NEW w \in Tickers, StartRun(w) PROVE ScheduleInv' /\ Keeps
    <2> DEFINE s == ticker[w].slot
               started == [run EXCEPT ![s] = IF @ = "none" THEN "running" ELSE @]
    <2>1. ticker[w].at = "start" /\ UNCHANGED <<second, cursor, slot, found>> /\ s \in SlotTimes
      BY <1>8 DEF StartRun, ScheduleInv, TickerOK
    <2>2. PICK says \in Outcomes \cup {"again"} :
            /\ ticker' = [ticker EXCEPT ![w] = [@ EXCEPT !.at = "settle", !.says = says]]
            /\ run' \in {run, started} /\ (says = "started" => run' = started)
            /\ trouble' = trouble \/ (trouble < MaxTrouble /\ trouble' = trouble + 1)
      BY <1>8 DEF StartRun, Outcomes
    <2>3. started \in [SlotTimes -> {"none", "running", "ended"}] /\ started[s] # "none"
          /\ \A x \in SlotTimes : run[x] # "none" => started[x] # "none"
      BY <1>0, <2>1
    <2>4. run' \in [SlotTimes -> {"none", "running", "ended"}]
          /\ \A x \in SlotTimes : run[x] # "none" => run'[x] # "none"
      BY <1>0, <2>2, <2>3
    <2> DEFINE t == [ticker[w] EXCEPT !.at = "settle", !.says = says]
    <2>5. t \in TickerRecord /\ t.slot = s /\ t.says = says
      BY <1>0 DEF TickerRecord
    <2>6. ticker' \in [Tickers -> TickerRecord] /\ \A v \in Tickers : TickerOK(v)'
      BY <1>0, <2>1, <2>2, <2>3, <2>4, <2>5, TickerMoves
    <2>7. \A x \in SlotTimes : SlotOK(x)'
      BY <2>1, <2>4 DEF SlotOK, ScheduleInv
    <2>8. trouble' \in 0..MaxTrouble
      BY <1>0, <2>2
    <2> QED BY <1>0, <2>1, <2>4, <2>6, <2>7, <2>8 DEF ScheduleInv
  <1>9. ASSUME NEW w \in Tickers, SettleSlot(w) PROVE ScheduleInv' /\ Keeps
    <2> DEFINE s == ticker[w].slot
               r == [outcome |-> IF ticker[w].says = "again" THEN "none" ELSE ticker[w].says,
                     owner |-> Nobody, leasedAt |-> 0]
    <2>1. /\ ticker[w].at = "settle" /\ s \in SlotTimes /\ ticker[w] \in TickerRecord
          /\ ticker[w].says = "started" => run[s] # "none"
          /\ UNCHANGED <<second, cursor, run, found, trouble>> /\ MovesOn(w, s)
      BY <1>9 DEF SettleSlot, ScheduleInv, TickerOK
    <2>2. ticker' \in [Tickers -> TickerRecord] /\ \A v \in Tickers : TickerOK(v)'
      BY <2>1, MovesOnKeepsTickers
    <2>3. CASE slot[s].owner # w
      <3>1. slot' = slot
        BY <1>9, <2>3 DEF SettleSlot, Settlement
      <3> QED BY <1>0, <2>1, <2>2, <3>1, SlotsRest DEF ScheduleInv
    <2>4. CASE slot[s].owner = w
      <3>1. slot' = [slot EXCEPT ![s] = r]
        BY <1>9, <2>4 DEF SettleSlot, Settlement
      <3>2. r \in SlotRecord /\ r.owner = Nobody /\ (r.outcome = "started" => run[s] # "none")
        BY <1>0, <2>1 DEF SlotRecord, TickerRecord, Outcomes
      <3>3. slot' \in [SlotTimes -> SlotRecord] /\ slot'[s] = r
            /\ \A x \in SlotTimes : x # s => slot'[x] = slot[x]
        BY <1>0, <2>1, <3>1, <3>2
      <3>4. slot[s].outcome = "none"
        BY <2>1, <2>4, ScheduleAssumption DEF ScheduleInv, SlotOK
      <3>5. Keeps
        BY <3>3, <3>4
      <3>6. \A x \in SlotTimes : SlotOK(x)'
        BY <2>1, <3>2, <3>3 DEF SlotOK, ScheduleInv
      <3> QED BY <1>0, <2>1, <2>2, <3>3, <3>5, <3>6 DEF ScheduleInv
    <2> QED BY <2>3, <2>4
  <1>10. ASSUME NEW w \in Tickers, ProcessFails(w) PROVE ScheduleInv' /\ Keeps
    <2>1. PICK s \in SlotTimes \cup {0} : MovesOn(w, s)
      BY <1>0, <1>10 DEF ProcessFails, TickerRecord
    <2>2. UNCHANGED <<second, cursor, slot, run, found>> /\ trouble' \in 0..MaxTrouble
      BY <1>0, <1>10 DEF ProcessFails
    <2> QED BY <1>0, <2>1, <2>2, MovesOnKeepsTickers, SlotsRest DEF ScheduleInv
  <1>11. ASSUME NEW w \in Tickers, EndTick(w) \/ EndTickFails(w) \/ CrashTicker(w)
         PROVE  ScheduleInv' /\ Keeps
    <2>1. PICK t : /\ ticker' = [ticker EXCEPT ![w] = t]
                   /\ t = Idle \/ t = [Idle EXCEPT !.at = "gone"]
      <3>1. (ticker' = [ticker EXCEPT ![w] = Idle])
            \/ ticker' = [ticker EXCEPT ![w] = [Idle EXCEPT !.at = "gone"]]
        BY <1>11 DEF EndTick, EndTickFails, CrashTicker
      <3> QED BY <3>1
    <2>2. t \in TickerRecord /\ t.at \in {"idle", "gone"}
      BY <1>0, <2>1 DEF Idle, TickerRecord
    <2>3. UNCHANGED <<second, slot, run, found>> /\ trouble' \in 0..MaxTrouble
          /\ cursor' \in 0..EndOfTime \cup {NoCursor}
      BY <1>0, <1>11 DEF EndTick, EndTickFails, CrashTicker, TickerRecord
    <2>4. ticker' \in [Tickers -> TickerRecord] /\ \A v \in Tickers : TickerOK(v)'
      BY <1>0, <2>1, <2>2, <2>3, TickerMoves
    <2> QED BY <1>0, <2>3, <2>4, SlotsRest DEF ScheduleInv
  <1> QED BY <1>1, <1>2, <1>3, <1>4, <1>5, <1>6, <1>7, <1>8, <1>9, <1>10, <1>11
          DEF ScheduleNext

\* scheduler.rs and the slot table: the invariant the other results rest on.
THEOREM ScheduleInvariant == ScheduleSpec => []ScheduleInv
  <1>1. ScheduleInit => ScheduleInv
    <2> SUFFICES ASSUME ScheduleInit PROVE ScheduleInv
      OBVIOUS
    <2>1. 0 \in 0..EndOfTime /\ 0 \in 0..MaxTrouble /\ Idle \in TickerRecord
      BY ScheduleAssumption DEF Idle, TickerRecord
    <2> QED BY <2>1 DEF ScheduleInit, ScheduleInv, TickerOK, SlotOK, SlotRecord, Idle
  <1>2. ScheduleInv /\ [ScheduleNext]_scheduleVars => ScheduleInv'
    BY ScheduleStepKeeps
  <1> QED BY <1>1, <1>2, PTL DEF ScheduleSpec

\* Every variable of the scheduler keeps its type, through failed calls and
\* crashes at any point of a tick.
THEOREM ScheduleTypeCorrect == ScheduleSpec => []ScheduleTypeOK
  <1>1. ScheduleInv => ScheduleTypeOK
    BY DEF ScheduleInv, ScheduleTypeOK, SlotRecord, TickerRecord
  <1> QED BY <1>1, ScheduleInvariant, PTL

\* settle_slot and admit_slot, for any number of processes, slots and any lease:
\* what was decided about a slot stands, and Started is only said of a slot
\* whose run exists.
THEOREM DecisionsStand == ScheduleSpec => SlotDecisionsStand
  <1>1. ScheduleInv /\ [ScheduleNext]_scheduleVars =>
          [\A s \in SlotTimes :
             /\ slot[s].outcome # "none" => slot'[s].outcome = slot[s].outcome
             /\ slot'[s].outcome = "started" => run'[s] # "none"]_scheduleVars
    <2> SUFFICES ASSUME ScheduleInv, [ScheduleNext]_scheduleVars
                 PROVE  \A s \in SlotTimes :
                          /\ slot[s].outcome # "none" => slot'[s].outcome = slot[s].outcome
                          /\ slot'[s].outcome = "started" => run'[s] # "none"
      OBVIOUS
    <2> QED BY ScheduleStepKeeps DEF ScheduleInv, SlotOK
  <1> QED BY <1>1, ScheduleInvariant, PTL DEF ScheduleSpec, SlotDecisionsStand

-----------------------------------------------------------------------------
(* Hosted sessions *)

TurnIds == Deciders \X Nat

EntryRecord ==
  [kind : {"turn", "fired", "end"}, id : TurnIds \cup TimerIds \cup {0}, on : Nat,
   delivered : BOOLEAN]

DeciderRecord == [at : {"idle", "sends", "appends"}, seen : Nat, turn : TurnIds \cup {0}]

BellRecord ==
  [at : {"idle", "tick", "fires"}, due : SUBSET TimerIds, timer : TimerIds \cup {"none"},
   seen : Nat, deliverable : BOOLEAN]

NoEnd(h, n) == \A i \in 1..n : h[i].kind # "end"

\* A turn's id carries the version it was decided on, which is where it stands;
\* that is why no turn is recorded twice.
EntryOK(h, i) ==
  /\ h[i].on = i - 1
  /\ h[i].kind = "turn" => h[i].id[2] = i - 1
  /\ h[i].kind = "end" => h[i].id = 0
  /\ h[i].kind # "fired" \/ h[i].delivered => NoEnd(h, i - 1)
  /\ h[i].kind = "fired" =>
       \A j \in 1..(i - 1) : h[j].kind = "fired" => h[j].id # h[i].id

HistoryOK(h) == \A i \in 1..Len(h) : EntryOK(h, i)

\* What a worker holds on to between its read and its append.
DeciderOK(d, w, h) ==
  d.at \in {"sends", "appends"} =>
    d.seen \in 0..Len(h) /\ d.turn = <<w, d.seen>> /\ NoEnd(h, d.seen)

\* What a timer process holds on to between its load and its append.
BellOK(b, h) ==
  b.at = "fires" =>
    /\ b.timer \in TimerIds /\ b.seen \in 0..Len(h)
    /\ b.deliverable => NoEnd(h, b.seen)

SessionInv ==
  /\ hour \in 0..LastHour /\ dueAt \in [TimerIds -> 0..NotSet]
  /\ lease \in [holder : Deciders \cup {NoHolder}, at : 0..LastHour]
  /\ history \in Seq(EntryRecord) /\ HistoryOK(history)
  /\ decider \in [Deciders -> DeciderRecord] /\ bell \in [Bells -> BellRecord]
  /\ \A w \in Deciders : DeciderOK(decider[w], w, history)
  /\ \A p \in Bells : BellOK(bell[p], history)

\* The stream with one entry more.
LEMMA LongerHistory ==
  ASSUME NEW h \in Seq(EntryRecord), NEW e \in EntryRecord
  PROVE  /\ Append(h, e) \in Seq(EntryRecord) /\ Len(h) \in Nat
         /\ Len(Append(h, e)) = Len(h) + 1 /\ Append(h, e)[Len(h) + 1] = e
         /\ \A i \in 1..Len(h) : Append(h, e)[i] = h[i]
         /\ \A n \in 0..Len(h) : NoEnd(Append(h, e), n) <=> NoEnd(h, n)
  <1>1. /\ Append(h, e) \in Seq(EntryRecord) /\ Len(h) \in Nat
        /\ Len(Append(h, e)) = Len(h) + 1 /\ Append(h, e)[Len(h) + 1] = e
        /\ \A i \in 1..Len(h) : Append(h, e)[i] = h[i]
    OBVIOUS
  <1>2. ASSUME NEW n \in 0..Len(h) PROVE NoEnd(Append(h, e), n) <=> NoEnd(h, n)
    <2>1. \A i \in 1..n : i \in 1..Len(h)
      BY <1>1
    <2> QED BY <1>1, <2>1 DEF NoEnd
  <1> QED BY <1>1, <1>2

\* What a worker or a timer process knows of a stream is still so behind one
\* entry more.
LEMMA ReadersKeep ==
  ASSUME NEW h \in Seq(EntryRecord), NEW e \in EntryRecord
  PROVE  /\ \A w \in Deciders : \A d \in DeciderRecord :
              DeciderOK(d, w, h) => DeciderOK(d, w, Append(h, e))
         /\ \A b \in BellRecord : BellOK(b, h) => BellOK(b, Append(h, e))
  <1> DEFINE g == Append(h, e)
  <1>1. /\ Len(h) \in Nat /\ Len(g) = Len(h) + 1
        /\ \A n \in 0..Len(h) : NoEnd(g, n) <=> NoEnd(h, n)
    BY LongerHistory
  <1> HIDE DEF g
  <1>2. \A n \in 0..Len(h) : n \in 0..Len(g)
    BY <1>1
  <1>3. ASSUME NEW w \in Deciders, NEW d \in DeciderRecord, DeciderOK(d, w, h)
        PROVE  DeciderOK(d, w, g)
    BY <1>1, <1>2, <1>3 DEF DeciderOK
  <1>4. ASSUME NEW b \in BellRecord, BellOK(b, h) PROVE BellOK(b, g)
    BY <1>1, <1>2, <1>4 DEF BellOK
  <1> QED BY <1>3, <1>4 DEF g

\* An entry decided on the history it lands behind keeps the history in order.
LEMMA HistoryGrows ==
  ASSUME NEW h \in Seq(EntryRecord), HistoryOK(h), NEW e \in EntryRecord,
         e.on = Len(h),
         e.kind = "turn" => e.id[2] = Len(h),
         e.kind = "end" => e.id = 0,
         e.kind # "fired" \/ e.delivered => NoEnd(h, Len(h)),
         e.kind = "fired" => \A j \in 1..Len(h) : h[j].kind = "fired" => h[j].id # e.id
  PROVE  HistoryOK(Append(h, e))
  <1> DEFINE g == Append(h, e)
             n == Len(h) + 1
  <1>1. /\ Len(g) = n /\ g[n] = e /\ Len(h) \in Nat
        /\ \A i \in 1..Len(h) : g[i] = h[i]
        /\ \A m \in 0..Len(h) : NoEnd(g, m) <=> NoEnd(h, m)
    BY LongerHistory
  <1> HIDE DEF g
  <1>2. EntryOK(g, n)
    <2>1. \A j \in 1..Len(h) : g[j] = h[j]
      BY <1>1
    <2>2. NoEnd(h, Len(h)) <=> NoEnd(g, n - 1)
      BY <1>1
    <2> QED BY <1>1, <2>1, <2>2 DEF EntryOK
  <1>3. ASSUME NEW i \in 1..Len(h) PROVE EntryOK(g, i)
    <2>1. EntryOK(h, i) /\ g[i] = h[i] /\ i - 1 \in 0..Len(h)
      BY <1>1 DEF HistoryOK
    <2>2. \A j \in 1..(i - 1) : g[j] = h[j]
      BY <1>1
    <2> QED BY <1>1, <2>1, <2>2 DEF EntryOK
  <1> QED BY <1>1, <1>2, <1>3 DEF HistoryOK, g

\* A run that has not ended has no end in its history.
LEMMA NotEnded ==
  ASSUME SessionInv, ~Ended
  PROVE  NoEnd(history, Len(history))
  BY DEF SessionInv, Ended, Recorded, NoEnd, HistoryOK, EntryOK

LEMMA DeciderMoves ==
  ASSUME SessionInv, NEW h, NEW w \in Deciders, NEW d \in DeciderRecord, DeciderOK(d, w, h),
         \A v \in Deciders : DeciderOK(decider[v], v, h),
         decider' = [decider EXCEPT ![w] = d]
  PROVE  decider' \in [Deciders -> DeciderRecord]
         /\ \A v \in Deciders : DeciderOK(decider'[v], v, h)
  <1>1. decider' \in [Deciders -> DeciderRecord] /\ decider'[w] = d
        /\ \A v \in Deciders : v # w => decider'[v] = decider[v]
    BY DEF SessionInv
  <1>2. ASSUME NEW v \in Deciders PROVE DeciderOK(decider'[v], v, h)
    BY <1>1
  <1> QED BY <1>1, <1>2

LEMMA BellMoves ==
  ASSUME SessionInv, NEW h, NEW p \in Bells, NEW b \in BellRecord, BellOK(b, h),
         \A q \in Bells : BellOK(bell[q], h),
         bell' = [bell EXCEPT ![p] = b]
  PROVE  bell' \in [Bells -> BellRecord] /\ \A q \in Bells : BellOK(bell'[q], h)
  <1>1. bell' \in [Bells -> BellRecord] /\ bell'[p] = b
        /\ \A q \in Bells : q # p => bell'[q] = bell[q]
    BY DEF SessionInv
  <1>2. ASSUME NEW q \in Bells PROVE BellOK(bell'[q], h)
    BY <1>1
  <1> QED BY <1>1, <1>2

\* A timer process goes on with the rest of its list.
LEMMA NextBellKeeps ==
  ASSUME SessionInv, NEW h, NEW p \in Bells, NextBell(p), \A q \in Bells : BellOK(bell[q], h)
  PROVE  bell' \in [Bells -> BellRecord] /\ \A q \in Bells : BellOK(bell'[q], h)
  <1> DEFINE b == IF bell[p].due = {} THEN Quiet
                  ELSE [Quiet EXCEPT !.at = "tick", !.due = bell[p].due]
  <1>1. bell[p] \in BellRecord /\ Quiet \in BellRecord
    BY DEF SessionInv, Quiet, BellRecord
  <1>2. b \in BellRecord /\ b.at # "fires"
    BY <1>1 DEF Quiet, BellRecord
  <1>3. bell' = [bell EXCEPT ![p] = b]
    BY DEF NextBell, SessionInv
  <1>4. BellOK(b, h)
    BY <1>2 DEF BellOK
  <1> QED BY <1>2, <1>3, <1>4, BellMoves

\* The inductive step of a hosted session.
LEMMA SessionStepKeeps ==
  ASSUME SessionInv, [SessionNext]_sessionVars
  PROVE  SessionInv'
  <1>0. /\ hour \in 0..LastHour /\ LastHour \in Nat /\ dueAt \in [TimerIds -> 0..NotSet]
        /\ NotSet \in 0..NotSet /\ \A n \in 0..LastHour : n \in 0..NotSet
        /\ lease \in [holder : Deciders \cup {NoHolder}, at : 0..LastHour]
        /\ history \in Seq(EntryRecord) /\ HistoryOK(history) /\ Len(history) \in Nat
        /\ Len(history) \in 0..Len(history)
        /\ decider \in [Deciders -> DeciderRecord] /\ bell \in [Bells -> BellRecord]
        /\ \A w \in Deciders : DeciderOK(decider[w], w, history)
        /\ \A p \in Bells : BellOK(bell[p], history)
    BY SessionAssumption DEF SessionInv, NotSet
  <1>1. CASE UNCHANGED sessionVars
    BY <1>0, <1>1 DEF sessionVars, SessionInv
  <1>2. CASE NextHour
    BY <1>0, <1>2 DEF NextHour, SessionInv
  <1>3. CASE EndSession
    <2> DEFINE e == Entry("end", 0, Len(history), TRUE)
    <2>1. ~Ended /\ history' = Append(history, e) /\ UNCHANGED <<hour, dueAt, lease, decider, bell>>
      BY <1>3 DEF EndSession
    <2>2. e \in EntryRecord /\ e.on = Len(history) /\ e.kind = "end" /\ e.id = 0
      BY <1>0 DEF Entry, EntryRecord
    <2> HIDE DEF e
    <2>3. HistoryOK(history') /\ history' \in Seq(EntryRecord)
      BY <1>0, <2>1, <2>2, NotEnded, HistoryGrows, LongerHistory
    <2>4. /\ \A w \in Deciders : DeciderOK(decider[w], w, history')
          /\ \A p \in Bells : BellOK(bell[p], history')
      BY <1>0, <2>1, <2>2, ReadersKeep
    <2> QED BY <1>0, <2>1, <2>3, <2>4 DEF SessionInv
  <1>4. ASSUME NEW w \in Deciders, TakeDeciderLease(w) \/ ReleaseDeciderLease(w)
        PROVE  SessionInv'
    <2>1. lease' \in [holder : Deciders \cup {NoHolder}, at : 0..LastHour]
      BY <1>0, <1>4 DEF TakeDeciderLease, ReleaseDeciderLease
    <2>2. UNCHANGED <<hour, history, dueAt, decider, bell>>
      BY <1>4 DEF TakeDeciderLease, ReleaseDeciderLease
    <2> QED BY <1>0, <2>1, <2>2 DEF SessionInv
  <1>5. ASSUME NEW w \in Deciders, ReadSession(w) PROVE SessionInv'
    <2> DEFINE d == [at |-> "sends", seen |-> Len(history), turn |-> <<w, Len(history)>>]
    <2>1. /\ ~Ended /\ decider' = [decider EXCEPT ![w] = d]
          /\ UNCHANGED <<hour, history, dueAt, lease, bell>>
      BY <1>5 DEF ReadSession
    <2>2. d \in DeciderRecord
      BY <1>0 DEF DeciderRecord, TurnIds
    <2>3. DeciderOK(d, w, history)
      BY <1>0, <2>1, NotEnded DEF DeciderOK
    <2>4. decider' \in [Deciders -> DeciderRecord]
          /\ \A v \in Deciders : DeciderOK(decider'[v], v, history)
      BY <1>0, <2>1, <2>2, <2>3, DeciderMoves
    <2> QED BY <1>0, <2>1, <2>4 DEF SessionInv
  <1>6. ASSUME NEW w \in Deciders, CheckTurn(w) \/ TurnConflicts(w) PROVE SessionInv'
    <2>1. PICK d : /\ decider' = [decider EXCEPT ![w] = d]
                   /\ d = Resting \/ (decider[w].at = "sends"
                                        /\ d = [decider[w] EXCEPT !.at = "appends"])
      BY <1>0, <1>6 DEF CheckTurn, TurnConflicts
    <2>2. d \in DeciderRecord
      <3>1. decider[w] \in DeciderRecord /\ Resting \in DeciderRecord
        BY <1>0 DEF Resting, DeciderRecord
      <3> QED BY <2>1, <3>1 DEF DeciderRecord
    <2>3. DeciderOK(d, w, history)
      <3>1. CASE d = Resting
        BY <3>1 DEF DeciderOK, Resting
      <3>2. CASE decider[w].at = "sends" /\ d = [decider[w] EXCEPT !.at = "appends"]
        <4>1. d.seen = decider[w].seen /\ d.turn = decider[w].turn
          BY <1>0, <3>2 DEF DeciderRecord
        <4> QED BY <1>0, <3>2, <4>1 DEF DeciderOK
      <3> QED BY <2>1, <3>1, <3>2
    <2>4. UNCHANGED <<hour, history, dueAt, lease, bell>>
      BY <1>6 DEF CheckTurn, TurnConflicts
    <2>5. decider' \in [Deciders -> DeciderRecord]
          /\ \A v \in Deciders : DeciderOK(decider'[v], v, history)
      BY <1>0, <2>1, <2>2, <2>3, DeciderMoves
    <2> QED BY <1>0, <2>4, <2>5 DEF SessionInv
  <1>7. ASSUME NEW w \in Deciders, AppendTurn(w) PROVE SessionInv'
    <2> DEFINE e == Entry("turn", decider[w].turn, decider[w].seen, TRUE)
    <2>1. /\ decider[w].at = "appends" /\ Len(history) = decider[w].seen
          /\ history' = Append(history, e) /\ UNCHANGED <<hour, lease, bell>>
          /\ dueAt' \in TimerWrites
      BY <1>7 DEF AppendTurn
    <2>2. decider[w].turn = <<w, Len(history)>> /\ NoEnd(history, Len(history))
          /\ decider[w] \in DeciderRecord
      BY <1>0, <2>1 DEF DeciderOK
    <2>3. /\ e \in EntryRecord /\ e.on = Len(history) /\ e.kind = "turn"
          /\ e.id = <<w, Len(history)>>
      BY <1>0, <2>1, <2>2 DEF Entry, EntryRecord, TurnIds
    <2> HIDE DEF e
    <2>4. e.id[2] = Len(history)
      BY <2>3
    <2>5. HistoryOK(history') /\ history' \in Seq(EntryRecord)
      BY <1>0, <2>1, <2>2, <2>3, <2>4, HistoryGrows, LongerHistory
    <2>6. /\ \A v \in Deciders : DeciderOK(decider[v], v, history')
          /\ \A p \in Bells : BellOK(bell[p], history')
      BY <1>0, <2>1, <2>3, ReadersKeep
    <2>7. PICK d : /\ decider' = [decider EXCEPT ![w] = d]
                   /\ d = Resting \/ d = [decider[w] EXCEPT !.at = "sends"]
      BY <1>7 DEF AppendTurn
    <2>8. d \in DeciderRecord
      <3>1. Resting \in DeciderRecord
        BY <1>0 DEF Resting, DeciderRecord
      <3> QED BY <2>2, <2>7, <3>1 DEF DeciderRecord
    <2>9. DeciderOK(d, w, history')
      <3>1. CASE d = Resting
        BY <3>1 DEF DeciderOK, Resting
      <3>2. CASE d = [decider[w] EXCEPT !.at = "sends"]
        <4>1. d.seen = decider[w].seen /\ d.turn = decider[w].turn
          BY <2>2, <3>2 DEF DeciderRecord
        <4> QED BY <2>1, <2>6, <4>1 DEF DeciderOK
      <3> QED BY <2>7, <3>1, <3>2
    <2>10. decider' \in [Deciders -> DeciderRecord]
           /\ \A v \in Deciders : DeciderOK(decider'[v], v, history')
      BY <1>0, <2>6, <2>7, <2>8, <2>9, DeciderMoves
    <2>11. dueAt' \in [TimerIds -> 0..NotSet]
      <3>1. hour < LastHour => hour + 1 \in 0..NotSet
        BY <1>0 DEF NotSet
      <3>2. \/ dueAt' = dueAt \/ \E t \in TimerIds : dueAt' = [dueAt EXCEPT ![t] = NotSet]
            \/ \E t \in TimerIds : hour < LastHour /\ dueAt' = [dueAt EXCEPT ![t] = hour + 1]
        BY <2>1 DEF TimerWrites
      <3> QED BY <1>0, <3>1, <3>2
    <2> QED BY <1>0, <2>1, <2>5, <2>6, <2>10, <2>11 DEF SessionInv
  <1>8. ASSUME NEW p \in Bells, FireDueTimers(p) PROVE SessionInv'
    <2> DEFINE b == [Quiet EXCEPT !.at = "tick", !.due = DueTimers]
    <2>1. bell' = [bell EXCEPT ![p] = b] /\ UNCHANGED <<hour, history, dueAt, lease, decider>>
      BY <1>8 DEF FireDueTimers
    <2>2. DueTimers \in SUBSET TimerIds
      BY DEF DueTimers
    <2>3. b \in BellRecord /\ b.at = "tick"
      BY <2>2 DEF Quiet, BellRecord
    <2>4. BellOK(b, history)
      BY <2>3 DEF BellOK
    <2>5. bell' \in [Bells -> BellRecord] /\ \A q \in Bells : BellOK(bell'[q], history)
      BY <1>0, <2>1, <2>3, <2>4, BellMoves
    <2> QED BY <1>0, <2>1, <2>5 DEF SessionInv
  <1>9. ASSUME NEW p \in Bells, NEW t \in TimerIds, LoadForTimer(p, t) PROVE SessionInv'
    <2> DEFINE b == [at |-> "fires", due |-> bell[p].due \ {t}, timer |-> t,
                     seen |-> Len(history), deliverable |-> ~Ended]
    <2>1. bell' = [bell EXCEPT ![p] = b] /\ UNCHANGED <<hour, history, dueAt, lease, decider>>
      BY <1>0, <1>9 DEF LoadForTimer
    <2>2. b \in BellRecord
      BY <1>0 DEF BellRecord
    <2>3. ~Ended => NoEnd(history, Len(history))
      BY NotEnded
    <2>4. BellOK(b, history)
      BY <1>0, <2>3 DEF BellOK
    <2>5. bell' \in [Bells -> BellRecord] /\ \A q \in Bells : BellOK(bell'[q], history)
      BY <1>0, <2>1, <2>2, <2>4, BellMoves
    <2> QED BY <1>0, <2>1, <2>5 DEF SessionInv
  <1>10. ASSUME NEW p \in Bells, Fire(p) PROVE SessionInv'
    <2> DEFINE e == Entry("fired", bell[p].timer, bell[p].seen, bell[p].deliverable)
    <2>1. bell[p].at = "fires" /\ NextBell(p) /\ UNCHANGED <<hour, lease, decider>>
      BY <1>10 DEF Fire
    <2>2. CASE Recorded("fired", bell[p].timer) \/ Len(history) # bell[p].seen
      <3>1. UNCHANGED <<history, dueAt>>
        BY <1>10, <2>2 DEF Fire
      <3>2. bell' \in [Bells -> BellRecord] /\ \A q \in Bells : BellOK(bell'[q], history)
        BY <1>0, <2>1, NextBellKeeps
      <3> QED BY <1>0, <2>1, <3>1, <3>2 DEF SessionInv
    <2>3. CASE ~Recorded("fired", bell[p].timer) /\ Len(history) = bell[p].seen
      <3>1. /\ history' = Append(history, e)
            /\ dueAt' = [dueAt EXCEPT ![bell[p].timer] = NotSet]
        BY <1>10, <2>3 DEF Fire
      <3>2. /\ bell[p] \in BellRecord /\ bell[p].timer \in TimerIds
            /\ bell[p].deliverable => NoEnd(history, Len(history))
        BY <1>0, <2>1, <2>3 DEF BellOK
      <3>3. /\ e \in EntryRecord /\ e.on = Len(history) /\ e.kind = "fired"
            /\ e.id = bell[p].timer /\ e.delivered = bell[p].deliverable
        BY <2>3, <3>2 DEF Entry, EntryRecord, BellRecord
      <3> HIDE DEF e
      <3>4. \A j \in 1..Len(history) : history[j].kind = "fired" => history[j].id # e.id
        BY <1>0, <2>3, <3>3 DEF Recorded
      <3>5. HistoryOK(history') /\ history' \in Seq(EntryRecord)
        BY <1>0, <3>1, <3>2, <3>3, <3>4, HistoryGrows, LongerHistory
      <3>6. /\ \A v \in Deciders : DeciderOK(decider[v], v, history')
            /\ \A q \in Bells : BellOK(bell[q], history')
        BY <1>0, <3>1, <3>3, ReadersKeep
      <3>7. bell' \in [Bells -> BellRecord] /\ \A q \in Bells : BellOK(bell'[q], history')
        BY <2>1, <3>6, NextBellKeeps
      <3>8. dueAt' \in [TimerIds -> 0..NotSet]
        BY <1>0, <3>1, <3>2
      <3> QED BY <1>0, <2>1, <3>5, <3>6, <3>7, <3>8 DEF SessionInv
    <2> QED BY <2>2, <2>3
  <1> QED BY <1>1, <1>2, <1>3, <1>4, <1>5, <1>6, <1>7, <1>8, <1>9, <1>10 DEF SessionNext

\* The stream, the workers and the timer processes stay in step.
THEOREM SessionInvariant == SessionSpec => []SessionInv
  <1>1. SessionInit => SessionInv
    <2> SUFFICES ASSUME SessionInit PROVE SessionInv
      OBVIOUS
    <2>1. 0 \in 0..LastHour /\ NotSet \in 0..NotSet /\ Resting \in DeciderRecord
          /\ Quiet \in BellRecord
      BY SessionAssumption DEF NotSet, Resting, DeciderRecord, Quiet, BellRecord
    <2>2. history \in Seq(EntryRecord) /\ HistoryOK(history)
      BY DEF SessionInit, HistoryOK
    <2>3. \A w \in Deciders : DeciderOK(decider[w], w, history)
      BY DEF SessionInit, DeciderOK, Resting
    <2>4. \A p \in Bells : BellOK(bell[p], history)
      BY DEF SessionInit, BellOK, Quiet
    <2> QED BY <2>1, <2>2, <2>3, <2>4 DEF SessionInit, SessionInv
  <1>2. SessionInv /\ [SessionNext]_sessionVars => SessionInv'
    BY SessionStepKeeps
  <1> QED BY <1>1, <1>2, PTL DEF SessionSpec

\* Every variable of a hosted session keeps its type.
THEOREM SessionTypeCorrect == SessionSpec => []SessionTypeOK
  <1>1. SessionInv => SessionTypeOK
    <2> SUFFICES ASSUME SessionInv PROVE SessionTypeOK
      OBVIOUS
    <2>1. \A i \in DOMAIN history : history[i] \in EntryRecord
      BY DEF SessionInv
    <2> QED BY <2>1 DEF SessionInv, SessionTypeOK, EntryRecord, DeciderRecord, BellRecord
  <1> QED BY <1>1, SessionInvariant, PTL

\* append_hosted and fire, for any number of workers, timer processes and timers
\* and whoever holds the lease: an entry stands directly behind the history it
\* was decided on, nothing is handed to a run that has ended, and no turn and no
\* timer is recorded twice.
THEOREM HostedEntriesAreFresh == SessionSpec => []EntriesAreFresh
  <1>1. SessionInv => EntriesAreFresh
    <2> SUFFICES ASSUME SessionInv, NEW i \in DOMAIN history, NEW j \in 1..(i - 1)
                 PROVE  /\ history[j].kind = "end" =>
                             history[i].kind = "fired" /\ ~history[i].delivered
                        /\ history[j].kind # history[i].kind \/ history[j].id # history[i].id
      <3>1. ASSUME SessionInv, NEW n \in DOMAIN history PROVE history[n].on = n - 1
        <4>1. history \in Seq(EntryRecord) /\ HistoryOK(history)
          BY <3>1 DEF SessionInv
        <4>2. n \in 1..Len(history)
          BY <3>1, <4>1
        <4>3. EntryOK(history, n)
          BY <4>1, <4>2 DEF HistoryOK
        <4> QED BY <4>3 DEF EntryOK
      <3> QED BY <3>1 DEF EntriesAreFresh
    <2>1. history \in Seq(EntryRecord) /\ i \in 1..Len(history) /\ j \in 1..Len(history)
      BY DEF SessionInv
    <2>2. EntryOK(history, i) /\ EntryOK(history, j) /\ history[i] \in EntryRecord
      BY <2>1 DEF SessionInv, HistoryOK
    <2>3. history[j].kind = "end" => history[i].kind = "fired" /\ ~history[i].delivered
      BY <2>1, <2>2 DEF EntryOK, NoEnd
    <2>4. ASSUME history[j].kind = history[i].kind PROVE history[j].id # history[i].id
      <3>1. CASE history[i].kind = "turn"
        BY <2>1, <2>2, <2>4, <3>1 DEF EntryOK
      <3>2. CASE history[i].kind = "fired"
        BY <2>2, <2>4, <3>2 DEF EntryOK
      <3>3. CASE history[i].kind = "end"
        BY <2>3, <2>4, <3>3
      <3> QED BY <2>2, <3>1, <3>2, <3>3 DEF EntryRecord
    <2> QED BY <2>3, <2>4
  <1> QED BY <1>1, SessionInvariant, PTL

-----------------------------------------------------------------------------
(* Alert deliveries *)

DeliveryRecord ==
  [state : {"absent", "queued", "completed", "failed"}, attempts : 0..MaxAttempts,
   available : Nat]

\* What a row may say: a queued one has an attempt left.
RowOK(d) ==
  /\ d \in DeliveryRecord
  /\ d.state = "absent" => d = Absent
  /\ d.state = "queued" => d.attempts < MaxAttempts

DeliveryOK(e) == RowOK(delivery[e]) /\ (delivery[e].state = "completed" => e \in received)

\* What a pass has read and not yet raised is in its rows, so that the cursor
\* may pass it when the rows are used up.
WatcherOK ==
  /\ watcher \in [at : {"idle", "raises"}, since : 0..LastMinute, rows : SUBSET Failures,
                  highest : 0..LastMinute]
  /\ watched = NoMark => read = {}
  /\ \A e \in read : watched # NoMark /\ EndedAt[e] < watched => delivery[e].state # "absent"
  /\ watcher.at = "raises" =>
       /\ watched # NoMark /\ watcher.since = watched
       /\ \A e \in read : EndedAt[e] >= watched =>
            e \in watcher.rows \/ delivery[e].state # "absent"

\* The drain sends what is queued, one at a time, and writes back a row that
\* says completed only of what the receiver took.
DrainOK ==
  /\ drain \in [at : {"idle", "sends", "records", "remembers"}, due : SUBSET Failures,
                key : Failures \cup {"none"}, row : DeliveryRecord]
  /\ \A e \in drain.due : delivery[e].state = "queued"
  /\ drain.at \in {"records", "remembers"} =>
       /\ drain.key \in Failures \ drain.due /\ RowOK(drain.row) /\ drain.row.state # "absent"
       /\ drain.row.state = "completed" => drain.key \in received

RetryOK ==
  /\ retry \in [at : {"idle", "forgets", "requeues"}, key : Failures \cup {"none"}]
  /\ retry.at # "idle" => retry.key \in Failures

AlertInv ==
  /\ minute \in 0..LastMinute /\ watched \in 0..NoMark /\ outages \in 0..MaxOutages
  /\ visible \in SUBSET Failures /\ finished \in SUBSET Failures
  /\ received \in SUBSET Failures /\ read \in SUBSET visible
  /\ delivery \in [Failures -> DeliveryRecord]
  /\ \A e \in Failures : DeliveryOK(e)
  /\ WatcherOK /\ DrainOK /\ RetryOK

\* The bounds are natural numbers and the instants of failures are on the clock.
LEMMA AlertConstants ==
  /\ LastMinute \in Nat /\ MaxOutages \in Nat /\ MaxAttempts \in Nat /\ 0 < MaxAttempts
  /\ Backoff \in Nat /\ NoMark = LastMinute + 1
  /\ 0 \in 0..LastMinute /\ 0 \in 0..MaxAttempts /\ LastMinute \in 0..NoMark
  /\ \A e \in Failures : EndedAt[e] \in 0..LastMinute
  BY AlertAssumption DEF NoMark

\* The records that stand for nothing under way.
LEMMA AlertRecords ==
  /\ Absent \in DeliveryRecord
  /\ NoPass \in [at : {"idle", "raises"}, since : 0..LastMinute, rows : SUBSET Failures,
                 highest : 0..LastMinute]
  /\ NoDrain \in [at : {"idle", "sends", "records", "remembers"}, due : SUBSET Failures,
                  key : Failures \cup {"none"}, row : DeliveryRecord]
  /\ NoRetry \in [at : {"idle", "forgets", "requeues"}, key : Failures \cup {"none"}]
  /\ NoPass.at = "idle" /\ NoDrain.due = {} /\ NoDrain.at = "idle" /\ NoRetry.at = "idle"
  BY AlertConstants DEF Absent, NoPass, NoDrain, NoRetry, DeliveryRecord

\* A row that a pass or a person queues again.
LEMMA QueuedRow ==
  ASSUME NEW n \in 0..MaxAttempts, n < MaxAttempts, NEW at \in Nat
  PROVE  RowOK(Queued(n, at)) /\ Queued(n, at).state = "queued"
  BY AlertConstants DEF RowOK, Queued, DeliveryRecord

\* What a send leaves to be recorded.
LEMMA SentRow ==
  ASSUME NEW d, RowOK(d), d.state = "queued", NEW retryable \in BOOLEAN, minute \in 0..LastMinute
  PROVE  /\ RowOK(Sent(d)) /\ Sent(d).state = "completed"
         /\ RowOK(AfterFailure(d, retryable))
         /\ AfterFailure(d, retryable).state \in {"queued", "failed"}
  <1>1. /\ d \in DeliveryRecord /\ d.attempts \in 0..MaxAttempts /\ d.attempts < MaxAttempts
        /\ d.attempts + 1 \in 0..MaxAttempts /\ minute + Backoff \in Nat
    BY AlertConstants DEF RowOK, DeliveryRecord
  <1>2. RowOK(Sent(d)) /\ Sent(d).state = "completed"
    BY <1>1 DEF RowOK, Sent, DeliveryRecord
  <1>3. CASE retryable /\ d.attempts + 1 < MaxAttempts
    BY <1>1, <1>2, <1>3, QueuedRow DEF AfterFailure
  <1>4. CASE ~(retryable /\ d.attempts + 1 < MaxAttempts)
    <2>1. AfterFailure(d, retryable) = [d EXCEPT !.state = "failed", !.attempts = d.attempts + 1]
      BY <1>4 DEF AfterFailure
    <2>2. AfterFailure(d, retryable) \in DeliveryRecord
          /\ AfterFailure(d, retryable).state = "failed"
      BY <1>1, <2>1 DEF DeliveryRecord
    <2> QED BY <1>2, <2>2 DEF RowOK
  <1> QED BY <1>3, <1>4

\* One row is written; none goes back to absent.
LEMMA RowWritten ==
  ASSUME AlertInv, NEW e \in Failures, NEW d, RowOK(d), d.state # "absent",
         d.state = "completed" => e \in received,
         delivery' = [delivery EXCEPT ![e] = d], UNCHANGED received
  PROVE  /\ delivery' \in [Failures -> DeliveryRecord] /\ delivery'[e] = d
         /\ \A f \in Failures : DeliveryOK(f)'
         /\ \A f \in Failures : f # e => delivery'[f] = delivery[f]
         /\ \A f \in Failures : delivery[f].state # "absent" => delivery'[f].state # "absent"
  <1>1. delivery \in [Failures -> DeliveryRecord] /\ d \in DeliveryRecord
        /\ \A f \in Failures : DeliveryOK(f)
    BY DEF AlertInv, RowOK
  <1>2. delivery' \in [Failures -> DeliveryRecord] /\ delivery'[e] = d
        /\ \A f \in Failures : f # e => delivery'[f] = delivery[f]
    BY <1>1
  <1>3. ASSUME NEW f \in Failures PROVE DeliveryOK(f)'
    BY <1>1, <1>2 DEF DeliveryOK, RowOK
  <1> QED BY <1>2, <1>3

\* No row is written, and nothing the receiver took is taken back.
LEMMA RowsRest ==
  ASSUME AlertInv, UNCHANGED delivery, received \subseteq received'
  PROVE  /\ delivery' \in [Failures -> DeliveryRecord]
         /\ \A f \in Failures : DeliveryOK(f)'
  BY DEF AlertInv, DeliveryOK, RowOK

\* A step of the drain or of a retry leaves the watcher's claim alone.
LEMMA WatcherRests ==
  ASSUME AlertInv, UNCHANGED <<watched, watcher, read>>,
         \A f \in Failures : delivery[f].state # "absent" => delivery'[f].state # "absent"
  PROVE  WatcherOK'
  <1>1. read \in SUBSET Failures
    BY DEF AlertInv
  <1> QED BY <1>1 DEF AlertInv, WatcherOK

\* The watcher and the clock leave the drain alone.
LEMMA DrainRests ==
  ASSUME AlertInv, UNCHANGED drain, received \subseteq received',
         \A f \in Failures : delivery[f].state = "queued" => delivery'[f].state = "queued"
  PROVE  DrainOK'
  BY DEF AlertInv, DrainOK, RowOK

\* The drain goes on with the rest of its pass, or ends it.
LEMMA DrainGoesOn ==
  ASSUME AlertInv, UNCHANGED delivery, NEW due \in SUBSET Failures,
         \A e \in due : delivery[e].state = "queued",
         drain' = NoDrain \/ drain' = [NoDrain EXCEPT !.at = "sends", !.due = due]
  PROVE  DrainOK'
  <1>1. drain' \in [at : {"idle", "sends", "records", "remembers"}, due : SUBSET Failures,
                    key : Failures \cup {"none"}, row : DeliveryRecord]
        /\ drain'.at \in {"idle", "sends"} /\ drain'.due \in {{}, due}
    BY AlertRecords DEF NoDrain
  <1> QED BY <1>1 DEF DrainOK

\* The inductive step of the alerts.
LEMMA AlertStepKeeps ==
  ASSUME AlertInv, [AlertNext]_alertVars
  PROVE  AlertInv'
  <1>0. /\ minute \in 0..LastMinute /\ watched \in 0..NoMark /\ outages \in 0..MaxOutages
        /\ visible \in SUBSET Failures /\ finished \in SUBSET Failures
        /\ received \in SUBSET Failures /\ read \in SUBSET visible /\ read \in SUBSET Failures
        /\ delivery \in [Failures -> DeliveryRecord]
        /\ \A e \in Failures : DeliveryOK(e)
        /\ WatcherOK /\ DrainOK /\ RetryOK
    BY DEF AlertInv
  <1>1. CASE UNCHANGED alertVars
    BY <1>0, <1>1 DEF alertVars, AlertInv, DeliveryOK, WatcherOK, DrainOK, RetryOK
  <1>2. CASE NextMinute
    <2>1. /\ minute' \in 0..LastMinute
          /\ UNCHANGED <<visible, watched, watcher, delivery, finished, drain, retry, received,
                         read, outages>>
      BY <1>0, <1>2, AlertConstants DEF NextMinute
    <2> QED BY <1>0, <2>1, RowsRest, WatcherRests, DrainRests DEF AlertInv, RetryOK
  <1>3. CASE Restart
    <2>1. /\ outages' \in 0..MaxOutages /\ watcher' = NoPass /\ drain' = NoDrain
          /\ retry' = NoRetry /\ finished' = {}
          /\ UNCHANGED <<minute, visible, watched, delivery, received, read>>
      BY <1>0, <1>3, AlertConstants DEF Restart
    <2>2. WatcherOK'
      BY <1>0, <2>1, AlertRecords DEF WatcherOK
    <2>3. DrainOK'
      BY <2>1, AlertRecords DEF DrainOK
    <2>4. RetryOK'
      BY <2>1, AlertRecords DEF RetryOK
    <2> QED BY <1>0, <2>1, <2>2, <2>3, <2>4, RowsRest DEF AlertInv
  <1>4. CASE WatchFromNow
    <2>1. /\ watcher.at = "idle" /\ watched = NoMark /\ watched' = minute /\ watched' \in 0..NoMark
          /\ UNCHANGED <<minute, visible, watcher, delivery, finished, drain, retry, received,
                         read, outages>>
      BY <1>0, <1>4, AlertConstants DEF WatchFromNow
    <2>2. WatcherOK'
      BY <1>0, <2>1 DEF WatcherOK
    <2> QED BY <1>0, <2>1, <2>2, RowsRest, DrainRests DEF AlertInv, RetryOK
  <1>5. CASE ReadFailures
    <2> DEFINE toRaise == {e \in visible : EndedAt[e] >= watched}
               S == {watched} \cup {EndedAt[e] : e \in toRaise}
    <2>1. /\ watched # NoMark
          /\ watcher' = [at |-> "raises", since |-> watched, rows |-> toRaise, highest |-> Max(S)]
          /\ read' = read \cup toRaise
          /\ UNCHANGED <<minute, visible, watched, delivery, finished, drain, retry, received,
                         outages>>
      BY <1>5 DEF ReadFailures
    <2>2. watched \in 0..LastMinute /\ toRaise \in SUBSET Failures
      BY <1>0, <2>1, AlertConstants
    <2>3. Max(S) \in 0..LastMinute
      <3>1. S \in SUBSET (0..LastMinute) /\ S # {}
        BY <2>2, AlertConstants
      <3> HIDE DEF S
      <3>2. S \in SUBSET Nat /\ \A y \in S : y <= LastMinute
        BY <3>1, AlertConstants
      <3>3. Max(S) \in S
        BY <3>1, <3>2, AlertConstants, MaxOfBounded
      <3> QED BY <3>1, <3>3
    <2> HIDE DEF S
    <2>4. /\ watcher'.at = "raises" /\ watcher'.since = watched /\ watcher'.rows = toRaise
          /\ watcher' \in [at : {"idle", "raises"}, since : 0..LastMinute, rows : SUBSET Failures,
                           highest : 0..LastMinute]
      BY <2>1, <2>2, <2>3
    <2>5. ASSUME NEW e \in read', EndedAt[e] < watched PROVE delivery[e].state # "absent"
      <3>1. e \in Failures /\ EndedAt[e] \in Nat /\ watched \in Nat
        BY <1>0, <2>1, <2>2, AlertConstants
      <3>2. e \in read
        BY <2>1, <2>5, <3>1
      <3> QED BY <1>0, <2>1, <2>5, <3>2 DEF WatcherOK
    <2>6. ASSUME NEW e \in read', EndedAt[e] >= watched PROVE e \in toRaise
      BY <1>0, <2>1, <2>6
    <2>7. WatcherOK'
      BY <2>1, <2>4, <2>5, <2>6 DEF WatcherOK
    <2>8. read' \in SUBSET visible
      BY <1>0, <2>1
    <2> QED BY <1>0, <2>1, <2>7, <2>8, RowsRest, DrainRests DEF AlertInv, RetryOK
  <1>6. CASE MoveCursor
    <2>1. /\ watcher.at = "raises" /\ watcher.rows = {} /\ watched' = watcher.highest
          /\ watcher' = NoPass
          /\ UNCHANGED <<minute, visible, delivery, finished, drain, retry, received, read,
                         outages>>
      BY <1>6 DEF MoveCursor
    <2>2. watched' \in 0..LastMinute /\ watched' # NoMark /\ watched' \in 0..NoMark
      BY <1>0, <2>1, AlertConstants DEF WatcherOK
    <2>3. ASSUME NEW e \in read PROVE delivery[e].state # "absent"
      <3>1. EndedAt[e] \in Nat /\ watched \in Nat
        BY <1>0, AlertConstants
      <3>2. EndedAt[e] < watched \/ EndedAt[e] >= watched
        BY <3>1
      <3> QED BY <1>0, <2>1, <3>2 DEF WatcherOK
    <2>4. WatcherOK'
      BY <2>1, <2>2, <2>3, AlertRecords DEF WatcherOK
    <2> QED BY <1>0, <2>1, <2>2, <2>4, RowsRest, DrainRests DEF AlertInv, RetryOK
  <1>7. CASE WatchFails
    <2>1. /\ outages' \in 0..MaxOutages /\ watcher' = NoPass
          /\ UNCHANGED <<minute, visible, watched, delivery, finished, drain, retry, received,
                         read>>
      BY <1>0, <1>7, AlertConstants DEF WatchFails
    <2>2. WatcherOK'
      BY <1>0, <2>1, AlertRecords DEF WatcherOK
    <2> QED BY <1>0, <2>1, <2>2, RowsRest, DrainRests DEF AlertInv, RetryOK
  <1>8. CASE ReadDue
    <2> DEFINE due == {e \in Failures \ finished : IsDue(delivery[e])}
    <2>1. /\ finished' \in SUBSET Failures
          /\ drain' = NoDrain \/ drain' = [NoDrain EXCEPT !.at = "sends", !.due = due]
          /\ UNCHANGED <<minute, visible, watched, watcher, delivery, retry, received, read,
                         outages>>
      BY <1>0, <1>8 DEF ReadDue
    <2>2. due \in SUBSET Failures /\ \A e \in due : delivery[e].state = "queued"
      BY DEF IsDue
    <2> HIDE DEF due
    <2>3. DrainOK'
      BY <2>1, <2>2, DrainGoesOn
    <2> QED BY <1>0, <2>1, <2>3, RowsRest, WatcherRests DEF AlertInv, RetryOK
  <1>9. CASE Record
    <2>1. /\ drain.at = "records" /\ delivery' = [delivery EXCEPT ![drain.key] = drain.row]
          /\ drain' = [drain EXCEPT !.at = "remembers"]
          /\ UNCHANGED <<minute, visible, watched, watcher, finished, retry, received, read,
                         outages>>
      BY <1>9 DEF Record
    <2>2. /\ drain.key \in Failures \ drain.due /\ RowOK(drain.row)
          /\ drain.row.state # "absent"
          /\ drain.row.state = "completed" => drain.key \in received
          /\ drain.due \in SUBSET Failures
      BY <1>0, <2>1 DEF DrainOK
    <2>3. /\ delivery' \in [Failures -> DeliveryRecord]
          /\ \A f \in Failures : DeliveryOK(f)'
          /\ \A f \in Failures : f # drain.key => delivery'[f] = delivery[f]
          /\ \A f \in Failures : delivery[f].state # "absent" => delivery'[f].state # "absent"
      BY <2>1, <2>2, RowWritten
    <2>4. DrainOK'
      <3>1. /\ drain' \in [at : {"idle", "sends", "records", "remembers"}, due : SUBSET Failures,
                           key : Failures \cup {"none"}, row : DeliveryRecord]
            /\ drain'.due = drain.due /\ drain'.key = drain.key /\ drain'.row = drain.row
        BY <1>0, <2>1 DEF DrainOK
      <3>2. \A e \in drain.due : delivery'[e].state = "queued"
        BY <1>0, <2>2, <2>3 DEF DrainOK
      <3> QED BY <2>1, <2>2, <3>1, <3>2 DEF DrainOK, RowOK
    <2> QED BY <1>0, <2>1, <2>3, <2>4, WatcherRests DEF AlertInv, RetryOK
  <1>10. CASE Remember
    <2>1. /\ drain.at = "remembers"
          /\ drain' = NoDrain \/ drain' = [NoDrain EXCEPT !.at = "sends", !.due = drain.due]
          /\ UNCHANGED <<minute, visible, watched, watcher, delivery, retry, received, read,
                         outages>>
      BY <1>10 DEF Remember
    <2>2. finished' \in SUBSET Failures
      BY <1>0, <1>10 DEF Remember, DrainOK
    <2>3. drain.due \in SUBSET Failures /\ \A e \in drain.due : delivery[e].state = "queued"
      BY <1>0 DEF DrainOK
    <2>4. DrainOK'
      BY <2>1, <2>3, DrainGoesOn
    <2> QED BY <1>0, <2>1, <2>2, <2>4, RowsRest, WatcherRests DEF AlertInv, RetryOK
  <1>11. CASE RecordFails
    <2>1. /\ outages' \in 0..MaxOutages /\ drain' = NoDrain
          /\ UNCHANGED <<minute, visible, watched, watcher, delivery, finished, retry, received,
                         read>>
      BY <1>0, <1>11, AlertConstants DEF RecordFails
    <2>2. DrainOK'
      BY <2>1, AlertRecords DEF DrainOK
    <2> QED BY <1>0, <2>1, <2>2, RowsRest, WatcherRests DEF AlertInv, RetryOK
  <1>12. CASE Forget
    <2>1. /\ finished' \in SUBSET Failures /\ retry' = [retry EXCEPT !.at = "requeues"]
          /\ retry.at = "forgets"
          /\ UNCHANGED <<minute, visible, watched, watcher, delivery, drain, received, read,
                         outages>>
      BY <1>0, <1>12 DEF Forget
    <2>2. RetryOK'
      BY <1>0, <2>1 DEF RetryOK
    <2> QED BY <1>0, <2>1, <2>2, RowsRest, WatcherRests, DrainRests DEF AlertInv
  <1>13. CASE Requeue
    <2>1. /\ retry.key \in Failures
          /\ delivery' = [delivery EXCEPT ![retry.key] = Queued(0, minute)]
          /\ retry' = NoRetry
          /\ UNCHANGED <<minute, visible, watched, watcher, finished, drain, received, read,
                         outages>>
      BY <1>0, <1>13 DEF Requeue, RetryOK
    <2>2. RowOK(Queued(0, minute)) /\ Queued(0, minute).state = "queued"
      BY <1>0, AlertConstants, QueuedRow
    <2>3. /\ delivery' \in [Failures -> DeliveryRecord]
          /\ \A f \in Failures : DeliveryOK(f)'
          /\ delivery'[retry.key] = Queued(0, minute)
          /\ \A f \in Failures : f # retry.key => delivery'[f] = delivery[f]
          /\ \A f \in Failures : delivery[f].state # "absent" => delivery'[f].state # "absent"
      BY <2>1, <2>2, RowWritten
    <2>4. DrainOK'
      BY <2>1, <2>2, <2>3, DrainRests
    <2>5. RetryOK'
      BY <2>1, AlertRecords DEF RetryOK
    <2> QED BY <1>0, <2>1, <2>3, <2>4, <2>5, WatcherRests DEF AlertInv
  <1>14. ASSUME NEW e \in Failures, FailureProjected(e) PROVE AlertInv'
    <2>1. /\ visible' \in SUBSET Failures /\ read \in SUBSET visible'
          /\ UNCHANGED <<minute, watched, watcher, delivery, finished, drain, retry, received,
                         read, outages>>
      BY <1>0, <1>14 DEF FailureProjected
    <2> QED BY <1>0, <2>1, RowsRest, WatcherRests, DrainRests DEF AlertInv, RetryOK
  <1>15. ASSUME NEW e \in Failures, Raise(e) PROVE AlertInv'
    <2> DEFINE d == IF delivery[e] = Absent THEN Queued(0, minute) ELSE delivery[e]
    <2>1. /\ watcher.at = "raises" /\ watcher' = [watcher EXCEPT !.rows = watcher.rows \ {e}]
          /\ delivery' = [delivery EXCEPT ![e] = d]
          /\ UNCHANGED <<minute, visible, watched, finished, drain, retry, received, read,
                         outages>>
      BY <1>0, <1>15 DEF Raise
    <2>2. RowOK(d) /\ d.state # "absent" /\ (d.state = "completed" => e \in received)
          /\ (delivery[e].state = "queued" => d.state = "queued")
      <3>1. RowOK(Queued(0, minute)) /\ Queued(0, minute).state = "queued"
        BY <1>0, AlertConstants, QueuedRow
      <3>2. DeliveryOK(e)
        BY <1>0
      <3> QED BY <3>1, <3>2 DEF DeliveryOK, RowOK
    <2> HIDE DEF d
    <2>3. /\ delivery' \in [Failures -> DeliveryRecord] /\ delivery'[e] = d
          /\ \A f \in Failures : DeliveryOK(f)'
          /\ \A f \in Failures : f # e => delivery'[f] = delivery[f]
          /\ \A f \in Failures : delivery[f].state # "absent" => delivery'[f].state # "absent"
      BY <2>1, <2>2, RowWritten
    <2>4. DrainOK'
      BY <2>1, <2>2, <2>3, DrainRests
    <2>5. WatcherOK'
      <3>1. /\ watcher' \in [at : {"idle", "raises"}, since : 0..LastMinute,
                             rows : SUBSET Failures, highest : 0..LastMinute]
            /\ watcher'.at = "raises" /\ watcher'.since = watcher.since
            /\ watcher'.rows = watcher.rows \ {e}
        BY <1>0, <2>1 DEF WatcherOK
      <3>2. ASSUME NEW f \in read, EndedAt[f] >= watched
            PROVE  f \in watcher'.rows \/ delivery'[f].state # "absent"
        BY <1>0, <2>1, <2>2, <2>3, <3>1, <3>2 DEF WatcherOK
      <3> QED BY <1>0, <2>1, <2>3, <3>1, <3>2 DEF WatcherOK
    <2> QED BY <1>0, <2>1, <2>3, <2>4, <2>5 DEF AlertInv, RetryOK
  <1>16. ASSUME NEW e \in Failures, SendOnce(e) \/ SendUnreached(e) PROVE AlertInv'
    <2>1. PICK d : /\ drain' = [at |-> "records", due |-> drain.due \ {e}, key |-> e, row |-> d]
                   /\ \/ d = Sent(delivery[e]) /\ e \in received'
                      \/ \E retryable \in BOOLEAN : d = AfterFailure(delivery[e], retryable)
      <3>1. CASE SendUnreached(e)
        BY <3>1 DEF SendUnreached
      <3>2. CASE SendOnce(e)
        <4>1. PICK answer \in {"taken", "refused", "lost"} :
                /\ received' = received \cup (IF answer = "refused" THEN {} ELSE {e})
                /\ drain' = [at |-> "records", due |-> drain.due \ {e}, key |-> e,
                             row |-> CASE answer = "taken" -> Sent(delivery[e])
                                       [] answer = "refused" -> AfterFailure(delivery[e], FALSE)
                                       [] OTHER -> AfterFailure(delivery[e], TRUE)]
          BY <3>2 DEF SendOnce
        <4>2. CASE answer = "taken"
          BY <4>1, <4>2
        <4>3. CASE answer = "refused"
          BY <4>1, <4>3
        <4>4. CASE answer = "lost"
          BY <4>1, <4>4
        <4> QED BY <4>2, <4>3, <4>4
      <3> QED BY <1>16, <3>1, <3>2
    <2>2. /\ e \in drain.due /\ received' \in SUBSET Failures /\ received \subseteq received'
          /\ UNCHANGED <<minute, visible, watched, watcher, delivery, finished, retry, read,
                         outages>>
      BY <1>0, <1>16 DEF SendOnce, SendUnreached
    <2>3. RowOK(delivery[e]) /\ delivery[e].state = "queued" /\ drain.due \in SUBSET Failures
      BY <1>0, <2>2 DEF DrainOK, DeliveryOK
    <2>4. RowOK(d) /\ d.state # "absent" /\ (d.state = "completed" => e \in received')
      BY <1>0, <2>1, <2>3, SentRow
    <2>5. DrainOK'
      <3>1. /\ drain' \in [at : {"idle", "sends", "records", "remembers"}, due : SUBSET Failures,
                           key : Failures \cup {"none"}, row : DeliveryRecord]
            /\ drain'.due = drain.due \ {e} /\ drain'.key = e /\ drain'.row = d
        BY <2>1, <2>3, <2>4 DEF RowOK
      <3>2. \A f \in drain'.due : delivery'[f].state = "queued"
        BY <1>0, <2>2, <3>1 DEF DrainOK
      <3> QED BY <2>4, <3>1, <3>2 DEF DrainOK, RowOK
    <2> QED BY <1>0, <2>2, <2>5, RowsRest, WatcherRests DEF AlertInv, RetryOK
  <1>17. ASSUME NEW e \in Failures, AskAgain(e) PROVE AlertInv'
    <2>1. /\ retry' = [at |-> "forgets", key |-> e]
          /\ UNCHANGED <<minute, visible, watched, watcher, delivery, finished, drain, received,
                         read, outages>>
      BY <1>17 DEF AskAgain
    <2> QED BY <1>0, <2>1, RowsRest, WatcherRests, DrainRests DEF AlertInv, RetryOK
  <1> QED BY <1>1, <1>2, <1>3, <1>4, <1>5, <1>6, <1>7, <1>8, <1>9, <1>10, <1>11, <1>12, <1>13,
             <1>14, <1>15, <1>16, <1>17 DEF AlertNext

\* The watcher, the drain and the retry stay in step with the stored rows.
THEOREM AlertInvariant == AlertSpec => []AlertInv
  <1>1. AlertInit => AlertInv
    <2> SUFFICES ASSUME AlertInit PROVE AlertInv
      OBVIOUS
    <2>1. minute \in 0..LastMinute /\ watched \in 0..NoMark /\ outages \in 0..MaxOutages
      BY AlertConstants DEF AlertInit
    <2>2. delivery \in [Failures -> DeliveryRecord] /\ \A e \in Failures : DeliveryOK(e)
      BY AlertRecords DEF AlertInit, DeliveryOK, RowOK, Absent
    <2>3. WatcherOK
      BY AlertRecords DEF AlertInit, WatcherOK
    <2>4. DrainOK
      BY AlertRecords DEF AlertInit, DrainOK
    <2>5. RetryOK
      BY AlertRecords DEF AlertInit, RetryOK
    <2> QED BY <2>1, <2>2, <2>3, <2>4, <2>5 DEF AlertInit, AlertInv
  <1>2. AlertInv /\ [AlertNext]_alertVars => AlertInv'
    BY AlertStepKeeps
  <1> QED BY <1>1, <1>2, PTL DEF AlertSpec

\* Every variable of the alerts keeps its type; no delivery is attempted more
\* than MAX_ATTEMPTS times since it was last queued by a person.
THEOREM AlertTypeCorrect == AlertSpec => []AlertTypeOK
  <1>1. AlertInv => AlertTypeOK
    BY DEF AlertInv, AlertTypeOK, WatcherOK, DrainOK, RetryOK, DeliveryRecord
  <1> QED BY <1>1, AlertInvariant, PTL

\* execution_failures, raise and send_once, for any failures, budget and
\* backoff: a failure the cursor has passed after a pass read it has a delivery,
\* and a delivery that says completed is one the receiver took.
THEOREM NoAlertIsLost == AlertSpec => []AlertsAreKept
  <1>1. AlertInv => AlertsAreKept
    BY DEF AlertInv, AlertsAreKept, WatcherOK, DeliveryOK, Absent
  <1> QED BY <1>1, AlertInvariant, PTL

-----------------------------------------------------------------------------
(* The file under the log: numbers go up, and what was acknowledged stays  *)
(* in the index, whatever of a batch a failed write leaves in the file.    *)

Lines == LogLines \cup Torn

\* How many of the first k events of a batch belong to a stream.
NumbersTaken(batch, s, k) == Cardinality({j \in 1..k : batch[j] = s})

LEMMA NumbersTakenGrow ==
  ASSUME NEW b, NEW s, NEW i \in Nat, NEW j \in Nat, i <= j
  PROVE  /\ NumbersTaken(b, s, i) \in Nat /\ NumbersTaken(b, s, j) \in Nat
         /\ NumbersTaken(b, s, i) <= NumbersTaken(b, s, j)
         /\ i < j /\ b[j] = s => NumbersTaken(b, s, i) < NumbersTaken(b, s, j)
  <1> DEFINE In(k) == {q \in 1..k : b[q] = s}
  <1>1. In(i) \in SUBSET In(j) /\ In(i) \in SUBSET (1..i) /\ In(j) \in SUBSET (1..j)
    OBVIOUS
  <1>2. IsFiniteSet(1..i) /\ IsFiniteSet(1..j)
    BY FS_Interval
  <1>3. i < j /\ b[j] = s => j \notin In(i) /\ In(i) \cup {j} \in SUBSET In(j)
    OBVIOUS
  <1>4. NumbersTaken(b, s, i) = Cardinality(In(i)) /\ NumbersTaken(b, s, j) = Cardinality(In(j))
    BY DEF NumbersTaken
  <1> HIDE DEF In
  <1>5. IsFiniteSet(In(i)) /\ IsFiniteSet(In(j))
    BY <1>1, <1>2, FS_Subset
  <1>6. /\ Cardinality(In(i)) \in Nat /\ Cardinality(In(j)) \in Nat
        /\ Cardinality(In(i)) <= Cardinality(In(j))
    BY <1>1, <1>5, FS_Subset, FS_CardinalityType
  <1>7. ASSUME i < j, b[j] = s PROVE Cardinality(In(i)) < Cardinality(In(j))
    <2>1. Cardinality(In(i) \cup {j}) = Cardinality(In(i)) + 1
      BY <1>3, <1>5, <1>7, FS_AddElement
    <2>2. Cardinality(In(i) \cup {j}) <= Cardinality(In(j))
      BY <1>3, <1>5, <1>7, FS_Subset
    <2> QED BY <1>6, <2>1, <2>2
  <1> QED BY <1>4, <1>6, <1>7

\* The positions after the first k events of a batch.
LEMMA AdvancedBy ==
  ASSUME streamPositions \in [Streams -> Nat], NEW b, NEW k \in Nat
  PROVE  /\ Advanced(b, k) \in [Streams -> Nat]
         /\ \A s \in Streams :
              /\ Advanced(b, k)[s] = streamPositions[s] + NumbersTaken(b, s, k)
              /\ NumbersTaken(b, s, k) \in Nat /\ streamPositions[s] <= Advanced(b, k)[s]
  <1>1. ASSUME NEW s \in Streams
        PROVE  /\ Advanced(b, k)[s] = streamPositions[s] + NumbersTaken(b, s, k)
               /\ NumbersTaken(b, s, k) \in Nat
    <2>1. k <= k
      OBVIOUS
    <2>2. NumbersTaken(b, s, k) \in Nat
      BY <2>1, NumbersTakenGrow
    <2> QED BY <2>2 DEF Advanced, NumbersTaken
  <1>2. Advanced(b, k) = [s \in Streams |-> Advanced(b, k)[s]]
    BY DEF Advanced
  <1>3. \A s \in Streams : Advanced(b, k)[s] \in Nat /\ streamPositions[s] <= Advanced(b, k)[s]
    BY <1>1
  <1> QED BY <1>1, <1>2, <1>3

\* A batch is one event or two; its records carry the numbers it takes.
LEMMA BatchLines ==
  ASSUME streamPositions \in [Streams -> Nat], offsets \in Seq(Nat), NEW batch \in Sendable
  PROVE  /\ Len(batch) \in Nat /\ Numbered(batch) \in Seq(LogLines)
         /\ Len(Numbered(batch)) = Len(batch)
         /\ \A i \in 1..Len(batch) :
              /\ batch[i] \in Streams /\ Numbered(batch)[i] \in LogLines
              /\ Numbered(batch)[i].stream = batch[i]
              /\ Numbered(batch)[i].at =
                   streamPositions[batch[i]] + NumbersTaken(batch, batch[i], i)
  <1>1. Len(batch) \in Nat /\ \A i \in 1..Len(batch) : batch[i] \in Streams
    <2>1. CASE \E s \in Streams : batch = <<s>>
      BY <2>1
    <2>2. CASE \E s \in Streams, t \in Streams : batch = <<s, t>>
      BY <2>2
    <2> QED BY <2>1, <2>2 DEF Sendable
  <1> DEFINE all == Numbered(batch)
  <1>2. ASSUME NEW i \in 1..Len(batch)
        PROVE  /\ all[i] \in LogLines /\ all[i].stream = batch[i]
               /\ all[i].at = streamPositions[batch[i]] + NumbersTaken(batch, batch[i], i)
    <2>1. all[i] = [stream |-> batch[i], at |-> Advanced(batch, i)[batch[i]],
                    position |-> Len(offsets) + i]
      BY DEF Numbered
    <2>2. i \in Nat /\ Len(offsets) + i \in Nat /\ batch[i] \in Streams
      BY <1>1
    <2>3. /\ Advanced(batch, i)[batch[i]] \in Nat
          /\ Advanced(batch, i)[batch[i]] = streamPositions[batch[i]] + NumbersTaken(batch, batch[i], i)
      BY <2>2, AdvancedBy
    <2> HIDE DEF all
    <2> QED BY <2>1, <2>2, <2>3 DEF LogLines
  <1>3. all = [i \in 1..Len(batch) |-> all[i]]
    BY DEF Numbered
  <1> HIDE DEF all
  <1>4. all \in [1..Len(batch) -> LogLines]
    BY <1>2, <1>3
  <1>5. all \in Seq(LogLines) /\ Len(all) = Len(batch)
    BY <1>1, <1>4, SeqDef
  <1> QED BY <1>1, <1>2, <1>5 DEF all

\* A write that does not finish leaves records of the batch, from its first on,
\* and perhaps a piece that was cut short.
LEMMA SomeLines ==
  ASSUME streamPositions \in [Streams -> Nat], offsets \in Seq(Nat),
         NEW batch \in Sendable, WritesSome(batch)
  PROVE  \E w \in Seq(Lines) :
           /\ Len(w) \in 0..Len(batch) /\ Room(Len(w)) /\ file' = file \o w
           /\ \A i \in 1..Len(w) : w[i] \in Torn \/ w[i] = Numbered(batch)[i]
  <1> DEFINE all == Numbered(batch)
  <1>1. Len(batch) \in Nat /\ all \in Seq(Lines) /\ Len(all) = Len(batch)
    <2>1. /\ Len(batch) \in Nat /\ all \in Seq(LogLines) /\ Len(all) = Len(batch)
          /\ \A i \in 1..Len(batch) : all[i] \in Lines
      BY BatchLines DEF Lines
    <2> HIDE DEF all
    <2> QED BY <2>1
  <1>2. PICK k \in 0..Len(batch), ending \in {<<>>} \cup {<<piece>> : piece \in Torn} :
          /\ ending # <<>> => k < Len(batch)
          /\ Room(k + Len(ending)) /\ file' = file \o (SubSeq(all, 1, k) \o ending)
    BY DEF WritesSome
  <1> HIDE DEF all
  <1> DEFINE t == SubSeq(all, 1, k)
             w == t \o ending
  <1>3. t \in Seq(Lines) /\ Len(t) = k /\ k \in Nat /\ \A i \in 1..k : t[i] = all[i]
    <2>1. /\ k \in Nat /\ \A i \in 1..k : all[i] \in Lines
          /\ (IF 1 <= k THEN k - 1 + 1 ELSE 0) = k /\ k - 1 + 1 = k
          /\ \A i \in 1..k : 1 + i - 1 = i
      BY <1>1
    <2> QED BY <2>1, SubSeqProperties
  <1> HIDE DEF t
  <1>4. CASE ending = <<>>
    <2>1. w = t
      BY <1>3, <1>4
    <2>2. Len(t) \in 0..Len(batch) /\ k + Len(ending) = k
      BY <1>1, <1>3, <1>4
    <2> QED BY <1>2, <1>3, <2>1, <2>2 DEF t, all
  <1>5. CASE \E piece \in Torn : ending = <<piece>>
    <2>1. PICK piece \in Torn : ending = <<piece>>
      BY <1>5
    <2>2. piece \in Lines /\ ending # <<>> /\ Len(ending) = 1
      BY <2>1 DEF Lines
    <2>3. /\ w \in Seq(Lines) /\ Len(w) = k + 1 /\ w[k + 1] = piece
          /\ \A i \in 1..k : w[i] = t[i]
      BY <1>3, <2>1, <2>2
    <2>4. k + 1 \in 0..Len(batch) /\ \A i \in 1..(k + 1) : i = k + 1 \/ i \in 1..k
      BY <1>1, <1>2, <1>3, <2>2
    <2>5. \A i \in 1..Len(w) : w[i] \in Torn \/ w[i] = all[i]
      BY <1>3, <2>1, <2>3, <2>4
    <2>6. Room(Len(w)) /\ file' = file \o w
      BY <1>2, <2>2, <2>3 DEF t
    <2> HIDE DEF w
    <2> QED BY <2>3, <2>4, <2>5, <2>6 DEF all
  <1> QED BY <1>4, <1>5

\* Numbers go up in a file, and none is past a position of its stream.
RisesIn(f) ==
  \A i, j \in 1..Len(f) :
    i < j /\ f[i] \in LogLines /\ f[j] \in LogLines /\ f[i].stream = f[j].stream =>
      f[i].at < f[j].at
Within(f, at) ==
  \A i \in 1..Len(f) : f[i] \in LogLines => f[i].at <= at[f[i].stream]

LEMMA LineTyped ==
  \A x \in LogLines : x.stream \in Streams /\ x.at \in Nat
  BY DEF LogLines

LEMMA TornIsNoLine ==
  \A x \in Torn : x \notin LogLines
  BY DEF Torn, LogLines

\* Writing on: the new pieces keep numbers going up, and none is past those the
\* batch took.
LEMMA WritesOn ==
  ASSUME streamPositions \in [Streams -> Nat], offsets \in Seq(Nat), NEW f \in Seq(Lines),
         RisesIn(f), Within(f, streamPositions), NEW batch \in Sendable,
         NEW w \in Seq(Lines), Len(w) \in 0..Len(batch),
         \A i \in 1..Len(w) : w[i] \in Torn \/ w[i] = Numbered(batch)[i]
  PROVE  /\ f \o w \in Seq(Lines) /\ Len(f \o w) = Len(f) + Len(w)
         /\ Len(f) \in Nat /\ Len(w) \in Nat
         /\ \A i \in 1..Len(f) : (f \o w)[i] = f[i]
         /\ \A i \in 1..Len(w) : (f \o w)[Len(f) + i] = w[i]
         /\ RisesIn(f \o w) /\ Within(f \o w, Advanced(batch, Len(batch)))
  <1> DEFINE u == f \o w
  <1>1. /\ u \in Seq(Lines) /\ Len(u) = Len(f) + Len(w) /\ Len(f) \in Nat /\ Len(w) \in Nat
        /\ \A i \in 1..Len(f) : u[i] = f[i]
        /\ \A i \in 1..Len(w) : u[Len(f) + i] = w[i]
    BY Concatenated
  <1> HIDE DEF u
  <1>2. ASSUME NEW p \in 1..Len(u), p \notin 1..Len(f), u[p] \in LogLines
        PROVE  \E i \in 1..Len(w) :
                 /\ p = Len(f) + i /\ i \in Nat /\ i <= Len(batch) /\ Len(batch) \in Nat
                 /\ u[p].stream = batch[i] /\ batch[i] \in Streams
                 /\ streamPositions[batch[i]] \in Nat
                 /\ NumbersTaken(batch, batch[i], i) \in Nat
                 /\ u[p].at = streamPositions[batch[i]] + NumbersTaken(batch, batch[i], i)
    <2> DEFINE i == p - Len(f)
    <2>1. i \in 1..Len(w) /\ p = Len(f) + i /\ i \in Nat
      BY <1>1, <1>2
    <2> HIDE DEF i
    <2>2. u[p] = Numbered(batch)[i]
      BY <1>1, <1>2, <2>1, TornIsNoLine
    <2>3. Len(batch) \in Nat /\ i \in 1..Len(batch)
      BY <2>1, <1>1, BatchLines
    <2>4. /\ u[p].stream = batch[i] /\ batch[i] \in Streams
          /\ u[p].at = streamPositions[batch[i]] + NumbersTaken(batch, batch[i], i)
      BY <2>2, <2>3, BatchLines
    <2>5. NumbersTaken(batch, batch[i], i) \in Nat
      BY <2>1, NumbersTakenGrow
    <2> QED BY <2>1, <2>3, <2>4, <2>5
  <1>3. ASSUME NEW i \in 1..Len(u), NEW j \in 1..Len(u), i < j, u[i] \in LogLines,
               u[j] \in LogLines, u[i].stream = u[j].stream
        PROVE  u[i].at < u[j].at
    <2>1. CASE j \in 1..Len(f)
      <3>1. i \in 1..Len(f) /\ u[i] = f[i] /\ u[j] = f[j]
        BY <1>1, <1>3, <2>1
      <3> QED BY <1>3, <2>1, <3>1 DEF RisesIn
    <2>2. CASE j \notin 1..Len(f)
      <3>1. PICK y \in 1..Len(w) :
              /\ j = Len(f) + y /\ y \in Nat /\ u[j].stream = batch[y] /\ batch[y] \in Streams
              /\ streamPositions[batch[y]] \in Nat /\ NumbersTaken(batch, batch[y], y) \in Nat
              /\ u[j].at = streamPositions[batch[y]] + NumbersTaken(batch, batch[y], y)
        BY <1>2, <1>3, <2>2
      <3>2. NumbersTaken(batch, batch[y], 0) \in Nat
            /\ NumbersTaken(batch, batch[y], 0) < NumbersTaken(batch, batch[y], y)
        <4>1. 0 \in Nat /\ 0 <= y /\ 0 < y
          BY <3>1
        <4> QED BY <3>1, <4>1, NumbersTakenGrow
      <3>3. CASE i \in 1..Len(f)
        <4>1. u[i] = f[i] /\ f[i].at \in Nat /\ f[i].at <= streamPositions[batch[y]]
          BY <1>1, <1>3, <3>1, <3>3, LineTyped DEF Within
        <4> DEFINE at == f[i].at
                   from == streamPositions[batch[y]]
                   taken == NumbersTaken(batch, batch[y], y)
        <4>2. at \in Nat /\ from \in Nat /\ taken \in Nat /\ at <= from /\ taken > 0
          BY <3>1, <3>2, <4>1
        <4>3. u[j].at = from + taken /\ u[i].at = at
          BY <3>1, <4>1
        <4> HIDE DEF at, from, taken
        <4> QED BY <4>2, <4>3
      <3>4. CASE i \notin 1..Len(f)
        <4>1. PICK x \in 1..Len(w) :
                /\ i = Len(f) + x /\ x \in Nat /\ u[i].stream = batch[x]
                /\ streamPositions[batch[x]] \in Nat /\ NumbersTaken(batch, batch[x], x) \in Nat
                /\ u[i].at = streamPositions[batch[x]] + NumbersTaken(batch, batch[x], x)
          BY <1>2, <1>3, <3>4
        <4>2. x < y /\ x <= y /\ batch[x] = batch[y]
          BY <1>1, <1>3, <3>1, <4>1
        <4> DEFINE s == batch[y]
        <4>3. NumbersTaken(batch, s, x) < NumbersTaken(batch, s, y)
          BY <3>1, <4>1, <4>2, NumbersTakenGrow
        <4>4. /\ u[i].at = streamPositions[s] + NumbersTaken(batch, s, x)
              /\ u[j].at = streamPositions[s] + NumbersTaken(batch, s, y)
              /\ streamPositions[s] \in Nat
              /\ NumbersTaken(batch, s, x) \in Nat /\ NumbersTaken(batch, s, y) \in Nat
          BY <3>1, <4>1, <4>2
        <4> HIDE DEF s
        <4> QED BY <4>3, <4>4
      <3> QED BY <3>3, <3>4
    <2> QED BY <2>1, <2>2
  <1>4. ASSUME NEW p \in 1..Len(u), u[p] \in LogLines
        PROVE  u[p].at <= Advanced(batch, Len(batch))[u[p].stream]
    <2>0. Len(batch) \in Nat
      BY BatchLines
    <2>1. CASE p \in 1..Len(f)
      <3> DEFINE s == f[p].stream
      <3>1. u[p] = f[p] /\ s \in Streams /\ f[p].at \in Nat /\ f[p].at <= streamPositions[s]
        BY <1>1, <1>4, <2>1, LineTyped DEF Within
      <3> HIDE DEF s
      <3>2. /\ streamPositions[s] \in Nat /\ Advanced(batch, Len(batch))[s] \in Nat
            /\ streamPositions[s] <= Advanced(batch, Len(batch))[s]
        BY <2>0, <3>1, AdvancedBy
      <3> QED BY <3>1, <3>2 DEF s
    <2>2. CASE p \notin 1..Len(f)
      <3>1. PICK y \in 1..Len(w) :
              /\ y \in Nat /\ y <= Len(batch) /\ u[p].stream = batch[y] /\ batch[y] \in Streams
              /\ streamPositions[batch[y]] \in Nat /\ NumbersTaken(batch, batch[y], y) \in Nat
              /\ u[p].at = streamPositions[batch[y]] + NumbersTaken(batch, batch[y], y)
        BY <1>2, <1>4, <2>2
      <3> DEFINE s == batch[y]
      <3>2. NumbersTaken(batch, s, y) <= NumbersTaken(batch, s, Len(batch))
            /\ NumbersTaken(batch, s, Len(batch)) \in Nat
        BY <2>0, <3>1, NumbersTakenGrow
      <3>3. Advanced(batch, Len(batch))[s] = streamPositions[s] + NumbersTaken(batch, s, Len(batch))
        BY <2>0, <3>1, AdvancedBy
      <3>4. /\ u[p].stream = s /\ u[p].at = streamPositions[s] + NumbersTaken(batch, s, y)
            /\ streamPositions[s] \in Nat /\ NumbersTaken(batch, s, y) \in Nat
        BY <3>1
      <3> HIDE DEF s
      <3> QED BY <3>2, <3>3, <3>4
    <2> QED BY <2>1, <2>2
  <1>5. RisesIn(u) /\ Within(u, Advanced(batch, Len(batch)))
    BY <1>3, <1>4 DEF RisesIn, Within
  <1> QED BY <1>1, <1>5 DEF u

\* The offsets are those of records, in order, and every acknowledged one is there.
Indexed(index, f, acked) ==
  /\ \A i, j \in 1..Len(index) : i < j => index[i] < index[j]
  /\ \A i \in 1..Len(index) : index[i] \in 1..Len(f) /\ f[index[i]] \in LogLines
  /\ \A o \in acked : \E i \in 1..Len(index) : index[i] = o

WalInv ==
  /\ WalTypeOK /\ RisesIn(file)
  /\ \A o \in acknowledged : o \in 1..Len(file) /\ file[o] \in LogLines
  /\ status = "open" => Within(file, streamPositions) /\ Indexed(offsets, file, acknowledged)

\* What the invariant says after a step, part by part.
LEMMA WalPrimed ==
  ASSUME file' \in Seq(Lines), Len(file') <= MaxPieces, offsets' \in Seq(Nat),
         acknowledged' \subseteq Nat, streamPositions' \in [Streams -> Nat],
         status' \in {"open", "down", "refused"}, spoiled' \in BOOLEAN, faults' \in 0..MaxFaults,
         RisesIn(file'),
         \A o \in acknowledged' : o \in 1..Len(file') /\ file'[o] \in LogLines,
         status' = "open" =>
           Within(file', streamPositions') /\ Indexed(offsets', file', acknowledged')
  PROVE  WalInv'
  BY DEF WalInv, WalTypeOK, Lines, RisesIn, Within, Indexed

\* A failed append keeps the numbers it took, which are only further up.
LEMMA WithinLater ==
  ASSUME streamPositions \in [Streams -> Nat], NEW f, Within(f, streamPositions),
         NEW b, NEW k \in Nat
  PROVE  Within(f, Advanced(b, k))
  <1> SUFFICES ASSUME NEW i \in 1..Len(f), f[i] \in LogLines
               PROVE  f[i].at <= Advanced(b, k)[f[i].stream]
    BY DEF Within
  <1> DEFINE s == f[i].stream
  <1>1. s \in Streams /\ f[i].at \in Nat /\ f[i].at <= streamPositions[s]
    BY LineTyped DEF Within
  <1> HIDE DEF s
  <1>2. /\ streamPositions[s] \in Nat /\ Advanced(b, k)[s] \in Nat
        /\ streamPositions[s] <= Advanced(b, k)[s]
    BY <1>1, AdvancedBy
  <1> QED BY <1>1, <1>2 DEF s

\* The index of a file is one of the file with more behind it.
LEMMA IndexedLonger ==
  ASSUME NEW index, NEW f, NEW g, NEW acked, Indexed(index, f, acked),
         Len(f) \in Nat, Len(g) \in Nat, Len(f) <= Len(g), \A i \in 1..Len(f) : g[i] = f[i]
  PROVE  Indexed(index, g, acked)
  BY DEF Indexed

LEMMA AppendLinesKeeps ==
  ASSUME WalInv, NEW batch \in Sendable, AppendLines(batch)
  PROVE  WalInv'
  <1> DEFINE w == Numbered(batch)
             more == [i \in 1..Len(batch) |-> Len(file) + i]
  <1>1. /\ streamPositions \in [Streams -> Nat] /\ offsets \in Seq(Nat) /\ file \in Seq(Lines)
        /\ RisesIn(file) /\ Within(file, streamPositions) /\ acknowledged \subseteq Nat
        /\ Indexed(offsets, file, acknowledged) /\ spoiled \in BOOLEAN /\ faults \in 0..MaxFaults
        /\ \A o \in acknowledged : o \in 1..Len(file) /\ file[o] \in LogLines
    BY DEF WalInv, WalTypeOK, Lines, AppendLines
  <1>2. /\ file' = file \o w /\ offsets' = offsets \o more
        /\ streamPositions' = Advanced(batch, Len(batch))
        /\ acknowledged' = acknowledged \cup {Len(file) + i : i \in 1..Len(batch)}
        /\ Len(file) + Len(batch) <= MaxPieces /\ status' = "open"
        /\ UNCHANGED <<spoiled, faults>>
    BY DEF AppendLines, Room
  <1>3. /\ Len(batch) \in Nat /\ w \in Seq(LogLines) /\ Len(w) = Len(batch)
        /\ \A i \in 1..Len(batch) : w[i] \in LogLines
    BY <1>1, BatchLines
  <1>4. w \in Seq(Lines)
    <2> HIDE DEF w
    <2>1. \A i \in 1..Len(batch) : w[i] \in Lines
      BY <1>3 DEF Lines
    <2> QED BY <1>3, <2>1
  <1>5. /\ file' \in Seq(Lines) /\ Len(file') = Len(file) + Len(batch) /\ Len(file) \in Nat
        /\ \A i \in 1..Len(file) : file'[i] = file[i]
        /\ \A i \in 1..Len(batch) : file'[Len(file) + i] = w[i]
        /\ RisesIn(file') /\ Within(file', streamPositions')
    <2>1. Len(w) \in 0..Len(batch)
      BY <1>3
    <2>2. \A i \in 1..Len(w) : w[i] \in Torn \/ w[i] = Numbered(batch)[i]
      OBVIOUS
    <2> HIDE DEF w
    <2>3. /\ file \o w \in Seq(Lines) /\ Len(file \o w) = Len(file) + Len(w)
          /\ Len(file) \in Nat /\ Len(w) \in Nat
          /\ \A i \in 1..Len(file) : (file \o w)[i] = file[i]
          /\ \A i \in 1..Len(w) : (file \o w)[Len(file) + i] = w[i]
          /\ RisesIn(file \o w) /\ Within(file \o w, Advanced(batch, Len(batch)))
      BY <1>1, <1>4, <2>1, <2>2, WritesOn
    <2> QED BY <1>2, <1>3, <2>3
  <1> HIDE DEF w
  <1>6. /\ more \in Seq(Nat) /\ Len(more) = Len(batch)
        /\ \A i \in 1..Len(batch) : more[i] = Len(file) + i
    <2>1. more \in [1..Len(batch) -> Nat]
      BY <1>5
    <2> QED BY <1>3, <2>1, SeqDef
  <1> HIDE DEF more
  <1>7. /\ offsets' \in Seq(Nat) /\ Len(offsets') = Len(offsets) + Len(batch)
        /\ Len(offsets) \in Nat
        /\ \A i \in 1..Len(offsets) : offsets'[i] = offsets[i]
        /\ \A i \in 1..Len(batch) : offsets'[Len(offsets) + i] = Len(file) + i
    <2>1. /\ offsets \o more \in Seq(Nat) /\ Len(offsets \o more) = Len(offsets) + Len(more)
          /\ Len(offsets) \in Nat
          /\ \A i \in 1..Len(offsets) : (offsets \o more)[i] = offsets[i]
          /\ \A i \in 1..Len(more) : (offsets \o more)[Len(offsets) + i] = more[i]
      <3>1. offsets \in Seq(Nat) /\ more \in Seq(Nat)
        BY <1>1, <1>6
      <3> QED BY <3>1, Concatenated
    <2> QED BY <1>2, <1>6, <2>1
  <1>8. ASSUME NEW i \in 1..Len(batch)
        PROVE  Len(file) + i \in 1..Len(file') /\ file'[Len(file) + i] \in LogLines
    BY <1>3, <1>5
  <1>8b. 1..Len(file) \subseteq 1..Len(file') /\ 1..Len(file) \subseteq Nat
    BY <1>3, <1>5
  <1>9. \A o \in acknowledged' : o \in 1..Len(file') /\ file'[o] \in LogLines
    <2>1. ASSUME NEW o \in acknowledged PROVE o \in 1..Len(file') /\ file'[o] \in LogLines
      <3>1. o \in 1..Len(file) /\ file[o] \in LogLines
        BY <1>1, <2>1
      <3> QED BY <1>5, <1>8b, <3>1
    <2> QED BY <1>2, <1>8, <2>1
  <1>10. acknowledged' \subseteq Nat
    <2>1. \A i \in 1..Len(batch) : Len(file) + i \in Nat
      BY <1>3, <1>5
    <2> QED BY <1>1, <1>2, <2>1
  <1>11. ASSUME NEW i \in 1..Len(offsets'), i \notin 1..Len(offsets)
         PROVE  \E j \in 1..Len(batch) :
                  i = Len(offsets) + j /\ offsets'[i] = Len(file) + j
    <2>1. i - Len(offsets) \in 1..Len(batch) /\ i = Len(offsets) + (i - Len(offsets))
      BY <1>3, <1>7, <1>11
    <2> QED BY <1>7, <2>1
  <1>12. ASSUME NEW i \in 1..Len(offsets)
         PROVE  offsets'[i] = offsets[i] /\ offsets[i] \in 1..Len(file) /\ file[offsets[i]] \in LogLines
    BY <1>1, <1>7 DEF Indexed
  <1>13. Indexed(offsets', file', acknowledged')
    <2>1. ASSUME NEW i \in 1..Len(offsets'), NEW j \in 1..Len(offsets'), i < j
          PROVE  offsets'[i] < offsets'[j]
      <3>1. CASE j \in 1..Len(offsets)
        <4>1. i \in 1..Len(offsets)
          BY <1>7, <2>1, <3>1
        <4> QED BY <1>1, <1>12, <2>1, <3>1, <4>1 DEF Indexed
      <3>2. CASE j \notin 1..Len(offsets)
        <4>1. PICK y \in 1..Len(batch) : j = Len(offsets) + y /\ offsets'[j] = Len(file) + y
          BY <1>11, <3>2
        <4>2. CASE i \in 1..Len(offsets)
          <5>1. offsets'[i] \in 1..Len(file) /\ y > 0 /\ y \in Nat
            BY <1>3, <1>12, <4>2
          <5> QED BY <1>5, <4>1, <5>1
        <4>3. CASE i \notin 1..Len(offsets)
          <5>1. PICK x \in 1..Len(batch) : i = Len(offsets) + x /\ offsets'[i] = Len(file) + x
            BY <1>11, <4>3
          <5> QED BY <1>3, <1>5, <1>7, <2>1, <4>1, <5>1
        <4> QED BY <4>2, <4>3
      <3> QED BY <3>1, <3>2
    <2>2. ASSUME NEW i \in 1..Len(offsets')
          PROVE  offsets'[i] \in 1..Len(file') /\ file'[offsets'[i]] \in LogLines
      <3>1. CASE i \in 1..Len(offsets)
        BY <1>5, <1>8b, <1>12, <3>1
      <3>2. CASE i \notin 1..Len(offsets)
        <4>1. PICK y \in 1..Len(batch) : offsets'[i] = Len(file) + y
          BY <1>11, <3>2
        <4> QED BY <1>8, <4>1
      <3> QED BY <3>1, <3>2
    <2>3. ASSUME NEW o \in acknowledged' PROVE \E i \in 1..Len(offsets') : offsets'[i] = o
      <3>1. CASE o \in acknowledged
        <4>1. PICK i \in 1..Len(offsets) : offsets[i] = o
          BY <1>1, <3>1 DEF Indexed
        <4>2. i \in 1..Len(offsets') /\ offsets'[i] = o
          BY <1>3, <1>7, <4>1
        <4> QED BY <4>2
      <3>2. CASE o \in {Len(file) + i : i \in 1..Len(batch)}
        <4>1. PICK j \in 1..Len(batch) : o = Len(file) + j
          BY <3>2
        <4>2. Len(offsets) + j \in 1..Len(offsets') /\ offsets'[Len(offsets) + j] = o
          BY <1>3, <1>7, <4>1
        <4> QED BY <4>2
      <3> QED BY <1>2, <3>1, <3>2
    <2> QED BY <2>1, <2>2, <2>3 DEF Indexed
  <1>14. /\ Len(file') <= MaxPieces /\ streamPositions' \in [Streams -> Nat]
         /\ spoiled' \in BOOLEAN /\ faults' \in 0..MaxFaults
    BY <1>1, <1>2, <1>3, <1>5, AdvancedBy
  <1> QED BY <1>2, <1>5, <1>7, <1>9, <1>10, <1>13, <1>14, WalPrimed

LEMMA AppendRefusedKeeps ==
  ASSUME WalInv, NEW batch \in Sendable, AppendRefused(batch)
  PROVE  WalInv'
  <1>1. /\ streamPositions \in [Streams -> Nat] /\ offsets \in Seq(Nat) /\ file \in Seq(Lines)
        /\ RisesIn(file) /\ Within(file, streamPositions) /\ acknowledged \subseteq Nat
        /\ Indexed(offsets, file, acknowledged) /\ faults \in 0..MaxFaults
        /\ \A o \in acknowledged : o \in 1..Len(file) /\ file[o] \in LogLines
        /\ Len(file) <= MaxPieces /\ status = "open"
    BY DEF WalInv, WalTypeOK, Lines, AppendRefused
  <1>2. PICK k \in 0..(Len(batch) - 1) : streamPositions' = Advanced(batch, k)
    BY DEF AppendRefused
  <1>3. k \in Nat
    BY <1>2
  <1>4. /\ UNCHANGED <<file, offsets, status, acknowledged>> /\ spoiled' \in BOOLEAN
        /\ faults' \in 0..MaxFaults
    BY <1>1, WalFileAssumption DEF AppendRefused, Fault
  <1>5. streamPositions' \in [Streams -> Nat] /\ Within(file', streamPositions')
    BY <1>1, <1>2, <1>3, <1>4, AdvancedBy, WithinLater
  <1> QED BY <1>1, <1>4, <1>5, WalPrimed

\* What a write that does not finish leaves is a file that could be written on.
LEMMA SomeLinesKeep ==
  ASSUME WalInv, status = "open", NEW batch \in Sendable, WritesSome(batch)
  PROVE  /\ file' \in Seq(Lines) /\ Len(file') <= MaxPieces /\ RisesIn(file')
         /\ Within(file', Advanced(batch, Len(batch))) /\ Len(batch) \in Nat
         /\ Len(file) \in Nat /\ Len(file') \in Nat /\ Len(file) <= Len(file')
         /\ \A i \in 1..Len(file) : file'[i] = file[i]
  <1>1. /\ streamPositions \in [Streams -> Nat] /\ offsets \in Seq(Nat) /\ file \in Seq(Lines)
        /\ RisesIn(file) /\ Within(file, streamPositions)
    BY DEF WalInv, WalTypeOK, Lines
  <1>2. PICK w \in Seq(Lines) :
          /\ Len(w) \in 0..Len(batch) /\ Room(Len(w)) /\ file' = file \o w
          /\ \A i \in 1..Len(w) : w[i] \in Torn \/ w[i] = Numbered(batch)[i]
    BY <1>1, SomeLines
  <1>3. /\ file \o w \in Seq(Lines) /\ Len(file \o w) = Len(file) + Len(w)
        /\ Len(file) \in Nat /\ Len(w) \in Nat
        /\ \A i \in 1..Len(file) : (file \o w)[i] = file[i]
        /\ RisesIn(file \o w) /\ Within(file \o w, Advanced(batch, Len(batch)))
    BY <1>1, <1>2, WritesOn
  <1>4. Len(batch) \in Nat
    BY <1>1, BatchLines
  <1>5. Len(file') <= MaxPieces /\ Len(file') \in Nat /\ Len(file) <= Len(file')
    BY <1>2, <1>3 DEF Room
  <1> QED BY <1>2, <1>3, <1>4, <1>5

LEMMA AppendBreaksKeeps ==
  ASSUME WalInv, NEW batch \in Sendable, AppendBreaks(batch)
  PROVE  WalInv'
  <1>1. /\ streamPositions \in [Streams -> Nat] /\ offsets \in Seq(Nat)
        /\ acknowledged \subseteq Nat
        /\ Indexed(offsets, file, acknowledged) /\ faults \in 0..MaxFaults
        /\ \A o \in acknowledged : o \in 1..Len(file) /\ file[o] \in LogLines
        /\ status = "open" /\ WritesSome(batch)
    BY DEF WalInv, WalTypeOK, AppendBreaks
  <1>2. /\ file' \in Seq(Lines) /\ Len(file') <= MaxPieces /\ RisesIn(file')
        /\ Within(file', Advanced(batch, Len(batch))) /\ Len(batch) \in Nat
        /\ Len(file) \in Nat /\ Len(file') \in Nat /\ Len(file) <= Len(file')
        /\ \A i \in 1..Len(file) : file'[i] = file[i]
    BY <1>1, SomeLinesKeep
  <1>3. /\ UNCHANGED <<offsets, status, acknowledged>> /\ spoiled' \in BOOLEAN
        /\ streamPositions' = Advanced(batch, Len(batch)) /\ faults' \in 0..MaxFaults
    BY <1>1, WalFileAssumption DEF AppendBreaks, Fault
  <1>4. streamPositions' \in [Streams -> Nat]
    BY <1>1, <1>2, <1>3, AdvancedBy
  <1>5. Indexed(offsets', file', acknowledged')
    BY <1>1, <1>2, <1>3, IndexedLonger
  <1>6. \A o \in acknowledged' : o \in 1..Len(file') /\ file'[o] \in LogLines
    <2>1. \A o \in 1..Len(file) : o \in 1..Len(file')
      BY <1>2
    <2> QED BY <1>1, <1>2, <1>3, <2>1
  <1> QED BY <1>1, <1>2, <1>3, <1>4, <1>5, <1>6, WalPrimed

LEMMA CrashWalKeeps ==
  ASSUME WalInv, CrashWal
  PROVE  WalInv'
  <1>1. /\ streamPositions \in [Streams -> Nat] /\ offsets \in Seq(Nat) /\ file \in Seq(Lines)
        /\ acknowledged \subseteq Nat /\ faults \in 0..MaxFaults /\ spoiled \in BOOLEAN
        /\ \A o \in acknowledged : o \in 1..Len(file) /\ file[o] \in LogLines
        /\ Len(file) <= MaxPieces /\ RisesIn(file)
    BY DEF WalInv, WalTypeOK, Lines
  <1>2. /\ UNCHANGED <<offsets, streamPositions, acknowledged, spoiled>> /\ status' = "down"
        /\ status = "open" /\ faults' \in 0..MaxFaults
    BY <1>1, WalFileAssumption DEF CrashWal, Fault
  <1>3. CASE UNCHANGED file
    BY <1>1, <1>2, <1>3, WalPrimed
  <1>4. CASE \E batch \in Sendable : WritesSome(batch)
    <2>1. PICK batch \in Sendable : WritesSome(batch)
      BY <1>4
    <2>2. /\ file' \in Seq(Lines) /\ Len(file') <= MaxPieces /\ RisesIn(file')
          /\ Len(file) \in Nat /\ Len(file') \in Nat /\ Len(file) <= Len(file')
          /\ \A i \in 1..Len(file) : file'[i] = file[i]
      BY <1>2, <2>1, SomeLinesKeep
    <2>3. \A o \in acknowledged' : o \in 1..Len(file') /\ file'[o] \in LogLines
      <3>1. \A o \in 1..Len(file) : o \in 1..Len(file')
        BY <2>2
      <3> QED BY <1>1, <1>2, <2>2, <3>1
    <2> QED BY <1>1, <1>2, <2>2, <2>3, WalPrimed
  <1> QED BY <1>3, <1>4 DEF CrashWal

\* In a file of records whose numbers go up, the last number of a stream is the
\* highest: scan starts the writer's counts at or above every number it read.
LEMMA LastNumberIsHighest ==
  ASSUME NEW f \in Seq(Lines), RisesIn(f), \A i \in 1..Len(f) : f[i] \in LogLines,
         NEW s \in Streams
  PROVE  /\ LastNumber(f, s) \in Nat
         /\ \A i \in 1..Len(f) : f[i].stream = s => f[i].at <= LastNumber(f, s)
  <1> DEFINE of == {i \in 1..Len(f) : f[i].stream = s}
  <1>0. Len(f) \in Nat
    OBVIOUS
  <1>1. CASE of = {}
    BY <1>1 DEF LastNumber
  <1>2. CASE of # {}
    <2>1. \E m \in of : \A j \in of : j <= m
      <3>1. of \in SUBSET Nat /\ \A y \in of : y <= Len(f)
        BY <1>0
      <3> HIDE DEF of
      <3>2. Max(of) \in of /\ \A y \in of : y <= Max(of)
        BY <1>0, <1>2, <3>1, MaxOfBounded
      <3> QED BY <3>2
    <2> DEFINE last == CHOOSE i \in of : \A j \in of : j <= i
    <2>2. last \in of /\ \A j \in of : j <= last
      BY <2>1
    <2>3. LastNumber(f, s) = f[last].at
      BY <1>2 DEF LastNumber
    <2> HIDE DEF last
    <2>4. f[last].at \in Nat /\ f[last].stream = s /\ last \in 1..Len(f)
      BY <2>2, LineTyped
    <2>5. ASSUME NEW i \in 1..Len(f), f[i].stream = s PROVE f[i].at <= f[last].at
      <3>1. i \in of /\ i <= last
        BY <2>2, <2>5
      <3>2. CASE i = last
        BY <2>4, <3>2
      <3>3. CASE i < last
        <4>1. f[i].at < f[last].at /\ f[i].at \in Nat
          BY <2>4, <2>5, <3>3, LineTyped DEF RisesIn
        <4> QED BY <2>4, <4>1
      <3> QED BY <1>0, <2>4, <3>1, <3>2, <3>3
    <2> QED BY <2>3, <2>4, <2>5
  <1> QED BY <1>1, <1>2

LEMMA OpenWalKeeps ==
  ASSUME WalInv, OpenWal
  PROVE  WalInv'
  <1>1. /\ file \in Seq(Lines) /\ acknowledged \subseteq Nat /\ faults \in 0..MaxFaults
        /\ spoiled \in BOOLEAN /\ Len(file) <= MaxPieces /\ RisesIn(file) /\ Len(file) \in Nat
        /\ \A o \in acknowledged : o \in 1..Len(file) /\ file[o] \in LogLines
    BY DEF WalInv, WalTypeOK, Lines
  <1>2. PICK n \in 0..Len(file) :
          /\ ParsesUpTo(n) /\ file' = SubSeq(file, 1, n) /\ offsets' = [i \in 1..n |-> i]
          /\ streamPositions' = [s \in Streams |-> LastNumber(file', s)]
    BY DEF OpenWal
  <1>3. UNCHANGED <<acknowledged, spoiled, faults>> /\ status' = "open"
    BY DEF OpenWal
  <1>4. /\ \A i \in 1..n : file[i] \in LogLines
        /\ \A i \in (n + 1)..Len(file) : file[i] \notin LogLines
    <2>1. [cut |-> "between"] \notin LogLines
      BY DEF LogLines
    <2> QED BY <1>2, <2>1 DEF ParsesUpTo, IsRecord
  <1>5. /\ file' \in Seq(Lines) /\ Len(file') = n /\ n \in Nat
        /\ \A i \in 1..n : file'[i] = file[i]
    <2>1. /\ n \in Nat /\ \A i \in 1..n : file[i] \in Lines
          /\ (IF 1 <= n THEN n - 1 + 1 ELSE 0) = n /\ \A i \in 1..n : 1 + i - 1 = i
      BY <1>1, <1>2
    <2> QED BY <1>2, <2>1, SubSeqProperties
  <1>6. \A i \in 1..Len(file') : file'[i] \in LogLines
    BY <1>4, <1>5
  <1>7. RisesIn(file')
    <2>1. \A i \in 1..n : i \in 1..Len(file)
      BY <1>1, <1>2
    <2> QED BY <1>1, <1>5, <2>1 DEF RisesIn
  <1>8. /\ streamPositions' \in [Streams -> Nat] /\ Within(file', streamPositions')
    <2>1. \A s \in Streams :
            /\ LastNumber(file', s) \in Nat
            /\ \A i \in 1..Len(file') : file'[i].stream = s => file'[i].at <= LastNumber(file', s)
      BY <1>5, <1>6, <1>7, LastNumberIsHighest
    <2>2. \A i \in 1..Len(file') : file'[i].stream \in Streams
      BY <1>6, LineTyped
    <2>3. \A s \in Streams : streamPositions'[s] = LastNumber(file', s)
      BY <1>2
    <2>4. streamPositions' \in [Streams -> Nat]
      BY <1>2, <2>1
    <2>5. Within(file', streamPositions')
      BY <2>1, <2>2, <2>3 DEF Within
    <2> QED BY <2>4, <2>5
  <1>9. \A o \in acknowledged' : o \in 1..Len(file') /\ file'[o] \in LogLines
    <2>1. ASSUME NEW o \in acknowledged PROVE o \in 1..n
      BY <1>1, <1>2, <1>4, <1>5
    <2> QED BY <1>3, <1>5, <1>6, <2>1
  <1>10. /\ offsets' \in Seq(Nat) /\ Len(offsets') = n
         /\ \A i \in 1..n : offsets'[i] = i
    <2>1. offsets' \in [1..n -> Nat] /\ \A i \in 1..n : offsets'[i] = i
      BY <1>2
    <2> QED BY <1>5, <2>1, SeqDef
  <1>11. Indexed(offsets', file', acknowledged')
    <2>1. \A i, j \in 1..Len(offsets') : i < j => offsets'[i] < offsets'[j]
      BY <1>10
    <2>2. \A i \in 1..Len(offsets') :
            offsets'[i] \in 1..Len(file') /\ file'[offsets'[i]] \in LogLines
      BY <1>5, <1>6, <1>10
    <2>3. \A o \in acknowledged' : \E i \in 1..Len(offsets') : offsets'[i] = o
      BY <1>5, <1>9, <1>10
    <2> QED BY <2>1, <2>2, <2>3 DEF Indexed
  <1>12. acknowledged' \subseteq Nat /\ Len(file') <= MaxPieces
         /\ spoiled' \in BOOLEAN /\ faults' \in 0..MaxFaults
    <2>1. Len(file') <= MaxPieces
      BY <1>1, <1>2, <1>5, WalFileAssumption
    <2> QED BY <1>1, <1>3, <2>1
  <1> QED BY <1>3, <1>5, <1>7, <1>8, <1>9, <1>10, <1>11, <1>12, WalPrimed

LEMMA WalStays ==
  ASSUME WalInv, UNCHANGED <<file, offsets, streamPositions, acknowledged, spoiled, faults>>,
         status' = "refused" \/ status' = status
  PROVE  WalInv'
  <1>1. /\ file' \in Seq(Lines) /\ Len(file') <= MaxPieces /\ offsets' \in Seq(Nat)
        /\ acknowledged' \subseteq Nat /\ streamPositions' \in [Streams -> Nat]
        /\ status' \in {"open", "down", "refused"} /\ spoiled' \in BOOLEAN
        /\ faults' \in 0..MaxFaults /\ RisesIn(file')
        /\ \A o \in acknowledged' : o \in 1..Len(file') /\ file'[o] \in LogLines
    BY DEF WalInv, WalTypeOK, Lines
  <1>2. status' = "open" =>
          Within(file', streamPositions') /\ Indexed(offsets', file', acknowledged')
    BY DEF WalInv
  <1> QED BY <1>1, <1>2, WalPrimed

LEMMA WalStepKeeps ==
  ASSUME WalInv, [WalNext]_walVars
  PROVE  WalInv'
  <1>1. CASE UNCHANGED walVars
    BY <1>1, WalStays DEF walVars
  <1>2. ASSUME NEW batch \in Sendable, AppendLines(batch) PROVE WalInv'
    BY <1>2, AppendLinesKeeps
  <1>3. ASSUME NEW batch \in Sendable, AppendRefused(batch) PROVE WalInv'
    BY <1>3, AppendRefusedKeeps
  <1>4. ASSUME NEW batch \in Sendable, AppendBreaks(batch) PROVE WalInv'
    BY <1>4, AppendBreaksKeeps
  <1>5. CASE CrashWal
    BY <1>5, CrashWalKeeps
  <1>6. CASE OpenWal
    BY <1>6, OpenWalKeeps
  <1>7. CASE OpenRefused
    BY <1>7, WalStays DEF OpenRefused
  <1> QED BY <1>1, <1>2, <1>3, <1>4, <1>5, <1>6, <1>7 DEF WalNext

LEMMA WalInitHolds ==
  ASSUME WalInit
  PROVE  WalInv
  <1>1. file = <<>> /\ offsets = <<>> /\ Len(file) = 0 /\ Len(offsets) = 0
    BY DEF WalInit
  <1>2. WalTypeOK
    <2>1. file \in Seq(LogLines \cup Torn) /\ offsets \in Seq(Nat) /\ 0 \in 0..MaxFaults
          /\ Len(file) <= MaxPieces
      BY <1>1, WalFileAssumption
    <2>2. /\ streamPositions \in [Streams -> Nat] /\ acknowledged \subseteq Nat
          /\ status = "open" /\ spoiled \in BOOLEAN /\ faults = 0
      BY DEF WalInit
    <2> QED BY <2>1, <2>2 DEF WalTypeOK
  <1>3. RisesIn(file) /\ Within(file, streamPositions) /\ Indexed(offsets, file, acknowledged)
    BY <1>1 DEF RisesIn, Within, Indexed, WalInit
  <1> QED BY <1>2, <1>3 DEF WalInv, WalInit

THEOREM WalInvariant == WalSpec => []WalInv
  <1>1. WalInit => WalInv
    BY WalInitHolds
  <1>2. WalInv /\ [WalNext]_walVars => WalInv'
    BY WalStepKeeps
  <1> QED BY <1>1, <1>2, PTL DEF WalSpec

\* The file, the index and the counts keep their types (FileWal of wal.rs).
THEOREM WalTypeCorrect == WalSpec => []WalTypeOK
  <1>1. WalInv => WalTypeOK
    BY DEF WalInv
  <1> QED BY <1>1, WalInvariant, PTL

\* For any streams, any batches and any failed appends and crashes: no number of
\* a stream is given twice, and later records have higher ones (FileWal::append
\* counts on from what it took, scan from the last record it found).
THEOREM FileNumbersGoUp == WalSpec => []NumbersGoUp
  <1>1. WalInv => NumbersGoUp
    <2> SUFFICES ASSUME WalInv, NEW i \in DOMAIN file, NEW j \in DOMAIN file, i < j,
                        file[i] \in LogLines, file[j] \in LogLines,
                        file[i].stream = file[j].stream
                 PROVE  file[i].at < file[j].at
      BY DEF NumbersGoUp, Pieces, IsRecord
    <2>1. DOMAIN file = 1..Len(file)
      BY DEF WalInv, WalTypeOK
    <2> QED BY <2>1 DEF WalInv, RisesIn
  <1> QED BY <1>1, WalInvariant, PTL

\* For any streams, any batches and any failed appends and crashes: while the
\* server runs, what it acknowledged is in its index, in order and once
\* (FileWal::append indexes from the length of the file).
THEOREM AcknowledgedStayIndexed == WalSpec => []AcknowledgedAreIndexed
  <1>1. WalInv => AcknowledgedAreIndexed
    <2> SUFFICES ASSUME WalInv, status = "open" PROVE AcknowledgedAreIndexed
      BY DEF AcknowledgedAreIndexed
    <2>1. DOMAIN file = 1..Len(file) /\ DOMAIN offsets = 1..Len(offsets)
      BY DEF WalInv, WalTypeOK
    <2>2. Indexed(offsets, file, acknowledged)
      BY DEF WalInv
    <2> QED BY <2>1, <2>2 DEF AcknowledgedAreIndexed, Indexed, Pieces, IsRecord
  <1> QED BY <1>1, WalInvariant, PTL

-----------------------------------------------------------------------------
(* The six components together *)

\* A behaviour of the composition is one of each component: the part that runs
\* takes its component's steps, and every other component stands still.
THEOREM PartsBehave ==
  Spec => JournalSpec /\ ScheduleSpec /\ SessionSpec /\ AlertSpec /\ AssemblerSpec
          /\ WalSpec
  <1>1. Init => /\ JournalInit /\ ScheduleInit /\ SessionInit /\ AlertInit /\ AssemblerInit
                /\ WalInit
    BY DEF Init
  <1>2. [Next]_serviceVars => /\ [JournalNext]_journalVars /\ [ScheduleNext]_scheduleVars
                              /\ [SessionNext]_sessionVars /\ [AlertNext]_alertVars
                              /\ [AssemblerNext]_assemblerVars /\ [WalNext]_walVars
    <2> SUFFICES ASSUME [Next]_serviceVars
                 PROVE  /\ [JournalNext]_journalVars /\ [ScheduleNext]_scheduleVars
                        /\ [SessionNext]_sessionVars /\ [AlertNext]_alertVars
                        /\ [AssemblerNext]_assemblerVars /\ [WalNext]_walVars
      OBVIOUS
    <2>1. CASE JournalStep
      BY <2>1, Zenon DEF JournalStep
    <2>2. CASE ScheduleStep
      BY <2>2, Zenon DEF ScheduleStep
    <2>3. CASE SessionStep
      BY <2>3, Zenon DEF SessionStep
    <2>4. CASE AlertStep
      BY <2>4, Zenon DEF AlertStep
    <2>5. CASE AssemblerStep
      BY <2>5, Zenon DEF AssemblerStep
    <2>6. CASE LogFileStep
      BY <2>6, Zenon DEF LogFileStep
    <2>7. CASE UNCHANGED serviceVars
      BY <2>7, Zenon DEF serviceVars
    <2> QED BY <2>1, <2>2, <2>3, <2>4, <2>5, <2>6, <2>7, Zenon DEF Next
  <1> QED BY <1>1, <1>2, PTL
           DEF Spec, JournalSpec, ScheduleSpec, SessionSpec, AlertSpec, AssemblerSpec, WalSpec

\* Every variable of the six components keeps its type, whichever of them runs.
THEOREM ServicesTypeCorrect == Spec => []ServicesTypeOK
  <1>1. /\ JournalTypeOK /\ ScheduleTypeOK /\ SessionTypeOK /\ AlertTypeOK /\ AssemblerTypeOK
        /\ WalTypeOK
        => ServicesTypeOK
    BY DEF ServicesTypeOK
  <1> QED BY <1>1, PartsBehave, JournalTypeCorrect, ScheduleTypeCorrect, SessionTypeCorrect,
             AlertTypeCorrect, AssemblerTypeCorrect, WalTypeCorrect, PTL

\* What each component promises of its own behaviours holds where they stand
\* side by side.
THEOREM PartsKeepTheirPromises ==
  Spec => /\ [](AnsweredIsApplied /\ TablesFollowTheStream)
          /\ SlotDecisionsStand
          /\ [](EntriesAreFresh /\ AlertsAreKept /\ ContainersAreOpen)
          /\ [](NumbersGoUp /\ AcknowledgedAreIndexed)
  BY PartsBehave, AnswersAreApplied, FilesFollowTheStream, DecisionsStand,
     HostedEntriesAreFresh, NoAlertIsLost, ParentsAreOpen, FileNumbersGoUp, AcknowledgedStayIndexed, PTL
=============================================================================
