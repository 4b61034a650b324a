---------------------------- MODULE PeriodProofs ----------------------------
(***************************************************************************)
(* What the period fold, its saved state and the written periods account   *)
(* for, for every deployment, log, message table, period width and bound.  *)
(***************************************************************************)
EXTENDS ProjectorProofs

-----------------------------------------------------------------------------
(* Moments and the periods they lie in. *)

LEMMA Multiple ==
  ASSUME NEW w \in Nat \ {0}, NEW a \in Int, a % w = 0
  PROVE  \E k \in Int : a = w * k
  <1>1. a = w * (a \div w) + (a % w) /\ a \div w \in Int
    OBVIOUS
  <1>2. a = w * (a \div w)
    BY <1>1
  <1> DEFINE k == a \div w
  <1>3. k \in Int /\ a = w * k
    BY <1>1, <1>2
  <1> HIDE DEF k
  <1> QED BY <1>3

LEMMA MultipleRest ==
  ASSUME NEW w \in Nat \ {0}, NEW k \in Int
  PROVE  (w * k) % w = 0
  OBVIOUS

LEMMA FloorIs ==
  ASSUME NEW w \in Nat \ {0}, NEW t \in Int
  PROVE  /\ Floor(t, w) \in Int /\ Floor(t, w) <= t /\ t < Floor(t, w) + w
         /\ Floor(t, w) % w = 0
  <1>1. t = w * (t \div w) + (t % w) /\ t \div w \in Int /\ t % w \in 0..(w - 1)
    OBVIOUS
  <1>2. Floor(t, w) = w * (t \div w)
    BY <1>1 DEF Floor
  <1>3. Floor(t, w) % w = 0
    BY <1>1, <1>2, MultipleRest
  <1> QED BY <1>1, <1>3 DEF Floor

\* Two starts lie a width apart.
LEMMA Apart ==
  ASSUME NEW w \in Nat \ {0}, NEW a \in Int, NEW b \in Int, a % w = 0, b % w = 0, a < b
  PROVE  a + w <= b
  <1>1. PICK k \in Int : a = w * k
    BY Multiple
  <1>2. PICK l \in Int : b = w * l
    BY Multiple
  <1>3. k < l
    <2> SUFFICES ASSUME l <= k PROVE FALSE
      BY <1>1, <1>2
    <2>1. w * l <= w * k
      OBVIOUS
    <2> QED BY <1>1, <1>2, <2>1
  <1>4. w * k + w <= w * l
    <2>1. w * (k + 1) <= w * l
      BY <1>3
    <2> QED BY <2>1
  <1> QED BY <1>1, <1>2, <1>4

\* A start of a wider period is one of a narrow period, and so is its end.
LEMMA WiderStart ==
  ASSUME NEW r \in Int, r % Rollup = 0
  PROVE  r % Width = 0 /\ (r + Rollup) % Width = 0 /\ (r + Rollup) % Rollup = 0
  <1>1. Width \in Nat \ {0} /\ Rollup \in Nat \ {0} /\ Rollup % Width = 0
    BY PeriodAssumption
  <1>2. PICK k \in Int : Rollup = Width * k
    BY <1>1, Multiple
  <1>3. PICK j \in Int : r = Rollup * j
    BY <1>1, Multiple
  <1>4. k * j \in Int /\ k * (j + 1) \in Int /\ j + 1 \in Int
    OBVIOUS
  <1>5. r = Width * (k * j)
    BY <1>1, <1>2, <1>3
  <1>6. r + Rollup = Rollup * (j + 1)
    BY <1>1, <1>3
  <1>7. Rollup * (j + 1) = Width * (k * (j + 1))
    BY <1>1, <1>2
  <1>8. (Width * (k * j)) % Width = 0 /\ (Width * (k * (j + 1))) % Width = 0
        /\ (Rollup * (j + 1)) % Rollup = 0
    BY <1>1, <1>4, MultipleRest
  <1> QED BY <1>5, <1>6, <1>7, <1>8

LEMMA NextStart ==
  ASSUME NEW s \in Int, s % Width = 0
  PROVE  (s + Width) % Width = 0
  <1>1. Width \in Nat \ {0}
    BY PeriodAssumption
  <1>2. PICK k \in Int : s = Width * k
    BY <1>1, Multiple
  <1>3. s + Width = Width * (k + 1) /\ k + 1 \in Int
    BY <1>1, <1>2
  <1>4. (Width * (k + 1)) % Width = 0
    BY <1>1, <1>3, MultipleRest
  <1> QED BY <1>3, <1>4

-----------------------------------------------------------------------------
(* What a fold holds of a log.  The log is a parameter, so that what holds  *)
(* of a log holds of every log that begins with it.                        *)

At(l, p) == Msg[l[p].msg].at
RunEnd(l, p) == Msg[l[p].msg].subject = "run" /\ Msg[l[p].msg].phase = "end"
PeriodOf(l, p) == Floor(At(l, p), Width)

\* Nothing before p is later; nor is anything after it, up to n, earlier.
InTime(l, p) == \A q \in 1..(p - 1) : At(l, q) <= At(l, p)
Undisturbed(l, p, n) == InTime(l, p) /\ \A q \in (p + 1)..n : At(l, p) <= At(l, q)

\* The first n positions reach the moment t.
Reaches(l, n, t) == \E a \in 1..n : t <= At(l, a)

\* A start of a period.
Aligned(t) == t \in Nat /\ t % Width = 0

PeriodRecords == [counted : SUBSET Nat, runs : Nat, complete : BOOLEAN]
FoldFields ==
  {"first", "through", "clock", "began", "closedThrough", "gapFrom", "tracked", "sawStart",
   "open", "rollups", "closed", "missed", "missedSpans"}

\* The oldest period that is open.
Oldest(f) == Max2(f.closedThrough, f.began)

\* A record of the period that starts at s counts run ends of the first n
\* positions, each one once, and those that came in time where they ended.
RecordOK(l, n, s, r) ==
  /\ r \in PeriodRecords /\ r.runs = Cardinality(r.counted)
  /\ \A x \in r.counted : /\ x \in 1..n /\ RunEnd(l, x)
                          /\ InTime(l, x) => s = PeriodOf(l, x)

\* What closed as complete holds every run end that came in order.
WholeOK(l, s, e) ==
  e.record.complete =>
    \A p \in 1..e.through :
      RunEnd(l, p) /\ e.first <= p /\ PeriodOf(l, p) = s /\ Undisturbed(l, p, e.through) =>
        p \in e.record.counted

\* A closed period, of width w from s, in memory or written.
EntryOK(l, w, s, e) ==
  /\ <<w, s>> \in PeriodKeys
  /\ e.through \in 1..Len(l) /\ e.first \in Nat \ {0}
  /\ Aligned(e.began) /\ e.began <= s + w /\ Reaches(l, e.through, e.began)
  /\ Reaches(l, e.through, s + w)
  /\ w = Width => (RecordOK(l, e.through, s, e.record) /\ WholeOK(l, s, e))

\* Where a fold stands.
PlaceOK(l, f) ==
  /\ DOMAIN f = FoldFields
  /\ f.through \in 0..Len(l) /\ f.first \in 0..(f.through + 1)
  /\ f.through = 0 => f = NewFold
  /\ f.through # 0 => f.first # 0
  /\ f.missed \in SUBSET (Nat \X Nat) /\ f.missedSpans \in SUBSET (Nat \X Nat)

\* Its clock and its edges are moments that what it passed reaches.
ClockOK(l, f) ==
  /\ f.clock = None \/ (f.clock \in Nat /\ Reaches(l, f.through, f.clock))
  /\ f.began = None \/ (Aligned(f.began) /\ Reaches(l, f.through, f.began))
  /\ f.through # 0 => f.began # None
  /\ \/ f.closedThrough = None
     \/ /\ Aligned(f.closedThrough) /\ Reaches(l, f.through, f.closedThrough)
        /\ f.began <= f.closedThrough

\* Its open periods lie past its edge, share no run end, hold none that ended
\* later, and none earlier but what was held over; one that a missed span may
\* have reached is not complete.
OpenOK(l, f) ==
  /\ f.open \in [Starts(Width) -> PeriodRecords]
  /\ \A s \in Starts(Width) :
       /\ RecordOK(l, f.through, s, f.open[s])
       /\ f.open[s].counted # {} => Oldest(f) <= s
       /\ \A x \in f.open[s].counted : PeriodOf(l, x) = s \/ (PeriodOf(l, x) <= s /\ s <= Oldest(f))
       /\ f.open[s].counted # {} /\ ReachesMissed(f, s, s + Width) => ~f.open[s].complete
  /\ \A s, t \in Starts(Width) : s # t => f.open[s].counted \cap f.open[t].counted = {}

\* Its wider periods end past its edge.
WiderOK(f) ==
  /\ DOMAIN f.rollups = Starts(Rollup)
  /\ \A r \in Starts(Rollup) : /\ DOMAIN f.rollups[r] = {"counted", "runs", "complete"}
                               /\ f.rollups[r].counted # {} => Oldest(f) < r + Rollup

\* What it closed and still holds, in order.
Narrow(f) == {i \in DOMAIN f.closed : f.closed[i].level = Width}

ClosedOK(l, f) ==
  /\ \E X : f.closed \in Seq(X)
  /\ \A i \in DOMAIN f.closed :
       LET e == f.closed[i]
       IN  /\ EntryOK(l, e.level, e.from, e) /\ e.through <= f.through
           /\ e.from + e.level <= f.closedThrough
  /\ \A i, j \in Narrow(f) : i < j => /\ f.closed[i].from < f.closed[j].from
                                      /\ f.closed[i].record.counted \cap f.closed[j].record.counted = {}
  /\ \A i \in Narrow(f) : \A s \in Starts(Width) :
       f.closed[i].record.counted \cap f.open[s].counted = {}

\* A run end that came in order is counted where it ended, as long as that is
\* open, or a missed span reaches there.  Position u was not counted yet.
InPlace(l, f, u) ==
  \A p \in 1..f.through :
    RunEnd(l, p) /\ f.first <= p /\ p # u /\ Undisturbed(l, p, f.through) /\ Oldest(f) <= PeriodOf(l, p) =>
      \/ p \in f.open[PeriodOf(l, p)].counted
      \/ ReachesMissed(f, PeriodOf(l, p), PeriodOf(l, p) + Width)

\* Every run end passed is counted, here or in W, which is written, or told of
\* in f or in G, which is written too.
InMemory(f, p) ==
  \/ \E s \in Starts(Width) : p \in f.open[s].counted
  \/ \E i \in Narrow(f) : p \in f.closed[i].record.counted

Passed(l, f, W, G, u) ==
  \A p \in 1..f.through :
    RunEnd(l, p) /\ f.first <= p /\ p # u => InMemory(f, p) \/ p \in W \/ ToldMissed(f, G, p)

\* What ended before a period did and was passed when it closed is in W, told
\* of, or in a period closed before it.
PassedClosing(l, f, W, G) ==
  \A i \in DOMAIN f.closed :
    LET e == f.closed[i]
    IN  \A p \in 1..e.through :
          RunEnd(l, p) /\ e.first <= p /\ At(l, p) < e.from + e.level =>
            \/ \E j \in Narrow(f) : j <= i /\ p \in f.closed[j].record.counted
            \/ p \in W \/ ToldMissed(f, G, p)

FoldInv(l, f, W, G, u) ==
  /\ PlaceOK(l, f) /\ ClockOK(l, f) /\ OpenOK(l, f) /\ WiderOK(f) /\ ClosedOK(l, f)
  /\ InPlace(l, f, u) /\ Passed(l, f, W, G, u) /\ PassedClosing(l, f, W, G)

LEMMA PeriodFacts ==
  /\ Width \in Nat \ {0} /\ Rollup \in Nat \ {0} /\ Width < Rollup /\ None = -1 /\ Grace \in Nat \ {0}
  /\ \A s \in Starts(Width) : Aligned(s)
  /\ \A r \in Starts(Rollup) : Aligned(r) /\ Aligned(r + Rollup)
  /\ \A s, t : Aligned(s) /\ Aligned(t) /\ s < t => s + Width <= t
  /\ \A s : Aligned(s) => Aligned(s + Width) /\ s \in Nat
  <1>1. Width \in Nat \ {0} /\ Rollup \in Nat \ {0} /\ Width < Rollup /\ None = -1
    BY PeriodAssumption DEF None
  <1>2. Grace \in Nat \ {0}
    <2>1. Width \div 10 \in Nat
      BY <1>1
    <2> QED BY <2>1 DEF Grace, Max2
  <1>3. \A w \in {Width, Rollup} : \A s \in Starts(w) : s \in Nat /\ s % w = 0
    BY DEF Starts, StartsOf
  <1>4. ASSUME NEW r \in Starts(Rollup) PROVE Aligned(r) /\ Aligned(r + Rollup)
    <2>1. r \in Nat /\ r % Rollup = 0 /\ r \in Int /\ r + Rollup \in Nat
      BY <1>1, <1>3
    <2>2. r % Width = 0 /\ (r + Rollup) % Width = 0
      BY <2>1, WiderStart
    <2> QED BY <2>1, <2>2 DEF Aligned
  <1>5. ASSUME NEW s, NEW t, Aligned(s), Aligned(t), s < t PROVE s + Width <= t
    <2>1. s \in Int /\ t \in Int /\ s % Width = 0 /\ t % Width = 0
      BY <1>5 DEF Aligned
    <2>2. Width \in Nat \ {0} /\ s < t
      BY <1>1, <1>5
    <2> QED BY <2>1, <2>2, Apart, Zenon
  <1>6. ASSUME NEW s, Aligned(s) PROVE Aligned(s + Width) /\ s \in Nat
    <2>1. s \in Nat /\ s \in Int /\ s % Width = 0
      BY <1>6 DEF Aligned
    <2>2. (s + Width) % Width = 0
      BY <2>1, NextStart, Zenon
    <2>3. s + Width \in Nat
      BY <1>1, <2>1
    <2> QED BY <2>1, <2>2, <2>3 DEF Aligned
  <1>7. \A s \in Starts(Width) : Aligned(s)
    BY <1>3 DEF Aligned
  <1> QED BY <1>1, <1>2, <1>4, <1>5, <1>6, <1>7

\* The records of a log have moments, and their periods are among those that
\* any run can be placed in.
LEMMA MomentFacts ==
  ASSUME NEW l \in Seq(LogRecords)
  PROVE  /\ Len(l) \in Nat
         /\ \A p \in 1..Len(l) :
              /\ At(l, p) \in Nat /\ PeriodOf(l, p) \in Starts(Width)
              /\ PeriodOf(l, p) <= At(l, p) /\ At(l, p) < PeriodOf(l, p) + Width
         /\ \A n \in 0..Len(l) : \A t : Aligned(t) /\ Reaches(l, n, t) => t \in Starts(Width)
  <1>1. Len(l) \in Nat
    OBVIOUS
  <1>2. ASSUME NEW p \in 1..Len(l) PROVE l[p].msg \in Msgs /\ At(l, p) \in Nat /\ At(l, p) \in Times
    <2>1. l[p] \in LogRecords
      OBVIOUS
    <2>2. l[p].msg \in Msgs
      BY <2>1 DEF LogRecords
    <2> QED BY <2>2, RunOfMessage DEF At, Times
  <1> DEFINE top == CHOOSE t \in Times : \A u \in Times : u <= t
  <1>3. ASSUME Msgs # {} PROVE top \in Nat /\ \A t \in Times : t <= top
    <2>1. PICK b \in Nat : \A m \in Msgs : Msg[m].at <= b
      BY LatestMessage
    <2>2. Times \in SUBSET Nat /\ Times # {} /\ \A t \in Times : t <= b
      BY <1>3, <2>1, RunOfMessage DEF Times
    <2>3. \E t \in Times : \A u \in Times : u <= t
      BY <2>2, MaxOfBounded
    <2> QED BY <2>2, <2>3
  <1>4. ASSUME NEW p \in 1..Len(l), NEW t, Aligned(t), t <= At(l, p) PROVE t \in Starts(Width)
    <2>1. t \in Nat /\ t % Width = 0 /\ Msgs # {}
      BY <1>2, <1>4 DEF Aligned
    <2>2. top \in Nat /\ At(l, p) <= top
      BY <1>2, <1>3, <2>1
    <2>3. Starts(Width) = {s \in 0..top : s % Width = 0}
      BY DEF Starts, StartsOf, Latest
    <2> HIDE DEF top
    <2>4. t \in 0..top
      BY <1>2, <1>4, <2>1, <2>2
    <2> QED BY <2>1, <2>3, <2>4
  <1>5. ASSUME NEW p \in 1..Len(l)
        PROVE  /\ PeriodOf(l, p) \in Starts(Width)
               /\ PeriodOf(l, p) <= At(l, p) /\ At(l, p) < PeriodOf(l, p) + Width
    <2>1. Width \in Nat \ {0} /\ At(l, p) \in Int
      BY <1>2, PeriodFacts
    <2>2. /\ PeriodOf(l, p) \in Int /\ PeriodOf(l, p) <= At(l, p)
          /\ At(l, p) < PeriodOf(l, p) + Width /\ PeriodOf(l, p) % Width = 0
      BY <2>1, FloorIs DEF PeriodOf
    <2>3. 0 <= PeriodOf(l, p)
      <3>1. At(l, p) % Width <= At(l, p)
        BY <1>2, <2>1
      <3> QED BY <1>2, <2>1, <3>1 DEF PeriodOf, Floor
    <2>4. Aligned(PeriodOf(l, p))
      BY <2>2, <2>3 DEF Aligned
    <2> QED BY <1>4, <2>2, <2>4
  <1>6. ASSUME NEW n \in 0..Len(l), NEW t, Aligned(t), Reaches(l, n, t) PROVE t \in Starts(Width)
    <2>1. PICK a \in 1..n : t <= At(l, a)
      BY <1>6 DEF Reaches
    <2> QED BY <1>1, <1>4, <1>6, <2>1
  <1> QED BY <1>1, <1>2, <1>5, <1>6

-----------------------------------------------------------------------------
(* What a close leaves. *)

\* A sorted sequence of a finite set holds all of it.
LEMMA SortedCovers ==
  ASSUME NEW S \in SUBSET Nat, IsFiniteSet(S), NEW q, Sorted(q, S)
  PROVE  \A s \in S : \E i \in DOMAIN q : q[i] = s
  <1> DEFINE n == Cardinality(S)
             D == 1..n
  <1>1. n \in Nat /\ IsFiniteSet(D) /\ Cardinality(D) = n
    <2>1. n \in Nat
      BY FS_CardinalityType
    <2> HIDE DEF n
    <2>2. IsFiniteSet(D) /\ Cardinality(D) = IF 1 > n THEN 0 ELSE n - 1 + 1
      BY <2>1, FS_Interval
    <2> QED BY <2>1, <2>2
  <1>2. q \in [D -> S] /\ \A i, j \in D : i < j => q[i] < q[j]
    BY DEF Sorted
  <1>3. \A i, j \in D : q[i] = q[j] => i = j
    <2> SUFFICES ASSUME NEW i \in D, NEW j \in D, q[i] = q[j], i # j PROVE FALSE
      OBVIOUS
    <2>0. i \in Nat /\ j \in Nat
      BY <1>1
    <2>00. q[i] \in S /\ q[j] \in S
      BY <1>2
    <2>1. i \in Nat /\ j \in Nat /\ q[i] \in Nat /\ q[j] \in Nat
      BY <2>0, <2>00
    <2>2. i < j \/ j < i
      BY <2>1
    <2>3. q[i] < q[j] \/ q[j] < q[i]
      BY <1>2, <2>2
    <2> QED BY <2>1, <2>3
  <1> HIDE DEF D
  <1>4. q \in Injection(D, S)
    BY <1>2, <1>3 DEF Injection, IsInjective
  <1>5. q \in Surjection(D, S)
    BY <1>1, <1>4, FS_Injection DEF n
  <1> QED BY <1>2, <1>5 DEF Surjection

\* The periods that close, one for each start, in order.
AreClosed(c, f, w, S, records) ==
  /\ \E X : c \in Seq(X)
  /\ Len(c) \in Nat
  /\ \A i \in 1..Len(c) :
       /\ c[i].from \in S /\ c[i].level = w /\ c[i].record = records[c[i].from]
       /\ c[i].first = f.first /\ c[i].through = f.through /\ c[i].began = f.began
  /\ \A s \in S : \E i \in 1..Len(c) : c[i].from = s
  /\ \A i, j \in 1..Len(c) : i < j => c[i].from < c[j].from

LEMMA ClosedPeriodsAre ==
  ASSUME NEW f, NEW w, NEW S \in SUBSET Nat, IsFiniteSet(S), NEW records
  PROVE  AreClosed(ClosedPeriods(f, w, S, records), f, w, S, records)
  <1> DEFINE q == Ascending(S)
             R(i) == [level |-> w, from |-> q[i], record |-> records[q[i]],
                      first |-> f.first, through |-> f.through, began |-> f.began]
             X == {R(i) : i \in DOMAIN q}
             c == ClosedPeriods(f, w, S, records)
  <1>1. /\ DOMAIN q = 1..Cardinality(S) /\ Cardinality(S) \in Nat /\ Sorted(q, S)
        /\ \A i \in DOMAIN q : q[i] \in S
        /\ \A i, j \in DOMAIN q : i < j => q[i] < q[j]
    BY AscendingSorts DEF Sorted
  <1>2. \A s \in S : \E i \in DOMAIN q : q[i] = s
    BY <1>1, SortedCovers
  <1>3. c = [i \in DOMAIN q |-> R(i)]
    BY DEF ClosedPeriods
  <1>4. \A i : /\ R(i).level = w /\ R(i).from = q[i] /\ R(i).record = records[q[i]]
               /\ R(i).first = f.first /\ R(i).through = f.through /\ R(i).began = f.began
    OBVIOUS
  <1> HIDE DEF c, q, R
  <1>5. c \in Seq(X) /\ Len(c) = Cardinality(S)
    <2>1. c = [i \in 1..Cardinality(S) |-> c[i]] /\ \A i \in 1..Cardinality(S) : c[i] \in X
      BY <1>1, <1>3
    <2> HIDE DEF X
    <2> QED BY <1>1, <2>1, SequenceOf
  <1>6. \A i \in DOMAIN q : c[i] = R(i)
    BY <1>3
  <1> HIDE DEF X
  <1>7. DOMAIN q = 1..Len(c)
    BY <1>1, <1>5
  <1>8. ASSUME NEW i \in 1..Len(c)
        PROVE  /\ c[i].from \in S /\ c[i].level = w /\ c[i].record = records[c[i].from]
               /\ c[i].first = f.first /\ c[i].through = f.through /\ c[i].began = f.began
    <2>1. c[i] = R(i) /\ q[i] \in S
      BY <1>1, <1>6, <1>7
    <2>2. c[i].from = q[i]
      BY <1>4, <2>1
    <2> QED BY <1>4, <2>1, <2>2
  <1>8a. \A i \in 1..Len(c) : c[i].from = q[i]
    <2>1. \A i \in 1..Len(c) : c[i] = R(i)
      BY <1>6, <1>7
    <2> QED BY <1>4, <2>1
  <1>9. \A s \in S : \E i \in 1..Len(c) : c[i].from = s
    BY <1>2, <1>7, <1>8a
  <1>10. \A i, j \in 1..Len(c) : i < j => c[i].from < c[j].from
    BY <1>1, <1>7, <1>8a
  <1>11. AreClosed(c, f, w, S, records)
    BY <1>1, <1>5, <1>8, <1>9, <1>10 DEF AreClosed
  <1> QED BY <1>11 DEF c

\* g is f after a close that took n narrow periods and then wider ones.
Closes(f, g, n) ==
  LET old == Len(f.closed)
      FromFold(i) == /\ g.closed[i].first = f.first /\ g.closed[i].through = f.through
                  /\ g.closed[i].began = f.began
  IN  /\ DOMAIN g = FoldFields
      /\ g.first = f.first /\ g.through = f.through /\ g.clock = f.clock /\ g.began = f.began
      /\ g.missed = f.missed /\ g.missedSpans = f.missedSpans
      /\ g.closedThrough = Edge(f) /\ Oldest(f) < Edge(f)
      /\ g.open = [s \in Starts(Width) |-> IF s \in Closing(f) THEN Empty ELSE f.open[s]]
      /\ WiderOK(g)
      /\ \E X : g.closed \in Seq(X)
      /\ n \in Nat /\ old \in Nat /\ old + n <= Len(g.closed)
      /\ \A i \in 1..old : g.closed[i] = f.closed[i]
      /\ \A i \in (old + 1)..(old + n) :
           /\ g.closed[i].level = Width /\ g.closed[i].from \in Closing(f)
           /\ g.closed[i].record = f.open[g.closed[i].from] /\ FromFold(i)
      /\ \A s \in Closing(f) : \E i \in (old + 1)..(old + n) : g.closed[i].from = s
      /\ \A i, j \in (old + 1)..(old + n) : i < j => g.closed[i].from < g.closed[j].from
      /\ \A i \in (old + n + 1)..Len(g.closed) :
           /\ g.closed[i].level = Rollup /\ g.closed[i].from \in Starts(Rollup) /\ FromFold(i)
           /\ Oldest(f) < g.closed[i].from + Rollup /\ g.closed[i].from + Rollup <= Edge(f)

\* What two sequences put after a third one leave where.
Joined(s, a, b, c) ==
  /\ \E U : s \in Seq(U)
  /\ Len(s) = Len(a) + Len(b) + Len(c)
  /\ \A i \in 1..Len(a) : s[i] = a[i]
  /\ \A i \in 1..Len(b) : s[Len(a) + i] = b[i]
  /\ \A i \in 1..Len(c) : s[Len(a) + Len(b) + i] = c[i]

LEMMA Concatenated ==
  ASSUME NEW X, NEW Y, NEW Z, NEW a \in Seq(X), NEW b \in Seq(Y), NEW c \in Seq(Z)
  PROVE  Joined((a \o b) \o c, a, b, c)
  <1> DEFINE U == X \cup Y \cup Z
             s == (a \o b) \o c
  <1>1. a \in Seq(U) /\ b \in Seq(U) /\ c \in Seq(U)
    <2>1. X \subseteq U /\ Y \subseteq U /\ Z \subseteq U
      OBVIOUS
    <2> HIDE DEF U
    <2> QED BY <2>1, SeqMonotonic
  <1> HIDE DEF U
  <1>2. /\ a \o b \in Seq(U) /\ Len(a \o b) = Len(a) + Len(b)
        /\ \A i \in 1..Len(a) : (a \o b)[i] = a[i]
        /\ \A i \in 1..Len(b) : (a \o b)[Len(a) + i] = b[i]
    BY <1>1
  <1> DEFINE d == a \o b
  <1>3. /\ d \in Seq(U) /\ Len(d) = Len(a) + Len(b) /\ Len(a) \in Nat /\ Len(b) \in Nat
        /\ \A i \in 1..Len(a) : d[i] = a[i]
        /\ \A i \in 1..Len(b) : d[Len(a) + i] = b[i]
    BY <1>1, <1>2
  <1> HIDE DEF d
  <1>4. /\ d \o c \in Seq(U) /\ Len(d \o c) = Len(d) + Len(c)
        /\ \A i \in 1..Len(d) : (d \o c)[i] = d[i]
        /\ \A i \in 1..Len(c) : (d \o c)[Len(d) + i] = c[i]
    <2>1. d \in Seq(U) /\ c \in Seq(U)
      BY <1>1, <1>3
    <2> QED BY <2>1
  <1>5. s = d \o c
    BY DEF d
  <1> HIDE DEF s
  <1>6. Joined(s, a, b, c)
    <2>1. s \in Seq(U) /\ Len(s) = Len(a) + Len(b) + Len(c)
      BY <1>3, <1>4, <1>5
    <2>2. ASSUME NEW i \in 1..Len(a) PROVE s[i] = a[i]
      <3>1. i \in 1..Len(d)
        BY <1>3
      <3> QED BY <1>3, <1>4, <1>5, <3>1
    <2>3. ASSUME NEW i \in 1..Len(b) PROVE s[Len(a) + i] = b[i]
      <3>1. Len(a) + i \in 1..Len(d)
        BY <1>3
      <3>2. s[Len(a) + i] = d[Len(a) + i]
        BY <1>4, <1>5, <3>1, Zenon
      <3>3. d[Len(a) + i] = b[i]
        BY <1>3, Zenon
      <3> QED BY <3>2, <3>3
    <2>4. ASSUME NEW i \in 1..Len(c) PROVE s[Len(a) + Len(b) + i] = c[i]
      BY <1>3, <1>4, <1>5
    <2> QED BY <2>1, <2>2, <2>3, <2>4 DEF Joined
  <1> QED BY <1>6 DEF s

LEMMA CloseIs ==
  ASSUME NEW l \in Seq(LogRecords), NEW f, PlaceOK(l, f), ClockOK(l, f), OpenOK(l, f), WiderOK(f),
         f.clock \in Nat, f.through # 0, NEW X, f.closed \in Seq(X)
  PROVE  Close(f) = f \/ \E n : Closes(f, Close(f), n)
  <1> SUFFICES ASSUME Close(f) # f PROVE \E n : Closes(f, Close(f), n)
    OBVIOUS
  <1> DEFINE edge == Edge(f)
             merged == Merged(f)
             ended == {r \in Starts(Rollup) : r + Rollup <= edge /\ merged[r].counted # {}}
             a == ClosedPeriods(f, Width, Closing(f), f.open)
             b == ClosedPeriods(f, Rollup, ended, merged)
             g == Close(f)
  <1>1. Msgs # {}
    <2>1. f.through \in 1..Len(l) /\ l[f.through] \in LogRecords
      BY DEF PlaceOK
    <2> QED BY <2>1 DEF LogRecords
  <1>2. edge \in Int /\ edge <= f.clock /\ edge % Width = 0
    <2>1. f.clock - Grace \in Int /\ f.clock - Grace <= f.clock /\ Width \in Nat \ {0}
      BY PeriodFacts
    <2>2. Edge(f) \in Int /\ Edge(f) <= f.clock - Grace /\ Edge(f) % Width = 0
      BY <2>1, FloorIs DEF Edge
    <2> QED BY <2>1, <2>2
  <1>3. Aligned(f.began) /\ f.began \in Nat /\ Oldest(f) \in Nat
        /\ Oldest(f) = IF f.closedThrough # None THEN f.closedThrough ELSE f.began
    BY PeriodFacts DEF ClockOK, Oldest, Max2, Aligned
  <1>4. /\ ~(edge <= (IF f.closedThrough # None THEN f.closedThrough ELSE f.began))
        /\ g = [f EXCEPT !.open = [s \in DOMAIN @ |-> IF s \in Closing(f) THEN Empty ELSE @[s]],
                     !.rollups = [r \in DOMAIN @ |-> IF r \in ended THEN Empty ELSE merged[r]],
                     !.closed = @ \o a \o b,
                     !.closedThrough = edge]
    BY DEF Close
  <1>5. Oldest(f) < edge
    BY <1>2, <1>3, <1>4
  <1>6. /\ Closing(f) \in SUBSET Nat /\ IsFiniteSet(Closing(f)) /\ Closing(f) \in SUBSET Starts(Width)
        /\ ended \in SUBSET Nat /\ IsFiniteSet(ended) /\ ended \in SUBSET Starts(Rollup)
    <2>1. /\ Starts(Width) \in SUBSET Nat /\ IsFiniteSet(Starts(Width))
          /\ Starts(Rollup) \in SUBSET Nat /\ IsFiniteSet(Starts(Rollup))
      BY <1>1, PeriodAssumption, StartsAreFinite
    <2>2. Closing(f) \in SUBSET Starts(Width) /\ ended \in SUBSET Starts(Rollup)
      BY DEF Closing
    <2> HIDE DEF ended
    <2> QED BY <2>1, <2>2, FS_Subset
  <1>7. \A r \in Starts(Rollup) : merged[r].counted # {} => Oldest(f) < r + Rollup
    <2> SUFFICES ASSUME NEW r \in Starts(Rollup), merged[r].counted # {}
                 PROVE  Oldest(f) < r + Rollup
      OBVIOUS
    <2> DEFINE Into == {s \in Closing(f) : Floor(s, Rollup) = r /\ r >= f.began}
    <2>1. merged[r].counted = f.rollups[r].counted \cup UNION {f.open[s].counted : s \in Into}
      BY DEF Merged
    <2>2. CASE f.rollups[r].counted # {}
      BY <2>2 DEF WiderOK
    <2>3. CASE f.rollups[r].counted = {}
      <3>1. PICK s \in Into : f.open[s].counted # {}
        <4> HIDE DEF Into, merged
        <4> QED BY <2>1, <2>3
      <3>2. s \in Starts(Width) /\ Floor(s, Rollup) = r /\ Oldest(f) <= s
        BY <1>6, <3>1 DEF OpenOK
      <3>3. s \in Nat /\ s \in Int
        BY <1>6, <3>1
      <3>4. s < r + Rollup /\ r \in Int
        BY <3>2, <3>3, FloorIs, PeriodFacts
      <3> HIDE DEF Into, merged
      <3> QED BY <1>3, <3>2, <3>3, <3>4, PeriodFacts
    <2> QED BY <2>2, <2>3
  <1>8. /\ DOMAIN g = FoldFields
        /\ g.first = f.first /\ g.through = f.through /\ g.clock = f.clock /\ g.began = f.began
        /\ g.missed = f.missed /\ g.missedSpans = f.missedSpans
        /\ g.closedThrough = edge
        /\ g.open = [s \in Starts(Width) |-> IF s \in Closing(f) THEN Empty ELSE f.open[s]]
        /\ g.rollups = [r \in Starts(Rollup) |-> IF r \in ended THEN Empty ELSE merged[r]]
        /\ g.closed = (f.closed \o a) \o b
    <2>1. DOMAIN f = FoldFields /\ DOMAIN f.open = Starts(Width) /\ DOMAIN f.rollups = Starts(Rollup)
      BY DEF PlaceOK, OpenOK, WiderOK
    <2> HIDE DEF g, a, b, ended, merged, edge
    <2> QED BY <1>4, <2>1 DEF FoldFields
  <1>9. WiderOK(g)
    <2>1. DOMAIN g.rollups = Starts(Rollup)
      BY <1>8
    <2>2. Oldest(g) = edge
      BY <1>2, <1>3, <1>5, <1>8, PeriodFacts DEF Oldest, Max2
    <2>3. ASSUME NEW r \in Starts(Rollup)
          PROVE  /\ DOMAIN g.rollups[r] = {"counted", "runs", "complete"}
                 /\ g.rollups[r].counted # {} => edge < r + Rollup
      <3>1. g.rollups[r] = IF r \in ended THEN Empty ELSE merged[r]
        BY <1>8
      <3>2. DOMAIN merged[r] = {"counted", "runs", "complete"}
        BY DEF Merged
      <3>3. DOMAIN Empty = {"counted", "runs", "complete"} /\ Empty.counted = {}
        BY DEF Empty
      <3>4. r \in ended <=> r + Rollup <= edge /\ merged[r].counted # {}
        OBVIOUS
      <3>5. r + Rollup \in Nat
        BY PeriodFacts DEF Aligned
      <3> HIDE DEF g, merged, ended, edge
      <3> QED BY <1>2, <3>1, <3>2, <3>3, <3>4, <3>5
    <2> HIDE DEF g, edge
    <2> QED BY <2>1, <2>2, <2>3 DEF WiderOK
  <1>10. AreClosed(a, f, Width, Closing(f), f.open) /\ AreClosed(b, f, Rollup, ended, merged)
    BY <1>6, ClosedPeriodsAre
  <1>12. \A r \in ended : r \in Starts(Rollup) /\ Oldest(f) < r + Rollup /\ r + Rollup <= edge
    BY <1>7
  <1> HIDE DEF a, b, ended, merged, edge, g
  <1> DEFINE old == Len(f.closed)
             n == Len(a)
             m == Len(b)
  <1>13. /\ \E U : g.closed \in Seq(U)
         /\ Len(g.closed) = old + n + m
         /\ \A i \in 1..old : g.closed[i] = f.closed[i]
         /\ \A i \in 1..n : g.closed[old + i] = a[i]
         /\ \A i \in 1..m : g.closed[old + n + i] = b[i]
    <2>1. PICK Y, Z : a \in Seq(Y) /\ b \in Seq(Z)
      BY <1>10 DEF AreClosed
    <2>2. Joined(g.closed, f.closed, a, b)
      <3>1. f.closed \in Seq(X) /\ a \in Seq(Y) /\ b \in Seq(Z)
        BY <2>1
      <3>2. Joined((f.closed \o a) \o b, f.closed, a, b)
        BY <3>1, Concatenated, Zenon
      <3> QED BY <1>8, <3>2
    <2> QED BY <2>2 DEF Joined
  <1>14. old \in Nat /\ n \in Nat /\ m \in Nat
    BY <1>10 DEF AreClosed
  <1> HIDE DEF old, n, m
  <1>15. ASSUME NEW i \in (old + 1)..(old + n)
         PROVE  i - old \in 1..n /\ g.closed[i] = a[i - old]
    <2>1. i - old \in 1..n /\ old + (i - old) = i
      BY <1>14
    <2> QED BY <1>13, <2>1
  <1>16. ASSUME NEW i \in (old + n + 1)..Len(g.closed)
         PROVE  i - (old + n) \in 1..m /\ g.closed[i] = b[i - (old + n)]
    <2>1. i - (old + n) \in 1..m /\ old + n + (i - (old + n)) = i
      BY <1>13, <1>14
    <2> QED BY <1>13, <2>1
  <1>17. \A s \in Closing(f) : \E i \in (old + 1)..(old + n) : g.closed[i].from = s
    <2> SUFFICES ASSUME NEW s \in Closing(f)
                 PROVE  \E i \in (old + 1)..(old + n) : g.closed[i].from = s
      OBVIOUS
    <2>1. PICK i \in 1..n : a[i].from = s
      BY <1>10 DEF AreClosed, n
    <2>2. old + i \in (old + 1)..(old + n) /\ g.closed[old + i] = a[i]
      BY <1>13, <1>14
    <2> QED BY <2>1, <2>2
  <1>18. \A i, j \in (old + 1)..(old + n) : i < j => g.closed[i].from < g.closed[j].from
    <2> SUFFICES ASSUME NEW i \in (old + 1)..(old + n), NEW j \in (old + 1)..(old + n), i < j
                 PROVE  g.closed[i].from < g.closed[j].from
      OBVIOUS
    <2>1. i - old < j - old
      BY <1>14
    <2>2. /\ i - old \in 1..n /\ g.closed[i] = a[i - old]
          /\ j - old \in 1..n /\ g.closed[j] = a[j - old]
      BY <1>15
    <2>3. \A x, y \in 1..n : x < y => a[x].from < a[y].from
      BY <1>10 DEF AreClosed, n
    <2> QED BY <2>1, <2>2, <2>3
  <1>19. \A i \in (old + 1)..(old + n) :
           /\ g.closed[i].level = Width /\ g.closed[i].from \in Closing(f)
           /\ g.closed[i].record = f.open[g.closed[i].from]
           /\ g.closed[i].first = f.first /\ g.closed[i].through = f.through
           /\ g.closed[i].began = f.began
    <2> SUFFICES ASSUME NEW i \in (old + 1)..(old + n)
                 PROVE  /\ g.closed[i].level = Width /\ g.closed[i].from \in Closing(f)
                        /\ g.closed[i].record = f.open[g.closed[i].from]
                        /\ g.closed[i].first = f.first /\ g.closed[i].through = f.through
                        /\ g.closed[i].began = f.began
      OBVIOUS
    <2>1. i - old \in 1..n /\ g.closed[i] = a[i - old]
      BY <1>15
    <2> QED BY <1>10, <2>1 DEF AreClosed, n
  <1>20. \A i \in (old + n + 1)..Len(g.closed) :
           /\ g.closed[i].level = Rollup /\ g.closed[i].from \in Starts(Rollup)
           /\ g.closed[i].first = f.first /\ g.closed[i].through = f.through
           /\ g.closed[i].began = f.began
           /\ Oldest(f) < g.closed[i].from + Rollup /\ g.closed[i].from + Rollup <= edge
    <2> SUFFICES ASSUME NEW i \in (old + n + 1)..Len(g.closed)
                 PROVE  /\ g.closed[i].level = Rollup /\ g.closed[i].from \in Starts(Rollup)
                        /\ g.closed[i].first = f.first /\ g.closed[i].through = f.through
                        /\ g.closed[i].began = f.began
                        /\ Oldest(f) < g.closed[i].from + Rollup
                        /\ g.closed[i].from + Rollup <= edge
      OBVIOUS
    <2> DEFINE j == i - (old + n)
    <2>1. j \in 1..m /\ g.closed[i] = b[j]
      BY <1>16
    <2> HIDE DEF j
    <2>2. /\ b[j].level = Rollup /\ b[j].from \in ended
          /\ b[j].first = f.first /\ b[j].through = f.through /\ b[j].began = f.began
      BY <1>10, <2>1 DEF AreClosed, m
    <2> QED BY <1>12, <2>1, <2>2
  <1>21. old + n <= Len(g.closed)
    BY <1>13, <1>14
  <1>22. g.open = [s \in Starts(Width) |-> IF s \in Closing(f) THEN Empty ELSE f.open[s]]
    BY <1>8
  <1>23. Closes(f, g, n)
    BY <1>5, <1>8, <1>9, <1>13, <1>14, <1>17, <1>18, <1>19, <1>20, <1>21, <1>22
       DEF Closes, edge, old
  <1> QED BY <1>23 DEF g

\* Where the edges of a fold lie when it closes.
LEMMA CloseEdges ==
  ASSUME NEW l \in Seq(LogRecords), NEW f, NEW W, NEW G, FoldInv(l, f, W, G, 0),
         f.clock \in Nat, f.through # 0, NEW g, NEW n, Closes(f, g, n)
  PROVE  /\ Aligned(Edge(f)) /\ Aligned(Oldest(f)) /\ Oldest(f) < Edge(f) /\ Oldest(g) = Edge(f)
         /\ Edge(f) \in Nat /\ Oldest(f) \in Nat
         /\ Aligned(f.began) /\ f.began \in Nat /\ f.began <= Oldest(f)
         /\ f.closedThrough \in Int /\ f.closedThrough <= Oldest(f)
         /\ f.through \in 1..Len(l) /\ f.first \in Nat \ {0} /\ Reaches(l, f.through, f.began)
         /\ \A t \in Nat : t <= Edge(f) => Reaches(l, f.through, t)
         /\ \A s \in Closing(f) : /\ s \in Starts(Width) /\ Oldest(f) <= s
                                  /\ s + Width <= Edge(f) /\ f.open[s].counted # {}
         /\ \A s \in Starts(Width) : f.open[s].counted # {} /\ s < Edge(f) => s \in Closing(f)
  <1>0. PlaceOK(l, f) /\ ClockOK(l, f) /\ OpenOK(l, f)
    BY DEF FoldInv
  <1>1. Edge(f) \in Int /\ Edge(f) <= f.clock /\ Edge(f) % Width = 0
    <2>1. f.clock - Grace \in Int /\ f.clock - Grace <= f.clock /\ Width \in Nat \ {0}
      BY PeriodFacts
    <2>2. Edge(f) \in Int /\ Edge(f) <= f.clock - Grace /\ Edge(f) % Width = 0
      BY <2>1, FloorIs DEF Edge
    <2> QED BY <2>1, <2>2
  <1>2. /\ Aligned(f.began) /\ f.began \in Nat /\ Oldest(f) \in Nat /\ Aligned(Oldest(f))
        /\ f.began <= Oldest(f) /\ f.closedThrough \in Int /\ f.closedThrough <= Oldest(f)
        /\ Reaches(l, f.through, f.began)
    BY <1>0, PeriodFacts DEF ClockOK, Oldest, Max2, Aligned
  <1>3. Oldest(f) < Edge(f) /\ g.closedThrough = Edge(f) /\ g.began = f.began
    BY DEF Closes
  <1>4. Edge(f) \in Nat /\ Aligned(Edge(f))
    BY <1>1, <1>2, <1>3 DEF Aligned
  <1>5. Oldest(g) = Edge(f)
    BY <1>2, <1>3, <1>4 DEF Oldest, Max2
  <1>6. f.through \in 1..Len(l) /\ f.first \in Nat \ {0}
    BY <1>0 DEF PlaceOK
  <1>7. ASSUME NEW t \in Nat, t <= Edge(f) PROVE Reaches(l, f.through, t)
    <2>1. f.clock # None
      BY PeriodFacts
    <2>2. PICK a \in 1..f.through : f.clock <= At(l, a)
      BY <1>0, <2>1 DEF ClockOK, Reaches
    <2>3. At(l, a) \in Nat
      BY <1>6, <2>2, MomentFacts
    <2>4. t <= At(l, a)
      BY <1>1, <1>4, <1>7, <2>2, <2>3
    <2> QED BY <2>2, <2>4 DEF Reaches
  <1>8. ASSUME NEW s \in Closing(f)
        PROVE  /\ s \in Starts(Width) /\ Oldest(f) <= s
               /\ s + Width <= Edge(f) /\ f.open[s].counted # {}
    <2>1. s \in Starts(Width) /\ s + Width <= Edge(f) /\ f.open[s].counted # {}
      BY DEF Closing
    <2> QED BY <1>0, <2>1 DEF OpenOK
  <1>9. ASSUME NEW s \in Starts(Width), f.open[s].counted # {}, s < Edge(f) PROVE s \in Closing(f)
    <2>1. s + Width <= Edge(f)
      BY <1>4, <1>9, PeriodFacts
    <2> QED BY <1>9, <2>1 DEF Closing
  <1> QED BY <1>2, <1>3, <1>4, <1>5, <1>6, <1>7, <1>8, <1>9

LEMMA EmptyRecord ==
  ASSUME NEW l, NEW n, NEW s
  PROVE  RecordOK(l, n, s, Empty) /\ Empty.counted = {} /\ Empty \in PeriodRecords
  <1>1. Cardinality({}) = 0
    BY FS_EmptySet
  <1>2. Empty \in PeriodRecords /\ Empty.counted = {} /\ Empty.runs = 0
    BY DEF Empty, PeriodRecords
  <1> QED BY <1>1, <1>2 DEF RecordOK

LEMMA CloseOpen ==
  ASSUME NEW l \in Seq(LogRecords), NEW f, NEW W, NEW G, FoldInv(l, f, W, G, 0),
         f.clock \in Nat, f.through # 0, NEW g, NEW n, Closes(f, g, n)
  PROVE  PlaceOK(l, g) /\ ClockOK(l, g) /\ OpenOK(l, g) /\ WiderOK(g) /\ InPlace(l, g, 0)
  <1>0. PlaceOK(l, f) /\ ClockOK(l, f) /\ OpenOK(l, f) /\ InPlace(l, f, 0)
    BY DEF FoldInv
  <1> DEFINE E == Edge(f)
  <1>1. /\ Aligned(E) /\ Aligned(Oldest(f)) /\ Oldest(f) < E /\ Oldest(g) = E
        /\ E \in Nat /\ Oldest(f) \in Nat /\ Aligned(f.began) /\ f.began \in Nat /\ f.began <= Oldest(f)
        /\ f.through \in 1..Len(l)
        /\ \A t \in Nat : t <= E => Reaches(l, f.through, t)
        /\ \A s \in Closing(f) : /\ s \in Starts(Width) /\ Oldest(f) <= s
                                 /\ s + Width <= E /\ f.open[s].counted # {}
        /\ \A s \in Starts(Width) : f.open[s].counted # {} /\ s < E => s \in Closing(f)
    BY CloseEdges
  <1> HIDE DEF E
  <1>2. /\ DOMAIN g = FoldFields
        /\ g.first = f.first /\ g.through = f.through /\ g.clock = f.clock /\ g.began = f.began
        /\ g.missed = f.missed /\ g.missedSpans = f.missedSpans /\ g.closedThrough = E
        /\ g.open = [s \in Starts(Width) |-> IF s \in Closing(f) THEN Empty ELSE f.open[s]]
        /\ WiderOK(g)
    BY DEF Closes, E
  <1>3. PlaceOK(l, g)
    BY <1>0, <1>1, <1>2 DEF PlaceOK
  <1>4. ClockOK(l, g)
    <2>1. Reaches(l, f.through, E) /\ f.began <= E
      BY <1>1
    <2> QED BY <1>0, <1>1, <1>2, <2>1 DEF ClockOK
  <1>5. \A s \in Starts(Width) : g.open[s] = Empty \/ (g.open[s] = f.open[s] /\ s \notin Closing(f))
    BY <1>2
  <1>6. \A s, t : ReachesMissed(g, s, t) = ReachesMissed(f, s, t)
    BY <1>2 DEF ReachesMissed
  <1>7. OpenOK(l, g)
    <2>1. g.open \in [Starts(Width) -> PeriodRecords]
      BY <1>0, <1>2, EmptyRecord DEF OpenOK
    <2>2. ASSUME NEW s \in Starts(Width)
          PROVE  /\ RecordOK(l, g.through, s, g.open[s])
                 /\ g.open[s].counted # {} => Oldest(g) <= s
                 /\ \A x \in g.open[s].counted :
                      PeriodOf(l, x) = s \/ (PeriodOf(l, x) <= s /\ s <= Oldest(g))
                 /\ g.open[s].counted # {} /\ ReachesMissed(g, s, s + Width) => ~g.open[s].complete
      <3>1. CASE g.open[s] = Empty
        BY <3>1, EmptyRecord
      <3>2. CASE g.open[s] = f.open[s] /\ s \notin Closing(f)
        <4>1. RecordOK(l, g.through, s, g.open[s])
          BY <1>0, <1>2, <3>2 DEF OpenOK
        <4>2. g.open[s].counted # {} => Oldest(g) <= s
          <5>1. s \in Nat
            BY PeriodFacts
          <5> QED BY <1>1, <3>2, <5>1
        <4>3. ASSUME NEW x \in g.open[s].counted
              PROVE  PeriodOf(l, x) = s \/ (PeriodOf(l, x) <= s /\ s <= Oldest(g))
          <5>1. PeriodOf(l, x) = s \/ (PeriodOf(l, x) <= s /\ s <= Oldest(f))
            BY <1>0, <3>2, <4>3 DEF OpenOK
          <5>2. s \in Nat
            BY PeriodFacts
          <5> QED BY <1>1, <5>1, <5>2
        <4>4. g.open[s].counted # {} /\ ReachesMissed(g, s, s + Width) => ~g.open[s].complete
          BY <1>0, <1>6, <3>2 DEF OpenOK
        <4> QED BY <4>1, <4>2, <4>3, <4>4
      <3> QED BY <1>5, <3>1, <3>2
    <2>3. ASSUME NEW s \in Starts(Width), NEW t \in Starts(Width), s # t
          PROVE  g.open[s].counted \cap g.open[t].counted = {}
      <3>1. g.open[s].counted \subseteq f.open[s].counted /\ g.open[t].counted \subseteq f.open[t].counted
        BY <1>5, EmptyRecord
      <3>2. f.open[s].counted \cap f.open[t].counted = {}
        BY <1>0, <2>3 DEF OpenOK
      <3> QED BY <3>1, <3>2
    <2> QED BY <2>1, <2>2, <2>3 DEF OpenOK
  <1>8. InPlace(l, g, 0)
    <2> SUFFICES ASSUME NEW p \in 1..g.through, RunEnd(l, p), g.first <= p, Undisturbed(l, p, g.through),
                        Oldest(g) <= PeriodOf(l, p)
                 PROVE  \/ p \in g.open[PeriodOf(l, p)].counted
                        \/ ReachesMissed(g, PeriodOf(l, p), PeriodOf(l, p) + Width)
      BY DEF InPlace
    <2>1. p \in 1..f.through /\ p # 0 /\ f.first <= p /\ Undisturbed(l, p, f.through)
      BY <1>1, <1>2
    <2>2. PeriodOf(l, p) \in Starts(Width) /\ PeriodOf(l, p) \in Nat
      <3>1. PeriodOf(l, p) \in Starts(Width)
        BY <1>1, <2>1, MomentFacts
      <3> QED BY <3>1, PeriodFacts
    <2>3. Oldest(f) <= PeriodOf(l, p) /\ E <= PeriodOf(l, p)
      BY <1>1, <2>2
    <2>4. CASE p \in f.open[PeriodOf(l, p)].counted
      <3>1. PeriodOf(l, p) \notin Closing(f)
        <4> SUFFICES ASSUME PeriodOf(l, p) \in Closing(f) PROVE FALSE
          OBVIOUS
        <4>1. PeriodOf(l, p) + Width <= E
          BY <1>1
        <4> QED BY <1>1, <2>2, <2>3, <4>1, PeriodFacts
      <3> QED BY <1>2, <2>2, <2>4, <3>1
    <2>5. CASE ReachesMissed(f, PeriodOf(l, p), PeriodOf(l, p) + Width)
      BY <1>6, <2>5
    <2>6. \/ p \in f.open[PeriodOf(l, p)].counted
          \/ ReachesMissed(f, PeriodOf(l, p), PeriodOf(l, p) + Width)
      BY <1>0, <2>1, <2>3 DEF InPlace
    <2> QED BY <2>4, <2>5, <2>6
  <1> QED BY <1>2, <1>3, <1>4, <1>7, <1>8

\* What the new entries of a close are.
LEMMA ClosesEntries ==
  ASSUME NEW l \in Seq(LogRecords), NEW f, NEW W, NEW G, FoldInv(l, f, W, G, 0),
         f.clock \in Nat, f.through # 0, NEW g, NEW n, Closes(f, g, n)
  PROVE  \A i \in DOMAIN g.closed :
           LET e == g.closed[i]
           IN  /\ EntryOK(l, e.level, e.from, e) /\ e.through <= g.through
               /\ e.from + e.level <= g.closedThrough
               /\ i > Len(f.closed) => /\ e.first = f.first /\ e.through = f.through
                                       /\ Oldest(f) < e.from + e.level
                                       /\ e.level = Width => Oldest(f) <= e.from
  <1>0. PlaceOK(l, f) /\ ClockOK(l, f) /\ OpenOK(l, f) /\ ClosedOK(l, f) /\ InPlace(l, f, 0)
    BY DEF FoldInv
  <1> DEFINE E == Edge(f)
             old == Len(f.closed)
  <1>1. /\ Oldest(f) < E /\ E \in Nat /\ Oldest(f) \in Nat /\ Aligned(f.began) /\ f.began \in Nat
        /\ f.began <= Oldest(f) /\ f.closedThrough \in Int /\ f.closedThrough <= Oldest(f)
        /\ f.through \in 1..Len(l) /\ f.first \in Nat \ {0} /\ Reaches(l, f.through, f.began)
        /\ \A t \in Nat : t <= E => Reaches(l, f.through, t)
        /\ \A s \in Closing(f) : /\ s \in Starts(Width) /\ Oldest(f) <= s
                                 /\ s + Width <= E /\ f.open[s].counted # {}
    BY CloseEdges
  <1>2. /\ g.through = f.through /\ g.closedThrough = E /\ DOMAIN g.closed = 1..Len(g.closed)
        /\ Len(g.closed) \in Nat /\ DOMAIN f.closed = 1..old
        /\ n \in Nat /\ old \in Nat /\ old + n <= Len(g.closed)
        /\ \A i \in 1..old : g.closed[i] = f.closed[i]
        /\ \A i \in (old + 1)..(old + n) :
             /\ g.closed[i].level = Width /\ g.closed[i].from \in Closing(f)
             /\ g.closed[i].record = f.open[g.closed[i].from]
             /\ g.closed[i].first = f.first /\ g.closed[i].through = f.through
             /\ g.closed[i].began = f.began
        /\ \A i \in (old + n + 1)..Len(g.closed) :
             /\ g.closed[i].level = Rollup /\ g.closed[i].from \in Starts(Rollup)
             /\ g.closed[i].first = f.first /\ g.closed[i].through = f.through
             /\ g.closed[i].began = f.began
             /\ Oldest(f) < g.closed[i].from + Rollup /\ g.closed[i].from + Rollup <= E
    BY <1>0 DEF Closes, E, old, ClosedOK
  <1> HIDE DEF E, old
  <1> SUFFICES ASSUME NEW i \in DOMAIN g.closed
               PROVE  LET e == g.closed[i]
                      IN  /\ EntryOK(l, e.level, e.from, e) /\ e.through <= g.through
                          /\ e.from + e.level <= g.closedThrough
                          /\ i > old => /\ e.first = f.first /\ e.through = f.through
                                        /\ Oldest(f) < e.from + e.level
                                        /\ e.level = Width => Oldest(f) <= e.from
    BY DEF old
  <1> DEFINE e == g.closed[i]
  <1>3. CASE i \in 1..old
    <2>1. e = f.closed[i] /\ i \in DOMAIN f.closed
      BY <1>2, <1>3
    <2>2. EntryOK(l, e.level, e.from, e) /\ e.through <= f.through /\ e.from + e.level <= f.closedThrough
      BY <1>0, <2>1 DEF ClosedOK
    <2>3. e.from + e.level \in Nat
      <3>1. <<e.level, e.from>> \in PeriodKeys
        BY <2>2 DEF EntryOK
      <3> QED BY <3>1, PeriodFacts DEF PeriodKeys, Aligned
    <2>4. e.from + e.level <= E
      BY <1>1, <2>2, <2>3
    <2>5. ~(i > old)
      BY <1>2, <1>3
    <2> QED BY <1>2, <2>2, <2>4, <2>5
  <1>4. CASE i \in (old + 1)..(old + n)
    <2> DEFINE s == e.from
    <2>1. /\ e.level = Width /\ s \in Closing(f) /\ e.record = f.open[s]
          /\ e.first = f.first /\ e.through = f.through /\ e.began = f.began
      BY <1>2, <1>4
    <2>2. /\ s \in Starts(Width) /\ Oldest(f) <= s /\ s + Width <= E /\ f.open[s].counted # {}
          /\ s \in Nat /\ s + Width \in Nat /\ Width \in Nat \ {0}
      <3>1. s \in Starts(Width) /\ Oldest(f) <= s /\ s + Width <= E /\ f.open[s].counted # {}
        BY <1>1, <2>1
      <3> QED BY <3>1, PeriodFacts
    <2> HIDE DEF s
    <2>3. RecordOK(l, e.through, s, e.record)
      BY <1>0, <2>1, <2>2 DEF OpenOK
    <2>4. WholeOK(l, s, e)
      <3> SUFFICES ASSUME e.record.complete, NEW p \in 1..e.through, RunEnd(l, p), e.first <= p,
                          PeriodOf(l, p) = s, Undisturbed(l, p, e.through)
                   PROVE  p \in e.record.counted
        BY DEF WholeOK
      <3>1. /\ p \in 1..f.through /\ f.first <= p /\ Undisturbed(l, p, f.through) /\ p # 0
            /\ Oldest(f) <= PeriodOf(l, p)
        BY <1>1, <2>1, <2>2
      <3>2. p \in f.open[s].counted \/ ReachesMissed(f, s, s + Width)
        BY <1>0, <3>1 DEF InPlace
      <3>3. ~ReachesMissed(f, s, s + Width)
        BY <1>0, <2>1, <2>2 DEF OpenOK
      <3> QED BY <2>1, <3>2, <3>3
    <2>5. <<Width, s>> \in PeriodKeys
      BY <2>2 DEF PeriodKeys
    <2>6. e.through \in 1..Len(l) /\ e.first \in Nat \ {0} /\ Aligned(e.began)
      BY <1>1, <2>1
    <2>7. e.began <= s + Width /\ Oldest(f) < s + Width
      BY <1>1, <2>1, <2>2
    <2>8. Reaches(l, e.through, e.began) /\ Reaches(l, e.through, s + Width)
      BY <1>1, <2>1, <2>2
    <2>9. EntryOK(l, Width, s, e)
      BY <2>3, <2>4, <2>5, <2>6, <2>7, <2>8 DEF EntryOK
    <2>10. g.closedThrough = E /\ e.through <= g.through
      <3>1. f.through \in Nat
        BY <1>0 DEF PlaceOK
      <3> QED BY <1>2, <2>1, <3>1
    <2> QED BY <2>1, <2>2, <2>7, <2>9, <2>10 DEF s
  <1>5. CASE i \in (old + n + 1)..Len(g.closed)
    <2> DEFINE r == e.from
    <2>1. /\ e.level = Rollup /\ r \in Starts(Rollup)
          /\ e.first = f.first /\ e.through = f.through /\ e.began = f.began
          /\ Oldest(f) < r + Rollup /\ r + Rollup <= E
      BY <1>2, <1>5
    <2>2. r + Rollup \in Nat
      BY <2>1, PeriodFacts DEF Aligned
    <2>3. <<Rollup, r>> \in PeriodKeys
      BY <2>1 DEF PeriodKeys
    <2> HIDE DEF r
    <2>4. e.through \in 1..Len(l) /\ e.first \in Nat \ {0} /\ Aligned(e.began)
      BY <1>1, <2>1
    <2>5. e.began <= r + Rollup
      BY <1>1, <2>1, <2>2
    <2>6. Reaches(l, e.through, e.began) /\ Reaches(l, e.through, r + Rollup)
      BY <1>1, <2>1, <2>2
    <2>7. Rollup # Width
      BY PeriodFacts
    <2>8. EntryOK(l, Rollup, r, e)
      BY <2>3, <2>4, <2>5, <2>6, <2>7 DEF EntryOK
    <2> QED BY <1>1, <1>2, <2>1, <2>7, <2>8 DEF r
  <1> QED
    <2>1. i \in 1..Len(g.closed) /\ i \in Nat
      BY <1>2
    <2>2. i \in 1..old \/ i \in (old + 1)..(old + n) \/ i \in (old + n + 1)..Len(g.closed)
      BY <1>2, <2>1
    <2> QED BY <1>3, <1>4, <1>5, <2>2

\* The narrow entries of a close: those there were, and one for each period
\* that closed.
LEMMA ClosesNarrow ==
  ASSUME NEW l \in Seq(LogRecords), NEW f, NEW W, NEW G, FoldInv(l, f, W, G, 0),
         f.clock \in Nat, f.through # 0, NEW g, NEW n, Closes(f, g, n)
  PROVE  /\ Len(f.closed) \in Nat /\ Len(g.closed) \in Nat /\ Len(f.closed) <= Len(g.closed)
         /\ DOMAIN f.closed = 1..Len(f.closed) /\ DOMAIN g.closed = 1..Len(g.closed)
         /\ \A i \in DOMAIN f.closed : g.closed[i] = f.closed[i] /\ i \in DOMAIN g.closed
         /\ \A i \in Narrow(g) : \/ i \in Narrow(f) /\ g.closed[i] = f.closed[i]
                                 \/ /\ i \in (Len(f.closed) + 1)..(Len(f.closed) + n)
                                    /\ g.closed[i].from \in Closing(f)
                                    /\ g.closed[i].record = f.open[g.closed[i].from]
         /\ \A i \in Narrow(f) : i \in Narrow(g) /\ g.closed[i] = f.closed[i]
         /\ \A s \in Closing(f) : \E i \in Narrow(g) :
              /\ i \in (Len(f.closed) + 1)..(Len(f.closed) + n)
              /\ g.closed[i].from = s /\ g.closed[i].record = f.open[s]
         /\ n \in Nat
         /\ \A i, j \in (Len(f.closed) + 1)..(Len(f.closed) + n) :
              i < j => g.closed[i].from < g.closed[j].from
  <1> DEFINE old == Len(f.closed)
  <1>1. /\ DOMAIN g.closed = 1..Len(g.closed) /\ Len(g.closed) \in Nat /\ DOMAIN f.closed = 1..old
        /\ n \in Nat /\ old \in Nat /\ old + n <= Len(g.closed)
        /\ \A i \in 1..old : g.closed[i] = f.closed[i]
        /\ \A i \in (old + 1)..(old + n) :
             /\ g.closed[i].level = Width /\ g.closed[i].from \in Closing(f)
             /\ g.closed[i].record = f.open[g.closed[i].from]
        /\ \A s \in Closing(f) : \E i \in (old + 1)..(old + n) : g.closed[i].from = s
        /\ \A i, j \in (old + 1)..(old + n) : i < j => g.closed[i].from < g.closed[j].from
        /\ \A i \in (old + n + 1)..Len(g.closed) : g.closed[i].level = Rollup
    <2>1. ClosedOK(l, f)
      BY DEF FoldInv
    <2> QED BY <2>1 DEF Closes, ClosedOK
  <1>2. Rollup # Width
    BY PeriodFacts
  <1> HIDE DEF old
  <1>3. ASSUME NEW i \in Narrow(g)
        PROVE  \/ i \in Narrow(f) /\ g.closed[i] = f.closed[i]
               \/ /\ i \in (old + 1)..(old + n)
                  /\ g.closed[i].from \in Closing(f)
                  /\ g.closed[i].record = f.open[g.closed[i].from]
    <2>1. i \in 1..Len(g.closed) /\ g.closed[i].level = Width
      BY <1>1, <1>3 DEF Narrow
    <2>2. i \notin (old + n + 1)..Len(g.closed)
      BY <1>1, <1>2, <2>1
    <2>3. i \in 1..old \/ i \in (old + 1)..(old + n)
      BY <1>1, <2>1, <2>2
    <2> QED BY <1>1, <2>1, <2>3 DEF Narrow
  <1>4. \A i \in DOMAIN f.closed : g.closed[i] = f.closed[i] /\ i \in DOMAIN g.closed
    BY <1>1
  <1>5. \A i \in Narrow(f) : i \in Narrow(g) /\ g.closed[i] = f.closed[i]
    BY <1>4 DEF Narrow
  <1>6. ASSUME NEW s \in Closing(f)
        PROVE  \E i \in Narrow(g) : /\ i \in (old + 1)..(old + n)
                                    /\ g.closed[i].from = s /\ g.closed[i].record = f.open[s]
    <2>1. PICK i \in (old + 1)..(old + n) : g.closed[i].from = s
      BY <1>1, <1>6
    <2>2. i \in DOMAIN g.closed /\ g.closed[i].level = Width /\ g.closed[i].record = f.open[s]
      BY <1>1, <2>1
    <2> QED BY <2>1, <2>2 DEF Narrow
  <1>7. old <= Len(g.closed)
    BY <1>1
  <1>8. /\ \A i \in Narrow(g) : \/ i \in Narrow(f) /\ g.closed[i] = f.closed[i]
                                \/ /\ i \in (old + 1)..(old + n)
                                   /\ g.closed[i].from \in Closing(f)
                                   /\ g.closed[i].record = f.open[g.closed[i].from]
        /\ \A s \in Closing(f) : \E i \in Narrow(g) :
              /\ i \in (old + 1)..(old + n)
              /\ g.closed[i].from = s /\ g.closed[i].record = f.open[s]
    BY <1>3, <1>6
  <1> QED BY <1>1, <1>4, <1>5, <1>7, <1>8 DEF old

LEMMA CloseClosed ==
  ASSUME NEW l \in Seq(LogRecords), NEW f, NEW W, NEW G, FoldInv(l, f, W, G, 0),
         f.clock \in Nat, f.through # 0, NEW g, NEW n, Closes(f, g, n)
  PROVE  ClosedOK(l, g)
  <1>0. OpenOK(l, f) /\ ClosedOK(l, f)
    BY DEF FoldInv
  <1> DEFINE old == Len(f.closed)
             NewOnes == (old + 1)..(old + n)
  <1>1. /\ old \in Nat /\ DOMAIN f.closed = 1..old /\ n \in Nat
        /\ \A i \in Narrow(g) : \/ i \in Narrow(f) /\ g.closed[i] = f.closed[i]
                                \/ /\ i \in NewOnes
                                   /\ g.closed[i].from \in Closing(f)
                                   /\ g.closed[i].record = f.open[g.closed[i].from]
        /\ \A i, j \in NewOnes : i < j => g.closed[i].from < g.closed[j].from
    BY ClosesNarrow
  <1>2. /\ Oldest(f) \in Nat /\ f.closedThrough \in Int /\ f.closedThrough <= Oldest(f)
        /\ \A s \in Closing(f) : s \in Starts(Width) /\ Oldest(f) <= s /\ s \in Nat
    BY CloseEdges, PeriodFacts
  <1>3. \A i \in Narrow(f) : i \in 1..old
    BY <1>1 DEF Narrow
  <1>4. \A i \in NewOnes : i \in Nat /\ old < i
    BY <1>1
  <1> HIDE DEF old, NewOnes
  <1>5. ASSUME NEW i \in Narrow(g), NEW j \in Narrow(g), i < j
        PROVE  /\ g.closed[i].from < g.closed[j].from
               /\ g.closed[i].record.counted \cap g.closed[j].record.counted = {}
    <2>1. CASE i \in Narrow(f) /\ g.closed[i] = f.closed[i] /\ j \in Narrow(f) /\ g.closed[j] = f.closed[j]
      BY <1>0, <1>5, <2>1 DEF ClosedOK
    <2>2. CASE /\ i \in Narrow(f) /\ g.closed[i] = f.closed[i]
               /\ j \in NewOnes /\ g.closed[j].from \in Closing(f)
               /\ g.closed[j].record = f.open[g.closed[j].from]
      <3>1. g.closed[j].from \in Starts(Width) /\ Oldest(f) <= g.closed[j].from /\ g.closed[j].from \in Nat
        BY <1>2, <2>2
      <3>2. i \in DOMAIN f.closed /\ f.closed[i].level = Width
        BY <2>2 DEF Narrow
      <3>3. f.closed[i].from + Width <= f.closedThrough /\ <<Width, f.closed[i].from>> \in PeriodKeys
        BY <1>0, <3>2 DEF ClosedOK, EntryOK
      <3>4. f.closed[i].from \in Nat
        BY <3>3, PeriodFacts DEF PeriodKeys, Aligned
      <3>5. f.closed[i].from < g.closed[j].from
        <4>1. Width \in Nat \ {0}
          BY PeriodFacts
        <4>2. f.closed[i].from < Oldest(f)
          BY <1>2, <3>3, <3>4, <4>1
        <4> QED BY <1>2, <3>1, <3>4, <4>2
      <3>6. f.closed[i].record.counted \cap f.open[g.closed[j].from].counted = {}
        BY <1>0, <2>2, <3>1 DEF ClosedOK
      <3> QED BY <2>2, <3>5, <3>6
    <2>3. CASE /\ i \in NewOnes /\ g.closed[i].from \in Closing(f)
               /\ g.closed[i].record = f.open[g.closed[i].from]
               /\ j \in NewOnes /\ g.closed[j].from \in Closing(f)
               /\ g.closed[j].record = f.open[g.closed[j].from]
      <3>1. g.closed[i].from < g.closed[j].from
        BY <1>1, <1>5, <2>3
      <3>2. /\ g.closed[i].from \in Starts(Width) /\ g.closed[j].from \in Starts(Width)
            /\ g.closed[i].from # g.closed[j].from
        BY <1>2, <2>3, <3>1
      <3>3. f.open[g.closed[i].from].counted \cap f.open[g.closed[j].from].counted = {}
        BY <1>0, <3>2 DEF OpenOK
      <3> QED BY <2>3, <3>1, <3>3
    <2>4. CASE i \in NewOnes /\ j \in Narrow(f)
      BY <1>1, <1>3, <1>4, <1>5, <2>4
    <2> QED BY <1>1, <2>1, <2>2, <2>3, <2>4
  <1>6. ASSUME NEW i \in Narrow(g), NEW s \in Starts(Width)
        PROVE  g.closed[i].record.counted \cap g.open[s].counted = {}
    <2>1. g.open[s] = IF s \in Closing(f) THEN Empty ELSE f.open[s]
      BY DEF Closes
    <2>2. CASE i \in Narrow(f) /\ g.closed[i] = f.closed[i]
      BY <1>0, <2>1, <2>2, EmptyRecord DEF ClosedOK
    <2>3. CASE /\ i \in NewOnes /\ g.closed[i].from \in Closing(f)
               /\ g.closed[i].record = f.open[g.closed[i].from]
      <3>1. CASE s = g.closed[i].from
        BY <2>1, <2>3, <3>1, EmptyRecord
      <3>2. CASE s # g.closed[i].from
        <4>1. f.open[g.closed[i].from].counted \cap f.open[s].counted = {}
          BY <1>0, <1>2, <2>3, <3>2 DEF OpenOK
        <4> QED BY <2>1, <2>3, <4>1, EmptyRecord
      <3> QED BY <3>1, <3>2
    <2> QED BY <1>1, <2>2, <2>3
  <1>7. \E X : g.closed \in Seq(X)
    BY DEF Closes
  <1>8. \A i \in DOMAIN g.closed :
          LET e == g.closed[i]
          IN  /\ EntryOK(l, e.level, e.from, e) /\ e.through <= g.through
              /\ e.from + e.level <= g.closedThrough
    BY ClosesEntries
  <1> QED BY <1>5, <1>6, <1>7, <1>8 DEF ClosedOK

LEMMA ClosePassed ==
  ASSUME NEW l \in Seq(LogRecords), NEW f, NEW W, NEW G, FoldInv(l, f, W, G, 0),
         f.clock \in Nat, f.through # 0, NEW g, NEW n, Closes(f, g, n)
  PROVE  /\ Passed(l, g, W, G, 0) /\ PassedClosing(l, g, W, G)
         /\ \A x : InMemory(g, x) <=> InMemory(f, x)
  <1>0. OpenOK(l, f) /\ ClosedOK(l, f) /\ Passed(l, f, W, G, 0) /\ PassedClosing(l, f, W, G)
    BY DEF FoldInv
  <1> DEFINE old == Len(f.closed)
             NewOnes == (old + 1)..(old + n)
             E == Edge(f)
  <1>1. /\ old \in Nat /\ DOMAIN f.closed = 1..old /\ n \in Nat
        /\ DOMAIN g.closed = 1..Len(g.closed) /\ Len(g.closed) \in Nat
        /\ \A i \in DOMAIN f.closed : g.closed[i] = f.closed[i]
        /\ \A i \in Narrow(g) : \/ i \in Narrow(f) /\ g.closed[i] = f.closed[i]
                                \/ /\ i \in NewOnes
                                   /\ g.closed[i].from \in Closing(f)
                                   /\ g.closed[i].record = f.open[g.closed[i].from]
        /\ \A i \in Narrow(f) : i \in Narrow(g) /\ g.closed[i] = f.closed[i]
        /\ \A s \in Closing(f) : \E i \in Narrow(g) :
              /\ i \in NewOnes /\ g.closed[i].from = s /\ g.closed[i].record = f.open[s]
        /\ \A i, j \in NewOnes : i < j => g.closed[i].from < g.closed[j].from
    BY ClosesNarrow
  <1>2. /\ g.through = f.through /\ g.first = f.first /\ g.missed = f.missed /\ g.closedThrough = E
        /\ \A s \in Starts(Width) : g.open[s] = IF s \in Closing(f) THEN Empty ELSE f.open[s]
    BY DEF Closes
  <1>3. /\ Oldest(f) \in Nat /\ Aligned(Oldest(f)) /\ Oldest(f) < E /\ E \in Nat /\ Aligned(E)
        /\ f.through \in 1..Len(l)
        /\ \A s \in Closing(f) : s \in Starts(Width) /\ Oldest(f) <= s
        /\ \A s \in Starts(Width) : f.open[s].counted # {} /\ s < E => s \in Closing(f)
    BY CloseEdges
  <1>4. \A i \in Narrow(f) : i \in 1..old
    BY <1>1 DEF Narrow
  <1>5. \A i \in NewOnes : i \in Nat /\ old < i
    BY <1>1
  <1>6. \A i \in (old + n + 1)..Len(g.closed) : \A j \in NewOnes : j <= i
    BY <1>1
  <1>6a. \A i \in 1..Len(g.closed) : i \in 1..old \/ i \in NewOnes \/ i \in (old + n + 1)..Len(g.closed)
    BY <1>1
  <1>6b. \A i \in 1..Len(g.closed) : i > old <=> i \notin 1..old
    BY <1>1
  <1> HIDE DEF old, NewOnes, E
  <1>7. ASSUME NEW x PROVE InMemory(g, x) <=> InMemory(f, x)
    <2>1. ASSUME InMemory(f, x) PROVE InMemory(g, x)
      <3>1. CASE \E s \in Starts(Width) : x \in f.open[s].counted
        <4>1. PICK s \in Starts(Width) : x \in f.open[s].counted
          BY <3>1
        <4>2. CASE s \in Closing(f)
          <5>1. PICK i \in Narrow(g) : g.closed[i].record = f.open[s]
            BY <1>1, <4>2
          <5> QED BY <4>1, <5>1 DEF InMemory
        <4>3. CASE s \notin Closing(f)
          BY <1>2, <4>1, <4>3 DEF InMemory
        <4> QED BY <4>2, <4>3
      <3>2. CASE \E i \in Narrow(f) : x \in f.closed[i].record.counted
        BY <1>1, <3>2 DEF InMemory
      <3> QED BY <2>1, <3>1, <3>2 DEF InMemory
    <2>2. ASSUME InMemory(g, x) PROVE InMemory(f, x)
      <3>1. CASE \E s \in Starts(Width) : x \in g.open[s].counted
        BY <1>2, <3>1, EmptyRecord DEF InMemory
      <3>2. CASE \E i \in Narrow(g) : x \in g.closed[i].record.counted
        BY <1>1, <1>3, <3>2 DEF InMemory
      <3> QED BY <2>2, <3>1, <3>2 DEF InMemory
    <2> QED BY <2>1, <2>2
  <1>8. \A p : ToldMissed(g, G, p) <=> ToldMissed(f, G, p)
    BY <1>2 DEF ToldMissed
  <1>9. Passed(l, g, W, G, 0)
    BY <1>0, <1>2, <1>7, <1>8 DEF Passed
  <1>10. ASSUME NEW i \in DOMAIN g.closed, NEW p \in 1..g.closed[i].through, RunEnd(l, p),
                g.closed[i].first <= p, At(l, p) < g.closed[i].from + g.closed[i].level
         PROVE  \/ \E j \in Narrow(g) : j <= i /\ p \in g.closed[j].record.counted
                \/ p \in W \/ ToldMissed(g, G, p)
    <2>1. CASE i \in 1..old
      <3>1. g.closed[i] = f.closed[i] /\ i \in DOMAIN f.closed
        BY <1>1, <2>1
      <3>2. \/ \E j \in Narrow(f) : j <= i /\ p \in f.closed[j].record.counted
            \/ p \in W \/ ToldMissed(f, G, p)
        BY <1>0, <1>10, <3>1 DEF PassedClosing
      <3> QED BY <1>1, <1>8, <3>2
    <2>2. CASE i \notin 1..old
      <3> DEFINE e == g.closed[i]
      <3>1. /\ e.first = f.first /\ e.through = f.through
            /\ e.from + e.level <= E
            /\ e.level = Width => Oldest(f) <= e.from
        BY <1>1, <1>2, <1>6b, <2>2, ClosesEntries DEF old
      <3>2. /\ p \in 1..f.through /\ f.first <= p /\ p # 0
            /\ At(l, p) \in Nat /\ PeriodOf(l, p) \in Starts(Width) /\ PeriodOf(l, p) \in Nat
            /\ PeriodOf(l, p) <= At(l, p) /\ At(l, p) < PeriodOf(l, p) + Width
        <4>1. p \in 1..f.through /\ f.first <= p /\ p # 0 /\ p \in 1..Len(l)
          BY <1>3, <1>10, <3>1
        <4> QED BY <4>1, MomentFacts, PeriodFacts
      <3>3. InMemory(f, p) \/ p \in W \/ ToldMissed(f, G, p)
        BY <1>0, <1>10, <3>2 DEF Passed
      <3>4. CASE \E j \in Narrow(f) : p \in f.closed[j].record.counted
        <4>1. PICK j \in Narrow(f) : p \in f.closed[j].record.counted
          BY <3>4
        <4>2. j \in Narrow(g) /\ g.closed[j] = f.closed[j] /\ j <= i
          BY <1>1, <1>4, <2>2
        <4> QED BY <4>1, <4>2
      <3>5. CASE \E t \in Starts(Width) : p \in f.open[t].counted
        <4>1. PICK t \in Starts(Width) : p \in f.open[t].counted
          BY <3>5
        <4>2. t \in Nat /\ Aligned(t) /\ (PeriodOf(l, p) = t \/ (PeriodOf(l, p) <= t /\ t <= Oldest(f)))
          BY <1>0, <4>1, PeriodFacts DEF OpenOK
        <4>3. e.from + e.level \in Nat /\ <<e.level, e.from>> \in PeriodKeys
          <5>1. EntryOK(l, e.level, e.from, e)
            BY ClosesEntries
          <5>2. <<e.level, e.from>> \in PeriodKeys
            BY <5>1 DEF EntryOK
          <5> QED BY <5>2, PeriodFacts DEF PeriodKeys, Aligned
        <4>4. t < E
          <5>1. At(l, p) < e.from + e.level
            BY <1>10
          <5> HIDE DEF e
          <5>2. At(l, p) < E
            BY <1>3, <3>1, <3>2, <4>3, <5>1
          <5> QED BY <1>3, <3>2, <4>2, <5>2
        <4>5. t \in Closing(f)
          BY <1>3, <4>1, <4>4
        <4>6. PICK j \in Narrow(g) : j \in NewOnes /\ g.closed[j].from = t /\ g.closed[j].record = f.open[t]
          BY <1>1, <4>5
        <4>7. j <= i
          <5>1. CASE i \in (old + n + 1)..Len(g.closed)
            BY <1>6, <4>6, <5>1
          <5>2. CASE i \in NewOnes
            <6>1. e.level = Width /\ e.from \in Closing(f)
              BY <5>2 DEF Closes, NewOnes, old
            <6>2. e.from \in Nat /\ Aligned(e.from) /\ Oldest(f) <= e.from
              BY <1>3, <6>1, PeriodFacts
            <6>3. At(l, p) < e.from + Width
              BY <1>10, <6>1
            <6>4. t <= e.from
              <7> HIDE DEF e
              <7>1. CASE PeriodOf(l, p) = t
                <8> SUFFICES ASSUME e.from < t PROVE FALSE
                  BY <4>2, <6>2
                <8>1. e.from + Width <= t
                  BY <4>2, <6>2, PeriodFacts
                <8> QED BY <3>2, <4>2, <6>2, <6>3, <7>1, <8>1, PeriodFacts
              <7>2. CASE t <= Oldest(f)
                BY <1>3, <4>2, <6>2, <7>2
              <7> QED BY <4>2, <7>1, <7>2
            <6> SUFFICES ASSUME i < j PROVE FALSE
              BY <1>5, <4>6, <5>2
            <6>5. g.closed[i].from < g.closed[j].from
              BY <1>1, <4>6, <5>2
            <6> QED BY <4>2, <4>6, <6>2, <6>4, <6>5
          <5> QED BY <1>1, <1>6a, <2>2, <5>1, <5>2
        <4> QED BY <4>1, <4>6, <4>7
      <3> QED BY <1>8, <3>3, <3>4, <3>5 DEF InMemory
    <2> QED BY <2>1, <2>2
  <1>11. PassedClosing(l, g, W, G)
    BY <1>10 DEF PassedClosing
  <1> QED BY <1>7, <1>9, <1>11

\* g follows f: it closed more after what f had closed, later than position b.
Added(f, g) == {i \in DOMAIN g.closed : i > Len(f.closed)}
End(e) == e.from + e.level

ClosesOn(f, g, b) ==
  /\ f.through <= g.through /\ f.closedThrough <= g.closedThrough
  /\ Len(f.closed) <= Len(g.closed)
  /\ \A i \in DOMAIN f.closed : g.closed[i] = f.closed[i]
  /\ \A i \in Added(f, g) :
       /\ b < g.closed[i].through /\ f.through <= g.closed[i].through
       /\ f.closedThrough < End(g.closed[i])
       /\ g.closed[i].level = Width => f.closedThrough <= g.closed[i].from
  /\ \A i, j \in Added(f, g) :
       i <= j \/ End(g.closed[i]) <= End(g.closed[j]) =>
         g.closed[i].through <= g.closed[j].through

\* The numbers of a fold and of its entries.
LEMMA FoldNumbers ==
  ASSUME NEW l \in Seq(LogRecords), NEW f, PlaceOK(l, f), ClockOK(l, f), ClosedOK(l, f)
  PROVE  /\ f.through \in Nat /\ f.closedThrough \in Int
         /\ Len(f.closed) \in Nat /\ DOMAIN f.closed = 1..Len(f.closed)
         /\ \A i \in DOMAIN f.closed :
              /\ f.closed[i].through \in Nat /\ f.closed[i].from \in Nat
              /\ End(f.closed[i]) \in Nat /\ End(f.closed[i]) <= f.closedThrough
              /\ f.closed[i].through <= f.through
              /\ f.closed[i].level \in {Width, Rollup}
              /\ f.closed[i].level = Width => f.closed[i].from \in Starts(Width)
  <1>1. f.through \in Nat
    BY DEF PlaceOK
  <1>2. f.closedThrough \in Int
    BY PeriodFacts DEF ClockOK, Aligned
  <1>3. Len(f.closed) \in Nat /\ DOMAIN f.closed = 1..Len(f.closed)
    BY DEF ClosedOK
  <1>4. ASSUME NEW i \in DOMAIN f.closed
        PROVE  /\ f.closed[i].through \in Nat /\ f.closed[i].from \in Nat
               /\ End(f.closed[i]) \in Nat /\ End(f.closed[i]) <= f.closedThrough
               /\ f.closed[i].through <= f.through
               /\ f.closed[i].level \in {Width, Rollup}
               /\ f.closed[i].level = Width => f.closed[i].from \in Starts(Width)
    <2> DEFINE e == f.closed[i]
    <2>1. EntryOK(l, e.level, e.from, e) /\ e.through <= f.through /\ e.from + e.level <= f.closedThrough
      BY DEF ClosedOK
    <2> HIDE DEF e
    <2>2. <<e.level, e.from>> \in PeriodKeys /\ e.through \in 1..Len(l)
      BY <2>1 DEF EntryOK
    <2>3. e.from \in Nat /\ e.from + e.level \in Nat /\ e.through \in Nat
      <3>1. \/ e.level = Width /\ e.from \in Starts(Width)
            \/ e.level = Rollup /\ e.from \in Starts(Rollup)
        BY <2>2 DEF PeriodKeys
      <3>2. e.from \in Nat /\ e.level \in Nat
        BY <3>1, PeriodFacts DEF Aligned
      <3>3. e.through \in Nat
        BY <2>2
      <3> QED BY <3>2, <3>3
    <2>4. e.level = Width => e.from \in Starts(Width)
      BY <2>2, PeriodFacts DEF PeriodKeys
    <2>5. e.level \in {Width, Rollup}
      BY <2>2 DEF PeriodKeys
    <2> QED BY <2>1, <2>3, <2>4, <2>5 DEF e, End
  <1> QED BY <1>1, <1>2, <1>3, <1>4

\* A close keeps what holds of a fold, counts nothing more, and closes only at
\* the position the fold stands at.
LEMMA CloseKeeps ==
  ASSUME NEW l \in Seq(LogRecords), NEW f, NEW W, NEW G, FoldInv(l, f, W, G, 0),
         f.clock \in Nat, f.through # 0, NEW b \in Nat, b < f.through
  PROVE  /\ FoldInv(l, Close(f), W, G, 0) /\ ClosesOn(f, Close(f), b)
         /\ Close(f).through = f.through /\ Close(f).clock = f.clock
         /\ \A x : InMemory(Close(f), x) <=> InMemory(f, x)
  <1> DEFINE g == Close(f)
  <1>0. PlaceOK(l, f) /\ ClockOK(l, f) /\ OpenOK(l, f) /\ WiderOK(f) /\ ClosedOK(l, f)
    BY DEF FoldInv
  <1>0a. PICK X : f.closed \in Seq(X)
    BY <1>0 DEF ClosedOK
  <1>1. g = f \/ \E n : Closes(f, g, n)
    BY <1>0, <1>0a, CloseIs
  <1>2. /\ f.through \in Nat /\ f.closedThrough \in Int
        /\ Len(f.closed) \in Nat /\ DOMAIN f.closed = 1..Len(f.closed)
    BY <1>0, FoldNumbers
  <1> HIDE DEF g
  <1>3. CASE g = f
    <2>1. Added(f, f) = {}
      BY <1>2 DEF Added
    <2>2. ClosesOn(f, f, b)
      BY <1>2, <2>1 DEF ClosesOn
    <2> QED BY <1>3, <2>2 DEF g
  <1>4. CASE \E n : Closes(f, g, n)
    <2>1. PICK n : Closes(f, g, n)
      BY <1>4
    <2>2. PlaceOK(l, g) /\ ClockOK(l, g) /\ OpenOK(l, g) /\ WiderOK(g) /\ InPlace(l, g, 0)
      BY <2>1, CloseOpen
    <2>3. ClosedOK(l, g)
      BY <2>1, CloseClosed
    <2>4. /\ Passed(l, g, W, G, 0) /\ PassedClosing(l, g, W, G)
          /\ \A x : InMemory(g, x) <=> InMemory(f, x)
      BY <2>1, ClosePassed
    <2>5. g.through = f.through /\ g.clock = f.clock /\ g.closedThrough = Edge(f)
      BY <2>1 DEF Closes
    <2>6. ClosesOn(f, g, b)
      <3>1. Oldest(f) < Edge(f) /\ Edge(f) \in Nat /\ Oldest(f) \in Nat /\ f.closedThrough <= Oldest(f)
        BY <2>1, CloseEdges
      <3>2. /\ Len(g.closed) \in Nat /\ Len(f.closed) <= Len(g.closed)
            /\ \A i \in DOMAIN f.closed : g.closed[i] = f.closed[i]
        BY <2>1, ClosesNarrow
      <3>3. ASSUME NEW i \in Added(f, g)
            PROVE  /\ g.closed[i].through = f.through
                   /\ f.closedThrough < End(g.closed[i])
                   /\ g.closed[i].level = Width => f.closedThrough <= g.closed[i].from
        <4>1. i \in DOMAIN g.closed /\ i > Len(f.closed)
          BY <3>3 DEF Added
        <4>2. /\ g.closed[i].through = f.through /\ Oldest(f) < g.closed[i].from + g.closed[i].level
              /\ g.closed[i].level = Width => Oldest(f) <= g.closed[i].from
          BY <2>1, <4>1, ClosesEntries
        <4>3. End(g.closed[i]) \in Nat /\ g.closed[i].from \in Nat
          BY <2>2, <2>3, <4>1, FoldNumbers
        <4> QED BY <1>2, <3>1, <4>2, <4>3 DEF End
      <3>4. f.through <= g.through /\ f.closedThrough <= g.closedThrough
        BY <1>2, <2>5, <3>1
      <3>5. f.through <= f.through
        BY <1>2
      <3> QED BY <1>2, <3>2, <3>3, <3>4, <3>5 DEF ClosesOn
    <2>7. FoldInv(l, g, W, G, 0)
      BY <2>2, <2>3, <2>4 DEF FoldInv
    <2> QED BY <2>4, <2>5, <2>6, <2>7 DEF g
  <1> QED BY <1>1, <1>3, <1>4

\* What a fold closed after another and after a third one.
LEMMA ClosesOnFrom ==
  ASSUME NEW l \in Seq(LogRecords), NEW f, NEW g, NEW h,
         PlaceOK(l, f), ClockOK(l, f), ClosedOK(l, f),
         PlaceOK(l, g), ClockOK(l, g), ClosedOK(l, g),
         PlaceOK(l, h), ClockOK(l, h), ClosedOK(l, h),
         NEW b \in Nat, ClosesOn(f, g, b), ClosesOn(g, h, b)
  PROVE  ClosesOn(f, h, b)
  <1>1. /\ f.through \in Nat /\ f.closedThrough \in Int
        /\ Len(f.closed) \in Nat /\ DOMAIN f.closed = 1..Len(f.closed)
    BY FoldNumbers
  <1>2. /\ g.through \in Nat /\ g.closedThrough \in Int
        /\ Len(g.closed) \in Nat /\ DOMAIN g.closed = 1..Len(g.closed)
        /\ \A i \in DOMAIN g.closed :
              /\ g.closed[i].through \in Nat /\ g.closed[i].from \in Nat
              /\ End(g.closed[i]) \in Nat /\ End(g.closed[i]) <= g.closedThrough
              /\ g.closed[i].through <= g.through
    BY FoldNumbers
  <1>3. /\ h.through \in Nat /\ h.closedThrough \in Int
        /\ Len(h.closed) \in Nat /\ DOMAIN h.closed = 1..Len(h.closed)
        /\ \A i \in DOMAIN h.closed :
              /\ h.closed[i].through \in Nat /\ h.closed[i].from \in Nat
              /\ End(h.closed[i]) \in Nat /\ End(h.closed[i]) <= h.closedThrough
              /\ h.closed[i].through <= h.through
    BY FoldNumbers
  <1>4. f.through <= h.through /\ f.closedThrough <= h.closedThrough /\ Len(f.closed) <= Len(h.closed)
    <2>1. /\ f.through <= g.through /\ f.closedThrough <= g.closedThrough /\ Len(f.closed) <= Len(g.closed)
          /\ g.through <= h.through /\ g.closedThrough <= h.closedThrough /\ Len(g.closed) <= Len(h.closed)
      BY DEF ClosesOn
    <2>2. /\ f.through \in Nat /\ g.through \in Nat /\ h.through \in Nat
          /\ f.closedThrough \in Int /\ g.closedThrough \in Int /\ h.closedThrough \in Int
          /\ Len(f.closed) \in Nat /\ Len(g.closed) \in Nat /\ Len(h.closed) \in Nat
      BY <1>1, <1>2, <1>3
    <2>3. f.through <= h.through
      BY <2>1, <2>2
    <2>4. f.closedThrough <= h.closedThrough
      BY <2>1, <2>2
    <2>5. Len(f.closed) <= Len(h.closed)
      BY <2>1, <2>2
    <2> QED BY <2>3, <2>4, <2>5
  <1>5. \A i \in DOMAIN f.closed : i \in DOMAIN g.closed /\ h.closed[i] = f.closed[i]
    BY <1>1, <1>2 DEF ClosesOn
  <1>6. ASSUME NEW i \in Added(f, h)
        PROVE  \/ i \in Added(f, g) /\ h.closed[i] = g.closed[i] /\ i \in DOMAIN g.closed
               \/ i \in Added(g, h)
    <2>1. i \in DOMAIN h.closed /\ i > Len(f.closed) /\ i \in Nat
      BY <1>3 DEF Added
    <2>2. CASE i > Len(g.closed)
      BY <2>1, <2>2 DEF Added
    <2>3. CASE ~(i > Len(g.closed))
      <3>1. i \in DOMAIN g.closed
        BY <1>2, <1>3, <2>1, <2>3
      <3> QED BY <2>1, <3>1 DEF Added, ClosesOn
    <2> QED BY <2>2, <2>3
  <1>7. ASSUME NEW i \in Added(f, h)
        PROVE  /\ b < h.closed[i].through /\ f.through <= h.closed[i].through
               /\ f.closedThrough < End(h.closed[i])
               /\ h.closed[i].level = Width => f.closedThrough <= h.closed[i].from
    <2>1. CASE i \in Added(f, g) /\ h.closed[i] = g.closed[i]
      BY <2>1 DEF ClosesOn
    <2>2. CASE i \in Added(g, h)
      <3>1. /\ b < h.closed[i].through /\ g.through <= h.closed[i].through
            /\ g.closedThrough < End(h.closed[i])
            /\ h.closed[i].level = Width => g.closedThrough <= h.closed[i].from
        BY <2>2 DEF ClosesOn
      <3>2. f.through <= g.through /\ f.closedThrough <= g.closedThrough
        BY DEF ClosesOn
      <3>3. /\ h.closed[i].through \in Nat /\ h.closed[i].from \in Nat /\ End(h.closed[i]) \in Nat
        BY <1>3, <2>2 DEF Added
      <3>4. /\ f.through \in Nat /\ f.closedThrough \in Int /\ g.through \in Nat /\ g.closedThrough \in Int
        BY <1>1, <1>2
      <3> QED BY <3>1, <3>2, <3>3, <3>4
    <2> QED BY <1>6, <2>1, <2>2
  <1>8. ASSUME NEW i \in Added(f, h), NEW j \in Added(f, h),
               i <= j \/ End(h.closed[i]) <= End(h.closed[j])
        PROVE  h.closed[i].through <= h.closed[j].through
    <2>1. CASE /\ i \in Added(f, g) /\ h.closed[i] = g.closed[i]
               /\ j \in Added(f, g) /\ h.closed[j] = g.closed[j]
      BY <1>8, <2>1 DEF ClosesOn
    <2>2. CASE /\ i \in Added(f, g) /\ h.closed[i] = g.closed[i] /\ i \in DOMAIN g.closed
               /\ j \in Added(g, h)
      <3>1. g.closed[i].through <= g.through /\ g.closed[i].through \in Nat
        BY <1>2, <2>2
      <3>2. g.through <= h.closed[j].through /\ h.closed[j].through \in Nat
        BY <1>3, <2>2 DEF ClosesOn, Added
      <3> QED BY <1>2, <2>2, <3>1, <3>2
    <2>3. CASE /\ i \in Added(g, h)
               /\ j \in Added(f, g) /\ h.closed[j] = g.closed[j] /\ j \in DOMAIN g.closed
      <3>1. i > Len(g.closed) /\ i \in Nat /\ j \in Nat /\ j <= Len(g.closed)
        BY <1>2, <1>3, <2>3 DEF Added
      <3>2. g.closedThrough < End(h.closed[i]) /\ End(h.closed[i]) \in Nat
        BY <1>3, <2>3 DEF ClosesOn, Added
      <3>3. End(h.closed[j]) <= g.closedThrough /\ End(h.closed[j]) \in Nat
        BY <1>2, <2>3
      <3> QED BY <1>2, <1>8, <3>1, <3>2, <3>3
    <2>4. CASE i \in Added(g, h) /\ j \in Added(g, h)
      BY <1>8, <2>4 DEF ClosesOn
    <2> QED BY <1>6, <2>1, <2>2, <2>3, <2>4
  <1> QED BY <1>4, <1>5, <1>7, <1>8 DEF ClosesOn

-----------------------------------------------------------------------------
(* Handing a fold the record at a position. *)

\* The fold once it passed on to position p, before it folds what lies there.
ToldBefore(f, p) ==
  IF f.through # 0 /\ p > f.through + 1 THEN MissedBefore(f, f.through, p, Msg[log[p].msg].at)
  ELSE f
BegunAt(f, p) ==
  [ToldBefore(f, p) EXCEPT !.through = p,
                           !.first = IF @ = 0 THEN p ELSE @,
                           !.began = IF @ = None THEN Floor(Msg[log[p].msg].at, Width) ELSE @]
FoldedAt(f, p) ==
  [FoldEvent(BegunAt(f, p), p) EXCEPT !.clock = Max2(@, Msg[log[p].msg].at)]

\* The span a fold marks when it is told of a gap before p.
NewSpans(l, f, p) ==
  IF f.through # 0 /\ p > f.through + 1 THEN {<<MissedFrom(f, At(l, p)), At(l, p)>>} ELSE {}
NewGaps(f, p) ==
  IF f.through # 0 /\ p > f.through + 1 THEN {<<f.through + 1, p - 1>>} ELSE {}

\* b is f told of what lies before p, and standing at p.
Begins(l, f, b, p) ==
  /\ DOMAIN b = FoldFields
  /\ b.through = p /\ b.first = (IF f.first = 0 THEN p ELSE f.first)
  /\ b.began = (IF f.began = None THEN PeriodOf(l, p) ELSE f.began)
  /\ b.clock = f.clock /\ b.closedThrough = f.closedThrough /\ b.closed = f.closed
  /\ b.missed = f.missed \cup NewGaps(f, p) /\ b.missedSpans = f.missedSpans \cup NewSpans(l, f, p)
  /\ DOMAIN b.rollups = DOMAIN f.rollups
  /\ \A r \in DOMAIN f.rollups : /\ DOMAIN b.rollups[r] = DOMAIN f.rollups[r]
                                 /\ b.rollups[r].counted = f.rollups[r].counted
  /\ b.open \in [Starts(Width) -> PeriodRecords]
  /\ \A s \in Starts(Width) :
       /\ b.open[s].counted = f.open[s].counted /\ b.open[s].runs = f.open[s].runs
       /\ f.open[s].counted # {} /\ b.open[s].complete =>
            /\ f.open[s].complete
            /\ \A span \in NewSpans(l, f, p) : ~Overlaps(span, s, s + Width)

LEMMA BegunBegins ==
  ASSUME log \in Seq(LogRecords), NEW f, PlaceOK(log, f), OpenOK(log, f), WiderOK(f), NEW p \in 1..Len(log)
  PROVE  Begins(log, f, BegunAt(f, p), p)
  <1> DEFINE bound == At(log, p)
             from == MissedFrom(f, bound)
             t == ToldBefore(f, p)
             b == BegunAt(f, p)
  <1>1. DOMAIN f = FoldFields /\ DOMAIN f.rollups = Starts(Rollup) /\ f.open \in [Starts(Width) -> PeriodRecords]
        /\ \A r \in Starts(Rollup) : DOMAIN f.rollups[r] = {"counted", "runs", "complete"}
    BY DEF PlaceOK, OpenOK, WiderOK
  <1>2. CASE ~(f.through # 0 /\ p > f.through + 1)
    <2>1. t = f /\ NewSpans(log, f, p) = {} /\ NewGaps(f, p) = {}
      BY <1>2 DEF ToldBefore, NewSpans, NewGaps
    <2>2. b = [f EXCEPT !.through = p, !.first = IF @ = 0 THEN p ELSE @,
                        !.began = IF @ = None THEN PeriodOf(log, p) ELSE @]
      BY <2>1 DEF BegunAt, PeriodOf, At
    <2> HIDE DEF b
    <2>3. /\ DOMAIN b = FoldFields
          /\ b.through = p /\ b.first = (IF f.first = 0 THEN p ELSE f.first)
          /\ b.began = (IF f.began = None THEN PeriodOf(log, p) ELSE f.began)
          /\ b.clock = f.clock /\ b.closedThrough = f.closedThrough /\ b.closed = f.closed
          /\ b.missed = f.missed /\ b.missedSpans = f.missedSpans
          /\ b.rollups = f.rollups /\ b.open = f.open
      BY <1>1, <2>2 DEF FoldFields
    <2> QED BY <1>1, <2>1, <2>3 DEF Begins, b
  <1>3. CASE f.through # 0 /\ p > f.through + 1
    <2>1. NewSpans(log, f, p) = {<<from, bound>>} /\ NewGaps(f, p) = {<<f.through + 1, p - 1>>}
      BY <1>3 DEF NewSpans, NewGaps
    <2>2. t = [f EXCEPT !.missed = @ \cup {<<f.through + 1, p - 1>>},
                        !.missedSpans = @ \cup {<<from, bound>>},
                        !.open = Incomplete(@, Reached(Width, from, bound)),
                        !.rollups = Incomplete(@, Reached(Rollup, from, bound))]
      BY <1>3 DEF ToldBefore, MissedBefore, At
    <2>3. b = [t EXCEPT !.through = p, !.first = IF @ = 0 THEN p ELSE @,
                        !.began = IF @ = None THEN PeriodOf(log, p) ELSE @]
      BY DEF BegunAt, PeriodOf, At
    <2> HIDE DEF b, t
    <2>4. /\ DOMAIN t = FoldFields
          /\ t.first = f.first /\ t.began = f.began
          /\ t.clock = f.clock /\ t.closedThrough = f.closedThrough /\ t.closed = f.closed
          /\ t.missed = f.missed \cup {<<f.through + 1, p - 1>>}
          /\ t.missedSpans = f.missedSpans \cup {<<from, bound>>}
          /\ t.rollups = Incomplete(f.rollups, Reached(Rollup, from, bound))
          /\ t.open = Incomplete(f.open, Reached(Width, from, bound))
      BY <1>1, <2>2 DEF FoldFields
    <2>5. /\ DOMAIN b = FoldFields
          /\ b.through = p /\ b.first = (IF f.first = 0 THEN p ELSE f.first)
          /\ b.began = (IF f.began = None THEN PeriodOf(log, p) ELSE f.began)
          /\ b.clock = f.clock /\ b.closedThrough = f.closedThrough /\ b.closed = f.closed
          /\ b.missed = t.missed /\ b.missedSpans = t.missedSpans
          /\ b.rollups = t.rollups /\ b.open = t.open
      BY <2>3, <2>4 DEF FoldFields
    <2>6. /\ DOMAIN b.rollups = DOMAIN f.rollups
          /\ \A r \in DOMAIN f.rollups : /\ DOMAIN b.rollups[r] = DOMAIN f.rollups[r]
                                         /\ b.rollups[r].counted = f.rollups[r].counted
      <3>1. b.rollups = [r \in DOMAIN f.rollups |->
                           IF r \in Reached(Rollup, from, bound) /\ f.rollups[r].counted # {}
                           THEN [f.rollups[r] EXCEPT !.complete = FALSE] ELSE f.rollups[r]]
        BY <2>4, <2>5 DEF Incomplete
      <3>2. ASSUME NEW r \in DOMAIN f.rollups
            PROVE  /\ DOMAIN b.rollups[r] = DOMAIN f.rollups[r]
                   /\ b.rollups[r].counted = f.rollups[r].counted
        <4>1. DOMAIN f.rollups[r] = {"counted", "runs", "complete"}
          BY <1>1
        <4>2. b.rollups[r] = f.rollups[r] \/ b.rollups[r] = [f.rollups[r] EXCEPT !.complete = FALSE]
          BY <3>1
        <4> QED BY <4>1, <4>2
      <3> QED BY <3>1, <3>2
    <2>7. ASSUME NEW s \in Starts(Width)
          PROVE  /\ b.open[s] \in PeriodRecords
                 /\ b.open[s].counted = f.open[s].counted /\ b.open[s].runs = f.open[s].runs
                 /\ f.open[s].counted # {} /\ b.open[s].complete =>
                      /\ f.open[s].complete
                      /\ \A span \in NewSpans(log, f, p) : ~Overlaps(span, s, s + Width)
      <3>1. b.open[s] = IF s \in Reached(Width, from, bound) /\ f.open[s].counted # {}
                        THEN [f.open[s] EXCEPT !.complete = FALSE] ELSE f.open[s]
        BY <1>1, <2>4, <2>5 DEF Incomplete
      <3>2. f.open[s] \in PeriodRecords
        BY <1>1
      <3>3. CASE s \in Reached(Width, from, bound) /\ f.open[s].counted # {}
        <4>1. b.open[s] = [f.open[s] EXCEPT !.complete = FALSE]
          BY <3>1, <3>3
        <4> QED BY <3>2, <4>1 DEF PeriodRecords
      <3>4. CASE ~(s \in Reached(Width, from, bound) /\ f.open[s].counted # {})
        <4>1. b.open[s] = f.open[s]
          BY <3>1, <3>4
        <4>2. f.open[s].counted # {} => ~Overlaps(<<from, bound>>, s, s + Width)
          <5> HIDE DEF from, bound
          <5> QED BY <3>4 DEF Reached, Overlaps
        <4> QED BY <2>1, <3>2, <4>1, <4>2
      <3> QED BY <3>3, <3>4
    <2>8. b.open \in [Starts(Width) -> PeriodRecords]
      <3>1. b.open = [s \in Starts(Width) |-> b.open[s]]
        BY <1>1, <2>4, <2>5 DEF Incomplete
      <3> QED BY <2>7, <3>1
    <2> QED BY <2>1, <2>4, <2>5, <2>6, <2>7, <2>8 DEF Begins, b
  <1> QED BY <1>2, <1>3

LEMMA ReachesFurther ==
  ASSUME NEW l, NEW m \in Int, NEW n \in Int, m <= n, NEW t, Reaches(l, m, t)
  PROVE  Reaches(l, n, t)
  BY DEF Reaches

\* What a record counts of the first positions it counts of more of them.
LEMMA RecordFurther ==
  ASSUME NEW l, NEW m \in Int, NEW n \in Int, m <= n, NEW s, NEW r, RecordOK(l, m, s, r)
  PROVE  RecordOK(l, n, s, r)
  <1>1. \A x : x \in 1..m => x \in 1..n
    OBVIOUS
  <1> QED BY <1>1 DEF RecordOK

\* What a new fold is.
LEMMA NewFoldIs ==
  /\ NewFold.through = 0 /\ NewFold.first = 0 /\ NewFold.clock = None /\ NewFold.began = None
  /\ NewFold.closedThrough = None /\ NewFold.missed = {} /\ NewFold.missedSpans = {}
  /\ NewFold.closed = <<>> /\ DOMAIN NewFold = FoldFields
  /\ NewFold.open = [s \in Starts(Width) |-> Empty]
  /\ NewFold.rollups = [s \in Starts(Rollup) |-> Empty]
  BY DEF NewFold, FoldFields

LEMMA BeginsKeeps ==
  ASSUME NEW l \in Seq(LogRecords), NEW f, NEW W, NEW G, FoldInv(l, f, W, G, 0),
         NEW p \in 1..Len(l), f.through < p, NEW b, Begins(l, f, b, p)
  PROVE  /\ FoldInv(l, b, W, G, p)
         /\ \A x : InMemory(b, x) <=> InMemory(f, x)
         /\ ~InMemory(b, p)
  <1>0. PlaceOK(l, f) /\ ClockOK(l, f) /\ OpenOK(l, f) /\ WiderOK(f) /\ ClosedOK(l, f)
        /\ InPlace(l, f, 0) /\ Passed(l, f, W, G, 0) /\ PassedClosing(l, f, W, G)
    BY DEF FoldInv
  <1>1. /\ DOMAIN b = FoldFields
        /\ b.through = p /\ b.first = (IF f.first = 0 THEN p ELSE f.first)
        /\ b.began = (IF f.began = None THEN PeriodOf(l, p) ELSE f.began)
        /\ b.clock = f.clock /\ b.closedThrough = f.closedThrough /\ b.closed = f.closed
        /\ b.missed = f.missed \cup NewGaps(f, p) /\ b.missedSpans = f.missedSpans \cup NewSpans(l, f, p)
        /\ DOMAIN b.rollups = DOMAIN f.rollups
        /\ \A r \in DOMAIN f.rollups : /\ DOMAIN b.rollups[r] = DOMAIN f.rollups[r]
                                       /\ b.rollups[r].counted = f.rollups[r].counted
        /\ b.open \in [Starts(Width) -> PeriodRecords]
        /\ \A s \in Starts(Width) :
             /\ b.open[s].counted = f.open[s].counted /\ b.open[s].runs = f.open[s].runs
             /\ f.open[s].counted # {} /\ b.open[s].complete =>
                  /\ f.open[s].complete
                  /\ \A span \in NewSpans(l, f, p) : ~Overlaps(span, s, s + Width)
    BY DEF Begins
  <1>2. /\ f.through \in 0..Len(l) /\ f.through \in Nat /\ p \in Nat \ {0} /\ Len(l) \in Nat
        /\ f.first \in 0..(f.through + 1) /\ (f.through # 0 => f.first # 0 /\ f.began # None)
        /\ (f.through = 0 => f = NewFold) /\ f.closedThrough \in Int
    BY <1>0, PeriodFacts DEF PlaceOK, ClockOK, Aligned
  <1>3. /\ At(l, p) \in Nat /\ PeriodOf(l, p) \in Starts(Width) /\ Aligned(PeriodOf(l, p))
        /\ PeriodOf(l, p) \in Nat /\ PeriodOf(l, p) <= At(l, p)
    BY MomentFacts, PeriodFacts
  <1>4. /\ f.through # 0 => b.began = f.began /\ Oldest(b) = Oldest(f) /\ b.first = f.first
        /\ f.through # 0 => Oldest(f) \in Nat
    <2>1. ASSUME f.through # 0
          PROVE  b.began = f.began /\ b.first = f.first /\ f.began \in Nat
      BY <1>0, <1>1, <1>2, <2>1 DEF ClockOK, Aligned
    <2> QED BY <1>1, <1>2, <2>1, PeriodFacts DEF Oldest, Max2, ClockOK, Aligned
  \* What a fold knows of the time lies no later than what it passed.
  <1>5. ASSUME f.through # 0
        PROVE  LET from == MissedFrom(f, At(l, p))
               IN  from \in Nat /\ (from <= At(l, p)) /\ Reaches(l, f.through, from)
    <2> DEFINE known == IF f.clock # None THEN f.clock
                        ELSE IF f.closedThrough # None THEN f.closedThrough
                        ELSE IF f.began # None THEN f.began ELSE At(l, p)
               from == MissedFrom(f, At(l, p))
    <2>1. known \in Nat /\ Reaches(l, f.through, known)
      BY <1>0, <1>2, <1>5 DEF ClockOK, Aligned
    <2>2. from = IF known <= At(l, p) THEN known ELSE At(l, p)
      BY DEF MissedFrom
    <2> HIDE DEF known, from
    <2>3. from \in Nat /\ from <= At(l, p) /\ from <= known
      BY <1>3, <2>1, <2>2
    <2>4. PICK a \in 1..f.through : known <= At(l, a)
      BY <2>1 DEF Reaches
    <2>5. At(l, a) \in Nat
      <3>1. a \in 1..Len(l)
        BY <1>2
      <3> QED BY <3>1, MomentFacts
    <2>6. from <= At(l, a)
      BY <2>1, <2>3, <2>4, <2>5
    <2> QED BY <2>3, <2>6 DEF Reaches, from
  <1>6. PlaceOK(l, b)
    <2>1. b.through \in 0..Len(l) /\ b.first \in 0..(b.through + 1) /\ b.through # 0 /\ b.first # 0
      BY <1>1, <1>2
    <2>2. NewGaps(f, p) \in SUBSET (Nat \X Nat)
      BY <1>2 DEF NewGaps
    <2>3. NewSpans(l, f, p) \in SUBSET (Nat \X Nat)
      BY <1>3, <1>5 DEF NewSpans
    <2>4. f.missed \in SUBSET (Nat \X Nat) /\ f.missedSpans \in SUBSET (Nat \X Nat)
      BY <1>0 DEF PlaceOK
    <2> QED BY <1>1, <2>1, <2>2, <2>3, <2>4 DEF PlaceOK
  <1>7. \A t : Reaches(l, f.through, t) => Reaches(l, p, t)
    BY <1>2, ReachesFurther
  <1>8. ClockOK(l, b)
    <2>1. Reaches(l, p, PeriodOf(l, p))
      BY <1>2, <1>3 DEF Reaches
    <2>2. CASE f.through = 0
      <3>1. f.clock = None /\ f.began = None /\ f.closedThrough = None
        BY <1>2, <2>2, NewFoldIs
      <3>2. PeriodOf(l, p) # None
        BY <1>3, PeriodFacts
      <3> QED BY <1>1, <1>3, <2>1, <3>1, <3>2 DEF ClockOK
    <2>3. CASE f.through # 0
      <3>1. b.began = f.began
        BY <1>4, <2>3
      <3> QED BY <1>0, <1>1, <1>2, <1>7, <2>3, <3>1 DEF ClockOK
    <2> QED BY <2>2, <2>3
  <1>9. ASSUME NEW s \in Starts(Width) PROVE f.open[s].counted # {} => f.through # 0
    BY <1>2, NewFoldIs, EmptyRecord
  <1>10. \A s, t : ReachesMissed(b, s, t) <=>
                     ReachesMissed(f, s, t) \/ \E span \in NewSpans(l, f, p) : Overlaps(span, s, t)
    BY <1>1 DEF ReachesMissed
  <1>11. OpenOK(l, b)
    <2>1. ASSUME NEW s \in Starts(Width)
          PROVE  /\ RecordOK(l, p, s, b.open[s])
                 /\ b.open[s].counted # {} => Oldest(b) <= s
                 /\ \A x \in b.open[s].counted :
                      PeriodOf(l, x) = s \/ (PeriodOf(l, x) <= s /\ s <= Oldest(b))
                 /\ b.open[s].counted # {} /\ ReachesMissed(b, s, s + Width) => ~b.open[s].complete
      <3>1. RecordOK(l, f.through, s, f.open[s])
        BY <1>0 DEF OpenOK
      <3>2. RecordOK(l, p, s, f.open[s])
        BY <1>2, <3>1, RecordFurther
      <3>3. b.open[s] \in PeriodRecords /\ b.open[s].counted = f.open[s].counted
            /\ b.open[s].runs = f.open[s].runs
        BY <1>1
      <3>4. RecordOK(l, p, s, b.open[s])
        BY <3>2, <3>3 DEF RecordOK
      <3>5. b.open[s].counted # {} => Oldest(b) <= s
        BY <1>0, <1>4, <1>9, <3>3 DEF OpenOK
      <3>6. \A x \in b.open[s].counted :
               PeriodOf(l, x) = s \/ (PeriodOf(l, x) <= s /\ s <= Oldest(b))
        BY <1>0, <1>4, <1>9, <3>3 DEF OpenOK
      <3>7. b.open[s].counted # {} /\ ReachesMissed(b, s, s + Width) => ~b.open[s].complete
        BY <1>0, <1>1, <1>10, <3>3 DEF OpenOK
      <3> QED BY <3>4, <3>5, <3>6, <3>7
    <2>2. \A s, t \in Starts(Width) : s # t => b.open[s].counted \cap b.open[t].counted = {}
      BY <1>0, <1>1 DEF OpenOK
    <2> QED BY <1>1, <2>1, <2>2 DEF OpenOK
  <1>12. WiderOK(b)
    <2>1. DOMAIN f.rollups = Starts(Rollup)
      BY <1>0 DEF WiderOK
    <2>2. ASSUME NEW r \in Starts(Rollup)
          PROVE  /\ DOMAIN b.rollups[r] = {"counted", "runs", "complete"}
                 /\ b.rollups[r].counted # {} => Oldest(b) < r + Rollup
      <3>1. /\ DOMAIN b.rollups[r] = {"counted", "runs", "complete"}
            /\ b.rollups[r].counted = f.rollups[r].counted
        BY <1>0, <1>1, <2>1 DEF WiderOK
      <3>2. f.rollups[r].counted # {} => f.through # 0
        BY <1>2, NewFoldIs, EmptyRecord
      <3> QED BY <1>0, <1>4, <3>1, <3>2 DEF WiderOK
    <2> QED BY <1>1, <2>1, <2>2 DEF WiderOK
  <1>13. Narrow(b) = Narrow(f)
    BY <1>1 DEF Narrow
  <1>14. ClosedOK(l, b)
    <2>1. \A i \in DOMAIN f.closed : f.closed[i].through \in Nat /\ f.closed[i].through <= f.through
      BY <1>0, FoldNumbers
    <2>2. \A i \in DOMAIN f.closed : f.closed[i].through <= p
      BY <1>2, <2>1
    <2>3. \A i \in DOMAIN b.closed :
            LET e == b.closed[i]
            IN  /\ EntryOK(l, e.level, e.from, e) /\ e.through <= b.through
                /\ e.from + e.level <= b.closedThrough
      BY <1>0, <1>1, <2>2 DEF ClosedOK
    <2>4. \A i, j \in Narrow(b) : i < j => /\ b.closed[i].from < b.closed[j].from
                                           /\ b.closed[i].record.counted \cap b.closed[j].record.counted = {}
      BY <1>0, <1>1, <1>13 DEF ClosedOK
    <2>5. \A i \in Narrow(b) : \A s \in Starts(Width) :
            b.closed[i].record.counted \cap b.open[s].counted = {}
      BY <1>0, <1>1, <1>13 DEF ClosedOK
    <2>6. \E X : b.closed \in Seq(X)
      BY <1>0, <1>1 DEF ClosedOK
    <2> QED BY <2>3, <2>4, <2>5, <2>6 DEF ClosedOK
  <1>15. \A x : InMemory(b, x) <=> InMemory(f, x)
    BY <1>1, <1>13 DEF InMemory
  <1>16. ~InMemory(b, p)
    <2>1. ASSUME NEW s \in Starts(Width) PROVE p \notin f.open[s].counted
      <3>1. \A x \in f.open[s].counted : x \in 1..f.through
        BY <1>0 DEF OpenOK, RecordOK
      <3> QED BY <1>2, <3>1
    <2>2. ASSUME NEW i \in Narrow(f) PROVE p \notin f.closed[i].record.counted
      <3>1. i \in DOMAIN f.closed /\ f.closed[i].level = Width
        BY DEF Narrow
      <3>2. \A x \in f.closed[i].record.counted : x \in 1..f.closed[i].through
        BY <1>0, <3>1 DEF ClosedOK, EntryOK, RecordOK
      <3>3. f.closed[i].through \in Nat /\ f.closed[i].through <= f.through
        BY <1>0, <3>1, FoldNumbers
      <3> QED BY <1>2, <3>2, <3>3
    <2> QED BY <1>15, <2>1, <2>2 DEF InMemory
  <1>17. \A q : ToldMissed(f, G, q) => ToldMissed(b, G, q)
    BY <1>1 DEF ToldMissed
  <1>18. PassedClosing(l, b, W, G)
    BY <1>0, <1>1, <1>13, <1>17 DEF PassedClosing
  <1>19. ASSUME NEW q \in 1..p, q # p, f.through < q, b.first <= q
         PROVE  f.through # 0 /\ p > f.through + 1 /\ q \in (f.through + 1)..(p - 1)
    <2>1. q \in (f.through + 1)..(p - 1) /\ p > f.through + 1
      BY <1>2, <1>19
    <2>2. f.through # 0
      <3> SUFFICES ASSUME f.through = 0 PROVE FALSE
        OBVIOUS
      <3>1. b.first = p
        BY <1>1, <1>2, NewFoldIs
      <3> QED BY <1>19, <2>1, <3>1
    <2> QED BY <2>1, <2>2
  <1>20. Passed(l, b, W, G, p)
    <2> SUFFICES ASSUME NEW q \in 1..p, RunEnd(l, q), b.first <= q, q # p
                 PROVE  InMemory(b, q) \/ q \in W \/ ToldMissed(b, G, q)
      BY <1>1 DEF Passed
    <2>1. CASE q <= f.through
      <3>1. q \in 1..f.through /\ f.through # 0 /\ q # 0
        BY <1>2, <2>1
      <3>2. f.first <= q
        BY <1>4, <3>1
      <3> QED BY <1>0, <1>15, <1>17, <3>1, <3>2 DEF Passed
    <2>2. CASE f.through < q
      <3>1. f.through # 0 /\ p > f.through + 1 /\ q \in (f.through + 1)..(p - 1)
        BY <1>19, <2>2
      <3>2. <<f.through + 1, p - 1>> \in b.missed
        BY <1>1, <3>1 DEF NewGaps
      <3>3. q \in Span(<<f.through + 1, p - 1>>)
        BY <3>1 DEF Span
      <3> QED BY <3>2, <3>3 DEF ToldMissed
    <2> QED BY <1>2, <2>1, <2>2
  <1>21. InPlace(l, b, p)
    <2> SUFFICES ASSUME NEW q \in 1..p, RunEnd(l, q), b.first <= q, q # p, Undisturbed(l, q, p),
                        Oldest(b) <= PeriodOf(l, q)
                 PROVE  \/ q \in b.open[PeriodOf(l, q)].counted
                        \/ ReachesMissed(b, PeriodOf(l, q), PeriodOf(l, q) + Width)
      BY <1>1 DEF InPlace
    <2>0. /\ q \in 1..Len(l) /\ At(l, q) \in Nat /\ PeriodOf(l, q) \in Starts(Width)
          /\ PeriodOf(l, q) <= At(l, q) /\ At(l, q) < PeriodOf(l, q) + Width
          /\ PeriodOf(l, q) \in Nat
      <3>1. q \in 1..Len(l)
        BY <1>2
      <3> QED BY <3>1, MomentFacts, PeriodFacts
    <2>1. CASE q <= f.through
      <3>1. q \in 1..f.through /\ f.through # 0 /\ q # 0
        BY <1>2, <2>1
      <3>2. Undisturbed(l, q, f.through)
        <4>1. \A x \in (q + 1)..f.through : x \in (q + 1)..p
          BY <1>2
        <4> QED BY <4>1 DEF Undisturbed
      <3>3. f.first <= q /\ Oldest(f) <= PeriodOf(l, q)
        BY <1>4, <3>1
      <3>4. \/ q \in f.open[PeriodOf(l, q)].counted
            \/ ReachesMissed(f, PeriodOf(l, q), PeriodOf(l, q) + Width)
        BY <1>0, <3>1, <3>2, <3>3 DEF InPlace
      <3> QED BY <1>1, <1>10, <2>0, <3>4
    <2>2. CASE f.through < q
      <3>1. f.through # 0 /\ p > f.through + 1 /\ q \in (f.through + 1)..(p - 1)
        BY <1>19, <2>2
      <3> DEFINE from == MissedFrom(f, At(l, p))
      <3>2. from \in Nat /\ Reaches(l, f.through, from)
        BY <1>5, <3>1
      <3>3. <<from, At(l, p)>> \in NewSpans(l, f, p)
        BY <3>1 DEF NewSpans
      <3> HIDE DEF from
      <3>4. PICK a \in 1..f.through : from <= At(l, a)
        BY <3>2 DEF Reaches
      <3>5. a \in 1..(q - 1) /\ a \in 1..Len(l)
        BY <1>2, <3>1
      <3>6. At(l, a) <= At(l, q) /\ At(l, a) \in Nat
        BY <3>5, MomentFacts DEF Undisturbed, InTime
      <3>7. p \in (q + 1)..p
        BY <1>2, <3>1
      <3>8. At(l, q) <= At(l, p)
        BY <3>7 DEF Undisturbed
      <3>9. from < PeriodOf(l, q) + Width /\ PeriodOf(l, q) <= At(l, p)
        <4>1. Width \in Nat
          BY PeriodFacts
        <4> QED BY <1>3, <2>0, <3>2, <3>4, <3>6, <3>8, <4>1
      <3>10. Overlaps(<<from, At(l, p)>>, PeriodOf(l, q), PeriodOf(l, q) + Width)
        BY <3>9 DEF Overlaps
      <3> QED BY <1>10, <3>3, <3>10
    <2> QED BY <1>2, <2>1, <2>2
  <1> QED BY <1>6, <1>8, <1>11, <1>12, <1>14, <1>15, <1>16, <1>18, <1>20, <1>21 DEF FoldInv

\* The period a run end is placed in.
Into(l, b, p) == Max2(PeriodOf(l, p), Oldest(b))

\* g is b after it folded the record at p.
FoldsRecord(l, b, g, p) ==
  /\ DOMAIN g = FoldFields
  /\ g.first = b.first /\ g.through = b.through /\ g.began = b.began
  /\ g.closedThrough = b.closedThrough /\ g.closed = b.closed /\ g.rollups = b.rollups
  /\ g.missed = b.missed /\ g.missedSpans = b.missedSpans
  /\ g.clock = Max2(b.clock, At(l, p))
  /\ ~RunEnd(l, p) => g.open = b.open
  /\ RunEnd(l, p) =>
       \E whole \in BOOLEAN :
         /\ whole => ~ReachesMissed(b, Into(l, b, p), Into(l, b, p) + Width)
         /\ g.open = [b.open EXCEPT ![Into(l, b, p)] =
                        [counted |-> @.counted \cup {p}, runs |-> @.runs + 1,
                         complete |-> @.complete /\ whole]]

LEMMA FoldsTheRecord ==
  ASSUME NEW b, DOMAIN b = FoldFields, NEW p
  PROVE  FoldsRecord(log, b, [FoldEvent(b, p) EXCEPT !.clock = Max2(@, Msg[log[p].msg].at)], p)
  <1> DEFINE m == Msg[log[p].msg]
             g == [FoldEvent(b, p) EXCEPT !.clock = Max2(@, Msg[log[p].msg].at)]
  <1>1. CASE ~RunEnd(log, p)
    <2>1. FoldEvent(b, p) = [b EXCEPT !.tracked = @ \cup {m.run},
                                      !.sawStart = IF m.subject = "run" /\ m.phase = "start"
                                                   THEN @ \cup {m.run} ELSE @]
      BY <1>1 DEF FoldEvent, RunEnd
    <2> DEFINE e == FoldEvent(b, p)
    <2>2. /\ DOMAIN e = FoldFields
          /\ e.first = b.first /\ e.through = b.through /\ e.began = b.began
          /\ e.closedThrough = b.closedThrough /\ e.closed = b.closed /\ e.rollups = b.rollups
          /\ e.missed = b.missed /\ e.missedSpans = b.missedSpans
          /\ e.clock = b.clock /\ e.open = b.open
      BY <2>1 DEF FoldFields
    <2>3. g = [e EXCEPT !.clock = Max2(@, At(log, p))]
      BY DEF e, At
    <2>4. /\ DOMAIN g = FoldFields
          /\ g.first = b.first /\ g.through = b.through /\ g.began = b.began
          /\ g.closedThrough = b.closedThrough /\ g.closed = b.closed /\ g.rollups = b.rollups
          /\ g.missed = b.missed /\ g.missedSpans = b.missedSpans
          /\ g.clock = Max2(b.clock, At(log, p)) /\ g.open = b.open
      <3> HIDE DEF g
      <3> QED BY <2>2, <2>3 DEF FoldFields
    <2> HIDE DEF g
    <2>5. FoldsRecord(log, b, g, p)
      BY <1>1, <2>4 DEF FoldsRecord
    <2> QED BY <2>5 DEF g
  <1>2. CASE RunEnd(log, p)
    <2> DEFINE run == m.run \in b.sawStart
               into == Into(log, b, p)
               ended == PeriodOf(log, p)
               whole == /\ run
                        /\ ~ReachesMissed(b, ended, ended + Width)
                        /\ ~ReachesMissed(b, into, into + Width)
                        /\ b.gapFrom \notin {ended, into}
               pl == Place(b, p, m.at, run)
               e == FoldEvent(b, p)
    <2>1. e = [pl EXCEPT !.tracked = @ \ {m.run}, !.sawStart = @ \ {m.run}]
      BY <1>2 DEF FoldEvent, RunEnd
    <2>2. pl = [b EXCEPT !.open[into] = [counted |-> @.counted \cup {p}, runs |-> @.runs + 1,
                                         complete |-> @.complete /\ whole]]
      BY DEF Place, PeriodOf, At, Into, Oldest
    <2>3. whole \in BOOLEAN /\ (whole => ~ReachesMissed(b, into, into + Width))
      OBVIOUS
    <2> HIDE DEF pl, e, into, whole
    <2>4. /\ DOMAIN pl = FoldFields
          /\ pl.first = b.first /\ pl.through = b.through /\ pl.began = b.began
          /\ pl.closedThrough = b.closedThrough /\ pl.closed = b.closed /\ pl.rollups = b.rollups
          /\ pl.missed = b.missed /\ pl.missedSpans = b.missedSpans
          /\ pl.clock = b.clock
          /\ pl.open = [b.open EXCEPT ![into] = [counted |-> @.counted \cup {p}, runs |-> @.runs + 1,
                                                 complete |-> @.complete /\ whole]]
      BY <2>2 DEF FoldFields
    <2>5. /\ DOMAIN e = FoldFields
          /\ e.first = b.first /\ e.through = b.through /\ e.began = b.began
          /\ e.closedThrough = b.closedThrough /\ e.closed = b.closed /\ e.rollups = b.rollups
          /\ e.missed = b.missed /\ e.missedSpans = b.missedSpans
          /\ e.clock = b.clock /\ e.open = pl.open
      BY <2>1, <2>4 DEF FoldFields
    <2>6. g = [e EXCEPT !.clock = Max2(@, At(log, p))]
      BY DEF e, At
    <2>7. /\ DOMAIN g = FoldFields
          /\ g.first = b.first /\ g.through = b.through /\ g.began = b.began
          /\ g.closedThrough = b.closedThrough /\ g.closed = b.closed /\ g.rollups = b.rollups
          /\ g.missed = b.missed /\ g.missedSpans = b.missedSpans
          /\ g.clock = Max2(b.clock, At(log, p)) /\ g.open = pl.open
      <3> HIDE DEF g
      <3> QED BY <2>5, <2>6 DEF FoldFields
    <2> HIDE DEF g
    <2>8. \E w \in BOOLEAN :
            /\ w => ~ReachesMissed(b, into, into + Width)
            /\ g.open = [b.open EXCEPT ![into] = [counted |-> @.counted \cup {p}, runs |-> @.runs + 1,
                                                  complete |-> @.complete /\ w]]
      BY <2>3, <2>4, <2>7
    <2>9. FoldsRecord(log, b, g, p)
      BY <1>2, <2>7, <2>8 DEF FoldsRecord, into
    <2> QED BY <2>9 DEF g
  <1> QED BY <1>1, <1>2

LEMMA RecordKeeps ==
  ASSUME NEW l \in Seq(LogRecords), NEW b, NEW W, NEW G, NEW p \in 1..Len(l), FoldInv(l, b, W, G, p),
         b.through = p, ~InMemory(b, p), NEW g, FoldsRecord(l, b, g, p)
  PROVE  /\ FoldInv(l, g, W, G, 0) /\ g.clock \in Nat /\ g.through = p
         /\ g.closed = b.closed /\ g.closedThrough = b.closedThrough
         /\ \A x : InMemory(g, x) => InMemory(b, x) \/ x = p
  <1>0. PlaceOK(l, b) /\ ClockOK(l, b) /\ OpenOK(l, b) /\ WiderOK(b) /\ ClosedOK(l, b)
        /\ InPlace(l, b, p) /\ Passed(l, b, W, G, p) /\ PassedClosing(l, b, W, G)
    BY DEF FoldInv
  <1> DEFINE into == Into(l, b, p)
  <1>1. /\ DOMAIN g = FoldFields
        /\ g.first = b.first /\ g.through = p /\ g.began = b.began
        /\ g.closedThrough = b.closedThrough /\ g.closed = b.closed /\ g.rollups = b.rollups
        /\ g.missed = b.missed /\ g.missedSpans = b.missedSpans
        /\ g.clock = Max2(b.clock, At(l, p))
        /\ ~RunEnd(l, p) => g.open = b.open
    BY DEF FoldsRecord
  <1>2. Oldest(g) = Oldest(b) /\ Narrow(g) = Narrow(b)
    BY <1>1 DEF Oldest, Narrow
  <1>3. p \in Nat \ {0} /\ Len(l) \in Nat
    OBVIOUS
  <1>4. /\ At(l, p) \in Nat /\ PeriodOf(l, p) \in Starts(Width) /\ Aligned(PeriodOf(l, p))
        /\ PeriodOf(l, p) \in Nat /\ PeriodOf(l, p) <= At(l, p) /\ At(l, p) < PeriodOf(l, p) + Width
    BY MomentFacts, PeriodFacts
  <1>5. Oldest(b) \in Nat /\ Aligned(Oldest(b)) /\ Reaches(l, p, Oldest(b))
    BY <1>0, <1>3, PeriodFacts DEF ClockOK, Oldest, Max2, Aligned
  <1>6. g.clock \in Nat /\ Reaches(l, p, g.clock)
    <2>1. CASE b.clock = None
      <3>1. g.clock = At(l, p)
        BY <1>1, <1>4, <2>1, PeriodFacts DEF Max2
      <3> QED BY <1>3, <1>4, <3>1 DEF Reaches
    <2>2. CASE b.clock \in Nat /\ Reaches(l, p, b.clock)
      <3>1. g.clock = At(l, p) \/ g.clock = b.clock
        BY <1>1 DEF Max2
      <3>2. Reaches(l, p, At(l, p))
        BY <1>3, <1>4 DEF Reaches
      <3> QED BY <1>4, <2>2, <3>1, <3>2
    <2> QED BY <1>0, <2>1, <2>2 DEF ClockOK
  <1>7. PlaceOK(l, g) /\ ClockOK(l, g) /\ WiderOK(g)
    <2>1. PlaceOK(l, g)
      BY <1>0, <1>1, <1>3 DEF PlaceOK
    <2>2. ClockOK(l, g)
      BY <1>0, <1>1, <1>6 DEF ClockOK
    <2> QED BY <1>0, <1>1, <1>2, <2>1, <2>2 DEF WiderOK
  <1>8. PassedClosing(l, g, W, G)
    BY <1>0, <1>1, <1>2 DEF PassedClosing, ToldMissed
  <1>9. \A s, t : ReachesMissed(g, s, t) = ReachesMissed(b, s, t)
    BY <1>1 DEF ReachesMissed
  <1>10. CASE ~RunEnd(l, p)
    <2>1. g.open = b.open
      BY <1>1, <1>10
    <2>2. OpenOK(l, g)
      BY <1>0, <1>1, <1>2, <1>9, <2>1 DEF OpenOK
    <2>3. ClosedOK(l, g)
      BY <1>0, <1>1, <1>2, <2>1 DEF ClosedOK
    <2>4. \A x : InMemory(g, x) <=> InMemory(b, x)
      BY <1>1, <1>2, <2>1 DEF InMemory
    <2>5. Passed(l, g, W, G, 0)
      BY <1>0, <1>1, <1>10, <2>4 DEF Passed, ToldMissed
    <2>6. InPlace(l, g, 0)
      BY <1>0, <1>1, <1>2, <1>9, <1>10, <2>1 DEF InPlace
    <2> QED BY <1>1, <1>6, <1>7, <1>8, <2>2, <2>3, <2>4, <2>5, <2>6 DEF FoldInv
  <1>11. CASE RunEnd(l, p)
    <2>1. PICK whole \in BOOLEAN :
            /\ whole => ~ReachesMissed(b, into, into + Width)
            /\ g.open = [b.open EXCEPT ![into] =
                           [counted |-> @.counted \cup {p}, runs |-> @.runs + 1,
                            complete |-> @.complete /\ whole]]
      BY <1>11 DEF FoldsRecord
    <2>2. /\ into \in Starts(Width) /\ into \in Nat /\ Oldest(b) <= into
          /\ PeriodOf(l, p) = into \/ (PeriodOf(l, p) <= into /\ into <= Oldest(b))
      <3>1. p \in 0..Len(l)
        BY <1>3
      <3>2. Oldest(b) \in Starts(Width)
        BY <1>5, <3>1, MomentFacts
      <3> QED BY <1>4, <1>5, <3>2 DEF Into, Max2
    \* What came in time ended in a period that is open.
    <2>3. InTime(l, p) => into = PeriodOf(l, p)
      <3> SUFFICES ASSUME InTime(l, p), PeriodOf(l, p) < Oldest(b) PROVE FALSE
        BY <1>4, <1>5 DEF Into, Max2
      <3>1. PICK a \in 1..p : Oldest(b) <= At(l, a)
        BY <1>5 DEF Reaches
      <3>2. a = p \/ a \in 1..(p - 1)
        BY <1>3
      <3>3. At(l, a) <= At(l, p) /\ At(l, a) \in Nat
        <4>1. a \in 1..Len(l)
          BY <1>3
        <4> QED BY <1>4, <3>2, <4>1, MomentFacts DEF InTime
      <3>4. PeriodOf(l, p) + Width <= Oldest(b)
        BY <1>4, <1>5, PeriodFacts
      <3>5. Width \in Nat
        BY PeriodFacts
      <3> QED BY <1>4, <1>5, <3>1, <3>3, <3>4, <3>5
    <2> HIDE DEF into
    <2>4. b.open \in [Starts(Width) -> PeriodRecords]
      BY <1>0 DEF OpenOK
    <2>5. /\ g.open[into] = [counted |-> b.open[into].counted \cup {p}, runs |-> b.open[into].runs + 1,
                             complete |-> b.open[into].complete /\ whole]
          /\ \A s \in Starts(Width) : s # into => g.open[s] = b.open[s]
          /\ DOMAIN g.open = Starts(Width)
          /\ g.open = [s \in Starts(Width) |-> g.open[s]]
      BY <2>1, <2>2, <2>4
    <2>6. \A s \in Starts(Width) : p \notin b.open[s].counted
      BY DEF InMemory
    <2>7. \A i \in Narrow(b) : p \notin b.closed[i].record.counted
      BY DEF InMemory
    <2>8. g.open[into] \in PeriodRecords /\ RecordOK(l, p, into, g.open[into])
      <3> DEFINE old == b.open[into]
                 new == g.open[into]
      <3>1. RecordOK(l, p, into, old)
        BY <1>0, <2>2 DEF OpenOK
      <3>2. /\ old.counted \in SUBSET Nat /\ old.runs \in Nat /\ old.complete \in BOOLEAN
            /\ old.runs = Cardinality(old.counted)
            /\ \A x \in old.counted : x \in 1..p /\ RunEnd(l, x) /\ (InTime(l, x) => into = PeriodOf(l, x))
        BY <3>1 DEF RecordOK, PeriodRecords
      <3>3. p \notin old.counted
        BY <2>2, <2>6
      <3>4. /\ new.counted = old.counted \cup {p} /\ new.runs = old.runs + 1
            /\ new.complete = (old.complete /\ whole)
            /\ new = [counted |-> old.counted \cup {p}, runs |-> old.runs + 1,
                      complete |-> old.complete /\ whole]
        BY <2>5
      <3> HIDE DEF old, new
      <3>5. IsFiniteSet(old.counted)
        <4>1. IsFiniteSet(1..p)
          BY <1>3, FS_Interval
        <4>2. old.counted \subseteq 1..p
          BY <3>2
        <4> QED BY <4>1, <4>2, FS_Subset
      <3>6. new.runs = Cardinality(new.counted)
        <4>1. Cardinality(old.counted \cup {p}) = Cardinality(old.counted) + 1
          BY <3>3, <3>5, FS_AddElement
        <4> QED BY <3>2, <3>4, <4>1
      <3>7. new \in PeriodRecords
        <4>1. old.counted \cup {p} \in SUBSET Nat /\ old.runs + 1 \in Nat /\ (old.complete /\ whole) \in BOOLEAN
          BY <1>3, <3>2
        <4> QED BY <3>4, <4>1 DEF PeriodRecords
      <3>8. \A x \in new.counted : x \in 1..p /\ RunEnd(l, x) /\ (InTime(l, x) => into = PeriodOf(l, x))
        BY <1>3, <1>11, <2>3, <3>2, <3>4
      <3> QED BY <3>6, <3>7, <3>8 DEF RecordOK, new
    <2>9. g.open \in [Starts(Width) -> PeriodRecords]
      <3>1. \A s \in Starts(Width) : g.open[s] \in PeriodRecords
        BY <2>4, <2>5, <2>8
      <3> QED BY <2>5, <3>1
    <2>10. \A s \in Starts(Width) : g.open[s].counted = IF s = into THEN b.open[s].counted \cup {p}
                                                        ELSE b.open[s].counted
      <3>1. g.open[into].counted = b.open[into].counted \cup {p}
        BY <2>5
      <3> QED BY <2>5, <3>1
    <2>11. OpenOK(l, g)
      <3>1. ASSUME NEW s \in Starts(Width)
            PROVE  /\ RecordOK(l, p, s, g.open[s])
                   /\ g.open[s].counted # {} => Oldest(b) <= s
                   /\ \A x \in g.open[s].counted :
                        PeriodOf(l, x) = s \/ (PeriodOf(l, x) <= s /\ s <= Oldest(b))
                   /\ g.open[s].counted # {} /\ ReachesMissed(b, s, s + Width) => ~g.open[s].complete
        <4>1. CASE s = into
          <5>1. \A x \in g.open[s].counted :
                  PeriodOf(l, x) = s \/ (PeriodOf(l, x) <= s /\ s <= Oldest(b))
            <6> SUFFICES ASSUME NEW x \in g.open[s].counted
                         PROVE  PeriodOf(l, x) = s \/ (PeriodOf(l, x) <= s /\ s <= Oldest(b))
              OBVIOUS
            <6>1. x \in b.open[s].counted \/ x = p
              BY <2>10, <4>1
            <6>2. CASE x = p
              BY <2>2, <4>1, <6>2
            <6>3. CASE x \in b.open[s].counted
              BY <1>0, <6>3 DEF OpenOK
            <6> QED BY <6>1, <6>2, <6>3
          <5>2. ReachesMissed(b, s, s + Width) => ~g.open[s].complete
            BY <2>1, <2>5, <4>1
          <5> QED BY <2>2, <2>8, <4>1, <5>1, <5>2
        <4>2. CASE s # into
          <5>1. g.open[s] = b.open[s]
            BY <2>5, <4>2
          <5> QED BY <1>0, <5>1 DEF OpenOK
        <4> QED BY <4>1, <4>2
      <3>2. ASSUME NEW s \in Starts(Width), NEW t \in Starts(Width), s # t
            PROVE  g.open[s].counted \cap g.open[t].counted = {}
        <4>1. b.open[s].counted \cap b.open[t].counted = {}
          BY <1>0, <3>2 DEF OpenOK
        <4> QED BY <2>6, <2>10, <3>2, <4>1
      <3> QED BY <1>1, <1>2, <1>9, <2>9, <3>1, <3>2 DEF OpenOK
    <2>12. ClosedOK(l, g)
      <3>1. \A i \in Narrow(b) : \A s \in Starts(Width) :
              b.closed[i].record.counted \cap g.open[s].counted = {}
        <4> SUFFICES ASSUME NEW i \in Narrow(b), NEW s \in Starts(Width)
                     PROVE  b.closed[i].record.counted \cap g.open[s].counted = {}
          OBVIOUS
        <4>1. b.closed[i].record.counted \cap b.open[s].counted = {}
          BY <1>0 DEF ClosedOK
        <4> QED BY <2>7, <2>10, <4>1
      <3>2. \A i \in DOMAIN g.closed :
              LET e == g.closed[i]
              IN  /\ EntryOK(l, e.level, e.from, e) /\ e.through <= g.through
                  /\ e.from + e.level <= g.closedThrough
        BY <1>0, <1>1 DEF ClosedOK
      <3>3. \A i, j \in Narrow(g) : i < j => /\ g.closed[i].from < g.closed[j].from
                                             /\ g.closed[i].record.counted \cap g.closed[j].record.counted = {}
        BY <1>0, <1>1, <1>2 DEF ClosedOK
      <3>4. \E X : g.closed \in Seq(X)
        BY <1>0, <1>1 DEF ClosedOK
      <3> QED BY <1>1, <1>2, <3>1, <3>2, <3>3, <3>4 DEF ClosedOK
    <2>13. \A x : InMemory(g, x) <=> InMemory(b, x) \/ x = p
      <3>1. ASSUME NEW x
            PROVE  (\E s \in Starts(Width) : x \in g.open[s].counted)
                     <=> (\E s \in Starts(Width) : x \in b.open[s].counted) \/ x = p
        BY <2>2, <2>10
      <3> QED BY <1>1, <1>2, <3>1 DEF InMemory
    <2>14. Passed(l, g, W, G, 0)
      <3> SUFFICES ASSUME NEW q \in 1..p, RunEnd(l, q), b.first <= q
                   PROVE  InMemory(g, q) \/ q \in W \/ ToldMissed(b, G, q)
        BY <1>1 DEF Passed, ToldMissed
      <3> QED BY <1>0, <2>13 DEF Passed
    <2>15. InPlace(l, g, 0)
      <3> SUFFICES ASSUME NEW q \in 1..p, RunEnd(l, q), b.first <= q, Undisturbed(l, q, p),
                          Oldest(b) <= PeriodOf(l, q)
                   PROVE  \/ q \in g.open[PeriodOf(l, q)].counted
                          \/ ReachesMissed(b, PeriodOf(l, q), PeriodOf(l, q) + Width)
        BY <1>1, <1>2, <1>9 DEF InPlace
      <3>1. CASE q = p
        BY <2>2, <2>3, <2>10, <3>1 DEF Undisturbed
      <3>2. CASE q # p
        <4>1. \/ q \in b.open[PeriodOf(l, q)].counted
              \/ ReachesMissed(b, PeriodOf(l, q), PeriodOf(l, q) + Width)
          BY <1>0, <3>2 DEF InPlace
        <4>2. PeriodOf(l, q) \in Starts(Width)
          <5>1. q \in 1..Len(l)
            BY <1>3
          <5> QED BY <5>1, MomentFacts
        <4> QED BY <2>10, <4>1, <4>2
      <3> QED BY <3>1, <3>2
    <2> QED BY <1>1, <1>6, <1>7, <1>8, <2>11, <2>12, <2>13, <2>14, <2>15 DEF FoldInv
  <1> QED BY <1>10, <1>11

-----------------------------------------------------------------------------
(* A fold led on: what it counts and closes beyond what it did. *)

Onward(l, f, g, W, G, b) ==
  /\ FoldInv(l, g, W, G, 0) /\ ClosesOn(f, g, b)
  /\ \A x : InMemory(g, x) => InMemory(f, x) \/ b < x

\* Two folds that differ in nothing that is said of them but the clock.
Alike(f, g) ==
  /\ DOMAIN g = FoldFields
  /\ g.first = f.first /\ g.through = f.through /\ g.began = f.began
  /\ g.closedThrough = f.closedThrough /\ g.closed = f.closed /\ g.rollups = f.rollups
  /\ g.missed = f.missed /\ g.missedSpans = f.missedSpans /\ g.open = f.open

LEMMA AlikeKeeps ==
  ASSUME NEW l, NEW f, NEW W, NEW G, FoldInv(l, f, W, G, 0), f.through # 0, NEW g, Alike(f, g),
         g.clock = f.clock \/ (g.clock \in Nat /\ Reaches(l, f.through, g.clock))
  PROVE  /\ FoldInv(l, g, W, G, 0)
         /\ \A x : InMemory(g, x) <=> InMemory(f, x)
         /\ \A h, b : ClosesOn(h, f, b) <=> ClosesOn(h, g, b)
         /\ \A h, b : ClosesOn(f, h, b) <=> ClosesOn(g, h, b)
  <1>1. Oldest(g) = Oldest(f) /\ Narrow(g) = Narrow(f)
    BY DEF Alike, Oldest, Narrow
  <1>2. \A s, t : ReachesMissed(g, s, t) = ReachesMissed(f, s, t)
    BY DEF Alike, ReachesMissed
  <1>3. \A x : InMemory(g, x) <=> InMemory(f, x)
    BY <1>1 DEF Alike, InMemory
  <1>4. \A q : ToldMissed(g, G, q) <=> ToldMissed(f, G, q)
    BY DEF Alike, ToldMissed
  <1>5. PlaceOK(l, g) /\ ClockOK(l, g)
    BY DEF FoldInv, Alike, PlaceOK, ClockOK
  <1>6. OpenOK(l, g) /\ WiderOK(g)
    BY <1>1, <1>2 DEF FoldInv, Alike, OpenOK, WiderOK
  <1>7. ClosedOK(l, g)
    BY <1>1 DEF FoldInv, Alike, ClosedOK
  <1>8. InPlace(l, g, 0)
    BY <1>1, <1>2 DEF FoldInv, Alike, InPlace
  <1>9. Passed(l, g, W, G, 0) /\ PassedClosing(l, g, W, G)
    BY <1>1, <1>3, <1>4 DEF FoldInv, Alike, Passed, PassedClosing
  <1>10. \A h, b : ClosesOn(h, f, b) <=> ClosesOn(h, g, b)
    BY DEF Alike, ClosesOn, Added
  <1>11. \A h, b : ClosesOn(f, h, b) <=> ClosesOn(g, h, b)
    BY DEF Alike, ClosesOn, Added
  <1> QED BY <1>3, <1>5, <1>6, <1>7, <1>8, <1>9, <1>10, <1>11 DEF FoldInv

LEMMA ClosesNothing ==
  ASSUME NEW l \in Seq(LogRecords), NEW f, PlaceOK(l, f), ClockOK(l, f), ClosedOK(l, f), NEW b
  PROVE  ClosesOn(f, f, b)
  <1>1. /\ f.through \in Nat /\ f.closedThrough \in Int
        /\ Len(f.closed) \in Nat /\ DOMAIN f.closed = 1..Len(f.closed)
    BY FoldNumbers
  <1>2. Added(f, f) = {}
    BY <1>1 DEF Added
  <1> QED BY <1>1, <1>2 DEF ClosesOn

LEMMA OnwardFrom ==
  ASSUME NEW l \in Seq(LogRecords), NEW f, NEW g, NEW h, NEW W, NEW G, NEW b \in Nat,
         FoldInv(l, f, W, G, 0), Onward(l, f, g, W, G, b), Onward(l, g, h, W, G, b)
  PROVE  Onward(l, f, h, W, G, b)
  <1>1. /\ PlaceOK(l, f) /\ ClockOK(l, f) /\ ClosedOK(l, f)
        /\ PlaceOK(l, g) /\ ClockOK(l, g) /\ ClosedOK(l, g)
        /\ PlaceOK(l, h) /\ ClockOK(l, h) /\ ClosedOK(l, h)
    BY DEF Onward, FoldInv
  <1>2. ClosesOn(f, h, b)
    BY <1>1, ClosesOnFrom DEF Onward
  <1> QED BY <1>2 DEF Onward

\* PeriodFold::apply keeps what holds of a fold, whatever gap it finds.
LEMMA ApplyKeeps ==
  ASSUME log \in Seq(LogRecords), NEW f, NEW W, NEW G, FoldInv(log, f, W, G, 0),
         NEW p \in 1..Len(log), NEW b \in Nat, b <= f.through \/ b < p
  PROVE  /\ Onward(log, f, Apply(f, p), W, G, b)
         /\ Apply(f, p).through = Max2(f.through, p)
         /\ \A x : InMemory(Apply(f, p), x) => InMemory(f, x) \/ x = p
  <1> DEFINE g == Apply(f, p)
             e == FoldedAt(f, p)
  <1>0. PlaceOK(log, f) /\ ClockOK(log, f) /\ OpenOK(log, f) /\ WiderOK(f) /\ ClosedOK(log, f)
    BY DEF FoldInv
  <1>1. f.through \in Nat /\ p \in Nat /\ f.closedThrough \in Int
    BY <1>0, FoldNumbers
  <1>2. g = IF p <= f.through THEN f ELSE Close(e)
    BY DEF Apply, FoldedAt, BegunAt, ToldBefore
  <1> HIDE DEF g, e
  <1>3. CASE p <= f.through
    <2>1. g = f
      BY <1>2, <1>3
    <2>2. Max2(f.through, p) = f.through
      BY <1>1, <1>3 DEF Max2
    <2>3. ClosesOn(f, f, b)
      BY <1>0, ClosesNothing
    <2> QED BY <2>1, <2>2, <2>3 DEF Onward, g
  <1>4. CASE f.through < p
    <2>1. Begins(log, f, BegunAt(f, p), p)
      BY <1>0, BegunBegins
    <2>2. /\ FoldInv(log, BegunAt(f, p), W, G, p)
          /\ \A x : InMemory(BegunAt(f, p), x) <=> InMemory(f, x)
          /\ ~InMemory(BegunAt(f, p), p)
      BY <1>4, <2>1, BeginsKeeps
    <2>3. /\ BegunAt(f, p).through = p /\ BegunAt(f, p).closed = f.closed
          /\ BegunAt(f, p).closedThrough = f.closedThrough /\ DOMAIN BegunAt(f, p) = FoldFields
      BY <2>1 DEF Begins
    <2>4. FoldsRecord(log, BegunAt(f, p), e, p)
      BY <2>3, FoldsTheRecord DEF e, FoldedAt
    <2>5. /\ FoldInv(log, e, W, G, 0) /\ e.clock \in Nat /\ e.through = p
          /\ e.closed = f.closed /\ e.closedThrough = f.closedThrough
          /\ \A x : InMemory(e, x) => InMemory(f, x) \/ x = p
      BY <2>2, <2>3, <2>4, RecordKeeps
    <2>6. e.through # 0 /\ b < e.through
      BY <1>1, <1>4, <2>5
    <2>7. /\ FoldInv(log, Close(e), W, G, 0) /\ ClosesOn(e, Close(e), b)
          /\ Close(e).through = p
          /\ \A x : InMemory(Close(e), x) <=> InMemory(e, x)
      BY <2>5, <2>6, CloseKeeps
    <2>8. g = Close(e) /\ Max2(f.through, p) = p
      BY <1>1, <1>2, <1>4 DEF Max2
    <2>9. ClosesOn(f, g, b)
      <3>1. Added(f, g) = Added(e, g)
        BY <2>5 DEF Added
      <3>2. \A i \in Added(f, g) : g.closed[i].through \in Nat /\ p <= g.closed[i].through
        <4>1. \A i \in DOMAIN g.closed : g.closed[i].through \in Nat
          BY <2>7, <2>8, FoldNumbers DEF FoldInv
        <4> QED BY <2>5, <2>7, <2>8, <3>1, <4>1 DEF ClosesOn, Added
      <3>3. \A i \in Added(f, g) : f.through <= g.closed[i].through
        BY <1>1, <1>4, <3>2
      <3>4. f.through <= g.through
        BY <1>1, <1>4, <2>7, <2>8
      <3> QED BY <2>5, <2>7, <2>8, <3>1, <3>3, <3>4 DEF ClosesOn
    <2>10. \A x : InMemory(g, x) => InMemory(f, x) \/ x = p
      BY <2>5, <2>7, <2>8
    <2>11. b < p
      BY <1>1, <1>4
    <2> QED BY <2>7, <2>8, <2>9, <2>10, <2>11 DEF Onward, g
  <1> QED BY <1>1, <1>3, <1>4

-----------------------------------------------------------------------------
(* A fold that the journal's pages lead on. *)

\* A page of the journal: a whole stretch of the log.
PageOK(l, g) ==
  /\ g.first \in 1..Len(l) /\ g.last \in 1..Len(l) /\ g.first <= g.last
  /\ g.kept = g.first..g.last
  /\ g.from = At(l, g.first)
  /\ \E x \in g.first..g.last : g.clock = At(l, x)

\* u[i] is the fold after position i of a page.
AppliedAt(g, p, S) ==
  IF p \in S /\ p > g.through THEN Apply([g EXCEPT !.through = p - 1], p) ELSE g
Walks(u, f, first, last, S) ==
  /\ u[first - 1] = f
  /\ \A p \in first..last : u[p] = AppliedAt(u[p - 1], p, S)

LEMMA AppliedIs ==
  ASSUME NEW g, NEW p, NEW S
  PROVE  /\ p \in S /\ p > g.through => AppliedAt(g, p, S) = Apply([g EXCEPT !.through = p - 1], p)
         /\ ~(p > g.through) => AppliedAt(g, p, S) = g
  BY DEF AppliedAt

LEMMA WalkExists ==
  ASSUME NEW f, NEW first \in Nat, first # 0, NEW S
  PROVE  \A n \in Nat : \E u : /\ u = [i \in (first - 1)..(first - 1 + n) |-> u[i]]
                               /\ Walks(u, f, first, first - 1 + n, S)
  <1> DEFINE Is(u, n) == /\ u = [i \in (first - 1)..(first - 1 + n) |-> u[i]]
                         /\ Walks(u, f, first, first - 1 + n, S)
             P == {n \in Nat : \E u : Is(u, n)}
  <1>1. 0 \in P
    <2> DEFINE u == [i \in (first - 1)..(first - 1) |-> f]
    <2>1. u = [i \in (first - 1)..(first - 1 + 0) |-> u[i]] /\ u[first - 1] = f
      OBVIOUS
    <2>2. first..(first - 1 + 0) = {}
      OBVIOUS
    <2> HIDE DEF u
    <2>3. Is(u, 0)
      BY <2>1, <2>2 DEF Walks
    <2> QED BY <2>3
  <1>2. ASSUME NEW n \in Nat, n \in P PROVE n + 1 \in P
    <2> DEFINE e == first - 1 + n
    <2>1. PICK u : Is(u, n)
      BY <1>2
    <2> DEFINE v == [i \in (first - 1)..(e + 1) |-> IF i = e + 1 THEN AppliedAt(u[e], e + 1, S) ELSE u[i]]
    <2>2. /\ e \in Nat /\ first - 1 \in Nat /\ first - 1 <= e /\ first - 1 + (n + 1) = e + 1
          /\ \A i \in (first - 1)..e : v[i] = u[i]
          /\ v[e + 1] = AppliedAt(u[e], e + 1, S)
      OBVIOUS
    <2>3. v = [i \in (first - 1)..(e + 1) |-> v[i]]
      OBVIOUS
    <2> HIDE DEF v
    <2>4. Walks(v, f, first, e + 1, S)
      <3>1. v[first - 1] = f
        BY <2>1, <2>2 DEF Walks
      <3>2. ASSUME NEW p \in first..(e + 1) PROVE v[p] = AppliedAt(v[p - 1], p, S)
        <4>1. CASE p = e + 1
          BY <2>2, <4>1
        <4>2. CASE p # e + 1
          <5>1. p \in first..e /\ p \in (first - 1)..e /\ p - 1 \in (first - 1)..e
            BY <2>2, <4>2
          <5> QED BY <2>1, <2>2, <5>1 DEF Walks
        <4> QED BY <4>1, <4>2
      <3> QED BY <3>1, <3>2 DEF Walks
    <2>5. Is(v, n + 1)
      BY <2>2, <2>3, <2>4
    <2> QED BY <2>5
  <1>3. P \in SUBSET Nat
    OBVIOUS
  <1> HIDE DEF P
  <1>4. P = Nat
    BY <1>1, <1>2, <1>3, SetInduction
  <1> QED BY <1>4 DEF P

LEMMA AppliesEach ==
  ASSUME NEW f, NEW first \in Nat, first # 0, NEW last \in Nat, first <= last, NEW S
  PROVE  \E u : Walks(u, f, first, last, S) /\ ApplyEach(f, first, last, S) = u[last]
  <1> DEFINE UpTo(g) == [p \in (first - 1)..last |->
                           IF p = first - 1 THEN f
                           ELSE IF p \in S /\ p > g[p - 1].through
                                THEN Apply([g[p - 1] EXCEPT !.through = p - 1], p)
                                ELSE g[p - 1]]
             upTo == CHOOSE g : g = UpTo(g)
  <1>1. PICK n \in Nat : first - 1 + n = last
    <2>1. last - (first - 1) \in Nat
      OBVIOUS
    <2> QED BY <2>1
  <1>2. PICK u : /\ u = [i \in (first - 1)..last |-> u[i]]
                 /\ Walks(u, f, first, last, S)
    BY <1>1, WalkExists
  <1>3. u = UpTo(u)
    <2>1. ASSUME NEW p \in (first - 1)..last PROVE u[p] = UpTo(u)[p]
      <3>1. CASE p = first - 1
        BY <1>2, <3>1 DEF Walks
      <3>2. CASE p # first - 1
        <4>1. p \in first..last
          BY <3>2
        <4>2. u[p] = AppliedAt(u[p - 1], p, S)
          BY <1>2, <4>1 DEF Walks
        <4> QED BY <3>2, <4>2 DEF AppliedAt
      <3> QED BY <3>1, <3>2
    <2>2. UpTo(u) = [i \in (first - 1)..last |-> UpTo(u)[i]]
      OBVIOUS
    <2> HIDE DEF UpTo
    <2> QED BY <1>2, <2>1, <2>2
  <1>4. upTo = UpTo(upTo)
    <2> HIDE DEF UpTo
    <2>1. \E g : g = UpTo(g)
      BY <1>3
    <2> QED BY <2>1
  <1>5. ApplyEach(f, first, last, S) = upTo[last]
    BY Zenon DEF ApplyEach
  <1> HIDE DEF upTo
  <1>6. Walks(upTo, f, first, last, S)
    <2>1. ASSUME NEW p \in (first - 1)..last
          PROVE  upTo[p] = IF p = first - 1 THEN f
                           ELSE IF p \in S /\ p > upTo[p - 1].through
                                THEN Apply([upTo[p - 1] EXCEPT !.through = p - 1], p)
                                ELSE upTo[p - 1]
      <3>1. UpTo(upTo)[p] = IF p = first - 1 THEN f
                            ELSE IF p \in S /\ p > upTo[p - 1].through
                                 THEN Apply([upTo[p - 1] EXCEPT !.through = p - 1], p)
                                 ELSE upTo[p - 1]
        OBVIOUS
      <3> HIDE DEF UpTo
      <3> QED BY <1>4, <3>1
    <2>2. first - 1 \in (first - 1)..last
      OBVIOUS
    <2>3. \A p \in first..last : p \in (first - 1)..last /\ p # first - 1
      OBVIOUS
    <2> QED BY <2>1, <2>2, <2>3 DEF Walks, AppliedAt
  <1> QED BY <1>5, <1>6

\* Setting a fold's position to what it is changes nothing said of it.
LEMMA SetAgain ==
  ASSUME NEW l \in Seq(LogRecords), NEW f, NEW W, NEW G, FoldInv(l, f, W, G, 0), f.through # 0,
         NEW g, NEW b, Onward(l, f, g, W, G, b), g.through # 0
  PROVE  /\ Onward(l, f, [g EXCEPT !.through = g.through], W, G, b)
         /\ [g EXCEPT !.through = g.through].through = g.through
  <1> DEFINE h == [g EXCEPT !.through = g.through]
  <1>1. DOMAIN g = FoldFields
    BY DEF Onward, FoldInv, PlaceOK
  <1>2. Alike(g, h) /\ h.clock = g.clock /\ h.through = g.through
    BY <1>1 DEF Alike, FoldFields
  <1> HIDE DEF h
  <1>3. FoldInv(l, g, W, G, 0)
    BY DEF Onward
  <1>4. /\ FoldInv(l, h, W, G, 0)
        /\ \A x : InMemory(h, x) <=> InMemory(g, x)
        /\ ClosesOn(f, g, b) <=> ClosesOn(f, h, b)
    BY <1>2, <1>3, AlikeKeeps
  <1>5. Onward(l, f, h, W, G, b)
    BY <1>4 DEF Onward
  <1> QED BY <1>2, <1>5 DEF h

\* A position past a gap is folded the same whether the gap was told before it
\* or with it.
LEMMA ToldAlready ==
  ASSUME NEW f, DOMAIN f = FoldFields, f.through \in Nat, f.through # 0, f.first # 0,
         NEW p \in Nat, p > f.through + 1,
         NEW told, told = [MissedBefore(f, f.through, p, At(log, p)) EXCEPT !.through = p - 1]
  PROVE  Apply([told EXCEPT !.through = p - 1], p) = Apply(f, p)
  <1> DEFINE m == MissedBefore(f, f.through, p, At(log, p))
             h == [told EXCEPT !.through = p - 1]
  <1>1. DOMAIN m = FoldFields
    BY DEF MissedBefore
  <1>2. ToldBefore(f, p) = m
    BY DEF ToldBefore, At
  <1> HIDE DEF m
  <1>3. /\ DOMAIN told = FoldFields /\ DOMAIN h = FoldFields /\ h.through = p - 1
        /\ h = [m EXCEPT !.through = p - 1]
    BY <1>1 DEF FoldFields, m
  <1>4. p - 1 \in Nat /\ p - 1 # 0 /\ ~(p > h.through + 1) /\ ~(p <= h.through) /\ ~(p <= f.through)
    BY <1>3
  <1>5. ToldBefore(h, p) = h
    BY <1>4 DEF ToldBefore
  <1>6. BegunAt(h, p) = BegunAt(f, p)
    <2>1. BegunAt(h, p) = [h EXCEPT !.through = p,
                                    !.first = IF @ = 0 THEN p ELSE @,
                                    !.began = IF @ = None THEN Floor(Msg[log[p].msg].at, Width) ELSE @]
      BY <1>5 DEF BegunAt
    <2>2. BegunAt(f, p) = [m EXCEPT !.through = p,
                                    !.first = IF @ = 0 THEN p ELSE @,
                                    !.began = IF @ = None THEN Floor(Msg[log[p].msg].at, Width) ELSE @]
      BY <1>2 DEF BegunAt
    <2>3. h.first = m.first /\ h.began = m.began
      BY <1>1, <1>3 DEF FoldFields
    <2> DEFINE x == IF m.first = 0 THEN p ELSE m.first
               y == IF m.began = None THEN Floor(Msg[log[p].msg].at, Width) ELSE m.began
    <2>4. BegunAt(h, p) = [h EXCEPT !.through = p, !.first = x, !.began = y]
      BY <1>1, <1>3, <2>1, <2>3 DEF FoldFields
    <2>5. BegunAt(f, p) = [m EXCEPT !.through = p, !.first = x, !.began = y]
      BY <1>1, <2>2 DEF FoldFields
    <2> HIDE DEF x, y, h
    <2>6. [h EXCEPT !.through = p, !.first = x, !.began = y]
            = [m EXCEPT !.through = p, !.first = x, !.began = y]
      BY <1>1, <1>3 DEF FoldFields
    <2> QED BY <2>4, <2>5, <2>6
  <1>7. \A k : Apply(k, p) = IF p <= k.through THEN k ELSE Close(FoldedAt(k, p))
    BY DEF Apply, FoldedAt, BegunAt, ToldBefore
  <1>8. FoldedAt(h, p) = FoldedAt(f, p)
    BY <1>6 DEF FoldedAt
  <1> HIDE DEF h
  <1>9. Apply(h, p) = Close(FoldedAt(h, p)) /\ Apply(f, p) = Close(FoldedAt(f, p))
    BY <1>4, <1>7
  <1> QED BY <1>8, <1>9 DEF h

\* The fold after each position of a page that reaches past it.
LEMMA WalkKeeps ==
  ASSUME log \in Seq(LogRecords), NEW f, NEW W, NEW G, FoldInv(log, f, W, G, 0), f.through # 0,
         NEW first \in 1..Len(log), NEW last \in 1..Len(log), first <= last,
         NEW S, first..last \subseteq S, NEW b \in Nat, b <= f.through,
         NEW told, told = IF first > f.through + 1
                          THEN [MissedBefore(f, f.through, first, At(log, first))
                                  EXCEPT !.through = first - 1]
                          ELSE f,
         NEW u, Walks(u, told, first, last, S)
  PROVE  Onward(log, f, u[last], W, G, b) /\ u[last].through = Max2(f.through, last)
  <1>0. PlaceOK(log, f) /\ ClockOK(log, f) /\ ClosedOK(log, f)
    BY DEF FoldInv
  <1>1. /\ f.through \in Nat /\ DOMAIN f = FoldFields /\ f.first # 0 /\ Len(log) \in Nat
        /\ first \in Nat /\ last \in Nat /\ first # 0 /\ f.through \in 0..Len(log)
    BY <1>0, FoldNumbers DEF PlaceOK
  <1> DEFINE Good(g, i) == Onward(log, f, g, W, G, b) /\ g.through = Max2(f.through, i)
  <1>2. Good(f, f.through)
    <2>1. ClosesOn(f, f, b)
      BY <1>0, ClosesNothing
    <2> QED BY <1>1, <2>1 DEF Onward, Max2
  <1>3. ASSUME NEW g, NEW i \in Nat, Good(g, i), i + 1 \in 1..Len(log), f.through <= i
        PROVE  Good(Apply([g EXCEPT !.through = i], i + 1), i + 1)
    <2> DEFINE h == [g EXCEPT !.through = i]
    <2>1. g.through = i /\ i # 0
      BY <1>1, <1>3 DEF Max2
    <2>2. Onward(log, f, h, W, G, b) /\ h.through = i
      BY <1>3, <2>1, SetAgain
    <2> HIDE DEF h
    <2>3. FoldInv(log, h, W, G, 0) /\ b <= h.through
      BY <1>1, <1>3, <2>2 DEF Onward
    <2>4. Onward(log, h, Apply(h, i + 1), W, G, b) /\ Apply(h, i + 1).through = Max2(i, i + 1)
      BY <1>3, <2>2, <2>3, ApplyKeeps
    <2>5. Onward(log, f, Apply(h, i + 1), W, G, b)
      BY <2>2, <2>4, OnwardFrom
    <2>6. Max2(i, i + 1) = Max2(f.through, i + 1)
      BY <1>1, <1>3 DEF Max2
    <2> QED BY <2>4, <2>5, <2>6 DEF h
  <1>4. Good(Apply(f, first), first)
    BY <1>1, ApplyKeeps
  <1> DEFINE P == {n \in Nat : first + n <= last => Good(u[first + n], first + n)}
  <1>5. 0 \in P
    <2>1. first \in first..last /\ first \in S
      BY <1>1
    <2>2. u[first] = AppliedAt(told, first, S)
      BY <2>1 DEF Walks
    <2>3. CASE first > f.through + 1
      <3>1. told = [MissedBefore(f, f.through, first, At(log, first)) EXCEPT !.through = first - 1]
        BY <2>3
      <3>2. told.through = first - 1
        BY <1>1, <3>1 DEF MissedBefore, FoldFields
      <3>3. first > told.through
        BY <1>1, <3>2
      <3>4. u[first] = Apply([told EXCEPT !.through = first - 1], first)
        BY <2>1, <2>2, <3>3 DEF AppliedAt
      <3>5. u[first] = Apply(f, first)
        BY <1>1, <2>3, <3>1, <3>4, ToldAlready
      <3> HIDE DEF Good
      <3>6. first + 0 = first
        BY <1>1
      <3> QED BY <1>4, <3>5, <3>6
    <2>4. CASE first = f.through + 1
      <3>1. told = f
        BY <1>1, <2>4
      <3>2. first > f.through /\ first - 1 = f.through /\ f.through + 1 = first /\ first + 0 = first
        BY <1>1, <2>4
      <3>3. u[first] = Apply([f EXCEPT !.through = f.through], f.through + 1)
        BY <2>1, <2>2, <3>1, <3>2 DEF AppliedAt
      <3> HIDE DEF Good
      <3>4. f.through + 1 \in 1..Len(log) /\ f.through \in Nat /\ f.through <= f.through
        BY <1>1, <3>2
      <3>5. Good(Apply([f EXCEPT !.through = f.through], f.through + 1), f.through + 1)
        BY <1>2, <1>3, <3>4
      <3> QED BY <3>2, <3>3, <3>5
    <2>5. CASE first <= f.through
      <3>1. told = f /\ ~(first > f.through)
        BY <1>1, <2>5
      <3>2. u[first] = f
        BY <2>2, <3>1 DEF AppliedAt
      <3>3. Max2(f.through, first) = f.through /\ Max2(f.through, f.through) = f.through
            /\ first + 0 = first
        BY <1>1, <2>5 DEF Max2
      <3> QED BY <1>2, <3>2, <3>3
    <2> QED BY <1>1, <2>3, <2>4, <2>5
  <1>6. ASSUME NEW n \in Nat, n \in P PROVE n + 1 \in P
    <2> DEFINE i == first + n
    <2> SUFFICES ASSUME first + (n + 1) <= last PROVE Good(u[first + (n + 1)], first + (n + 1))
      OBVIOUS
    <2>0. first \in Nat \ {0} /\ last \in Nat /\ last <= Len(log) /\ Len(log) \in Nat
      BY <1>1
    <2>1. /\ i \in Nat /\ i # 0 /\ first + (n + 1) = i + 1 /\ i + 1 \in first..last /\ i + 1 - 1 = i
          /\ i + 1 \in 1..Len(log) /\ i <= last
      BY <2>0
    <2>2. Good(u[i], i)
      BY <1>6, <2>1
    <2> HIDE DEF i, Good
    <2>3. u[i + 1] = AppliedAt(u[i], i + 1, S) /\ i + 1 \in S
      BY <2>1 DEF Walks
    <2>4. u[i].through = Max2(f.through, i)
      BY <2>2 DEF Good
    <2>5. CASE f.through <= i
      <3>1. i + 1 > u[i].through
        BY <1>1, <2>1, <2>4, <2>5 DEF Max2
      <3>2. u[i + 1] = Apply([u[i] EXCEPT !.through = (i + 1) - 1], i + 1)
        BY <2>3, <3>1, AppliedIs
      <3>3. u[i + 1] = Apply([u[i] EXCEPT !.through = i], i + 1)
        <4>1. (i + 1) - 1 = i
          BY <2>1
        <4> QED BY <3>2, <4>1
      <3> QED BY <1>3, <2>1, <2>2, <2>5, <3>3
    <2>6. CASE i < f.through
      <3>1. ~(i + 1 > u[i].through) /\ Max2(f.through, i + 1) = Max2(f.through, i)
        BY <1>1, <2>1, <2>4, <2>6 DEF Max2
      <3>2. u[i + 1] = u[i]
        BY <2>3, <3>1 DEF AppliedAt
      <3>3. Good(u[i + 1], i + 1)
        BY <2>2, <3>1, <3>2 DEF Good
      <3> QED BY <2>1, <3>3
    <2> QED BY <1>1, <2>1, <2>5, <2>6
  <1>7. P \in SUBSET Nat
    OBVIOUS
  <1> HIDE DEF P, Good
  <1>8. P = Nat
    BY <1>5, <1>6, <1>7, SetInduction
  <1>9. PICK n \in Nat : first + n = last
    <2>1. last - first \in Nat
      BY <1>1
    <2> QED BY <1>1, <2>1
  <1>10. Good(u[last], last)
    BY <1>1, <1>8, <1>9 DEF P
  <1> QED BY <1>10 DEF Good

\* PeriodFold::refill keeps what holds of a fold, and stays behind the event the
\* gap was found at.
LEMMA RefillKeeps ==
  ASSUME log \in Seq(LogRecords), NEW f, NEW W, NEW G, FoldInv(log, f, W, G, 0),
         NEW page, PageOK(log, page), NEW until \in Nat, f.through <= until,
         NEW b \in Nat, b <= f.through
  PROVE  Onward(log, f, Refill(f, page, until), W, G, b) /\ Refill(f, page, until).through <= until
  <1> DEFINE last == IF page.last <= until THEN page.last ELSE until
             told == IF page.first > f.through + 1
                     THEN [MissedBefore(f, f.through, page.first, page.from)
                             EXCEPT !.through = page.first - 1]
                     ELSE f
             read == ApplyEach(told, page.first, last, page.kept)
             through == [read EXCEPT !.through = Max2(@, last)]
             clocked == [through EXCEPT !.clock = Max2(@, page.clock)]
             skips == f.through = 0 \/ page.last <= f.through \/ page.first > last
  <1>1. Refill(f, page, until) = IF skips THEN f
                                 ELSE IF last = page.last THEN Close(clocked) ELSE through
    BY DEF Refill
  <1>2. PlaceOK(log, f) /\ ClockOK(log, f) /\ ClosedOK(log, f)
    BY DEF FoldInv
  <1>3. CASE skips
    <2>1. ClosesOn(f, f, b)
      BY <1>2, ClosesNothing
    <2> QED BY <1>1, <1>3, <2>1 DEF Onward
  <1>4. CASE ~skips
    <2>1. /\ f.through \in Nat /\ f.through # 0 /\ Len(log) \in Nat
          /\ page.first \in 1..Len(log) /\ page.last \in 1..Len(log) /\ page.first <= page.last
          /\ last \in 1..Len(log) /\ page.first <= last /\ last <= until /\ last <= page.last
          /\ f.through < page.last
      BY <1>2, <1>4, FoldNumbers DEF PageOK
    <2>2. page.first..last \subseteq page.kept /\ page.from = At(log, page.first)
      BY <2>1 DEF PageOK
    <2>3. page.first \in Nat /\ page.first # 0 /\ last \in Nat
      BY <2>1
    <2> HIDE DEF last, told
    <2>4. PICK u : Walks(u, told, page.first, last, page.kept) /\ read = u[last]
      BY <2>1, <2>3, AppliesEach
    <2>5. told = IF page.first > f.through + 1
                 THEN [MissedBefore(f, f.through, page.first, At(log, page.first))
                         EXCEPT !.through = page.first - 1]
                 ELSE f
      BY <2>2 DEF told
    <2> HIDE DEF read
    <2>6. Onward(log, f, read, W, G, b) /\ read.through = Max2(f.through, last)
      BY <2>1, <2>2, <2>4, <2>5, WalkKeeps
    <2>7. read.through \in Nat /\ read.through # 0 /\ Max2(read.through, last) = read.through
          /\ read.through <= until /\ DOMAIN read = FoldFields /\ f.through <= read.through
      BY <2>1, <2>3, <2>6 DEF Max2, Onward, FoldInv, PlaceOK
    <2>8. through = [read EXCEPT !.through = read.through]
      BY <2>7
    <2> HIDE DEF through
    <2>9. Onward(log, f, through, W, G, b) /\ through.through = read.through
      BY <2>1, <2>6, <2>7, <2>8, SetAgain
    <2>10. CASE last # page.last
      BY <1>1, <1>4, <2>7, <2>9, <2>10
    <2>11. CASE last = page.last
      <3>1. /\ FoldInv(log, through, W, G, 0) /\ DOMAIN through = FoldFields
            /\ through.clock \in Nat \cup {None}
        BY <2>9 DEF Onward, FoldInv, PlaceOK, ClockOK
      <3>2. PICK x \in page.first..page.last : page.clock = At(log, x)
        BY DEF PageOK
      <3>3. x \in 1..Len(log) /\ x \in 1..through.through /\ page.clock \in Nat
        <4>1. x \in 1..Len(log)
          BY <2>1
        <4>2. At(log, x) \in Nat
          BY <4>1, MomentFacts
        <4>3. page.last <= through.through
          BY <2>1, <2>3, <2>6, <2>9, <2>11 DEF Max2
        <4> QED BY <2>1, <2>7, <2>9, <3>2, <4>1, <4>2, <4>3
      <3>4. (clocked.clock \in Nat /\ Reaches(log, through.through, clocked.clock)) \/ clocked.clock = through.clock
        <4>1. clocked.clock = Max2(through.clock, page.clock)
          BY <3>1 DEF FoldFields
        <4>2. clocked.clock = page.clock \/ clocked.clock = through.clock
          BY <4>1 DEF Max2
        <4>3. Reaches(log, through.through, page.clock)
          BY <3>2, <3>3 DEF Reaches
        <4> QED BY <3>3, <4>2, <4>3
      <3>5. clocked.clock \in Nat
        <4>1. clocked.clock = Max2(through.clock, page.clock)
          BY <3>1 DEF FoldFields
        <4> QED BY <3>1, <3>3, <4>1, PeriodFacts DEF Max2
      <3>6. Alike(through, clocked) /\ clocked.through = through.through
        BY <3>1 DEF Alike, FoldFields
      <3> HIDE DEF clocked
      <3>7. /\ FoldInv(log, clocked, W, G, 0)
            /\ \A y : InMemory(clocked, y) <=> InMemory(through, y)
            /\ ClosesOn(f, through, b) <=> ClosesOn(f, clocked, b)
        BY <2>7, <2>9, <3>1, <3>4, <3>6, AlikeKeeps
      <3>8. Onward(log, f, clocked, W, G, b)
        BY <2>9, <3>7 DEF Onward
      <3>9. b < clocked.through /\ clocked.through # 0
        BY <2>1, <2>3, <2>6, <2>9, <2>11, <3>6 DEF Max2
      <3>10. /\ FoldInv(log, Close(clocked), W, G, 0) /\ ClosesOn(clocked, Close(clocked), b)
             /\ Close(clocked).through = clocked.through
             /\ \A y : InMemory(Close(clocked), y) <=> InMemory(clocked, y)
        BY <3>5, <3>7, <3>9, CloseKeeps
      <3>11. Onward(log, clocked, Close(clocked), W, G, b)
        BY <3>10 DEF Onward
      <3>12. Onward(log, f, Close(clocked), W, G, b)
        BY <3>8, <3>11, OnwardFrom
      <3> QED BY <1>1, <1>4, <2>7, <2>9, <2>11, <3>6, <3>10, <3>12
    <2> QED BY <2>10, <2>11
  <1> QED BY <1>3, <1>4

\* Pages that keep a fold going, one after the other.
Refills(u, f, q, n, until) ==
  u[0] = f /\ \A i \in 1..n : u[i] = Refill(u[i - 1], q[i], until)

LEMMA RefillsExist ==
  ASSUME NEW f, NEW q, NEW until
  PROVE  \A n \in Nat : \E u : u = [i \in 0..n |-> u[i]] /\ Refills(u, f, q, n, until)
  <1> DEFINE Is(u, n) == u = [i \in 0..n |-> u[i]] /\ Refills(u, f, q, n, until)
             P == {n \in Nat : \E u : Is(u, n)}
  <1>1. 0 \in P
    <2> DEFINE u == [i \in 0..0 |-> f]
    <2>1. u = [i \in 0..0 |-> u[i]] /\ u[0] = f
      OBVIOUS
    <2>2. 1..0 = {}
      OBVIOUS
    <2> HIDE DEF u
    <2>3. Is(u, 0)
      BY <2>1, <2>2 DEF Refills
    <2> QED BY <2>3
  <1>2. ASSUME NEW n \in Nat, n \in P PROVE n + 1 \in P
    <2>1. PICK u : Is(u, n)
      BY <1>2
    <2> DEFINE v == [i \in 0..(n + 1) |-> IF i = n + 1 THEN Refill(u[n], q[n + 1], until) ELSE u[i]]
    <2>2. /\ \A i \in 0..n : v[i] = u[i]
          /\ v[n + 1] = Refill(u[n], q[n + 1], until)
      OBVIOUS
    <2>3. v = [i \in 0..(n + 1) |-> v[i]]
      OBVIOUS
    <2> HIDE DEF v
    <2>4. Refills(v, f, q, n + 1, until)
      <3>1. v[0] = f
        BY <2>1, <2>2 DEF Refills
      <3>2. ASSUME NEW i \in 1..(n + 1) PROVE v[i] = Refill(v[i - 1], q[i], until)
        <4>1. CASE i = n + 1
          BY <2>2, <4>1
        <4>2. CASE i # n + 1
          <5>1. i \in 1..n /\ i \in 0..n /\ i - 1 \in 0..n
            BY <4>2
          <5> QED BY <2>1, <2>2, <5>1 DEF Refills
        <4> QED BY <4>1, <4>2
      <3> QED BY <3>1, <3>2 DEF Refills
    <2>5. Is(v, n + 1)
      BY <2>3, <2>4
    <2> QED BY <2>5
  <1>3. P \in SUBSET Nat
    OBVIOUS
  <1> HIDE DEF P
  <1>4. P = Nat
    BY <1>1, <1>2, <1>3, SetInduction
  <1> QED BY <1>4 DEF P

LEMMA RefillsKeep ==
  ASSUME log \in Seq(LogRecords), NEW f, NEW W, NEW G, FoldInv(log, f, W, G, 0),
         NEW q, NEW n \in Nat, \A i \in 1..n : PageOK(log, q[i]), NEW until \in Nat, f.through <= until,
         NEW b \in Nat, b <= f.through, NEW u, Refills(u, f, q, n, until)
  PROVE  Onward(log, f, u[n], W, G, b) /\ u[n].through <= until
  <1> DEFINE Good(g) == Onward(log, f, g, W, G, b) /\ g.through <= until
             P == {i \in Nat : i <= n => Good(u[i])}
  <1>0. PlaceOK(log, f) /\ ClockOK(log, f) /\ ClosedOK(log, f) /\ f.through \in Nat
    BY FoldNumbers DEF FoldInv
  <1>1. 0 \in P
    <2>1. u[0] = f
      BY DEF Refills
    <2>2. ClosesOn(f, f, b)
      BY <1>0, ClosesNothing
    <2> QED BY <2>1, <2>2 DEF Onward
  <1>2. ASSUME NEW i \in Nat, i \in P PROVE i + 1 \in P
    <2> SUFFICES ASSUME i + 1 <= n PROVE Good(u[i + 1])
      OBVIOUS
    <2>1. i <= n /\ i + 1 \in 1..n /\ (i + 1) - 1 = i
      OBVIOUS
    <2>2. Good(u[i])
      BY <1>2, <2>1
    <2>3. u[i + 1] = Refill(u[i], q[i + 1], until)
      BY <2>1 DEF Refills
    <2>4. FoldInv(log, u[i], W, G, 0) /\ PageOK(log, q[i + 1]) /\ u[i].through <= until
      BY <2>1, <2>2 DEF Onward
    <2>5. b <= u[i].through
      <3>1. f.through <= u[i].through /\ u[i].through \in Nat
        BY <2>2, <2>4, FoldNumbers DEF Onward, ClosesOn, FoldInv
      <3> QED BY <1>0, <3>1
    <2>6. Onward(log, u[i], u[i + 1], W, G, b) /\ u[i + 1].through <= until
      BY <2>3, <2>4, <2>5, RefillKeeps
    <2> QED BY <2>2, <2>6, OnwardFrom
  <1>3. P \in SUBSET Nat
    OBVIOUS
  <1> HIDE DEF P
  <1>4. P = Nat
    BY <1>1, <1>2, <1>3, SetInduction
  <1> QED BY <1>4 DEF P

-----------------------------------------------------------------------------
(* The pages a gap is refilled from. *)

\* The pages in order of their first position.
PagesSorted(q, n, T) ==
  /\ q \in [1..n -> T]
  /\ \A g \in T : \E i \in 1..n : q[i] = g
  /\ \A i, j \in 1..n : i < j => q[i].first <= q[j].first

LEMMA PagesCanBeSorted ==
  ASSUME NEW K, \A g \in K : g.first \in Nat
  PROVE  \A n \in Nat : \A T \in SUBSET K :
           IsFiniteSet(T) /\ Cardinality(T) = n => \E q : PagesSorted(q, n, T)
  <1> DEFINE P == {n \in Nat : \A T \in SUBSET K :
                      IsFiniteSet(T) /\ Cardinality(T) = n => \E q : PagesSorted(q, n, T)}
  <1>1. 0 \in P
    <2>1. ASSUME NEW T \in SUBSET K, IsFiniteSet(T), Cardinality(T) = 0
          PROVE  \E q : PagesSorted(q, 0, T)
      <3>1. T = {}
        BY <2>1, FS_EmptySet
      <3>2. PagesSorted([i \in 1..0 |-> 0], 0, T)
        BY <3>1 DEF PagesSorted
      <3> QED BY <3>2
    <2> QED BY <2>1
  <1>2. ASSUME NEW n \in Nat, n \in P PROVE n + 1 \in P
    <2>1. ASSUME NEW T \in SUBSET K, IsFiniteSet(T), Cardinality(T) = n + 1
          PROVE  \E q : PagesSorted(q, n + 1, T)
      <3>1. T # {}
        BY <1>2, <2>1, FS_EmptySet
      <3> DEFINE firsts == {g.first : g \in T}
      <3>2. firsts \in SUBSET Nat /\ firsts # {}
        BY <2>1, <3>1
      <3>3. PICK a \in firsts : \A y \in firsts : a <= y
        <4> HIDE DEF firsts
        <4> QED BY <3>2, LeastNumber
      <3>4. PICK m \in T : m.first = a
        BY <3>3
      <3>5. \A g \in T : m.first <= g.first
        BY <3>3, <3>4
      <3> HIDE DEF firsts
      <3> DEFINE R == T \ {m}
      <3>6. R \in SUBSET K /\ IsFiniteSet(R) /\ Cardinality(R) = n
        <4>1. IsFiniteSet(R) /\ Cardinality(R) = Cardinality(T) - 1
          BY <2>1, <3>4, FS_RemoveElement
        <4> QED BY <1>2, <2>1, <4>1
      <3>7. PICK q : PagesSorted(q, n, R)
        <4> HIDE DEF R
        <4> QED BY <1>2, <3>6
      <3> DEFINE g == [i \in 1..(n + 1) |-> IF i = 1 THEN m ELSE q[i - 1]]
      <3>8. \A i \in 1..(n + 1) : i # 1 => i - 1 \in 1..n
        BY <1>2
      <3>9. /\ DOMAIN g = 1..(n + 1) /\ 1 \in 1..(n + 1) /\ g[1] = m
            /\ \A i \in 1..(n + 1) : i # 1 => g[i] = q[i - 1]
        BY <1>2
      <3>10. /\ q \in [1..n -> R] /\ \A y \in R : \E i \in 1..n : q[i] = y
             /\ \A i, j \in 1..n : i < j => q[i].first <= q[j].first
        BY <3>7 DEF PagesSorted
      <3>11. \A i \in 1..(n + 1) : g[i] \in T
        BY <3>4, <3>8, <3>9, <3>10
      <3>12. g \in [1..(n + 1) -> T]
        BY <3>11
      <3> HIDE DEF g
      <3>13. ASSUME NEW y \in T PROVE \E i \in 1..(n + 1) : g[i] = y
        <4>1. CASE y = m
          BY <3>9, <4>1
        <4>2. CASE y # m
          <5>1. y \in R
            BY <4>2
          <5> HIDE DEF R
          <5>2. PICK i \in 1..n : q[i] = y
            BY <3>10, <5>1
          <5>3. i + 1 \in 1..(n + 1) /\ i + 1 # 1 /\ (i + 1) - 1 = i
            BY <1>2
          <5>4. g[i + 1] = y
            BY <3>9, <5>2, <5>3
          <5> QED BY <5>3, <5>4
        <4> QED BY <4>1, <4>2
      <3>14. ASSUME NEW i \in 1..(n + 1), NEW j \in 1..(n + 1), i < j PROVE g[i].first <= g[j].first
        <4>1. j # 1
          BY <1>2, <3>14
        <4>2. g[j] = q[j - 1] /\ j - 1 \in 1..n
          BY <3>8, <3>9, <4>1
        <4>3. CASE i = 1
          BY <3>5, <3>9, <3>11, <4>3
        <4>4. CASE i # 1
          <5>1. g[i] = q[i - 1] /\ i - 1 \in 1..n
            BY <3>8, <3>9, <4>4
          <5>2. i - 1 < j - 1
            BY <1>2, <3>14
          <5> HIDE DEF R
          <5> QED BY <3>10, <4>2, <5>1, <5>2
        <4> QED BY <4>3, <4>4
      <3>15. PagesSorted(g, n + 1, T)
        BY <3>12, <3>13, <3>14 DEF PagesSorted
      <3> QED BY <3>15
    <2> HIDE DEF P
    <2>2. n + 1 \in Nat
      BY <1>2
    <2> QED BY <2>1, <2>2 DEF P
  <1>3. P \in SUBSET Nat
    OBVIOUS
  <1>4. P = Nat
    <2> HIDE DEF P
    <2> QED BY <1>1, <1>2, <1>3, SetInduction
  <1> QED BY <1>4

\* The pages kept are whole stretches of the log.
PagesAreOK == IsFiniteSet(kept) /\ \A g \in kept : PageOK(log, g)

LEMMA PagesReachingAre ==
  ASSUME PagesAreOK, NEW first, NEW last
  PROVE  /\ \E X : PagesReaching(first, last) \in Seq(X)
         /\ \A i \in 1..Len(PagesReaching(first, last)) : PageOK(log, PagesReaching(first, last)[i])
         /\ Len(PagesReaching(first, last)) \in Nat
  <1> DEFINE T == {g \in kept : g.first <= last /\ g.last >= first}
             n == Cardinality(T)
             r == PagesReaching(first, last)
             Is(q) == /\ q \in [1..n -> T]
                      /\ \A g \in T : \E i \in DOMAIN q : q[i] = g
                      /\ \A i, j \in DOMAIN q : i < j => q[i].first <= q[j].first
  <1>1. IsFiniteSet(T) /\ n \in Nat
    <2>1. IsFiniteSet(kept) /\ T \subseteq kept
      BY DEF PagesAreOK
    <2>2. IsFiniteSet(T)
      BY <2>1, FS_Subset
    <2> QED BY <2>2, FS_CardinalityType
  <1>2. \A g \in T : g.first \in Nat
    BY DEF PagesAreOK, PageOK
  <1>3. r = CHOOSE q : Is(q)
    <2>1. r = CHOOSE q \in [1..n -> T] :
                /\ \A g \in T : \E i \in DOMAIN q : q[i] = g
                /\ \A i, j \in DOMAIN q : i < j => q[i].first <= q[j].first
      BY Zenon DEF PagesReaching
    <2> QED BY <2>1
  <1> HIDE DEF T, r
  <1>4. PICK q : PagesSorted(q, n, T)
    BY <1>1, <1>2, PagesCanBeSorted
  <1>5. Is(q)
    BY <1>4 DEF PagesSorted
  <1> HIDE DEF Is, n
  <1>6. Is(r)
    BY <1>3, <1>5
  <1>7. r \in [1..n -> T]
    BY <1>6 DEF Is
  <1>8. r \in Seq(T) /\ Len(r) = n
    BY <1>1, <1>7, SequenceOf
  <1>9. \A i \in 1..n : PageOK(log, r[i])
    BY <1>7 DEF T, PagesAreOK
  <1> QED BY <1>1, <1>8, <1>9 DEF r

\* A gap refilled keeps what holds of a fold, and stays behind the event.
LEMMA RefilledKeeps ==
  ASSUME log \in Seq(LogRecords), NEW f, NEW W, NEW G, FoldInv(log, f, W, G, 0), PagesAreOK,
         NEW p \in 1..Len(log), f.through < p, NEW b \in Nat, b <= f.through
  PROVE  /\ Onward(log, f, JournalRefilled(f, p), W, G, b)
         /\ JournalRefilled(f, p).through < p
  <1> DEFINE pages == PagesReaching(f.through + 1, p - 1)
             n == Len(pages)
             UpTo(g) == [i \in 0..n |-> IF i = 0 THEN f ELSE Refill(g[i - 1], pages[i], p - 1)]
             upTo == CHOOSE g : g = UpTo(g)
  <1>0. f.through \in Nat
    BY FoldNumbers DEF FoldInv
  <1>1. n \in Nat /\ \A i \in 1..n : PageOK(log, pages[i])
    BY PagesReachingAre
  <1>2. JournalRefilled(f, p) = upTo[n]
    BY Zenon DEF JournalRefilled
  <1> HIDE DEF pages, n
  <1>3. PICK u : u = [i \in 0..n |-> u[i]] /\ Refills(u, f, pages, n, p - 1)
    BY <1>1, RefillsExist
  <1>4. u = UpTo(u)
    <2>1. ASSUME NEW i \in 0..n PROVE u[i] = UpTo(u)[i]
      <3>1. CASE i = 0
        BY <1>3, <3>1 DEF Refills
      <3>2. CASE i # 0
        <4>1. i \in 1..n
          BY <1>1, <3>2
        <4> QED BY <1>3, <3>2, <4>1 DEF Refills
      <3> QED BY <3>1, <3>2
    <2>2. UpTo(u) = [i \in 0..n |-> UpTo(u)[i]]
      OBVIOUS
    <2> HIDE DEF UpTo
    <2> QED BY <1>3, <2>1, <2>2
  <1>5. upTo = UpTo(upTo)
    <2> HIDE DEF UpTo
    <2>1. \E g : g = UpTo(g)
      BY <1>4
    <2> QED BY <2>1
  <1> HIDE DEF upTo
  <1>6. Refills(upTo, f, pages, n, p - 1)
    <2>1. ASSUME NEW i \in 0..n
          PROVE  upTo[i] = IF i = 0 THEN f ELSE Refill(upTo[i - 1], pages[i], p - 1)
      <3>1. UpTo(upTo)[i] = IF i = 0 THEN f ELSE Refill(upTo[i - 1], pages[i], p - 1)
        OBVIOUS
      <3> HIDE DEF UpTo
      <3> QED BY <1>5, <3>1
    <2>2. 0 \in 0..n /\ \A i \in 1..n : i \in 0..n /\ i # 0
      BY <1>1
    <2> QED BY <2>1, <2>2 DEF Refills
  <1>7. p - 1 \in Nat /\ f.through <= p - 1 /\ p \in Nat
    BY <1>0
  <1>8. Onward(log, f, upTo[n], W, G, b) /\ upTo[n].through <= p - 1
    BY <1>1, <1>6, <1>7, RefillsKeep
  <1>9. upTo[n].through \in Nat
    BY <1>8, FoldNumbers DEF Onward, FoldInv
  <1> QED BY <1>2, <1>7, <1>8, <1>9

\* The fold once it was handed position p.
LEMMA FoldedKeeps ==
  ASSUME log \in Seq(LogRecords), NEW f, NEW W, NEW G, FoldInv(log, f, W, G, 0), PagesAreOK,
         NEW p \in 1..Len(log), NEW b \in Nat, b <= f.through,
         NEW g, g = Apply(f, p) \/ (HasGap(f, p) /\ g = Apply(JournalRefilled(f, p), p))
  PROVE  /\ Onward(log, f, g, W, G, b)
         /\ g.through = Max2(f.through, p)
         /\ (g = Apply(f, p) => \A x : InMemory(g, x) => InMemory(f, x) \/ x = p)
  <1>1. f.through \in Nat
    BY FoldNumbers DEF FoldInv
  <1>2. CASE g = Apply(f, p)
    BY <1>2, ApplyKeeps
  <1>3. CASE HasGap(f, p) /\ g = Apply(JournalRefilled(f, p), p) /\ g # Apply(f, p)
    <2> DEFINE h == JournalRefilled(f, p)
    <2>1. f.through < p
      BY <1>1, <1>3 DEF HasGap
    <2>2. Onward(log, f, h, W, G, b) /\ h.through < p
      BY <2>1, RefilledKeeps
    <2> HIDE DEF h
    <2>3. FoldInv(log, h, W, G, 0)
      BY <2>2 DEF Onward
    <2>4. h.through \in Nat /\ f.through <= h.through
      BY <2>2, <2>3, FoldNumbers DEF Onward, ClosesOn, FoldInv
    <2>5. b <= h.through
      BY <1>1, <2>4
    <2>6. Onward(log, h, Apply(h, p), W, G, b) /\ Apply(h, p).through = Max2(h.through, p)
      BY <2>3, <2>5, ApplyKeeps
    <2>7. Max2(h.through, p) = Max2(f.through, p)
      BY <1>1, <2>1, <2>2, <2>4 DEF Max2
    <2>8. g = Apply(h, p)
      BY <1>3 DEF h
    <2>9. Onward(log, f, g, W, G, b)
      BY <2>2, <2>6, <2>8, OnwardFrom
    <2> QED BY <1>3, <2>6, <2>7, <2>8, <2>9
  <1> QED BY <1>2, <1>3

\* The pages a journal holds, and its own subscription.
LogPages(l) == {g \in PageRecords : PageOK(l, g)}
JournalOf(X) == [at : {"loop", "keep"}, through : Nat, reading : Seq(X), waiting : Seq(X)]

PagesInv ==
  /\ PagesAreOK
  /\ journal \in JournalOf(LogPages(log))
  /\ sub["journal"] \in SubRecords /\ committed["journal"] \in Nat

LEMMA PagesStay ==
  ASSUME log \in Seq(LogRecords), log' \in Seq(LogRecords), LogGrows
  PROVE  /\ \A g : PageOK(log, g) => PageOK(log', g)
         /\ LogPages(log) \subseteq LogPages(log')
         /\ JournalOf(LogPages(log)) \subseteq JournalOf(LogPages(log'))
  <1>1. Len(log) \in Nat /\ Len(log') \in Nat /\ Len(log) <= Len(log')
    BY DEF LogGrows
  <1>2. \A p \in 1..Len(log) : At(log', p) = At(log, p) /\ p \in 1..Len(log')
    BY <1>1 DEF LogGrows, At
  <1>3. ASSUME NEW g, PageOK(log, g) PROVE PageOK(log', g)
    <2>1. \A x \in g.first..g.last : x \in 1..Len(log)
      BY <1>1, <1>3 DEF PageOK
    <2> QED BY <1>2, <1>3, <2>1 DEF PageOK
  <1>4. LogPages(log) \subseteq LogPages(log')
    BY <1>3 DEF LogPages
  <1>5. \A s \in Seq(LogPages(log)) : s \in Seq(LogPages(log'))
    BY <1>4, SeqMonotonic
  <1>6. JournalOf(LogPages(log)) \subseteq JournalOf(LogPages(log'))
    BY <1>5 DEF JournalOf
  <1> QED BY <1>3, <1>4, <1>6

LEMMA LetGoHolds ==
  ASSUME NEW X, NEW j \in JournalOf(X)
  PROVE  LetGo(j) \in JournalOf(X)
  <1> DEFINE n == Len(j.waiting)
             Dropping(k) == [j EXCEPT !.waiting = SubSeq(@, k + 1, Len(@))]
             enough == {k \in 0..n : HeldPositions(Dropping(k)) <= MostHeld}
             least == CHOOSE k \in enough : \A o \in enough : k <= o
  <1>1. j.waiting \in Seq(X) /\ n \in Nat
    BY DEF JournalOf
  <1>2. ASSUME NEW k \in 0..n PROVE Dropping(k) \in JournalOf(X)
    <2>1. SubSeq(j.waiting, k + 1, n) \in Seq(X)
      <3>1. \A i \in (k + 1)..n : j.waiting[i] \in X
        BY <1>1
      <3> QED BY <1>1, <3>1, SubSeqProperties
    <2> QED BY <2>1 DEF JournalOf
  <1>3. enough # {} => least \in enough
    <2> HIDE DEF Dropping
    <2>1. enough \in SUBSET Nat
      BY <1>1
    <2> HIDE DEF enough
    <2>2. enough # {} => \E k \in enough : \A o \in enough : k <= o
      BY <2>1, LeastNumber
    <2> QED BY <2>2
  <1>4. LetGo(j) = Dropping(IF enough = {} THEN n ELSE least)
    BY Zenon DEF LetGo
  <1>5. (IF enough = {} THEN n ELSE least) \in 0..n
    <2>1. CASE enough = {}
      BY <1>1, <2>1
    <2>2. CASE enough # {}
      <3>1. enough \subseteq 0..n
        OBVIOUS
      <3> HIDE DEF enough, least
      <3> QED BY <1>3, <2>2, <3>1
    <2> QED BY <2>1, <2>2
  <1> HIDE DEF Dropping, enough, least
  <1> QED BY <1>2, <1>4, <1>5

LEMMA ClosePageHolds ==
  ASSUME NEW X, X \subseteq PageRecords, NEW j \in JournalOf(X)
  PROVE  ClosePage(j) \in JournalOf(X)
  <1> DEFINE h == [j EXCEPT !.through = j.reading[1].last, !.reading = <<>>,
                            !.waiting = Append(@, j.reading[1])]
  <1>1. ASSUME j.reading # <<>> PROVE h \in JournalOf(X)
    <2>1. j.reading \in Seq(X) /\ j.waiting \in Seq(X)
      BY DEF JournalOf
    <2>2. j.reading[1] \in X
      BY <1>1, <2>1
    <2>3. j.reading[1].last \in Nat
      BY <2>2 DEF PageRecords
    <2>4. Append(j.waiting, j.reading[1]) \in Seq(X) /\ <<>> \in Seq(X)
      BY <2>1, <2>2
    <2> QED BY <2>3, <2>4 DEF JournalOf
  <1>2. ClosePage(j) = LetGo(IF j.reading = <<>> THEN j ELSE h)
    BY DEF ClosePage
  <1> HIDE DEF h
  <1>3. (IF j.reading = <<>> THEN j ELSE h) \in JournalOf(X)
    BY <1>1
  <1> QED BY <1>2, <1>3, LetGoHolds

\* What the journal reads it holds in pages that are stretches of the log.
LEMMA ReadIntoHolds ==
  ASSUME log \in Seq(LogRecords), NEW j \in JournalOf(LogPages(log)), NEW p \in 1..Len(log)
  PROVE  ReadInto(j, p) \in JournalOf(LogPages(log))
  <1> DEFINE at == Msg[log[p].msg].at
             X == LogPages(log)
             follows == j.reading # <<>> /\ p = j.reading[1].last + 1
             j1 == IF j.reading # <<>> /\ ~follows THEN ClosePage(j) ELSE j
             longer == [j1.reading[1] EXCEPT !.last = p, !.clock = Max2(@, at), !.kept = @ \cup {p}]
             fresh == [first |-> p, last |-> p, from |-> at, clock |-> at, kept |-> {p}]
             page == IF follows THEN longer ELSE fresh
             j2 == [j1 EXCEPT !.reading = <<page>>]
             seen == p <= j.through \/ (j.reading # <<>> /\ p <= j.reading[1].last)
  <1>1. at = At(log, p) /\ at \in Nat /\ Len(log) \in Nat /\ p \in Nat
    BY MomentFacts DEF At
  <1>2. X \subseteq PageRecords
    BY DEF LogPages
  <1> HIDE DEF at
  <1>3. fresh \in X
    <2>1. p..p = {p}
      BY <1>1
    <2>2. fresh \in PageRecords
      BY <1>1 DEF PageRecords
    <2>3. PageOK(log, fresh)
      BY <1>1, <2>1 DEF PageOK
    <2> QED BY <2>2, <2>3 DEF LogPages
  <1>4. j1 \in JournalOf(X)
    BY <1>2, ClosePageHolds
  <1>5. ASSUME follows PROVE longer \in X
    <2> DEFINE g == j.reading[1]
               c == Max2(g.clock, at)
    <2>1. j1 = j
      BY <1>5
    <2>2. j.reading \in Seq(X) /\ j.reading # <<>> /\ p = g.last + 1
      BY <1>5 DEF JournalOf
    <2>3. g \in X
      BY <2>2
    <2>4. g \in PageRecords /\ PageOK(log, g)
      BY <2>3 DEF LogPages
    <2>5. longer = [g EXCEPT !.last = p, !.clock = c, !.kept = @ \cup {p}]
      BY <2>1
    <2> HIDE DEF longer, g
    <2>6. /\ longer.first = g.first /\ longer.last = p /\ longer.from = g.from /\ longer.clock = c
          /\ longer.kept = g.kept \cup {p} /\ c \in Nat
          /\ longer \in PageRecords
      BY <1>1, <2>4, <2>5 DEF PageRecords, Max2
    <2>7. /\ g.first \in Nat /\ g.last \in Nat /\ g.first <= g.last /\ g.first <= p
          /\ g.first..p = (g.first..g.last) \cup {p}
      BY <1>1, <2>2, <2>4 DEF PageOK
    <2>8. \E x \in g.first..p : c = At(log, x)
      <3>1. c = g.clock \/ c = at
        BY DEF Max2
      <3> QED BY <1>1, <2>4, <2>7, <3>1 DEF PageOK
    <2>9. PageOK(log, longer)
      <3> HIDE DEF c
      <3>1. longer.first \in 1..Len(log) /\ longer.last \in 1..Len(log) /\ longer.first <= longer.last
        BY <2>4, <2>6, <2>7 DEF PageOK
      <3>2. longer.kept = longer.first..longer.last /\ longer.from = At(log, longer.first)
        BY <2>4, <2>6, <2>7 DEF PageOK
      <3> QED BY <2>6, <2>8, <3>1, <3>2 DEF PageOK
    <2> QED BY <2>6, <2>9 DEF LogPages
  <1>6. page \in X
    BY <1>3, <1>5
  <1> HIDE DEF page, j1, X
  <1>7. j2 \in JournalOf(X)
    <2>1. <<page>> \in Seq(X)
      BY <1>6
    <2> QED BY <1>4, <2>1 DEF JournalOf
  <1>8. ReadInto(j, p) \in {j, ClosePage(j2), j2}
    BY DEF ReadInto, page, j1, at
  <1> HIDE DEF j2
  <1>9. ClosePage(j2) \in JournalOf(X)
    BY <1>2, <1>7, ClosePageHolds
  <1> QED BY <1>7, <1>8, <1>9 DEF X

\* A step that keeps no page and moves the journal to j, which holds pages of
\* the log.
LEMMA PagesBeside ==
  ASSUME log \in Seq(LogRecords), log' \in Seq(LogRecords), LogGrows, PagesInv,
         kept' = kept, journal' \in JournalOf(LogPages(log)),
         sub'["journal"] \in SubRecords, committed'["journal"] \in Nat
  PROVE  PagesInv'
  <1>1. /\ \A g : PageOK(log, g) => PageOK(log', g)
        /\ JournalOf(LogPages(log)) \subseteq JournalOf(LogPages(log'))
    BY PagesStay
  <1>2. IsFiniteSet(kept') /\ \A g \in kept' : PageOK(log', g)
    BY <1>1 DEF PagesInv, PagesAreOK
  <1>3. journal' \in JournalOf(LogPages(log'))
    BY <1>1
  <1> QED BY <1>2, <1>3 DEF PagesInv, PagesAreOK

LEMMA PagesInit ==
  ASSUME NEW held \in Seq(Msgs), wiring \in WiringSpace, ProjectorInit(held)
  PROVE  PagesInv
  <1>1. /\ LogInit(held) /\ journal = NewJournal(0) /\ kept = {}
    BY DEF ProjectorInit
  <1>2. sub["journal"] = NoSubscription /\ committed["journal"] = 0
    BY <1>1, BothRead DEF LogInit
  <1>3. sub["journal"] \in SubRecords
    BY <1>2 DEF NoSubscription, SubRecords
  <1>4. journal \in JournalOf(LogPages(log))
    BY <1>1 DEF NewJournal, JournalOf
  <1>5. PagesAreOK
    BY <1>1, FS_EmptySet DEF PagesAreOK
  <1> QED BY <1>2, <1>3, <1>4, <1>5 DEF PagesInv

\* The journal's own steps.
LEMMA JournalKeepsPages ==
  ASSUME StreamInv, BusInv, AskedInv, PagesInv, StreamInv', LogGrows, JournalStep
  PROVE  PagesInv'
  <1> DEFINE X == LogPages(log)
  <1>0. /\ log \in Seq(LogRecords) /\ log' \in Seq(LogRecords)
        /\ "journal" \in DOMAIN sub /\ "journal" \in DOMAIN committed
        /\ wiring \in WiringSpace /\ trimmed \in Nat
        /\ journal \in JournalOf(X) /\ X \subseteq PageRecords
        /\ sub["journal"] \in SubRecords /\ committed["journal"] \in Nat /\ Len(live) \in Nat
    BY BothRead DEF StreamInv, BusInv, AskedInv, SourceSide, PagesInv, LogPages
  <1>1. CASE StartJournal
    <2> DEFINE n == IF StoredCheckpoint("journal") # 0 THEN StoredCheckpoint("journal")
                    ELSE ColdStart("journal")
    <2>1. /\ journal' = NewJournal(StoredCheckpoint("journal"))
          /\ sub' = [sub EXCEPT !["journal"] = Subscribed(n)]
          /\ UNCHANGED <<committed, kept>>
      BY <1>1 DEF StartJournal
    <2>2. StoredCheckpoint("journal") \in Nat /\ n \in Nat
      BY <1>0 DEF StoredCheckpoint, ColdStart
    <2>3. journal' \in JournalOf(X)
      BY <2>1, <2>2 DEF NewJournal, JournalOf
    <2> HIDE DEF n
    <2>4. sub'["journal"] = Subscribed(n)
      BY <1>0, <2>1
    <2>5. sub'["journal"] \in SubRecords
      BY <1>0, <2>2, <2>4 DEF Subscribed, SubRecords
    <2> QED BY <1>0, <2>1, <2>3, <2>5, PagesBeside
  <1>2. CASE JournalReads
    <2> DEFINE p == NextDelivery("journal")
               read == ReadInto(journal, p)
    <2>1. /\ p # 0 /\ sub' = [sub EXCEPT !["journal"] = Delivered("journal", p)]
          /\ journal' = IF read.through # journal.through THEN [read EXCEPT !.at = "keep"] ELSE read
          /\ UNCHANGED <<log, committed, kept>>
      BY <1>2 DEF JournalReads
    <2>2. p \in 1..Len(log)
      BY <1>0, <2>1, NextOfReader DEF Positions
    <2> HIDE DEF p
    <2>3. read \in JournalOf(X)
      BY <1>0, <2>2, ReadIntoHolds
    <2> HIDE DEF read
    <2>4. journal' \in JournalOf(X)
      BY <2>1, <2>3 DEF JournalOf
    <2>5. sub'["journal"] = Delivered("journal", p)
      BY <1>0, <2>1
    <2>6. Delivered("journal", p) \in SubRecords
      <3> DEFINE s == sub["journal"]
                 c == IF wiring.log = "wal" /\ s.state = "live" THEN s.cursor + 1 ELSE s.cursor
                 t == IF wiring.log = "laser" THEN "replay" ELSE s.state
      <3>1. Delivered("journal", p) = [s EXCEPT !.delivered = p, !.cursor = c, !.state = t]
        BY DEF Delivered
      <3>2. c \in Nat /\ t \in {"off", "replay", "live", "ended"} /\ p \in Nat
        BY <1>0, <2>2 DEF SubRecords
      <3> HIDE DEF c, t
      <3> QED BY <1>0, <3>1, <3>2 DEF SubRecords
    <2> QED BY <1>0, <2>1, <2>4, <2>5, <2>6, PagesBeside
  <1>3. CASE JournalCaughtUp
    <2>1. /\ sub' = [sub EXCEPT !["journal"].state = "live"]
          /\ journal' = [ClosePage(journal) EXCEPT !.at = "keep"]
          /\ UNCHANGED <<committed, kept>>
      BY <1>3 DEF JournalCaughtUp
    <2>2. ClosePage(journal) \in JournalOf(X)
      BY <1>0, ClosePageHolds
    <2>3. journal' \in JournalOf(X)
      BY <2>1, <2>2 DEF JournalOf
    <2>4. sub'["journal"] \in SubRecords
      <3>1. sub'["journal"] = [sub["journal"] EXCEPT !.state = "live"]
        BY <1>0, <2>1
      <3> QED BY <1>0, <3>1 DEF SubRecords
    <2> QED BY <1>0, <2>1, <2>3, <2>4, PagesBeside
  <1>4. CASE JournalTick
    <2>1. UNCHANGED <<committed, kept, sub>>
      BY <1>4 DEF JournalTick, logVars, busVars
    <2>2. PICK closed \in {journal, ClosePage(journal)} : journal' = [closed EXCEPT !.at = "keep"]
      BY <1>4 DEF JournalTick
    <2>3. closed \in JournalOf(X)
      BY <1>0, <2>2, ClosePageHolds
    <2>4. journal' \in JournalOf(X)
      BY <2>2, <2>3 DEF JournalOf
    <2> QED BY <1>0, <2>1, <2>4, PagesBeside
  <1>5. CASE KeepPage
    <2> DEFINE page == Head(journal.waiting)
    <2>1. UNCHANGED <<log, sub>> /\ journal.waiting \in Seq(X)
      BY <1>0, <1>5 DEF KeepPage, JournalOf
    <2>2. CASE journal.waiting # <<>> /\ kept' = kept \cup {page}
      <3>1. page \in X /\ Tail(journal.waiting) \in Seq(X)
        BY <2>1, <2>2, HeadTailProperties
      <3>2. journal' = [journal EXCEPT !.waiting = Tail(@)] \/ journal' = [journal EXCEPT !.at = "loop"]
        BY <1>5 DEF KeepPage
      <3>3. committed' = committed \/ committed' = [committed EXCEPT !["journal"] = page.last]
        BY <1>5 DEF KeepPage
      <3>4. page.last \in Nat /\ PageOK(log, page)
        BY <3>1 DEF LogPages, PageRecords
      <3> HIDE DEF page
      <3>5. journal' \in JournalOf(X)
        BY <1>0, <3>1, <3>2 DEF JournalOf
      <3>6. committed'["journal"] \in Nat
        BY <1>0, <3>3, <3>4
      <3>7. IsFiniteSet(kept') /\ \A g \in kept' : PageOK(log, g)
        BY <2>2, <3>4, FS_AddElement DEF PagesInv, PagesAreOK
      <3> QED BY <1>0, <2>1, <3>5, <3>6, <3>7 DEF PagesInv, PagesAreOK
    <2>3. CASE kept' = kept
      <3>1. \/ journal' = [journal EXCEPT !.at = "loop"]
            \/ journal.waiting # <<>> /\ journal' = [journal EXCEPT !.waiting = Tail(@)]
        BY <1>5 DEF KeepPage
      <3>2. journal.waiting # <<>> => Tail(journal.waiting) \in Seq(X)
        BY <2>1, HeadTailProperties
      <3>3. journal' \in JournalOf(X)
        BY <1>0, <3>1, <3>2 DEF JournalOf
      <3>4. committed' = committed \/ (journal.waiting # <<>> /\ kept' = kept \cup {page})
        BY <1>5 DEF KeepPage
      <3>5. CASE committed' = committed
        BY <1>0, <2>1, <2>3, <3>3, <3>5, PagesBeside
      <3> QED BY <2>2, <3>4, <3>5
    <2>4. kept' = kept \/ (journal.waiting # <<>> /\ kept' = kept \cup {page})
      BY <1>5 DEF KeepPage
    <2> QED BY <2>2, <2>3, <2>4
  <1> QED BY <1>1, <1>2, <1>3, <1>4, <1>5 DEF JournalStep

LEMMA PagesStep ==
  ASSUME StreamInv, BusInv, AskedInv, PagesInv, StreamInv', [ProjectorNext]_vars
  PROVE  PagesInv'
  <1>0. LogGrows
    BY EveryStepGrows
  <1>1. /\ log \in Seq(LogRecords) /\ log' \in Seq(LogRecords)
        /\ "journal" \in DOMAIN sub /\ "journal" \in DOMAIN committed /\ "projector" # "journal"
        /\ journal \in JournalOf(LogPages(log))
        /\ sub["journal"] \in SubRecords /\ committed["journal"] \in Nat
    BY BothRead DEF StreamInv, AskedInv, SourceSide, PagesInv
  <1>2. ASSUME UNCHANGED <<journal, kept>>, sub'["journal"] \in SubRecords,
               committed'["journal"] \in Nat
        PROVE  PagesInv'
    BY <1>0, <1>1, <1>2, PagesBeside
  <1>3. \A v : [sub EXCEPT !["projector"] = v]["journal"] = sub["journal"]
    BY <1>1
  <1>4. \A v : [committed EXCEPT !["projector"] = v]["journal"] = committed["journal"]
    BY <1>1
  <1>5. CASE StartProjector \/ Handle
    BY <1>1, <1>2, <1>3, <1>5 DEF StartProjector, Handle, journalVars
  <1>6. CASE CaughtUp \/ SourceEnds
    <2>1. UNCHANGED <<journal, kept, committed>>
      BY <1>6 DEF CaughtUp, SourceEnds, journalVars
    <2>2. sub'["journal"] = sub["journal"]
      BY <1>1, <1>6 DEF CaughtUp, SourceEnds
    <2> QED BY <1>1, <1>2, <2>1, <2>2
  <1>7. CASE SweepTimer \/ FlushTimer \/ Shutdown \/ UNCHANGED vars
    BY <1>1, <1>2, <1>7 DEF SweepTimer, FlushTimer, Shutdown, journalVars, logVars, busVars, vars
  <1>8. CASE WriteSpans \/ WriteGap \/ WriteClosed \/ SaveFold \/ FlushAsked
    BY <1>1, <1>2, <1>8 DEF WriteSpans, WriteGap, WriteClosed, SaveFold, FlushAsked, journalVars, busVars
  <1>9. CASE Commit
    BY <1>1, <1>2, <1>4, <1>9 DEF Commit, journalVars
  <1>10. CASE JournalStep
    BY <1>0, <1>10, JournalKeepsPages
  <1>11. CASE Crash \/ Exit
    <2>1. /\ sub' = [c \in Readers |-> NoSubscription] /\ journal' = NewJournal(0)
          /\ UNCHANGED <<committed, kept>>
      BY <1>11 DEF Crash, CrashLog, Exit, Forgotten
    <2>2. sub'["journal"] \in SubRecords
      BY <2>1, BothRead DEF NoSubscription, SubRecords
    <2>3. journal' \in JournalOf(LogPages(log))
      BY <2>1 DEF NewJournal, JournalOf
    <2> QED BY <1>0, <1>1, <2>1, <2>2, <2>3, PagesBeside
  <1>12. CASE LogStep
    <2>1. UNCHANGED <<journal, kept, committed>>
      BY <1>12 DEF LogStep, AppendBatch, AppendFails, Broadcast, SkipDelivered, Trim, OpenLog, Unlogged, journalVars
    <2>2. CASE sub' = sub
      BY <1>1, <1>2, <2>1, <2>2
    <2>3. ASSUME NEW c \in Readers, sub' = [sub EXCEPT ![c].cursor = @ + 1] PROVE PagesInv'
      <3> DEFINE s == sub["journal"]
                 t == [s EXCEPT !.cursor = s.cursor + 1]
      <3>1. t \in SubRecords
        BY <1>1 DEF SubRecords
      <3>2. sub'["journal"] \in {s, t}
        BY <1>1, <2>3
      <3> HIDE DEF t
      <3> QED BY <1>1, <1>2, <2>1, <3>1, <3>2
    <2> QED BY <1>12, <2>2, <2>3 DEF LogStep, AppendBatch, AppendFails, Broadcast, SkipDelivered, Trim, OpenLog
  <1> QED BY <1>5, <1>6, <1>7, <1>8, <1>9, <1>10, <1>11, <1>12
          DEF ProjectorNext, ReadStep, FlushStep
=============================================================================
