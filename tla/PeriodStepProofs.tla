-------------------------- MODULE PeriodStepProofs --------------------------
(***************************************************************************)
(* The projector's steps keep what the period fold, its saved state and    *)
(* the written periods account for, for every deployment, log, message     *)
(* table, period width and bound.                                          *)
(***************************************************************************)
EXTENDS PeriodProofs

-----------------------------------------------------------------------------
(* What holds of a log holds of one that goes on.                          *)

Longer(l, m) == Len(l) <= Len(m) /\ \A p \in 1..Len(l) : m[p] = l[p]

LEMMA SameMoments ==
  ASSUME NEW l \in Seq(LogRecords), NEW m \in Seq(LogRecords), Longer(l, m)
  PROVE  /\ \A p \in 1..Len(l) : /\ At(m, p) = At(l, p) /\ PeriodOf(m, p) = PeriodOf(l, p)
                                 /\ RunEnd(m, p) <=> RunEnd(l, p)
         /\ \A p \in 1..Len(l) : InTime(m, p) <=> InTime(l, p)
         /\ \A n \in 0..Len(l) : \A p \in 1..n : Undisturbed(m, p, n) <=> Undisturbed(l, p, n)
         /\ \A n \in 0..Len(l) : \A t : Reaches(m, n, t) <=> Reaches(l, n, t)
  <1>1. Len(l) \in Nat /\ \A p \in 1..Len(l) : m[p] = l[p]
    BY DEF Longer
  <1>2. \A p \in 1..Len(l) : /\ At(m, p) = At(l, p) /\ PeriodOf(m, p) = PeriodOf(l, p)
                             /\ RunEnd(m, p) <=> RunEnd(l, p)
    BY <1>1 DEF At, PeriodOf, RunEnd
  <1>3. ASSUME NEW p \in 1..Len(l) PROVE InTime(m, p) <=> InTime(l, p)
    <2>1. \A q \in 1..(p - 1) : q \in 1..Len(l)
      BY <1>1
    <2> QED BY <1>2, <2>1 DEF InTime
  <1>4. ASSUME NEW n \in 0..Len(l), NEW p \in 1..n
        PROVE  Undisturbed(m, p, n) <=> Undisturbed(l, p, n)
    <2>1. p \in 1..Len(l) /\ \A q \in (p + 1)..n : q \in 1..Len(l)
      BY <1>1
    <2> QED BY <1>2, <1>3, <2>1 DEF Undisturbed
  <1>5. ASSUME NEW n \in 0..Len(l), NEW t PROVE Reaches(m, n, t) <=> Reaches(l, n, t)
    <2>1. \A a \in 1..n : a \in 1..Len(l)
      BY <1>1
    <2> QED BY <1>2, <2>1 DEF Reaches
  <1> QED BY <1>2, <1>3, <1>4, <1>5

LEMMA RecordGrows ==
  ASSUME NEW l \in Seq(LogRecords), NEW m \in Seq(LogRecords), Longer(l, m),
         NEW n \in 0..Len(l), NEW s, NEW r, RecordOK(l, n, s, r)
  PROVE  RecordOK(m, n, s, r)
  <1>1. \A x \in 1..n : x \in 1..Len(l)
    BY DEF Longer
  <1> QED BY <1>1, SameMoments DEF RecordOK

LEMMA EntryGrows ==
  ASSUME NEW l \in Seq(LogRecords), NEW m \in Seq(LogRecords), Longer(l, m),
         NEW w, NEW s, NEW e, EntryOK(l, w, s, e)
  PROVE  EntryOK(m, w, s, e)
  <1>1. Len(l) \in Nat /\ Len(m) \in Nat /\ Len(l) <= Len(m) /\ e.through \in 1..Len(l)
    BY DEF EntryOK, Longer
  <1>2. e.through \in 1..Len(m) /\ e.through \in 0..Len(l)
    BY <1>1
  <1>3. Reaches(m, e.through, e.began) /\ Reaches(m, e.through, s + w)
    BY <1>2, SameMoments DEF EntryOK
  <1>4. ASSUME w = Width PROVE RecordOK(m, e.through, s, e.record)
    BY <1>2, <1>4, RecordGrows DEF EntryOK
  <1>5. ASSUME w = Width PROVE WholeOK(m, s, e)
    <2>1. WholeOK(l, s, e)
      BY <1>5 DEF EntryOK
    <2>2. \A p \in 1..e.through : p \in 1..Len(l)
      BY <1>1
    <2>3. \A p \in 1..e.through : Undisturbed(m, p, e.through) <=> Undisturbed(l, p, e.through)
      BY <1>2, SameMoments
    <2> QED BY <2>1, <2>2, <2>3, SameMoments DEF WholeOK
  <1> QED BY <1>2, <1>3, <1>4, <1>5 DEF EntryOK

\* More that is written, or told of, takes nothing back either.
LEMMA FoldGrows ==
  ASSUME NEW l \in Seq(LogRecords), NEW m \in Seq(LogRecords), Longer(l, m),
         NEW f, NEW W, NEW G, NEW u, FoldInv(l, f, W, G, u), NEW V, W \subseteq V,
         NEW H, G \subseteq H
  PROVE  FoldInv(m, f, V, H, u)
  <1>1. Len(l) \in Nat /\ Len(m) \in Nat /\ Len(l) <= Len(m) /\ f.through \in 0..Len(l)
    BY DEF FoldInv, PlaceOK, Longer
  <1>2. PlaceOK(m, f)
    <2>1. f.through \in 0..Len(m)
      BY <1>1
    <2> QED BY <2>1 DEF FoldInv, PlaceOK
  <1>3. ClockOK(m, f)
    <2>1. \A t : Reaches(m, f.through, t) <=> Reaches(l, f.through, t)
      BY <1>1, SameMoments
    <2> QED BY <2>1 DEF FoldInv, ClockOK
  <1>4. OpenOK(m, f)
    <2>1. \A s \in Starts(Width) : RecordOK(m, f.through, s, f.open[s])
      BY <1>1, RecordGrows DEF FoldInv, OpenOK
    <2>2. \A s \in Starts(Width) : \A x \in f.open[s].counted : PeriodOf(m, x) = PeriodOf(l, x)
      <3> SUFFICES ASSUME NEW s \in Starts(Width), NEW x \in f.open[s].counted
                   PROVE  PeriodOf(m, x) = PeriodOf(l, x)
        OBVIOUS
      <3>1. x \in 1..f.through
        BY DEF FoldInv, OpenOK, RecordOK
      <3>2. x \in 1..Len(l)
        BY <1>1, <3>1
      <3> QED BY <3>2, SameMoments
    <2> QED BY <2>1, <2>2 DEF FoldInv, OpenOK
  <1>5. ClosedOK(m, f)
    <2>1. \A i \in DOMAIN f.closed : EntryOK(m, f.closed[i].level, f.closed[i].from, f.closed[i])
      BY EntryGrows DEF FoldInv, ClosedOK
    <2> QED BY <2>1 DEF FoldInv, ClosedOK
  <1>6. \A p \in 1..f.through :
          /\ RunEnd(m, p) <=> RunEnd(l, p)
          /\ At(m, p) = At(l, p) /\ PeriodOf(m, p) = PeriodOf(l, p)
          /\ Undisturbed(m, p, f.through) <=> Undisturbed(l, p, f.through)
    <2>1. \A p \in 1..f.through : p \in 1..Len(l)
      BY <1>1
    <2> QED BY <1>1, <2>1, SameMoments
  <1>7. InPlace(m, f, u)
    BY <1>6 DEF FoldInv, InPlace
  <1>8. \A p : ToldMissed(f, G, p) => ToldMissed(f, H, p)
    BY DEF ToldMissed
  <1>9. Passed(m, f, V, H, u)
    BY <1>6, <1>8 DEF FoldInv, Passed
  <1>10. PassedClosing(m, f, V, H)
    <2> SUFFICES ASSUME NEW i \in DOMAIN f.closed, NEW p \in 1..f.closed[i].through,
                        RunEnd(m, p), f.closed[i].first <= p,
                        At(m, p) < f.closed[i].from + f.closed[i].level
                 PROVE  \/ \E j \in Narrow(f) : j <= i /\ p \in f.closed[j].record.counted
                        \/ p \in V \/ ToldMissed(f, H, p)
      BY DEF PassedClosing
    <2>1. f.closed[i].through \in 1..Len(l)
      BY DEF FoldInv, ClosedOK, EntryOK
    <2>2. p \in 1..Len(l)
      BY <1>1, <2>1
    <2>3. RunEnd(l, p) /\ At(l, p) < f.closed[i].from + f.closed[i].level
      BY <2>2, SameMoments
    <2>4. \/ \E j \in Narrow(f) : j <= i /\ p \in f.closed[j].record.counted
          \/ p \in W \/ ToldMissed(f, G, p)
      BY <2>3 DEF FoldInv, PassedClosing
    <2> QED BY <1>8, <2>4
  <1> QED BY <1>2, <1>3, <1>4, <1>5, <1>7, <1>9, <1>10 DEF FoldInv

-----------------------------------------------------------------------------
(* What a start loads. *)

LEMMA NewFoldHolds ==
  ASSUME NEW l \in Seq(LogRecords), NEW W, NEW G
  PROVE  FoldInv(l, NewFold, W, G, 0)
  <1>1. Len(l) \in Nat
    OBVIOUS
  <1>2. PlaceOK(l, NewFold)
    BY <1>1, NewFoldIs DEF PlaceOK
  <1>3. ClockOK(l, NewFold)
    BY NewFoldIs DEF ClockOK
  <1>4. OpenOK(l, NewFold)
    <2>1. \A s \in Starts(Width) : NewFold.open[s] = Empty
      BY NewFoldIs
    <2>2. NewFold.open \in [Starts(Width) -> PeriodRecords]
      BY EmptyRecord, NewFoldIs
    <2> QED BY <2>1, <2>2, EmptyRecord DEF OpenOK
  <1>5. WiderOK(NewFold)
    BY NewFoldIs DEF WiderOK, Empty
  <1>6. ClosedOK(l, NewFold)
    <2>1. NewFold.closed = <<>> /\ DOMAIN NewFold.closed = {} /\ NewFold.closed \in Seq({})
      BY NewFoldIs
    <2> QED BY <2>1 DEF ClosedOK, Narrow
  <1>7. InPlace(l, NewFold, 0) /\ Passed(l, NewFold, W, G, 0)
    BY NewFoldIs DEF InPlace, Passed
  <1>8. PassedClosing(l, NewFold, W, G)
    BY NewFoldIs DEF PassedClosing
  <1> QED BY <1>2, <1>3, <1>4, <1>5, <1>6, <1>7, <1>8 DEF FoldInv

PeriodFields == {"present", "record", "first", "through", "began", "refused"}

\* What is written: each period stands for what had ended when it closed.
StoreOK(l, store, W, G) ==
  /\ DOMAIN store = PeriodKeys
  /\ \A k \in PeriodKeys :
       /\ DOMAIN store[k] = PeriodFields
       /\ ~store[k].present => store[k] = NoPeriod
       /\ store[k].present => EntryOK(l, k[1], k[2], store[k])
       /\ store[k].present =>
            \A p \in 1..store[k].through :
              RunEnd(l, p) /\ store[k].first <= p /\ At(l, p) < k[1] + k[2] =>
                p \in W \/ ToldMissed(NewFold, G, p)

LEMMA StoreGrows ==
  ASSUME NEW l \in Seq(LogRecords), NEW m \in Seq(LogRecords), Longer(l, m),
         NEW store, NEW W, NEW G, StoreOK(l, store, W, G), NEW V, W \subseteq V,
         NEW H, G \subseteq H
  PROVE  StoreOK(m, store, V, H)
  <1>1. \A k \in PeriodKeys : store[k].present => EntryOK(m, k[1], k[2], store[k])
    BY EntryGrows DEF StoreOK
  <1>2. ASSUME NEW k \in PeriodKeys, store[k].present, NEW p \in 1..store[k].through,
               RunEnd(m, p), store[k].first <= p, At(m, p) < k[1] + k[2]
        PROVE  p \in V \/ ToldMissed(NewFold, H, p)
    <2>0. Len(l) \in Nat
      OBVIOUS
    <2>1. store[k].through \in 1..Len(l)
      BY <1>2 DEF StoreOK, EntryOK
    <2>2. p \in 1..Len(l)
      BY <2>0, <2>1
    <2>3. RunEnd(l, p) /\ At(l, p) < k[1] + k[2]
      BY <1>2, <2>2, SameMoments
    <2>4. p \in W \/ ToldMissed(NewFold, G, p)
      BY <1>2, <2>3 DEF StoreOK
    <2> QED BY <2>4 DEF ToldMissed
  <1> QED BY <1>1, <1>2 DEF StoreOK

LEMMA KeyFacts ==
  /\ \A s \in Starts(Width) : <<Width, s>> \in PeriodKeys
  /\ \A r \in Starts(Rollup) : <<Rollup, r>> \in PeriodKeys
  /\ \A k \in PeriodKeys : /\ k = <<k[1], k[2]>> /\ k[1] \in {Width, Rollup}
                           /\ k[2] \in Nat /\ Aligned(k[1] + k[2])
                           /\ k[1] = Width => k[2] \in Starts(Width)
  /\ \A s, t : <<Width, s>> # <<Rollup, t>>
  <1>1. Width \in Nat /\ Rollup \in Nat /\ Width < Rollup
    BY PeriodFacts
  <1>2. ASSUME NEW s \in Starts(Width)
        PROVE  /\ <<Width, s>>[1] = Width /\ <<Width, s>>[2] = s
               /\ s \in Nat /\ Aligned(Width + s)
    <2>1. s \in Nat /\ Aligned(s + Width)
      BY PeriodFacts
    <2>2. Width + s = s + Width
      BY <1>1, <2>1
    <2> QED BY <2>1, <2>2
  <1>3. ASSUME NEW s \in Starts(Rollup)
        PROVE  /\ <<Rollup, s>>[1] = Rollup /\ <<Rollup, s>>[2] = s
               /\ s \in Nat /\ Aligned(Rollup + s)
    <2>1. s \in Nat /\ Aligned(s + Rollup)
      BY PeriodFacts
    <2>2. Rollup + s = s + Rollup
      BY <1>1, <2>1
    <2> QED BY <2>1, <2>2
  <1>4. ASSUME NEW k \in PeriodKeys
        PROVE  /\ k = <<k[1], k[2]>> /\ k[1] \in {Width, Rollup}
               /\ k[2] \in Nat /\ Aligned(k[1] + k[2])
               /\ k[1] = Width => k[2] \in Starts(Width)
    <2>1. CASE \E s \in Starts(Width) : k = <<Width, s>>
      BY <1>2, <2>1
    <2>2. CASE \E s \in Starts(Rollup) : k = <<Rollup, s>>
      BY <1>1, <1>3, <2>2
    <2> QED BY <2>1, <2>2 DEF PeriodKeys
  <1> QED BY <1>1, <1>4 DEF PeriodKeys

\* What a recovered fold stands on, and that it holds nothing.
IsRecovered(f, store) ==
  \E k \in PeriodKeys :
    /\ store[k].present
    /\ f.through = store[k].through /\ f.first = store[k].through + 1
    /\ f.closedThrough = k[1] + k[2]
    /\ \A o \in PeriodKeys : store[o].present => o[1] + o[2] <= k[1] + k[2]

LEMMA RecoveredHolds ==
  ASSUME NEW l \in Seq(LogRecords), NEW store, NEW W, NEW G, StoreOK(l, store, W, G),
         \E k \in PeriodKeys : store[k].present
  PROVE  /\ FoldInv(l, Recovered(store), W, G, 0) /\ Recovered(store).through # 0
         /\ Recovered(store).closed = <<>> /\ Recovered(store).missed = {}
         /\ \A x : ~InMemory(Recovered(store), x)
         /\ IsRecovered(Recovered(store), store)
  <1> DEFINE k == LastWritten(store)
             closed == k[1] + k[2]
             r == Floor(closed, Rollup)
             part == {s \in Starts(Width) : /\ Floor(s, Rollup) = r /\ s < closed
                                            /\ store[<<Width, s>>].present}
             a == AddedUp(store, part)
             f == [NewFold EXCEPT !.first = store[k].through + 1,
                                  !.through = store[k].through, !.began = store[k].began,
                                  !.closedThrough = closed, !.gapFrom = closed]
             h == Recovered(store)
  <1>1. Msgs # {}
    <2>1. PICK o \in PeriodKeys : store[o].present
      OBVIOUS
    <2>2. store[o].through \in 1..Len(l)
      BY <2>1 DEF StoreOK, EntryOK
    <2>3. 1 \in 1..Len(l)
      BY <2>2
    <2>4. l[1] \in LogRecords
      BY <2>3
    <2> QED BY <2>4 DEF LogRecords
  <1>2. /\ k \in PeriodKeys /\ store[k].present
        /\ \A o \in PeriodKeys : store[o].present => o[1] + o[2] <= closed
    BY <1>1, LastIsWritten
  <1>7. h = IF r >= store[k].began /\ r < closed /\ part # {} THEN [f EXCEPT !.rollups[r] = a]
            ELSE f
    BY DEF Recovered
  <1> HIDE DEF k, h
  <1>4. k[2] \in Nat /\ k[1] \in Nat /\ Aligned(closed) /\ closed = k[2] + k[1] /\ Len(l) \in Nat
    <2>1. k[2] \in Nat /\ k[1] \in {Width, Rollup} /\ Aligned(closed)
      BY <1>2, KeyFacts
    <2> QED BY <2>1, PeriodFacts
  <1>3. EntryOK(l, k[1], k[2], store[k])
    BY <1>2 DEF StoreOK
  <1>3a. /\ store[k].through \in 1..Len(l) /\ Aligned(store[k].began)
         /\ Reaches(l, store[k].through, store[k].began) /\ Reaches(l, store[k].through, closed)
         /\ store[k].began <= closed
    <2> HIDE DEF closed
    <2> QED BY <1>3, <1>4 DEF EntryOK
  <1>5. /\ closed \in Nat /\ store[k].began \in Nat
        /\ Width \in Nat \ {0} /\ Rollup \in Nat \ {0} /\ None = -1
    <2>1. closed \in Nat /\ store[k].began \in Nat
      BY <1>3a, <1>4 DEF Aligned
    <2> QED BY <2>1, PeriodFacts
  <1>6. /\ f.first = store[k].through + 1 /\ f.through = store[k].through
        /\ f.began = store[k].began /\ f.closedThrough = closed /\ f.clock = None
        /\ f.open = NewFold.open /\ f.rollups = NewFold.rollups /\ f.closed = <<>>
        /\ f.missed = {} /\ f.missedSpans = {} /\ DOMAIN f = FoldFields
    BY NewFoldIs DEF FoldFields
  <1>8. DOMAIN a = {"counted", "runs", "complete"}
    BY DEF AddedUp
  <1>9. r \in Int /\ r <= closed /\ closed < r + Rollup
    <2> HIDE DEF closed
    <2>1. closed \in Int /\ Rollup \in Nat \ {0}
      BY <1>5
    <2>2. /\ Floor(closed, Rollup) \in Int /\ Floor(closed, Rollup) <= closed
          /\ closed < Floor(closed, Rollup) + Rollup
      BY <2>1, FloorIs
    <2> QED BY <2>2 DEF r
  <1> HIDE DEF k, closed, r, part, a, f
  <1>10. /\ h.first = f.first /\ h.through = f.through /\ h.began = f.began
         /\ h.closedThrough = f.closedThrough /\ h.clock = f.clock /\ h.open = f.open
         /\ h.closed = f.closed /\ h.missed = f.missed /\ h.missedSpans = f.missedSpans
         /\ DOMAIN h = FoldFields
         /\ h.rollups = f.rollups \/ h.rollups = [f.rollups EXCEPT ![r] = a]
    <2>1. CASE h = f
      BY <1>6, <2>1
    <2>2. CASE h = [f EXCEPT !.rollups[r] = a]
      BY <1>6, <2>2 DEF FoldFields
    <2> QED BY <1>7, <2>1, <2>2
  <1>11. PlaceOK(l, h)
    <2>1. h.through = store[k].through /\ h.first = store[k].through + 1 /\ h.missed = {}
          /\ h.missedSpans = {} /\ DOMAIN h = FoldFields
      BY <1>6, <1>10
    <2>2. h.through \in 0..Len(l) /\ h.first \in 0..(h.through + 1) /\ h.through # 0 /\ h.first # 0
      BY <1>3a, <1>4, <2>1
    <2> QED BY <2>1, <2>2 DEF PlaceOK
  <1>12. ClockOK(l, h)
    BY <1>3a, <1>4, <1>5, <1>6, <1>10 DEF ClockOK
  <1>13. OpenOK(l, h)
    <2>1. \A s \in Starts(Width) : h.open[s] = Empty
      BY <1>6, <1>10, NewFoldIs
    <2>2. h.open \in [Starts(Width) -> PeriodRecords]
      BY <1>6, <1>10, EmptyRecord, NewFoldIs
    <2> QED BY <2>1, <2>2, EmptyRecord DEF OpenOK
  <1>14. WiderOK(h)
    <2>1. \A q \in Starts(Rollup) : f.rollups[q] = Empty
      BY <1>6, NewFoldIs
    <2>2. DOMAIN h.rollups = Starts(Rollup)
      BY <1>6, <1>10, NewFoldIs
    <2>3. \A q \in Starts(Rollup) : h.rollups[q] = Empty \/ (q = r /\ h.rollups[q] = a)
      BY <1>10, <2>1, <1>6, NewFoldIs
    <2>4. Oldest(h) < r + Rollup
      <3>1. h.closedThrough = closed /\ h.began = store[k].began
        BY <1>6, <1>10
      <3>2. Oldest(h) = closed
        BY <1>3a, <1>5, <3>1 DEF Oldest, Max2
      <3> QED BY <1>9, <3>2
    <2> QED BY <1>8, <2>2, <2>3, <2>4 DEF WiderOK, Empty
  <1>15. ClosedOK(l, h)
    <2>1. h.closed = <<>> /\ DOMAIN h.closed = {} /\ h.closed \in Seq({})
      BY <1>6, <1>10
    <2> QED BY <2>1 DEF ClosedOK, Narrow
  <1>16. InPlace(l, h, 0) /\ Passed(l, h, W, G, 0)
    <2>1. \A p \in 1..h.through : ~(h.first <= p)
      BY <1>3a, <1>4, <1>6, <1>10
    <2> QED BY <2>1 DEF InPlace, Passed
  <1>17. PassedClosing(l, h, W, G)
    BY <1>6, <1>10 DEF PassedClosing
  <1>18. ASSUME NEW x PROVE ~InMemory(h, x)
    <2>1. \A s \in Starts(Width) : h.open[s] = Empty
      BY <1>6, <1>10, NewFoldIs
    <2>2. Narrow(h) = {}
      BY <1>6, <1>10 DEF Narrow
    <2> QED BY <2>1, <2>2, EmptyRecord DEF InMemory
  <1>19. IsRecovered(h, store)
    BY <1>2, <1>6, <1>10 DEF IsRecovered, closed
  <1>20. FoldInv(l, h, W, G, 0)
    BY <1>11, <1>12, <1>13, <1>14, <1>15, <1>16, <1>17 DEF FoldInv
  <1>21. h.through # 0 /\ h.closed = <<>> /\ h.missed = {}
    BY <1>3a, <1>6, <1>10
  <1> QED BY <1>18, <1>19, <1>20, <1>21 DEF h

LEMMA LoadedHolds ==
  ASSUME NEW l \in Seq(LogRecords), NEW store, NEW W, NEW G, StoreOK(l, store, W, G),
         NEW saved, FoldInv(l, saved, W, G, 0), saved.closed = <<>>, saved.missed = {}
  PROVE  /\ FoldInv(l, Loaded(saved, store), W, G, 0)
         /\ Loaded(saved, store).closed = <<>> /\ Loaded(saved, store).missed = {}
         /\ \/ Loaded(saved, store) = saved /\ saved.through # 0
            \/ /\ saved.through = 0 /\ Loaded(saved, store) = NewFold
               /\ \A k \in PeriodKeys : ~store[k].present
            \/ /\ saved.through = 0 /\ Loaded(saved, store) = Recovered(store)
               /\ \E k \in PeriodKeys : store[k].present
  <1>1. CASE saved.through # 0
    BY <1>1 DEF Loaded
  <1>2. CASE saved.through = 0 /\ \E k \in PeriodKeys : store[k].present
    <2>1. Loaded(saved, store) = Recovered(store)
      BY <1>2 DEF Loaded
    <2> QED BY <1>2, <2>1, RecoveredHolds
  <1>3. CASE saved.through = 0 /\ \A k \in PeriodKeys : ~store[k].present
    <2>1. Loaded(saved, store) = NewFold
      BY <1>3 DEF Loaded
    <2> QED BY <1>3, <2>1, NewFoldHolds, NewFoldIs
  <1> QED BY <1>1, <1>2, <1>3

-----------------------------------------------------------------------------
(* What a flush writes. *)

Accountable(store) == CountedWritten(store) \cup RefusedBy(store)

LEMMA EntryAlike ==
  ASSUME NEW l, NEW w, NEW s, NEW e, EntryOK(l, w, s, e), NEW d,
         d.record = e.record, d.first = e.first, d.through = e.through, d.began = e.began
  PROVE  EntryOK(l, w, s, d)
  BY DEF EntryOK, WholeOK

ToldOf(f, g, gap) == g = [f EXCEPT !.missed = @ \ {gap}]
GaveAway(f, g, c) == c = Head(f.closed) /\ g = [f EXCEPT !.closed = Tail(@)]
HeadLeft(f, g, c) ==
  /\ g.through = f.through /\ g.closedThrough = f.closedThrough /\ g.missed = f.missed
  /\ Len(f.closed) \in Nat \ {0} /\ Len(g.closed) = Len(f.closed) - 1 /\ c = f.closed[1]
  /\ \A i \in 1..Len(g.closed) : g.closed[i] = f.closed[i + 1]
  /\ \A x : InMemory(g, x) => InMemory(f, x)
  /\ \A x : InMemory(g, x) => ~(c.level = Width /\ x \in c.record.counted)
  /\ \A x : c.level = Width /\ x \in c.record.counted => InMemory(f, x)

\* A gap that is written down is told of as before.
LEMMA GapKeeps ==
  ASSUME NEW l, NEW f, NEW W, NEW G, NEW gap, NEW g,
         FoldInv(l, f, W, G, 0), f.missed # {}, ToldOf(f, g, gap)
  PROVE  /\ FoldInv(l, g, W, G \cup {gap}, 0)
         /\ g.through = f.through /\ g.closedThrough = f.closedThrough /\ g.closed = f.closed
         /\ \A x : InMemory(g, x) <=> InMemory(f, x)
  <1>1. /\ DOMAIN g = FoldFields /\ g.missed = f.missed \ {gap}
        /\ g.first = f.first /\ g.through = f.through /\ g.clock = f.clock /\ g.began = f.began
        /\ g.closedThrough = f.closedThrough /\ g.open = f.open /\ g.rollups = f.rollups
        /\ g.closed = f.closed /\ g.missedSpans = f.missedSpans
    BY DEF ToldOf, FoldInv, PlaceOK, FoldFields
  <1>2. f.through # 0
    BY NewFoldIs DEF FoldInv, PlaceOK
  <1>3. PlaceOK(l, g)
    BY <1>1, <1>2 DEF FoldInv, PlaceOK
  <1>4. ClockOK(l, g) /\ WiderOK(g)
    BY <1>1 DEF FoldInv, ClockOK, WiderOK, Oldest
  <1>5. OpenOK(l, g) /\ InPlace(l, g, 0)
    BY <1>1 DEF FoldInv, OpenOK, InPlace, Oldest, ReachesMissed
  <1>6. ClosedOK(l, g) /\ Narrow(g) = Narrow(f)
    BY <1>1 DEF FoldInv, ClosedOK, Narrow
  <1>7. \A x : InMemory(g, x) <=> InMemory(f, x)
    BY <1>1, <1>6 DEF InMemory
  <1>8. \A p : ToldMissed(f, G, p) => ToldMissed(g, G \cup {gap}, p)
    BY <1>1 DEF ToldMissed
  <1>9. Passed(l, g, W, G \cup {gap}, 0)
    BY <1>1, <1>7, <1>8 DEF FoldInv, Passed
  <1>10. PassedClosing(l, g, W, G \cup {gap})
    BY <1>1, <1>6, <1>8 DEF FoldInv, PassedClosing
  <1> QED BY <1>1, <1>3, <1>4, <1>5, <1>6, <1>7, <1>9, <1>10 DEF FoldInv

\* The first closed period is written, unless it was: what the store then
\* holds.
Puts(store, next, c) ==
  LET key == <<c.level, c.from>>
  IN  /\ key \in PeriodKeys
      /\ DOMAIN next = PeriodKeys
      /\ \A k \in PeriodKeys \ {key} : next[k] = store[k]
      /\ DOMAIN next[key] = PeriodFields /\ next[key].present
      /\ IF store[key].present
         THEN /\ next[key].record = store[key].record /\ next[key].first = store[key].first
              /\ next[key].through = store[key].through /\ next[key].began = store[key].began
              /\ next[key].refused = store[key].refused \cup c.record.counted
         ELSE /\ next[key].record = c.record /\ next[key].first = c.first
              /\ next[key].through = c.through /\ next[key].began = c.began
              /\ next[key].refused = {}

LEMMA WritePuts ==
  ASSUME NEW l, NEW store, NEW W, NEW G, StoreOK(l, store, W, G), NEW c, <<c.level, c.from>> \in PeriodKeys
  PROVE  Puts(store, WritePeriod(store, c), c)
  <1> DEFINE key == <<c.level, c.from>>
             next == WritePeriod(store, c)
             new == [present |-> TRUE, record |-> c.record, first |-> c.first,
                     through |-> c.through, began |-> c.began, refused |-> {}]
  <1>1. DOMAIN store = PeriodKeys /\ DOMAIN store[key] = PeriodFields
    BY DEF StoreOK
  <1>2. CASE store[key].present
    <2> DEFINE old == [store[key] EXCEPT !.refused = @ \cup c.record.counted]
    <2>1. next = [store EXCEPT ![key] = old]
      BY <1>2 DEF WritePeriod
    <2>2. /\ DOMAIN old = PeriodFields /\ old.present /\ old.record = store[key].record
          /\ old.first = store[key].first /\ old.through = store[key].through
          /\ old.began = store[key].began /\ old.refused = store[key].refused \cup c.record.counted
      BY <1>1, <1>2 DEF PeriodFields
    <2> HIDE DEF old, next, key
    <2>3. key \in PeriodKeys
      BY DEF key
    <2>4. next[key] = old /\ DOMAIN next = PeriodKeys /\ \A k \in PeriodKeys \ {key} : next[k] = store[k]
      BY <1>1, <2>1, <2>3
    <2> QED BY <1>2, <2>2, <2>3, <2>4 DEF Puts, key, next
  <1>3. CASE ~store[key].present
    <2>1. next = [store EXCEPT ![key] = new]
      BY <1>3 DEF WritePeriod
    <2>2. /\ DOMAIN new = PeriodFields /\ new.present /\ new.record = c.record
          /\ new.first = c.first /\ new.through = c.through /\ new.began = c.began
          /\ new.refused = {}
      BY DEF PeriodFields
    <2> HIDE DEF new, next, key
    <2>3. key \in PeriodKeys
      BY DEF key
    <2>4. next[key] = new /\ DOMAIN next = PeriodKeys /\ \A k \in PeriodKeys \ {key} : next[k] = store[k]
      BY <1>1, <2>1, <2>3
    <2> QED BY <1>3, <2>2, <2>3, <2>4 DEF Puts, key, next
  <1> QED BY <1>2, <1>3

\* Nothing that was accounted for is lost, and the run ends of a narrow period
\* are from then on.
LEMMA PutsAccounts ==
  ASSUME NEW l, NEW store, NEW W, NEW G, StoreOK(l, store, W, G), NEW c, NEW next, Puts(store, next, c)
  PROVE  /\ CountedWritten(store) \subseteq CountedWritten(next)
         /\ RefusedBy(store) \subseteq RefusedBy(next)
         /\ c.level = Width => c.record.counted \subseteq Accountable(next)
         /\ \A x \in CountedWritten(next) :
              x \in CountedWritten(store)
                \/ (c.level = Width /\ ~store[<<c.level, c.from>>].present /\ x \in c.record.counted)
         /\ (c.level = Width => ~store[<<c.level, c.from>>].present) => RefusedBy(next) = RefusedBy(store)
  <1> DEFINE key == <<c.level, c.from>>
  <1>1. /\ key \in PeriodKeys /\ \A k \in PeriodKeys \ {key} : next[k] = store[k]
        /\ store[key].present =>
             /\ next[key].record = store[key].record
             /\ next[key].refused = store[key].refused \cup c.record.counted
        /\ ~store[key].present => /\ next[key].record = c.record /\ next[key].refused = {}
                                  /\ store[key].record.counted = {} /\ store[key].refused = {}
    BY DEF Puts, StoreOK, NoPeriod, Empty
  <1>2. \A s \in Starts(Width) : /\ <<Width, s>> \in PeriodKeys
                                 /\ <<Width, s>> = key => c.level = Width /\ c.from = s
    BY KeyFacts
  <1>3. c.level = Width => c.from \in Starts(Width) /\ key = <<Width, c.from>>
    BY <1>1, KeyFacts
  <1> HIDE DEF key
  <1>4. \A s \in Starts(Width) :
          /\ store[<<Width, s>>].record.counted \subseteq next[<<Width, s>>].record.counted
          /\ store[<<Width, s>>].refused \subseteq next[<<Width, s>>].refused
          /\ next[<<Width, s>>].record.counted = store[<<Width, s>>].record.counted
               \/ (c.level = Width /\ ~store[key].present /\ next[<<Width, s>>].record.counted = c.record.counted)
          /\ next[<<Width, s>>].refused = store[<<Width, s>>].refused
               \/ (c.level = Width /\ store[key].present)
    BY <1>1, <1>2
  <1>5. c.level = Width => \/ c.record.counted \subseteq next[<<Width, c.from>>].record.counted
                           \/ c.record.counted \subseteq next[<<Width, c.from>>].refused
    BY <1>1, <1>3
  <1>6. c.level = Width => c.record.counted \subseteq Accountable(next)
    BY <1>3, <1>5 DEF Accountable, CountedWritten, RefusedBy
  <1>7. CountedWritten(store) \subseteq CountedWritten(next) /\ RefusedBy(store) \subseteq RefusedBy(next)
    BY <1>4 DEF CountedWritten, RefusedBy
  <1>8. \A x \in CountedWritten(next) :
          x \in CountedWritten(store) \/ (c.level = Width /\ ~store[key].present /\ x \in c.record.counted)
    BY <1>4 DEF CountedWritten
  <1>9. (c.level = Width => ~store[key].present) => RefusedBy(next) = RefusedBy(store)
    BY <1>4 DEF RefusedBy
  <1> QED BY <1>6, <1>7, <1>8, <1>9 DEF key

\* A fold that gave its first closed period away.
LEMMA HeadLeaves ==
  ASSUME NEW l \in Seq(LogRecords), NEW f, NEW W, NEW G, NEW V, NEW c, NEW g,
         FoldInv(l, f, W, G, 0), f.closed # <<>>, W \subseteq V,
         c.level = Width => c.record.counted \subseteq V, GaveAway(f, g, c)
  PROVE  FoldInv(l, g, V, G, 0) /\ HeadLeft(f, g, c)
  <1>1. PICK X : f.closed \in Seq(X)
    BY DEF FoldInv, ClosedOK
  <1>2. /\ Tail(f.closed) \in Seq(X) /\ Len(Tail(f.closed)) = Len(f.closed) - 1
        /\ c = f.closed[1] /\ Len(f.closed) \in Nat \ {0}
        /\ \A i \in 1..Len(Tail(f.closed)) : Tail(f.closed)[i] = f.closed[i + 1]
    BY <1>1, HeadTailProperties, LenProperties, EmptySeq DEF GaveAway
  <1>3. /\ DOMAIN g = FoldFields /\ g.missed = f.missed /\ g.closed = Tail(f.closed)
        /\ g.first = f.first /\ g.through = f.through /\ g.clock = f.clock /\ g.began = f.began
        /\ g.closedThrough = f.closedThrough /\ g.open = f.open /\ g.rollups = f.rollups
        /\ g.missedSpans = f.missedSpans
    BY DEF GaveAway, FoldInv, PlaceOK, FoldFields
  <1>4. /\ Len(f.closed) \in Nat \ {0} /\ Len(g.closed) = Len(f.closed) - 1
        /\ DOMAIN f.closed = 1..Len(f.closed) /\ DOMAIN g.closed = 1..Len(g.closed)
        /\ c = f.closed[1] /\ \A i \in 1..Len(g.closed) : g.closed[i] = f.closed[i + 1]
    BY <1>1, <1>2, <1>3
  <1>5. /\ \A i \in 1..Len(g.closed) : i \in Nat /\ i + 1 \in 1..Len(f.closed) /\ 1 < i + 1
        /\ \A j \in 1..Len(f.closed) : j \in Nat /\ (j = 1 \/ (j - 1 \in 1..Len(g.closed) /\ (j - 1) + 1 = j))
        /\ 1 \in 1..Len(f.closed)
    BY <1>4
  <1>6. /\ \A i \in Narrow(g) : i \in 1..Len(g.closed) /\ i + 1 \in Narrow(f) /\ g.closed[i] = f.closed[i + 1]
        /\ \A j \in Narrow(f) : j = 1 \/ j - 1 \in Narrow(g)
    BY <1>4, <1>5 DEF Narrow
  <1>7. f.through # 0
    BY NewFoldIs DEF FoldInv, PlaceOK
  <1>8. PlaceOK(l, g)
    BY <1>3, <1>7 DEF FoldInv, PlaceOK
  <1>9. ClockOK(l, g) /\ WiderOK(g)
    BY <1>3 DEF FoldInv, ClockOK, WiderOK, Oldest
  <1>10. OpenOK(l, g) /\ InPlace(l, g, 0)
    BY <1>3 DEF FoldInv, OpenOK, InPlace, Oldest, ReachesMissed
  <1>11. ClosedOK(l, g)
    <2>1. \E Y : g.closed \in Seq(Y)
      BY <1>2, <1>3
    <2>2. ASSUME NEW i \in DOMAIN g.closed
          PROVE  LET e == g.closed[i]
                 IN  /\ EntryOK(l, e.level, e.from, e) /\ e.through <= g.through
                     /\ e.from + e.level <= g.closedThrough
      BY <1>3, <1>4, <1>5 DEF FoldInv, ClosedOK
    <2>3. ASSUME NEW i \in Narrow(g), NEW j \in Narrow(g), i < j
          PROVE  /\ g.closed[i].from < g.closed[j].from
                 /\ g.closed[i].record.counted \cap g.closed[j].record.counted = {}
      <3>0. i \in Nat /\ j \in Nat
        BY <1>5, <1>6
      <3>1. i + 1 \in Narrow(f) /\ g.closed[i] = f.closed[i + 1]
        BY <1>6
      <3>2. j + 1 \in Narrow(f) /\ g.closed[j] = f.closed[j + 1]
        BY <1>6
      <3>3. i + 1 < j + 1
        BY <2>3, <3>0
      <3>4. \A a, b \in Narrow(f) :
              a < b => /\ f.closed[a].from < f.closed[b].from
                       /\ f.closed[a].record.counted \cap f.closed[b].record.counted = {}
        BY DEF FoldInv, ClosedOK
      <3> QED BY <3>1, <3>2, <3>3, <3>4
    <2>4. \A i \in Narrow(g) : \A s \in Starts(Width) :
            g.closed[i].record.counted \cap g.open[s].counted = {}
      BY <1>3, <1>6 DEF FoldInv, ClosedOK
    <2> QED BY <2>1, <2>2, <2>3, <2>4 DEF ClosedOK
  <1>12. \A x : InMemory(f, x) => InMemory(g, x) \/ (c.level = Width /\ x \in c.record.counted)
    <2> SUFFICES ASSUME NEW x, NEW j \in Narrow(f), x \in f.closed[j].record.counted
                 PROVE  InMemory(g, x) \/ (c.level = Width /\ x \in c.record.counted)
      BY <1>3 DEF InMemory
    <2>1. CASE j = 1
      BY <1>4, <2>1 DEF Narrow
    <2>2. CASE j # 1
      <3>1. j - 1 \in Narrow(g) /\ (j - 1) + 1 = j
        BY <1>4, <1>5, <1>6, <2>2 DEF Narrow
      <3>2. g.closed[j - 1] = f.closed[j]
        BY <1>6, <3>1
      <3> QED BY <3>1, <3>2 DEF InMemory
    <2> QED BY <2>1, <2>2
  <1>13. Passed(l, g, V, G, 0)
    <2>1. \A p : ToldMissed(f, G, p) <=> ToldMissed(g, G, p)
      BY <1>3 DEF ToldMissed
    <2> QED BY <1>3, <1>12, <2>1 DEF FoldInv, Passed
  <1>14. PassedClosing(l, g, V, G)
    <2> SUFFICES ASSUME NEW i \in DOMAIN g.closed, NEW p \in 1..g.closed[i].through,
                        RunEnd(l, p), g.closed[i].first <= p,
                        At(l, p) < g.closed[i].from + g.closed[i].level
                 PROVE  \/ \E j \in Narrow(g) : j <= i /\ p \in g.closed[j].record.counted
                        \/ p \in V \/ ToldMissed(g, G, p)
      BY DEF PassedClosing
    <2>1. g.closed[i] = f.closed[i + 1] /\ i + 1 \in DOMAIN f.closed /\ i \in Nat
      BY <1>4, <1>5
    <2>2. \/ \E j \in Narrow(f) : j <= i + 1 /\ p \in f.closed[j].record.counted
          \/ p \in W \/ ToldMissed(f, G, p)
      BY <2>1 DEF FoldInv, PassedClosing
    <2>3. ASSUME NEW j \in Narrow(f), j <= i + 1, p \in f.closed[j].record.counted
          PROVE  p \in V \/ \E k \in Narrow(g) : k <= i /\ p \in g.closed[k].record.counted
      <3>1. CASE j = 1
        BY <1>4, <2>3, <3>1 DEF Narrow
      <3>2. CASE j # 1
        <4>1. j - 1 \in Narrow(g) /\ (j - 1) + 1 = j /\ j - 1 <= i
          <5>1. j \in 1..Len(f.closed)
            BY <1>4 DEF Narrow
          <5>2. j \in Nat /\ (j - 1) + 1 = j
            BY <1>5, <3>2, <5>1
          <5>3. j - 1 \in Narrow(g)
            BY <1>6, <2>3, <3>2
          <5> QED BY <2>1, <2>3, <5>2, <5>3
        <4>2. g.closed[j - 1] = f.closed[j]
          BY <1>6, <4>1
        <4> QED BY <2>3, <4>1, <4>2
      <3> QED BY <3>1, <3>2
    <2>4. ToldMissed(f, G, p) => ToldMissed(g, G, p)
      BY <1>3 DEF ToldMissed
    <2> QED BY <2>2, <2>3, <2>4
  <1>15. \A x : InMemory(g, x) => InMemory(f, x)
    BY <1>3, <1>6 DEF InMemory
  <1>16. \A x : c.level = Width /\ x \in c.record.counted => InMemory(f, x)
    BY <1>4, <1>5 DEF InMemory, Narrow
  <1>17. ASSUME NEW x, InMemory(g, x), c.level = Width, x \in c.record.counted PROVE FALSE
    <2>1. 1 \in Narrow(f)
      BY <1>4, <1>5, <1>17 DEF Narrow
    <2>2. CASE \E s \in Starts(Width) : x \in g.open[s].counted
      BY <1>3, <1>4, <1>17, <2>1, <2>2 DEF FoldInv, ClosedOK
    <2>3. CASE \E i \in Narrow(g) : x \in g.closed[i].record.counted
      <3>1. PICK i \in Narrow(g) : x \in g.closed[i].record.counted
        BY <2>3
      <3>2. i + 1 \in Narrow(f) /\ 1 < i + 1 /\ x \in f.closed[i + 1].record.counted
        BY <1>5, <1>6, <3>1
      <3> QED BY <1>4, <1>17, <2>1, <3>2 DEF FoldInv, ClosedOK
    <2> QED BY <1>17, <2>2, <2>3 DEF InMemory
  <1>18. FoldInv(l, g, V, G, 0)
    BY <1>8, <1>9, <1>10, <1>11, <1>13, <1>14 DEF FoldInv
  <1> QED BY <1>3, <1>4, <1>15, <1>16, <1>17, <1>18 DEF HeadLeft

\* The store it gave it to.
LEMMA StoreTakes ==
  ASSUME NEW l \in Seq(LogRecords), NEW f, NEW store, NEW G, StoreOK(l, store, Accountable(store), G),
         FoldInv(l, f, Accountable(store), G, 0), f.closed # <<>>, f.missed = {},
         NEW c, c = Head(f.closed), NEW next, Puts(store, next, c)
  PROVE  StoreOK(l, next, Accountable(next), G)
  <1> DEFINE key == <<c.level, c.from>>
             W == Accountable(store)
             V == Accountable(next)
             g == [f EXCEPT !.closed = Tail(@)]
  <1>1. W \subseteq V /\ (c.level = Width => c.record.counted \subseteq V)
    BY PutsAccounts DEF Accountable
  <1>2. c = f.closed[1] /\ 1 \in DOMAIN f.closed
    <2> HIDE DEF W, V
    <2>1. c = f.closed[1] /\ Len(f.closed) \in Nat \ {0}
      BY HeadLeaves DEF GaveAway, HeadLeft
    <2>2. \E X : f.closed \in Seq(X)
      BY DEF FoldInv, ClosedOK
    <2> QED BY <2>1, <2>2
  <1>3. EntryOK(l, c.level, c.from, c)
    BY <1>2 DEF FoldInv, ClosedOK
  <1>4. ASSUME NEW p \in 1..c.through, RunEnd(l, p), c.first <= p, At(l, p) < c.from + c.level
        PROVE  p \in V \/ ToldMissed(NewFold, G, p)
    <2>1. \/ \E j \in Narrow(f) : j <= 1 /\ p \in f.closed[j].record.counted
          \/ p \in W \/ ToldMissed(f, G, p)
      BY <1>2, <1>4 DEF FoldInv, PassedClosing
    <2>2. ASSUME NEW j \in Narrow(f), j <= 1, p \in f.closed[j].record.counted PROVE p \in V
      <3>1. j = 1
        <4>1. \E X : f.closed \in Seq(X)
          BY DEF FoldInv, ClosedOK
        <4> QED BY <2>2, <4>1 DEF Narrow
      <3> QED BY <1>1, <1>2, <2>2, <3>1 DEF Narrow
    <2>3. ToldMissed(f, G, p) => ToldMissed(NewFold, G, p)
      BY NewFoldIs DEF ToldMissed
    <2> QED BY <1>1, <2>1, <2>2, <2>3
  <1>5. /\ key \in PeriodKeys /\ DOMAIN next = PeriodKeys
        /\ \A k \in PeriodKeys \ {key} : next[k] = store[k]
        /\ DOMAIN next[key] = PeriodFields /\ next[key].present
    BY DEF Puts
  <1>6. key[1] = c.level /\ key[2] = c.from
    OBVIOUS
  <1>7. CASE store[key].present
    <2>1. /\ next[key].record = store[key].record /\ next[key].first = store[key].first
          /\ next[key].through = store[key].through /\ next[key].began = store[key].began
      BY <1>7 DEF Puts
    <2>2. EntryOK(l, key[1], key[2], store[key])
      BY <1>5, <1>7 DEF StoreOK
    <2> HIDE DEF key, W, V
    <2>3. EntryOK(l, key[1], key[2], next[key])
      BY <2>1, <2>2, EntryAlike
    <2>4. ASSUME NEW k \in PeriodKeys, next[k].present, NEW p \in 1..next[k].through,
                 RunEnd(l, p), next[k].first <= p, At(l, p) < k[1] + k[2]
          PROVE  p \in V \/ ToldMissed(NewFold, G, p)
      <3>1. store[k].present /\ store[k].through = next[k].through /\ store[k].first = next[k].first
        BY <1>5, <1>7, <2>1, <2>4
      <3>2. p \in W \/ ToldMissed(NewFold, G, p)
        BY <2>4, <3>1 DEF StoreOK, W
      <3> QED BY <1>1, <3>2
    <2>5. \A k \in PeriodKeys :
            /\ DOMAIN next[k] = PeriodFields /\ (~next[k].present => next[k] = NoPeriod)
            /\ next[k].present => EntryOK(l, k[1], k[2], next[k])
      BY <1>5, <1>7, <2>3 DEF StoreOK
    <2> QED BY <1>5, <2>4, <2>5 DEF StoreOK, V
  <1>8. CASE ~store[key].present
    <2>1. /\ next[key].record = c.record /\ next[key].first = c.first
          /\ next[key].through = c.through /\ next[key].began = c.began
      BY <1>8 DEF Puts
    <2>2. EntryOK(l, c.level, c.from, next[key])
      <3> HIDE DEF key
      <3> QED BY <1>3, <2>1, EntryAlike
    <2>3. c.from + c.level = c.level + c.from
      <3>1. c.level \in {Width, Rollup} /\ c.from \in Nat
        BY <1>5, <1>6, KeyFacts
      <3> QED BY <3>1, PeriodFacts
    <2>4. \A p \in 1..next[key].through :
            RunEnd(l, p) /\ next[key].first <= p /\ At(l, p) < key[1] + key[2] =>
              p \in V \/ ToldMissed(NewFold, G, p)
      <3> HIDE DEF key, V
      <3> QED BY <1>4, <1>6, <2>1, <2>3
    <2> HIDE DEF key, W, V
    <2>5. ASSUME NEW k \in PeriodKeys, next[k].present, NEW p \in 1..next[k].through,
                 RunEnd(l, p), next[k].first <= p, At(l, p) < k[1] + k[2]
          PROVE  p \in V \/ ToldMissed(NewFold, G, p)
      <3>1. CASE k = key
        BY <2>4, <2>5, <3>1
      <3>2. CASE k # key
        <4>1. next[k] = store[k]
          BY <1>5, <3>2
        <4>2. p \in W \/ ToldMissed(NewFold, G, p)
          BY <2>5, <4>1 DEF StoreOK, W
        <4> QED BY <1>1, <4>2
      <3> QED BY <3>1, <3>2
    <2>6. \A k \in PeriodKeys :
            /\ DOMAIN next[k] = PeriodFields /\ (~next[k].present => next[k] = NoPeriod)
            /\ next[k].present => EntryOK(l, k[1], k[2], next[k])
      BY <1>5, <1>6, <2>2 DEF StoreOK
    <2> QED BY <1>5, <2>5, <2>6 DEF StoreOK, V
  <1> QED BY <1>7, <1>8

-----------------------------------------------------------------------------
(* Every variable has its type. *)

LogSized ==
  /\ Len(log) <= MaxRecords /\ trimmed \in 0..Len(log) /\ produced \in 0..Len(Msg)
  /\ streamPositions \in [Runs -> Nat]

Subscribers == sub \in [Readers -> SubRecords] /\ committed \in [Readers -> Nat]

Counters == up \in BOOLEAN /\ mishaps \in 0..MaxMishaps /\ ticks \in 0..MaxTicks

TaskRecords(P) ==
  [at : {"off", "loop", "spans", "periods", "asked", "commit", "left", "stopped"},
   mode : {"flush", "end", "exit", "leave"}, held : BOOLEAN, dedup : Seq(Msgs),
   open : SUBSET P, spans : SUBSET P, checkpoint : Nat]

\* The last pass of a shutdown neither writes spans nor commits.
TaskInv ==
  /\ task \in TaskRecords(Positions)
  /\ task.at \in {"spans", "commit"} => task.mode # "leave"
  /\ traces \subseteq Positions /\ parked \subseteq Positions
  /\ askedPages \subseteq Positions /\ asked.pending \subseteq Positions

LEMMA LogSizedInit ==
  ASSUME NEW held \in Seq(Msgs), Len(held) <= MaxRecords, ProjectorInit(held), StreamInv
  PROVE  LogSized /\ Subscribers /\ Counters
  <1>1. /\ LogInit(held) /\ ticks = 0
    BY DEF ProjectorInit
  <1>2. Len(log) = Len(held) /\ trimmed = 0 /\ Len(held) \in Nat
    <2>1. DOMAIN log = DOMAIN held
      BY <1>1 DEF LogInit
    <2>2. DOMAIN held = 1..Len(held) /\ Len(held) \in Nat
      OBVIOUS
    <2>3. log \in Seq(LogRecords)
      BY DEF StreamInv
    <2> QED BY <1>1, <2>1, <2>2, <2>3 DEF LogInit
  <1>3. produced \in 0..Len(Msg)
    <2>1. Msgs = 1..Len(Msg) /\ Len(Msg) \in Nat
      BY RunOfMessage
    <2>2. held # <<>> => held[Len(held)] \in Msgs
      OBVIOUS
    <2> QED BY <1>1, <2>1, <2>2 DEF LogInit
  <1>4. streamPositions \in [Runs -> Nat]
    <2>1. \A r \in Runs : LastStreamPosition(log, r) \in Nat
      BY LastIsHighest DEF StreamInv
    <2> QED BY <1>1, <2>1 DEF LogInit
  <1>5. LogSized
    BY <1>2, <1>3, <1>4 DEF LogSized
  <1>6. Subscribers
    <2>1. NoSubscription \in SubRecords
      BY DEF NoSubscription, SubRecords
    <2>2. sub = [c \in Readers |-> NoSubscription] /\ committed = [c \in Readers |-> 0]
      BY <1>1 DEF LogInit
    <2> QED BY <2>1, <2>2 DEF Subscribers
  <1>7. Counters
    BY <1>1, LogAssumption, ProjectorAssumption DEF LogInit, Counters
  <1> QED BY <1>5, <1>6, <1>7

LEMMA AdvancedTyped ==
  ASSUME LogSized, NEW batch, NEW k \in Nat
  PROVE  Advanced(batch, k) \in [Runs -> Nat]
  <1>1. \A r \in Runs : streamPositions[r] \in Nat
    BY DEF LogSized
  <1>2. \A r \in Runs : Advanced(batch, k)[r] \in Nat
    BY <1>1, AdvancedBySent
  <1>3. Advanced(batch, k) = [r \in Runs |-> Advanced(batch, k)[r]]
    BY DEF Advanced
  <1> QED BY <1>2, <1>3

LEMMA LogSizedStep ==
  ASSUME StreamInv, StreamInv', LogGrows, LogSized, [ProjectorNext]_vars
  PROVE  LogSized'
  <1>0. /\ Len(log) \in Nat /\ Len(log') \in Nat /\ Len(log) <= Len(log') /\ Len(log') <= MaxRecords
        /\ MaxRecords \in Nat /\ Len(Msg) \in Nat /\ Msgs = 1..Len(Msg)
    BY RunOfMessage, LogAssumption DEF StreamInv, LogGrows, LogSized
  <1>1. ASSUME UNCHANGED <<trimmed, produced, streamPositions>> PROVE LogSized'
    BY <1>0, <1>1 DEF LogSized
  <1>2. ASSUME NEW batch \in SendableBatches, produced' = Max2(produced, batch[Len(batch)])
        PROVE  produced' \in 0..Len(Msg)
    <2>1. batch \in Seq(Msgs) /\ Len(batch) \in 1..Len(batch)
      BY BatchTyped
    <2>2. batch[Len(batch)] \in Msgs
      BY <2>1
    <2> QED BY <1>0, <1>2, <2>2 DEF Max2, LogSized
  <1>3. ASSUME NEW a \in Appenders, AppendBatch(a) PROVE LogSized'
    <2>1. PICK batch \in SendableBatches : streamPositions' = Advanced(batch, Len(batch))
      BY <1>3 DEF AppendBatch
    <2>2. Len(batch) \in Nat
      BY BatchTyped
    <2>3. streamPositions' \in [Runs -> Nat]
      BY <2>1, <2>2, AdvancedTyped
    <2>4. produced' \in 0..Len(Msg) /\ trimmed' = trimmed
      BY <1>2, <1>3 DEF AppendBatch
    <2> QED BY <1>0, <2>3, <2>4 DEF LogSized
  <1>13. ASSUME NEW a \in Appenders, AppendFails(a) PROVE LogSized'
    <2>1. PICK batch \in SendableBatches : \E k \in 0..Len(batch) :
            /\ streamPositions' = Advanced(batch, k)
            /\ produced' = Max2(produced, batch[Len(batch)])
      BY <1>13 DEF AppendFails
    <2>2. PICK k \in 0..Len(batch) : streamPositions' = Advanced(batch, k)
      BY <2>1
    <2>3. streamPositions' \in [Runs -> Nat]
      BY <2>2, AdvancedTyped
    <2>4. produced' \in 0..Len(Msg) /\ trimmed' = trimmed /\ log' = log
      BY <1>2, <1>13, <2>1 DEF AppendFails
    <2> QED BY <1>0, <2>3, <2>4 DEF LogSized
  <1>4. CASE Crash
    <2>1. streamPositions' = streamPositions /\ trimmed' = trimmed
      BY <1>4 DEF Crash, CrashLog
    <2>2. produced' \in 0..Len(Msg)
      BY <1>2, <1>4 DEF Crash, CrashLog, LogSized
    <2> QED BY <1>0, <2>1, <2>2 DEF LogSized
  <1>5. CASE OpenLog
    <2>1. \A r \in Runs : LastStreamPosition(log, r) \in Nat
      BY LastIsHighest DEF StreamInv
    <2>2. streamPositions' \in [Runs -> Nat]
      BY <1>5, <2>1 DEF OpenLog
    <2> QED BY <1>0, <1>5, <2>2 DEF OpenLog, LogSized
  <1>6. CASE Trim
    <2>1. trimmed' = trimmed + 1 /\ trimmed < Len(log) /\ UNCHANGED <<log, produced, streamPositions>>
      BY <1>6 DEF Trim
    <2> QED BY <1>0, <2>1 DEF LogSized
  <1>7. CASE LogStep
    BY <1>1, <1>3, <1>13, <1>5, <1>6, <1>7 DEF LogStep, Broadcast, SkipDelivered
  <1>8. CASE Exit \/ UNCHANGED vars
    BY <1>1, <1>8 DEF Exit, vars, logVars, busVars
  <1>9. CASE Shutdown
    BY <1>1, <1>9 DEF Shutdown, logVars, busVars
  <1>10. CASE ReadStep
    BY <1>1, <1>10 DEF ReadStep, StartProjector, Handle, CaughtUp, FlushTimer, SweepTimer, SourceEnds, logVars, busVars
  <1>11. CASE FlushStep
    BY <1>1, <1>11 DEF FlushStep, WriteSpans, WriteGap, WriteClosed, SaveFold, FlushAsked, Commit, busVars
  <1>12. CASE JournalStep
    BY <1>1, <1>12 DEF JournalStep, StartJournal, JournalReads, JournalCaughtUp, JournalTick, KeepPage, logVars, busVars
  <1> QED BY <1>4, <1>7, <1>8, <1>9, <1>10, <1>11, <1>12 DEF ProjectorNext

\* What a step does to the subscriptions and the commits of the two readers.
LEMMA SubscribersStep ==
  ASSUME Subscribers, AskedInv', PagesInv', [ProjectorNext]_vars
  PROVE  Subscribers'
  <1>1. ASSUME NEW c \in Readers
        PROVE  sub'[c] \in SubRecords /\ committed'[c] \in Nat
    <2>1. c = "projector" \/ c = "journal"
      BY ProjectorAssumption
    <2> QED BY <2>1 DEF AskedInv, SourceSide, PagesInv
  <1>2. ASSUME sub' = sub \/ (\E c, v : sub' = [sub EXCEPT ![c] = v])
                 \/ sub' = [c \in Readers |-> NoSubscription],
               committed' = committed \/ \E c, v : committed' = [committed EXCEPT ![c] = v]
        PROVE  Subscribers'
    BY <1>1, <1>2 DEF Subscribers
  <1>3. CASE LogStep
    <2>1. committed' = committed
      BY <1>3 DEF LogStep, AppendBatch, AppendFails, Broadcast, SkipDelivered, Trim, OpenLog
    <2>2. sub' = sub \/ \E c \in Readers : sub' = [sub EXCEPT ![c].cursor = @ + 1]
      BY <1>3 DEF LogStep, AppendBatch, AppendFails, Broadcast, SkipDelivered, Trim, OpenLog
    <2>3. \A c : [sub EXCEPT ![c].cursor = @ + 1] = [sub EXCEPT ![c] = [sub[c] EXCEPT !.cursor = @ + 1]]
      OBVIOUS
    <2> QED BY <1>2, <2>1, <2>2, <2>3
  <1>4. CASE StartProjector
    BY <1>2, <1>4 DEF StartProjector
  <1>5. CASE Handle
    BY <1>2, <1>5 DEF Handle
  <1>6. CASE CaughtUp \/ SourceEnds \/ JournalCaughtUp
    <2>1. committed' = committed
      BY <1>6 DEF CaughtUp, SourceEnds, JournalCaughtUp
    <2>2. \E c, v : sub' = [sub EXCEPT ![c].state = v]
      BY <1>6 DEF CaughtUp, SourceEnds, JournalCaughtUp
    <2>3. \A c, v : [sub EXCEPT ![c].state = v] = [sub EXCEPT ![c] = [sub[c] EXCEPT !.state = v]]
      OBVIOUS
    <2> QED BY <1>2, <2>1, <2>2, <2>3
  <1>7. CASE FlushTimer \/ SweepTimer \/ Shutdown \/ JournalTick \/ UNCHANGED vars
    BY <1>2, <1>7 DEF FlushTimer, SweepTimer, Shutdown, JournalTick, vars, logVars, busVars
  <1>8. CASE WriteSpans \/ WriteGap \/ WriteClosed \/ SaveFold \/ FlushAsked
    BY <1>2, <1>8 DEF WriteSpans, WriteGap, WriteClosed, SaveFold, FlushAsked, busVars
  <1>9. CASE Commit
    BY <1>2, <1>9 DEF Commit
  <1>10. CASE StartJournal \/ JournalReads
    BY <1>2, <1>10 DEF StartJournal, JournalReads
  <1>11. CASE KeepPage
    BY <1>2, <1>11 DEF KeepPage
  <1>12. CASE Crash \/ Exit
    BY <1>2, <1>12 DEF Crash, CrashLog, Exit
  <1> QED BY <1>3, <1>4, <1>5, <1>6, <1>7, <1>8, <1>9, <1>10, <1>11, <1>12
          DEF ProjectorNext, ReadStep, FlushStep, JournalStep

LEMMA CountersStep ==
  ASSUME Counters, [ProjectorNext]_vars
  PROVE  Counters'
  <1>0. MaxMishaps \in Nat /\ MaxTicks \in Nat
    BY LogAssumption, ProjectorAssumption
  <1>1. ASSUME up' \in BOOLEAN, Taken \/ Refused, ticks' = ticks \/ Ticks PROVE Counters'
    BY <1>0, <1>1 DEF Counters, Taken, Refused, Ticks
  <1>2. CASE LogStep
    <2>1. ticks' = ticks
      BY <1>2 DEF LogStep, Unlogged
    <2>2. ASSUME NEW a \in Appenders, AppendFails(a) PROVE up' \in BOOLEAN /\ Refused
      BY <2>2 DEF AppendFails, Refused, Counters
    <2>3. ASSUME NEW a \in Appenders, AppendBatch(a) \/ Broadcast(a) PROVE up' \in BOOLEAN /\ Taken
      BY <2>3 DEF AppendBatch, Broadcast, Taken, Counters
    <2>4. ASSUME NEW c \in Readers, SkipDelivered(c) PROVE up' \in BOOLEAN /\ Taken
      <3>1. up' = up /\ Taken
        BY <2>4, Zenon DEF SkipDelivered, Taken
      <3> QED BY <3>1 DEF Counters
    <2>5. ASSUME Trim \/ OpenLog PROVE up' \in BOOLEAN /\ Taken
      <3>1. (up' = up \/ up' = TRUE) /\ Taken
        BY <2>5, Zenon DEF Trim, OpenLog, Taken
      <3> QED BY <3>1 DEF Counters
    <2>6. up' \in BOOLEAN /\ (Taken \/ Refused)
      BY <1>2, <2>2, <2>3, <2>4, <2>5 DEF LogStep
    <2> QED BY <1>1, <2>1, <2>6
  <1>3. CASE StartProjector \/ CaughtUp \/ SourceEnds \/ Shutdown \/ UNCHANGED vars
    BY <1>1, <1>3 DEF StartProjector, CaughtUp, SourceEnds, Shutdown, vars, logVars, busVars, Taken, Counters
  <1>4. CASE FlushTimer \/ SweepTimer \/ JournalTick
    BY <1>1, <1>4 DEF FlushTimer, SweepTimer, JournalTick, logVars, busVars, Taken, Counters
  <1>5. CASE Handle
    <2>1. Taken \/ Refused
      BY <1>5 DEF Handle, HandleEvent, Folded
    <2> QED BY <1>1, <1>5, <2>1 DEF Handle, Counters
  <1>6. CASE WriteSpans \/ WriteGap \/ WriteClosed \/ SaveFold \/ FlushAsked
    <2>1. Taken \/ Refused
      BY <1>6 DEF WriteSpans, WriteGap, WriteClosed, SaveFold, FlushAsked, PeriodsFail
    <2>2. UNCHANGED <<up, ticks>>
      BY <1>6 DEF WriteSpans, WriteGap, WriteClosed, SaveFold, FlushAsked, busVars
    <2> QED BY <1>1, <2>1, <2>2 DEF Counters
  <1>7. CASE Commit
    <2>1. Taken \/ Refused
      BY <1>7 DEF Commit
    <2> QED BY <1>1, <1>7, <2>1 DEF Commit, Counters
  <1>8. CASE JournalStep
    <2>1. CASE KeepPage
      <3>1. Taken \/ Refused
        BY <2>1 DEF KeepPage
      <3> QED BY <1>1, <2>1, <3>1 DEF KeepPage, Counters
    <2> QED BY <1>1, <1>4, <1>8, <2>1
            DEF JournalStep, StartJournal, JournalReads, JournalCaughtUp, Taken, Counters
  <1>9. CASE Crash \/ Exit
    <2>1. Refused /\ up' = FALSE /\ ticks' = ticks
      BY <1>9 DEF Crash, CrashLog, Exit, Forgotten, Refused
    <2> QED BY <1>1, <2>1
  <1> QED BY <1>2, <1>3, <1>4, <1>5, <1>6, <1>7, <1>8, <1>9 DEF ProjectorNext, ReadStep, FlushStep

\* A step that leaves the task alone, and what it wrote.
LEMMA TaskBeside ==
  ASSUME StreamInv, StreamInv', LogGrows, TaskInv, task' = task, asked' = asked,
         UNCHANGED <<traces, parked, askedPages>>
  PROVE  TaskInv'
  <1>1. Positions \subseteq Positions'
    BY DEF Positions, LogGrows, StreamInv
  <1> QED BY <1>1 DEF TaskInv, TaskRecords

\* Where a flush goes on.
LEMMA FlushPlaces ==
  ASSUME NEW mode \in {"flush", "end", "exit", "leave"}
  PROVE  /\ FromPeriods(mode) \in {"periods", "asked", "commit", "left"}
         /\ FromAsked(mode) \in {"asked", "commit", "left"} /\ Done(mode) \in {"commit", "left"}
         /\ \A at \in {FromPeriods(mode), FromAsked(mode), Done(mode)} :
              at \in {"spans", "commit"} => mode # "leave"
  BY DEF FromPeriods, FromAsked, Done

LEMMA GoesTyped ==
  ASSUME TaskInv, NEW at \in {FromPeriods(task.mode), FromAsked(task.mode), Done(task.mode)},
         Goes(at) \/ Holds(at)
  PROVE  /\ task' \in TaskRecords(Positions)
         /\ task'.at \in {"spans", "commit"} => task'.mode # "leave"
         /\ task'.at = at
  <1>1. task.mode \in {"flush", "end", "exit", "leave"}
    BY DEF TaskInv, TaskRecords
  <1>2. at \in {"periods", "asked", "commit", "left"} /\ (at \in {"spans", "commit"} => task.mode # "leave")
    BY <1>1, FlushPlaces
  <1> QED BY <1>2 DEF TaskInv, TaskRecords, Goes, Holds

LEMMA StartsTyped ==
  ASSUME TaskInv, NEW mode \in {"flush", "end", "exit"}, NEW spans \in SUBSET Positions,
         NEW checkpoint \in Nat, NEW open \in SUBSET Positions,
         StartsFlush(mode, spans, checkpoint, open)
  PROVE  /\ task' \in TaskRecords(Positions)
         /\ task'.at \in {"spans", "commit"} => task'.mode # "leave"
  BY DEF TaskInv, TaskRecords, StartsFlush

LEMMA HandleKeepsTask ==
  ASSUME StreamInv, BusInv, AskedInv, TaskInv, Handle
  PROVE  TaskInv'
  <1> DEFINE p == NextDelivery("projector")
             m == log[p].msg
             fresh == m \notin Range(task.dedup)
             spans == IF fresh /\ Msg[m].phase = "end" THEN task.spans \cup {p} ELSE task.spans
             dedup == IF fresh THEN Admit(task.dedup, m) ELSE task.dedup
             open == IF ~fresh THEN task.open
                     ELSE IF Msg[m].phase = "end" THEN {q \in task.open : SpanOf(log[q].msg) # SpanOf(m)}
                     ELSE IF \E q \in task.open : SpanOf(log[q].msg) = SpanOf(m) THEN task.open
                     ELSE task.open \cup {p}
             at == IF Cardinality(spans) >= FlushBatch THEN "spans" ELSE "loop"
  <1>1. p # 0 /\ HandleEvent(p) /\ UNCHANGED <<log, traces, parked, askedPages>>
    BY DEF Handle, spanVars
  <1>2. p \in Positions /\ p \in Nat /\ m \in Msgs
    <2>1. p \in Positions
      BY <1>1, NextOfProjector DEF AskedInv
    <2>2. log[p] \in LogRecords
      BY <2>1 DEF StreamInv, Positions
    <2> QED BY <2>1, <2>2 DEF LogRecords, Positions
  <1> HIDE DEF p
  <1>3. task' = [task EXCEPT !.checkpoint = p, !.dedup = dedup, !.open = open, !.spans = spans,
                             !.at = at, !.mode = "flush"]
    BY <1>1 DEF HandleEvent
  <1>4. dedup \in Seq(Msgs)
    <2>1. task.dedup \in Seq(Msgs)
      BY DEF TaskInv, TaskRecords
    <2>2. DedupCapacity \in Nat \ {0}
      BY ProjectorAssumption
    <2>3. Len(task.dedup) >= DedupCapacity => Tail(task.dedup) \in Seq(Msgs)
      <3>1. Len(task.dedup) >= DedupCapacity => task.dedup # <<>>
        BY <2>1, <2>2
      <3> QED BY <2>1, <3>1, HeadTailProperties
    <2> HIDE DEF m
    <2>4. Append(task.dedup, m) \in Seq(Msgs)
          /\ (Len(task.dedup) >= DedupCapacity => Append(Tail(task.dedup), m) \in Seq(Msgs))
      BY <1>2, <2>1, <2>3, AppendProperties
    <2> QED BY <2>1, <2>4 DEF Admit
  <1>5. spans \subseteq Positions /\ open \subseteq Positions
    BY <1>2 DEF TaskInv, TaskRecords
  <1>6. at \in {"spans", "loop"}
    OBVIOUS
  <1> HIDE DEF dedup, spans, open, at
  <1>7. task' \in TaskRecords(Positions) /\ task'.mode = "flush"
    BY <1>2, <1>3, <1>4, <1>5, <1>6 DEF TaskInv, TaskRecords
  <1>8. asked'.pending \subseteq Positions
    <2>1. asked' = asked \/ asked' = AskedApply(asked, p)
      BY <1>1 DEF HandleEvent
    <2>2. asked \in IndexRecords
      BY DEF AskedInv, IndexSide, IndexOK
    <2>3. AskedApply(asked, p).pending \in {asked.pending, asked.pending \cup {p}}
      BY <2>2 DEF AskedApply, IndexRecords
    <2> QED BY <1>2, <2>1, <2>3 DEF TaskInv
  <1>9. Positions' = Positions
    BY <1>1 DEF Positions
  <1> QED BY <1>1, <1>7, <1>8, <1>9 DEF TaskInv

LEMMA TaskStep ==
  ASSUME StreamInv, BusInv, AskedInv, TaskInv, StreamInv', [ProjectorNext]_vars
  PROVE  TaskInv'
  <1>0. LogGrows
    BY EveryStepGrows
  <1>1. task \in TaskRecords(Positions) /\ asked \in IndexRecords /\ sub["projector"].delivered \in Nat
    BY DEF TaskInv, AskedInv, IndexSide, IndexOK, SourceSide, SubRecords
  <1>2. ASSUME log' = log, task' \in TaskRecords(Positions),
               task'.at \in {"spans", "commit"} => task'.mode # "leave",
               asked' = asked, UNCHANGED <<traces, parked, askedPages>>
        PROVE  TaskInv'
    BY <1>2 DEF TaskInv, Positions
  <1>3. CASE LogStep \/ UNCHANGED vars
    BY <1>0, <1>3, TaskBeside DEF LogStep, Unlogged, vars, askedVars, spanVars
  <1>4. CASE JournalStep
    BY <1>0, <1>4, TaskBeside
       DEF JournalStep, StartJournal, JournalReads, JournalCaughtUp, JournalTick, KeepPage, askedVars, spanVars
  <1>5. CASE StartProjector
    <2>1. task' = [NewTask EXCEPT !.at = "loop"] /\ asked' = LoadedIndex(reach)
          /\ UNCHANGED <<log, traces, parked, askedPages>>
      BY <1>5 DEF StartProjector, spanVars
    <2>2. task' \in TaskRecords(Positions) /\ task'.at = "loop"
      <3>1. NewTask \in TaskRecords(Positions)
        BY DEF NewTask, TaskRecords
      <3> HIDE DEF NewTask
      <3> QED BY <2>1, <3>1 DEF TaskRecords
    <2>3. asked'.pending = {}
      BY <2>1 DEF LoadedIndex
    <2> QED BY <2>1, <2>2, <2>3 DEF TaskInv, Positions
  <1>6. CASE Handle
    BY <1>6, HandleKeepsTask
  <1>7. CASE CaughtUp
    <2> DEFINE n == IF task.checkpoint = 0 THEN sub["projector"].delivered ELSE task.checkpoint
    <2>1. StartsFlush("flush", task.spans, n, task.open) /\ n \in Nat
      BY <1>1, <1>7 DEF CaughtUp, TaskRecords
    <2> HIDE DEF n
    <2>2. task.spans \subseteq Positions /\ task.open \subseteq Positions
      BY <1>1 DEF TaskRecords
    <2>3. task' \in TaskRecords(Positions) /\ (task'.at \in {"spans", "commit"} => task'.mode # "leave")
      BY <2>1, <2>2, StartsTyped
    <2> QED BY <1>2, <1>7, <2>3 DEF CaughtUp, askedVars, spanVars
  <1>8. CASE FlushTimer \/ SourceEnds \/ Shutdown
    <2>1. /\ task.spans \subseteq Positions /\ task.open \subseteq Positions /\ task.checkpoint \in Nat
          /\ task.spans \cup task.open \subseteq Positions /\ {} \subseteq Positions
      BY <1>1 DEF TaskRecords
    <2>2. \/ StartsFlush("flush", task.spans, task.checkpoint, task.open)
          \/ StartsFlush("end", task.spans, task.checkpoint, task.open)
          \/ StartsFlush("exit", task.spans \cup task.open, task.checkpoint, {})
      BY <1>8 DEF FlushTimer, SourceEnds, Shutdown
    <2>3. task' \in TaskRecords(Positions) /\ (task'.at \in {"spans", "commit"} => task'.mode # "leave")
      BY <2>1, <2>2, StartsTyped
    <2>4. log' = log /\ asked' = asked /\ UNCHANGED <<traces, parked, askedPages>>
      BY <1>8 DEF FlushTimer, SourceEnds, Shutdown, askedVars, spanVars, logVars, busVars
    <2> QED BY <1>2, <2>3, <2>4
  <1>9. CASE SweepTimer
    <2>1. log' = log /\ asked' = asked /\ UNCHANGED <<traces, parked, askedPages>> /\ task.at = "loop"
      BY <1>9 DEF SweepTimer, askedVars, spanVars, logVars, busVars
    <2>2. PICK stale \in SUBSET task.open :
            task' = [task EXCEPT !.open = @ \ stale, !.spans = @ \cup stale]
      BY <1>9 DEF SweepTimer
    <2>3. task' \in TaskRecords(Positions) /\ task'.at = "loop"
      BY <1>1, <2>1, <2>2 DEF TaskRecords
    <2> QED BY <1>2, <2>1, <2>3
  <1>10. CASE WriteSpans
    <2>1. log' = log /\ UNCHANGED <<asked, askedPages>>
      BY <1>10 DEF WriteSpans, askedVars, busVars
    <2>2. Goes(FromPeriods(task.mode)) \/ Holds(FromPeriods(task.mode))
      BY <1>10 DEF WriteSpans
    <2>3. task' \in TaskRecords(Positions) /\ (task'.at \in {"spans", "commit"} => task'.mode # "leave")
      BY <2>2, GoesTyped
    <2>4. traces' \subseteq traces \cup task.spans /\ parked' \subseteq parked \cup task.spans
      BY <1>10 DEF WriteSpans
    <2> QED BY <1>1, <2>1, <2>3, <2>4 DEF TaskInv, TaskRecords, Positions
  <1>11. CASE WriteGap \/ WriteClosed \/ SaveFold
    <2>1. log' = log /\ asked' = asked /\ UNCHANGED <<traces, parked, askedPages>>
      BY <1>11 DEF WriteGap, WriteClosed, SaveFold, askedVars, spanVars, busVars
    <2>2. \/ task' = task \/ Goes(FromAsked(task.mode))
          \/ (task.mode # "leave" /\ Holds("commit"))
      BY <1>11 DEF WriteGap, WriteClosed, SaveFold, PeriodsFail
    <2>3. task' \in TaskRecords(Positions) /\ (task'.at \in {"spans", "commit"} => task'.mode # "leave")
      <3>1. CASE task' = task
        BY <3>1 DEF TaskInv
      <3>2. CASE Goes(FromAsked(task.mode))
        BY <3>2, GoesTyped
      <3>3. CASE task.mode # "leave" /\ Holds("commit")
        BY <1>1, <3>3 DEF TaskRecords, Holds
      <3> QED BY <2>2, <3>1, <3>2, <3>3
    <2> QED BY <1>2, <2>1, <2>3
  <1>12. CASE FlushAsked
    <2>1. log' = log /\ UNCHANGED <<traces, parked>>
      BY <1>12 DEF FlushAsked, spanVars, busVars
    <2>2. \/ Goes(Done(task.mode)) \/ (task.mode # "leave" /\ Holds("commit"))
          \/ (task.mode = "leave" /\ Goes("left"))
      BY <1>12 DEF FlushAsked
    <2>3. task' \in TaskRecords(Positions) /\ (task'.at \in {"spans", "commit"} => task'.mode # "leave")
      <3>1. CASE Goes(Done(task.mode))
        BY <3>1, GoesTyped
      <3>2. CASE task.mode # "leave" /\ Holds("commit")
        BY <1>1, <3>2 DEF TaskRecords, Holds
      <3>3. CASE task.mode = "leave" /\ Goes("left")
        BY <1>1, <3>3 DEF TaskRecords, Goes
      <3> QED BY <2>2, <3>1, <3>2, <3>3
    <2>4. /\ askedPages' \subseteq askedPages \cup asked.pending
          /\ asked' = asked \/ asked' = [asked EXCEPT !.pending = {}, !.through = asked.applied]
      BY <1>12 DEF FlushAsked, askedVars
    <2>5. asked'.pending \subseteq asked.pending
      BY <1>1, <2>4 DEF IndexRecords
    <2> QED BY <2>1, <2>3, <2>4, <2>5 DEF TaskInv, Positions
  <1>13. CASE Commit
    <2>1. log' = log /\ asked' = asked /\ UNCHANGED <<traces, parked, askedPages>> /\ task.at = "commit"
      BY <1>13 DEF Commit, askedVars, spanVars
    <2>2. task.mode \in {"flush", "end", "exit"}
      BY <1>1, <2>1 DEF TaskInv, TaskRecords
    <2>3. task' = [task EXCEPT !.spans = {}, !.checkpoint = 0, !.held = FALSE,
                          !.at = CASE task.mode = "flush" -> "loop"
                                   [] task.mode = "end" -> "stopped"
                                   [] task.mode = "exit" -> FromPeriods("leave"),
                          !.mode = IF @ = "exit" THEN "leave" ELSE @]
      BY <1>13 DEF Commit
    <2>4. /\ FromPeriods("leave") \in {"periods", "asked", "commit", "left"}
          /\ FromPeriods("leave") \notin {"spans", "commit"}
      BY FlushPlaces
    <2>5. task' \in TaskRecords(Positions) /\ (task'.at \in {"spans", "commit"} => task'.mode # "leave")
      <3>1. CASE task.mode = "flush"
        BY <1>1, <2>3, <3>1 DEF TaskRecords
      <3>2. CASE task.mode = "end"
        BY <1>1, <2>3, <3>2 DEF TaskRecords
      <3>3. CASE task.mode = "exit"
        BY <1>1, <2>3, <2>4, <3>3 DEF TaskRecords
      <3> QED BY <2>2, <3>1, <3>2, <3>3
    <2> QED BY <1>2, <2>1, <2>5
  <1>14. CASE Crash \/ Exit
    <2>1. task' = NewTask /\ asked' = NewIndex /\ UNCHANGED <<traces, parked, askedPages>>
      BY <1>14 DEF Crash, Exit, Forgotten, spanVars
    <2>2. Positions \subseteq Positions'
      BY <1>0 DEF Positions, LogGrows, StreamInv
    <2>3. task' \in TaskRecords(Positions') /\ task'.at = "off" /\ asked'.pending = {}
      BY <2>1 DEF NewTask, NewIndex, TaskRecords
    <2> QED BY <2>1, <2>2, <2>3 DEF TaskInv
  <1> QED BY <1>3, <1>4, <1>5, <1>6, <1>7, <1>8, <1>9, <1>10, <1>11, <1>12, <1>13, <1>14
          DEF ProjectorNext, ReadStep, FlushStep

-----------------------------------------------------------------------------
(* The fold, its saved state and the written periods account for each       *)
(* other.                                                                   *)

\* As long as no process died, what is written is what the fold closed: it lies
\* before the fold's edge, nothing of it is still in memory, and no period was
\* written twice.
Orderly(f, store) ==
  /\ \A s \in Starts(Width) : store[<<Width, s>>].present =>
       s + Width <= f.closedThrough /\ store[<<Width, s>>].through <= f.through
  /\ \A i \in Narrow(f) : ~store[<<Width, f.closed[i].from>>].present
  /\ RefusedBy(store) = {}
  /\ \A x \in CountedWritten(store) : ~InMemory(f, x)
  /\ \A s, t \in Starts(Width) : s # t =>
       store[<<Width, s>>].record.counted \cap store[<<Width, t>>].record.counted = {}

PeriodInv ==
  /\ FoldInv(log, fold, Accountable(periods), gaps, 0)
  /\ FoldInv(log, savedFold, Accountable(periods), gaps, 0)
  /\ savedFold.closed = <<>> /\ savedFold.missed = {}
  /\ StoreOK(log, periods, Accountable(periods), gaps)
  /\ mishaps = 0 /\ task.at = "off" => periods = NoPeriods /\ savedFold = NewFold
  /\ mishaps = 0 => Orderly(fold, periods)

LEMMA OnlyACrashTurnsOff ==
  ASSUME AskedInv, TaskInv, [ProjectorNext]_vars, task'.at = "off"
  PROVE  task.at = "off" \/ Crash \/ Exit
  <1>0. /\ task \in TaskRecords(Positions) /\ {"at", "mode", "held"} \subseteq DOMAIN task
        /\ task.mode \in {"flush", "end", "exit", "leave"}
    BY DEF TaskInv, TaskRecords
  <1>1. ASSUME NEW mode, NEW spans, NEW checkpoint, NEW open,
               StartsFlush(mode, spans, checkpoint, open)
        PROVE  FALSE
    BY <1>0, <1>1 DEF StartsFlush
  <1>2. ASSUME NEW at \in {"periods", "asked", "commit", "left", FromPeriods(task.mode), FromAsked(task.mode), Done(task.mode)},
               Goes(at) \/ Holds(at)
        PROVE  FALSE
    <2>1. at \in {"periods", "asked", "commit", "left"}
      BY <1>0, FlushPlaces
    <2> QED BY <1>0, <1>2, <2>1 DEF Goes, Holds
  <1>3. CASE LogStep \/ JournalStep \/ UNCHANGED vars
    BY <1>3 DEF LogStep, Unlogged, JournalStep, StartJournal, JournalReads, JournalCaughtUp, JournalTick, KeepPage, vars
  <1>4. CASE StartProjector
    BY <1>4 DEF StartProjector, NewTask
  <1>5. CASE Handle
    <2>1. HandleEvent(NextDelivery("projector"))
      BY <1>5 DEF Handle
    <2> QED BY <1>0, <2>1 DEF HandleEvent
  <1>6. CASE CaughtUp \/ FlushTimer \/ SourceEnds \/ Shutdown
    BY <1>1, <1>6 DEF CaughtUp, FlushTimer, SourceEnds, Shutdown
  <1>7. CASE SweepTimer
    BY <1>0, <1>7 DEF SweepTimer
  <1>8. CASE WriteSpans \/ WriteGap \/ WriteClosed \/ SaveFold \/ FlushAsked
    BY <1>2, <1>8 DEF WriteSpans, WriteGap, WriteClosed, SaveFold, FlushAsked, PeriodsFail
  <1>9. CASE Commit
    <2>1. task.mode \in {"flush", "end", "exit"} /\ task.at = "commit"
      BY <1>0, <1>9 DEF TaskInv, Commit
    <2>2. FromPeriods("leave") \in {"periods", "asked", "commit", "left"}
      BY FlushPlaces
    <2>3. task' = [task EXCEPT !.spans = {}, !.checkpoint = 0, !.held = FALSE,
                          !.at = CASE task.mode = "flush" -> "loop"
                                   [] task.mode = "end" -> "stopped"
                                   [] task.mode = "exit" -> FromPeriods("leave"),
                          !.mode = IF @ = "exit" THEN "leave" ELSE @]
      BY <1>9 DEF Commit
    <2>4. CASE task.mode = "flush"
      BY <1>0, <2>3, <2>4
    <2>5. CASE task.mode = "end"
      BY <1>0, <2>3, <2>5
    <2>6. CASE task.mode = "exit"
      BY <1>0, <2>2, <2>3, <2>6
    <2> QED BY <2>1, <2>4, <2>5, <2>6
  <1> QED BY <1>3, <1>4, <1>5, <1>6, <1>7, <1>8, <1>9 DEF ProjectorNext, ReadStep, FlushStep

\* A step that leaves the periods alone.
LEMMA PeriodsBeside ==
  ASSUME log \in Seq(LogRecords), log' \in Seq(LogRecords), LogGrows, PeriodInv,
         UNCHANGED <<fold, savedFold, periods, gaps>>, mishaps' = 0 => mishaps = 0,
         task'.at = "off" => task.at = "off"
  PROVE  PeriodInv'
  <1>1. Longer(log, log')
    BY DEF Longer, LogGrows
  <1> DEFINE W == Accountable(periods)
  <1>2. W' = W
    BY DEF Accountable, CountedWritten, RefusedBy
  <1>3. FoldInv(log', fold, W, gaps, 0) /\ FoldInv(log', savedFold, W, gaps, 0)
    BY <1>1, FoldGrows DEF PeriodInv
  <1>4. StoreOK(log', periods, W, gaps)
    BY <1>1, StoreGrows DEF PeriodInv
  <1> HIDE DEF W
  <1> QED BY <1>2, <1>3, <1>4 DEF PeriodInv, W

LEMMA FoldFromPeriods ==
  ASSUME log \in Seq(LogRecords), PeriodInv
  PROVE  /\ fold.through \in Nat /\ fold.closedThrough \in Int
         /\ \A x \in CountedWritten(periods) :
              \E s \in Starts(Width) : /\ periods[<<Width, s>>].present
                                       /\ x \in 1..periods[<<Width, s>>].through
         /\ \A s \in Starts(Width) : periods[<<Width, s>>].present =>
              periods[<<Width, s>>].through \in Nat
  <1>1. fold.through \in Nat /\ fold.closedThrough \in Int
    BY FoldNumbers DEF PeriodInv, FoldInv
  <1>2. ASSUME NEW s \in Starts(Width), periods[<<Width, s>>].present
        PROVE  /\ EntryOK(log, Width, s, periods[<<Width, s>>])
               /\ periods[<<Width, s>>].through \in Nat
    <2>1. <<Width, s>> \in PeriodKeys /\ <<Width, s>>[1] = Width /\ <<Width, s>>[2] = s
      BY KeyFacts
    <2>2. EntryOK(log, Width, s, periods[<<Width, s>>])
      BY <1>2, <2>1 DEF PeriodInv, StoreOK
    <2> QED BY <2>2 DEF EntryOK
  <1>3. ASSUME NEW x \in CountedWritten(periods)
        PROVE  \E s \in Starts(Width) : /\ periods[<<Width, s>>].present
                                        /\ x \in 1..periods[<<Width, s>>].through
    <2>1. PICK s \in Starts(Width) : x \in periods[<<Width, s>>].record.counted
      BY DEF CountedWritten
    <2>2. <<Width, s>> \in PeriodKeys
      BY KeyFacts
    <2>3. periods[<<Width, s>>].present
      BY <2>1, <2>2 DEF PeriodInv, StoreOK, NoPeriod, Empty
    <2>4. EntryOK(log, Width, s, periods[<<Width, s>>])
      BY <1>2, <2>3
    <2> QED BY <2>1, <2>3, <2>4 DEF EntryOK, RecordOK
  <1> QED BY <1>1, <1>2, <1>3

LEMMA HandleKeepsPeriods ==
  ASSUME StreamInv, BusInv, AskedInv, PagesInv, TaskInv, PeriodInv, Counters, Handle
  PROVE  PeriodInv'
  <1> DEFINE p == NextDelivery("projector")
             b == fold.through
             W == Accountable(periods)
  <1>1. /\ p # 0 /\ HandleEvent(p)
        /\ UNCHANGED <<log, savedFold, periods, gaps, kept, wiring>>
    BY DEF Handle, journalVars
  <1>2. p \in 1..Len(log) /\ log \in Seq(LogRecords) /\ PagesAreOK
    BY <1>1, NextOfProjector DEF AskedInv, Positions, StreamInv, PagesInv
  <1>3. task'.at # "off"
    <2>1. task \in TaskRecords(Positions)
      BY DEF TaskInv
    <2> QED BY <1>1, <2>1 DEF HandleEvent, TaskRecords
  <1>4. mishaps' = 0 => mishaps = 0
    BY <1>1 DEF HandleEvent, Folded, Taken, Refused, Counters
  <1> HIDE DEF p
  <1>5. CASE fold' = fold
    <2>1. LogGrows
      BY <1>1, <1>2 DEF LogGrows
    <2>2. log' \in Seq(LogRecords)
      BY <1>1, <1>2
    <2> QED BY <1>1, <1>2, <1>3, <1>4, <1>5, <2>1, <2>2, PeriodsBeside
  <1>6. CASE fold' # fold
    <2>1. Folded(fold, p)
      BY <1>1, <1>6 DEF HandleEvent
    <2>2. fold' = Apply(fold, p) \/ (HasGap(fold, p) /\ fold' = Apply(JournalRefilled(fold, p), p))
      BY <2>1 DEF Folded
    <2>3. b \in Nat /\ b <= fold.through /\ FoldInv(log, fold, W, gaps, 0)
      BY <1>2, FoldFromPeriods DEF PeriodInv
    <2> HIDE DEF b, W
    <2>4. Onward(log, fold, fold', W, gaps, b)
      BY <1>2, <2>2, <2>3, FoldedKeeps
    <2>5. FoldInv(log, fold', W, gaps, 0) /\ ClosesOn(fold, fold', b)
          /\ \A x : InMemory(fold', x) => InMemory(fold, x) \/ b < x
      BY <2>4 DEF Onward
    <2>6. W' = W
      BY <1>1 DEF W, Accountable, CountedWritten, RefusedBy
    <2>7. ASSUME mishaps = 0 PROVE Orderly(fold', periods)
      <3>1. Orderly(fold, periods)
        BY <2>7 DEF PeriodInv
      <3>2. /\ fold.through \in Nat /\ fold.closedThrough \in Int
            /\ fold'.through \in Nat /\ fold'.closedThrough \in Int
            /\ \A i \in DOMAIN fold'.closed :
                 /\ i \in Nat
                 /\ fold'.closed[i].level = Width => fold'.closed[i].from \in Starts(Width)
            /\ Len(fold.closed) \in Nat /\ DOMAIN fold.closed = 1..Len(fold.closed)
            /\ Len(fold'.closed) \in Nat /\ DOMAIN fold'.closed = 1..Len(fold'.closed)
        <4>1. FoldInv(log, fold, W, gaps, 0)
          BY <2>3
        <4>2. /\ fold.through \in Nat /\ fold.closedThrough \in Int
              /\ Len(fold.closed) \in Nat /\ DOMAIN fold.closed = 1..Len(fold.closed)
          BY <1>2, <4>1, FoldNumbers DEF FoldInv
        <4>3. /\ fold'.through \in Nat /\ fold'.closedThrough \in Int
              /\ Len(fold'.closed) \in Nat /\ DOMAIN fold'.closed = 1..Len(fold'.closed)
              /\ \A i \in DOMAIN fold'.closed :
                   fold'.closed[i].level = Width => fold'.closed[i].from \in Starts(Width)
          BY <1>2, <2>5, FoldNumbers DEF FoldInv
        <4> QED BY <4>2, <4>3
      <3>3. fold.through <= fold'.through /\ fold.closedThrough <= fold'.closedThrough
        BY <2>5 DEF ClosesOn
      <3>4. Width \in Nat \ {0} /\ \A s \in Starts(Width) : s \in Nat
        BY PeriodFacts
      <3>5. \A s \in Starts(Width) : periods[<<Width, s>>].present =>
              s + Width <= fold'.closedThrough /\ periods[<<Width, s>>].through <= fold'.through
        <4> SUFFICES ASSUME NEW s \in Starts(Width), periods[<<Width, s>>].present
                     PROVE  s + Width <= fold'.closedThrough /\ periods[<<Width, s>>].through <= fold'.through
          OBVIOUS
        <4>1. s + Width <= fold.closedThrough /\ periods[<<Width, s>>].through <= fold.through
          BY <3>1 DEF Orderly
        <4>2. periods[<<Width, s>>].through \in Nat /\ s + Width \in Nat
          BY <1>2, <3>4, FoldFromPeriods
        <4> QED BY <3>2, <3>3, <4>1, <4>2
      <3>6. ASSUME NEW i \in Narrow(fold') PROVE ~periods[<<Width, fold'.closed[i].from>>].present
        <4>1. i \in DOMAIN fold'.closed /\ fold'.closed[i].level = Width
          BY DEF Narrow
        <4>2. CASE i \in DOMAIN fold.closed
          <5>1. fold'.closed[i] = fold.closed[i]
            BY <2>5, <4>2 DEF ClosesOn
          <5>2. i \in Narrow(fold)
            BY <4>1, <4>2, <5>1 DEF Narrow
          <5> QED BY <3>1, <5>1, <5>2 DEF Orderly
        <4>3. CASE i \notin DOMAIN fold.closed
          <5>1. i \in Added(fold, fold')
            BY <3>2, <4>1, <4>3 DEF Added
          <5>2. fold.closedThrough <= fold'.closed[i].from
            BY <2>5, <4>1, <5>1 DEF ClosesOn
          <5>3. fold'.closed[i].from \in Starts(Width) /\ fold'.closed[i].from \in Nat
            BY <3>2, <3>4, <4>1
          <5>4. ASSUME periods[<<Width, fold'.closed[i].from>>].present PROVE FALSE
            <6>1. fold'.closed[i].from + Width <= fold.closedThrough
              BY <3>1, <5>3, <5>4 DEF Orderly
            <6> QED BY <3>2, <3>4, <5>2, <5>3, <6>1
          <5> QED BY <5>4
        <4> QED BY <4>2, <4>3
      <3>7. ASSUME NEW x \in CountedWritten(periods) PROVE ~InMemory(fold', x)
        <4>1. PICK s \in Starts(Width) : /\ periods[<<Width, s>>].present
                                         /\ x \in 1..periods[<<Width, s>>].through
          BY <1>2, FoldFromPeriods
        <4>2. periods[<<Width, s>>].through <= fold.through /\ periods[<<Width, s>>].through \in Nat
          BY <1>2, <3>1, <4>1, FoldFromPeriods DEF Orderly
        <4>3. x <= b /\ x \in Nat /\ b \in Nat
          BY <3>2, <4>1, <4>2 DEF b
        <4>4. ~InMemory(fold, x)
          BY <3>1 DEF Orderly
        <4> QED BY <2>5, <4>3, <4>4
      <3> QED BY <3>1, <3>5, <3>6, <3>7 DEF Orderly
    <2>8. PeriodInv' = /\ FoldInv(log, fold', W, gaps, 0)
                       /\ FoldInv(log, savedFold, W, gaps, 0)
                       /\ savedFold.closed = <<>> /\ savedFold.missed = {}
                       /\ StoreOK(log, periods, W, gaps)
                       /\ mishaps' = 0 /\ task'.at = "off" => periods = NoPeriods /\ savedFold = NewFold
                       /\ mishaps' = 0 => Orderly(fold', periods)
      BY <1>1, <2>6 DEF PeriodInv, W
    <2> QED BY <1>3, <1>4, <2>5, <2>7, <2>8 DEF PeriodInv, W
  <1> QED BY <1>5, <1>6

LEMMA StartKeepsPeriods ==
  ASSUME StreamInv, PeriodInv, StartProjector
  PROVE  PeriodInv'
  <1> DEFINE W == Accountable(periods)
             f == Loaded(savedFold, periods)
  <1>1. /\ task.at = "off" /\ fold' = f /\ task'.at = "loop"
        /\ UNCHANGED <<log, mishaps, savedFold, periods, gaps>>
    BY DEF StartProjector, NewTask
  <1>2. /\ FoldInv(log, savedFold, W, gaps, 0) /\ StoreOK(log, periods, W, gaps)
        /\ savedFold.closed = <<>> /\ savedFold.missed = {} /\ log \in Seq(LogRecords)
    BY DEF PeriodInv, StreamInv
  <1>3. W' = W
    BY <1>1 DEF Accountable, CountedWritten, RefusedBy
  <1> HIDE DEF W
  <1>4. FoldInv(log, f, W, gaps, 0) /\ f.closed = <<>>
    BY <1>2, LoadedHolds
  <1>5. ASSUME mishaps = 0 PROVE Orderly(f, periods)
    <2>1. periods = NoPeriods
      BY <1>1, <1>5 DEF PeriodInv
    <2>2. \A s \in Starts(Width) : periods[<<Width, s>>] = NoPeriod
      BY <2>1, KeyFacts DEF NoPeriods
    <2>3. \A s \in Starts(Width) : /\ ~periods[<<Width, s>>].present
                                   /\ periods[<<Width, s>>].record.counted = {}
                                   /\ periods[<<Width, s>>].refused = {}
      BY <2>2 DEF NoPeriod, Empty
    <2>4. Narrow(f) = {}
      BY <1>4 DEF Narrow
    <2> QED BY <2>3, <2>4 DEF Orderly, RefusedBy, CountedWritten
  <1> HIDE DEF f
  <1> QED BY <1>1, <1>2, <1>3, <1>4, <1>5 DEF PeriodInv, W

LEMMA FailKeepsPeriods ==
  ASSUME StreamInv, AskedInv, TaskInv, PeriodInv, Counters, [ProjectorNext]_vars,
         UNCHANGED <<log, fold, savedFold, periods, gaps>>, Taken \/ Refused,
         task'.at = "off" => task.at = "off"
  PROVE  PeriodInv'
  <1>1. mishaps' = 0 => mishaps = 0
    BY DEF Taken, Refused, Counters
  <1>2. LogGrows /\ log \in Seq(LogRecords) /\ log' \in Seq(LogRecords)
    BY DEF LogGrows, StreamInv
  <1> QED BY <1>1, <1>2, PeriodsBeside

LEMMA GapKeepsPeriods ==
  ASSUME StreamInv, PeriodInv, WriteGap, fold' # fold
  PROVE  PeriodInv'
  <1> DEFINE W == Accountable(periods)
  <1>1. PICK gap : /\ Taken /\ gaps' = gaps \cup {gap} /\ fold' = [fold EXCEPT !.missed = @ \ {gap}]
                   /\ UNCHANGED <<savedFold, periods, task>>
    BY DEF WriteGap, PeriodsFail, foldVars
  <1>2. fold.missed # {} /\ log' = log /\ mishaps' = mishaps /\ task' = task /\ log \in Seq(LogRecords)
    BY <1>1 DEF WriteGap, busVars, Taken, StreamInv
  <1>3. W' = W
    BY <1>1 DEF Accountable, CountedWritten, RefusedBy
  <1>4. FoldInv(log, fold, W, gaps, 0) /\ FoldInv(log, savedFold, W, gaps, 0) /\ StoreOK(log, periods, W, gaps)
    BY DEF PeriodInv
  <1> HIDE DEF W
  <1>5. /\ FoldInv(log, fold', W, gaps', 0)
        /\ fold'.through = fold.through /\ fold'.closedThrough = fold.closedThrough
        /\ fold'.closed = fold.closed /\ \A x : InMemory(fold', x) <=> InMemory(fold, x)
    <2> DEFINE g == fold'
    <2>1. FoldInv(log, fold, W, gaps, 0) /\ fold.missed # {} /\ ToldOf(fold, g, gap)
      BY <1>1, <1>2, <1>4 DEF ToldOf
    <2> HIDE DEF g
    <2>2. /\ FoldInv(log, g, W, gaps \cup {gap}, 0)
          /\ g.through = fold.through /\ g.closedThrough = fold.closedThrough
          /\ g.closed = fold.closed /\ \A x : InMemory(g, x) <=> InMemory(fold, x)
      BY <2>1, GapKeeps
    <2> QED BY <1>1, <2>2 DEF g
  <1>6. Longer(log, log) /\ gaps \subseteq gaps'
    BY <1>1, <1>2 DEF Longer
  <1>7. FoldInv(log, savedFold, W, gaps', 0) /\ StoreOK(log, periods, W, gaps')
    BY <1>2, <1>4, <1>6, FoldGrows, StoreGrows
  <1>8. Orderly(fold, periods) => Orderly(fold', periods)
    BY <1>5 DEF Orderly, Narrow
  <1> QED BY <1>1, <1>2, <1>3, <1>5, <1>7, <1>8 DEF PeriodInv, W

LEMMA ClosedKeepsPeriods ==
  ASSUME StreamInv, PeriodInv, WriteClosed, periods' # periods \/ fold' # fold
  PROVE  PeriodInv'
  <1> DEFINE c == Head(fold.closed)
             W == Accountable(periods)
             V == Accountable(periods')
             g == [fold EXCEPT !.closed = Tail(@)]
             key == <<c.level, c.from>>
  <1>1. /\ Taken /\ periods' = WritePeriod(periods, c) /\ fold' = g
        /\ UNCHANGED <<savedFold, gaps, task>>
    BY DEF WriteClosed, PeriodsFail, foldVars
  <1>2. /\ task.at = "periods" /\ fold.missed = {} /\ fold.closed # <<>> /\ log' = log
        /\ mishaps' = mishaps /\ log \in Seq(LogRecords)
    BY <1>1 DEF WriteClosed, busVars, Taken, StreamInv
  <1>3. V = Accountable(periods)'
    BY DEF Accountable, CountedWritten, RefusedBy
  <1>4. FoldInv(log, fold, W, gaps, 0) /\ FoldInv(log, savedFold, W, gaps, 0) /\ StoreOK(log, periods, W, gaps)
    BY DEF PeriodInv
  <1> HIDE DEF W
  <1>5. /\ c = fold.closed[1] /\ 1 \in DOMAIN fold.closed
        /\ EntryOK(log, c.level, c.from, c) /\ c.through <= fold.through
        /\ c.from + c.level <= fold.closedThrough
    <2>1. \E X : fold.closed \in Seq(X)
      BY <1>4 DEF FoldInv, ClosedOK
    <2>2. c = fold.closed[1] /\ 1 \in DOMAIN fold.closed
      BY <1>2, <2>1
    <2> HIDE DEF c
    <2> QED BY <1>4, <2>2 DEF FoldInv, ClosedOK
  <1>6. Puts(periods, periods', c)
    <2>1. key \in PeriodKeys
      BY <1>5 DEF EntryOK
    <2> HIDE DEF c
    <2> QED BY <1>1, <1>4, <2>1, WritePuts
  <1> HIDE DEF c
  <1>7. /\ CountedWritten(periods) \subseteq CountedWritten(periods')
        /\ RefusedBy(periods) \subseteq RefusedBy(periods')
        /\ c.level = Width => c.record.counted \subseteq V
        /\ \A x \in CountedWritten(periods') :
             x \in CountedWritten(periods)
               \/ (c.level = Width /\ ~periods[key].present /\ x \in c.record.counted)
        /\ (c.level = Width => ~periods[key].present) => RefusedBy(periods') = RefusedBy(periods)
    BY <1>4, <1>6, PutsAccounts
  <1>8. W \subseteq V
    BY <1>7 DEF W, Accountable
  <1>9. StoreOK(log, periods', V, gaps)
    BY <1>2, <1>4, <1>6, StoreTakes DEF W, c
  <1> HIDE DEF V
  <1>10. /\ FoldInv(log, g, V, gaps, 0)
         /\ g.through = fold.through /\ g.closedThrough = fold.closedThrough
         /\ Len(fold.closed) \in Nat \ {0} /\ Len(g.closed) = Len(fold.closed) - 1
         /\ \A i \in 1..Len(g.closed) : g.closed[i] = fold.closed[i + 1]
         /\ \A x : InMemory(g, x) => InMemory(fold, x)
         /\ \A x : InMemory(g, x) => ~(c.level = Width /\ x \in c.record.counted)
         /\ \A x : c.level = Width /\ x \in c.record.counted => InMemory(fold, x)
    <2> HIDE DEF g
    <2>1. GaveAway(fold, g, c)
      BY DEF c, g, GaveAway
    <2>2. /\ log \in Seq(LogRecords) /\ FoldInv(log, fold, W, gaps, 0) /\ fold.closed # <<>>
          /\ W \subseteq V /\ (c.level = Width => c.record.counted \subseteq V)
      BY <1>2, <1>4, <1>7, <1>8
    <2>3. FoldInv(log, g, V, gaps, 0)
      BY <2>1, <2>2, HeadLeaves
    <2>4. HeadLeft(fold, g, c)
      BY <2>1, <2>2, HeadLeaves
    <2> QED BY <2>3, <2>4 DEF HeadLeft
  <1> HIDE DEF g
  <1>11. Longer(log, log)
    BY <1>2 DEF Longer
  <1>12. FoldInv(log, savedFold, V, gaps, 0)
    BY <1>2, <1>4, <1>8, <1>11, FoldGrows
  <1>13. ASSUME mishaps = 0 PROVE Orderly(g, periods')
    <2>1. Orderly(fold, periods)
      BY <1>13 DEF PeriodInv
    <2>2. DOMAIN fold.closed = 1..Len(fold.closed) /\ DOMAIN g.closed = 1..Len(g.closed)
      BY <1>4, <1>10 DEF FoldInv, ClosedOK
    <2>3. c.level = Width => /\ 1 \in Narrow(fold) /\ c.from \in Starts(Width)
                             /\ key = <<Width, c.from>> /\ ~periods[key].present
      <3>1. c.level = Width => 1 \in Narrow(fold)
        BY <1>5 DEF Narrow
      <3>2. c.level = Width => c.from \in Starts(Width)
        BY <1>6, KeyFacts DEF Puts
      <3> QED BY <1>5, <2>1, <3>1, <3>2 DEF Orderly
    <2>4. \A s \in Starts(Width) : periods'[<<Width, s>>].present =>
            s + Width <= g.closedThrough /\ periods'[<<Width, s>>].through <= g.through
      <3> SUFFICES ASSUME NEW s \in Starts(Width), periods'[<<Width, s>>].present
                   PROVE  s + Width <= g.closedThrough /\ periods'[<<Width, s>>].through <= g.through
        OBVIOUS
      <3>1. CASE <<Width, s>> = key
        <4>1. c.level = Width /\ c.from = s
          BY <3>1
        <4>2. periods'[key].through = c.through
          BY <1>6, <2>3, <4>1 DEF Puts
        <4> QED BY <1>5, <1>10, <3>1, <4>1, <4>2
      <3>2. CASE <<Width, s>> # key
        <4>1. periods'[<<Width, s>>] = periods[<<Width, s>>]
          BY <1>6, <3>2, KeyFacts DEF Puts
        <4> QED BY <1>10, <2>1, <4>1 DEF Orderly
      <3> QED BY <3>1, <3>2
    <2>5. ASSUME NEW i \in Narrow(g) PROVE ~periods'[<<Width, g.closed[i].from>>].present
      <3>1. i \in 1..Len(g.closed) /\ g.closed[i].level = Width /\ i \in Nat
        BY <1>10, <2>2 DEF Narrow
      <3>2. g.closed[i] = fold.closed[i + 1] /\ i + 1 \in 1..Len(fold.closed)
        BY <1>10, <3>1
      <3>3. i + 1 \in Narrow(fold) /\ 1 < i + 1
        BY <2>2, <3>1, <3>2 DEF Narrow
      <3>4. ~periods[<<Width, g.closed[i].from>>].present
        BY <2>1, <3>2, <3>3 DEF Orderly
      <3>5. g.closed[i].from \in Starts(Width)
        <4>1. EntryOK(log, Width, fold.closed[i + 1].from, fold.closed[i + 1])
          BY <1>4, <2>2, <3>1, <3>2 DEF FoldInv, ClosedOK
        <4>2. <<Width, fold.closed[i + 1].from>> \in PeriodKeys
          BY <4>1 DEF EntryOK
        <4> QED BY <3>2, <4>2, KeyFacts
      <3>6. <<Width, g.closed[i].from>> # key
        <4> SUFFICES ASSUME <<Width, g.closed[i].from>> = key PROVE FALSE
          OBVIOUS
        <4>1. c.level = Width /\ c.from = g.closed[i].from
          OBVIOUS
        <4>2. fold.closed[1].from < fold.closed[i + 1].from
          BY <1>4, <2>3, <3>3, <4>1 DEF FoldInv, ClosedOK
        <4>3. g.closed[i].from \in Nat
          BY <3>5, PeriodFacts DEF Aligned
        <4> QED BY <1>5, <3>2, <4>1, <4>2, <4>3
      <3>7. periods'[<<Width, g.closed[i].from>>] = periods[<<Width, g.closed[i].from>>]
        BY <1>6, <3>5, <3>6, KeyFacts DEF Puts
      <3> QED BY <3>4, <3>7
    <2>6. RefusedBy(periods') = {}
      BY <1>7, <2>1, <2>3 DEF Orderly
    <2>7. \A x \in CountedWritten(periods') : ~InMemory(g, x)
      BY <1>7, <1>10, <2>1 DEF Orderly
    <2>8. ASSUME NEW s \in Starts(Width), NEW t \in Starts(Width), s # t, <<Width, s>> = key
          PROVE  periods'[<<Width, s>>].record.counted \cap periods'[<<Width, t>>].record.counted = {}
      <3>1. c.level = Width /\ c.from = s
        BY <2>8
      <3>2. periods'[<<Width, s>>].record = c.record
        BY <1>6, <2>3, <2>8, <3>1 DEF Puts
      <3>3. <<Width, t>> # key /\ <<Width, t>> \in PeriodKeys
        BY <2>8, KeyFacts
      <3>4. periods'[<<Width, t>>] = periods[<<Width, t>>]
        BY <1>6, <3>3 DEF Puts
      <3>5. \A x \in c.record.counted : x \notin periods[<<Width, t>>].record.counted
        BY <1>10, <2>1, <3>1 DEF Orderly, CountedWritten
      <3> QED BY <3>2, <3>4, <3>5
    <2>9. \A s, t \in Starts(Width) : s # t =>
            periods'[<<Width, s>>].record.counted \cap periods'[<<Width, t>>].record.counted = {}
      <3> SUFFICES ASSUME NEW s \in Starts(Width), NEW t \in Starts(Width), s # t
                   PROVE  periods'[<<Width, s>>].record.counted \cap periods'[<<Width, t>>].record.counted = {}
        OBVIOUS
      <3>1. CASE <<Width, s>> = key
        BY <2>8, <3>1
      <3>2. CASE <<Width, t>> = key
        <4>1. periods'[<<Width, t>>].record.counted \cap periods'[<<Width, s>>].record.counted = {}
          BY <2>8, <3>2
        <4> QED BY <4>1
      <3>3. CASE <<Width, s>> # key /\ <<Width, t>> # key
        <4>1. periods'[<<Width, s>>] = periods[<<Width, s>>] /\ periods'[<<Width, t>>] = periods[<<Width, t>>]
          BY <1>6, <3>3, KeyFacts DEF Puts
        <4> QED BY <2>1, <4>1 DEF Orderly
      <3> QED BY <3>1, <3>2, <3>3
    <2> QED BY <2>4, <2>5, <2>6, <2>7, <2>9 DEF Orderly
  <1>14. task'.at # "off"
    BY <1>1, <1>2
  <1>15. PeriodInv' = /\ FoldInv(log, g, V, gaps, 0)
                      /\ FoldInv(log, savedFold, V, gaps, 0)
                      /\ savedFold.closed = <<>> /\ savedFold.missed = {}
                      /\ StoreOK(log, periods', V, gaps)
                      /\ mishaps' = 0 /\ task'.at = "off" => periods' = NoPeriods /\ savedFold = NewFold
                      /\ mishaps' = 0 => Orderly(g, periods')
    BY <1>1, <1>2, <1>3 DEF PeriodInv
  <1> QED BY <1>2, <1>9, <1>10, <1>12, <1>13, <1>14, <1>15 DEF PeriodInv
LEMMA SaveFoldKeepsPeriods ==
  ASSUME StreamInv, TaskInv, PeriodInv, Counters, SaveFold
  PROVE  PeriodInv'
  <1> DEFINE W == Accountable(periods)
  <1>1. /\ fold.missed = {} /\ fold.closed = <<>> /\ savedFold' \in {fold, savedFold}
        /\ UNCHANGED <<log, fold, periods, gaps>> /\ Goes(FromAsked(task.mode))
        /\ (mishaps' = mishaps \/ mishaps' = mishaps + 1)
    BY DEF SaveFold, busVars, Taken, Refused
  <1>2. W' = W
    BY <1>1 DEF Accountable, CountedWritten, RefusedBy
  <1>3. task'.at # "off"
    <2>1. task \in TaskRecords(Positions) /\ task.mode \in {"flush", "end", "exit", "leave"}
      BY DEF TaskInv, TaskRecords
    <2>2. FromAsked(task.mode) \in {"asked", "commit", "left"}
      BY DEF FromAsked, Done
    <2>3. "at" \in DOMAIN task
      BY <2>1 DEF TaskRecords
    <2>4. task'.at = FromAsked(task.mode)
      BY <1>1, <2>3 DEF Goes
    <2> QED BY <2>2, <2>4
  <1> HIDE DEF W
  <1>4. /\ FoldInv(log, fold, W, gaps, 0) /\ FoldInv(log, savedFold, W, gaps, 0)
        /\ StoreOK(log, periods, W, gaps) /\ savedFold.closed = <<>> /\ savedFold.missed = {}
    BY DEF PeriodInv, W
  <1>5. /\ FoldInv(log, savedFold', W, gaps, 0)
        /\ savedFold'.closed = <<>> /\ savedFold'.missed = {}
    <2>1. CASE savedFold' = fold
      BY <1>1, <1>4, <2>1
    <2>2. CASE savedFold' = savedFold
      BY <1>4, <2>2
    <2> QED BY <1>1, <2>1, <2>2
  <1>6. mishaps' = 0 => mishaps = 0
    BY <1>1 DEF Counters
  <1>7. mishaps' = 0 => Orderly(fold', periods')
    <2>1. mishaps = 0 => Orderly(fold, periods)
      BY DEF PeriodInv
    <2> QED BY <1>1, <1>6, <2>1
  <1>8. /\ FoldInv(log', fold', W', gaps', 0) /\ FoldInv(log', savedFold', W', gaps', 0)
        /\ StoreOK(log', periods', W', gaps')
    BY <1>1, <1>2, <1>4, <1>5
  <1> QED BY <1>3, <1>5, <1>7, <1>8 DEF PeriodInv, W

LEMMA ForgottenKeepsPeriods ==
  ASSUME StreamInv, StreamInv', LogGrows, Counters, PeriodInv, Crash \/ Exit
  PROVE  PeriodInv'
  <1> DEFINE W == Accountable(periods)
  <1>1. /\ fold' = NewFold /\ UNCHANGED <<savedFold, periods, gaps>> /\ mishaps' = mishaps + 1
    BY DEF Crash, CrashLog, Exit, Forgotten
  <1>2. mishaps' # 0
    BY <1>1 DEF Counters
  <1>3. W' = W
    BY <1>1 DEF Accountable, CountedWritten, RefusedBy
  <1>4. log \in Seq(LogRecords) /\ log' \in Seq(LogRecords) /\ Longer(log, log')
    BY DEF StreamInv, Longer, LogGrows
  <1> HIDE DEF W
  <1>5. /\ FoldInv(log, savedFold, W, gaps, 0) /\ StoreOK(log, periods, W, gaps)
        /\ savedFold.closed = <<>> /\ savedFold.missed = {}
    BY DEF PeriodInv, W
  <1>6. /\ FoldInv(log', savedFold, W, gaps, 0) /\ StoreOK(log', periods, W, gaps)
    BY <1>4, <1>5, FoldGrows, StoreGrows
  <1>7. FoldInv(log', NewFold, W, gaps, 0)
    BY <1>4, NewFoldHolds
  <1> QED BY <1>1, <1>2, <1>3, <1>5, <1>6, <1>7 DEF PeriodInv, W

LEMMA PeriodsStep ==
  ASSUME StreamInv, BusInv, AskedInv, PagesInv, TaskInv, PeriodInv, Counters,
         StreamInv', [ProjectorNext]_vars
  PROVE  PeriodInv'
  <1>1. /\ LogGrows /\ Counters' /\ log \in Seq(LogRecords) /\ log' \in Seq(LogRecords)
    BY EveryStepGrows, CountersStep DEF StreamInv
  <1>2. ASSUME ~Crash, ~Exit, UNCHANGED <<fold, savedFold, periods, gaps>>, mishaps' = 0 => mishaps = 0
        PROVE  PeriodInv'
    BY <1>1, <1>2, OnlyACrashTurnsOff, PeriodsBeside
  <1>3. CASE Crash \/ Exit
    BY <1>1, <1>3, ForgottenKeepsPeriods
  <1>4. CASE StartProjector
    BY <1>4, StartKeepsPeriods
  <1>5. CASE Handle
    BY <1>5, HandleKeepsPeriods
  <1>6. CASE SaveFold
    BY <1>6, SaveFoldKeepsPeriods
  <1>7. CASE WriteGap /\ fold' # fold
    BY <1>7, GapKeepsPeriods
  <1>8. CASE WriteClosed /\ (periods' # periods \/ fold' # fold)
    BY <1>8, ClosedKeepsPeriods
  <1>9. ASSUME Taken \/ Refused PROVE mishaps' = 0 => mishaps = 0
    BY <1>9 DEF Taken, Refused, Counters
  <1>10. CASE WriteGap /\ fold' = fold
    <2>1. UNCHANGED <<fold, savedFold, periods, gaps>> /\ (Taken \/ Refused)
      <3>1. \A gap : fold' = [fold EXCEPT !.missed = @ \ {gap}] /\ gap \in fold.missed => fold' # fold
        <4>1. DOMAIN fold = FoldFields
          BY DEF PeriodInv, FoldInv, PlaceOK
        <4> QED BY <4>1 DEF FoldFields
      <3> QED BY <1>10, <3>1 DEF WriteGap, PeriodsFail, foldVars
    <2> QED BY <1>2, <1>3, <1>9, <2>1
  <1>11. CASE WriteClosed /\ periods' = periods /\ fold' = fold
    <2>1. UNCHANGED <<fold, savedFold, periods, gaps>> /\ (Taken \/ Refused)
      BY <1>11 DEF WriteClosed, PeriodsFail, foldVars
    <2> QED BY <1>2, <1>3, <1>9, <2>1
  <1>12. CASE LogStep
    <2>1. UNCHANGED <<fold, savedFold, periods, gaps>>
      BY <1>12 DEF LogStep, Unlogged, foldVars
    <2>2. mishaps' = 0 => mishaps = 0
      BY <1>1, <1>12 DEF LogStep, AppendBatch, AppendFails, Broadcast, SkipDelivered, Trim, OpenLog, Counters
    <2> QED BY <1>2, <1>3, <2>1, <2>2
  <1>13. CASE CaughtUp \/ SweepTimer \/ FlushTimer \/ SourceEnds \/ Shutdown
    <2>1. UNCHANGED <<fold, savedFold, periods, gaps>> /\ mishaps' = mishaps
      BY <1>13 DEF CaughtUp, SweepTimer, FlushTimer, SourceEnds, Shutdown, foldVars, logVars
    <2> QED BY <1>2, <1>3, <2>1
  <1>14. CASE WriteSpans \/ FlushAsked \/ Commit
    <2>1. UNCHANGED <<fold, savedFold, periods, gaps>> /\ (Taken \/ Refused)
      BY <1>14 DEF WriteSpans, FlushAsked, Commit, foldVars
    <2> QED BY <1>2, <1>3, <1>9, <2>1
  <1>15. CASE JournalStep
    <2>1. UNCHANGED <<fold, savedFold, periods, gaps>> /\ (Taken \/ Refused)
      BY <1>15 DEF JournalStep, StartJournal, JournalReads, JournalCaughtUp, JournalTick, KeepPage,
                   foldVars, logVars, Taken
    <2> QED BY <1>2, <1>3, <1>9, <2>1
  <1>16. CASE UNCHANGED vars
    <2>1. UNCHANGED <<fold, savedFold, periods, gaps>> /\ mishaps' = mishaps
      BY <1>16 DEF vars, foldVars, logVars
    <2> QED BY <1>2, <1>3, <2>1
  <1> QED BY <1>3, <1>4, <1>5, <1>6, <1>7, <1>8, <1>10, <1>11, <1>12, <1>13, <1>14, <1>15, <1>16
          DEF ProjectorNext, ReadStep, FlushStep

LEMMA PeriodInit ==
  ASSUME NEW held \in Seq(Msgs), ProjectorInit(held), StreamInv
  PROVE  PeriodInv
  <1>1. /\ fold = NewFold /\ savedFold = NewFold /\ periods = NoPeriods /\ gaps = {}
        /\ log \in Seq(LogRecords)
    BY DEF ProjectorInit, StreamInv
  <1>2. \A k \in PeriodKeys : periods[k] = NoPeriod
    BY <1>1 DEF NoPeriods
  <1>3. \A s \in Starts(Width) : /\ ~periods[<<Width, s>>].present
                                 /\ periods[<<Width, s>>].record.counted = {}
                                 /\ periods[<<Width, s>>].refused = {}
    <2>1. \A s \in Starts(Width) : periods[<<Width, s>>] = NoPeriod
      BY <1>2, KeyFacts
    <2> QED BY <2>1 DEF NoPeriod, Empty
  <1>4. StoreOK(log, periods, Accountable(periods), gaps)
    <2>1. DOMAIN periods = PeriodKeys /\ DOMAIN NoPeriod = PeriodFields /\ ~NoPeriod.present
      BY <1>1 DEF NoPeriods, NoPeriod, PeriodFields
    <2> QED BY <1>2, <2>1 DEF StoreOK
  <1>5. FoldInv(log, NewFold, Accountable(periods), gaps, 0)
    BY <1>1, NewFoldHolds
  <1>6. NewFold.closed = <<>> /\ NewFold.missed = {}
    BY NewFoldIs
  <1>7. Orderly(NewFold, periods)
    <2>1. Narrow(NewFold) = {}
      BY <1>6 DEF Narrow
    <2> QED BY <1>3, <2>1 DEF Orderly, RefusedBy, CountedWritten
  <1> QED BY <1>1, <1>4, <1>5, <1>6, <1>7 DEF PeriodInv

-----------------------------------------------------------------------------
(* The invariant of the server, and what it says.                          *)

ProjectorInv ==
  /\ StreamInv /\ BusInv /\ AskedInv /\ PagesInv
  /\ LogSized /\ Subscribers /\ Counters /\ TaskInv /\ PeriodInv

LEMMA TaskInit ==
  ASSUME NEW held \in Seq(Msgs), ProjectorInit(held)
  PROVE  TaskInv
  <1>1. /\ task = NewTask /\ traces = {} /\ parked = {} /\ askedPages = {} /\ asked = NewIndex
    BY DEF ProjectorInit
  <1>2. task \in TaskRecords(Positions) /\ task.at = "off"
    <2>1. <<>> \in Seq(Msgs)
      OBVIOUS
    <2> QED BY <1>1, <2>1 DEF NewTask, TaskRecords
  <1>3. asked.pending = {}
    BY <1>1 DEF NewIndex
  <1> QED BY <1>1, <1>2, <1>3 DEF TaskInv

\* Every state of every server satisfies the invariant.
LEMMA ProjectorInvHolds == ProjectorSpec => []ProjectorInv
  <1>1. ASSUME wiring \in WiringSpace, NEW held \in Seq(Msgs), Len(held) <= MaxRecords,
               ProjectorInit(held)
        PROVE  ProjectorInv
    <2>1. LogInit(held)
      BY <1>1 DEF ProjectorInit
    <2>2. StreamInv /\ BusInv
      BY <2>1, InitNumbers, BusInit
    <2>3. AskedInv /\ PagesInv /\ TaskInv /\ PeriodInv
      BY <1>1, <2>2, AskedInit, PagesInit, TaskInit, PeriodInit
    <2>4. LogSized /\ Subscribers /\ Counters
      BY <1>1, <2>2, LogSizedInit
    <2> QED BY <2>2, <2>3, <2>4 DEF ProjectorInv
  <1>2. wiring \in WiringSpace
        /\ (\E held \in Seq(Msgs) : Len(held) <= MaxRecords /\ ProjectorInit(held)) => ProjectorInv
    BY <1>1
  <1>3. ASSUME ProjectorInv, [ProjectorNext]_vars
        PROVE  ProjectorInv'
    <2>1. StreamInv /\ BusInv /\ AskedInv /\ PagesInv
      BY <1>3 DEF ProjectorInv
    <2>2. LogSized /\ Subscribers /\ Counters /\ TaskInv /\ PeriodInv
      BY <1>3 DEF ProjectorInv
    <2>3. StreamInv' /\ LogGrows
      BY <1>3, <2>1, StreamStep, EveryStepGrows
    <2>4. BusInv' /\ AskedInv'
      BY <1>3, <2>1, <2>3, BusStep, AskedStep
    <2>5. PagesInv'
      BY <1>3, <2>1, <2>3, PagesStep
    <2>6. LogSized' /\ Counters' /\ TaskInv'
      BY <1>3, <2>1, <2>2, <2>3, LogSizedStep, CountersStep, TaskStep
    <2>7. Subscribers'
      BY <1>3, <2>2, <2>4, <2>5, SubscribersStep
    <2>8. PeriodInv'
      BY <1>3, <2>1, <2>2, <2>3, PeriodsStep
    <2> QED BY <2>3, <2>4, <2>5, <2>6, <2>7, <2>8 DEF ProjectorInv
  <1> QED BY <1>2, <1>3, PTL DEF ProjectorSpec

LEMMA NumberedFromOne ==
  ASSUME StreamInv
  PROVE  log \in Seq([msg : Msgs, at : Nat \ {0}])
  <1>1. /\ log \in Seq(LogRecords) /\ Len(log) \in Nat
        /\ \A p \in 1..Len(log) : log[p].at > 0
    BY DEF StreamInv, Rising
  <1>2. ASSUME NEW p \in 1..Len(log) PROVE log[p] \in [msg : Msgs, at : Nat \ {0}]
    <2>1. log[p] \in LogRecords /\ log[p].at > 0
      BY <1>1
    <2>2. \A x \in LogRecords : x.at > 0 => x \in [msg : Msgs, at : Nat \ {0}]
      BY DEF LogRecords
    <2> QED BY <2>1, <2>2
  <1>3. log = [p \in 1..Len(log) |-> log[p]]
    BY <1>1
  <1> DEFINE T == [msg : Msgs, at : Nat \ {0}]
  <1> HIDE DEF T
  <1>4. log \in Seq(T)
    <2>1. \A p \in 1..Len(log) : log[p] \in T
      BY <1>2 DEF T
    <2> QED BY <1>1, <1>3, <2>1, SequenceOf
  <1> QED BY <1>4 DEF T

LEMMA TypesFollow == ProjectorInv => ProjectorTypeOK
  <1> SUFFICES ASSUME ProjectorInv PROVE ProjectorTypeOK
    OBVIOUS
  <1>1. /\ StreamInv /\ BusInv /\ AskedInv /\ PagesInv /\ LogSized /\ Subscribers /\ Counters
        /\ TaskInv /\ PeriodInv
    BY DEF ProjectorInv
  <1>2. LogTypeOK
    <2>1. log \in Seq([msg : Msgs, at : Nat \ {0}])
      BY <1>1, NumberedFromOne
    <2>2. outgoing \in [Appenders -> Seq(Positions)] /\ live \in Seq(Positions)
      BY <1>1 DEF BusInv
    <2>3. wiring \in WiringSpace
      BY <1>1 DEF AskedInv, SourceSide
    <2> QED BY <1>1, <2>1, <2>2, <2>3 DEF LogTypeOK, LogSized, Subscribers, SubRecords, Counters
  <1>3. /\ task.at \in {"off", "loop", "spans", "periods", "asked", "commit", "left", "stopped"}
        /\ task.mode \in {"flush", "end", "exit", "leave"} /\ task.held \in BOOLEAN
        /\ task.open \cup task.spans \cup traces \cup parked \cup askedPages \subseteq Positions
    BY <1>1 DEF TaskInv, TaskRecords
  <1>4. fold.through \in 0..Len(log) /\ savedFold.through \in 0..Len(log)
    BY <1>1 DEF PeriodInv, FoldInv, PlaceOK
  <1>5. asked.applied \in 0..Len(log) /\ reach.through \in 0..Len(log)
    <2>1. Len(log) \in Nat
      BY <1>1 DEF StreamInv
    <2>2. /\ asked \in IndexRecords /\ asked.applied <= Len(log)
          /\ reach \in ReachRecords /\ LoadedIndex(reach).applied <= Len(log)
      BY <1>1 DEF AskedInv, IndexSide, IndexOK
    <2>3. LoadedIndex(reach).applied = reach.through
      BY DEF LoadedIndex
    <2> QED BY <2>1, <2>2, <2>3 DEF IndexRecords, ReachRecords
  <1>6. journal.at \in {"loop", "keep"}
    BY <1>1 DEF PagesInv, JournalOf
  <1>7. ticks \in 0..MaxTicks
    BY <1>1 DEF Counters
  <1> QED BY <1>2, <1>3, <1>4, <1>5, <1>6, <1>7 DEF ProjectorTypeOK

\* The positions the properties speak of are those of the proofs.
LEMMA RunEndsAre ==
  ASSUME StreamInv
  PROVE  /\ \A p : p \in RunEnds <=> p \in 1..Len(log) /\ RunEnd(log, p)
         /\ \A f, p : InMemory(f, p) <=> p \in CountedIn(f)
         /\ Len(log) \in Nat
  <1>1. Len(log) \in Nat
    BY DEF StreamInv
  <1>2. \A p : p \in RunEnds <=> p \in 1..Len(log) /\ RunEnd(log, p)
    BY DEF RunEnds, Positions, RunEnd
  <1>3. \A f, p : InMemory(f, p) => p \in CountedIn(f)
    <2> SUFFICES ASSUME NEW f, NEW p, InMemory(f, p) PROVE p \in CountedIn(f)
      OBVIOUS
    <2>1. CASE \E s \in Starts(Width) : p \in f.open[s].counted
      BY <2>1 DEF CountedIn
    <2>2. CASE \E i \in Narrow(f) : p \in f.closed[i].record.counted
      <3>1. \E c \in {f.closed[i].record.counted : i \in {j \in DOMAIN f.closed : f.closed[j].level = Width}} :
              p \in c
        BY <2>2 DEF Narrow
      <3> QED BY <3>1 DEF CountedIn
    <2> QED BY <2>1, <2>2 DEF InMemory
  <1>4. \A f, p : p \in CountedIn(f) => InMemory(f, p)
    <2> SUFFICES ASSUME NEW f, NEW p, p \in CountedIn(f) PROVE InMemory(f, p)
      OBVIOUS
    <2>1. CASE p \in UNION {f.open[s].counted : s \in Starts(Width)}
      BY <2>1 DEF InMemory
    <2>2. CASE p \in UNION {f.closed[i].record.counted : i \in {j \in DOMAIN f.closed : f.closed[j].level = Width}}
      BY <2>2 DEF InMemory, Narrow
    <2> QED BY <2>1, <2>2 DEF CountedIn
  <1> QED BY <1>1, <1>2, <1>3, <1>4

LEMMA AccountedFollows ==
  ASSUME StreamInv, NEW f, FoldInv(log, f, Accountable(periods), gaps, 0)
  PROVE  Accounted(f, periods, gaps)
  <1> SUFFICES ASSUME NEW p \in RunEnds, f.first <= p, p <= f.through
               PROVE  \/ p \in CountedIn(f) \cup CountedWritten(periods) \cup RefusedBy(periods)
                      \/ ToldMissed(f, gaps, p)
    BY DEF Accounted
  <1>1. p \in 1..Len(log) /\ RunEnd(log, p) /\ p # 0 /\ f.through \in 0..Len(log) /\ Len(log) \in Nat
    BY RunEndsAre DEF FoldInv, PlaceOK
  <1>2. p \in 1..f.through
    BY <1>1
  <1>3. InMemory(f, p) \/ p \in Accountable(periods) \/ ToldMissed(f, gaps, p)
    BY <1>1, <1>2 DEF FoldInv, Passed
  <1> QED BY <1>3, RunEndsAre DEF Accountable

\* The server's variables have their types, and the positions the fold, the saved state
\* and the asked index stand at are positions the log has.
THEOREM ProjectorTypesHold == ProjectorSpec => []ProjectorTypeOK
  BY ProjectorInvHolds, TypesFollow, PTL

\* pipeline.rs apply and period_fold.rs PeriodFold::apply, refill, close: of the run ends
\* the period fold has passed since it began, each is counted in memory or in a written
\* period, or lies in a gap that is told of, whatever was broadcast out of order,
\* trimmed, deduplicated, refilled from the journal or lost in a crash; only one that a
\* recovered fold closed into a period an earlier process had written already is in
\* neither, and before the first failure there is none.
THEOREM RunEndsAreAccounted == ProjectorSpec => []NothingSilentlyMissed
  <1>1. ProjectorInv => NothingSilentlyMissed
    <2> SUFFICES ASSUME ProjectorInv PROVE NothingSilentlyMissed
      OBVIOUS
    <2>1. StreamInv /\ PeriodInv
      BY DEF ProjectorInv
    <2>2. Accounted(fold, periods, gaps)
      BY <2>1, AccountedFollows DEF PeriodInv
    <2>3. mishaps = 0 => RefusedBy(periods) = {}
      BY <2>1 DEF PeriodInv, Orderly
    <2> QED BY <2>2, <2>3 DEF NothingSilentlyMissed
  <1> QED BY <1>1, ProjectorInvHolds, PTL

\* pipeline.rs PeriodOutput::flush and load: what is durable accounts for every run end
\* too, the saved state for what it had folded and each written period for what had ended
\* before it did, because a state is saved after the gaps and the periods it closed.
THEOREM SavedStateAccounts == ProjectorSpec => []SavedFoldAccounts
  <1>1. ProjectorInv => SavedFoldAccounts
    <2> SUFFICES ASSUME ProjectorInv PROVE SavedFoldAccounts
      OBVIOUS
    <2>1. StreamInv /\ PeriodInv
      BY DEF ProjectorInv
    <2>2. Accounted(savedFold, periods, gaps)
      BY <2>1, AccountedFollows DEF PeriodInv
    <2>3. ASSUME NEW k \in PeriodKeys, periods[k].present, NEW p \in RunEnds,
                 periods[k].first <= p, p <= periods[k].through, Msg[log[p].msg].at < k[1] + k[2]
          PROVE  \/ p \in CountedWritten(periods) \cup RefusedBy(periods)
                 \/ ToldMissed(NewFold, gaps, p)
      <3>1. StoreOK(log, periods, Accountable(periods), gaps) /\ Len(log) \in Nat
        BY <2>1, RunEndsAre DEF PeriodInv
      <3>2. EntryOK(log, k[1], k[2], periods[k])
        BY <2>3, <3>1 DEF StoreOK
      <3>3. p \in 1..Len(log) /\ RunEnd(log, p) /\ periods[k].through \in 1..Len(log)
        BY <2>1, <3>2, RunEndsAre DEF EntryOK
      <3>4. p \in 1..periods[k].through /\ At(log, p) < k[1] + k[2]
        BY <2>3, <3>1, <3>3 DEF At
      <3> QED BY <2>3, <3>1, <3>3, <3>4 DEF StoreOK, Accountable
    <2> QED BY <2>2, <2>3 DEF SavedFoldAccounts
  <1> QED BY <1>1, ProjectorInvHolds, PTL

\* period_fold.rs PeriodFold::close and missed_before: a period that was written as
\* complete counts every run end of it that the log holds in the order of time, of those
\* that the fold that wrote it had read or missed.
THEOREM CompletePeriodsAreComplete == ProjectorSpec => []CompleteMeansComplete
  <1>1. ProjectorInv => CompleteMeansComplete
    <2> SUFFICES ASSUME ProjectorInv, NEW s \in Starts(Width),
                        periods[<<Width, s>>].present, periods[<<Width, s>>].record.complete,
                        NEW p \in RunEnds,
                        periods[<<Width, s>>].first <= p, p <= periods[<<Width, s>>].through,
                        Floor(Msg[log[p].msg].at, Width) = s,
                        ~Late(p), ~Overtaken(p, periods[<<Width, s>>].through)
                 PROVE  p \in periods[<<Width, s>>].record.counted
      BY DEF CompleteMeansComplete
    <2> DEFINE w == periods[<<Width, s>>]
    <2>1. StreamInv /\ PeriodInv
      BY DEF ProjectorInv
    <2>2. EntryOK(log, Width, s, w)
      <3>1. <<Width, s>> \in PeriodKeys /\ <<Width, s>>[1] = Width /\ <<Width, s>>[2] = s
        BY KeyFacts
      <3> QED BY <2>1, <3>1 DEF PeriodInv, StoreOK
    <2>3. p \in 1..Len(log) /\ RunEnd(log, p) /\ w.through \in 1..Len(log) /\ Len(log) \in Nat
      BY <2>1, <2>2, RunEndsAre DEF EntryOK
    <2> HIDE DEF w
    <2>4. p \in 1..w.through
      BY <2>3 DEF w
    <2>5. \A q \in 1..Len(log) : At(log, q) \in Nat
      BY <2>1, MomentFacts DEF StreamInv
    <2>6. InTime(log, p)
      <3>1. \A q \in 1..(p - 1) : q \in 1..Len(log) /\ ~(At(log, q) > At(log, p))
        BY <2>3 DEF Late, At
      <3> QED BY <2>3, <2>5, <3>1 DEF InTime
    <2>7. Undisturbed(log, p, w.through)
      <3>1. \A q \in (p + 1)..w.through : q \in 1..Len(log) /\ ~(At(log, q) < At(log, p))
        BY <2>3 DEF Overtaken, At, w
      <3> QED BY <2>3, <2>5, <2>6, <3>1 DEF Undisturbed
    <2>8. WholeOK(log, s, w) /\ w.record.complete /\ w.first <= p /\ PeriodOf(log, p) = s
      BY <2>2 DEF EntryOK, PeriodOf, At, w
    <2> QED BY <2>3, <2>4, <2>7, <2>8 DEF WholeOK, w
  <1> QED BY <1>1, ProjectorInvHolds, PTL

-----------------------------------------------------------------------------
(* The dedup window.  Between two copies of one message that were both      *)
(* counted lie as many other messages as the window holds.                 *)

\* The messages of the positions after p, up to n.
Between(l, p, n) == {l[x].msg : x \in (p + 1)..n}

Distinct(seen) ==
  /\ Len(seen) <= DedupCapacity
  /\ \A i, j \in DOMAIN seen : i # j => seen[i] # seen[j]

\* The window still holds the message of p, with nothing behind it but what came
\* after p; or as much came after p as it can hold.
Remembered(l, seen, p, n) ==
  \/ Cardinality(Between(l, p, n)) >= DedupCapacity
  \/ \E k \in DOMAIN seen : /\ seen[k] = l[p].msg
                            /\ \A j \in DOMAIN seen : j > k => seen[j] \in Between(l, p, n)

LEMMA BetweenGrows ==
  ASSUME NEW l, NEW p \in Nat, NEW n \in Nat, NEW m \in Nat, n <= m
  PROVE  /\ IsFiniteSet(Between(l, p, m)) /\ Between(l, p, n) \subseteq Between(l, p, m)
         /\ Cardinality(Between(l, p, n)) \in Nat /\ Cardinality(Between(l, p, m)) \in Nat
         /\ Cardinality(Between(l, p, n)) <= Cardinality(Between(l, p, m))
  <1> DEFINE S == (p + 1)..m
             T == Between(l, p, m)
             f == [x \in S |-> l[x].msg]
  <1>1. IsFiniteSet(S)
    BY FS_Interval
  <1>2. f \in Surjection(S, T)
    BY DEF Surjection, Between
  <1> HIDE DEF f, S
  <1>3. IsFiniteSet(T)
    BY <1>1, <1>2, FS_Surjection
  <1>4. Between(l, p, n) \subseteq T
    BY DEF Between
  <1> HIDE DEF T
  <1>5. Between(l, p, n) \in SUBSET T
    BY <1>4
  <1>6. IsFiniteSet(Between(l, p, n)) /\ Cardinality(Between(l, p, n)) <= Cardinality(T)
    BY <1>3, <1>5, FS_Subset
  <1>7. Cardinality(T) \in Nat /\ Cardinality(Between(l, p, n)) \in Nat
    BY <1>3, <1>6, FS_CardinalityType
  <1> QED BY <1>3, <1>4, <1>6, <1>7 DEF T

\* What a list without repetition holds is as much as it is long.
LEMMA DistinctFills ==
  ASSUME NEW X, NEW seen \in Seq(X), \A i, j \in DOMAIN seen : i # j => seen[i] # seen[j],
         NEW T, IsFiniteSet(T), \A i \in DOMAIN seen : seen[i] \in T
  PROVE  Len(seen) <= Cardinality(T)
  <1>1. /\ Len(seen) \in Nat /\ DOMAIN seen = 1..Len(seen)
    OBVIOUS
  <1>2. seen \in [1..Len(seen) -> T]
    BY <1>1
  <1>3. seen \in Injection(1..Len(seen), T)
    BY <1>1, <1>2 DEF Injection, IsInjective
  <1>4. Cardinality(1..Len(seen)) <= Cardinality(T)
    BY <1>3, FS_Injection
  <1>5. \A n \in Nat : Cardinality(1..n) = n
    <2> SUFFICES ASSUME NEW n \in Nat PROVE Cardinality(1..n) = n
      OBVIOUS
    <2>1. Cardinality(1..n) = IF 1 > n THEN 0 ELSE n - 1 + 1
      BY FS_Interval
    <2> QED BY <2>1
  <1> QED BY <1>1, <1>4, <1>5

\* Admitting a message the window does not hold puts it last, and lets the oldest
\* go when the window is full.
LEMMA Admitted ==
  ASSUME NEW seen \in Seq(Msgs), Distinct(seen), NEW m \in Msgs, m \notin Range(seen)
  PROVE  /\ Admit(seen, m) \in Seq(Msgs) /\ Distinct(Admit(seen, m))
         /\ Admit(seen, m) # <<>> /\ Admit(seen, m)[Len(Admit(seen, m))] = m
         /\ Len(seen) < DedupCapacity =>
              /\ Len(Admit(seen, m)) = Len(seen) + 1
              /\ \A i \in 1..Len(seen) : Admit(seen, m)[i] = seen[i]
         /\ Len(seen) >= DedupCapacity =>
              /\ Len(seen) = DedupCapacity /\ Len(Admit(seen, m)) = Len(seen)
              /\ \A i \in 1..(Len(seen) - 1) : Admit(seen, m)[i] = seen[i + 1]
  <1>1. DedupCapacity \in Nat \ {0} /\ Len(seen) \in Nat /\ DOMAIN seen = 1..Len(seen)
    BY ProjectorAssumption
  <1>2. \A i \in 1..Len(seen) : seen[i] # m /\ seen[i] \in Msgs
    BY <1>1 DEF Range
  <1>3. CASE Len(seen) < DedupCapacity
    <2> DEFINE a == Append(seen, m)
    <2>1. a \in Seq(Msgs) /\ Len(a) = Len(seen) + 1 /\ a[Len(seen) + 1] = m
          /\ (\A i \in 1..Len(seen) : a[i] = seen[i]) /\ DOMAIN a = 1..Len(a)
      BY <1>1, AppendProperties
    <2>2. Admit(seen, m) = a
      BY <1>1, <1>3 DEF Admit
    <2> HIDE DEF a
    <2>3. \A i \in DOMAIN a : i \in 1..Len(seen) \/ i = Len(seen) + 1
      BY <1>1, <2>1
    <2>4. \A i, j \in DOMAIN a : i # j => a[i] # a[j]
      BY <1>1, <1>2, <2>1, <2>3 DEF Distinct
    <2>5. a # <<>> /\ Len(a) <= DedupCapacity
      BY <1>1, <1>3, <2>1
    <2>6. Distinct(a)
      BY <2>4, <2>5 DEF Distinct
    <2>7. a[Len(a)] = m /\ ~(Len(seen) >= DedupCapacity)
      BY <1>1, <1>3, <2>1
    <2> QED BY <2>1, <2>2, <2>5, <2>6, <2>7
  <1>4. CASE Len(seen) >= DedupCapacity
    <2> DEFINE t == Tail(seen)
               a == Append(t, m)
    <2>1. Len(seen) = DedupCapacity /\ seen # <<>>
      <3>1. Len(seen) <= DedupCapacity
        BY DEF Distinct
      <3>4. Len(seen) \in Nat /\ DedupCapacity \in Nat /\ DedupCapacity # 0
        BY <1>1
      <3>5. \A x, y \in Nat : x <= y /\ x >= y => x = y
        OBVIOUS
      <3>2. Len(seen) = DedupCapacity /\ Len(seen) # 0
        BY <1>4, <3>1, <3>4, <3>5
      <3>3. seen = <<>> => Len(seen) = 0
        OBVIOUS
      <3> QED BY <3>2, <3>3
    <2>2. /\ t \in Seq(Msgs) /\ Len(t) = Len(seen) - 1
          /\ \A i \in 1..Len(t) : t[i] = seen[i + 1]
      BY <2>1, HeadTailProperties
    <2> HIDE DEF t
    <2>3. a \in Seq(Msgs) /\ Len(a) = Len(seen) /\ a[Len(seen)] = m
          /\ (\A i \in 1..(Len(seen) - 1) : a[i] = seen[i + 1]) /\ DOMAIN a = 1..Len(seen)
      <3>1. a \in Seq(Msgs) /\ Len(a) = Len(t) + 1 /\ a[Len(t) + 1] = m
            /\ (\A i \in 1..Len(t) : a[i] = t[i]) /\ DOMAIN a = 1..Len(a)
        BY <2>2, AppendProperties
      <3>2. Len(t) + 1 = Len(seen)
        BY <1>1, <2>2
      <3> QED BY <2>2, <3>1, <3>2
    <2>4. Admit(seen, m) = a
      BY <1>4 DEF Admit, t
    <2> HIDE DEF a
    <2>5. \A i \in DOMAIN a : \/ i \in 1..(Len(seen) - 1) /\ i + 1 \in 1..Len(seen) /\ a[i] = seen[i + 1]
                              \/ i = Len(seen)
      BY <1>1, <2>3
    <2>6. ASSUME NEW i \in DOMAIN a, NEW j \in DOMAIN a, i # j PROVE a[i] # a[j]
      <3>1. CASE i = Len(seen) \/ j = Len(seen)
        BY <1>2, <2>3, <2>5, <2>6, <3>1
      <3>2. CASE i # Len(seen) /\ j # Len(seen)
        <4>1. i + 1 # j + 1 /\ i + 1 \in DOMAIN seen /\ j + 1 \in DOMAIN seen
          BY <1>1, <2>5, <2>6, <3>2
        <4> QED BY <2>5, <3>2, <4>1 DEF Distinct
      <3> QED BY <3>1, <3>2
    <2>7. a # <<>> /\ Len(a) <= DedupCapacity
      BY <1>1, <2>1, <2>3
    <2>8. Distinct(a)
      BY <2>6, <2>7 DEF Distinct
    <2>9. Len(a) = Len(seen) /\ a[Len(a)] = m /\ ~(Len(seen) < DedupCapacity)
      BY <1>1, <1>4, <2>3
    <2> QED BY <2>1, <2>3, <2>4, <2>7, <2>8, <2>9
  <1>5. Len(seen) < DedupCapacity \/ Len(seen) >= DedupCapacity
    BY <1>1
  <1> QED BY <1>3, <1>4, <1>5

\* What is remembered stays so when a message the window does not hold is admitted.
LEMMA AdmitRemembers ==
  ASSUME NEW l, NEW seen \in Seq(Msgs), NEW m \in Msgs, NEW p \in Nat, NEW n \in Nat, NEW q \in Nat,
         Distinct(seen), m \notin Range(seen), Remembered(l, seen, p, n),
         p <= n, n < q, l[q].msg = m
  PROVE  Remembered(l, Admit(seen, m), p, q)
  <1> DEFINE a == Admit(seen, m)
             T == Between(l, p, q)
             B == Between(l, p, n)
  <1>1. /\ a \in Seq(Msgs) /\ Distinct(a) /\ a # <<>> /\ a[Len(a)] = m
        /\ Len(seen) < DedupCapacity =>
             Len(a) = Len(seen) + 1 /\ \A i \in 1..Len(seen) : a[i] = seen[i]
        /\ Len(seen) >= DedupCapacity =>
             /\ Len(seen) = DedupCapacity /\ Len(a) = Len(seen)
             /\ \A i \in 1..(Len(seen) - 1) : a[i] = seen[i + 1]
    BY Admitted
  <1>2. n <= q
    OBVIOUS
  <1>3. IsFiniteSet(T) /\ B \subseteq T /\ Cardinality(B) \in Nat /\ Cardinality(T) \in Nat
        /\ Cardinality(B) <= Cardinality(T)
    BY <1>2, BetweenGrows
  <1>4. m \in T
    <2>1. q \in (p + 1)..q
      OBVIOUS
    <2> QED BY <2>1 DEF Between
  <1>5. /\ Len(seen) \in Nat /\ DOMAIN seen = 1..Len(seen) /\ Len(a) \in Nat /\ DOMAIN a = 1..Len(a)
        /\ DedupCapacity \in Nat /\ DedupCapacity # 0
    BY <1>1, ProjectorAssumption
  <1> HIDE DEF a, T, B
  <1>6. CASE Cardinality(B) >= DedupCapacity
    BY <1>3, <1>5, <1>6 DEF Remembered, T
  <1>7. CASE \E k \in DOMAIN seen : /\ seen[k] = l[p].msg
                                    /\ \A j \in DOMAIN seen : j > k => seen[j] \in B
    <2>1. PICK k \in DOMAIN seen : seen[k] = l[p].msg /\ \A j \in DOMAIN seen : j > k => seen[j] \in B
      BY <1>7
    <2>2. ASSUME NEW i \in DOMAIN a, a[i] = l[p].msg, \A j \in DOMAIN a : j > i => a[j] \in T
          PROVE  Remembered(l, a, p, q)
      BY <2>2 DEF Remembered, T
    <2>3. CASE Len(seen) < DedupCapacity
      <3>0. Len(a) = Len(seen) + 1 /\ \A i \in 1..Len(seen) : a[i] = seen[i]
        BY <1>1, <2>3
      <3>1. k \in DOMAIN a /\ a[k] = l[p].msg
        <4>1. k \in 1..Len(seen) /\ k \in 1..Len(a)
          BY <1>5, <2>1, <3>0
        <4> QED BY <1>5, <2>1, <3>0, <4>1
      <3>2. ASSUME NEW j \in DOMAIN a, j > k PROVE a[j] \in T
        <4>1. CASE j = Len(a)
          <5>1. a[Len(a)] = m
            BY <1>1
          <5> QED BY <1>4, <4>1, <5>1
        <4>2. CASE j # Len(a)
          <5>1. j \in 1..Len(seen)
            BY <1>5, <3>0, <4>2
          <5>2. j \in DOMAIN seen /\ a[j] = seen[j]
            BY <1>5, <3>0, <5>1
          <5> QED BY <1>3, <2>1, <3>2, <5>2
        <4> QED BY <4>1, <4>2
      <3> QED BY <2>2, <3>1, <3>2 DEF a
    <2>4. CASE Len(seen) >= DedupCapacity
      <3>1. Len(a) = Len(seen) /\ Len(seen) = DedupCapacity
        BY <1>1, <2>4
      <3>2. ASSUME NEW j \in DOMAIN a, j + 1 > k PROVE a[j] \in T
        <4>1. CASE j = Len(a)
          BY <1>1, <1>4, <4>1
        <4>2. CASE j # Len(a)
          <5>1. j + 1 \in DOMAIN seen /\ j \in 1..(Len(seen) - 1)
            BY <1>5, <3>1, <4>2
          <5>2. a[j] = seen[j + 1]
            BY <1>1, <2>4, <5>1
          <5> QED BY <1>3, <2>1, <3>2, <5>1, <5>2
        <4> QED BY <4>1, <4>2
      <3>3. CASE k = 1
        <4>1. \A j \in DOMAIN a : a[j] \in T
          BY <1>5, <3>2, <3>3
        <4>2. Len(a) <= Cardinality(T)
          <5>1. \A i, j \in DOMAIN a : i # j => a[i] # a[j]
            BY <1>1 DEF Distinct
          <5> QED BY <1>1, <1>3, <4>1, <5>1, DistinctFills
        <4>3. Cardinality(T) >= DedupCapacity
          BY <1>3, <1>5, <3>1, <4>2
        <4> QED BY <4>3 DEF Remembered, T, a
      <3>4. CASE k # 1
        <4>1. k - 1 \in 1..(Len(seen) - 1) /\ k - 1 \in DOMAIN a /\ (k - 1) + 1 = k
          BY <1>5, <2>1, <3>1, <3>4
        <4>2. a[k - 1] = l[p].msg
          BY <1>1, <2>1, <2>4, <4>1
        <4>3. \A j \in DOMAIN a : j > k - 1 => a[j] \in T
          BY <1>5, <2>1, <3>2
        <4> QED BY <2>2, <4>1, <4>2, <4>3 DEF a
      <3> QED BY <3>3, <3>4
    <2>5. Len(seen) < DedupCapacity \/ Len(seen) >= DedupCapacity
      BY <1>5
    <2> QED BY <2>3, <2>4, <2>5
  <1> QED BY <1>6, <1>7 DEF Remembered, B

\* What was admitted last is remembered.
LEMMA LastRemembered ==
  ASSUME NEW l, NEW seen \in Seq(Msgs), NEW m \in Msgs, NEW q \in Nat,
         Distinct(seen), m \notin Range(seen), l[q].msg = m
  PROVE  Remembered(l, Admit(seen, m), q, q)
  <1> DEFINE a == Admit(seen, m)
  <1>1. a \in Seq(Msgs) /\ a # <<>> /\ a[Len(a)] = m
    BY Admitted
  <1> HIDE DEF a
  <1>2. Len(a) \in DOMAIN a /\ \A j \in DOMAIN a : ~(j > Len(a))
    <2>1. Len(a) \in Nat /\ DOMAIN a = 1..Len(a) /\ Len(a) # 0
      BY <1>1
    <2> QED BY <2>1
  <1> QED BY <1>1, <1>2 DEF Remembered, a

-----------------------------------------------------------------------------
(* One message is counted once as long as no process died.                 *)

\* A run end is counted, in memory or in a written period.
Held(f, store, x) == InMemory(f, x) \/ x \in CountedWritten(store)

\* Every run end counted is remembered, and two that are one message lie apart.
WindowOK(l, seen, f, store) ==
  /\ Distinct(seen)
  /\ \A x \in 1..f.through : Held(f, store, x) => Remembered(l, seen, x, f.through)
  /\ \A x, y \in 1..f.through :
       Held(f, store, x) /\ Held(f, store, y) /\ x < y /\ l[x].msg = l[y].msg =>
         Cardinality(Between(l, x, y - 1)) >= DedupCapacity

WindowInv ==
  mishaps = 0 /\ ~wiring.journaled =>
    /\ fold.through <= sub["projector"].delivered
    /\ \A x : Held(fold, periods, x) => Folds
    /\ WindowOK(log, task.dedup, fold, periods)

LEMMA HeldPassed ==
  ASSUME StreamInv, PeriodInv, mishaps = 0
  PROVE  /\ fold.through \in 0..Len(log)
         /\ \A x : Held(fold, periods, x) => x \in 1..fold.through
  <1>1. /\ log \in Seq(LogRecords) /\ Orderly(fold, periods) /\ fold.through \in 0..Len(log)
        /\ OpenOK(log, fold) /\ ClosedOK(log, fold)
    BY DEF StreamInv, PeriodInv, FoldInv, PlaceOK
  <1>2. fold.through \in Nat /\ Len(log) \in Nat
    BY <1>1
  <1>3. ASSUME NEW x, InMemory(fold, x) PROVE x \in 1..fold.through
    <2>1. CASE \E s \in Starts(Width) : x \in fold.open[s].counted
      BY <1>1, <2>1 DEF OpenOK, RecordOK
    <2>2. CASE \E i \in Narrow(fold) : x \in fold.closed[i].record.counted
      <3>1. PICK i \in Narrow(fold) : x \in fold.closed[i].record.counted
        BY <2>2
      <3> DEFINE e == fold.closed[i]
      <3>2. EntryOK(log, e.level, e.from, e) /\ e.through <= fold.through /\ e.level = Width
        BY <1>1, <3>1 DEF ClosedOK, Narrow
      <3>3. x \in e.record.counted
        BY <3>1
      <3> HIDE DEF e
      <3>4. e.through \in 1..Len(log) /\ x \in 1..e.through
        BY <3>2, <3>3 DEF EntryOK, RecordOK
      <3> QED BY <1>2, <3>2, <3>4
    <2> QED BY <1>3, <2>1, <2>2 DEF InMemory
  <1>4. ASSUME NEW x \in CountedWritten(periods) PROVE x \in 1..fold.through
    <2>1. PICK s \in Starts(Width) : periods[<<Width, s>>].present /\ x \in 1..periods[<<Width, s>>].through
      BY <1>1, FoldFromPeriods
    <2>2. periods[<<Width, s>>].through \in Nat /\ periods[<<Width, s>>].through <= fold.through
      BY <1>1, <2>1, FoldFromPeriods DEF Orderly
    <2> QED BY <1>2, <2>1, <2>2
  <1> QED BY <1>1, <1>3, <1>4 DEF Held

\* A step that counts nothing and hands the projector nothing.
LEMMA WindowBeside ==
  ASSUME StreamInv, PeriodInv, WindowInv, LogGrows, wiring' = wiring, mishaps' = 0 => mishaps = 0,
         fold'.through = fold.through, task'.dedup = task.dedup,
         sub'["projector"].delivered \in Nat, sub["projector"].delivered \in Nat,
         sub["projector"].delivered <= sub'["projector"].delivered,
         \A x : Held(fold', periods', x) => Held(fold, periods, x)
  PROVE  WindowInv'
  <1> SUFFICES ASSUME mishaps' = 0, ~wiring'.journaled
               PROVE  /\ fold'.through <= sub'["projector"].delivered
                      /\ \A x : Held(fold', periods', x) => Folds'
                      /\ WindowOK(log', task'.dedup, fold', periods')
    BY DEF WindowInv, Held, InMemory, Narrow, CountedWritten
  <1>1. /\ mishaps = 0 /\ ~wiring.journaled /\ Folds' = Folds
    BY DEF Folds
  <1>2. /\ fold.through <= sub["projector"].delivered
        /\ \A x : Held(fold, periods, x) => Folds
        /\ WindowOK(log, task.dedup, fold, periods)
    BY <1>1 DEF WindowInv
  <1>3. /\ fold.through \in Nat /\ Len(log) \in Nat /\ fold.through <= Len(log)
    BY <1>1, HeldPassed DEF StreamInv
  <1>4. \A x \in 1..fold.through : x \in 1..Len(log) /\ log'[x] = log[x]
    BY <1>3 DEF LogGrows
  <1>5. ASSUME NEW x \in Nat, NEW n \in Nat, n <= fold.through
        PROVE  Between(log', x, n) = Between(log, x, n)
    <2>1. \A z \in (x + 1)..n : z \in 1..fold.through
      BY <1>3, <1>5
    <2> QED BY <1>4, <2>1 DEF Between
  <1> DEFINE n == fold.through
             seen == task.dedup
             f == fold
             g == fold'
  <1>6. g.through = n /\ task'.dedup = seen /\ n \in Nat
    BY <1>3
  <1>7. Distinct(seen)
    BY <1>2 DEF WindowOK
  <1>8. ASSUME NEW x \in 1..n, Held(g, periods', x) PROVE Remembered(log', seen, x, n)
    <2>1. Remembered(log, seen, x, n)
      BY <1>2, <1>8 DEF WindowOK
    <2>2. Between(log', x, n) = Between(log, x, n) /\ log'[x] = log[x]
      BY <1>3, <1>4, <1>5
    <2> QED BY <2>1, <2>2 DEF Remembered
  <1>9. ASSUME NEW x \in 1..n, NEW y \in 1..n, Held(g, periods', x), Held(g, periods', y), x < y,
               log'[x].msg = log'[y].msg
        PROVE  Cardinality(Between(log', x, y - 1)) >= DedupCapacity
    <2>1. log[x].msg = log[y].msg /\ Held(f, periods, x) /\ Held(f, periods, y)
      BY <1>4, <1>9
    <2>2. Cardinality(Between(log, x, y - 1)) >= DedupCapacity
      BY <1>2, <1>9, <2>1 DEF WindowOK
    <2>3. Between(log', x, y - 1) = Between(log, x, y - 1)
      <3>1. x \in Nat /\ y - 1 \in Nat /\ y - 1 <= fold.through
        BY <1>3
      <3> QED BY <1>5, <3>1
    <2> QED BY <2>2, <2>3
  <1>10. \A x : Held(g, periods', x) => Folds'
    BY <1>1, <1>2
  <1> HIDE DEF n, seen, f, g
  <1>11. WindowOK(log', seen, g, periods')
    BY <1>6, <1>7, <1>8, <1>9 DEF WindowOK
  <1> QED BY <1>2, <1>3, <1>6, <1>10, <1>11 DEF g, n, f

\* What the projector is handed next lies past what it was handed before.
LEMMA NextPasses ==
  ASSUME StreamInv, BusInv, AskedInv, NextDelivery("projector") # 0
  PROVE  sub["projector"].delivered < NextDelivery("projector")
  <1> DEFINE s == sub["projector"]
             n == NextDelivery("projector")
  <1>1. /\ n \in Nat /\ s.delivered \in Nat /\ trimmed \in Nat /\ wiring.log \in {"wal", "laser"}
        /\ s.state \in {"off", "replay", "live", "ended"}
    <2>1. n \in Positions /\ Len(log) \in Nat
      BY NextOfProjector DEF AskedInv, StreamInv
    <2> HIDE DEF n
    <2> QED BY <2>1 DEF AskedInv, SourceSide, SubRecords, WiringSpace, Positions
  <1>2. CASE wiring.log = "laser"
    <2>1. n = Max2(s.delivered, trimmed) + 1
      BY <1>1, <1>2 DEF NextDelivery
    <2> HIDE DEF n
    <2> QED BY <1>1, <2>1 DEF Max2, n
  <1>3. CASE wiring.log = "wal" /\ s.state = "replay"
    <2>1. n = s.delivered + 1
      BY <1>3 DEF NextDelivery
    <2> HIDE DEF n
    <2> QED BY <1>1, <2>1 DEF n
  <1>4. CASE wiring.log = "wal" /\ s.state # "replay"
    <2>1. s.state = "live" /\ s.cursor < Len(live)
      BY <1>1, <1>4 DEF NextDelivery
    <2>2. n = IF Len(live) - s.cursor <= Capacity /\ live[s.cursor + 1] > s.delivered
              THEN live[s.cursor + 1] ELSE 0
      BY <1>4, <2>1 DEF NextDelivery
    <2>3. n > s.delivered
      BY <2>2
    <2> HIDE DEF n
    <2> QED BY <1>1, <2>3 DEF n
  <1> QED BY <1>1, <1>2, <1>3, <1>4

LEMMA HandleKeepsWindow ==
  ASSUME StreamInv, BusInv, AskedInv, TaskInv, PeriodInv, Counters, WindowInv, Handle
  PROVE  WindowInv'
  <1> DEFINE p == NextDelivery("projector")
             m == log[p].msg
             seen == task.dedup
             f == fold
             g == fold'
  <1>1. /\ p # 0 /\ HandleEvent(p) /\ sub' = [sub EXCEPT !["projector"] = Delivered("projector", p)]
        /\ UNCHANGED <<log, periods, wiring>>
    BY DEF Handle
  <1>2. p \in 1..Len(log) /\ m \in Msgs /\ p \in Nat /\ Len(log) \in Nat /\ log \in Seq(LogRecords)
    <2>1. p \in Positions /\ log \in Seq(LogRecords)
      BY <1>1, NextOfProjector DEF AskedInv, StreamInv
    <2>2. log[p] \in LogRecords
      BY <2>1 DEF Positions
    <2> QED BY <2>1, <2>2 DEF LogRecords, Positions
  <1>3. sub["projector"].delivered \in Nat /\ sub["projector"].delivered < p
    BY <1>1, NextPasses DEF AskedInv, SourceSide, SubRecords
  <1>4. sub'["projector"].delivered = p
    <2>1. sub["projector"] \in SubRecords /\ "projector" \in DOMAIN sub
      BY BothRead DEF AskedInv, SourceSide
    <2> HIDE DEF p
    <2> QED BY <1>1, <2>1 DEF Delivered, SubRecords
  <1>5. mishaps' = 0 => mishaps = 0
    BY <1>1 DEF HandleEvent, Folded, Taken, Refused, Counters
  <1>6. /\ seen \in Seq(Msgs)
        /\ task'.dedup = IF m \notin Range(seen) THEN Admit(seen, m) ELSE seen
        /\ (m \notin Range(seen) /\ Folds => Folded(f, p))
        /\ (m \in Range(seen) \/ ~Folds => g = f)
    <2>1. task \in TaskRecords(Positions)
      BY DEF TaskInv
    <2> HIDE DEF p
    <2> QED BY <1>1, <2>1 DEF HandleEvent, TaskRecords
  <1> HIDE DEF p, m
  <1>7. CASE m \in Range(seen)
    <2>1. fold' = fold /\ task'.dedup = task.dedup /\ LogGrows
      BY <1>1, <1>2, <1>6, <1>7 DEF LogGrows
    <2>2. \A x : Held(fold', periods', x) => Held(fold, periods, x)
      BY <1>1, <2>1
    <2>3. /\ sub'["projector"].delivered \in Nat
          /\ sub["projector"].delivered <= sub'["projector"].delivered
      BY <1>2, <1>3, <1>4
    <2> QED BY <1>1, <1>3, <1>5, <2>1, <2>2, <2>3, WindowBeside
  <1>8. CASE m \notin Range(seen)
    <2> SUFFICES ASSUME mishaps' = 0, ~wiring.journaled
                 PROVE  /\ g.through <= p
                        /\ \A x : Held(g, periods, x) => Folds
                        /\ WindowOK(log, task'.dedup, g, periods)
      BY <1>1, <1>4 DEF WindowInv, Held, InMemory, Narrow, CountedWritten, Folds
    <2>1. /\ mishaps = 0 /\ f.through <= sub["projector"].delivered
          /\ \A x : Held(f, periods, x) => Folds
          /\ WindowOK(log, seen, f, periods)
      BY <1>5 DEF WindowInv
    <2>2. f.through \in Nat /\ f.through < p /\ \A x : Held(f, periods, x) => x \in 1..f.through
      <3>1. f.through \in 0..Len(log) /\ \A x : Held(f, periods, x) => x \in 1..f.through
        BY <2>1, HeldPassed
      <3> QED BY <1>2, <1>3, <2>1, <3>1
    <2>3. Distinct(seen)
      BY <2>1 DEF WindowOK
    <2> DEFINE a == Admit(seen, m)
    <2>4. task'.dedup = a /\ Distinct(a)
      BY <1>2, <1>6, <1>8, <2>3, Admitted
    <2> HIDE DEF a
    <2>5. CASE ~Folds
      <3>1. g = f
        BY <1>6, <2>5
      <3>2. \A x : ~Held(f, periods, x)
        BY <2>1, <2>5
      <3>3. WindowOK(log, a, f, periods)
        BY <2>4, <3>2 DEF WindowOK
      <3>4. f.through <= p
        BY <1>2, <2>2
      <3> QED BY <2>1, <2>4, <3>1, <3>3, <3>4
    <2>6. CASE Folds
      <3>1. g = Apply(f, p)
        BY <1>6, <1>8, <2>6 DEF Folded, HasGap
      <3>2. FoldInv(log, f, Accountable(periods), gaps, 0)
        BY DEF PeriodInv
      <3>3. 0 \in Nat /\ 0 <= f.through
        BY <2>2
      <3>4. /\ Apply(f, p).through = Max2(f.through, p)
            /\ \A x : InMemory(Apply(f, p), x) => InMemory(f, x) \/ x = p
        BY <1>2, <3>2, <3>3, ApplyKeeps
      <3>5. g.through = p
        BY <1>2, <2>2, <3>1, <3>4 DEF Max2
      <3>6. \A x : Held(g, periods, x) => Held(f, periods, x) \/ x = p
        BY <3>1, <3>4 DEF Held
      <3> HIDE DEF f, g, seen
      <3>7. ASSUME NEW x \in 1..p, Held(g, periods, x) PROVE Remembered(log, a, x, p)
        <4>1. CASE x = p
          BY <1>2, <1>6, <1>8, <2>3, <4>1, LastRemembered DEF a, m
        <4>2. CASE x # p
          <5>1. Held(f, periods, x) /\ x \in 1..f.through
            BY <2>2, <3>6, <3>7, <4>2
          <5>2. Remembered(log, seen, x, f.through)
            BY <2>1, <5>1 DEF WindowOK
          <5>3. x \in Nat /\ x <= f.through /\ log[p].msg = m
            BY <2>2, <5>1 DEF m
          <5> QED BY <1>2, <1>6, <1>8, <2>2, <2>3, <5>2, <5>3, AdmitRemembers DEF a
        <4> QED BY <4>1, <4>2
      <3>8. ASSUME NEW x \in 1..p, NEW y \in 1..p, Held(g, periods, x), Held(g, periods, y), x < y,
                   log[x].msg = log[y].msg
            PROVE  Cardinality(Between(log, x, y - 1)) >= DedupCapacity
        <4>1. Held(f, periods, x) /\ x \in 1..f.through
          <5>1. x # p
            BY <1>2, <3>8
          <5> QED BY <2>2, <3>6, <3>8, <5>1
        <4>2. CASE y # p
          <5>1. Held(f, periods, y) /\ y \in 1..f.through
            BY <2>2, <3>6, <3>8, <4>2
          <5> QED BY <2>1, <3>8, <4>1, <5>1 DEF WindowOK
        <4>3. CASE y = p
          <5>1. Remembered(log, seen, x, f.through)
            BY <2>1, <4>1 DEF WindowOK
          <5>2. \A k \in DOMAIN seen : seen[k] # log[x].msg
            BY <1>8, <3>8, <4>3 DEF m, Range
          <5>3. Cardinality(Between(log, x, f.through)) >= DedupCapacity
            BY <5>1, <5>2 DEF Remembered
          <5>4. x \in Nat /\ f.through \in Nat /\ y - 1 \in Nat /\ f.through <= y - 1
            BY <1>2, <2>2, <4>1, <4>3
          <5>5. /\ Cardinality(Between(log, x, f.through)) \in Nat
                /\ Cardinality(Between(log, x, y - 1)) \in Nat
                /\ Cardinality(Between(log, x, f.through)) <= Cardinality(Between(log, x, y - 1))
            BY <5>4, BetweenGrows
          <5>6. DedupCapacity \in Nat
            BY ProjectorAssumption
          <5> QED BY <5>3, <5>5, <5>6
        <4> QED BY <4>2, <4>3
      <3>9. WindowOK(log, a, g, periods)
        BY <2>4, <3>5, <3>7, <3>8 DEF WindowOK
      <3>10. g.through <= p
        BY <1>2, <3>5
      <3> QED BY <2>4, <2>6, <3>9, <3>10
    <2> QED BY <2>5, <2>6
  <1> QED BY <1>7, <1>8

\* A store whose records count nothing counts nothing.
LEMMA NothingWritten ==
  ASSUME \A k \in PeriodKeys : periods[k].record.counted = {}
  PROVE  CountedWritten(periods) = {}
  <1>1. ASSUME NEW s \in Starts(Width) PROVE periods[<<Width, s>>].record.counted = {}
    <2>1. <<Width, s>> \in PeriodKeys
      BY KeyFacts
    <2> QED BY <2>1
  <1> QED BY <1>1 DEF CountedWritten

\* A process that starts while none has died has nothing counted yet.
LEMMA StartKeepsWindow ==
  ASSUME StreamInv, PeriodInv, AskedInv', StartProjector
  PROVE  WindowInv'
  <1>1. /\ task.at = "off" /\ fold' = Loaded(savedFold, periods) /\ task' = [NewTask EXCEPT !.at = "loop"]
        /\ UNCHANGED <<log, mishaps, periods, wiring>>
    BY DEF StartProjector
  <1> SUFFICES ASSUME mishaps = 0
               PROVE  /\ fold'.through <= sub'["projector"].delivered
                      /\ \A x : ~Held(fold', periods', x)
                      /\ WindowOK(log', task'.dedup, fold', periods')
    BY <1>1 DEF WindowInv, Held, InMemory, Narrow, CountedWritten
  <1>2. periods = NoPeriods /\ savedFold = NewFold
    BY <1>1 DEF PeriodInv
  <1>3. \A k \in PeriodKeys : ~periods[k].present /\ periods[k].record.counted = {}
    BY <1>2 DEF NoPeriods, NoPeriod, Empty
  <1>4. savedFold.through = 0
    BY <1>2, NewFoldIs
  <1>5. fold' = NewFold
    BY <1>1, <1>3, <1>4 DEF Loaded
  <1>6. \A s \in Starts(Width) : NewFold.open[s].counted = {}
    BY NewFoldIs DEF Empty
  <1>7. Narrow(NewFold) = {}
    BY NewFoldIs DEF Narrow
  <1>8. CountedWritten(periods) = {}
    BY <1>3, NothingWritten
  <1>9. \A x : ~Held(NewFold, periods, x)
    BY <1>6, <1>7, <1>8 DEF Held, InMemory
  <1>10. task'.dedup = <<>> /\ Distinct(<<>>)
    <2>1. task'.dedup = <<>>
      BY <1>1 DEF NewTask
    <2>2. DOMAIN <<>> = {} /\ Len(<<>>) = 0 /\ DedupCapacity \in Nat
      BY ProjectorAssumption
    <2> QED BY <2>1, <2>2 DEF Distinct
  <1>11. WindowOK(log', task'.dedup, NewFold, periods)
    BY <1>9, <1>10 DEF WindowOK
  <1>12. sub'["projector"].delivered \in Nat /\ NewFold.through = 0
    BY NewFoldIs DEF AskedInv, SourceSide, SubRecords
  <1> QED BY <1>1, <1>5, <1>9, <1>11, <1>12

\* A closed period leaves for the store.
LEMMA ClosedIsWritten ==
  ASSUME StreamInv, PeriodInv, WriteClosed, periods' # periods \/ fold' # fold
  PROVE  /\ UNCHANGED <<savedFold, task, log, wiring, committed, sub, reach>> /\ task.at = "periods"
         /\ Puts(periods, periods', Head(fold.closed)) /\ HeadLeft(fold, fold', Head(fold.closed))
  <1> DEFINE c == Head(fold.closed)
             W == Accountable(periods)
             V == Accountable(periods')
             g == [fold EXCEPT !.closed = Tail(@)]
  <1>1. /\ periods' = WritePeriod(periods, c) /\ fold' = g /\ fold.closed # <<>> /\ log \in Seq(LogRecords)
        /\ UNCHANGED <<savedFold, task, log, wiring, committed, sub, reach>> /\ task.at = "periods"
    BY DEF WriteClosed, PeriodsFail, foldVars, busVars, askedVars, StreamInv
  <1>2. FoldInv(log, fold, W, gaps, 0) /\ StoreOK(log, periods, W, gaps)
    BY DEF PeriodInv
  <1>3. EntryOK(log, c.level, c.from, c) /\ c = fold.closed[1] /\ 1 \in DOMAIN fold.closed
    <2>1. \E X : fold.closed \in Seq(X)
      BY <1>2 DEF FoldInv, ClosedOK
    <2>2. c = fold.closed[1] /\ 1 \in DOMAIN fold.closed
      BY <1>1, <2>1
    <2> HIDE DEF c
    <2> QED BY <1>2, <2>2 DEF FoldInv, ClosedOK
  <1>4. Puts(periods, periods', c)
    <2>1. <<c.level, c.from>> \in PeriodKeys
      BY <1>3 DEF EntryOK
    <2> HIDE DEF c
    <2> QED BY <1>1, <1>2, <2>1, WritePuts
  <1> HIDE DEF W
  <1>5. W \subseteq V /\ (c.level = Width => c.record.counted \subseteq V)
    <2> HIDE DEF c
    <2> QED BY <1>2, <1>4, PutsAccounts DEF W, Accountable
  <1>6. HeadLeft(fold, g, c)
    <2> HIDE DEF g, V
    <2>1. GaveAway(fold, g, c)
      BY DEF c, g, GaveAway
    <2> HIDE DEF c
    <2> QED BY <1>1, <1>2, <1>5, <2>1, HeadLeaves
  <1> HIDE DEF g, c, V
  <1> QED BY <1>1, <1>4, <1>6 DEF c

\* What a written period counts was counted in memory.
LEMMA ClosedCountsNothing ==
  ASSUME StreamInv, PeriodInv, WriteClosed, periods' # periods \/ fold' # fold
  PROVE  /\ fold'.through = fold.through
         /\ \A x : Held(fold', periods', x) => Held(fold, periods, x)
  <1> DEFINE c == Head(fold.closed)
             g == fold'
             next == periods'
  <1>1. Puts(periods, next, c) /\ HeadLeft(fold, g, c)
    BY ClosedIsWritten
  <1>2. StoreOK(log, periods, Accountable(periods), gaps)
    BY DEF PeriodInv
  <1> HIDE DEF c, g, next
  <1>3. \A x \in CountedWritten(next) :
          \/ x \in CountedWritten(periods)
          \/ c.level = Width /\ ~periods[<<c.level, c.from>>].present /\ x \in c.record.counted
    BY <1>1, <1>2, PutsAccounts
  <1>4. \A x : Held(g, next, x) => Held(fold, periods, x)
    BY <1>1, <1>3 DEF HeadLeft, Held
  <1>5. g.through = fold.through
    BY <1>1 DEF HeadLeft
  <1> QED BY <1>4, <1>5 DEF g, next

\* Nothing but a message handed over and a start touches the dedup window.
LEMMA WindowStays ==
  ASSUME TaskInv, AskedInv, [ProjectorNext]_vars, ~Handle, ~StartProjector, ~Crash, ~Exit
  PROVE  /\ wiring' = wiring /\ task'.dedup = task.dedup
         /\ sub'["projector"].delivered = sub["projector"].delivered
  <1>1. task \in TaskRecords(Positions) /\ {"dedup", "at", "mode", "held"} \subseteq DOMAIN task
    BY DEF TaskInv, TaskRecords
  <1>2. /\ DOMAIN sub = Readers /\ sub["projector"] \in SubRecords
        /\ "journal" # "projector" /\ "projector" \in Readers /\ "journal" \in Readers
    BY BothRead DEF AskedInv, SourceSide
  <1>3. ASSUME NEW c, NEW v, sub' = [sub EXCEPT ![c] = v], c = "projector" => v.delivered = sub[c].delivered
        PROVE  sub'["projector"].delivered = sub["projector"].delivered
    BY <1>2, <1>3
  <1>4. ASSUME \/ task' = task
               \/ \E mode, spans, checkpoint, open : StartsFlush(mode, spans, checkpoint, open)
               \/ \E at : Goes(at) \/ Holds(at)
        PROVE  task'.dedup = task.dedup
    BY <1>1, <1>4 DEF StartsFlush, Goes, Holds
  <1>5. ASSUME NEW c \in Readers, sub' = [sub EXCEPT ![c].cursor = @ + 1]
               \/ \E state : sub' = [sub EXCEPT ![c].state = state]
        PROVE  sub'["projector"].delivered = sub["projector"].delivered
    BY <1>2, <1>5 DEF SubRecords
  <1>6. CASE LogStep
    <2>1. task' = task /\ wiring' = wiring
      BY <1>6 DEF LogStep, AppendBatch, AppendFails, Broadcast, SkipDelivered, Trim, OpenLog, Unlogged
    <2>2. sub' = sub \/ \E c \in Readers : sub' = [sub EXCEPT ![c].cursor = @ + 1]
      BY <1>6 DEF LogStep, AppendBatch, AppendFails, Broadcast, SkipDelivered, Trim, OpenLog
    <2> QED BY <1>5, <2>1, <2>2
  <1>7. CASE CaughtUp \/ SourceEnds
    <2>1. wiring' = wiring /\ \E state : sub' = [sub EXCEPT !["projector"].state = state]
      BY <1>7 DEF CaughtUp, SourceEnds
    <2>2. task'.dedup = task.dedup
      BY <1>4, <1>7 DEF CaughtUp, SourceEnds
    <2> QED BY <1>2, <1>5, <2>1, <2>2
  <1>8. CASE FlushTimer \/ Shutdown \/ UNCHANGED vars
    <2>1. wiring' = wiring /\ sub' = sub
      BY <1>8 DEF FlushTimer, Shutdown, vars, logVars, busVars
    <2>2. task'.dedup = task.dedup
      BY <1>4, <1>8 DEF FlushTimer, Shutdown, vars
    <2> QED BY <2>1, <2>2
  <1>9. CASE SweepTimer
    <2>1. wiring' = wiring /\ sub' = sub
      BY <1>9 DEF SweepTimer, logVars, busVars
    <2>2. task'.dedup = task.dedup
      BY <1>1, <1>9 DEF SweepTimer
    <2> QED BY <2>1, <2>2
  <1>10. CASE WriteSpans \/ WriteGap \/ WriteClosed \/ SaveFold \/ FlushAsked
    <2>1. wiring' = wiring /\ sub' = sub
      BY <1>10 DEF WriteSpans, WriteGap, WriteClosed, SaveFold, FlushAsked, busVars
    <2>2. task'.dedup = task.dedup
      BY <1>4, <1>10 DEF WriteSpans, WriteGap, WriteClosed, SaveFold, FlushAsked, PeriodsFail
    <2> QED BY <2>1, <2>2
  <1>11. CASE Commit
    BY <1>1, <1>11 DEF Commit
  <1>12. CASE JournalStep
    <2>1. wiring' = wiring /\ task' = task
      BY <1>12 DEF JournalStep, StartJournal, JournalReads, JournalCaughtUp, JournalTick, KeepPage, logVars, busVars
    <2>2. \/ sub' = sub \/ \E v : sub' = [sub EXCEPT !["journal"] = v]
          \/ \E state : sub' = [sub EXCEPT !["journal"].state = state]
      BY <1>12 DEF JournalStep, StartJournal, JournalReads, JournalCaughtUp, JournalTick, KeepPage, logVars, busVars
    <2> QED BY <1>2, <1>3, <1>5, <2>1, <2>2
  <1> QED BY <1>6, <1>7, <1>8, <1>9, <1>10, <1>11, <1>12
          DEF ProjectorNext, ReadStep, FlushStep

LEMMA WindowStep ==
  ASSUME ProjectorInv, WindowInv, ProjectorInv', [ProjectorNext]_vars
  PROVE  WindowInv'
  <1>1. /\ StreamInv /\ BusInv /\ AskedInv /\ TaskInv /\ PeriodInv /\ Counters /\ Counters' /\ AskedInv'
        /\ LogGrows
    BY EveryStepGrows DEF ProjectorInv
  <1>2. CASE Handle
    BY <1>1, <1>2, HandleKeepsWindow
  <1>3. CASE StartProjector
    BY <1>1, <1>3, StartKeepsWindow
  <1>4. CASE Crash \/ Exit
    <2>1. mishaps' = mishaps + 1 /\ mishaps \in Nat
      BY <1>1, <1>4 DEF Crash, CrashLog, Exit, Counters
    <2> QED BY <2>1 DEF WindowInv
  <1>5. CASE ~Handle /\ ~StartProjector /\ ~Crash /\ ~Exit
    <2>1. /\ wiring' = wiring /\ task'.dedup = task.dedup
          /\ sub'["projector"].delivered = sub["projector"].delivered
      BY <1>1, <1>5, WindowStays
    <2>2. sub["projector"].delivered \in Nat
      BY <1>1 DEF AskedInv, SourceSide, SubRecords
    <2>3. sub'["projector"].delivered \in Nat /\ sub["projector"].delivered <= sub'["projector"].delivered
      BY <2>1, <2>2
    <2>4. ASSUME Taken \/ Refused PROVE mishaps' = 0 => mishaps = 0
      BY <1>1, <2>4 DEF Taken, Refused, Counters
    <2>5. ASSUME fold'.through = fold.through, \A x : Held(fold', periods', x) => Held(fold, periods, x),
                 mishaps' = 0 => mishaps = 0
          PROVE  WindowInv'
      BY <1>1, <2>1, <2>2, <2>3, <2>5, WindowBeside
    <2>6. ASSUME fold' = fold, periods' = periods, mishaps' = 0 => mishaps = 0
          PROVE  WindowInv'
      BY <2>5, <2>6
    <2>7. CASE LogStep
      <3>1. fold' = fold /\ periods' = periods
        BY <2>7 DEF LogStep, Unlogged, foldVars
      <3>2. mishaps \in Nat /\ (mishaps' = mishaps \/ mishaps' = mishaps + 1)
        BY <1>1, <2>7
           DEF LogStep, AppendBatch, AppendFails, Broadcast, SkipDelivered, Trim, OpenLog, Counters
      <3>3. mishaps' = 0 => mishaps = 0
        BY <3>2
      <3> QED BY <2>6, <3>1, <3>3
    <2>8. CASE CaughtUp \/ SweepTimer \/ FlushTimer \/ SourceEnds \/ Shutdown \/ UNCHANGED vars
      <3>1. fold' = fold /\ periods' = periods /\ mishaps' = mishaps
        BY <2>8 DEF CaughtUp, SweepTimer, FlushTimer, SourceEnds, Shutdown, foldVars, logVars, vars
      <3> QED BY <2>6, <3>1
    <2>9. CASE WriteSpans \/ FlushAsked \/ Commit \/ JournalStep
      <3>1. fold' = fold /\ periods' = periods /\ (Taken \/ Refused)
        BY <2>9 DEF WriteSpans, FlushAsked, Commit, JournalStep, StartJournal, JournalReads,
                    JournalCaughtUp, JournalTick, KeepPage, foldVars, logVars, Taken
      <3> QED BY <2>4, <2>6, <3>1
    <2>10. CASE SaveFold
      <3>1. fold' = fold /\ periods' = periods /\ (Taken \/ Refused)
        BY <2>10 DEF SaveFold
      <3> QED BY <2>4, <2>6, <3>1
    <2>11. CASE WriteGap
      <3>1. Taken \/ Refused
        BY <2>11 DEF WriteGap, PeriodsFail
      <3>2. /\ periods' = periods
            /\ \/ fold' = fold
               \/ \E gap : fold' = [fold EXCEPT !.missed = @ \ {gap}]
        BY <2>11 DEF WriteGap, PeriodsFail, foldVars
      <3>3. fold'.through = fold.through /\ fold'.open = fold.open /\ fold'.closed = fold.closed
        <4>1. DOMAIN fold = FoldFields
          BY <1>1 DEF PeriodInv, FoldInv, PlaceOK
        <4> QED BY <3>2, <4>1 DEF FoldFields
      <3>4. \A x : Held(fold', periods', x) => Held(fold, periods, x)
        BY <3>2, <3>3 DEF Held, InMemory, Narrow
      <3> QED BY <2>4, <2>5, <3>1, <3>3, <3>4
    <2>12. CASE WriteClosed
      <3>1. Taken \/ Refused
        BY <2>12 DEF WriteClosed, PeriodsFail
      <3>2. CASE periods' = periods /\ fold' = fold
        BY <2>4, <2>6, <3>1, <3>2
      <3>3. CASE periods' # periods \/ fold' # fold
        BY <1>1, <2>4, <2>5, <2>12, <3>1, <3>3, ClosedCountsNothing
      <3> QED BY <3>2, <3>3
    <2> QED BY <1>5, <2>7, <2>8, <2>9, <2>10, <2>11, <2>12 DEF ProjectorNext, ReadStep, FlushStep
  <1> QED BY <1>2, <1>3, <1>4, <1>5

LEMMA WindowInit ==
  ASSUME NEW held \in Seq(Msgs), ProjectorInit(held)
  PROVE  WindowInv
  <1>1. /\ fold = NewFold /\ periods = NoPeriods /\ task = NewTask
        /\ sub = [c \in Readers |-> NoSubscription]
    BY DEF ProjectorInit, LogInit
  <1>2. \A k \in PeriodKeys : periods[k].record.counted = {}
    BY <1>1 DEF NoPeriods, NoPeriod, Empty
  <1>3. \A x : ~Held(fold, periods, x)
    <2>1. \A s \in Starts(Width) : NewFold.open[s].counted = {}
      BY NewFoldIs DEF Empty
    <2>2. Narrow(NewFold) = {}
      BY NewFoldIs DEF Narrow
    <2>3. CountedWritten(periods) = {}
      BY <1>2, NothingWritten
    <2> QED BY <1>1, <2>1, <2>2, <2>3 DEF Held, InMemory
  <1>4. Distinct(task.dedup)
    <2>1. task.dedup = <<>> /\ DOMAIN <<>> = {} /\ Len(<<>>) = 0 /\ DedupCapacity \in Nat
      BY <1>1, ProjectorAssumption DEF NewTask
    <2> QED BY <2>1 DEF Distinct
  <1>5. fold.through = 0 /\ sub["projector"].delivered = 0
    BY <1>1, NewFoldIs, BothRead DEF NoSubscription
  <1> QED BY <1>3, <1>4, <1>5 DEF WindowInv, WindowOK

\* Every record of a period, open, closed or written, counts run ends of the log, each
\* one once, and where it ended if it came in time.
LEMMA RecordsAre ==
  ASSUME StreamInv, PeriodInv, NEW s \in Starts(Width), NEW r \in RecordsAt(fold, periods, s)
  PROVE  \E n \in 0..Len(log) : RecordOK(log, n, s, r)
  <1>1. /\ OpenOK(log, fold) /\ ClosedOK(log, fold) /\ StoreOK(log, periods, Accountable(periods), gaps)
        /\ fold.through \in 0..Len(log) /\ Len(log) \in Nat
    BY DEF StreamInv, PeriodInv, FoldInv, PlaceOK
  <1>2. CASE r = fold.open[s]
    BY <1>1, <1>2 DEF OpenOK
  <1>3. CASE \E i \in ClosedAt(fold, s) : r = fold.closed[i].record
    <2>1. PICK i \in ClosedAt(fold, s) : r = fold.closed[i].record
      BY <1>3
    <2> DEFINE e == fold.closed[i]
    <2>2. EntryOK(log, e.level, e.from, e) /\ e.level = Width /\ e.from = s /\ r = e.record
      BY <1>1, <2>1 DEF ClosedOK, ClosedAt
    <2> HIDE DEF e
    <2>3. RecordOK(log, e.through, s, r) /\ e.through \in 1..Len(log)
      BY <2>2 DEF EntryOK
    <2> QED BY <1>1, <2>3
  <1>4. CASE r = periods[<<Width, s>>].record
    <2> DEFINE e == periods[<<Width, s>>]
    <2>1. <<Width, s>> \in PeriodKeys /\ <<Width, s>>[1] = Width /\ <<Width, s>>[2] = s
      BY KeyFacts
    <2>2. CASE e.present
      <3>1. EntryOK(log, Width, s, e)
        BY <1>1, <2>1, <2>2 DEF StoreOK
      <3> HIDE DEF e
      <3>2. RecordOK(log, e.through, s, r) /\ e.through \in 1..Len(log)
        BY <1>4, <3>1 DEF EntryOK, e
      <3> QED BY <1>1, <3>2
    <2>3. CASE ~e.present
      <3>1. r = Empty
        BY <1>1, <1>4, <2>1, <2>3 DEF StoreOK, NoPeriod
      <3>2. Cardinality({}) = 0
        BY FS_EmptySet
      <3>3. RecordOK(log, 0, s, r)
        BY <3>1, <3>2 DEF RecordOK, Empty, PeriodRecords
      <3> QED BY <1>1, <3>3
    <2> QED BY <2>2, <2>3
  <1> QED BY <1>2, <1>3, <1>4 DEF RecordsAt, HeldAt

\* Two periods a fold holds share no run end.
LEMMA HeldApart ==
  ASSUME StreamInv, PeriodInv, NEW s \in Starts(Width), NEW t \in Starts(Width), s # t,
         NEW r \in HeldAt(fold, s), NEW o \in HeldAt(fold, t)
  PROVE  r.counted \cap o.counted = {}
  <1>1. OpenOK(log, fold) /\ ClosedOK(log, fold)
    BY DEF PeriodInv, FoldInv
  <1>2. \A u \in Starts(Width) : \A i \in ClosedAt(fold, u) : i \in Narrow(fold) /\ fold.closed[i].from = u
    BY DEF ClosedAt, Narrow
  <1>3. /\ r = fold.open[s] \/ \E i \in ClosedAt(fold, s) : r = fold.closed[i].record
        /\ o = fold.open[t] \/ \E i \in ClosedAt(fold, t) : o = fold.closed[i].record
    BY DEF HeldAt
  <1>4. CASE r = fold.open[s] /\ o = fold.open[t]
    BY <1>1, <1>4 DEF OpenOK
  <1>5. CASE r = fold.open[s] /\ \E i \in ClosedAt(fold, t) : o = fold.closed[i].record
    BY <1>1, <1>2, <1>5 DEF ClosedOK
  <1>6. CASE o = fold.open[t] /\ \E i \in ClosedAt(fold, s) : r = fold.closed[i].record
    BY <1>1, <1>2, <1>6 DEF ClosedOK
  <1>7. CASE /\ \E i \in ClosedAt(fold, s) : r = fold.closed[i].record
             /\ \E i \in ClosedAt(fold, t) : o = fold.closed[i].record
    <2>1. PICK i \in ClosedAt(fold, s) : r = fold.closed[i].record
      BY <1>7
    <2>2. PICK j \in ClosedAt(fold, t) : o = fold.closed[j].record
      BY <1>7
    <2>3. i \in Narrow(fold) /\ j \in Narrow(fold) /\ i # j /\ i \in Nat /\ j \in Nat
      <3>1. DOMAIN fold.closed \subseteq Nat
        BY <1>1 DEF ClosedOK
      <3> QED BY <1>2, <2>1, <2>2, <3>1 DEF Narrow
    <2>4. i < j \/ j < i
      BY <2>3
    <2> QED BY <1>1, <2>1, <2>2, <2>3, <2>4 DEF ClosedOK
  <1> QED BY <1>3, <1>4, <1>5, <1>6, <1>7

\* Until a process died, two periods share none, wherever their records are.
LEMMA RecordsApart ==
  ASSUME StreamInv, PeriodInv, mishaps = 0, NEW s \in Starts(Width), NEW t \in Starts(Width), s # t,
         NEW r \in RecordsAt(fold, periods, s), NEW o \in RecordsAt(fold, periods, t)
  PROVE  r.counted \cap o.counted = {}
  <1>1. Orderly(fold, periods)
    BY DEF PeriodInv
  <1>2. ASSUME NEW u \in Starts(Width), NEW h \in HeldAt(fold, u), NEW x \in h.counted
        PROVE  InMemory(fold, x)
    <2>1. h = fold.open[u] \/ \E i \in ClosedAt(fold, u) : h = fold.closed[i].record
      BY <1>2 DEF HeldAt
    <2>2. ClosedAt(fold, u) \subseteq Narrow(fold)
      BY DEF ClosedAt, Narrow
    <2> QED BY <1>2, <2>1, <2>2 DEF InMemory
  <1>3. \A u \in Starts(Width) : \A x \in periods[<<Width, u>>].record.counted :
          x \in CountedWritten(periods) /\ ~InMemory(fold, x)
    BY <1>1 DEF Orderly, CountedWritten
  <1>4. /\ r \in HeldAt(fold, s) \/ r = periods[<<Width, s>>].record
        /\ o \in HeldAt(fold, t) \/ o = periods[<<Width, t>>].record
    BY DEF RecordsAt
  <1>5. CASE r \in HeldAt(fold, s) /\ o \in HeldAt(fold, t)
    BY <1>5, HeldApart
  <1>6. CASE r \in HeldAt(fold, s) /\ o = periods[<<Width, t>>].record
    BY <1>2, <1>3, <1>6
  <1>7. CASE r = periods[<<Width, s>>].record /\ o \in HeldAt(fold, t)
    BY <1>2, <1>3, <1>7
  <1>8. CASE r = periods[<<Width, s>>].record /\ o = periods[<<Width, t>>].record
    BY <1>1, <1>8 DEF Orderly
  <1> QED BY <1>4, <1>5, <1>6, <1>7, <1>8

LEMMA NothingTwiceFollows ==
  ASSUME StreamInv, PeriodInv, WindowInv, mishaps \in Nat
  PROVE  NothingCountedTwice
  <1>1. ASSUME NEW s \in Starts(Width), NEW r \in RecordsAt(fold, periods, s)
        PROVE  r.runs = Cardinality(r.counted)
    BY <1>1, RecordsAre DEF RecordOK
  <1>2. ASSUME NEW s \in Starts(Width), NEW t \in Starts(Width), s # t,
               NEW r \in HeldAt(fold, s), NEW o \in HeldAt(fold, t)
        PROVE  r.counted \cap o.counted = {}
    BY <1>2, HeldApart
  <1>3. ASSUME NEW s \in Starts(Width), NEW t \in Starts(Width), s # t,
               NEW r \in RecordsAt(fold, periods, s), NEW o \in RecordsAt(fold, periods, t),
               NEW p \in r.counted \cap o.counted
        PROVE  Late(p) /\ mishaps > 0
    <2>1. mishaps > 0
      <3>1. mishaps # 0
        BY <1>3, RecordsApart
      <3> QED BY <3>1
    <2>2. PICK n \in 0..Len(log) : RecordOK(log, n, s, r)
      BY <1>3, RecordsAre
    <2>3. PICK k \in 0..Len(log) : RecordOK(log, k, t, o)
      BY <1>3, RecordsAre
    <2>4. ~InTime(log, p) /\ p \in 1..n
      BY <1>3, <2>2, <2>3 DEF RecordOK
    <2>5. PICK q \in 1..(p - 1) : ~(At(log, q) <= At(log, p))
      BY <2>4 DEF InTime
    <2>6. p \in 1..Len(log) /\ q \in 1..Len(log) /\ log \in Seq(LogRecords)
      BY <2>2, <2>4, <2>5 DEF StreamInv
    <2>7. At(log, q) \in Nat /\ At(log, p) \in Nat
      BY <2>6, MomentFacts
    <2>8. At(log, q) > At(log, p)
      BY <2>5, <2>7
    <2>9. Late(p)
      BY <2>5, <2>8 DEF Late, At
    <2> QED BY <2>1, <2>9
  <1>4. ASSUME mishaps = 0, ~wiring.journaled,
               NEW p \in CountedIn(fold) \cup CountedWritten(periods),
               NEW q \in CountedIn(fold) \cup CountedWritten(periods),
               p < q, log[p].msg = log[q].msg
        PROVE  FarApart(p, q)
    <2>1. Held(fold, periods, p) /\ Held(fold, periods, q)
      BY RunEndsAre DEF Held
    <2>2. p \in 1..fold.through /\ q \in 1..fold.through
      BY <1>4, <2>1, HeldPassed
    <2>3. WindowOK(log, task.dedup, fold, periods)
      BY <1>4 DEF WindowInv
    <2>4. Cardinality(Between(log, p, q - 1)) >= DedupCapacity
      BY <1>4, <2>1, <2>2, <2>3 DEF WindowOK
    <2> QED BY <2>4 DEF FarApart, Between
  <1> QED BY <1>1, <1>2, <1>3, <1>4 DEF NothingCountedTwice

\* dedup.rs Deduplicator::admit, period_fold.rs PeriodFold::place and periods.rs
\* PeriodStore::write: a record counts each run end once, no fold counts one in two
\* periods, and across processes only one that came late can be in two.  Until a process
\* dies one message is counted once, unless a whole dedup window of other messages lies
\* between its copies or the journal handed one over.
THEOREM RunEndsAreCountedOnce == ProjectorSpec => []NothingCountedTwice
  <1>1. ASSUME wiring \in WiringSpace, NEW held \in Seq(Msgs), Len(held) <= MaxRecords,
               ProjectorInit(held)
        PROVE  WindowInv
    BY <1>1, WindowInit
  <1>2. wiring \in WiringSpace
        /\ (\E held \in Seq(Msgs) : Len(held) <= MaxRecords /\ ProjectorInit(held)) => WindowInv
    BY <1>1
  <1>3. ProjectorInv /\ ProjectorInv' /\ WindowInv /\ [ProjectorNext]_vars => WindowInv'
    BY WindowStep
  <1>4. ProjectorInv /\ WindowInv => NothingCountedTwice
    BY NothingTwiceFollows DEF ProjectorInv, Counters
  <1> QED BY <1>2, <1>3, <1>4, ProjectorInvHolds, PTL DEF ProjectorSpec

-----------------------------------------------------------------------------
(* What closed and is not written yet lies past what a restart starts from. *)

KeyEnd(k) == k[1] + k[2]

\* The written periods, and the closed ones that follow them, closed in the order of
\* their ends.
WrittenInOrder(store) ==
  \A k, o \in PeriodKeys :
    store[k].present /\ store[o].present /\ KeyEnd(k) <= KeyEnd(o) =>
      store[k].through <= store[o].through

ClosedInOrder(f, store) ==
  /\ \A k \in PeriodKeys : store[k].present =>
       KeyEnd(k) <= f.closedThrough /\ store[k].through <= f.through
  /\ \A i, j \in DOMAIN f.closed :
       i <= j \/ End(f.closed[i]) <= End(f.closed[j]) => f.closed[i].through <= f.closed[j].through
  /\ \A k \in PeriodKeys, i \in DOMAIN f.closed : store[k].present =>
       /\ store[k].through <= f.closed[i].through
       /\ End(f.closed[i]) <= KeyEnd(k) => f.closed[i].through <= store[k].through

LEMMA WrittenNumbers ==
  ASSUME NEW l \in Seq(LogRecords), NEW store, NEW W, NEW G, StoreOK(l, store, W, G)
  PROVE  \A k \in PeriodKeys : /\ KeyEnd(k) \in Nat
                               /\ store[k].present => store[k].through \in Nat \ {0}
  <1>1. Len(l) \in Nat
    OBVIOUS
  <1>2. ASSUME NEW k \in PeriodKeys, store[k].present PROVE store[k].through \in Nat \ {0}
    <2>1. store[k].through \in 1..Len(l)
      BY <1>2 DEF StoreOK, EntryOK
    <2> QED BY <1>1, <2>1
  <1>3. \A k \in PeriodKeys : KeyEnd(k) \in Nat
    BY KeyFacts DEF KeyEnd, Aligned
  <1> QED BY <1>2, <1>3

LEMMA OrderOnward ==
  ASSUME NEW l \in Seq(LogRecords), NEW store, NEW W, NEW G, StoreOK(l, store, W, G),
         NEW f, NEW g, FoldInv(l, f, W, G, 0), FoldInv(l, g, W, G, 0),
         NEW b, ClosesOn(f, g, b), ClosedInOrder(f, store)
  PROVE  ClosedInOrder(g, store)
  <1>1. /\ f.through \in Nat /\ f.closedThrough \in Int
        /\ Len(f.closed) \in Nat /\ DOMAIN f.closed = 1..Len(f.closed)
        /\ \A i \in DOMAIN f.closed :
             /\ f.closed[i].through \in Nat /\ End(f.closed[i]) \in Nat
             /\ End(f.closed[i]) <= f.closedThrough /\ f.closed[i].through <= f.through
    BY FoldNumbers DEF FoldInv
  <1>2. /\ g.through \in Nat /\ g.closedThrough \in Int
        /\ Len(g.closed) \in Nat /\ DOMAIN g.closed = 1..Len(g.closed)
        /\ \A i \in DOMAIN g.closed : g.closed[i].through \in Nat /\ End(g.closed[i]) \in Nat
    BY FoldNumbers DEF FoldInv
  <1>3. \A k \in PeriodKeys : /\ KeyEnd(k) \in Nat
                              /\ store[k].present => store[k].through \in Nat
    BY WrittenNumbers
  <1>4. f.through <= g.through /\ f.closedThrough <= g.closedThrough
    BY DEF ClosesOn
  <1>5. \A i \in DOMAIN g.closed :
          \/ i \in DOMAIN f.closed /\ g.closed[i] = f.closed[i]
          \/ i \in Added(f, g) /\ i \notin DOMAIN f.closed
    BY <1>1, <1>2 DEF ClosesOn, Added
  <1>6. \A i \in Added(f, g) : /\ f.through <= g.closed[i].through
                               /\ f.closedThrough < End(g.closed[i])
    BY DEF ClosesOn
  <1>7. ASSUME NEW k \in PeriodKeys, store[k].present
        PROVE  KeyEnd(k) <= g.closedThrough /\ store[k].through <= g.through
    <2>1. KeyEnd(k) <= f.closedThrough /\ store[k].through <= f.through
      BY <1>7 DEF ClosedInOrder
    <2> QED BY <1>1, <1>2, <1>3, <1>4, <1>7, <2>1
  <1>8. ASSUME NEW i \in DOMAIN g.closed, NEW j \in DOMAIN g.closed,
               i <= j \/ End(g.closed[i]) <= End(g.closed[j])
        PROVE  g.closed[i].through <= g.closed[j].through
    <2>1. CASE i \in Added(f, g) /\ j \in Added(f, g)
      BY <1>8, <2>1 DEF ClosesOn
    <2>2. CASE i \in DOMAIN f.closed /\ g.closed[i] = f.closed[i] /\ j \in Added(f, g)
      <3>1. g.closed[i].through \in Nat /\ g.closed[i].through <= f.through
        BY <1>1, <2>2
      <3>2. g.closed[j].through \in Nat /\ f.through <= g.closed[j].through
        BY <1>2, <1>6, <2>2
      <3> QED BY <1>1, <3>1, <3>2
    <2>3. CASE /\ i \in Added(f, g) /\ i \notin DOMAIN f.closed
               /\ j \in DOMAIN f.closed /\ g.closed[j] = f.closed[j]
      <3>1. ~(i <= j)
        BY <1>1, <1>2, <2>3 
      <3>2. ~(End(g.closed[i]) <= End(g.closed[j]))
        BY <1>1, <1>2, <1>6, <2>3
      <3> QED BY <1>8, <3>1, <3>2
    <2>4. CASE /\ i \in DOMAIN f.closed /\ g.closed[i] = f.closed[i]
               /\ j \in DOMAIN f.closed /\ g.closed[j] = f.closed[j]
      BY <1>8, <2>4 DEF ClosedInOrder
    <2> QED BY <1>5, <2>1, <2>2, <2>3, <2>4
  <1>9. ASSUME NEW k \in PeriodKeys, NEW i \in DOMAIN g.closed, store[k].present
        PROVE  /\ store[k].through <= g.closed[i].through
               /\ End(g.closed[i]) <= KeyEnd(k) => g.closed[i].through <= store[k].through
    <2>1. CASE i \in DOMAIN f.closed /\ g.closed[i] = f.closed[i]
      BY <1>9, <2>1 DEF ClosedInOrder
    <2>2. CASE i \in Added(f, g)
      <3>1. KeyEnd(k) <= f.closedThrough /\ store[k].through <= f.through
        BY <1>9 DEF ClosedInOrder
      <3>2. f.through <= g.closed[i].through /\ f.closedThrough < End(g.closed[i])
        BY <1>6, <2>2
      <3>3. /\ KeyEnd(k) \in Nat /\ store[k].through \in Nat
            /\ g.closed[i].through \in Nat /\ End(g.closed[i]) \in Nat
        BY <1>2, <1>3, <1>9
      <3> QED BY <1>1, <3>1, <3>2, <3>3
    <2> QED BY <1>5, <2>1, <2>2
  <1> QED BY <1>7, <1>8, <1>9 DEF ClosedInOrder

LEMMA OrderTaken ==
  ASSUME NEW l \in Seq(LogRecords), NEW store, NEW W, NEW G, StoreOK(l, store, W, G),
         NEW f, NEW g, FoldInv(l, f, W, G, 0), NEW c, NEW next, Puts(store, next, c),
         HeadLeft(f, g, c), WrittenInOrder(store), ClosedInOrder(f, store), \E X : g.closed \in Seq(X)
  PROVE  WrittenInOrder(next) /\ ClosedInOrder(g, next)
  <1> DEFINE key == <<c.level, c.from>>
  <1>1. /\ f.through \in Nat /\ f.closedThrough \in Int
        /\ Len(f.closed) \in Nat /\ DOMAIN f.closed = 1..Len(f.closed)
        /\ \A i \in DOMAIN f.closed :
             /\ f.closed[i].through \in Nat /\ End(f.closed[i]) \in Nat
             /\ f.closed[i].level \in {Width, Rollup} /\ f.closed[i].from \in Nat
             /\ End(f.closed[i]) <= f.closedThrough /\ f.closed[i].through <= f.through
    BY FoldNumbers DEF FoldInv
  <1>2. /\ g.through = f.through /\ g.closedThrough = f.closedThrough /\ c = f.closed[1]
        /\ 1 \in DOMAIN f.closed /\ Len(g.closed) = Len(f.closed) - 1
        /\ DOMAIN g.closed = 1..Len(g.closed)
        /\ \A i \in DOMAIN g.closed : /\ g.closed[i] = f.closed[i + 1]
                                      /\ i + 1 \in DOMAIN f.closed /\ 1 <= i + 1 /\ i \in Nat
    <2>1. /\ g.through = f.through /\ g.closedThrough = f.closedThrough /\ c = f.closed[1]
          /\ Len(f.closed) # 0 /\ Len(g.closed) = Len(f.closed) - 1
          /\ \A i \in 1..Len(g.closed) : g.closed[i] = f.closed[i + 1]
      BY DEF HeadLeft
    <2>2. DOMAIN g.closed = 1..Len(g.closed) /\ Len(g.closed) \in Nat
      OBVIOUS
    <2>3. \A i \in 1..Len(g.closed) : i \in Nat /\ 1 <= i + 1 /\ i + 1 \in 1..Len(f.closed)
      BY <1>1, <2>1, <2>2
    <2>4. 1 \in 1..Len(f.closed)
      BY <1>1, <2>1
    <2> QED BY <1>1, <2>1, <2>2, <2>3, <2>4
  <1>3. key \in PeriodKeys /\ KeyEnd(key) = End(c)
    <2>1. c.level \in Nat /\ c.from \in Nat
      BY <1>1, <1>2, PeriodFacts
    <2>2. key[1] = c.level /\ key[2] = c.from
      OBVIOUS
    <2>3. KeyEnd(key) = End(c)
      BY <2>1, <2>2 DEF KeyEnd, End
    <2> QED BY <2>3 DEF Puts
  <1> HIDE DEF key
  <1>4. \A k \in PeriodKeys : next[k].present =>
          \/ store[k].present /\ next[k].through = store[k].through
          \/ k = key /\ next[k].through = c.through
    BY <1>3 DEF Puts, key
  <1>5. ASSUME NEW k \in PeriodKeys, NEW o \in PeriodKeys, next[k].present, next[o].present,
               KeyEnd(k) <= KeyEnd(o)
        PROVE  next[k].through <= next[o].through
    <2>1. CASE /\ store[k].present /\ next[k].through = store[k].through
               /\ store[o].present /\ next[o].through = store[o].through
      BY <1>5, <2>1 DEF WrittenInOrder
    <2>2. CASE /\ store[k].present /\ next[k].through = store[k].through
               /\ o = key /\ next[o].through = c.through
      BY <1>2, <2>2 DEF ClosedInOrder
    <2>3. CASE /\ k = key /\ next[k].through = c.through
               /\ store[o].present /\ next[o].through = store[o].through
      BY <1>2, <1>3, <1>5, <2>3 DEF ClosedInOrder
    <2>4. CASE k = key /\ next[k].through = c.through /\ o = key /\ next[o].through = c.through
      BY <1>1, <1>2, <2>4
    <2> QED BY <1>4, <1>5, <2>1, <2>2, <2>3, <2>4
  <1>6. ASSUME NEW k \in PeriodKeys, next[k].present
        PROVE  KeyEnd(k) <= g.closedThrough /\ next[k].through <= g.through
    <2>1. CASE store[k].present /\ next[k].through = store[k].through
      BY <1>2, <2>1 DEF ClosedInOrder
    <2>2. CASE k = key /\ next[k].through = c.through
      BY <1>1, <1>2, <1>3, <2>2
    <2> QED BY <1>4, <1>6, <2>1, <2>2
  <1>7. ASSUME NEW i \in DOMAIN g.closed, NEW j \in DOMAIN g.closed,
               i <= j \/ End(g.closed[i]) <= End(g.closed[j])
        PROVE  g.closed[i].through <= g.closed[j].through
    <2>1. i <= j => i + 1 <= j + 1
      BY <1>2
    <2> QED BY <1>2, <1>7, <2>1 DEF ClosedInOrder
  <1>8. ASSUME NEW k \in PeriodKeys, NEW i \in DOMAIN g.closed, next[k].present
        PROVE  /\ next[k].through <= g.closed[i].through
               /\ End(g.closed[i]) <= KeyEnd(k) => g.closed[i].through <= next[k].through
    <2>1. CASE store[k].present /\ next[k].through = store[k].through
      BY <1>2, <2>1 DEF ClosedInOrder
    <2>2. CASE k = key /\ next[k].through = c.through
      BY <1>2, <1>3, <2>2 DEF ClosedInOrder
    <2> QED BY <1>4, <1>8, <2>1, <2>2
  <1> QED BY <1>5, <1>6, <1>7, <1>8 DEF WrittenInOrder, ClosedInOrder

\* A fold that starts without a saved state starts past every written period.
LEMMA OrderLoaded ==
  ASSUME NEW l \in Seq(LogRecords), NEW store, NEW W, NEW G, StoreOK(l, store, W, G),
         NEW saved, FoldInv(l, saved, W, G, 0), saved.closed = <<>>, saved.missed = {},
         saved.through = 0, WrittenInOrder(store)
  PROVE  ClosedInOrder(Loaded(saved, store), store)
  <1> DEFINE f == Loaded(saved, store)
  <1>1. /\ f.closed = <<>>
        /\ \/ \A k \in PeriodKeys : ~store[k].present
           \/ f = Recovered(store) /\ \E k \in PeriodKeys : store[k].present
    BY LoadedHolds
  <1> HIDE DEF f
  <1>2. ASSUME NEW k \in PeriodKeys, store[k].present
        PROVE  KeyEnd(k) <= f.closedThrough /\ store[k].through <= f.through
    <2>1. IsRecovered(f, store)
      BY <1>1, <1>2, RecoveredHolds
    <2> QED BY <1>2, <2>1 DEF IsRecovered, KeyEnd, WrittenInOrder
  <1>3. DOMAIN f.closed = {}
    BY <1>1
  <1> QED BY <1>2, <1>3 DEF ClosedInOrder, f

\* Nothing closes, nothing is written, and a state is saved only when all that closed is.
Still ==
  /\ periods' = periods /\ wiring' = wiring
  /\ fold'.closed = fold.closed /\ fold'.through = fold.through
  /\ fold'.closedThrough = fold.closedThrough
  /\ \/ savedFold' = savedFold
     \/ fold.closed = <<>> /\ savedFold' = fold /\ fold.through > savedFold.through
  /\ task'.at = "off" <=> task.at = "off"

LEMMA PeriodMoves ==
  ASSUME ProjectorInv, [ProjectorNext]_vars
  PROVE  \/ Crash \/ Exit \/ StartProjector \/ Handle
         \/ WriteClosed /\ (periods' # periods \/ fold' # fold)
         \/ Still
  <1>0. AskedInv /\ TaskInv /\ DOMAIN fold = FoldFields
    BY DEF ProjectorInv, PeriodInv, FoldInv, PlaceOK
  <1> SUFFICES ASSUME ~Crash, ~Exit, ~StartProjector, ~Handle,
                      ~(WriteClosed /\ (periods' # periods \/ fold' # fold))
               PROVE  Still
    OBVIOUS
  <1>1. wiring' = wiring
    BY <1>0, WindowStays
  <1>2. task'.at = "off" => task.at = "off"
    BY <1>0, OnlyACrashTurnsOff
  <1>3. ASSUME fold' = fold, periods' = periods, savedFold' = savedFold,
               task.at = "off" => task'.at = "off"
        PROVE  Still
    BY <1>1, <1>2, <1>3 DEF Still
  <1>4. CASE LogStep \/ JournalStep \/ UNCHANGED vars
    BY <1>3, <1>4 DEF LogStep, Unlogged, JournalStep, StartJournal, JournalReads, JournalCaughtUp,
                      JournalTick, KeepPage, foldVars, vars
  <1>5. CASE CaughtUp \/ SweepTimer \/ FlushTimer \/ SourceEnds \/ Shutdown
    BY <1>3, <1>5 DEF CaughtUp, SweepTimer, FlushTimer, SourceEnds, Shutdown, foldVars
  <1>6. CASE WriteSpans \/ FlushAsked \/ Commit
    BY <1>3, <1>6 DEF WriteSpans, FlushAsked, Commit, foldVars
  <1>7. CASE WriteGap
    <2>1. /\ task.at = "periods" /\ periods' = periods /\ savedFold' = savedFold
          /\ \/ fold' = fold \/ \E gap : fold' = [fold EXCEPT !.missed = @ \ {gap}]
      BY <1>7 DEF WriteGap, PeriodsFail, foldVars
    <2>2. /\ fold'.closed = fold.closed /\ fold'.through = fold.through
          /\ fold'.closedThrough = fold.closedThrough
      BY <1>0, <2>1 DEF FoldFields
    <2> QED BY <1>1, <1>2, <2>1, <2>2 DEF Still
  <1>8. CASE WriteClosed
    <2>1. task.at = "periods" /\ savedFold' = savedFold
      BY <1>8 DEF WriteClosed, PeriodsFail, foldVars
    <2> QED BY <1>3, <1>8, <2>1
  <1>9. CASE SaveFold
    <2>1. /\ task.at = "periods" /\ periods' = periods /\ fold' = fold /\ fold.closed = <<>>
          /\ \/ savedFold' = savedFold
             \/ savedFold' = fold /\ fold.through > savedFold.through
      BY <1>9 DEF SaveFold
    <2> QED BY <1>1, <1>2, <2>1 DEF Still
  <1> QED BY <1>4, <1>5, <1>6, <1>7, <1>8, <1>9 DEF ProjectorNext, ReadStep, FlushStep

\* A message closes only past what the fold passed, and past what was handed over
\* before it unless the journal leads the fold on.
LEMMA HandleCloses ==
  ASSUME ProjectorInv, Handle
  PROVE  /\ UNCHANGED <<savedFold, periods, committed, wiring, reach>>
         /\ task.at = "loop" /\ task'.at \in {"spans", "loop"}
         /\ task'.checkpoint = sub'["projector"].delivered
         /\ sub["projector"].delivered < sub'["projector"].delivered
         /\ fold' = fold \/ Folds
         /\ FoldInv(log, fold', Accountable(periods), gaps, 0)
         /\ ClosesOn(fold, fold', fold.through)
         /\ ~wiring.journaled => ClosesOn(fold, fold', sub["projector"].delivered)
  <1> DEFINE p == NextDelivery("projector")
             W == Accountable(periods)
             d == sub["projector"].delivered
  <1>0. StreamInv /\ BusInv /\ AskedInv /\ PagesInv /\ TaskInv /\ PeriodInv
    BY DEF ProjectorInv
  <1>1. /\ p # 0 /\ HandleEvent(p) /\ task.at = "loop"
        /\ sub' = [sub EXCEPT !["projector"] = Delivered("projector", p)]
        /\ UNCHANGED <<savedFold, periods, committed, wiring, reach>>
    BY DEF Handle, journalVars
  <1>2. p \in 1..Len(log) /\ log \in Seq(LogRecords) /\ PagesAreOK /\ d < p /\ d \in Nat
    BY <1>0, <1>1, NextOfProjector, NextPasses
       DEF AskedInv, SourceSide, SubRecords, Positions, StreamInv, PagesInv
  <1>3. sub'["projector"].delivered = p
    BY <1>0, <1>1, BothRead DEF AskedInv, SourceSide, Delivered, SubRecords
  <1> HIDE DEF p, d
  <1>4. task'.at \in {"spans", "loop"} /\ task'.checkpoint = p
    <2>1. {"at", "checkpoint"} \subseteq DOMAIN task
      BY <1>0 DEF TaskInv, TaskRecords
    <2> QED BY <1>1, <2>1 DEF HandleEvent
  <1>5. FoldInv(log, fold, W, gaps, 0)
    BY <1>0 DEF PeriodInv
  <1> HIDE DEF W
  <1>6. fold.through \in Nat
    BY <1>2, <1>5, FoldNumbers DEF FoldInv
  <1>7. /\ fold' = fold \/ Folds
        /\ FoldInv(log, fold', W, gaps, 0)
        /\ ClosesOn(fold, fold', fold.through)
        /\ ~wiring.journaled => ClosesOn(fold, fold', d)
    <2>1. CASE fold' = fold
      BY <1>2, <1>5, <2>1, ClosesNothing DEF FoldInv
    <2>2. CASE fold' # fold
      <3>1. Folds /\ Folded(fold, p)
        BY <1>1, <2>2 DEF HandleEvent
      <3>2. fold' = Apply(fold, p) \/ (HasGap(fold, p) /\ fold' = Apply(JournalRefilled(fold, p), p))
        BY <3>1 DEF Folded
      <3>3. Onward(log, fold, fold', W, gaps, fold.through)
        BY <1>2, <1>5, <1>6, <3>2, FoldedKeeps
      <3>4. ASSUME ~wiring.journaled PROVE Onward(log, fold, fold', W, gaps, d)
        <4>1. fold' = Apply(fold, p)
          BY <3>2, <3>4 DEF HasGap
        <4> QED BY <1>2, <1>5, <4>1, ApplyKeeps
      <3> QED BY <3>1, <3>3, <3>4 DEF Onward
    <2> QED BY <2>1, <2>2
  <1> QED BY <1>1, <1>2, <1>3, <1>4, <1>7 DEF W, d

\* What closed lies past the state a restart loads.
PastSaved ==
  /\ task.at = "off" \/ ~Folds => fold.closed = <<>>
  /\ task.at # "off" => /\ savedFold.through <= fold.through
                        /\ \A i \in DOMAIN fold.closed : savedFold.through < fold.closed[i].through

\* Until a state was saved, everything closed in order.
EndsInOrder ==
  savedFold.through = 0 =>
    /\ WrittenInOrder(periods)
    /\ task.at # "off" => ClosedInOrder(fold, periods)

\* A restart resumes from the committed position alone.
Direct ==
  /\ ~wiring.rebuild
  /\ \/ wiring.log = "laser"
     \/ savedFold.through = 0 /\ ~Indexes /\ \A k \in PeriodKeys : ~periods[k].present

\* A flush that reaches its commit has written all that closed.
Flushed ==
  /\ ~Indexes => reach.through = 0 /\ task.at # "asked"
  /\ task.at \in {"asked", "commit"} /\ ~task.held /\ task.mode # "leave" => fold.closed = <<>>
  /\ task.at # "off" => task.checkpoint <= sub["projector"].delivered

PastCommitted ==
  Direct /\ task.at # "off" =>
    /\ committed["projector"] <= sub["projector"].delivered
    /\ ~wiring.journaled => \A i \in DOMAIN fold.closed : committed["projector"] < fold.closed[i].through

RereadInv == PastSaved /\ EndsInOrder /\ Flushed /\ PastCommitted

\* The numbers the invariant compares.
LEMMA RereadNumbers ==
  ASSUME ProjectorInv
  PROVE  /\ fold.through \in Nat /\ savedFold.through \in Nat /\ fold.closedThrough \in Int
         /\ committed["projector"] \in Nat /\ sub["projector"].delivered \in Nat
         /\ task.checkpoint \in Nat /\ log \in Seq(LogRecords)
         /\ Len(fold.closed) \in Nat /\ DOMAIN fold.closed = 1..Len(fold.closed)
         /\ \A i \in DOMAIN fold.closed : fold.closed[i].through \in Nat
  <1>1. /\ FoldInv(log, fold, Accountable(periods), gaps, 0) /\ log \in Seq(LogRecords)
        /\ FoldInv(log, savedFold, Accountable(periods), gaps, 0)
    BY DEF ProjectorInv, PeriodInv, StreamInv
  <1>2. /\ fold.through \in Nat /\ fold.closedThrough \in Int
        /\ Len(fold.closed) \in Nat /\ DOMAIN fold.closed = 1..Len(fold.closed)
        /\ \A i \in DOMAIN fold.closed : fold.closed[i].through \in Nat
    BY <1>1, FoldNumbers DEF FoldInv
  <1>3. savedFold.through \in Nat
    BY <1>1, FoldNumbers DEF FoldInv
  <1>4. /\ committed["projector"] \in Nat /\ sub["projector"].delivered \in Nat /\ task.checkpoint \in Nat
    BY DEF ProjectorInv, AskedInv, SourceSide, SubRecords
  <1> QED BY <1>1, <1>2, <1>3, <1>4

\* What a start and what a death leave closed, and a period that is written.
LEMMA StartLoads ==
  ASSUME ProjectorInv, StartProjector
  PROVE  /\ fold'.closed = <<>> /\ fold'.through \in Nat /\ savedFold.through <= fold'.through
         /\ EndsInOrder => EndsInOrder'
  <1>1. /\ task.at = "off" /\ fold' = Loaded(savedFold, periods) /\ task'.at = "loop"
        /\ UNCHANGED <<savedFold, periods>>
    BY DEF StartProjector, NewTask
  <1>2. /\ StoreOK(log, periods, Accountable(periods), gaps) /\ log \in Seq(LogRecords)
        /\ FoldInv(log, savedFold, Accountable(periods), gaps, 0)
        /\ savedFold.closed = <<>> /\ savedFold.missed = {}
    BY DEF ProjectorInv, PeriodInv, StreamInv
  <1> DEFINE f == Loaded(savedFold, periods)
             W == Accountable(periods)
  <1> HIDE DEF W
  <1>3. FoldInv(log, f, W, gaps, 0) /\ f.closed = <<>> /\ (savedFold.through # 0 => f = savedFold)
    BY <1>2, LoadedHolds DEF W
  <1>4. ASSUME savedFold.through = 0, WrittenInOrder(periods) PROVE ClosedInOrder(f, periods)
    BY <1>2, <1>4, OrderLoaded DEF W
  <1> HIDE DEF f
  <1>5. f.through \in Nat
    BY <1>2, <1>3, FoldNumbers DEF FoldInv
  <1>6. savedFold.through <= f.through
    BY <1>3, <1>5, RereadNumbers
  <1>7. fold' = f
    BY <1>1 DEF f
  <1>8. EndsInOrder => EndsInOrder'
    BY <1>1, <1>4, <1>7 DEF EndsInOrder
  <1> QED BY <1>3, <1>5, <1>6, <1>7, <1>8

LEMMA DeathForgets ==
  ASSUME Crash \/ Exit
  PROVE  /\ fold'.closed = <<>> /\ task'.at = "off" /\ UNCHANGED <<savedFold, periods, wiring, reach>>
  <1>1. fold' = NewFold /\ task' = NewTask /\ UNCHANGED <<savedFold, periods, wiring, reach>>
    BY DEF Crash, CrashLog, Exit, Forgotten
  <1> QED BY <1>1, NewFoldIs DEF NewTask

LEMMA PastSavedStep ==
  ASSUME ProjectorInv, ProjectorInv', PastSaved, [ProjectorNext]_vars
  PROVE  PastSaved'
  <1>1. /\ fold.through \in Nat /\ savedFold.through \in Nat
        /\ Len(fold.closed) \in Nat /\ DOMAIN fold.closed = 1..Len(fold.closed)
    BY RereadNumbers
  <1>2. CASE Crash \/ Exit
    BY <1>2, DeathForgets DEF PastSaved
  <1>3. CASE StartProjector
    <2>1. /\ fold'.closed = <<>> /\ savedFold.through <= fold'.through /\ savedFold' = savedFold
      BY <1>3, StartLoads DEF StartProjector
    <2>2. DOMAIN fold'.closed = {}
      BY <2>1
    <2> QED BY <2>1, <2>2 DEF PastSaved
  <1>4. CASE Handle
    <2> DEFINE b == fold.through
    <2>1. /\ savedFold' = savedFold /\ wiring' = wiring /\ task.at = "loop" /\ task'.at # "off"
          /\ (fold' = fold \/ Folds) /\ ClosesOn(fold, fold', b)
      BY <1>4, HandleCloses
    <2>2. /\ fold'.through \in Nat /\ DOMAIN fold'.closed = 1..Len(fold'.closed)
          /\ \A i \in DOMAIN fold'.closed : fold'.closed[i].through \in Nat
      <3>1. (/\ fold.through \in Nat /\ DOMAIN fold.closed = 1..Len(fold.closed)
             /\ \A i \in DOMAIN fold.closed : fold.closed[i].through \in Nat)'
        BY RereadNumbers, PTL
      <3> QED BY <3>1
    <2>3. savedFold.through <= fold'.through
      BY <1>1, <2>1, <2>2 DEF PastSaved, ClosesOn
    <2>4. ASSUME NEW i \in DOMAIN fold'.closed PROVE savedFold.through < fold'.closed[i].through
      <3>1. CASE i \in DOMAIN fold.closed
        BY <2>1, <3>1 DEF PastSaved, ClosesOn
      <3>2. CASE i \notin DOMAIN fold.closed
        <4>1. i \in Added(fold, fold')
          BY <1>1, <2>2, <3>2 DEF Added
        <4>2. b < fold'.closed[i].through
          BY <2>1, <4>1 DEF ClosesOn
        <4> QED BY <1>1, <2>1, <2>2, <4>2 DEF PastSaved
      <3> QED BY <3>1, <3>2
    <2> QED BY <2>1, <2>3, <2>4 DEF PastSaved, Folds
  <1>5. CASE WriteClosed /\ (periods' # periods \/ fold' # fold)
    <2>1. /\ savedFold' = savedFold /\ wiring' = wiring /\ task' = task /\ task.at = "periods"
          /\ HeadLeft(fold, fold', Head(fold.closed))
      BY <1>5, ClosedIsWritten DEF ProjectorInv
    <2>2. DOMAIN fold'.closed = 1..Len(fold'.closed)
      <3>1. (DOMAIN fold.closed = 1..Len(fold.closed))'
        BY RereadNumbers, PTL
      <3> QED BY <3>1
    <2>3. /\ fold'.through = fold.through /\ Len(fold.closed) # 0
          /\ \A i \in DOMAIN fold'.closed : fold'.closed[i] = fold.closed[i + 1] /\ i + 1 \in DOMAIN fold.closed
      BY <1>1, <2>1, <2>2 DEF HeadLeft
    <2>4. Folds
      <3>1. fold.closed # <<>>
        BY <2>3
      <3> QED BY <3>1 DEF PastSaved
    <2> QED BY <2>1, <2>3, <2>4 DEF PastSaved, Folds
  <1>6. CASE Still
    <2>1. CASE savedFold' = savedFold
      BY <1>6, <2>1 DEF Still, PastSaved, Folds
    <2>2. CASE fold.closed = <<>> /\ savedFold' = fold /\ fold.through > savedFold.through
      <3>1. fold'.closed = <<>> /\ DOMAIN fold'.closed = {} /\ fold'.through = fold.through
        BY <1>6, <2>2 DEF Still
      <3> QED BY <1>1, <2>2, <3>1 DEF PastSaved
    <2> QED BY <1>6, <2>1, <2>2 DEF Still
  <1> QED BY <1>2, <1>3, <1>4, <1>5, <1>6, PeriodMoves

LEMMA EndsInOrderStep ==
  ASSUME ProjectorInv, ProjectorInv', PastSaved, EndsInOrder, [ProjectorNext]_vars
  PROVE  EndsInOrder'
  <1> DEFINE W == Accountable(periods)
  <1>1. /\ fold.through \in Nat /\ savedFold.through \in Nat /\ log \in Seq(LogRecords)
        /\ StoreOK(log, periods, W, gaps) /\ FoldInv(log, fold, W, gaps, 0)
    BY RereadNumbers DEF ProjectorInv, PeriodInv
  <1> HIDE DEF W
  <1>2. CASE Crash \/ Exit
    BY <1>2, DeathForgets DEF EndsInOrder
  <1>3. CASE StartProjector
    BY <1>3, StartLoads
  <1>4. CASE Handle
    <2> DEFINE g == fold'
               b == fold.through
    <2>1. /\ UNCHANGED <<savedFold, periods>> /\ task.at = "loop"
          /\ FoldInv(log, g, W, gaps, 0) /\ ClosesOn(fold, g, b)
      BY <1>4, HandleCloses DEF W
    <2> HIDE DEF g, b
    <2>2. ClosedInOrder(fold, periods) => ClosedInOrder(g, periods)
      BY <1>1, <2>1, OrderOnward
    <2> QED BY <2>1, <2>2 DEF EndsInOrder, g
  <1>5. CASE WriteClosed /\ (periods' # periods \/ fold' # fold)
    <2> DEFINE g == fold'
               next == periods'
               c == Head(fold.closed)
    <2>1. /\ savedFold' = savedFold /\ task' = task /\ task.at = "periods"
          /\ HeadLeft(fold, g, c) /\ Puts(periods, next, c)
      BY <1>5, ClosedIsWritten DEF ProjectorInv
    <2>2. \E X : g.closed \in Seq(X)
      BY DEF ProjectorInv, PeriodInv, FoldInv, ClosedOK
    <2> HIDE DEF g, next, c
    <2>3. WrittenInOrder(periods) /\ ClosedInOrder(fold, periods) =>
            WrittenInOrder(next) /\ ClosedInOrder(g, next)
      BY <1>1, <2>1, <2>2, OrderTaken
    <2> QED BY <2>1, <2>3 DEF EndsInOrder, g, next
  <1>6. CASE Still
    <2>1. savedFold'.through = 0 => savedFold' = savedFold
      BY <1>1, <1>6 DEF Still
    <2>2. ClosedInOrder(fold, periods) => ClosedInOrder(fold', periods)
      BY <1>6 DEF Still, ClosedInOrder
    <2> QED BY <1>6, <2>1, <2>2 DEF Still, EndsInOrder
  <1> QED BY <1>2, <1>3, <1>4, <1>5, <1>6, PeriodMoves

\* A step of the task that hands over nothing, and what it keeps of a flush.
LEMMA FlushedStays ==
  ASSUME Flushed, UNCHANGED <<wiring, reach>>, sub'["projector"].delivered = sub["projector"].delivered,
         task'.at # "off" => task'.checkpoint <= sub["projector"].delivered,
         task'.at = "asked" => Indexes,
         task'.at \in {"asked", "commit"} /\ ~task'.held /\ task'.mode # "leave" => fold'.closed = <<>>
  PROVE  Flushed'
  BY DEF Flushed, Indexes

LEMMA FlushedStep ==
  ASSUME ProjectorInv, ProjectorInv', PastSaved, Flushed, [ProjectorNext]_vars
  PROVE  Flushed'
  <1>0. /\ AskedInv /\ TaskInv /\ task \in TaskRecords(Positions)
        /\ {"at", "mode", "held", "checkpoint"} \subseteq DOMAIN task
        /\ task.mode \in {"flush", "end", "exit", "leave"} /\ DOMAIN fold = FoldFields
        /\ task.checkpoint \in Nat /\ sub["projector"].delivered \in Nat
    BY RereadNumbers DEF ProjectorInv, TaskInv, TaskRecords, PeriodInv, FoldInv, PlaceOK
  <1>1. CASE Crash \/ Exit
    BY <1>1, DeathForgets DEF Flushed, Indexes
  <1>2. CASE StartProjector
    <2>1. /\ task'.at = "loop" /\ task'.checkpoint = 0 /\ UNCHANGED <<wiring, reach>>
      BY <1>2 DEF StartProjector, NewTask
    <2>2. (sub["projector"].delivered \in Nat)'
      BY RereadNumbers, PTL
    <2>3. 0 <= sub'["projector"].delivered
      BY <2>2
    <2> QED BY <2>1, <2>3 DEF Flushed, Indexes
  <1>3. CASE Handle
    <2>1. /\ task'.checkpoint = sub'["projector"].delivered /\ task'.at \in {"spans", "loop"}
          /\ sub["projector"].delivered < sub'["projector"].delivered
          /\ UNCHANGED <<wiring, reach>>
      BY <1>3, HandleCloses
    <2>2. (sub["projector"].delivered \in Nat)'
      BY RereadNumbers, PTL
    <2>3. task'.checkpoint <= sub'["projector"].delivered
      BY <2>1, <2>2
    <2> QED BY <2>1, <2>3 DEF Flushed, Indexes
  <1>4. ASSUME ~Crash, ~Exit, ~StartProjector, ~Handle, reach' = reach,
               \/ fold' = fold \/ task'.at \notin {"asked", "commit"},
               task'.at # "off" => task'.checkpoint <= sub["projector"].delivered,
               task'.at = "asked" => Indexes,
               task'.at \in {"asked", "commit"} /\ ~task'.held /\ task'.mode # "leave" => fold.closed = <<>>
        PROVE  Flushed'
    <2>1. wiring' = wiring /\ sub'["projector"].delivered = sub["projector"].delivered
      BY <1>0, <1>4, WindowStays
    <2> QED BY <1>4, <2>1, FlushedStays
  <1>5. \A mode \in {"flush", "end", "exit", "leave"} :
          /\ FromPeriods(mode) = "asked" \/ FromAsked(mode) = "asked" => Indexes
          /\ FromPeriods(mode) \in {"asked", "commit"} => ~Folds \/ mode = "leave"
          /\ Done(mode) \in {"commit", "left"}
          /\ FromPeriods(mode) # "off" /\ FromAsked(mode) # "off"
    BY DEF FromPeriods, FromAsked, Done
  <1>6. ASSUME ~Crash, ~Exit, ~StartProjector, ~Handle, reach' = reach, fold' = fold, task.at # "off",
               NEW at, at = "asked" => Indexes,
               \/ Goes(at) /\ (at \in {"asked", "commit"} /\ ~task.held /\ task.mode # "leave" => fold.closed = <<>>)
               \/ Holds(at)
        PROVE  Flushed'
    <2>1. /\ task'.at = at /\ task'.checkpoint = task.checkpoint /\ task'.mode = task.mode
          /\ task'.held \/ task'.held = task.held
          /\ Holds(at) => task'.held
      BY <1>0, <1>6 DEF Goes, Holds
    <2>2. task.checkpoint <= sub["projector"].delivered
      BY <1>6 DEF Flushed
    <2> QED BY <1>4, <1>6, <2>1, <2>2
  <1>7. CASE ~Crash /\ ~Exit /\ ~StartProjector /\ ~Handle
    <2>1. CASE LogStep \/ JournalStep \/ UNCHANGED vars
      <3>1. fold' = fold /\ task' = task /\ reach' = reach
        BY <2>1 DEF LogStep, Unlogged, JournalStep, StartJournal, JournalReads, JournalCaughtUp,
                    JournalTick, KeepPage, foldVars, askedVars, vars
      <3> QED BY <1>4, <1>7, <3>1 DEF Flushed
    <2>2. CASE CaughtUp \/ FlushTimer \/ SourceEnds \/ Shutdown \/ SweepTimer
      <3>1. /\ fold' = fold /\ reach' = reach /\ task.at = "loop"
            /\ task'.at \in {"spans", "loop"}
            /\ task'.checkpoint \in {task.checkpoint, sub["projector"].delivered}
        BY <1>0, <2>2 DEF CaughtUp, FlushTimer, SourceEnds, Shutdown, SweepTimer, StartsFlush,
                          foldVars, askedVars
      <3>2. task'.checkpoint <= sub["projector"].delivered
        BY <1>0, <3>1 DEF Flushed
      <3> QED BY <1>4, <1>7, <3>1, <3>2
    <2>3. CASE WriteSpans
      <3>1. /\ fold' = fold /\ reach' = reach /\ task.at = "spans"
            /\ Goes(FromPeriods(task.mode)) \/ Holds(FromPeriods(task.mode))
        BY <2>3 DEF WriteSpans, foldVars, askedVars
      <3>2. FromPeriods(task.mode) \in {"asked", "commit"} /\ task.mode # "leave" => fold.closed = <<>>
        BY <1>0, <1>5 DEF PastSaved
      <3> QED BY <1>0, <1>5, <1>6, <1>7, <3>1, <3>2
    <2>4. CASE PeriodsFail /\ task.at = "periods" /\ reach' = reach
      <3>1. fold' = fold /\ (IF task.mode = "leave" THEN Goes(FromAsked("leave")) ELSE Holds("commit"))
        BY <2>4 DEF PeriodsFail, foldVars
      <3>2. CASE task.mode = "leave"
        BY <1>0, <1>5, <1>6, <1>7, <2>4, <3>1, <3>2
      <3>3. CASE task.mode # "leave"
        BY <1>6, <1>7, <2>4, <3>1, <3>3
      <3> QED BY <3>2, <3>3
    <2>5. CASE (WriteGap \/ WriteClosed) /\ ~PeriodsFail
      <3>1. task' = task /\ task.at = "periods" /\ reach' = reach
        BY <2>5 DEF WriteGap, WriteClosed, askedVars
      <3> QED BY <1>4, <1>7, <3>1 DEF Flushed
    <2>6. CASE (WriteGap \/ WriteClosed) /\ PeriodsFail
      <3>1. task.at = "periods" /\ reach' = reach
        BY <2>6 DEF WriteGap, WriteClosed, askedVars
      <3> QED BY <2>4, <2>6, <3>1
    <2>7. CASE SaveFold
      <3>1. /\ fold' = fold /\ reach' = reach /\ task.at = "periods" /\ fold.closed = <<>>
            /\ Goes(FromAsked(task.mode))
        BY <2>7 DEF SaveFold, askedVars
      <3> QED BY <1>0, <1>5, <1>6, <1>7, <3>1
    <2>8. CASE FlushAsked
      <3>1. /\ fold' = fold /\ task.at = "asked" /\ Indexes
            /\ \/ Goes(Done(task.mode)) \/ Holds("commit")
               \/ Goes("left")
        BY <2>8 DEF FlushAsked, foldVars, Flushed
      <3>2. ~task.held /\ task.mode # "leave" => fold.closed = <<>>
        BY <3>1 DEF Flushed
      <3>3. /\ task'.at \in {"commit", "left"} /\ task'.checkpoint = task.checkpoint
            /\ task'.mode = task.mode /\ (task'.held \/ task'.held = task.held)
        BY <1>0, <1>5, <3>1 DEF Goes, Holds
      <3>4. wiring' = wiring /\ sub'["projector"].delivered = sub["projector"].delivered
        BY <1>0, <1>7, WindowStays
      <3> QED BY <3>1, <3>2, <3>3, <3>4 DEF Flushed, Indexes
    <2>9. CASE Commit
      <3>1. /\ fold' = fold /\ reach' = reach /\ task.at = "commit" /\ task'.checkpoint = 0
            /\ task'.mode = IF task.mode = "exit" THEN "leave" ELSE task.mode
            /\ task'.at = CASE task.mode = "flush" -> "loop"
                             [] task.mode = "end" -> "stopped"
                             [] task.mode = "exit" -> FromPeriods("leave")
        BY <1>0, <2>9 DEF Commit, foldVars, askedVars
      <3>2. task.mode \in {"flush", "end", "exit"}
        BY <1>0, <3>1 DEF TaskInv
      <3>3. task'.at \in {"loop", "stopped"} \/ (task'.at = FromPeriods("leave") /\ task'.mode = "leave")
        <4>1. CASE task.mode = "flush"
          BY <3>1, <4>1
        <4>2. CASE task.mode = "end"
          BY <3>1, <4>2
        <4>3. CASE task.mode = "exit"
          BY <3>1, <4>3
        <4> QED BY <3>2, <4>1, <4>2, <4>3
      <3>4. task'.at = "asked" => Indexes
        BY <1>5, <3>3
      <3>5. task'.checkpoint <= sub["projector"].delivered
        BY <1>0, <3>1
      <3> QED BY <1>4, <1>7, <3>1, <3>3, <3>4, <3>5
    <2> QED BY <1>7, <2>1, <2>2, <2>3, <2>5, <2>6, <2>7, <2>8, <2>9 DEF ProjectorNext, ReadStep, FlushStep
  <1> QED BY <1>1, <1>2, <1>3, <1>7

\* The committed position follows what was handed over, once all that closed is written.
LEMMA PastCommittedStep ==
  ASSUME ProjectorInv, ProjectorInv', PastSaved, Flushed, PastCommitted, [ProjectorNext]_vars
  PROVE  PastCommitted'
  <1> DEFINE d == sub["projector"].delivered
             n == committed["projector"]
  <1>0. /\ AskedInv /\ TaskInv /\ n \in Nat /\ d \in Nat
        /\ Len(fold.closed) \in Nat /\ DOMAIN fold.closed = 1..Len(fold.closed)
    BY RereadNumbers DEF ProjectorInv
  <1>0a. /\ d' \in Nat /\ DOMAIN fold'.closed = 1..Len(fold'.closed)
         /\ \A i \in DOMAIN fold'.closed : fold'.closed[i].through \in Nat
    <2>1. (/\ d \in Nat /\ DOMAIN fold.closed = 1..Len(fold.closed)
           /\ \A i \in DOMAIN fold.closed : fold.closed[i].through \in Nat)'
      BY RereadNumbers, PTL
    <2> QED BY <2>1
  <1>1. CASE Crash \/ Exit
    BY <1>1, DeathForgets DEF PastCommitted
  <1>2. CASE StartProjector
    <2>1. /\ fold' = Loaded(savedFold, periods) /\ fold'.closed = <<>> /\ DOMAIN fold'.closed = {}
          /\ d' = ResumeAt(fold'.through, reach.through)
          /\ UNCHANGED <<committed, savedFold, periods, wiring>>
      <3>1. fold'.closed = <<>>
        BY <1>2, StartLoads
      <3>2. sub' = [sub EXCEPT !["projector"] = Subscribed(ResumeAt(fold'.through, reach.through))]
        BY <1>2 DEF StartProjector
      <3>3. d' = ResumeAt(fold'.through, reach.through)
        BY <1>0, <3>2, BothRead DEF AskedInv, SourceSide, Subscribed
      <3> QED BY <1>2, <3>1, <3>3 DEF StartProjector
    <2>2. ASSUME Direct PROVE n <= d'
      <3>1. CASE wiring.log = "laser"
        <4>1. ResumeAt(fold'.through, reach.through) = n
          BY <2>2, <3>1 DEF Direct, ResumeAt, StoredCheckpoint, ColdStart
        <4> QED BY <1>0, <2>1, <4>1
      <3>2. CASE savedFold.through = 0 /\ ~Indexes /\ \A k \in PeriodKeys : ~periods[k].present
        <4>1. fold'.through = 0
          BY <2>1, <3>2, NewFoldIs DEF Loaded
        <4>2. reach.through = 0
          BY <3>2 DEF Flushed
        <4>3. ResumeAt(0, 0) = n
          BY <1>0, <2>2, <3>2 DEF Direct, ResumeAt, StoredCheckpoint, ColdStart, Max2
        <4> QED BY <1>0, <2>1, <4>1, <4>2, <4>3
      <3> QED BY <2>2, <3>1, <3>2 DEF Direct
    <2>3. Direct' = Direct /\ n' = n
      BY <2>1 DEF Direct, Indexes
    <2> QED BY <2>1, <2>2, <2>3 DEF PastCommitted
  <1>3. CASE Handle
    <2>1. /\ UNCHANGED <<savedFold, periods, committed, wiring>> /\ task.at = "loop"
          /\ d < d' /\ (~wiring.journaled => ClosesOn(fold, fold', d))
      BY <1>3, HandleCloses
    <2> SUFFICES ASSUME Direct PROVE /\ n <= d'
                                     /\ ~wiring.journaled => \A i \in DOMAIN fold'.closed : n < fold'.closed[i].through
      BY <2>1 DEF PastCommitted, Direct, Indexes
    <2>2. n <= d /\ (~wiring.journaled => \A i \in DOMAIN fold.closed : n < fold.closed[i].through)
      BY <2>1 DEF PastCommitted
    <2>3. n <= d'
      BY <1>0, <1>0a, <2>1, <2>2
    <2> HIDE DEF n, d
    <2>4. ASSUME ~wiring.journaled, NEW i \in DOMAIN fold'.closed
          PROVE  n < fold'.closed[i].through
      <3>1. CASE i \in DOMAIN fold.closed
        BY <2>1, <2>2, <2>4, <3>1 DEF ClosesOn
      <3>2. CASE i \notin DOMAIN fold.closed
        <4>1. i \in Added(fold, fold')
          BY <1>0, <1>0a, <3>2 DEF Added
        <4>2. d < fold'.closed[i].through
          BY <2>1, <2>4, <4>1 DEF ClosesOn
        <4> QED BY <1>0, <1>0a, <2>2, <4>2
      <3> QED BY <3>1, <3>2
    <2> QED BY <2>3, <2>4
  <1>4. ASSUME ~Crash, ~Exit, ~StartProjector, ~Handle
        PROVE  wiring' = wiring /\ d' = d /\ (task'.at = "off" => task.at = "off")
    BY <1>0, <1>4, WindowStays, OnlyACrashTurnsOff
  <1>5. CASE WriteClosed /\ (periods' # periods \/ fold' # fold)
    <2>1. /\ UNCHANGED <<savedFold, task, wiring, committed, sub>> /\ task.at = "periods"
          /\ Puts(periods, periods', Head(fold.closed)) /\ HeadLeft(fold, fold', Head(fold.closed))
      BY <1>5, ClosedIsWritten DEF ProjectorInv
    <2>2. \A i \in DOMAIN fold'.closed : fold'.closed[i] = fold.closed[i + 1] /\ i + 1 \in DOMAIN fold.closed
      BY <1>0, <1>0a, <2>1 DEF HeadLeft
    <2>3. Direct' => Direct
      <3>1. \A k \in PeriodKeys : periods[k].present => periods'[k].present
        BY <2>1 DEF Puts
      <3> QED BY <2>1, <3>1 DEF Direct, Indexes
    <2> QED BY <2>1, <2>2, <2>3 DEF PastCommitted
  <1>6. CASE Still /\ ~Crash /\ ~Exit /\ ~StartProjector /\ ~Handle
    <2>1. Direct' => Direct
      <3>1. savedFold'.through = 0 => savedFold.through = 0
        BY <1>6, RereadNumbers DEF Still
      <3> QED BY <1>6, <3>1 DEF Still, Direct, Indexes
    <2>2. CASE committed' = committed
      BY <1>4, <1>6, <2>1, <2>2 DEF Still, PastCommitted
    <2>3. CASE committed' # committed
      <3>1. n' = n \/ (Commit /\ n' = task.checkpoint /\ ~task.held)
        <4>1. CASE Commit
          <5>1. /\ ~task.held
                /\ committed' = [committed EXCEPT !["projector"] = task.checkpoint]
            BY <2>3, <4>1 DEF Commit
          <5> QED BY <1>0, <4>1, <5>1, BothRead DEF AskedInv, SourceSide
        <4>2. CASE KeepPage
          BY <1>0, <2>3, <4>2, BothRead DEF KeepPage, AskedInv, SourceSide
        <4>3. CASE ~Commit /\ ~KeepPage
          <5>1. UNCHANGED committed
            BY <1>6, <4>3 DEF ProjectorNext, LogStep, AppendBatch, AppendFails, Broadcast, SkipDelivered, Trim, OpenLog,
               ReadStep, CaughtUp, SweepTimer, FlushTimer, SourceEnds, Shutdown, logVars, busVars,
               FlushStep, WriteSpans, WriteGap, WriteClosed, SaveFold, FlushAsked,
               JournalStep, StartJournal, JournalReads, JournalCaughtUp, JournalTick, vars
          <5> QED BY <2>3, <5>1
        <4> QED BY <4>1, <4>2, <4>3
      <3>2. CASE n' = n
        BY <1>4, <1>6, <2>1, <3>2 DEF Still, PastCommitted
      <3>3. CASE Commit /\ n' = task.checkpoint /\ ~task.held
        <4>1. task.at = "commit" /\ task.mode # "leave"
          BY <1>0, <3>3 DEF Commit, TaskInv
        <4>2. fold.closed = <<>> /\ task.checkpoint <= d
          BY <3>3, <4>1 DEF Flushed
        <4>3. DOMAIN fold'.closed = {} /\ d' = d
          BY <1>4, <1>6, <4>2 DEF Still
        <4> QED BY <3>3, <4>2, <4>3 DEF PastCommitted
      <3> QED BY <3>1, <3>2, <3>3
    <2> QED BY <2>2, <2>3
  <1> QED BY <1>1, <1>2, <1>3, <1>5, <1>6, PeriodMoves

LEMMA RereadStep ==
  ASSUME ProjectorInv, ProjectorInv', RereadInv, [ProjectorNext]_vars
  PROVE  RereadInv'
  <1>1. PastSaved' /\ EndsInOrder'
    BY PastSavedStep, EndsInOrderStep DEF RereadInv
  <1>2. Flushed' /\ PastCommitted'
    BY FlushedStep, PastCommittedStep DEF RereadInv
  <1> QED BY <1>1, <1>2 DEF RereadInv

LEMMA RereadInit ==
  ASSUME NEW held \in Seq(Msgs), ProjectorInit(held)
  PROVE  RereadInv
  <1>1. /\ fold = NewFold /\ savedFold = NewFold /\ periods = NoPeriods /\ task = NewTask
        /\ reach = NoReach
    BY DEF ProjectorInit
  <1>2. task.at = "off" /\ fold.closed = <<>> /\ reach.through = 0
    BY <1>1, NewFoldIs DEF NewTask, NoReach
  <1>3. \A k \in PeriodKeys : ~periods[k].present
    BY <1>1 DEF NoPeriods, NoPeriod
  <1> QED BY <1>2, <1>3 DEF RereadInv, PastSaved, EndsInOrder, WrittenInOrder, Flushed, PastCommitted

\* Where a restart resumes from: behind what closed, or where it closed.
LEMMA RereadFollows ==
  ASSUME ProjectorInv, RereadInv
  PROVE  UnwrittenPeriodsAreReread
  <1> SUFFICES ASSUME NEW i \in DOMAIN fold.closed
               PROVE  LET c == fold.closed[i]
                          loaded == Loaded(savedFold, periods)
                      IN  /\ savedFold.through < c.through
                          /\ \/ periods[<<c.level, c.from>>].present
                             \/ ResumeAt(loaded.through, reach.through) < c.through
                             \/ wiring.journaled
                             \/ savedFold.through = 0 /\ (loaded.through = c.through \/ Indexes)
    BY DEF UnwrittenPeriodsAreReread
  <1> DEFINE c == fold.closed[i]
             f == Loaded(savedFold, periods)
             n == committed["projector"]
             W == Accountable(periods)
  <1>1. /\ c.through \in Nat /\ savedFold.through \in Nat /\ n \in Nat /\ reach.through \in Nat
        /\ log \in Seq(LogRecords) /\ wiring.log \in {"wal", "laser"}
    <2>1. wiring \in WiringSpace /\ reach \in ReachRecords
      BY DEF ProjectorInv, AskedInv, SourceSide, IndexSide
    <2>2. wiring.log \in {"wal", "laser"} /\ reach.through \in Nat
      BY <2>1 DEF WiringSpace, ReachRecords
    <2> QED BY <2>2, RereadNumbers
  <1>2. task.at # "off"
    BY DEF RereadInv, PastSaved
  <1>3. savedFold.through < c.through
    BY <1>2 DEF RereadInv, PastSaved
  <1>4. ASSUME Direct, ~wiring.journaled PROVE n < c.through
    BY <1>2, <1>4 DEF RereadInv, PastCommitted
  <1>5. /\ StoreOK(log, periods, W, gaps) /\ FoldInv(log, savedFold, W, gaps, 0)
        /\ savedFold.closed = <<>> /\ savedFold.missed = {}
    BY DEF ProjectorInv, PeriodInv
  <1> HIDE DEF W
  <1>6. CASE wiring.rebuild
    <2>1. ResumeAt(f.through, reach.through) = 0
      BY <1>6 DEF ResumeAt
    <2> QED BY <1>1, <1>3, <2>1
  <1>7. CASE ~wiring.rebuild /\ wiring.log = "laser" /\ ~wiring.journaled
    <2>1. ResumeAt(f.through, reach.through) = n
      BY <1>7 DEF ResumeAt, StoredCheckpoint, ColdStart
    <2>2. n < c.through
      BY <1>4, <1>7 DEF Direct
    <2> QED BY <1>3, <2>1, <2>2
  <1>8. CASE ~wiring.rebuild /\ wiring.log = "wal" /\ ~wiring.journaled
    <2> HIDE DEF f, c
    <2>1. ASSUME f.through \in Nat \ {0}
          PROVE  ResumeAt(f.through, reach.through) <= f.through /\ ResumeAt(f.through, reach.through) \in Nat
      BY <1>1, <1>8, <2>1 DEF ResumeAt, StoredCheckpoint, ColdStart, Max2
    <2>2. CASE savedFold.through # 0
      <3>1. f.through = savedFold.through
        BY <2>2 DEF f, Loaded
      <3>2. ResumeAt(f.through, reach.through) < c.through
        BY <1>1, <1>3, <2>1, <2>2, <3>1
      <3> QED BY <1>3, <3>2 DEF f, c
    <2>3. CASE savedFold.through = 0 /\ ~Indexes /\ \E k \in PeriodKeys : periods[k].present
      <3>1. f = Recovered(periods)
        BY <2>3 DEF f, Loaded
      <3>2. PICK k \in PeriodKeys : periods[k].present /\ f.through = periods[k].through
        BY <1>1, <1>5, <2>3, <3>1, RecoveredHolds DEF IsRecovered
      <3>3. f.through \in Nat \ {0}
        BY <1>1, <1>5, <3>2, WrittenNumbers
      <3>4. f.through <= c.through
        BY <1>2, <2>3, <3>2 DEF RereadInv, EndsInOrder, ClosedInOrder, c
      <3>5. f.through = c.through \/ ResumeAt(f.through, reach.through) < c.through
        BY <1>1, <2>1, <3>3, <3>4
      <3> QED BY <1>3, <2>3, <3>5 DEF f, c
    <2>4. CASE savedFold.through = 0 /\ ~Indexes /\ \A k \in PeriodKeys : ~periods[k].present
      <3>1. f.through = 0 /\ reach.through = 0
        BY <2>4, NewFoldIs DEF f, Loaded, RereadInv, Flushed
      <3>2. ResumeAt(0, 0) = n
        BY <1>1, <1>8 DEF ResumeAt, StoredCheckpoint, ColdStart, Max2
      <3>3. n < c.through
        BY <1>4, <1>8, <2>4 DEF Direct
      <3> QED BY <1>3, <3>1, <3>2, <3>3 DEF f, c
    <2>5. CASE savedFold.through = 0 /\ Indexes
      BY <1>3, <2>5 DEF c
    <2> QED BY <2>2, <2>3, <2>4, <2>5
  <1> QED BY <1>1, <1>3, <1>6, <1>7, <1>8

\* pipeline.rs Projector::flush and Projector::run, period_fold.rs PeriodOutput::load: what
\* closed and is not written is read again after a restart, since a state is saved and a
\* position committed only once it is written, and the older of the two is resumed from.
THEOREM UnwrittenPeriodsAreReadAgain == ProjectorSpec => []UnwrittenPeriodsAreReread
  <1>1. ASSUME wiring \in WiringSpace, NEW held \in Seq(Msgs), Len(held) <= MaxRecords,
               ProjectorInit(held)
        PROVE  RereadInv
    BY <1>1, RereadInit
  <1>2. wiring \in WiringSpace
        /\ (\E held \in Seq(Msgs) : Len(held) <= MaxRecords /\ ProjectorInit(held)) => RereadInv
    BY <1>1
  <1>3. ProjectorInv /\ ProjectorInv' /\ RereadInv /\ [ProjectorNext]_vars => RereadInv'
    BY RereadStep
  <1>4. ProjectorInv /\ RereadInv => UnwrittenPeriodsAreReread
    BY RereadFollows
  <1> QED BY <1>2, <1>3, <1>4, ProjectorInvHolds, PTL DEF ProjectorSpec
=============================================================================
