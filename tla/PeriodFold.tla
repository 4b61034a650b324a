----------------------------- MODULE PeriodFold -----------------------------
(***************************************************************************)
(* What a variant was observed doing, period by period                     *)
(* (aiwatcher-projector/src/period_fold.rs, periods.rs): a fold of the     *)
(* log that counts each run where it ended, closes a period once the log's *)
(* clock has passed it, adds closed periods up, and writes down positions  *)
(* it was never given.                                                     *)
(*                                                                         *)
(* Of a record's figures the number of runs is kept, with the positions of *)
(* the run ends it counts.  Three fields are there for the properties only: *)
(* counted, and first, the first position a state has read itself, and     *)
(* refused, what a period already written did not take.  One variant and   *)
(* one project; one wider level stands for the hour and the day.  A missed *)
(* span is never forgotten: the code keeps it for a day.  Positions start  *)
(* at 1, so position 0 is none; None is the absent moment.                 *)
(***************************************************************************)
EXTENDS EventLog, Integers, SequencesExt

CONSTANTS Width,   \* seconds in a period
          Rollup   \* seconds in the wider level

ASSUME PeriodAssumption ==
  /\ Width \in Nat \ {0} /\ Rollup \in Nat \ {0}
  /\ Rollup % Width = 0 /\ Rollup > Width

None == -1

Times == {Msg[m].at : m \in Msgs}
Floor(t, w) == t - (t % w)
\* grace_at: a tenth of the width, at least a second.
Grace == Max2(Width \div 10, 1)

Latest == CHOOSE t \in Times : \A u \in Times : u <= t

\* The starts of the periods w wide that any run could be placed in.
StartsOf == [w \in {Width, Rollup} |-> {s \in 0..Latest : s % w = 0}]
Starts(w) == StartsOf[w]
Empty == [counted |-> {}, runs |-> 0, complete |-> TRUE]

NewFold ==
  [first |-> 0, through |-> 0, clock |-> None, began |-> None, closedThrough |-> None,
   gapFrom |-> None,
   tracked |-> {}, sawStart |-> {},
   open |-> [s \in Starts(Width) |-> Empty],
   rollups |-> [s \in Starts(Rollup) |-> Empty],
   closed |-> <<>>, missed |-> {}, missedSpans |-> {}]

Overlaps(span, from, to) == span[1] < to /\ from <= span[2]
ReachesMissed(f, from, to) == \E span \in f.missedSpans : Overlaps(span, from, to)

\* Every record of these that counts anything says it is incomplete.
Incomplete(records, starts) ==
  [s \in DOMAIN records |->
     IF s \in starts /\ records[s].counted # {}
     THEN [records[s] EXCEPT !.complete = FALSE] ELSE records[s]]

\* When what was missed before bound may have ended, from then on.
MissedFrom(f, bound) ==
  LET known == IF f.clock # None THEN f.clock
               ELSE IF f.closedThrough # None THEN f.closedThrough
               ELSE IF f.began # None THEN f.began ELSE bound
  IN  IF known <= bound THEN known ELSE bound

Reached(w, from, bound) == {s \in Starts(w) : s <= bound /\ from < s + w}

MissedAndUnwritten(f, through, p, bound) ==
  LET from == MissedFrom(f, bound)
  IN  [f EXCEPT !.missedSpans = @ \cup {<<from, bound>>},
                !.open = Incomplete(@, Reached(Width, from, bound)),
                !.rollups = Incomplete(@, Reached(Rollup, from, bound))]

MissedAndUnflagged(f, through, p, bound) ==
  [f EXCEPT !.missed = @ \cup {<<through + 1, p - 1>>},
            !.missedSpans = @ \cup {<<MissedFrom(f, bound), bound>>}]

\* PeriodFold::missed_before: positions after through and before p were never
\* given to the fold; what lay there ended somewhere up to bound.
MissedBefore(f, through, p, bound) ==
  LET from == MissedFrom(f, bound)
  IN  [f EXCEPT !.missed = @ \cup {<<through + 1, p - 1>>},
                !.missedSpans = @ \cup {<<from, bound>>},
                !.open = Incomplete(@, Reached(Width, from, bound)),
                !.rollups = Incomplete(@, Reached(Rollup, from, bound))]

\* PeriodFold::place: a run that ended in a closed period is held in the oldest
\* open one.
Place(f, p, end, whole) ==
  LET ended == Floor(end, Width)
      into  == Max2(ended, Max2(f.closedThrough, f.began))
      whole2 == /\ whole
                /\ ~ReachesMissed(f, ended, ended + Width)
                /\ ~ReachesMissed(f, into, into + Width)
                /\ f.gapFrom \notin {ended, into}
  IN  [f EXCEPT !.open[into] = [counted |-> @.counted \cup {p}, runs |-> @.runs + 1,
                                complete |-> @.complete /\ whole2]]

\* PeriodFold::fold of the record at position p: a run is tracked from its
\* first event on and counted at its end, whole only if its start was seen.
FoldEvent(f, p) ==
  LET m == Msg[log[p].msg]
      ends == m.subject = "run" /\ m.phase = "end"
      starts == m.subject = "run" /\ m.phase = "start"
  IN  IF ends
      THEN [Place(f, p, m.at, m.run \in f.sawStart)
              EXCEPT !.tracked = @ \ {m.run}, !.sawStart = @ \ {m.run}]
      ELSE [f EXCEPT !.tracked = @ \cup {m.run},
                     !.sawStart = IF starts THEN @ \cup {m.run} ELSE @]

\* The keys of a map that iterates in order.
Ascending(S) ==
  CHOOSE q \in [1..Cardinality(S) -> S] : \A i, j \in DOMAIN q : i < j => q[i] < q[j]

\* What the clock has passed, the grace allowed for.
Edge(f) == Floor(f.clock - Grace, Width)
Closing(f) == {s \in Starts(Width) : s + Width <= Edge(f) /\ f.open[s].counted # {}}

\* The wider records with what closes merged into them.
Merged(f) ==
  LET Into(r) == {s \in Closing(f) : Floor(s, Rollup) = r /\ r >= f.began}
  IN  [r \in Starts(Rollup) |->
         [counted |-> f.rollups[r].counted \cup UNION {f.open[s].counted : s \in Into(r)},
          runs |-> f.rollups[r].runs + MapThenSumSet(LAMBDA s : f.open[s].runs, Into(r)),
          complete |-> f.rollups[r].complete /\ \A s \in Into(r) : f.open[s].complete]]

ClosedPeriods(f, w, starts, records) ==
  LET order == Ascending(starts)
  IN  [i \in DOMAIN order |-> [level |-> w, from |-> order[i], record |-> records[order[i]],
                               first |-> f.first, through |-> f.through, began |-> f.began]]

\* PeriodFold::close: every period the clock has passed closes into the wider
\* one it lies in, then every wider one that has ended.
Close(f) ==
  LET edge == Edge(f)
      closing == Closing(f)
      merged == Merged(f)
      ended == {r \in Starts(Rollup) : r + Rollup <= edge /\ merged[r].counted # {}}
  IN  IF edge <= (IF f.closedThrough # None THEN f.closedThrough ELSE f.began) THEN f
      ELSE [f EXCEPT !.open = [s \in DOMAIN @ |-> IF s \in closing THEN Empty ELSE @[s]],
                     !.rollups = [r \in DOMAIN @ |-> IF r \in ended THEN Empty ELSE merged[r]],
                     !.closed = @ \o ClosedPeriods(f, Width, closing, f.open)
                                  \o ClosedPeriods(f, Rollup, ended, merged),
                     !.closedThrough = edge]

\* PeriodFold::apply: an event at or before through is skipped, one past the
\* next position tells what was missed, and the clock closes periods after it.
Apply(f, p) ==
  LET bound == Msg[log[p].msg].at
      told  == IF f.through # 0 /\ p > f.through + 1
               THEN MissedBefore(f, f.through, p, bound) ELSE f
      begun == [told EXCEPT !.through = p,
                            !.first = IF @ = 0 THEN p ELSE @,
                            !.began = IF @ = None THEN Floor(bound, Width) ELSE @]
      folded == FoldEvent(begun, p)
  IN  IF p <= f.through THEN f
      ELSE Close([folded EXCEPT !.clock = Max2(@, bound)])

\* The events a page keeps of positions first..last, folded in order, without a
\* gap noticed between them (PeriodFold::refill sets through just before each).
ApplyEach(f, first, last, kept) ==
  LET upTo[p \in (first - 1)..last] ==
        IF p = first - 1 THEN f
        ELSE LET g == upTo[p - 1]
             IN  IF p \in kept /\ p > g.through THEN Apply([g EXCEPT !.through = p - 1], p)
                 ELSE g
  IN  upTo[last]

\* PeriodFold::refill from one journal page, up to until.
Refill(f, page, until) ==
  LET last == IF page.last <= until THEN page.last ELSE until
      told == IF page.first > f.through + 1
              THEN [MissedBefore(f, f.through, page.first, page.from)
                      EXCEPT !.through = page.first - 1]
              ELSE f
      read == ApplyEach(told, page.first, last, page.kept)
      through == [read EXCEPT !.through = Max2(@, last)]
  IN  IF f.through = 0 \/ page.last <= f.through \/ page.first > last THEN f
      ELSE IF last = page.last
           THEN Close([through EXCEPT !.clock = Max2(@, page.clock)])
           ELSE through

-----------------------------------------------------------------------------
(* The period store: objects that are created once.                        *)

NoPeriod == [present |-> FALSE, record |-> Empty, first |-> 0, through |-> 0, began |-> None,
             refused |-> {}]
PeriodKeys == {<<Width, s>> : s \in Starts(Width)} \cup {<<Rollup, s>> : s \in Starts(Rollup)}
NoPeriods == [k \in PeriodKeys |-> NoPeriod]

\* PeriodStore::write: a period already written stays as it is.
WritePeriod(store, c) ==
  LET key == <<c.level, c.from>>
  IN  IF store[key].present THEN [store EXCEPT ![key].refused = @ \cup c.record.counted]
      ELSE [store EXCEPT ![key] =
              [present |-> TRUE, record |-> c.record, first |-> c.first, through |-> c.through,
               began |-> c.began, refused |-> {}]]

\* PeriodStore::last_written: the period that ends last, the narrower first.
LastWritten(store) ==
  LET keys == {k \in PeriodKeys : store[k].present}
      End(k) == k[1] + k[2]
  IN  CHOOSE k \in keys : \A o \in keys : End(o) < End(k) \/ (End(o) = End(k) /\ k[1] <= o[1])

\* What the narrow periods of these starts add up to.
AddedUp(store, part) ==
  [counted |-> UNION {store[<<Width, s>>].record.counted : s \in part},
   runs |-> MapThenSumSet(LAMBDA s : store[<<Width, s>>].record.runs, part),
   complete |-> \A s \in part : store[<<Width, s>>].record.complete]

\* PeriodOutput::recover: the fold starts again from the last period written,
\* with the wider period it was adding up read back from the store.  Of what it
\* had passed and not closed nothing is left.
Recovered(store) ==
  LET k == LastWritten(store)
      closed == k[1] + k[2]
      r == Floor(closed, Rollup)
      part == {s \in Starts(Width) : /\ Floor(s, Rollup) = r /\ s < closed
                                     /\ store[<<Width, s>>].present}
      fold == [NewFold EXCEPT !.first = store[k].through + 1,
                              !.through = store[k].through, !.began = store[k].began,
                              !.closedThrough = closed, !.gapFrom = closed]
  IN  IF r >= store[k].began /\ r < closed /\ part # {}
      THEN [fold EXCEPT !.rollups[r] = AddedUp(store, part)] ELSE fold

\* PeriodOutput::load: the saved state, or what the written periods say, or a
\* fold that has read nothing.
Loaded(saved, store) ==
  CASE saved.through # 0 -> saved
    [] saved.through = 0 /\ \E k \in PeriodKeys : store[k].present -> Recovered(store)
    [] OTHER -> NewFold

-----------------------------------------------------------------------------
(* What a fold holds.                                                      *)

Span(gap) == gap[1]..gap[2]

\* The records of the periods, at the narrow width, that a fold has in memory.
ClosedAt(f, s) == {i \in DOMAIN f.closed : f.closed[i].level = Width /\ f.closed[i].from = s}
HeldAt(f, s) == {f.open[s]} \cup {f.closed[i].record : i \in ClosedAt(f, s)}

\* The run ends a fold counts in memory.
CountedIn(f) ==
  (UNION {f.open[s].counted : s \in Starts(Width)})
    \cup UNION {f.closed[i].record.counted : i \in {j \in DOMAIN f.closed : f.closed[j].level = Width}}

\* The run ends written periods count, and those a period written earlier, by a
\* fold that was lost before its state was saved, did not take.
CountedWritten(store) == UNION {store[<<Width, s>>].record.counted : s \in Starts(Width)}
RefusedBy(store) == UNION {store[<<Width, s>>].refused : s \in Starts(Width)}

\* The records that count what ended from s on, in memory and written.
RecordsAt(f, store, s) == HeldAt(f, s) \cup {store[<<Width, s>>].record}
=============================================================================
