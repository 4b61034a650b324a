------------------------------ MODULE Projector -----------------------------
(***************************************************************************)
(* The projector (aiwatcher-projector/src/pipeline.rs): one task that      *)
(* reads the log, drops redeliveries, folds, finishes spans, and at each   *)
(* flush writes spans, periods and the asked index before it commits its   *)
(* position; and the journal that runs beside it.  A flush is as many      *)
(* steps as it has durable writes, so that a crash can fall between any    *)
(* two of them; the task itself does nothing else meanwhile.               *)
(*                                                                         *)
(* A span is the position of the event that finished it, or that opened it *)
(* when a sweep or a shutdown did.  The assembler is abstracted to the     *)
(* spans that are open; SpanAssembler models it.  The read model, the live *)
(* publisher and the metrics are in memory or best effort and are left out.*)
(***************************************************************************)
EXTENDS PeriodFold, AskedIndex, FoldJournal

CONSTANTS DedupCapacity,   \* dedup_capacity
          FlushBatch,      \* flush_batch_size
          MaxTicks         \* bound: firings of the timers

ASSUME ProjectorAssumption ==
  /\ {"projector", "journal"} = Readers
  /\ DedupCapacity \in Nat \ {0} /\ FlushBatch \in Nat \ {0}
  /\ MaxTicks \in Nat

VARIABLES
  task,        \* the projector's task: where it is in its loop, what it holds
  fold,        \* the period fold in memory
  savedFold,   \* the fold state saved furthest along
  periods,     \* the periods written
  gaps,        \* the gaps written down
  asked,       \* the asked index in memory
  reach,       \* the reach saved furthest along
  askedPages,  \* the calls in written pages
  traces,      \* spans the trace store took
  parked,      \* spans in the dead letter queue
  journal,     \* the journal in memory
  kept,        \* the journal pages kept
  ticks        \* firings of the flush, sweep and page timers so far

foldVars  == <<fold, savedFold, periods, gaps>>
askedVars == <<asked, reach, askedPages>>
spanVars  == <<traces, parked>>
journalVars == <<journal, kept>>
vars == <<logVars, task, foldVars, askedVars, spanVars, journalVars, ticks>>

\* at: the step of the loop; mode: what made it flush.
NewTask == [at |-> "off", mode |-> "flush", held |-> FALSE, dedup |-> <<>>, open |-> {},
            spans |-> {}, checkpoint |-> 0]

ProjectorInit(held) ==
  /\ LogInit(held)
  /\ task = NewTask
  /\ fold = NewFold /\ savedFold = NewFold /\ periods = NoPeriods /\ gaps = {}
  /\ asked = NewIndex /\ reach = NoReach /\ askedPages = {}
  /\ traces = {} /\ parked = {}
  /\ journal = NewJournal(0) /\ kept = {}
  /\ ticks = 0

\* A write is taken, or refused while the model allows another failure.
Taken == UNCHANGED mishaps
Refused == mishaps < MaxMishaps /\ mishaps' = mishaps + 1
Ticks == ticks < MaxTicks /\ ticks' = ticks + 1

-----------------------------------------------------------------------------
(* Starting.                                                               *)

\* The outputs that are optional, as the deployment wires them.
Folds == "periods" \in wiring.outputs
Indexes == "asked" \in wiring.outputs

\* Checkpointer::load: the broker answers none and resumes the group itself.
StoredCheckpoint(c) == IF wiring.log = "wal" THEN committed[c] ELSE 0

\* What cold_start means to the adapter: the whole file, or whatever follows
\* the group's committed offset.
ColdStart(c) == IF wiring.log = "wal" THEN 0 ELSE committed[c]

\* Projector::run's resume position, from the checkpoint and the two outputs
\* that save their state less often.
ResumeAt(folded, indexed) ==
  LET stored == StoredCheckpoint("projector")
      behind == IF folded # 0 /\ indexed # 0
                THEN (IF folded <= indexed THEN folded ELSE indexed)
                ELSE Max2(folded, indexed)
  IN  CASE wiring.rebuild -> 0
        [] ~wiring.rebuild /\ stored = 0 -> ColdStart("projector")
        [] OTHER -> IF behind # 0 /\ stored > behind THEN behind ELSE stored

StartProjector ==
  /\ up /\ task.at = "off"
  /\ fold' = Loaded(savedFold, periods)
  /\ asked' = LoadedIndex(reach)
  /\ sub' = [sub EXCEPT !["projector"] = Subscribed(ResumeAt(fold'.through, reach.through))]
  /\ task' = [NewTask EXCEPT !.at = "loop"]
  /\ UNCHANGED <<wiring, log, trimmed, produced, streamPositions, outgoing, live, committed,
                 up, mishaps, savedFold, periods, gaps, reach, askedPages, spanVars,
                 journalVars, ticks>>

-----------------------------------------------------------------------------
(* One message of the source.                                              *)

AdmitForgetting(seen, m) == seen

\* Deduplicator::admit: the oldest id leaves when the window is full.
Admit(seen, m) ==
  IF Len(seen) >= DedupCapacity THEN Append(Tail(seen), m) ELSE Append(seen, m)

\* PeriodStore::pages: those that reach a position from first to last, in order
\* of their first.
PagesReaching(first, last) ==
  LET pages == {g \in kept : g.first <= last /\ g.last >= first}
  IN  CHOOSE q \in [1..Cardinality(pages) -> pages] :
        /\ \A g \in pages : \E i \in DOMAIN q : q[i] = g
        /\ \A i, j \in DOMAIN q : i < j => q[i].first <= q[j].first

\* PeriodOutput::apply: a gap before the event is looked for in the journal
\* first, and its pages are folded in order.
JournalRefilled(f, p) ==
  LET pages == PagesReaching(f.through + 1, p - 1)
      upTo[i \in 0..Len(pages)] ==
        IF i = 0 THEN f ELSE Refill(upTo[i - 1], pages[i], p - 1)
  IN  upTo[Len(pages)]

HasGap(f, p) == wiring.journaled /\ f.through # 0 /\ p > f.through + 1

\* The fold once it was handed position p; the journal may not be readable, and
\* then what it kept is written down as a gap.
Folded(f, p) ==
  \/ /\ Taken
     /\ fold' = Apply(IF HasGap(f, p) THEN JournalRefilled(f, p) ELSE f, p)
  \/ HasGap(f, p) /\ Refused /\ fold' = Apply(f, p)

\* SpanAssembler::ingest: a start opens a span, an end finishes one, opened or
\* not.
SpanOf(m) == <<Msg[m].run, Msg[m].subject>>

HandleEvent(p) ==
  LET m == log[p].msg
      ends == Msg[m].phase = "end"
      fresh == m \notin Range(task.dedup)
      spans == IF fresh /\ ends THEN task.spans \cup {p} ELSE task.spans
  IN  /\ task' = [task EXCEPT
                   !.checkpoint = p,
                   !.dedup = IF fresh THEN Admit(@, m) ELSE @,
                   !.open = IF ~fresh THEN @
                            ELSE IF ends THEN {q \in @ : SpanOf(log[q].msg) # SpanOf(m)}
                            ELSE IF \E q \in @ : SpanOf(log[q].msg) = SpanOf(m) THEN @
                            ELSE @ \cup {p},
                   !.spans = spans,
                   !.at = IF Cardinality(spans) >= FlushBatch THEN "spans" ELSE "loop",
                   !.mode = "flush"]
      /\ IF fresh /\ Folds THEN Folded(fold, p) ELSE Taken /\ UNCHANGED fold
      /\ asked' = IF fresh /\ Indexes THEN AskedApply(asked, p) ELSE asked

Handle ==
  /\ up /\ task.at = "loop"
  /\ LET p == NextDelivery("projector")
     IN  /\ p # 0
         /\ sub' = [sub EXCEPT !["projector"] = Delivered("projector", p)]
         /\ HandleEvent(p)
  /\ UNCHANGED <<wiring, log, trimmed, produced, streamPositions, outgoing, live, committed,
                 up, savedFold, periods, gaps, reach, askedPages, spanVars,
                 journalVars, ticks>>

\* Leaving the select loop for a flush, which hands the pending batch over.
StartsFlush(mode, spans, checkpoint, open) ==
  task' = [task EXCEPT !.at = "spans", !.mode = mode, !.spans = spans,
                       !.checkpoint = checkpoint, !.open = open]

CaughtUp ==
  /\ up /\ task.at = "loop" /\ CatchesUp("projector")
  /\ sub' = [sub EXCEPT !["projector"].state = "live"]
  /\ StartsFlush("flush", task.spans,
                 IF task.checkpoint = 0 THEN sub["projector"].delivered ELSE task.checkpoint,
                 task.open)
  /\ UNCHANGED <<wiring, log, trimmed, produced, streamPositions, outgoing, live, committed,
                 up, mishaps, foldVars, askedVars, spanVars, journalVars, ticks>>

\* Every sweep leaves a sample to flush, so the timer may find something always.
FlushTimer ==
  /\ up /\ task.at = "loop" /\ Ticks
  /\ StartsFlush("flush", task.spans, task.checkpoint, task.open)
  /\ UNCHANGED <<logVars, foldVars, askedVars, spanVars, journalVars>>

\* The sweep closes the spans that have been quiet longest.
SweepTimer ==
  /\ up /\ task.at = "loop" /\ Ticks
  /\ \E q \in task.open :
       LET stale == {o \in task.open : o <= q}
       IN  task' = [task EXCEPT !.open = @ \ stale, !.spans = @ \cup stale]
  /\ UNCHANGED <<logVars, foldVars, askedVars, spanVars, journalVars>>

\* The subscription lagged: the stream ends, the task flushes and returns, and
\* nothing in the process starts it again.
SourceEnds ==
  /\ up /\ task.at = "loop" /\ Lagged("projector")
  /\ sub' = [sub EXCEPT !["projector"].state = "ended"]
  /\ StartsFlush("end", task.spans, task.checkpoint, task.open)
  /\ UNCHANGED <<wiring, log, trimmed, produced, streamPositions, outgoing, live, committed,
                 up, mishaps, foldVars, askedVars, spanVars, journalVars, ticks>>

\* A shutdown drains the open spans and flushes.
Shutdown ==
  /\ up /\ task.at = "loop" /\ mishaps < MaxMishaps
  /\ StartsFlush("exit", task.spans \cup task.open, task.checkpoint, {})
  /\ UNCHANGED <<logVars, foldVars, askedVars, spanVars, journalVars, ticks>>

-----------------------------------------------------------------------------
(* The steps of a flush.                                                   *)

\* Where a flush goes on: the periods, the asked index, then the commit, or
\* nothing more when a shutdown has flushed and forces the two once again.
Done(mode) == IF mode = "leave" THEN "left" ELSE "commit"
FromAsked(mode) == IF Indexes THEN "asked" ELSE Done(mode)
FromPeriods(mode) == IF Folds THEN "periods" ELSE FromAsked(mode)

Goes(at) == task' = [task EXCEPT !.at = at]
\* A write that must not be lost failed: the checkpoint stays where it is.
Holds(at) == task' = [task EXCEPT !.at = at, !.held = TRUE]

\* The trace store takes the spans, or goes on failing until the retries are
\* used up, or rejects them, and rejected ones are parked.
WriteSpans ==
  /\ up /\ task.at = "spans"
  /\ \/ /\ Taken
        /\ traces' = traces \cup task.spans
        /\ Goes(FromPeriods(task.mode))
        /\ UNCHANGED parked
     \/ /\ task.spans # {} /\ Refused
        /\ parked' \in {parked, parked \cup task.spans}
        /\ Holds(FromPeriods(task.mode))
        /\ UNCHANGED traces
  /\ UNCHANGED <<busVars, foldVars, askedVars, journalVars, ticks>>

PeriodsFailUnheld ==
  /\ Refused
  /\ Goes(FromAsked(task.mode))
  /\ UNCHANGED foldVars

\* PeriodOutput::flush gives up at its first failed write.  The flush then
\* leaves the asked index alone; a shutdown's second pass does not.
PeriodsFail ==
  /\ Refused
  /\ IF task.mode = "leave" THEN Goes(FromAsked("leave")) ELSE Holds("commit")
  /\ UNCHANGED foldVars

WriteGap ==
  /\ up /\ task.at = "periods" /\ fold.missed # {}
  /\ LET gap == CHOOSE g \in fold.missed : \A o \in fold.missed : g[1] <= o[1]
     IN  \/ /\ Taken
            /\ gaps' = gaps \cup {gap}
            /\ fold' = [fold EXCEPT !.missed = @ \ {gap}]
            /\ UNCHANGED <<savedFold, periods, task>>
         \/ PeriodsFail
  /\ UNCHANGED <<busVars, askedVars, spanVars, journalVars, ticks>>

WriteClosed ==
  /\ up /\ task.at = "periods" /\ fold.missed = {} /\ fold.closed # <<>>
  /\ \/ /\ Taken
        /\ periods' = WritePeriod(periods, Head(fold.closed))
        /\ fold' = [fold EXCEPT !.closed = Tail(@)]
        /\ UNCHANGED <<savedFold, gaps, task>>
     \/ PeriodsFail
  /\ UNCHANGED <<busVars, askedVars, spanVars, journalVars, ticks>>

SaveFoldBeforeItsPeriods ==
  /\ up /\ task.at = "periods" /\ fold.missed = {} /\ Taken
  /\ savedFold' = IF fold.through > savedFold.through
                  THEN [fold EXCEPT !.closed = <<>>] ELSE savedFold
  /\ Goes(IF fold.closed = <<>> THEN FromAsked(task.mode) ELSE "periods")
  /\ UNCHANGED <<busVars, fold, periods, gaps, askedVars, spanVars, journalVars, ticks>>

\* The fold's state is saved when it is due, or forced, under the position it
\* was folded through; the state furthest along is the one loaded.
SaveFold ==
  /\ up /\ task.at = "periods" /\ fold.missed = {} /\ fold.closed = <<>>
  /\ \/ /\ Taken
        /\ savedFold' = IF fold.through > savedFold.through THEN fold ELSE savedFold
     \/ /\ Refused \/ (task.mode # "leave" /\ Taken)
        /\ UNCHANGED savedFold
  /\ Goes(FromAsked(task.mode))
  /\ UNCHANGED <<busVars, fold, periods, gaps, askedVars, spanVars, journalVars, ticks>>

\* AskedIndex::flush: a page of the waiting calls when it is due, then the
\* reach.
FlushAsked ==
  /\ up /\ task.at = "asked"
  /\ LET Written(saved) ==
           /\ askedPages' = askedPages \cup asked.pending
           /\ asked' = [asked EXCEPT !.pending = {}, !.through = asked.applied]
           /\ reach' = IF saved /\ asked.applied > reach.through THEN ReachOf(asked) ELSE reach
           /\ Goes(Done(task.mode))
     IN  \/ /\ \/ task.mode # "leave"
               \/ asked.pending = {} /\ asked.through = asked.applied
            /\ Taken /\ Goes(Done(task.mode)) /\ UNCHANGED askedVars
         \/ /\ asked.pending # {} \/ asked.through # asked.applied
            /\ \/ Taken /\ Written(TRUE)
               \/ Refused /\ Written(FALSE)
         \/ /\ asked.pending # {} /\ Refused
            /\ UNCHANGED askedVars
            /\ IF task.mode = "leave" THEN Goes("left") ELSE Holds("commit")
  /\ UNCHANGED <<busVars, foldVars, spanVars, journalVars, ticks>>

\* Commit last, and only when nothing that had to be written was refused.
Commit ==
  /\ up /\ task.at = "commit"
  /\ LET saves == task.checkpoint # 0 /\ ~task.held
     IN  \/ /\ Taken
            /\ committed' = IF saves THEN [committed EXCEPT !["projector"] = task.checkpoint]
                            ELSE committed
         \/ saves /\ Refused /\ UNCHANGED committed
  /\ task' = [task EXCEPT !.spans = {}, !.checkpoint = 0, !.held = FALSE,
                          !.at = CASE task.mode = "flush" -> "loop"
                                   [] task.mode = "end" -> "stopped"
                                   [] task.mode = "exit" -> FromPeriods("leave"),
                          !.mode = IF @ = "exit" THEN "leave" ELSE @]
  /\ UNCHANGED <<wiring, log, trimmed, produced, streamPositions, outgoing, live, sub, up,
                 foldVars, askedVars, spanVars, journalVars, ticks>>

-----------------------------------------------------------------------------
(* The journal, beside a projector that reads the broker's topic.  On the  *)
(* server's own log it would also end with a lagged subscription.          *)

StartJournal ==
  /\ up /\ wiring.journaled /\ sub["journal"].state = "off"
  /\ LET stored == StoredCheckpoint("journal")
     IN  /\ journal' = NewJournal(stored)
         /\ sub' = [sub EXCEPT !["journal"] =
                      Subscribed(IF stored # 0 THEN stored ELSE ColdStart("journal"))]
  /\ UNCHANGED <<wiring, log, trimmed, produced, streamPositions, outgoing, live, committed,
                 up, mishaps, task, foldVars, askedVars, spanVars, kept, ticks>>

JournalReads ==
  /\ up /\ journal.at = "loop"
  /\ LET p == NextDelivery("journal")
         read == ReadInto(journal, p)
     IN  /\ p # 0
         /\ sub' = [sub EXCEPT !["journal"] = Delivered("journal", p)]
         /\ journal' = IF read.through # journal.through
                       THEN [read EXCEPT !.at = "keep"] ELSE read
  /\ UNCHANGED <<wiring, log, trimmed, produced, streamPositions, outgoing, live, committed,
                 up, mishaps, task, foldVars, askedVars, spanVars, kept, ticks>>

\* The backlog is drained: the page being read is closed and kept.
JournalCaughtUp ==
  /\ up /\ journal.at = "loop" /\ CatchesUp("journal")
  /\ sub' = [sub EXCEPT !["journal"].state = "live"]
  /\ journal' = [ClosePage(journal) EXCEPT !.at = "keep"]
  /\ UNCHANGED <<wiring, log, trimmed, produced, streamPositions, outgoing, live, committed,
                 up, mishaps, task, foldVars, askedVars, spanVars, kept, ticks>>

\* The tick keeps what waits, and closes a page that was read into long enough.
JournalTick ==
  /\ up /\ journal.at = "loop" /\ Ticks
  /\ journal.reading # <<>> \/ journal.waiting # <<>>
  /\ \E closed \in {journal, ClosePage(journal)} :
       journal' = [closed EXCEPT !.at = "keep"]
  /\ UNCHANGED <<logVars, task, foldVars, askedVars, spanVars, kept>>

KeepPageAfterItsCommit ==
  /\ up /\ journal.at = "keep"
  /\ journal' = [journal EXCEPT !.at = "loop", !.waiting = <<>>]
  /\ committed' = IF journal.waiting = <<>> THEN committed
                  ELSE [committed EXCEPT !["journal"] = journal.waiting[1].last]
  /\ \/ Taken /\ kept' = kept \cup Range(journal.waiting)
     \/ Refused /\ UNCHANGED kept
  /\ UNCHANGED <<wiring, log, trimmed, produced, streamPositions, outgoing, live, sub, up,
                 task, foldVars, askedVars, spanVars, ticks>>

\* Journal::keep: pages in order, each committed once it is kept, up to the
\* first the store refuses.
KeepPage ==
  /\ up /\ journal.at = "keep"
  /\ LET page == Head(journal.waiting)
     IN  \/ /\ journal.waiting # <<>>
            /\ kept' = kept \cup {page}
            /\ journal' = [journal EXCEPT !.waiting = Tail(@)]
            /\ \/ /\ Taken
                  /\ committed' = [committed EXCEPT !["journal"] = page.last]
               \/ Refused /\ UNCHANGED committed
         \/ /\ (journal.waiting = <<>> /\ Taken) \/ (journal.waiting # <<>> /\ Refused)
            /\ journal' = [journal EXCEPT !.at = "loop"]
            /\ UNCHANGED <<kept, committed>>
  /\ UNCHANGED <<wiring, log, trimmed, produced, streamPositions, outgoing, live, sub, up,
                 task, foldVars, askedVars, spanVars, ticks>>

-----------------------------------------------------------------------------
(* The server dies, or leaves; it is opened again with an empty memory.    *)

Forgotten ==
  /\ task' = NewTask /\ fold' = NewFold /\ asked' = NewIndex /\ journal' = NewJournal(0)
  /\ UNCHANGED <<savedFold, periods, gaps, reach, askedPages, spanVars, kept, ticks>>

Crash == CrashLog /\ Forgotten

Exit ==
  /\ up /\ task.at = "left" /\ mishaps < MaxMishaps
  /\ journal.at = "loop" /\ journal.reading = <<>>
  /\ up' = FALSE /\ mishaps' = mishaps + 1
  /\ outgoing' = [a \in Appenders |-> <<>>] /\ live' = <<>>
  /\ sub' = [c \in Readers |-> NoSubscription]
  /\ UNCHANGED <<wiring, log, trimmed, produced, streamPositions, committed>>
  /\ Forgotten

Unlogged == UNCHANGED <<task, foldVars, askedVars, spanVars, journalVars, ticks>>

LogStep ==
  \/ \E a \in Appenders : AppendBatch(a) /\ Unlogged
  \/ \E a \in Appenders : AppendFails(a) /\ Unlogged
  \/ \E a \in Appenders : Broadcast(a) /\ Unlogged
  \/ \E c \in Readers : SkipDelivered(c) /\ Unlogged
  \/ Trim /\ Unlogged
  \/ OpenLog /\ Unlogged

ReadStep == StartProjector \/ Handle \/ CaughtUp \/ SweepTimer \/ FlushTimer \/ SourceEnds
FlushStep == WriteSpans \/ WriteGap \/ WriteClosed \/ SaveFold \/ FlushAsked \/ Commit
JournalStep ==
  \/ StartJournal \/ JournalReads \/ JournalCaughtUp \/ JournalTick \/ KeepPage

ProjectorNext ==
  \/ LogStep \/ ReadStep \/ FlushStep \/ JournalStep \/ Shutdown \/ Crash \/ Exit

\* A server of any deployment, started on a log that holds any messages.
ProjectorSpec ==
  /\ wiring \in WiringSpace
  /\ \E held \in Seq(Msgs) : Len(held) <= MaxRecords /\ ProjectorInit(held)
  /\ [][ProjectorNext]_vars

-----------------------------------------------------------------------------
(* Properties.                                                             *)

\* Every variable has its type.
ProjectorTypeOK ==
  /\ LogTypeOK
  /\ task.at \in {"off", "loop", "spans", "periods", "asked", "commit", "left", "stopped"}
  /\ task.mode \in {"flush", "end", "exit", "leave"} /\ task.held \in BOOLEAN
  /\ task.open \cup task.spans \cup traces \cup parked \cup askedPages \subseteq Positions
  /\ fold.through \in 0..Len(log) /\ savedFold.through \in 0..Len(log)
  /\ asked.applied \in 0..Len(log) /\ reach.through \in 0..Len(log)
  /\ journal.at \in {"loop", "keep"}
  /\ ticks \in 0..MaxTicks

RunEnds == {p \in Positions : Msg[log[p].msg].subject = "run" /\ Msg[log[p].msg].phase = "end"}

\* A position a fold passed is told of, in memory or written down, as missed.
ToldMissed(f, written, p) == \E gap \in f.missed \cup written : p \in Span(gap)

\* Of the run ends a fold has passed, each is counted, here or in a written
\* period, or lies in a gap, or was handed to a period that an earlier process
\* had written already.
Accounted(f, store, written) ==
  LET taken == CountedIn(f) \cup CountedWritten(store) \cup RefusedBy(store)
  IN  \A p \in RunEnds :
        f.first <= p /\ p <= f.through => p \in taken \/ ToldMissed(f, written, p)

\* A run end the period fold has passed is never silently missing, whatever
\* was broadcast out of order, trimmed, deduplicated, refilled from the journal
\* or lost in a crash: it is counted or it is in a gap (PeriodFold::apply), and
\* until a process dies no period is written twice (PeriodFold::close).
NothingSilentlyMissed ==
  /\ Accounted(fold, periods, gaps)
  /\ mishaps = 0 => RefusedBy(periods) = {}

\* The saved state and what is durable beside it account for every run end too,
\* so a restart that loads it loses none (PeriodOutput::flush saves a state only
\* after the gaps and the periods it closed are written); and so does each
\* written period, for what had ended when it did and the fold that closed it
\* had passed, which is where a fold without a state starts again.
SavedFoldAccounts ==
  /\ Accounted(savedFold, periods, gaps)
  /\ LET taken == CountedWritten(periods) \cup RefusedBy(periods)
     IN  \A k \in PeriodKeys : periods[k].present =>
           \A p \in RunEnds :
             /\ periods[k].first <= p /\ p <= periods[k].through
             /\ Msg[log[p].msg].at < k[1] + k[2]
             => p \in taken \/ ToldMissed(NewFold, gaps, p)

\* Something before position p, or from p on up to last, has another order in
\* time than in the log.
Late(p) == \E q \in 1..(p - 1) : Msg[log[q].msg].at > Msg[log[p].msg].at
Overtaken(p, last) == \E q \in (p + 1)..last : Msg[log[q].msg].at < Msg[log[p].msg].at

\* The messages between two positions would have filled the dedup window.
FarApart(p, q) == Cardinality({log[x].msg : x \in (p + 1)..(q - 1)}) >= DedupCapacity

\* No run end is counted twice: no fold holds one twice, and no period that was
\* written, by whichever process, shares one with another period unless it came
\* late and a process died.  As long as none died, one message is counted once,
\* however often it was sent, unless its copies lie further apart than the dedup
\* window or the journal handed one over (pipeline.rs, step 1; PeriodFold::place).
NothingCountedTwice ==
  /\ \A s \in Starts(Width) : \A r \in HeldAt(fold, s) : r.counted # {} =>
       \A t \in Starts(Width) \ {s} : \A o \in HeldAt(fold, t) : r.counted \cap o.counted = {}
  /\ \A s \in Starts(Width) : \A r \in RecordsAt(fold, periods, s) :
       /\ r.runs = Cardinality(r.counted)
       /\ r.counted # {} =>
            \A t \in Starts(Width) \ {s} : \A o \in RecordsAt(fold, periods, t) :
              \A p \in r.counted \cap o.counted : Late(p) /\ mishaps > 0
  /\ mishaps = 0 /\ ~wiring.journaled =>
       \A p, q \in CountedIn(fold) \cup CountedWritten(periods) :
         p < q /\ log[p].msg = log[q].msg => FarApart(p, q)

\* A period that closed and is not written yet is read again after a restart:
\* the state a restart loads is behind the position it closed at, and so is the
\* position it resumes from (Projector::flush holds the checkpoint, Projector::run
\* takes the older one), or the journal has what lies between.  Until a state has
\* been saved, the periods that one event closed are taken as written together,
\* and a reach saved at a shutdown may lie past them.
UnwrittenPeriodsAreReread ==
  \A i \in DOMAIN fold.closed :
    LET c == fold.closed[i]
        loaded == Loaded(savedFold, periods)
    IN  /\ savedFold.through < c.through
        /\ \/ periods[<<c.level, c.from>>].present
           \/ ResumeAt(loaded.through, reach.through) < c.through
           \/ wiring.journaled
           \/ savedFold.through = 0 /\ (loaded.through = c.through \/ Indexes)

\* The asked index never claims to read back past a call it does not hold.
AskedIndexIsHonest == ReadsBackHonestly(asked, askedPages)

\* What the journal committed past is in a page it kept, unless the log no
\* longer held it (Journal::keep writes a page before it commits).
JournalKeptWhatItPassed ==
  \A p \in 1..committed["journal"] : p <= trimmed \/ \E page \in kept : p \in page.kept

\* A period written as complete holds every run end of it that lay in order of
\* time in the log, of those the fold that wrote it read or missed: a gap flags
\* every period it may have reached (PeriodFold::missed_before).
CompleteMeansComplete ==
  \A s \in Starts(Width) :
    LET w == periods[<<Width, s>>]
    IN  w.present /\ w.record.complete =>
          \A p \in RunEnds :
            /\ w.first <= p /\ p <= w.through /\ Floor(Msg[log[p].msg].at, Width) = s
            /\ ~Late(p) /\ ~Overtaken(p, w.through)
            => p \in w.record.counted

\* A span whose end the projector committed past is in the trace store or in
\* the dead letter queue.
CommittedSpansAreStored ==
  \A p \in 1..committed["projector"] :
    Msg[log[p].msg].phase = "end" =>
      \E q \in traces \cup parked : log[q].msg = log[p].msg

=============================================================================
