# aiwatcher: a TLA+ verification of the workflow runtime and the event path

aiwatcher records what AI systems do, and runs workflows of its own: evaluation
pipelines, scheduled definitions, agent sessions, steps that wait for a person.
The part of it where a mistake is silent and lasting is the workflow runtime of
`crates/aiwatcher-execution` and the processes around it: several servers,
reactors, HTTP workers, pods, a timer loop and a launcher act on one run at once,
any of them may die or stall between two of its steps, and the only things that
keep them apart are one append-only stream per run, an inbox of message ids and a
table of leases. Behind it lies the path every event takes, from the log through the
projector into periods, spans, an index and a journal, where a restart, a refused
write or a trimmed topic may lose or double what nobody counts by hand. This project
models both, and the services around them that keep durable state of their own
(the file store's commit journal, schedule slots, hosted sessions, alert deliveries,
the span assembler), checks them with TLC on small instances, and proves with TLAPS, for every value of the
constants, most of the safety properties of the runtime, the services, the log and the
fold of the projector.

## 1. Inventory

### The parts and how they interact

```
 person, API client                 reactor (in the server)    worker, pod (HTTP)
      | commands                        | take / settle            | claim / heartbeat / report
      v                                 v                          v
  +--------------------------------------------------------------------------+
  | ExecutionHandler: load the stream -> inbox -> decide -> append           |
  +--------------------------------------------------------------------------+
      | one transaction: input, events, claim rows, timer rows, outbox rows
      v
  WorkflowStore (memory | file | duckdb | postgres)
      ^ due timers      ^ claimable rows             | pending outbox rows
  timer loop        pod launcher -> cluster      outbox publisher -> event bus -> projector -> traces, metrics
```

| part | state it keeps | operations | what makes it correct |
|---|---|---|---|
| decider (`decide.rs`, `state.rs`) | none: a pure function of the folded stream | start, pause, resume, cancel, retry, answer, lapse; started, asked, hit, completed, failed | steps run after their parents, retries are earned and bounded, the run agrees with its steps, a success and a cancel are final |
| handler (`handler.rs`) | none between calls | load, decide, append, again on a conflict | no decision on a state another one moved past; a redelivery changes nothing |
| claim table (`claim.rs`) | a row per unfinished attempt: owner, age, delay | claim, renew, park, retire | rows are about the present; no dispatched work is stranded |
| timer table (`hosted.rs`, `handler.rs`) | a row per deadline | schedule, fire, retire | a clock stands exactly while its question does |
| reactor (`reactor.rs`) | where its pass is | take, look up, execute, watch, settle, report | a takeover asks before it runs; a lost lease reports nothing |
| worker protocol (`worker.rs`) | none; the lease is in the store | claim, heartbeat, report | same as the reactor's, and a cancel reaches it |
| pod launcher (`pods/mod.rs`) | the rows its pass read, what it launched | read, launch, watch, report, close | an attempt without a live pod ends; one verdict per attempt |
| outbox (`outbox.rs`, `facts.rs`) | rows no publisher has marked | read, send, mark | nothing lost, nothing invented, in order |
| workflow store | all of the above | append, claim, heartbeat, pending, slots, prune | one transaction per decision |
| hosted decider (`hosted.rs`) | the decider's lease, the session's timers | append a turn, take and release the lease, fire | an entry follows the history it was decided on; no timer stays due |
| schedules (`schedule/`, `scheduler.rs`) | a cursor, slots with a lease and an outcome | tick, admit, start, settle, take over | a slot found due is decided, once |
| event bus (`aiwatcher-bus`) | a log and checkpoints | append, subscribe, commit | durable before visible, dense positions |
| projector (`aiwatcher-projector`) | dedup window, batch, the period fold, the asked index, journal pages, checkpoint | handle, flush, sweep, commit, resume, refill | nothing passed is lost untold, nothing is counted twice, the checkpoint never outruns what is written |
| span assembler (`aiwatcher-trace`) | open spans, open containers per run | open, point, close, sweep, drain | a new span is put under one that is still open |
| alerts (`aiwatcher-alerts`) | a watcher's cursor, deliveries, the finished ones | watch, raise, drain, record, retry | a failure that was read is raised once and sent or given up on |
| file store's journal (`store/file.rs`) | a pending record, the stream, five tables | append, apply, recover | accepted means applied, whole, before the next decision |
| registries, evaluation, IAM, migration, API reads, CLI, panel, SDKs, services | documents, memberships, none | validation and single-document writes | outside these models; see section 7 |

`PROJECT.json` lists every part with its source files under `components`, and under
`hazards` what is hard to test in them, each at its line with the properties that
would notice.

### What is hard here

* **A pass is not a transaction.** Claim, `step.started`, the work, the lease
  re-check and the report are separate calls; anything may happen in between.
* **Nobody is told that a claimant died.** Only the age of its lease says so, and a
  claimant that was merely slow comes back and goes on.
* **Several authors for one attempt.** Its holder, a former holder, the launcher, a
  deadline and a person can each end the same attempt.
* **At-least-once everywhere.** Reports, timers, commands and outbox batches are
  repeated; the inbox and the version are what makes that harmless.
* **Waiting.** A parked attempt has no lease, a retry has a delay, a question has a
  clock, a pause holds the plan: each is a way for a run never to end.
* **Cursors.** The projector's checkpoint, the journal's, the scheduler's, the watcher's,
  a saved fold's position: each says "everything before this is dealt with", is written
  apart from what it speaks of, and is believed after a restart.
* **Several files, one decision.** The file store writes six files for one decision and
  may stop between any two of them, or inside one.

## 2. Modules

| module | what it is |
|---|---|
| `ExecutionDecisions` | the pure decider and the rows each decision writes, as operators from an execution to an execution |
| `ManagedExecution` | one engine-managed run and everybody who acts on it; extends `ExecutionDecisions` |
| `ManagedExecutionProofs` | types, the finality of a cancel, what a pause holds back, what an answer takes out of the cache |
| `ClaimTableProofs` | the claim table, the timer table, the order of steps, the budgets and the run's own state; extends the module before |
| `DecisionLog` | abstract: what a run's stream promises to those who never see it |
| `WorkflowStream` | racing handlers, store, outbox and publishers; implements `DecisionLog` |
| `WorkflowStreamProofs` | `TypeCorrect`, `DecisionsAreFresh`, `FactsSurvive`, `Implements`, `LogIsOrdered` |
| `EventLog` | the file log and the broker's topic: append, failed append, broadcast, subscription, retention, crash |
| `WalFile` | the file under the file log: what appends, failed appends, crashes and opens leave in it, and what pages of a stream read |
| `PeriodFold` | the fold of run ends into periods and wider ones, and the store of closed periods; extends `EventLog` |
| `AskedIndex`, `FoldJournal` | the index of calls and the journal of pages, as operators; extend `EventLog` |
| `Projector` | the projector's task and the journal's over one log; extends the four above |
| `StoreJournal` | the file store: one decision journalled, applied to each file, recovered |
| `ScheduleSlots` | the tick of several replicas over the slots of one schedule |
| `HostedSession` | a run a worker decides: its lease, turns and timers |
| `AlertDelivery` | the watcher of failures and the drain of deliveries |
| `SpanAssembler` | open spans and the containers they take their parent from |
| `ServicesProofs` | the theorems about the six components of `MCServices` and about the six side by side; extends it |
| `ProjectorProofs` | the file log's numbering, the journal's pages and the index of calls |
| `PeriodProofs` | what one operation of the period fold does to what it holds: placing, closing, a gap, an event, a journal page, a recovery; extends the module before |
| `PeriodStepProofs` | the projector's steps and the theorems about its fold, its store and its dedup window; extends the module before |
| `NaturalsLemmas` | least numbers, induction and recursion on the naturals, with sets in place of operator parameters |
| `MCReactors`, `MCQuestions`, `MCPods`, `MCStream`, `MCProjector`, `MCServices` | small instances |

`ManagedExecution` and `WorkflowStream` split the handler between them.
`WorkflowStream` shows that concurrent calls of the handler amount to one decision
per message in one order, each on the state the one before it left
(`NoStaleDecision`, `ImplementsDecisionLog`); `ManagedExecution` uses that and takes
a decision with its append as one step, so that its interleavings are the ones
*around* decisions.

### ExecutionDecisions and the code

An execution is a record: `run`, `cancelling`, and per step `st`, `cur`
(`current_attempt`), `ask` (`awaiting`), `answered`, `keyed` (`cache_key`), `err` (the
errors of the attempt records, reduced to the budget they are charged to), with
`rows` (the claim table) and `timers` (the timer table). `Terminal`, `Retryable`,
`KindOf`, `AttemptState` are the methods of `state.rs`; `IsClaimable`, `IsHeldBy`,
`Claim`, `Park` those of `claim.rs`. Each arm of `decide_active` is an operator of its
name, and an arm's refusals are the `Accepts...`/`May...` predicate beside it. `Complete`,
`Fail`, `SkipSteps`, `CloseQuestion` are the fold of an event *with* the row and the
timer that `attempt_rows` and `deadline_rows` derive from it in the same transaction.

Two abstractions need saying. Instants are kept relative to the clock (the age of a
claim, the rest of a delay, the rest of a deadline), so time needs no bound. And
`schedule_attempt` is applied to all ready steps at once: it reads nothing another
step's scheduling writes.

### ManagedExecution and the code

| state | code |
|---|---|
| `ex` | the stream's fold and its rows |
| `seen` | the inbox: the derived message ids of reports and timers. A command's id is derived from the stream's version, so every command is new |
| `who` | how far each claimant is: claimed, working, executing, done, settling |
| `runtime` | what the runtime behind a reactor holds under an idempotency key; external |
| `job` | the cluster's record of each pod; external |
| `launcher` | the rows a pass has read and not yet acted on |
| `faults` | bound: how often a claimant is lost or outlives its lease |

`TakeClaim`, `TakeReleased`, `TakeRefused`, `TakeCacheHit`, `TakeStarted` are the ways
through `take`; `Lookup` and `Execute` those through `carry_out`; `Finish`, `StopReactor`
the ends of `perform`; `Settle` and `Report` are `settle_at`, the lease re-check and
what is sent after it. A reactor's pass re-checks its lease *at the instant it
claimed*, so only a change of owner can refuse it; a worker's re-check is at the
request's own instant (`StillHolds`). `Heartbeat` is the worker route, with the
settlement of a stopping run. Workers and pods have no execution authority, so only
reactors are refused. The launcher reads (`LauncherReads`) and acts later
(`LaunchPod`, `LauncherPasses`, `LauncherReports`, `LauncherCloses`) on the row it read.

### WorkflowStream and the code

`Deliver`, `Load`, `Abandon`, `AppendDuplicate`, `AppendConflict`, `AppendContended`,
`AppendCommits` are the ways through `decide_and_append` and `append`. The inbox is
consulted twice, as in the code: after the load, and in the append under its lock.
`Read`, `Send`, `Mark` are the three calls of `publish_pending`, and `Falter` is a
refusing sink or a crash at any of them. `PendingOrder` is the one difference between
the stores that shows: memory and file return rows in the order they were written,
postgres in the order of `available_at, message_id`. What a decision says is left out:
a decision is its message, the version it was made on and a number of facts.

### Projector and the code

One log, two readers. `wiring` is the deployment: the file log or the broker, a rebuild
at start or not, a journal or not, periods or the index of calls. A record is a message
and its position in its stream; a message may be sent, and so recorded, twice.

| state | code |
|---|---|
| `log`, `streamPositions`, `outgoing`, `live` | `events.jsonl` or the topic; the writer's positions; what an append has written and not yet broadcast; the broadcast channel |
| `sub`, `committed` | each reader's subscription and stored checkpoint |
| `task` | where `Projector::run` is, with its dedup window, open spans and pending batch |
| `fold`, `savedFold`, `periods`, `gaps` | `PeriodFold`, its saved state, `PeriodStore` |
| `asked`, `reach`, `askedPages` | `AskedIndex` and its two objects |
| `journal`, `kept` | `Journal` and its pages |
| `traces`, `parked` | the trace store and the dead letters |

`Handle` is one message through `handle`; `CaughtUp`, `FlushTimer`, `SweepTimer`,
`SourceEnds` and `Shutdown` are the other arms of the `select!`. A flush is a sequence of
steps, each of which the store may refuse: `WriteSpans`, `WriteGap`, `WriteClosed`,
`SaveFold`, `FlushAsked`, `Commit`. `Apply`, `MissedBefore`, `Place`, `Close`, `Refill`,
`Recovered` are the methods of `period_fold.rs` of those names: a run end is its position,
a period the set of positions it counts, and `complete` the flag it is written with.
Counts by model and variant, latencies and costs ride on the same placement and are left
out. Time is the events' own. `counted` (the positions a record counts), `first` (the first
position a fold has read itself) and `refused` (what a period that was written already did
not take) are there for the properties only; no guard reads them, except that a period
with no runs is one that counts nothing.

### WalFile and the code

`EventLog` takes a position for the index of a record. That is what the code's readers do
too, and it is so as long as a failed append leaves nothing in the file. `WalFile` is the
layer below, where it need not be so, one of the parts of `services`.

| state | code |
|---|---|
| `file` | `events.jsonl` as pieces: a record with its newline, or the beginning of one, cut between two characters or inside one |
| `offsets`, `streamPositions` | `Writer.offsets` and `Writer.stream_positions`; an offset is the index of a piece. `Writer.stream_offsets` is `StreamOffsets`, the offsets of one stream's records: it is built and extended together with `offsets` |
| `status` | the process runs, is down, or its `open` was refused |
| `acknowledged`, `spoiled` | for the properties: the pieces a caller was answered for; that an append has failed in a process that lived on |

`AppendLines`, `AppendRefused` and `AppendBreaks` are the ways through `append`: the whole
batch; an event that `validate` or the serializer refuses when those before it have taken
their numbers; a write, flush or sync that fails with any part of the batch in the file. A caller
that drops the future of `append` at an await leaves one of the same states, but its write may
still be under way when the next append asks for the file's length; that is not modelled. `ingest`
validates its events before it calls (`ingest.rs:103-105`), so `AppendRefused` is for other
callers and for the serializer. `CrashWal` is a crash, between appends or in one. `OpenWal` is
`scan` with the truncation, `OpenRefused` the line it does not forgive; `Page` is
`read_stream_page` with no limit. In `EventLog`, `AppendFails` is what of this a log whose
failed appends leave nothing in the file can show: numbers that are taken and not given back.

### The services and the code

* `StoreJournal`: `gate` is the step `append` or `open` has reached while it holds the
  store's lock, one step per file that `apply` writes. `Interrupted` is what a write cut
  short leaves of the stream: whole lines and perhaps a part of one; the other files are
  renamed into place. `ClaimRow` and `MarkSent` take the lock without recovering, as in
  the code. A decision is how many lines it has and which rows and timers it writes.
* `ScheduleSlots`: `tick` reads the instant and the cursor once (`BeginTick`), processes
  each due slot (`SlotTaken`, `SlotBlocked`, `SlotAdmitted`, `StartRun`, `SettleSlot`) and
  moves the cursor (`EndTick`). The code reads the
  clock and then the cursor; when another replica moves the cursor past that instant in
  between, the tick finds nothing due and puts the cursor back, as a slow tick also does. `ProcessFails` is the `Err` that `tick` logs. A run's id is
  derived from its slot, so a second start finds the first.
* `HostedSession`: `append_hosted` loads and checks (`CheckTurn`) and appends
  (`AppendTurn`, `TurnConflicts`); the turn carries the version the worker read.
  `FireDueTimers` reads the due rows once, `LoadForTimer` and `Fire` deliver each.
* `AlertDelivery`: `execution_failures` reads, raises row by row and moves its cursor;
  `drain` reads what is due, sends each and records it, `Record` and `Remember` apart, as
  `record` writes the row before it remembers it; `AskAgain`, `Forget`, `Requeue` are
  `retry`.
* `SpanAssembler`: the five methods that change `open` and the containers. An event's
  time is any instant up to now.

## 3. Runs

| run | instance | checks | result |
|---|---|---|---|
| `reactors` | two reactors, a join of three steps, two faults, three attempts | `ClaimTableIsCurrent`, `NothingStranded`, `ParentsFirst`, `RetriesAreEarned`, `RunAgreesWithSteps`, `CompletedIsFinal`, `RunEnds` | pass, 150k states |
| `questions` | a gate, a worker's task that may ask, a reactor's step after both; every command, a refusing authority, one fault | `ClaimTableIsCurrent`, `DeadlinesAgree`, `AnswersAreNotCached`, `CompletedIsFinal`, `HeldBack`, `CancelIsFinal`, `QuestionsEnd` | pass, 47k states |
| `pods` | a container step with two attempts, a step after it | `RetriesAreEarned`, `RunEnds` | pass, 26k states |
| `stream` | two handlers, three messages, two publishers, a row that does not decode, one fault | `NoStaleDecision`, `NoFactLost`, `LogInOrder`, `ImplementsDecisionLog`, `AllPublished` | pass, 425k states |
| `projector` | four deployments, in one of which appends may fail; five records of four messages, two appenders, one mishap (crash, shutdown, refused write or failed append), one trim, one timer | `StreamsAreNumbered`, `NothingSilentlyMissed`, `SavedFoldAccounts`, `NothingCountedTwice`, `CompleteMeansComplete`, `UnwrittenPeriodsAreReread`, `AskedIndexIsHonest`, `JournalKeptWhatItPassed` | pass, 1.10M states |
| `services` | three decisions and two breaks; two slots, two replicas, two troubles; two deciders, two timer loops, two turns; two failures, one outage; four spans, four events; a file of five pieces on two streams, two faults (a failed append, a crash), writes cut between characters and inside one | `ServicesTypeOK`, `TablesFollowTheStream`, `AnsweredIsApplied`, `EntriesAreFresh`, `AlertsAreKept`, `ContainersAreOpen`, `NumbersGoUp`, `AcknowledgedAreIndexed`, `UnspoiledLogIsWhole`, `SlotDecisionsStand`, `TimersGo` | pass, 804k states |
| `late_launcher` | as `pods` | `CompletedIsFinal` | violated |
| `cancelled_start` | as `reactors`, one cancel, no fault | `CancelEnds` | violated |
| `span_loss` | the broker, spans only, one mishap | `CommittedSpansAreStored` | violated |
| `stalled_projector` | the file log, no mishap | `EverythingIsRead` | violated |
| `torn_commit` | the store's journal alone | `CommittedIsWhole` | violated |
| `lost_slot` | the schedule alone | `NoSlotIsLost` | violated |

The passing runs each leave out what one of the violations needs, and say so in their
constants: `reactors` and `pods` have no cacheable step and no cancel, `questions` lets a
worker's question time out into an answer rather than into a skip, and its one cacheable
step has a single claimant; `stream` uses insertion order. `projector` and `services` leave
nothing out: the violated properties are simply not among theirs. `UnspoiledLogIsWhole` names
its condition itself: positions are dense, pages complete and the file can be opened as long as
no append has failed in a process that lived on, and, for the opening, as long as no write ended
inside a character. Everything else is on at once.

The types of the execution, of the stream and of the projector (`TypeOK` of `ManagedExecution`
and of `WorkflowStream`, `ProjectorTypeOK`) are in no run: they are proved, for every value of the
constants (section 5).

`services` puts components that share no state into one state space; a behaviour
is a behaviour of one of them (`part`), so its states are the sum of theirs and not the
product.

What the properties of `projector` say, taken together: whatever the fold has passed is
counted, refused by a period that was written before, or in a gap that is told, in memory
(`NothingSilentlyMissed`), in what a restart would load and in every written period
(`SavedFoldAccounts`); what it closed and has not written is read again after a restart
(`UnwrittenPeriodsAreReread`); it is counted once (`NothingCountedTwice`); a period that
says it is complete is (`CompleteMeansComplete`); and the same for the index's claim of
how far back it reads and for the pages a journal's commit vouches for. The next section
says where each of these has to make an exception, and why.

### What the fold loses

The exceptions in these properties are what the code does, found on instances larger than
the run's and while looking for the invariants the proofs need; none has a run of its own.

* **A period is created once.** A process writes a period and dies before it saves its
  state; retention passes the log it read; the next one recovers from an older state and
  closes the same period from what is left. `PeriodStore::write` (`periods.rs:301`) keeps the
  first object, as `periods.rs:7-11` says, so a run end only the second close counts is in no
  period, and no gap tells of it. `refused` is what the properties call accounted
  for in that case, and until a process dies it is empty.
* **A late run end is placed by what is open.** A run that ended in a closed period is held in
  the oldest open one, and which that is depends on where a fold started. Two processes may
  put one run end in two periods and both may be written: `NothingCountedTwice` excepts run
  ends that came late once a process has died. The dedup window is memory: its half of the
  property ends with the first process too.
* **Completeness speaks of order.** `missed_before` (`period_fold.rs:443`) dates what it missed
  from the log's clock to the next event's time, as the module's comment says. A missed run end
  dated earlier than the clock, or later than the event after it, lies in a period nobody flags.
* **A recovered fold flags one period.** With no saved state, `recover` starts from the last
  written period; run ends that the lost fold had passed and not closed are in no period when
  the log starts after them, and only the period at `gapFrom` says so.
* **Before the first saved state**, a fold recovers from the last period written. Of two periods
  that one event closed, the first may be written and the second not; both say they were
  closed at that event, so a recovery resumes past it. A reach of the index saved at a
  shutdown may lie past a fold that has never saved, and the older of the two is then the
  reach.

### What the violations show

* **late_launcher.** The launcher reports on a row it read before the pod completed;
  the decider refuses a late failure only when it names another attempt, so a Completed
  step becomes Crashed.
* **cancelled_start.** A cancel between a claim and its `step.started` skips the step and
  retires its row; the start then makes it Running with no row, and the run stays
  Cancelling.
* **span_loss.** A batch the trace store refuses for a moment is dropped from memory; the
  checkpoint is held back for that flush only, and the next one commits past it.
* **stalled_projector.** A subscription that lagged ends itself "to force a checkpointed
  resume"; the projector returns, and nothing in the process resumes it.
* **torn_commit.** Recovery takes the first line of a decision for all of it; lines lost in
  an interrupted write are never written, while the tables are.
* **lost_slot.** A slot that could not be processed, or was left due by `TryAgain`, lies
  behind the cursor its own tick moves, and no later tick reads it.

Each is quoted against the comment it contradicts under `findings` in `PROJECT.json`.

Violations met while modelling that have no run of their own:

* A write of the file log that fails half way in a process that lives on (`wal.rs:307`) leaves a
  part of a line; nothing cuts it off, the next record is written right behind it and acknowledged,
  and the two make a line that `scan` refuses (`wal.rs:157-163`). `OpensAgain` fails, where
  `wal.rs:10-12` says that "a corrupted tail truncates cleanly because a half-written line fails
  to parse and everything before it is still valid".
* A crash that cuts a line inside a character of several bytes leaves a file that is not text:
  `read_line` (`wal.rs:137`) fails before `scan` can see that the line is the torn last one, and
  `open` is refused. `OpensAgain` fails here too, where `contract.rs:520` of the bus names its test
  `a_wal_drops_a_torn_trailing_record_instead_of_refusing_to_open`.
* Lines that reach the file before `flush` or `sync_data` fails (`wal.rs:308-309`) are not counted,
  so the next record has the position of one of them, and the index is short of the file until a
  restart. `PositionsAreDense` fails, where `wal.rs:340` says "Every append numbers its events one
  after the last."
* A failed append keeps the stream numbers it took (`wal.rs:286`), and `read_stream_page` takes a number for
  an index, so behind the hole it leaves out a record. `PagesHoldWhatFollows` fails, where
  `wal.rs:445-446` says "`stream_position` is 1-based and contiguous within a stream".
* A late `step.started` (`decide.rs:614`, as in `cancelled_start`) also takes back a step that
  another claimant answered from the cache after a takeover: its row is gone, and the join
  behind it never becomes ready.
* The postgres outbox is read by `available_at, message_id` (`postgres/mod.rs:641`), so the
  facts of one decision are published in hash order, where `store/mod.rs:492` says "oldest
  first". `PendingOrder = "stamp"` shows it; `LogIsOrdered` assumes insertion order.
* `deadline_rows` (`handler.rs:583`) cancels the timer of an ended step only when the *plan*
  authored the deadline. A worker's own question that lapses under Skip or Fail leaves its
  row, every tick delivers it again, and the inbox answers Duplicate.
* Behind the broker with a journal, a redelivered copy that the dedup window drops looks
  like a missing position to `gap_before`; the refill folds the copy from the journal, and
  the run is counted twice; `NothingCountedTwice` speaks of copies only without a journal.
* `decide_and_append` and `append_hosted` answer Duplicate from a plain `load`, before the
  file store's `append` would have recovered, so the answer `recover` was moved up to make
  true (`file.rs:621-628`) is given untrue by its callers.
* After a failed `apply`, a claim made before the next append is undone by the recovery,
  which inserts the dispatched row again.
* `record` (`registry.rs:484`) writes a failed delivery and then remembers it as finished; a
  person's retry in between leaves it queued and remembered, and the drain skips it until
  the process restarts.

Met while modelling and recorded here only, because nothing in the repository says
otherwise: a blocked slot is settled Skipped by a caller that holds no record, so nothing
is written; two replicas on different slots of one definition may both start under
`overlap = skip`; a timer withdrawn between a tick's read and its delivery is delivered, and
one whose id was delivered before is due for ever; a failure projected with an end before
the watcher's cursor raises nothing; the late end of a swept span writes its id a second
time; a start redelivered after its end opens the span again; recovery without a saved
fold flags only the period it recovers at; a wider period can be written complete over a
gap in one of its parts; a first start behind the broker begins at the topic's end;
a Failed run goes on dispatching branches that do not depend on the failure;
retries, answers and `RetryStep` schedule attempts while a run is Paused (what a pause
holds back is first attempts, `HeldBack`); Pause and Resume during a cancel replace the
name Cancelling by which reactors, heartbeats and the launcher recognise it; an
`answer_lands` during a cancel schedules one more attempt; skipped descendants are not
revived when `RetryStep` succeeds.

### Bounds

* `MaxAttempt` caps attempt numbers. It is above both budgets that matter in each run,
  and an outcome whose decision would pass it is not taken (`Fits`), so no behaviour
  below the bound is cut short.
* `MaxFaults` counts lost claimants and stalls past a lease. Two are enough for a
  takeover of a takeover; one of each kind is already in `MaxFaults = 1`.
* `Lease = 0` or `1` tick, `RetryDelay`, `Deadline` of 0 or 1: only the order of expiry and
  action matters, and every order is explored since `Tick` interleaves freely.
* `Batch = 2` with three facts: a full batch, a partial one and one with a hole.
* `MaxRetries = 1`: a call that succeeds at first, one after a conflict, one Contended.
* `MaxRecords = 5` over four messages, one of them recorded twice, `Width = 4` and
  `Rollup = 8`: two runs end in the first period, and an event two periods on closes it and
  its wider one. `FlushBatch = 2` flushes inside and outside of a batch, `DedupCapacity = 3`
  is less than the log, `Capacity = 1` lets a subscriber lag, `PagePositions = 2` makes
  several pages. `MaxMishaps = 1` at every point: a second one explores no new pair of
  durable states, since each restart begins with an empty memory.
* `MaxBreaks = 2`: a recovery that is itself interrupted. `MaxTrouble = 2`: a replica lost and
  a call of the other refused. `SlotLease`, `DeciderLease`, `OrphanTimeout`, `Backoff` of one tick
  under clocks of two or three: before, at and after expiry. `MaxOpenSpans = 2` of four.
* One timer in `HostedSession`: `TIMERS_PER_TICK` does not bind.
* `MaxPieces = 5`, `MaxFaults = 2` for the file: a failed append with what it left, a batch of two
  behind it, a crash in the next one or after it, and an append after the opening.

Deadlock is checked in `stream`. The runs of `ManagedExecution` stop when the run is over
and its clocks have run out, so they say `CHECK_DEADLOCK FALSE`; that they do not stop
earlier is `RunEnds` and `QuestionsEnd`. `projector` and `services` stop when their messages,
ticks and clocks are used up, when the file is full and its faults are spent, or when an open was
refused, and they say so too.

### Fairness

Weak fairness of `Start`, of the clock, of each claimant's `Work`, of the timer loop, of
the launcher per pod, and of each publisher: the server spawns these loops for as long
as it lives (`spawn_reactor`, `spawn_outbox`), and a loop's next step stays enabled until
it is taken. `stalled_projector` assumes that the projector's task is polled, that its writes
finish and that an append which has written goes on to broadcast; `TimersGo` that the clock
of a session advances and its timer loop is polled. Nothing is assumed of people (no fairness on answers, resumes, cancels or
retries), of pods (a pod need not end), of a worker's heartbeat or of a watch noticing a
stop. Faults are never fair.

## 4. Mutants

Each property of each passing run has a mutated definition beside the one it replaces
(`...KeepsRow`, `...Undispatched`, `...Anywhere`), changed the way a plausible edit of that code
would: a row not retired, a budget that forgets the current failure, a guard dropped,
an inbox not consulted. Under the mutant TLC finds the property violated.

## 5. Proofs

The assumptions are the named `ASSUME`s of the modules, and TLC evaluates them on every
run. "Hypotheses" are what a theorem adds to them.

| module | theorem | property | hypotheses |
|---|---|---|---|
| `ManagedExecutionProofs` | `TypeCorrect` | `[]TypeOK` | |
| | `CancelStays` | `CancelIsFinal` | |
| | `PlanIsHeldBack` | `HeldBack` | |
| | `AnswersStayUncached` | `[]AnswersAreNotCached` | |
| `ClaimTableProofs` | `ClaimTableStaysCurrent` | `[]ClaimTableIsCurrent` | no pods |
| | `CompletedStays` | `CompletedIsFinal` | no pods, `Solo` |
| | `ParentsComeFirst` | `[]ParentsFirst` | no pods, `Solo` |
| | `DeadlinesStayAgreed` | `[]DeadlinesAgree` | no pods, `AskedAreAnswered` |
| | `NothingIsStranded` | `[]NothingStranded` | no pods, `Solo`, `NeverRefused`, no cancel |
| | `RetriesStayEarned` | `[]RetriesAreEarned` | no pods, `PlainRetries` |
| | `RunAgrees` | `[]RunAgreesWithSteps` | no pods, `Solo`, `NeverRefused`, `SoundPlan`, no cancel, no retry by hand |
| `WorkflowStreamProofs` | `TypeCorrect` | `[]TypeOK` | |
| | `DecisionsAreFresh` | `[]NoStaleDecision` | |
| | `FactsSurvive` | `[]NoFactLost` | |
| | `Implements` | `ImplementsDecisionLog` | |
| | `LogIsOrdered` | `[]LogInOrder` | `PendingOrder = "insertion"` |
| `ServicesProofs` | `AnswersAreApplied` | `[]AnsweredIsApplied` | |
| | `FilesFollowTheStream` | `[]TablesFollowTheStream` | |
| | `ParentsAreOpen` | `[]ContainersAreOpen` | |
| | `DecisionsStand` | `SlotDecisionsStand` | |
| | `HostedEntriesAreFresh` | `[]EntriesAreFresh` | |
| | `NoAlertIsLost` | `[]AlertsAreKept` | |
| | `PartsBehave` | the composition implements each component | |
| | `FileNumbersGoUp` | `[]NumbersGoUp` | |
| | `AcknowledgedStayIndexed` | `[]AcknowledgedAreIndexed` | |
| | `ServicesTypeCorrect` | `[]ServicesTypeOK` | |
| | `PartsKeepTheirPromises` | the eight properties above, of the composition | |
| `ProjectorProofs` | `StreamsStayNumbered` | `[]StreamsAreNumbered` | |
| | `JournalKeeps` | `[]JournalKeptWhatItPassed` | `MaxRecords <= MostHeld` |
| | `AskedIndexStaysHonest` | `[]AskedIndexIsHonest` | |
| `PeriodStepProofs` | `ProjectorTypesHold` | `[]ProjectorTypeOK` | |
| | `RunEndsAreAccounted` | `[]NothingSilentlyMissed` | |
| | `SavedStateAccounts` | `[]SavedFoldAccounts` | |
| | `CompletePeriodsAreComplete` | `[]CompleteMeansComplete` | |
| | `RunEndsAreCountedOnce` | `[]NothingCountedTwice` | |
| | `UnwrittenPeriodsAreReadAgain` | `[]UnwrittenPeriodsAreReread` | |

The theorems are about the components' own specifications (`Spec` of `ManagedExecution` and
`WorkflowStream`, `JournalSpec`, `ScheduleSpec`, `SessionSpec`, `AlertSpec`, `AssemblerSpec`,
`WalSpec`, `ProjectorSpec`), for any number of claimants, callers, replicas and messages, any plan and
any bounds.

### Hypotheses, and the code behind each

* *No pods* (`PodStep = {}`). The launcher's verdict on a row it read before is accepted for
  an attempt that has ended meanwhile; run `late_launcher`.
* `Solo`: no two claimants take the same cacheable step. A cache hit ends an attempt without
  `step.started`, so the start of a second claimant, taken over and late, is new to the inbox
  and takes a Completed step back.
* `NeverRefused`, *no cancel*: a refusal for good and a cancel also end an attempt between its
  claim and its `step.started`; run `cancelled_start`.
* `AskedAreAnswered`: a worker's own question times out into an answer. `deadline_rows` leaves
  the timer of one that lapses into Fail or Skip.
* `PlainRetries`: only gates ask, nobody retries by hand, both budgets allow a first attempt.
  An answer and a person's retry give an attempt no failure has paid for, by design.
* *No retry by hand* (`RunAgrees`): `RetryStep` on a Failed run leaves it Failed while its step
  succeeds.
* `SoundPlan`: the plan has a step and no cycle, which `compile.rs:285` and `plan.rs:844` refuse
  otherwise. The rank that says so is the only use of acyclicity: the first unfinished step
  has only Completed parents.
* `MaxRecords <= MostHeld`: past `MOST_HELD` the journal lets waiting pages go, knowingly.

No hypothesis is empty: the constants of `reactors` satisfy all of those on plans, claimants
and commands at once, those of `questions` the ones of the theorems whose properties it
checks, those of `projector` the last. TLC checks the properties there on behaviours with
takeovers, stalls, late reports, crashes and trims.

### The arguments

**TypeCorrect (ManagedExecution).** A lemma per operator of `ExecutionDecisions` says that
it takes an `Execution` to an `Execution`, for the arguments its callers use; the step
then has one case per action. The bound on attempts needs `Fits`, and the phases of a
pass are part of `TypeOK` because `Report` reads the key and the outcome a pass carries.

**CancelStays.** `CancelIsFinal` is not inductive: from Cancelled alone,
`SettleFailure` could write Failed. The strengthening `Sealed` says that a run is
Cancelled only if its `cancelling` flag is set. Every decision `Keeps` that flag, and under the flag
the only run state a decision may write to a Cancelled run is Cancelled; resume, the one
command that writes Running, asks for Paused first.

**PlanIsHeldBack, AnswersStayUncached.** Retries and answers schedule attempts while a run is
paused; that these are never first ones needs `AttemptsBegun`: whatever has a row, a pass
under way, a row in the launcher's hands, a question or a failure has an attempt already.

**The claim table.** The lemmas `Moves` say, once per action, which of a few moves it makes
of each step (dispatched, started, asked, ended, retried, answered, skipped, left alone) and
`RunMoves` which it makes of the run; the invariants are then preserved move by move and not
action by action. `TableInv` holds besides the property what the inbox has heard
(`HeardOK`, `ToldOK`): the outcome of every superseded, asked or failed attempt, of no attempt
that was not given yet, and the start of every attempt a pass is past. That is why a late
report is a redelivery or about the current attempt, which no state of the rows alone says.
`FinalInv` adds that a Completed step's start was heard, so that no `step.started` can take it
back; `OrderInv` and `ParentsComeFirst` rest on that. `ClocksOK` relates each timer to the
question it is of. `WorkInv` says that an attempt which has left Pending was heard to start or
to be a cache hit, and that a step which is pending or running has an unfinished row; without
pods, refusals and cancels no late start can then undo the second half. `EarnedInv` adds that the budgets have room while the current attempt has not failed, and
that a recorded failure was heard of, so it is not counted again.

**RunAgrees.** `AgreeOK` says of each run state what its steps look like; in particular a
Running run has nothing ready that was not dispatched. `NotReached`, from `Downstream` as the
least closed set, shows that no step below one that has not completed was ever given an
attempt, so what a failure skips was not at work. That a Running run has something to take uses
`FirstUnfinished`: of the steps that are not Completed, one of least rank has all its parents
Completed, so it was dispatched; `NothingIsStranded` gives it a row.

**WorkflowStream.** One inductive invariant, `IInv`, serves the first four theorems.
`NoStaleDecision` is inductive by the append's version test. `NoFactLost` needs
`BatchesAreSafe`: what a publisher holds is committed, and what it is about to mark is on
the log. `Implements` needs `OnlyCommitted`: nothing is pending or public before its
decision. `LogIsOrdered` adds `OnceEach` (a message is decided once) and `BatchesInOrder`:
for each fact of a batch that was read, everything written before it is on the log or
earlier in the batch. Insertion order gives that at the read, and later commits cannot
break it, because they are written last (`CommitWritesLast`).

**The file store.** `JournalInv` names the number `m` of decisions that are in the stream and,
for the one that is being applied, how far `apply` has come: each file says what the
decisions up to `m` say, or up to `m - 1` when `apply` has not reached it. Applying a file again
changes nothing, so a recovery may start from the first. What the decisions say is recursive
in `m`; the equations come from `RecursionExists`.

**Services.** `ScheduleInv`: a replica that is about to say Started has seen the run, and a decided
slot has no owner who could settle it again. `SessionInv`: what a decider or a timer loop read
before its append is a beginning of the history in which the run had not ended. `AlertInv`: a failure a pass has read is in the pass or has a
delivery, and the cursor moves only past those; what the drain and a person's retry hold is a
delivery that exists. `AssemblerInv`: each list holds open spans of its run, which is
preserved only together with the types, since a new span's parent is taken from the list.
`PartsBehave` maps each step of the composition to a step of one component and a stutter
of the others.

**The file under the log.** `WalInv`: in the file a stream's numbers go up (`RisesIn`); while the
server runs, the writer's number of a stream is at least every number of it in the file
(`Within`), since a failed append gives none back, and the index has every acknowledged record,
in order, whatever torn pieces lie between (`Indexed`); and what was acknowledged is a record of the
file even while the server is down. A write that does not finish leaves a beginning of the numbered batch and
perhaps a torn piece (`SomeLines`), behind which all of this still holds (`WritesOn`). `OpenWal` cuts off
nothing that was acknowledged, because every piece behind the part it reads is torn, and the last number it
finds is the highest since numbers go up (`LastNumberIsHighest`). `UnspoiledLogIsWhole` is only model-checked.

**The log and its journal.** `StreamInv` has three parts. `Rising`: in the file, the numbers of a
run go up. `Within`: while the log is open, the writer's number of a run is at least every number
the file holds, since an append that fails keeps the numbers it took; after a crash it need not
be, until `scan` has read the file again. `Exact`: where no append fails, the numbers are counts,
in the file and in the writer. `StreamsStayNumbered` is about the log of `EventLog`, in which a failed
append leaves nothing in the file; what a half-finished write leaves is `WalFile`'s, where
`FileNumbersGoUp` is the theorem that remains.
`JournalKeeps` adds `BusInv` (what is broadcast and what waits to be are positions of the log) and
`KeepInv`: what was handed to the journal is kept or in a page it still holds, its pages are
whole stretches in order, and it commits a page only when that and all before are kept.

**The index of calls.** `AskedIndexStaysHonest` needs `AskedInv`. The saved reach is honest with
the written pages alone, since that is all a restart has; the page is written before the reach
that covers it. An index that has applied nothing has not begun, so what it passes over at its
first event moves the moment it reads back to. And every position the projector is handed is
one of the log. That last part brings in the fold: with the file log a start resumes from the
older of the checkpoint, the reach and the position the fold was loaded with, so the fold, its
saved state and the written periods have to hold positions through every close and recovery
(`FoldShape`, `StoreShape`). With the broker it is the group's own position, which is why a fold
that is refilled from journal pages need not be followed.

**The period fold.** Six theorems rest on `ProjectorInv`, one of them on `WindowInv` besides and one on
`RereadInv`. Its heart is
`FoldInv(l, f, W, G, u)`: what a fold `f` has read of the log `l` when `W` are the run ends the
store accounts for and `G` the gaps it has been told. It has these parts:

* `PlaceOK`, `ClockOK`: positions lie within the log; the clock, the first period and the edge of
  what is closed are moments that what was passed reaches.
* `OpenOK`, `WiderOK`, `ClosedOK`: every record counts run ends the fold has passed, each once, and no
  two records share one; open records that count something lie past the edge, closed ones
  before it and in order, each written with the position that closed it; `WholeOK` is what
  `CompleteMeansComplete` asks of a closed one.
* `InPlace`: a run end that lay in order of time and whose period is open is counted there, or a
  missed span reaches that period, which is then incomplete.
* `Passed`: every run end up to `through` is in the fold, in `W`, or in a gap. `PassedClosing`: of
  those, what ended before a closed period did is in that period, in one closed before it, in
  `W` or in a gap, which is what its written form is held to once the fold is gone.

`PeriodProofs` shows that each operator of `PeriodFold` keeps `FoldInv`, with one lemma per
operator and below it one per part. `Closes` says what a close moves and `FoldsRecord` where an event
goes; the rest cites those two and never the definitions. `ApplyEach` and the walk over the
journal's pages are recursive functions, so what they do is said by `Walks` and `Refills`: a
function on an interval whose first value is the fold and whose next is one `Apply` or one
`Refill` of the one before. Such a function keeps what each of its steps keeps (`RecursionExists`
and induction on the index from `NaturalsLemmas`), and that needs of the journal's pages only `PagesInv`: they
are whole stretches of the log with the clock of what they hold. So, unlike
`AskedIndexStaysHonest`, these theorems follow a refill.

`PeriodStepProofs` lifts this to the steps. `PeriodInv` holds `FoldInv` of the fold in memory and of the saved
one, against the same store: a gap or a period is written before the state that no longer
holds it is saved, so what the saved fold lacks is written. `StoreOK` is what every written
period says of the log it was read from, enough for `Recovered` to be a fold again
(`IsRecovered`). When a period that is there already refuses one, what it counted moves to
`refused`, and `Accountable` is the sum of both. `Orderly` says that until a process dies each period
is written once and after those before it. `TaskInv`, `Subscribers` and `Counters` are the types of the rest.

**The dedup window.** That copies are counted once is about messages, where `FoldInv` speaks of
positions. `WindowInv` says of every run end the projector holds, in memory or written, that its message
is still in the window or that enough different messages came after it to have pushed it
out (`Remembered`), and that two held copies are `FarApart`. Admitting a message keeps that because the
window holds distinct messages, and its length is the number of different ones since
(`AdmitRemembers`). All other steps leave the window and what is held alone (`WindowStays`); a crash ends
the claim.

**What is read again.** `UnwrittenPeriodsAreReread` is about a restart that has not happened yet, so
`RereadInv` says of each state what a restart would resume from. `PastSaved`: the saved fold lies before
everything that is closed and not written. `EndsInOrder`: until a state was saved, periods were written and closed
in order, so the last one written lies at or before what is not written. `Flushed`: when the
index is about to be written or the checkpoint committed, nothing closed is left in memory, unless that flush was held
back or the reader is leaving. `PastCommitted`: where a restart resumes from the committed position alone, that
lies before everything closed and not written.

**NaturalsLemmas.** The library's induction theorems take an operator. The lemmas here take a
set of naturals and follow from the well-foundedness of `Nat`, so they can be cited by any
proof that can name the set in question.

## 6. What is only model-checked

* Liveness under fairness (`RunEnds`, `QuestionsEnd`, `AllPublished`, `TimersGo`): out of the
  prover's reach.
* `UnspoiledLogIsWhole`: dense positions, complete pages and a file that opens again, until an
  append fails in a process that lives on.
* The properties of `ClaimTableProofs` outside their hypotheses, as far as they hold there:
  `pods` checks `RetriesAreEarned` with a container job and a launcher.
* The six violations: a counterexample is all there is to show.

## 7. What is not modelled

* Compilation of definitions to plans, attribute names, envelopes, OTLP: conversions of
  documents, with no state of their own. A plan is a constant here.
* Contents: artifacts, payload policy, redaction, prompts, scores.
* Authentication, membership, queues and tokens. Where they meet a run, an authority that
  refuses a claimed attempt, they are `Refusals`.
* `check_capacity`, run projections beyond the state they repeat, and retention: `prune` of
  the store, of alerts, of asked pages and of the journal.
* The read model, measurements and metrics behind the projector: folds of the same events
  into memory that a restart rebuilds. `change_width`, and spans whose start was committed
  past before a crash (they are closed by their end with a made-up start).
* What the projector makes of a log that a failed append has spoiled, with two records of one
  position or a line that cannot be read: its properties are about a log whose failed appends leave nothing in the file and which opens
  again. The call
  by which `append` learns the file's length is part of its step.
* Reads that fail in the file store: `file.rs:344`, `381`, `412` and `459` take any error for an
  empty file, and `StoreJournal` has only writes that fail.
* Edits of a schedule, alert rules and their versions, the regression watcher.
* The acknowledgement of a redelivered worker report from history: it changes nothing.
* Registries (prompts, datasets, labs, training, annotations, conversations): one
  compare-and-swap per document.
* Evaluation and scoring, about a fifth of the crates' lines: numeric folds and comparisons
  over stored evidence, read models of documents, and the routes over them.
* Panel, SDKs, CLI, query and ML services: clients, or runtimes behind
  `ActivityExecutor`.

The models cover a small share of the repository's lines, and the share is what it is:
most of its 160 000 lines are document types, validation, HTTP routes, read models,
formatting, configuration and tests inside the source files. What changes shared or
durable state concurrently, and what is believed after a restart, is in the modules.

## 8. Plan

1. *Done:* the runtime (`ExecutionDecisions`, `ManagedExecution`, `DecisionLog`,
   `WorkflowStream`), the event path (`EventLog`, `PeriodFold`, `AskedIndex`, `FoldJournal`,
   `Projector`) and the services, modelled and checked.
2. *Done:* theorems about the run, its claim and timer tables, the stream, the services
   and their composition, the file log, the journal, the index of calls, and the period fold
   with its saved state, its store and the dedup window.
3. *Done:* the file under the log, with appends that fail (`WalFile`), what is proved of it, and the theorem
   that what was closed and not written is read again.
4. What remains of the claim-table theorems with container jobs in the plan, where the
   launcher's late verdict is the only step that breaks them.
