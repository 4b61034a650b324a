------------------------- MODULE ExecutionDecisions -------------------------
(***************************************************************************)
(* The pure decider of one engine-managed execution, and the rows each     *)
(* decision writes in its own transaction:                                 *)
(*                                                                         *)
(*   crates/aiwatcher-execution/src/decide.rs    evolve, decide            *)
(*   crates/aiwatcher-execution/src/handler.rs   attempt_rows,             *)
(*                                               deadline_rows             *)
(*   crates/aiwatcher-execution/src/claim.rs     AttemptRow                *)
(*   crates/aiwatcher-execution/src/state.rs     StateType, FailureClass   *)
(*                                                                         *)
(* An execution is one record: the fold of its stream, with the claim      *)
(* table and the timer table the handler derives from the same events.     *)
(* Every decision is an operator from that record to that record, named    *)
(* after the function or the match arm it translates; whether an input is  *)
(* accepted is a predicate of its own.  `mode` is EngineManaged.           *)
(*                                                                         *)
(* Instants are kept relative to the clock, so that time needs no bound:   *)
(* a row knows how long ago it was claimed and how long its retry delay    *)
(* still has to run, a question and its timer know how long they have left.*)
(***************************************************************************)
EXTENDS Integers, FiniteSets

CONSTANTS
    Step,              \* the steps of the pinned plan
    Parents,           \* plan.parents_of: [Step -> SUBSET Step]
    Human,             \* the steps whose runtime is HumanInput
    Cacheable,         \* the steps cache_key() gives a key for
    Claimant,          \* who may hold a row: reactors, workers, pods
    None,              \* "no owner", "no attempt"
    MaxAttempt,        \* BOUND: attempt numbers are 1..MaxAttempt
    MaxAttempts,       \* RetryPolicy.max_attempts
    MaxUnavailable,    \* RetryPolicy.max_unavailable_attempts
    RetryDelay,        \* RetryPolicy.delay_before, one delay for every retry
    Lease,             \* LEASE_SECONDS, in ticks
    Deadline,          \* a question's timeout_seconds, in ticks, or NoClock
    OnTimeout          \* a question's policy: "Fail", "Skip" or "Answer"

NoClock == -2          \* a question nobody put a clock on
NoQuestion == -3       \* `awaiting` is None
NoTimer == -1          \* no row in the timer table

Attempt == 1..MaxAttempt
Key == Step \X Attempt

ASSUME PlanAssumption ==
    /\ Parents \in [Step -> SUBSET Step]
    /\ Human \subseteq Step
    /\ Cacheable \subseteq Step
    /\ None \notin Claimant
    /\ None \notin Key

ASSUME PolicyAssumption ==
    /\ MaxAttempt \in Nat \ {0}
    /\ MaxAttempts \in Nat
    /\ MaxUnavailable \in Nat
    /\ RetryDelay \in Nat
    /\ Lease \in Nat
    /\ Deadline \in [Step -> Nat \cup {NoClock}]
    /\ OnTimeout \in [Step -> {"Fail", "Skip", "Answer"}]

-----------------------------------------------------------------------------
(* state.rs *)

RunState == {"Empty", "Running", "Paused", "Cancelling",
             "Completed", "Failed", "Cancelled"}

StepState == {"Scheduled", "Pending", "Running", "AwaitingInput",
              "Completed", "Failed", "Crashed", "Cancelled"}

Class == {"Validation", "UserCode", "Transient", "Timeout",
          "Infrastructure", "Policy"}

\* What an attempt record's error says of its budget: may_have_run or not.
Kind == {"none", "work", "unavailable"}

Terminal(state) == state \in {"Completed", "Failed", "Crashed", "Cancelled"}

Retryable(class) == class \in {"Transient", "Timeout", "Infrastructure"}

KindOf(class) == IF class = "Transient" THEN "unavailable" ELSE "work"

AttemptState(class) == IF class = "Infrastructure" THEN "Crashed" ELSE "Failed"

\* What reactor.stopping, a worker's heartbeat and the pod launcher read off
\* the projection: the name "Cancelling", or an ending.
Stopping(d) == d.run = "Cancelling" \/ Terminal(d.run)

-----------------------------------------------------------------------------
(* claim.rs: one row of the claim table *)

RowState == {"absent", "pending", "running", "awaiting"}

Row == [state    : RowState,
        owner    : Claimant \cup {None},  \* lease_owner
        retaken  : BOOLEAN,               \* previous_owner.is_some()
        age      : 0..(Lease + 1),        \* ticks since claimed_at
        wait     : 0..RetryDelay]         \* ticks until not_before

\* claimed_at is None: the age of a lease that has expired.
NoRow == [state |-> "absent", owner |-> None, retaken |-> FALSE,
          age |-> Lease + 1, wait |-> 0]

ClaimableRow(delay) == [NoRow EXCEPT !.state = "pending", !.wait = delay]

LeaseExpired(row) == row.age > Lease

\* Mutant: a row somebody claimed and lost is never offered again.
OnlyPendingIsClaimable(row) ==
    /\ row.state = "pending"
    /\ LeaseExpired(row)
    /\ row.wait = 0

IsClaimable(row) ==
    /\ row.state \in {"pending", "running"}
    /\ LeaseExpired(row)
    /\ row.wait = 0

IsHeldBy(row, c) == row.owner = c /\ ~LeaseExpired(row)

Claim(row, c) ==
    [row EXCEPT !.state = "running", !.owner = c, !.age = 0,
                !.retaken = IF row.owner = c THEN @ ELSE row.owner # None]

Park(row) ==
    IF row.state = "absent" THEN row
    ELSE [row EXCEPT !.state = "awaiting", !.owner = None,
                     !.retaken = FALSE, !.age = Lease + 1]

-----------------------------------------------------------------------------
(* The execution: Execution and StepState of state.rs, with its rows *)

Question == Nat \cup {-1, NoClock, NoQuestion}   \* -1: the deadline has passed
Timer == Nat \cup {NoTimer}

Execution ==
    [run        : RunState,
     cancelling : BOOLEAN,
     st         : [Step -> StepState],
     cur        : [Step -> 0..MaxAttempt],   \* current_attempt
     err        : [Key -> Kind],             \* AttemptRecord.error
     ask        : [Step -> Question],        \* awaiting, with its deadline
     answered   : [Step -> BOOLEAN],         \* answers is not empty
     keyed      : [Step -> BOOLEAN],         \* cache_key.is_some()
     rows       : [Key -> Row],              \* the claim table
     timers     : [Key -> Timer]]            \* the timer table

NotStarted ==
    [run        |-> "Empty",
     cancelling |-> FALSE,
     st         |-> [s \in Step |-> "Scheduled"],
     cur        |-> [s \in Step |-> 0],
     err        |-> [k \in Key |-> "none"],
     ask        |-> [s \in Step |-> NoQuestion],
     answered   |-> [s \in Step |-> FALSE],
     keyed      |-> [s \in Step |-> FALSE],
     rows       |-> [k \in Key |-> NoRow],
     timers     |-> [k \in Key |-> NoTimer]]

-----------------------------------------------------------------------------
(* Scheduling *)

\* Mutant: the cache key ignores that somebody answered.
CacheKeyDespiteAnswer(d, s) == s \in Cacheable

\* Whether schedule_attempt gives the attempt a cache key.
CacheKey(d, s) == s \in Cacheable /\ ~d.answered[s]

\* schedule_attempt for every step of S at once: dispatch_ready schedules
\* several steps in one decision, and no step's scheduling reads another's.
ScheduleAttempts(d, S, n) ==
    [d EXCEPT
        !.st = [s \in Step |-> IF s \in S
                               THEN IF s \in Human THEN "AwaitingInput" ELSE "Pending"
                               ELSE d.st[s]],
        !.cur = [s \in Step |-> IF s \in S THEN n ELSE d.cur[s]],
        !.keyed = [s \in Step |-> IF s \in S THEN CacheKey(d, s) ELSE d.keyed[s]],
        !.ask = [s \in Step |-> IF s \in S \cap Human THEN Deadline[s] ELSE d.ask[s]],
        !.timers = [k \in Key |-> IF /\ k[1] \in S \cap Human
                                     /\ k[2] = n
                                     /\ Deadline[k[1]] # NoClock
                                  THEN Deadline[k[1]] ELSE d.timers[k]],
        !.rows = [k \in Key |-> IF k[1] \in S \ Human /\ k[2] = n
                                THEN ClaimableRow(0) ELSE d.rows[k]]]

\* Mutant: one finished parent is enough.
ReadyAfterAnyParent(d) ==
    {s \in Step : /\ d.st[s] = "Scheduled"
                  /\ Parents[s] # {} => \E p \in Parents[s] : d.st[p] = "Completed"}

Ready(d) == {s \in Step : /\ d.st[s] = "Scheduled"
                          /\ \A p \in Parents[s] : d.st[p] = "Completed"}

\* Mutant: a paused run still dispatches.
DispatchThroughPause(d) ==
    IF d.cancelling THEN d ELSE ScheduleAttempts(d, Ready(d), 1)

DispatchReady(d) ==
    IF d.run = "Paused" \/ d.cancelling THEN d
    ELSE ScheduleAttempts(d, Ready(d), 1)

ContinueAfter(d) ==
    CASE d.cancelling /\ \A s \in Step : d.st[s] # "Running" ->
            [d EXCEPT !.run = "Cancelled"]
      [] d.cancelling /\ \E s \in Step : d.st[s] = "Running" -> d
      [] ~d.cancelling /\ \A s \in Step : d.st[s] = "Completed" ->
            [d EXCEPT !.run = "Completed"]
      [] OTHER -> DispatchReady(d)

-----------------------------------------------------------------------------
(* Endings *)

Children(s) == {c \in Step : s \in Parents[c]}

\* Everything reachable from s: the least set that holds the children of s
\* and is closed under children.
Downstream(s) ==
    {c \in Step : \A C \in SUBSET Step :
        (Children(s) \subseteq C /\ \A x \in C : Children(x) \subseteq C) => c \in C}

\* StepSkipped for every step of S: the row to retire is the one of the
\* current attempt, and a gate has none.
SkipSteps(d, S) ==
    [d EXCEPT
        !.st = [s \in Step |-> IF s \in S THEN "Cancelled" ELSE d.st[s]],
        !.rows = [k \in Key |-> IF k[1] \in S \ Human /\ k[2] = d.cur[k[1]]
                                THEN NoRow ELSE d.rows[k]]]

SkipDownstream(d, s) == SkipSteps(d, {c \in Downstream(s) : ~Terminal(d.st[c])})

\* deadline_rows cancels on an ending only where the plan authored a clock.
PlanHasDeadline(s) == s \in Human /\ Deadline[s] # NoClock

\* apply(StepCompleted), with the row it retires and the timer it cancels.
Complete(d, s, a) ==
    [d EXCEPT !.st[s] = "Completed",
              !.ask[s] = NoQuestion,
              !.rows[<<s, a>>] = NoRow,
              !.timers[<<s, a>>] = IF PlanHasDeadline(s) THEN NoTimer ELSE @]

\* Mutants: the row is not retired; the attempt record keeps no error.
FailKeepsRow(d, s, a, class) ==
    [d EXCEPT !.st[s] = AttemptState(class),
              !.ask[s] = NoQuestion,
              !.err[<<s, a>>] = KindOf(class)]

FailForgetsError(d, s, a, class) ==
    [d EXCEPT !.st[s] = AttemptState(class),
              !.ask[s] = NoQuestion,
              !.rows[<<s, a>>] = NoRow]

\* apply(StepFailed), likewise.
Fail(d, s, a, class) ==
    [d EXCEPT !.st[s] = AttemptState(class),
              !.ask[s] = NoQuestion,
              !.err[<<s, a>>] = KindOf(class),
              !.rows[<<s, a>>] = NoRow,
              !.timers[<<s, a>>] = IF PlanHasDeadline(s) THEN NoTimer ELSE @]

\* Mutants: what is downstream is left Scheduled; a failure outranks a cancel.
SettleFailureAlone(d, s) ==
    [d EXCEPT !.run = IF d.cancelling THEN "Cancelled" ELSE "Failed"]

SettleFailureOverCancel(d, s) == [SkipDownstream(d, s) EXCEPT !.run = "Failed"]

SettleFailure(d, s) ==
    [SkipDownstream(d, s) EXCEPT !.run = IF d.cancelling THEN "Cancelled" ELSE "Failed"]

\* Mutant: the answered question's timer is left standing.
CloseQuestionKeepsTimer(d, s, a) ==
    [d EXCEPT !.ask[s] = NoQuestion,
              !.answered[s] = TRUE,
              !.rows[<<s, a>>] = IF s \in Human THEN @ ELSE NoRow]

\* InputProvided for an attempt that asked: the question is closed, its timer
\* cancelled and the parked row retired.
CloseQuestion(d, s, a) ==
    [d EXCEPT !.ask[s] = NoQuestion,
              !.answered[s] = TRUE,
              !.timers[<<s, a>>] = NoTimer,
              !.rows[<<s, a>>] = IF s \in Human THEN @ ELSE NoRow]

AnswerLands(d, s, a) ==
    LET provided == CloseQuestion(d, s, a)
    IN  IF s \in Human THEN ContinueAfter(Complete(provided, s, a))
        ELSE ScheduleAttempts(provided, {s}, a + 1)

-----------------------------------------------------------------------------
(* Commands: decide and decide_active *)

StartExecution(d) == DispatchReady([d EXCEPT !.run = "Running"])

PauseExecution(d) == [d EXCEPT !.run = "Paused"]

ResumeExecution(d) == DispatchReady([d EXCEPT !.run = "Running"])

\* Mutant: everything that is not running is skipped, what has ended included.
CancelSkipsEnded(d) ==
    LET stopped == SkipSteps(d, {s \in Step : d.st[s] \notin {"Running", "AwaitingInput"}})
        running == \E s \in Step : d.st[s] \in {"Running", "AwaitingInput"}
    IN  IF d.cancelling THEN d
        ELSE [stopped EXCEPT !.cancelling = TRUE,
                             !.run = IF running THEN "Cancelling" ELSE "Cancelled"]

CancelExecution(d) ==
    LET stopped == SkipSteps(d, {s \in Step : d.st[s] \in {"Scheduled", "Pending"}})
        running == \E s \in Step : d.st[s] \in {"Running", "AwaitingInput"}
    IN  IF d.cancelling THEN d
        ELSE [stopped EXCEPT !.cancelling = TRUE,
                             !.run = IF running THEN "Cancelling" ELSE "Cancelled"]

MayRetryStep(d, s) == d.st[s] \in {"Failed", "Crashed"} /\ ~d.cancelling

RetryStep(d, s) == ScheduleAttempts(d, {s}, d.cur[s] + 1)

IsWaiting(d, s, a) == d.ask[s] # NoQuestion /\ d.cur[s] = a

\* now <= deadline; the role and the choices are the caller's.
MayProvideInput(d, s, a) == IsWaiting(d, s, a) /\ d.ask[s] # -1

ProvideInput(d, s, a) == AnswerLands(d, s, a)

TimeoutInput(d, s, a) ==
    CASE OnTimeout[s] = "Fail"   -> SettleFailure(Fail(d, s, a, "Policy"), s)
      [] OnTimeout[s] = "Skip"   -> ContinueAfter(Complete(d, s, a))
      [] OnTimeout[s] = "Answer" -> AnswerLands(d, s, a)

-----------------------------------------------------------------------------
(* Reports: the events a claimant or the pod launcher sends in *)

AcceptsStarted(d, s, a) == d.cur[s] = a

StepStarted(d, s, a) == [d EXCEPT !.st[s] = "Running"]

AcceptsQuestion(d, s, a) == d.cur[s] = a /\ ~Terminal(d.st[s])

\* Mutants: the row keeps its lease; the deadline is never put on the clock.
InputRequestedUnparked(d, s, a) ==
    [d EXCEPT !.st[s] = "AwaitingInput",
              !.ask[s] = Deadline[s],
              !.timers[<<s, a>>] = IF Deadline[s] = NoClock THEN @ ELSE Deadline[s]]

InputRequestedUntimed(d, s, a) ==
    [d EXCEPT !.st[s] = "AwaitingInput",
              !.ask[s] = Deadline[s],
              !.rows[<<s, a>>] = Park(@)]

\* The question names its own deadline; the row is parked, not retired.
InputRequested(d, s, a) ==
    [d EXCEPT !.st[s] = "AwaitingInput",
              !.ask[s] = Deadline[s],
              !.rows[<<s, a>>] = Park(@),
              !.timers[<<s, a>>] = IF Deadline[s] = NoClock THEN @ ELSE Deadline[s]]

AcceptsCompletion(d, s, a) == d.st[s] = "Completed" \/ d.cur[s] = a

StepCompleted(d, s, a) ==
    IF d.st[s] = "Completed" THEN d ELSE ContinueAfter(Complete(d, s, a))

\* A hit leaves `awaiting` and the timer table alone.
StepCacheHit(d, s, a) ==
    IF d.st[s] = "Completed" THEN d
    ELSE ContinueAfter([d EXCEPT !.st[s] = "Completed",
                                 !.keyed[s] = TRUE,
                                 !.rows[<<s, a>>] = NoRow])

AcceptsFailure(d, s, a) == Terminal(d.st[s]) => d.cur[s] = a

\* Mutant: the failure being decided on is not counted.
SpentBefore(d, s, kind) == Cardinality({a \in Attempt : d.err[<<s, a>>] = kind})

\* The failures of one kind, this one included, off the attempt records.
Spent(d, s, kind) == 1 + Cardinality({a \in Attempt : d.err[<<s, a>>] = kind})

Budget(kind) == IF kind = "work" THEN MaxAttempts ELSE MaxUnavailable

MayRetry(d, s, class) ==
    /\ Retryable(class)
    /\ Spent(d, s, KindOf(class)) < Budget(KindOf(class))
    /\ ~d.cancelling

\* Mutant: the retry is recorded and never dispatched.
ScheduleRetryUndispatched(d, s, next) == [d EXCEPT !.st[s] = "Pending", !.cur[s] = next]

\* StepRetryScheduled and its ExecuteStep.  The next attempt is the one after
\* the attempt that failed; the cache key the step has is left as it is.
ScheduleRetry(d, s, next) ==
    [d EXCEPT !.st[s] = "Pending",
              !.cur[s] = next,
              !.rows[<<s, next>>] = ClaimableRow(RetryDelay)]

StepFailed(d, s, a, class) ==
    LET failed == Fail(d, s, a, class)
    IN  IF MayRetry(d, s, class) THEN ScheduleRetry(failed, s, a + 1)
        ELSE SettleFailure(failed, s)
=============================================================================
