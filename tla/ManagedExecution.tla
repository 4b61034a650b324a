-------------------------- MODULE ManagedExecution --------------------------
(***************************************************************************)
(* One engine-managed execution and everybody who acts on it: the person   *)
(* or API client that sends commands, the reactors and workers that claim  *)
(* attempts, perform them and report, the timer loop, the pod launcher,    *)
(* and the clock under their leases.                                       *)
(*                                                                         *)
(*   crates/aiwatcher-execution/src/handler.rs   handle, decide_and_append *)
(*   crates/aiwatcher-execution/src/reactor.rs   take, perform, settle_at  *)
(*   crates/aiwatcher-execution/src/hosted.rs    fire_due_timers           *)
(*   crates/aiwatcher-api/src/worker.rs          claim, heartbeat, report  *)
(*   crates/aiwatcher-server/src/execution/pods/mod.rs  pass, watch        *)
(*                                                                         *)
(* A decision and its append are one step: decide_and_append re-decides on *)
(* every version conflict and appends the input, the facts and the rows in *)
(* one transaction.  What is NOT one step is everything around it: a claim *)
(* and its step.started, the work, the lease re-check and the report after *)
(* it are separate, and anything may happen in between.                    *)
(***************************************************************************)
EXTENDS ExecutionDecisions

CONSTANTS
    Reactor,        \* claimants inside the server: claim, perform, settle
    Worker,         \* claimants over HTTP: they renew their lease
    PodStep,        \* the ContainerJob steps; the pod of a key is that key
    Takes,          \* ClaimFilter.matches: [Reactor \cup Worker -> SUBSET Step]
    Outcomes,       \* how a step's work may end: [Step -> SUBSET Outcome]
    Refusals,       \* the classes an execution authority may refuse a reactor with
    Commands,       \* which commands a person may send
    MaxFaults       \* BOUND: how often a claimant is lost or outlives its lease

Outcome == {"Completed", "Ask"} \cup Class
Pod == PodStep \X Attempt

ASSUME ClaimantAssumption ==
    /\ Claimant = Reactor \cup Worker \cup Pod
    /\ Reactor \cap Worker = {}
    /\ Reactor \cap Pod = {}
    /\ Worker \cap Pod = {}
    /\ PodStep \subseteq Step \ Human
    /\ Takes \in [Reactor \cup Worker -> SUBSET (Step \ (Human \cup PodStep))]
    /\ Outcomes \in [Step -> SUBSET Outcome]
    /\ Refusals \subseteq Class
    /\ Commands \subseteq {"Pause", "Resume", "Cancel", "Retry", "Answer"}
    /\ MaxFaults \in Nat

VARIABLES
    ex,        \* the execution: what the stream folds to, and its rows
    seen,      \* the inbox: the ids of the reports and timers handled
    who,       \* where each claimant is in its pass
    runtime,   \* what the runtime holds under each idempotency key
    job,       \* the cluster's record of each launched pod
    launcher,  \* the rows the launcher's pass has read and not yet acted on
    faults     \* how many claimants have been lost or have stalled

vars == <<ex, seen, who, runtime, job, launcher, faults>>

Phase == {"idle", "claimed", "working", "executing", "done", "settling", "lost"}

Pass == [at : Phase, key : Key \cup {None}, retaken : BOOLEAN, out : Outcome \cup {None}]

Idle == [at |-> "idle", key |-> None, retaken |-> FALSE, out |-> None]

What == {"started", "cache-hit", "outcome", "pod-launcher", "deadline"}

TypeOK ==
    /\ ex \in Execution
    /\ seen \subseteq Key \X What
    /\ who \in [Claimant -> Pass]
    /\ \A c \in Claimant : who[c].at \notin {"idle", "lost"} => who[c].key \in Key
    /\ \A c \in Claimant : who[c].at \in {"done", "settling"} => who[c].out \in Outcome
    /\ runtime \in [Key -> {"absent", "running", "done"}]
    /\ job \in [Key -> {"none", "live", "ended", "closing", "closed"}]
    /\ launcher \subseteq Key
    /\ faults \in 0..MaxFaults

Init ==
    /\ ex = NotStarted
    /\ seen = {}
    /\ who = [c \in Claimant |-> Idle]
    /\ runtime = [k \in Key |-> "absent"]
    /\ job = [k \in Key |-> "none"]
    /\ launcher = {}
    /\ faults = 0

-----------------------------------------------------------------------------
(* handle: the inbox, the decision and the append, as one step *)

\* Mutant: the inbox is not consulted.
DeliverAgain(k, what, accepted, next) ==
    IF accepted
    THEN /\ ex' = next
         /\ seen' = seen \cup {<<k, what>>}
    ELSE UNCHANGED <<ex, seen>>

\* A redelivered id is a Duplicate and a refused report a DecisionError; both
\* leave the execution as it was, and report() swallows both.
Deliver(k, what, accepted, next) ==
    IF <<k, what>> \notin seen /\ accepted
    THEN /\ ex' = next
         /\ seen' = seen \cup {<<k, what>>}
    ELSE UNCHANGED <<ex, seen>>

-----------------------------------------------------------------------------
(* Commands.  The API derives a command's id from the stream's version, so *)
(* each one is new.                                                        *)

Start ==
    /\ ex.run = "Empty"
    /\ ex' = StartExecution(ex)
    /\ UNCHANGED <<seen, who, runtime, job, launcher, faults>>

Pause ==
    /\ "Pause" \in Commands
    /\ ex.run \notin {"Empty", "Paused"}
    /\ ~Terminal(ex.run)
    /\ ex' = PauseExecution(ex)
    /\ UNCHANGED <<seen, who, runtime, job, launcher, faults>>

Resume ==
    /\ "Resume" \in Commands
    /\ ex.run = "Paused"
    /\ ex' = ResumeExecution(ex)
    /\ UNCHANGED <<seen, who, runtime, job, launcher, faults>>

Cancel ==
    /\ "Cancel" \in Commands
    /\ ex.run # "Empty"
    /\ ~Terminal(ex.run)
    /\ ~ex.cancelling
    /\ ex' = CancelExecution(ex)
    /\ UNCHANGED <<seen, who, runtime, job, launcher, faults>>

Retry(s) ==
    /\ "Retry" \in Commands
    /\ ex.cur[s] < MaxAttempt
    /\ MayRetryStep(ex, s)
    /\ ex' = RetryStep(ex, s)
    /\ UNCHANGED <<seen, who, runtime, job, launcher, faults>>

Answer(k) ==
    /\ "Answer" \in Commands
    /\ MayProvideInput(ex, k[1], k[2])
    /\ k[1] \in Human \/ k[2] < MaxAttempt
    /\ ex' = ProvideInput(ex, k[1], k[2])
    /\ UNCHANGED <<seen, who, runtime, job, launcher, faults>>

-----------------------------------------------------------------------------
(* The timer loop *)

\* fire_deadline: a timer the decider refuses is retired, and one it has
\* already heard of (the inbox answers Duplicate) is left where it is.
FireDeadline(k) ==
    /\ ex.timers[k] = 0
    /\ (OnTimeout[k[1]] = "Answer" /\ k[1] \notin Human) => k[2] < MaxAttempt
    /\ IF <<k, "deadline">> \notin seen /\ ~IsWaiting(ex, k[1], k[2])
       THEN /\ ex' = [ex EXCEPT !.timers[k] = NoTimer]
            /\ UNCHANGED seen
       ELSE Deliver(k, "deadline", TRUE, TimeoutInput(ex, k[1], k[2]))
    /\ UNCHANGED <<who, runtime, job, launcher, faults>>

-----------------------------------------------------------------------------
(* A claimant's pass *)

MayTake(c, k) == IF c \in Pod THEN c = k /\ job[k] \in {"live", "closing"}
                 ELSE k[1] \in Takes[c]

\* claim_attempt: the row is taken under the store's lock.
TakeClaim(c, k) ==
    /\ who[c].at = "idle"
    /\ MayTake(c, k)
    /\ IsClaimable(ex.rows[k])
    /\ LET row == Claim(ex.rows[k], c)
       IN  /\ ex' = [ex EXCEPT !.rows[k] = row]
           /\ who' = [who EXCEPT ![c] = [Idle EXCEPT !.at = "claimed", !.key = k,
                                                     !.retaken = row.retaken]]
    /\ UNCHANGED <<seen, runtime, job, launcher, faults>>

\* take: an authority that could not answer leaves the attempt claimed.  Only
\* a project's reactor has one; the worker routes are built without.
TakeReleased(c) ==
    /\ c \in Reactor
    /\ who[c].at = "claimed"
    /\ \E class \in Refusals : Retryable(class)
    /\ who' = [who EXCEPT ![c] = Idle]
    /\ UNCHANGED <<ex, seen, runtime, job, launcher, faults>>

\* take: an authority that said no ends the attempt.
TakeRefused(c) ==
    /\ c \in Reactor
    /\ who[c].at = "claimed"
    /\ \E class \in Refusals :
        /\ ~Retryable(class)
        /\ who' = [who EXCEPT ![c].at = "settling", ![c].out = class]
    /\ UNCHANGED <<ex, seen, runtime, job, launcher, faults>>

\* take: the catalog holds an entry for the key the decider computed.
TakeCacheHit(c) ==
    /\ who[c].at = "claimed"
    /\ LET k == who[c].key
       IN  /\ ex.keyed[k[1]]
           /\ Deliver(k, "cache-hit", AcceptsCompletion(ex, k[1], k[2]),
                      StepCacheHit(ex, k[1], k[2]))
    /\ who' = [who EXCEPT ![c] = Idle]
    /\ UNCHANGED <<runtime, job, launcher, faults>>

TakeStarted(c) ==
    /\ who[c].at = "claimed"
    /\ LET k == who[c].key
       IN  Deliver(k, "started", AcceptsStarted(ex, k[1], k[2]),
                   StepStarted(ex, k[1], k[2]))
    /\ who' = [who EXCEPT ![c].at = "working"]
    /\ UNCHANGED <<runtime, job, launcher, faults>>

Becomes(c, outcome) == who' = [who EXCEPT ![c].at = "done", ![c].out = outcome]

\* carry_out: what a takeover learns from the runtime by the idempotency key.
\* Being unable to ask is a failure too.
PriorAttempt(k) ==
    CASE runtime[k] = "done"    -> {"Completed"}
      [] runtime[k] = "running" -> {"Transient"}
      [] runtime[k] = "absent"  -> {}

\* A reactor asks the runtime first, if somebody else held the row before it.
Lookup(c) ==
    /\ who[c].at = "working"
    /\ c \in Reactor /\ who[c].retaken
    /\ LET k == who[c].key
       IN  \E outcome \in PriorAttempt(k) \cup (Outcomes[k[1]] \cap {"Transient"}) :
              Becomes(c, outcome)
    /\ UNCHANGED <<ex, seen, runtime, job, launcher, faults>>

\* A worker's and a pod's work is their own process; a reactor's is a runtime
\* that outlives it.
Execute(c) ==
    /\ who[c].at = "working"
    /\ (c \in Reactor /\ who[c].retaken) => runtime[who[c].key] = "absent"
    /\ runtime' = IF c \in Reactor THEN [runtime EXCEPT ![who[c].key] = "running"]
                  ELSE runtime
    /\ who' = [who EXCEPT ![c].at = "executing"]
    /\ UNCHANGED <<ex, seen, job, launcher, faults>>

\* BOUND: no outcome whose decision would need an attempt past MaxAttempt.
Fits(k, outcome) ==
    (outcome = "Ask" \/ MayRetry(ex, k[1], outcome)) => k[2] < MaxAttempt

\* The executor returns: with a result or a question, or with an error that
\* may leave the runtime working (a timeout proves only that it was not heard).
Finish(c) ==
    /\ who[c].at = "executing"
    /\ \E outcome \in Outcomes[who[c].key[1]] :
        /\ Fits(who[c].key, outcome)
        /\ Becomes(c, outcome)
        /\ runtime' = IF c \in Reactor
                      THEN [runtime EXCEPT ![who[c].key] =
                              CASE outcome = "Completed" -> "done"
                                [] outcome = "Timeout"   -> @
                                [] OTHER                 -> "absent"]
                      ELSE runtime
    /\ UNCHANGED <<ex, seen, job, launcher, faults>>

\* The runtime finishes work whose caller is gone.
RuntimeFinishes(k) ==
    /\ runtime[k] = "running"
    /\ ~\E c \in Claimant : who[c].at = "executing" /\ who[c].key = k
    /\ runtime' = [runtime EXCEPT ![k] = "done"]
    /\ UNCHANGED <<ex, seen, who, job, launcher, faults>>

\* perform: the watch sees the run stopping and the attempt is abandoned.
StopReactor(c) ==
    /\ c \in Reactor
    /\ who[c].at \in {"working", "executing"}
    /\ Stopping(ex)
    /\ Becomes(c, "Policy")
    /\ UNCHANGED <<ex, seen, runtime, job, launcher, faults>>

\* The store's heartbeat.  A reactor's pass re-checks at the instant it claimed
\* at, so its lease is never too old and never renewed.
StillHolds(c, k) ==
    IF c \in Reactor THEN ex.rows[k].owner = c ELSE IsHeldBy(ex.rows[k], c)

Renewed(c, k) ==
    IF c \in Reactor THEN ex ELSE [ex EXCEPT !.rows[k].age = 0]

\* The worker's heartbeat route: a lease that went stops the worker, a run that
\* is stopping settles the attempt as stopped, anything else renews.
Heartbeat(c) ==
    /\ c \notin Reactor
    /\ who[c].at = "executing"
    /\ LET k == who[c].key
       IN  IF StillHolds(c, k)
           THEN /\ ex' = Renewed(c, k)
                /\ who' = IF Stopping(ex)
                          THEN [who EXCEPT ![c].at = "settling", ![c].out = "Policy"]
                          ELSE who
           ELSE /\ who' = [who EXCEPT ![c] = Idle]
                /\ UNCHANGED ex
    /\ UNCHANGED <<seen, runtime, job, launcher, faults>>

\* settle_at: the lease is re-checked, and an authority may still refuse.
Settle(c) ==
    /\ who[c].at = "done"
    /\ LET k == who[c].key
       IN  IF StillHolds(c, k)
           THEN /\ ex' = Renewed(c, k)
                /\ \E outcome \in {who[c].out} \cup (IF c \in Reactor THEN Refusals ELSE {}) :
                      /\ Fits(k, outcome)
                      /\ who' = [who EXCEPT ![c].at = "settling", ![c].out = outcome]
           ELSE /\ who' = [who EXCEPT ![c] = Idle]
                /\ UNCHANGED ex
    /\ UNCHANGED <<seen, runtime, job, launcher, faults>>

Report(c) ==
    /\ who[c].at = "settling"
    /\ LET k == who[c].key
           outcome == who[c].out
       IN  CASE outcome = "Completed" ->
                  Deliver(k, "outcome", AcceptsCompletion(ex, k[1], k[2]),
                          StepCompleted(ex, k[1], k[2]))
             [] outcome = "Ask" ->
                  Deliver(k, "outcome", AcceptsQuestion(ex, k[1], k[2]),
                          InputRequested(ex, k[1], k[2]))
             [] OTHER ->
                  /\ Fits(k, outcome)
                  /\ Deliver(k, "outcome", AcceptsFailure(ex, k[1], k[2]),
                             StepFailed(ex, k[1], k[2], outcome))
    /\ who' = [who EXCEPT ![c] = Idle]
    /\ UNCHANGED <<runtime, job, launcher, faults>>

\* A process dies and comes back under the name its host gave it (owner_of),
\* or a store error ends its pass.  Either way the row stays claimed.
Lose(c) ==
    /\ c \notin Pod
    /\ faults < MaxFaults
    /\ who[c].at # "idle"
    /\ faults' = faults + 1
    /\ who' = [who EXCEPT ![c] = Idle]
    /\ UNCHANGED <<ex, seen, runtime, job, launcher>>

-----------------------------------------------------------------------------
(* The pod launcher and its cluster *)

\* Mutant: a row its pod claimed is never looked at again.
LauncherReadsUnclaimed(k) ==
    /\ k \in Pod \ launcher
    /\ ex.rows[k].state = "pending"
    /\ IsClaimable(ex.rows[k])
    /\ launcher' = launcher \cup {k}
    /\ UNCHANGED <<ex, seen, who, runtime, job, faults>>

\* pass reads the claimable rows once, and unfinished() the held row of a Job
\* the cluster still lists.
LauncherReads(k) ==
    /\ k \in Pod \ launcher
    /\ \/ IsClaimable(ex.rows[k])
       \/ /\ ex.rows[k].state \in {"pending", "running"}
          /\ job[k] \in {"live", "ended", "closing"}
    /\ launcher' = launcher \cup {k}
    /\ UNCHANGED <<ex, seen, who, runtime, job, faults>>

LaunchPod(k) ==
    /\ k \in launcher
    /\ job[k] = "none"
    /\ ~Stopping(ex)
    /\ job' = [job EXCEPT ![k] = "live"]
    /\ launcher' = launcher \ {k}
    /\ UNCHANGED <<ex, seen, who, runtime, faults>>

\* watch: a pod that is starting or holds its attempt, and is not overdue.
LauncherPasses(k) ==
    /\ k \in launcher
    /\ job[k] = "live"
    /\ ~Stopping(ex)
    /\ launcher' = launcher \ {k}
    /\ UNCHANGED <<ex, seen, who, runtime, job, faults>>

\* What the launcher may say of an attempt: no pod could be started for it; its
\* pod ended, never claimed it or ran past its deadline; its run is stopping.
LauncherClasses(k) ==
    CASE job[k] = "none" -> IF Stopping(ex) THEN {"Policy"} ELSE {"UserCode", "Validation"}
      [] job[k] = "live" -> IF Stopping(ex) THEN {"Policy"} ELSE {"Infrastructure"}
      [] job[k] = "ended" -> {"Infrastructure"}
      [] OTHER -> {"Infrastructure"} \cup (IF Stopping(ex) THEN {"Policy"} ELSE {})

\* report, on the row the pass read, and then close() of the Job if there is one.
LauncherReports(k) ==
    /\ k \in launcher
    /\ \E class \in LauncherClasses(k) :
        /\ Fits(k, class)
        /\ Deliver(k, "pod-launcher", AcceptsFailure(ex, k[1], k[2]),
                   StepFailed(ex, k[1], k[2], class))
    /\ launcher' = launcher \ {k}
    /\ job' = IF job[k] = "none" THEN job ELSE [job EXCEPT ![k] = "closing"]
    /\ UNCHANGED <<who, runtime, faults>>

\* watch: nothing is left to report of this pod, and its Job goes.
LauncherCloses(k) ==
    /\ k \in Pod \ launcher
    /\ job[k] = "ended" \/ (job[k] = "live" /\ Stopping(ex))
    /\ ex.rows[k].state \in {"absent", "awaiting"}
    /\ job' = [job EXCEPT ![k] = "closing"]
    /\ UNCHANGED <<ex, seen, who, runtime, launcher, faults>>

PodEnds(k) ==
    /\ k \in Pod
    /\ job[k] = "live"
    /\ job' = [job EXCEPT ![k] = "ended"]
    /\ who' = [who EXCEPT ![k] = [Idle EXCEPT !.at = "lost"]]
    /\ UNCHANGED <<ex, seen, runtime, launcher, faults>>

CloseJob(k) ==
    /\ k \in Pod
    /\ job[k] = "closing"
    /\ job' = [job EXCEPT ![k] = "closed"]
    /\ who' = [who EXCEPT ![k] = [Idle EXCEPT !.at = "lost"]]
    /\ UNCHANGED <<ex, seen, runtime, launcher, faults>>

-----------------------------------------------------------------------------
(* The clock *)

Older(row) ==
    [row EXCEPT !.age = IF row.age <= Lease THEN row.age + 1 ELSE row.age,
                !.wait = IF row.wait > 0 THEN row.wait - 1 ELSE row.wait]

Aged(d) ==
    [d EXCEPT
        !.rows = [k \in Key |-> Older(d.rows[k])],
        !.ask = [s \in Step |-> IF d.ask[s] >= 0 THEN d.ask[s] - 1 ELSE d.ask[s]],
        !.timers = [k \in Key |-> IF d.timers[k] > 0 THEN d.timers[k] - 1 ELSE d.timers[k]]]

\* A claimant in the middle of its pass is about to outlive its own lease.
Stalls ==
    \E c \in Claimant :
        /\ who[c].at \notin {"idle", "lost"}
        /\ ex.rows[who[c].key].owner = c
        /\ ex.rows[who[c].key].age = Lease

\* BOUND: a pass longer than the lease is one of the MaxFaults faults.
Tick ==
    /\ Aged(ex) # ex
    /\ ex' = Aged(ex)
    /\ IF Stalls THEN faults < MaxFaults /\ faults' = faults + 1
       ELSE UNCHANGED faults
    /\ UNCHANGED <<seen, who, runtime, job, launcher>>

-----------------------------------------------------------------------------
Commanded ==
    \/ Start \/ Pause \/ Resume \/ Cancel
    \/ \E s \in Step : Retry(s)
    \/ \E k \in Key : Answer(k)

\* What poll_once, or a worker's loop, does next when nothing interrupts it.
Work(c) ==
    \/ \E k \in Key : TakeClaim(c, k)
    \/ TakeReleased(c) \/ TakeRefused(c) \/ TakeCacheHit(c) \/ TakeStarted(c)
    \/ Lookup(c) \/ Execute(c) \/ Finish(c)
    \/ Settle(c) \/ Report(c)

Launcher(k) ==
    \/ LauncherReads(k) \/ LaunchPod(k) \/ LauncherPasses(k)
    \/ LauncherReports(k) \/ LauncherCloses(k) \/ CloseJob(k)

Next ==
    \/ Commanded
    \/ Tick
    \/ \E c \in Claimant : Work(c) \/ StopReactor(c) \/ Heartbeat(c) \/ Lose(c)
    \/ \E k \in Key : FireDeadline(k) \/ RuntimeFinishes(k) \/ PodEnds(k) \/ Launcher(k)

Spec == Init /\ [][Next]_vars

\* The server starts what it was asked to, polls in a loop that never ends and
\* ticks its timers; a claimant that is not lost goes on with its pass.  Nobody
\* promises that a person answers, resumes or cancels, nor that a pod ends.
Fairness ==
    /\ WF_vars(Start)
    /\ WF_vars(Tick)
    /\ \A c \in Claimant : WF_vars(Work(c))
    /\ WF_vars(\E k \in Key : FireDeadline(k))
    /\ \A k \in Pod : WF_vars(Launcher(k))

FairSpec == Spec /\ Fairness

-----------------------------------------------------------------------------
(* Safety *)

\* The claim table is about the present (claim.rs, AttemptWrite): a row is of
\* its step's current attempt, of a step that is not over, and parked exactly
\* while the step waits for a person.
ClaimTableIsCurrent ==
    \A k \in Key : ex.rows[k].state # "absent" =>
        /\ k[2] = ex.cur[k[1]]
        /\ ~Terminal(ex.st[k[1]])
        /\ ex.rows[k].state = "awaiting" <=> ex.st[k[1]] = "AwaitingInput"

\* No dispatched work is stranded: a step the log calls pending or running has
\* a row that somebody holds or may claim.  It is what lets a lost claim
\* recover on its own (claim.rs, is_claimable).
NothingStranded ==
    \A s \in Step \ Human : ex.st[s] \in {"Pending", "Running"} =>
        /\ ex.cur[s] > 0
        /\ ex.rows[<<s, ex.cur[s]>>].state \in {"pending", "running"}

\* A plan runs in order, across takeovers and retries: a step that has been
\* given an attempt has every parent Completed (decide.rs, dispatch_ready).
ParentsFirst ==
    \A s \in Step : ex.cur[s] > 0 => \A p \in Parents[s] : ex.st[p] = "Completed"

\* Retries are earned and bounded: every attempt before the current one is
\* recorded as failed, and neither kind of failure is recorded more often than
\* its own budget allows (decide.rs, StepFailed).
RetriesAreEarned ==
    \A s \in Step :
        /\ \A a \in Attempt : a < ex.cur[s] => ex.err[<<s, a>>] # "none"
        /\ Cardinality({a \in Attempt : ex.err[<<s, a>>] = "work"}) <= MaxAttempts
        /\ Cardinality({a \in Attempt : ex.err[<<s, a>>] = "unavailable"}) <= MaxUnavailable

\* The run's own state agrees with its steps: Completed means all of them did,
\* Failed that one of them did not and nothing below it will, and a run still
\* Running has an attempt somebody can take or a question somebody can answer.
RunAgreesWithSteps ==
    /\ ex.run = "Completed" => \A s \in Step : ex.st[s] = "Completed"
    /\ ex.run = "Failed" =>
          \E s \in Step : /\ ex.st[s] \in {"Failed", "Crashed"}
                          /\ \A c \in Downstream(s) : ex.st[c] = "Cancelled"
    /\ ex.run = "Running" =>
          \/ \E k \in Key : ex.rows[k].state # "absent"
          \/ \E s \in Step : ex.ask[s] # NoQuestion

\* A question and its clock agree: a timer row stands exactly while the attempt
\* it names waits on a question with a deadline, and comes due when that does.
\* Neither is left behind by an answer, a lapse, a cancel or a retry
\* (handler.rs, deadline_rows).
DeadlinesAgree ==
    \A s \in Step, a \in Attempt :
        IF IsWaiting(ex, s, a) /\ ex.ask[s] # NoClock
        THEN ex.timers[<<s, a>>] = IF ex.ask[s] = -1 THEN 0 ELSE ex.ask[s]
        ELSE ex.timers[<<s, a>>] = NoTimer

\* Work somebody answered is never served from the catalog: from the answer on
\* the step has no cache key, through every later retry (decide.rs,
\* schedule_attempt).
AnswersAreNotCached ==
    \A s \in Step \ Human : ex.answered[s] => ~ex.keyed[s]

\* A pause, and a cancel, hold the plan back: whatever completes, is answered
\* or times out meanwhile, no step gets its first attempt (decide.rs,
\* dispatch_ready).
HeldBack ==
    [][ (ex.cancelling \/ (ex.run = "Paused" /\ ex'.run = "Paused"))
        => \A s \in Step : ex.cur[s] = 0 => ex'.cur[s] = 0 ]_vars

\* A cancelled run never becomes anything else, however late an answer, a
\* deadline or a report arrives (decide.rs, settle_failure, continue_after).
CancelIsFinal ==
    [][ex.run = "Cancelled" => ex'.run = "Cancelled"]_vars

\* A recorded success is final: no takeover, late report or deadline takes a
\* Completed step back (decide.rs, StepCompleted).
CompletedIsFinal ==
    [][\A s \in Step : ex.st[s] = "Completed" => ex'.st[s] = "Completed"]_vars

-----------------------------------------------------------------------------
(* Liveness *)

\* A run that was started ends, whatever its claimants lose.
RunEnds == ex.run = "Running" ~> Terminal(ex.run)

\* A question with a deadline is over once it has passed, answered or not.
QuestionsEnd ==
    \A s \in Step : ex.ask[s] >= -1 ~> ex.ask[s] = NoQuestion

\* A cancel ends the run, with every claimant still at work.
CancelEnds == ex.cancelling ~> ex.run = "Cancelled"

=============================================================================
