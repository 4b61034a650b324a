----------------------- MODULE ManagedExecutionProofs -----------------------
(***************************************************************************)
(* What holds of a managed execution for every plan, every set of          *)
(* claimants and every retry policy: its state is well typed, a cancelled  *)
(* run stays cancelled, an answered question stays out of the cache, and a *)
(* paused or cancelling run begins no step.  The first part takes the      *)
(* decisions one by one (each takes an execution to an execution), then    *)
(* the actions; the second follows the same two layers with Keeps in place *)
(* of the type.  The third describes every decision by what it does to     *)
(* each step's own part of the execution (its state, its attempt, its      *)
(* question, its rows and timers); its invariants speak of one step at a   *)
(* time and are carried through those descriptions.                        *)
(***************************************************************************)
EXTENDS ManagedExecution, TLAPS

USE PlanAssumption, PolicyAssumption DEF Attempt, Key

\* The rows the decisions write are rows.
LEMMA RowTypes ==
  /\ NoRow \in Row
  /\ \A delay \in 0..RetryDelay : ClaimableRow(delay) \in Row
  /\ \A row \in Row, c \in Claimant : Claim(row, c) \in Row
  /\ \A row \in Row : Park(row) \in Row
  <1>1. NoRow \in Row
    BY DEF NoRow, Row, RowState
  <1>2. ASSUME NEW delay \in 0..RetryDelay PROVE ClaimableRow(delay) \in Row
    BY <1>1 DEF ClaimableRow, Row, RowState
  <1>3. ASSUME NEW row \in Row, NEW c \in Claimant PROVE Claim(row, c) \in Row
    <2> DEFINE taken == IF row.owner = c THEN row.retaken ELSE row.owner # None
    <2>1. taken \in BOOLEAN
      BY DEF Row
    <2>2. Claim(row, c) = [row EXCEPT !.state = "running", !.owner = c, !.age = 0,
                                      !.retaken = taken]
      BY DEF Claim
    <2>3. 0 \in 0..(Lease + 1)
      OBVIOUS
    <2> HIDE DEF taken
    <2> QED BY <2>1, <2>2, <2>3 DEF Row, RowState
  <1>4. ASSUME NEW row \in Row PROVE Park(row) \in Row
    <2>1. Lease + 1 \in 0..(Lease + 1)
      OBVIOUS
    <2>2. [row EXCEPT !.state = "awaiting", !.owner = None,
                     !.retaken = FALSE, !.age = Lease + 1] \in Row
      BY <2>1 DEF Row, RowState
    <2> QED BY <2>2 DEF Park
  <1> QED BY <1>1, <1>2, <1>3, <1>4

-----------------------------------------------------------------------------
(* Every decision takes an execution to an execution *)

\* schedule_attempt: the rows, timers and questions it opens are in range.
LEMMA ScheduleAttemptsType ==
  ASSUME NEW d \in Execution, NEW S \in SUBSET Step, NEW n \in Attempt
  PROVE  ScheduleAttempts(d, S, n) \in Execution
  <1> DEFINE st == [s \in Step |-> IF s \in S
                                   THEN IF s \in Human THEN "AwaitingInput" ELSE "Pending"
                                   ELSE d.st[s]]
             cur == [s \in Step |-> IF s \in S THEN n ELSE d.cur[s]]
             keyed == [s \in Step |-> IF s \in S THEN CacheKey(d, s) ELSE d.keyed[s]]
             ask == [s \in Step |-> IF s \in S \cap Human THEN Deadline[s] ELSE d.ask[s]]
             timers == [k \in Key |-> IF /\ k[1] \in S \cap Human
                                         /\ k[2] = n
                                         /\ Deadline[k[1]] # NoClock
                                      THEN Deadline[k[1]] ELSE d.timers[k]]
             rows == [k \in Key |-> IF k[1] \in S \ Human /\ k[2] = n
                                    THEN ClaimableRow(0) ELSE d.rows[k]]
  <1>1. st \in [Step -> StepState]
    BY DEF Execution, StepState
  <1>2. cur \in [Step -> 0..MaxAttempt]
    BY DEF Execution
  <1>3. keyed \in [Step -> BOOLEAN]
    <2>1. \A s \in Step : CacheKey(d, s) \in BOOLEAN
      BY DEF CacheKey
    <2>2. d.keyed \in [Step -> BOOLEAN]
      BY DEF Execution
    <2> QED BY <2>1, <2>2
  <1>4. ask \in [Step -> Question]
    BY DEF Execution, Question
  <1>5. timers \in [Key -> Timer]
    BY DEF Execution, Timer
  <1>6. rows \in [Key -> Row]
    <2>1. ClaimableRow(0) \in Row
      BY RowTypes
    <2>2. d.rows \in [Key -> Row]
      BY DEF Execution
    <2> QED BY <2>1, <2>2
  <1>7. ScheduleAttempts(d, S, n) = [d EXCEPT !.st = st, !.cur = cur, !.keyed = keyed,
                                              !.ask = ask, !.timers = timers, !.rows = rows]
    BY DEF ScheduleAttempts
  <1> HIDE DEF st, cur, keyed, ask, timers, rows
  <1> QED BY <1>1, <1>2, <1>3, <1>4, <1>5, <1>6, <1>7, ZenonT(60) DEF Execution

\* Naming the run's state leaves the rest alone.
LEMMA RunType ==
  ASSUME NEW d \in Execution, NEW r \in RunState
  PROVE  [d EXCEPT !.run = r] \in Execution
  BY DEF Execution

\* dispatch_ready schedules steps of the plan, at their first attempt.
LEMMA DispatchReadyType ==
  ASSUME NEW d \in Execution
  PROVE  DispatchReady(d) \in Execution
  <1>1. Ready(d) \in SUBSET Step /\ 1 \in Attempt
    BY DEF Ready
  <1> QED BY <1>1, ScheduleAttemptsType DEF DispatchReady

\* continue_after ends the run or dispatches.
LEMMA ContinueAfterType ==
  ASSUME NEW d \in Execution
  PROVE  ContinueAfter(d) \in Execution
  <1>1. {"Cancelled", "Completed"} \subseteq RunState
    BY DEF RunState
  <1>2. /\ [d EXCEPT !.run = "Cancelled"] \in Execution
        /\ [d EXCEPT !.run = "Completed"] \in Execution
    BY <1>1, RunType
  <1> QED BY <1>2, DispatchReadyType DEF ContinueAfter

\* Skipping retires rows and nothing else.
LEMMA SkipStepsType ==
  ASSUME NEW d \in Execution, NEW S \in SUBSET Step
  PROVE  SkipSteps(d, S) \in Execution
  <1> DEFINE st == [s \in Step |-> IF s \in S THEN "Cancelled" ELSE d.st[s]]
             rows == [k \in Key |-> IF k[1] \in S \ Human /\ k[2] = d.cur[k[1]]
                                    THEN NoRow ELSE d.rows[k]]
  <1>1. st \in [Step -> StepState]
    BY DEF Execution, StepState
  <1>2. rows \in [Key -> Row]
    BY RowTypes DEF Execution
  <1>3. SkipSteps(d, S) = [d EXCEPT !.st = st, !.rows = rows]
    BY DEF SkipSteps
  <1> HIDE DEF st, rows
  <1> QED BY <1>1, <1>2, <1>3 DEF Execution

\* apply(StepCompleted), with its rows.
LEMMA CompleteType ==
  ASSUME NEW d \in Execution, NEW s \in Step, NEW a \in Attempt
  PROVE  Complete(d, s, a) \in Execution
  BY RowTypes DEF Complete, Execution, StepState, Question, Timer

\* apply(StepFailed), with its rows.
LEMMA FailType ==
  ASSUME NEW d \in Execution, NEW s \in Step, NEW a \in Attempt, NEW class \in Class
  PROVE  Fail(d, s, a, class) \in Execution
  <1>1. AttemptState(class) \in StepState /\ KindOf(class) \in Kind
    BY DEF AttemptState, KindOf, StepState, Kind
  <1> QED BY <1>1, RowTypes DEF Fail, Execution, Question, Timer

\* settle_failure skips what is downstream and ends the run.
LEMMA SettleFailureType ==
  ASSUME NEW d \in Execution, NEW s \in Step
  PROVE  SettleFailure(d, s) \in Execution
  <1>1. SkipDownstream(d, s) \in Execution
    <2>1. {c \in Downstream(s) : ~Terminal(d.st[c])} \in SUBSET Step
      BY DEF Downstream
    <2> QED BY <2>1, SkipStepsType DEF SkipDownstream
  <1>2. (IF d.cancelling THEN "Cancelled" ELSE "Failed") \in RunState
    BY DEF RunState
  <1> QED BY <1>1, <1>2, RunType DEF SettleFailure

\* InputProvided closes the question it answers.
LEMMA CloseQuestionType ==
  ASSUME NEW d \in Execution, NEW s \in Step, NEW a \in Attempt
  PROVE  CloseQuestion(d, s, a) \in Execution
  BY RowTypes DEF CloseQuestion, Execution, Question, Timer

\* answer_lands completes a gate, or opens the next attempt of a step that asked.
LEMMA AnswerLandsType ==
  ASSUME NEW d \in Execution, NEW s \in Step, NEW a \in Attempt,
         s \in Human \/ a < MaxAttempt
  PROVE  AnswerLands(d, s, a) \in Execution
  <1>1. CloseQuestion(d, s, a) \in Execution
    BY CloseQuestionType
  <1>2. CASE s \in Human
    BY <1>1, <1>2, CompleteType, ContinueAfterType DEF AnswerLands
  <1>3. CASE s \notin Human
    <2>1. a + 1 \in Attempt /\ {s} \in SUBSET Step
      BY <1>3
    <2> QED BY <1>1, <1>3, <2>1, ScheduleAttemptsType DEF AnswerLands
  <1> QED BY <1>2, <1>3

\* Cancel skips what has not started.
LEMMA CancelExecutionType ==
  ASSUME NEW d \in Execution
  PROVE  CancelExecution(d) \in Execution
  <1> DEFINE S == {s \in Step : d.st[s] \in {"Scheduled", "Pending"}}
             r == IF \E s \in Step : d.st[s] \in {"Running", "AwaitingInput"}
                  THEN "Cancelling" ELSE "Cancelled"
  <1>1. SkipSteps(d, S) \in Execution
    BY SkipStepsType
  <1>2. r \in RunState
    BY DEF RunState
  <1>3. CancelExecution(d) = IF d.cancelling THEN d
                             ELSE [SkipSteps(d, S) EXCEPT !.cancelling = TRUE, !.run = r]
    BY DEF CancelExecution
  <1> HIDE DEF S, r
  <1>4. [SkipSteps(d, S) EXCEPT !.cancelling = TRUE, !.run = r] \in Execution
    BY <1>1, <1>2 DEF Execution
  <1> QED BY <1>3, <1>4

\* Each of the three policies for a question nobody answered.
LEMMA TimeoutInputType ==
  ASSUME NEW d \in Execution, NEW s \in Step, NEW a \in Attempt,
         OnTimeout[s] = "Answer" /\ s \notin Human => a < MaxAttempt
  PROVE  TimeoutInput(d, s, a) \in Execution
  <1>1. CASE OnTimeout[s] = "Fail"
    <2>1. "Policy" \in Class
      BY DEF Class
    <2>2. Fail(d, s, a, "Policy") \in Execution
      BY <2>1, FailType
    <2>3. SettleFailure(Fail(d, s, a, "Policy"), s) \in Execution
      BY <2>2, SettleFailureType
    <2> QED BY <1>1, <2>3 DEF TimeoutInput
  <1>2. CASE OnTimeout[s] = "Skip"
    <2>1. ContinueAfter(Complete(d, s, a)) \in Execution
      BY CompleteType, ContinueAfterType
    <2> QED BY <1>2, <2>1 DEF TimeoutInput
  <1>3. CASE OnTimeout[s] = "Answer"
    <2>1. AnswerLands(d, s, a) \in Execution
      BY <1>3, AnswerLandsType
    <2> QED BY <1>3, <2>1 DEF TimeoutInput
  <1> QED BY <1>1, <1>2, <1>3

\* InputRequested parks the row and puts the deadline on the clock.
LEMMA InputRequestedType ==
  ASSUME NEW d \in Execution, NEW s \in Step, NEW a \in Attempt
  PROVE  InputRequested(d, s, a) \in Execution
  <1>1. d.rows[<<s, a>>] \in Row /\ Park(d.rows[<<s, a>>]) \in Row
    BY RowTypes DEF Execution
  <1> QED BY <1>1, ZenonT(60) DEF InputRequested, Execution, StepState, Question, Timer

\* A cache hit completes its step.
LEMMA StepCacheHitType ==
  ASSUME NEW d \in Execution, NEW s \in Step, NEW a \in Attempt
  PROVE  StepCacheHit(d, s, a) \in Execution
  <1>1. [d EXCEPT !.st[s] = "Completed", !.keyed[s] = TRUE, !.rows[<<s, a>>] = NoRow] \in Execution
    BY RowTypes DEF Execution, StepState
  <1> QED BY <1>1, ContinueAfterType DEF StepCacheHit

\* StepFailed retries while the attempt after it is within the bound, or settles.
LEMMA StepFailedType ==
  ASSUME NEW d \in Execution, NEW s \in Step, NEW a \in Attempt, NEW class \in Class,
         MayRetry(d, s, class) => a < MaxAttempt
  PROVE  StepFailed(d, s, a, class) \in Execution
  <1>1. Fail(d, s, a, class) \in Execution
    BY FailType
  <1>2. ASSUME NEW e \in Execution, NEW n \in Attempt PROVE ScheduleRetry(e, s, n) \in Execution
    <2>1. ClaimableRow(RetryDelay) \in Row
      BY RowTypes
    <2>2. n \in 0..MaxAttempt /\ <<s, n>> \in Key /\ "Pending" \in StepState
      BY DEF StepState
    <2>3. [e.rows EXCEPT ![<<s, n>>] = ClaimableRow(RetryDelay)] \in [Key -> Row]
      BY <2>1, <2>2 DEF Execution
    <2>4. [e.st EXCEPT ![s] = "Pending"] \in [Step -> StepState]
      BY <2>2 DEF Execution
    <2>5. [e.cur EXCEPT ![s] = n] \in [Step -> 0..MaxAttempt]
      BY <2>2 DEF Execution
    <2> QED BY <2>3, <2>4, <2>5 DEF ScheduleRetry, Execution
  <1>3. MayRetry(d, s, class) => a + 1 \in Attempt
    OBVIOUS
  <1> QED BY <1>1, <1>2, <1>3, SettleFailureType DEF StepFailed

\* A tick of the clock.
LEMMA AgedType ==
  ASSUME NEW d \in Execution
  PROVE  Aged(d) \in Execution
  <1> DEFINE rows == [k \in Key |-> Older(d.rows[k])]
             ask == [s \in Step |-> IF d.ask[s] >= 0 THEN d.ask[s] - 1 ELSE d.ask[s]]
             timers == [k \in Key |-> IF d.timers[k] > 0 THEN d.timers[k] - 1 ELSE d.timers[k]]
  <1>1. rows \in [Key -> Row]
    <2>1. ASSUME NEW row \in Row PROVE Older(row) \in Row
      <3>1. /\ (IF row.age <= Lease THEN row.age + 1 ELSE row.age) \in 0..(Lease + 1)
            /\ (IF row.wait > 0 THEN row.wait - 1 ELSE row.wait) \in 0..RetryDelay
        BY DEF Row
      <3> QED BY <3>1 DEF Older, Row
    <2> QED BY <2>1 DEF Execution
  <1>2. ask \in [Step -> Question]
    <2>1. ASSUME NEW q \in Question PROVE (IF q >= 0 THEN q - 1 ELSE q) \in Question
      BY DEF Question, NoClock, NoQuestion
    <2> QED BY <2>1 DEF Execution
  <1>3. timers \in [Key -> Timer]
    <2>1. ASSUME NEW q \in Timer PROVE (IF q > 0 THEN q - 1 ELSE q) \in Timer
      BY DEF Timer, NoTimer
    <2> QED BY <2>1 DEF Execution
  <1>4. Aged(d) = [d EXCEPT !.rows = rows, !.ask = ask, !.timers = timers]
    BY DEF Aged
  <1> HIDE DEF rows, ask, timers
  <1> QED BY <1>1, <1>2, <1>3, <1>4 DEF Execution

-----------------------------------------------------------------------------
(* Steps *)

\* A pass, and one that has got as far as it says.
PassOK(w) ==
    /\ w \in Pass
    /\ w.at \notin {"idle", "lost"} => w.key \in Key
    /\ w.at \in {"done", "settling"} => w.out \in Outcome

\* Moving one claimant keeps every claimant's pass in order.
LEMMA MovesOn ==
  ASSUME TypeOK, NEW c \in Claimant, NEW w, PassOK(w), who' = [who EXCEPT ![c] = w]
  PROVE  /\ who' \in [Claimant -> Pass]
         /\ \A g \in Claimant : who'[g].at \notin {"idle", "lost"} => who'[g].key \in Key
         /\ \A g \in Claimant : who'[g].at \in {"done", "settling"} => who'[g].out \in Outcome
  <1>1. \A g \in Claimant : who'[g] = IF g = c THEN w ELSE who[g]
    BY DEF TypeOK
  <1>2. who' \in [Claimant -> Pass]
    BY DEF TypeOK, PassOK
  <1> QED BY <1>1, <1>2 DEF TypeOK, PassOK

\* The passes an action writes.
LEMMA PassTypes ==
  ASSUME NEW w, PassOK(w), NEW k \in Key, NEW b \in BOOLEAN, NEW out \in Outcome
  PROVE  /\ PassOK(Idle)
         /\ PassOK([Idle EXCEPT !.at = "lost"])
         /\ PassOK([Idle EXCEPT !.at = "claimed", !.key = k, !.retaken = b])
         /\ w.at \notin {"idle", "lost"} =>
               /\ PassOK([w EXCEPT !.at = "working"])
               /\ PassOK([w EXCEPT !.at = "executing"])
               /\ PassOK([w EXCEPT !.at = "done", !.out = out])
               /\ PassOK([w EXCEPT !.at = "settling", !.out = out])
  <1>1. PassOK(Idle)
    BY DEF PassOK, Pass, Idle, Phase
  <1>2. PassOK([Idle EXCEPT !.at = "lost"])
    BY <1>1 DEF PassOK, Pass, Phase
  <1>3. PassOK([Idle EXCEPT !.at = "claimed", !.key = k, !.retaken = b])
    BY <1>1 DEF PassOK, Pass, Phase
  <1>4. ASSUME w.at \notin {"idle", "lost"}
        PROVE  PassOK([w EXCEPT !.at = "working"]) /\ PassOK([w EXCEPT !.at = "executing"])
    BY <1>4 DEF PassOK, Pass, Phase
  <1>5. ASSUME w.at \notin {"idle", "lost"} PROVE PassOK([w EXCEPT !.at = "done", !.out = out])
    BY <1>5 DEF PassOK, Pass, Phase
  <1>6. ASSUME w.at \notin {"idle", "lost"} PROVE PassOK([w EXCEPT !.at = "settling", !.out = out])
    BY <1>6 DEF PassOK, Pass, Phase
  <1> QED BY <1>1, <1>2, <1>3, <1>4, <1>5, <1>6

\* What TypeOK says of one claimant and of one key.
LEMMA Parts ==
  ASSUME TypeOK
  PROVE  /\ ex \in Execution
         /\ \A c \in Claimant : PassOK(who[c])
         /\ \A s \in Step, a \in Attempt : <<s, a>> \in Key
         /\ \A k \in Key : k[1] \in Step /\ k[2] \in Attempt /\ k = <<k[1], k[2]>>
         /\ \A k \in Key : ex.rows[k] \in Row
         /\ \A s \in Step : ex.cur[s] \in 0..MaxAttempt
  <1>1. ex \in Execution /\ \A c \in Claimant : PassOK(who[c])
    BY DEF TypeOK, PassOK
  <1>2. /\ \A s \in Step, a \in Attempt : <<s, a>> \in Key
        /\ \A k \in Key : k[1] \in Step /\ k[2] \in Attempt /\ k = <<k[1], k[2]>>
    OBVIOUS
  <1>3. (\A k \in Key : ex.rows[k] \in Row) /\ \A s \in Step : ex.cur[s] \in 0..MaxAttempt
    BY <1>1 DEF Execution
  <1> QED BY <1>1, <1>2, <1>3

\* A step of which only the execution, the inbox and one claimant's pass move.
LEMMA Moved ==
  ASSUME TypeOK, ex' \in Execution, seen' \subseteq Key \X What,
         NEW c \in Claimant, NEW w, PassOK(w), who' = [who EXCEPT ![c] = w],
         runtime' \in [Key -> {"absent", "running", "done"}],
         UNCHANGED <<job, launcher, faults>>
  PROVE  TypeOK'
  BY MovesOn DEF TypeOK

\* Commands write executions.
LEMMA CommandType ==
  ASSUME TypeOK, Commanded
  PROVE  TypeOK'
  <1>0. ex \in Execution /\ \A s \in Step : ex.cur[s] \in 0..MaxAttempt
    BY Parts
  <1>1. UNCHANGED <<seen, who, runtime, job, launcher, faults>>
    BY DEF Commanded, Start, Pause, Resume, Cancel, Retry, Answer
  <1>2. {"Running", "Paused"} \subseteq RunState
    BY DEF RunState
  <1>3. ASSUME Start \/ Resume PROVE ex' \in Execution
    <2>1. [ex EXCEPT !.run = "Running"] \in Execution
      BY <1>0, <1>2, RunType
    <2> QED BY <1>3, <2>1, DispatchReadyType DEF Start, Resume, StartExecution, ResumeExecution
  <1>4. ASSUME Pause PROVE ex' \in Execution
    BY <1>0, <1>2, <1>4, RunType DEF Pause, PauseExecution
  <1>5. ASSUME Cancel PROVE ex' \in Execution
    BY <1>0, <1>5, CancelExecutionType DEF Cancel
  <1>6. ASSUME NEW s \in Step, Retry(s) PROVE ex' \in Execution
    <2>1. ex.cur[s] + 1 \in Attempt /\ {s} \in SUBSET Step
      BY <1>0, <1>6 DEF Retry
    <2> QED BY <1>0, <1>6, <2>1, ScheduleAttemptsType DEF Retry, RetryStep
  <1>7. ASSUME NEW k \in Key, Answer(k) PROVE ex' \in Execution
    <2>1. k[1] \in Step /\ k[2] \in Attempt
      OBVIOUS
    <2> QED BY <1>0, <1>7, <2>1, AnswerLandsType DEF Answer, ProvideInput
  <1>8. ex' \in Execution
    BY <1>3, <1>4, <1>5, <1>6, <1>7 DEF Commanded
  <1> QED BY <1>1, <1>8 DEF TypeOK

\* A deadline that fires writes an execution.
LEMMA FireDeadlineType ==
  ASSUME TypeOK, NEW k \in Key, FireDeadline(k)
  PROVE  TypeOK'
  <1>0. ex \in Execution /\ k[1] \in Step /\ k[2] \in Attempt
    BY Parts
  <1>1. [ex EXCEPT !.timers[k] = NoTimer] \in Execution
    BY <1>0 DEF Execution, Timer
  <1>2. TimeoutInput(ex, k[1], k[2]) \in Execution
    BY <1>0, TimeoutInputType DEF FireDeadline
  <1>3. <<k, "deadline">> \in Key \X What
    BY DEF What
  <1>4. ex' \in Execution /\ seen' \subseteq Key \X What
    <2>1. \/ ex' = [ex EXCEPT !.timers[k] = NoTimer] /\ seen' = seen
          \/ ex' = TimeoutInput(ex, k[1], k[2]) /\ seen' = seen \cup {<<k, "deadline">>}
          \/ ex' = ex /\ seen' = seen
      BY DEF FireDeadline, Deliver
    <2>2. seen \subseteq Key \X What
      BY DEF TypeOK
    <2> QED BY <1>0, <1>1, <1>2, <1>3, <2>1, <2>2
  <1> QED BY <1>4 DEF FireDeadline, TypeOK

\* Claiming, and what a reactor does with a claim before the work.
LEMMA TakeType ==
  ASSUME TypeOK, NEW c \in Claimant,
         \/ \E k \in Key : TakeClaim(c, k)
         \/ TakeReleased(c) \/ TakeRefused(c) \/ TakeCacheHit(c) \/ TakeStarted(c)
  PROVE  TypeOK'
  <1>0. /\ ex \in Execution /\ PassOK(who[c])
        /\ \A k \in Key : k[1] \in Step /\ k[2] \in Attempt /\ ex.rows[k] \in Row
    BY Parts
  <1>a. PassOK(Idle)
    BY DEF PassOK, Pass, Idle, Phase
  <1>b. runtime \in [Key -> {"absent", "running", "done"}] /\ seen \subseteq Key \X What
    BY DEF TypeOK
  <1>1. ASSUME NEW k \in Key, TakeClaim(c, k) PROVE TypeOK'
    <2> DEFINE row == Claim(ex.rows[k], c)
    <2>1. row \in Row /\ row.retaken \in BOOLEAN
      <3>1. row \in Row
        BY <1>0, RowTypes
      <3> QED BY <3>1 DEF Row
    <2>2. /\ ex' = [ex EXCEPT !.rows[k] = row]
          /\ who' = [who EXCEPT ![c] = [Idle EXCEPT !.at = "claimed", !.key = k,
                                                    !.retaken = row.retaken]]
          /\ UNCHANGED <<seen, runtime, job, launcher, faults>>
      BY <1>1 DEF TakeClaim
    <2> HIDE DEF row
    <2>3. ex' \in Execution
      BY <1>0, <2>1, <2>2 DEF Execution
    <2>4. PassOK([Idle EXCEPT !.at = "claimed", !.key = k, !.retaken = row.retaken])
      BY <1>a, <2>1 DEF PassOK, Pass, Phase
    <2> QED BY <1>b, <2>2, <2>3, <2>4, Moved
  <1>2. ASSUME TakeReleased(c) PROVE TypeOK'
    BY <1>0, <1>a, <1>b, <1>2, Moved DEF TakeReleased
  <1>3. ASSUME TakeRefused(c) PROVE TypeOK'
    <2>1. PICK class \in Refusals :
            who' = [who EXCEPT ![c].at = "settling", ![c].out = class]
      BY <1>3 DEF TakeRefused
    <2>2. class \in Outcome /\ who[c].at = "claimed"
      BY <1>3, ClaimantAssumption DEF TakeRefused, Outcome
    <2>3. PassOK([who[c] EXCEPT !.at = "settling", !.out = class])
      BY <1>0, <2>2 DEF PassOK, Pass, Phase
    <2>4. who' = [who EXCEPT ![c] = [who[c] EXCEPT !.at = "settling", !.out = class]]
      BY <2>1
    <2> QED BY <1>0, <1>b, <1>3, <2>3, <2>4, Moved DEF TakeRefused
  <1>4. ASSUME TakeCacheHit(c) PROVE TypeOK'
    <2> DEFINE k == who[c].key
    <2>1. k \in Key
      BY <1>0, <1>4 DEF TakeCacheHit, PassOK
    <2>2. StepCacheHit(ex, k[1], k[2]) \in Execution
      BY <1>0, <2>1, StepCacheHitType
    <2>3. <<k, "cache-hit">> \in Key \X What
      BY <2>1 DEF What
    <2>4. ex' \in Execution /\ seen' \subseteq Key \X What
      BY <1>0, <1>b, <1>4, <2>2, <2>3 DEF TakeCacheHit, Deliver
    <2> QED BY <1>a, <1>b, <1>4, <2>4, Moved DEF TakeCacheHit
  <1>5. ASSUME TakeStarted(c) PROVE TypeOK'
    <2> DEFINE k == who[c].key
    <2>1. k \in Key /\ who[c].at = "claimed"
      BY <1>0, <1>5 DEF TakeStarted, PassOK
    <2>2. StepStarted(ex, k[1], k[2]) \in Execution
      BY <1>0, <2>1 DEF StepStarted, Execution, StepState
    <2>3. <<k, "started">> \in Key \X What
      BY <2>1 DEF What
    <2>4. ex' \in Execution /\ seen' \subseteq Key \X What
      BY <1>0, <1>b, <1>5, <2>2, <2>3 DEF TakeStarted, Deliver
    <2>5. PassOK([who[c] EXCEPT !.at = "working"])
      BY <1>0, <2>1 DEF PassOK, Pass, Phase
    <2>6. who' = [who EXCEPT ![c] = [who[c] EXCEPT !.at = "working"]]
      BY <1>5 DEF TakeStarted
    <2> QED BY <1>b, <1>5, <2>4, <2>5, <2>6, Moved DEF TakeStarted
  <1> QED BY <1>1, <1>2, <1>3, <1>4, <1>5

\* Doing the work, or losing the claim.
LEMMA WorkType ==
  ASSUME TypeOK, NEW c \in Claimant,
         Lookup(c) \/ Execute(c) \/ Finish(c) \/ StopReactor(c) \/ Lose(c)
  PROVE  TypeOK'
  <1>0. PassOK(who[c]) /\ PassOK(Idle)
    BY Parts DEF PassOK, Pass, Idle, Phase
  <1>b. /\ ex \in Execution /\ seen \subseteq Key \X What
        /\ runtime \in [Key -> {"absent", "running", "done"}]
    BY DEF TypeOK
  <1>c. ASSUME NEW outcome \in Outcome, Becomes(c, outcome), who[c].at \notin {"idle", "lost"},
               UNCHANGED <<ex, seen, job, launcher, faults>>,
               runtime' \in [Key -> {"absent", "running", "done"}]
        PROVE  TypeOK'
    <2>1. who' = [who EXCEPT ![c] = [who[c] EXCEPT !.at = "done", !.out = outcome]]
      BY <1>c DEF Becomes
    <2>2. PassOK([who[c] EXCEPT !.at = "done", !.out = outcome])
      BY <1>0, <1>c DEF PassOK, Pass, Phase
    <2> QED BY <1>b, <1>c, <2>1, <2>2, Moved
  <1>1. ASSUME Lookup(c) PROVE TypeOK'
    <2>1. PICK outcome \in PriorAttempt(who[c].key) \cup (Outcomes[who[c].key[1]] \cap {"Transient"}) :
            Becomes(c, outcome)
      BY <1>1 DEF Lookup
    <2>2. outcome \in {"Completed", "Transient"}
      BY <1>0, <1>1, <1>b, <2>1 DEF PriorAttempt, Lookup, PassOK
    <2>3. outcome \in Outcome
      BY <2>2 DEF Outcome, Class
    <2> QED BY <1>b, <1>c, <1>1, <2>1, <2>3 DEF Lookup
  <1>2. ASSUME Execute(c) PROVE TypeOK'
    <2>1. who' = [who EXCEPT ![c] = [who[c] EXCEPT !.at = "executing"]]
      BY <1>2 DEF Execute
    <2>2. PassOK([who[c] EXCEPT !.at = "executing"])
      BY <1>0, <1>2 DEF Execute, PassOK, Pass, Phase
    <2>3. runtime' \in [Key -> {"absent", "running", "done"}]
      BY <1>b, <1>2 DEF Execute
    <2> QED BY <1>b, <1>2, <2>1, <2>2, <2>3, Moved DEF Execute
  <1>3. ASSUME Finish(c) PROVE TypeOK'
    <2>1. PICK outcome \in Outcomes[who[c].key[1]] :
            /\ Becomes(c, outcome)
            /\ runtime' = IF c \in Reactor
                          THEN [runtime EXCEPT ![who[c].key] =
                                  CASE outcome = "Completed" -> "done"
                                    [] outcome = "Timeout"   -> @
                                    [] OTHER                 -> "absent"]
                          ELSE runtime
      BY <1>3 DEF Finish
    <2>2. who[c].key \in Key /\ who[c].at = "executing"
      BY <1>0, <1>3 DEF Finish, PassOK
    <2>3. outcome \in Outcome
      BY <2>1, <2>2, ClaimantAssumption
    <2>4. runtime' \in [Key -> {"absent", "running", "done"}]
      BY <1>b, <2>1, <2>2
    <2> QED BY <1>c, <1>3, <2>1, <2>2, <2>3, <2>4 DEF Finish
  <1>4. ASSUME StopReactor(c) PROVE TypeOK'
    <2>1. "Policy" \in Outcome
      BY DEF Outcome, Class
    <2> QED BY <1>b, <1>c, <1>4, <2>1 DEF StopReactor
  <1>5. ASSUME Lose(c) PROVE TypeOK'
    <2>1. /\ who' \in [Claimant -> Pass]
          /\ \A g \in Claimant : who'[g].at \notin {"idle", "lost"} => who'[g].key \in Key
          /\ \A g \in Claimant : who'[g].at \in {"done", "settling"} => who'[g].out \in Outcome
      BY <1>0, <1>5, MovesOn DEF Lose
    <2>2. faults' \in 0..MaxFaults
      BY <1>5, ClaimantAssumption DEF Lose, TypeOK
    <2> QED BY <1>5, <2>1, <2>2 DEF Lose, TypeOK
  <1> QED BY <1>1, <1>2, <1>3, <1>4, <1>5

\* Renewing, settling and reporting.
LEMMA SettleType ==
  ASSUME TypeOK, NEW c \in Claimant, Heartbeat(c) \/ Settle(c) \/ Report(c)
  PROVE  TypeOK'
  <1> DEFINE k == who[c].key
  <1>0. /\ PassOK(who[c]) /\ PassOK(Idle) /\ ex \in Execution /\ k \in Key
        /\ k[1] \in Step /\ k[2] \in Attempt /\ who[c].at \notin {"idle", "lost"}
    BY Parts DEF PassOK, Pass, Idle, Phase, Heartbeat, Settle, Report
  <1>b. seen \subseteq Key \X What /\ runtime \in [Key -> {"absent", "running", "done"}]
    BY DEF TypeOK
  <1>a. Renewed(c, k) \in Execution
    <2>1. [ex EXCEPT !.rows[k].age = 0] \in Execution
      <3>1. [ex.rows[k] EXCEPT !.age = 0] \in Row
        BY <1>0, Parts DEF Row
      <3>2. [ex.rows EXCEPT ![k] = [ex.rows[k] EXCEPT !.age = 0]] \in [Key -> Row]
        BY <1>0, <3>1 DEF Execution
      <3> QED BY <1>0, <3>2 DEF Execution
    <2> QED BY <1>0, <2>1 DEF Renewed
  <1>c. ASSUME NEW outcome \in Outcome,
               who' = [who EXCEPT ![c].at = "settling", ![c].out = outcome],
               ex' \in Execution, UNCHANGED <<seen, runtime, job, launcher, faults>>
        PROVE  TypeOK'
    <2>1. who' = [who EXCEPT ![c] = [who[c] EXCEPT !.at = "settling", !.out = outcome]]
      BY <1>c
    <2>2. PassOK([who[c] EXCEPT !.at = "settling", !.out = outcome])
      BY <1>0 DEF PassOK, Pass, Phase
    <2> QED BY <1>b, <1>c, <2>1, <2>2, Moved
  <1>d. ASSUME who' = [who EXCEPT ![c] = Idle], ex' \in Execution, seen' \subseteq Key \X What,
               UNCHANGED <<runtime, job, launcher, faults>>
        PROVE  TypeOK'
    BY <1>0, <1>b, <1>d, Moved
  <1> HIDE DEF k
  <1>1. ASSUME Heartbeat(c) PROVE TypeOK'
    <2>1. "Policy" \in Outcome
      BY DEF Outcome, Class
    <2>2. /\ UNCHANGED <<seen, runtime, job, launcher, faults>>
          /\ \/ ex' = Renewed(c, k) /\ who' = [who EXCEPT ![c].at = "settling", ![c].out = "Policy"]
             \/ ex' = Renewed(c, k) /\ who' = who
             \/ ex' = ex /\ who' = [who EXCEPT ![c] = Idle]
      BY <1>1 DEF Heartbeat, k
    <2>3. ASSUME ex' = Renewed(c, k), who' = who PROVE TypeOK'
      BY <1>a, <2>2, <2>3 DEF TypeOK
    <2> QED BY <1>0, <1>a, <1>b, <1>c, <1>d, <2>1, <2>2, <2>3
  <1>2. ASSUME Settle(c) PROVE TypeOK'
    <2>1. {who[c].out} \cup Refusals \subseteq Outcome
      BY <1>0, <1>2, ClaimantAssumption DEF Settle, PassOK, Outcome
    <2>2. /\ UNCHANGED <<seen, runtime, job, launcher, faults>>
          /\ \/ /\ ex' = Renewed(c, k)
                /\ \E outcome \in {who[c].out} \cup Refusals :
                      who' = [who EXCEPT ![c].at = "settling", ![c].out = outcome]
             \/ ex' = ex /\ who' = [who EXCEPT ![c] = Idle]
      BY <1>2 DEF Settle, k
    <2> QED BY <1>0, <1>a, <1>b, <1>c, <1>d, <2>1, <2>2
  <1>3. ASSUME Report(c) PROVE TypeOK'
    <2> DEFINE outcome == who[c].out
    <2>1. outcome \in Outcome /\ <<k, "outcome">> \in Key \X What
      BY <1>0, <1>3 DEF Report, PassOK, What
    <2>2. StepCompleted(ex, k[1], k[2]) \in Execution
      BY <1>0, CompleteType, ContinueAfterType DEF StepCompleted
    <2>3. InputRequested(ex, k[1], k[2]) \in Execution
      BY <1>0, InputRequestedType
    <2>4. outcome \in Class /\ Fits(k, outcome) => StepFailed(ex, k[1], k[2], outcome) \in Execution
      BY <1>0, StepFailedType DEF Fits
    <2>5. /\ who' = [who EXCEPT ![c] = Idle]
          /\ UNCHANGED <<runtime, job, launcher, faults>>
          /\ \/ ex' = ex /\ seen' = seen
             \/ /\ seen' = seen \cup {<<k, "outcome">>}
                /\ \/ ex' = StepCompleted(ex, k[1], k[2])
                   \/ ex' = InputRequested(ex, k[1], k[2])
                   \/ /\ outcome \notin {"Completed", "Ask"} /\ Fits(k, outcome)
                      /\ ex' = StepFailed(ex, k[1], k[2], outcome)
      BY <1>3 DEF Report, Deliver, k
    <2>6. ex' \in Execution /\ seen' \subseteq Key \X What
      BY <1>0, <1>b, <2>1, <2>2, <2>3, <2>4, <2>5 DEF Outcome
    <2> QED BY <1>d, <2>5, <2>6
  <1> QED BY <1>1, <1>2, <1>3

\* The launcher, its cluster, and the runtime.
LEMMA LauncherType ==
  ASSUME TypeOK, NEW k \in Key, RuntimeFinishes(k) \/ PodEnds(k) \/ Launcher(k)
  PROVE  TypeOK'
  <1>0. ex \in Execution /\ k[1] \in Step /\ k[2] \in Attempt
    BY Parts
  <1>1. ASSUME RuntimeFinishes(k) PROVE TypeOK'
    BY <1>1 DEF RuntimeFinishes, TypeOK
  <1>2. ASSUME PodEnds(k) \/ CloseJob(k) PROVE TypeOK'
    <2>1. k \in Claimant
      BY <1>2, ClaimantAssumption DEF PodEnds, CloseJob
    <2>2. PassOK([Idle EXCEPT !.at = "lost"])
      <3>1. PassOK(Idle)
        BY DEF PassOK, Pass, Idle, Phase
      <3> QED BY <3>1 DEF PassOK, Pass, Phase
    <2>3. who' = [who EXCEPT ![k] = [Idle EXCEPT !.at = "lost"]]
      BY <1>2 DEF PodEnds, CloseJob
    <2>4. /\ who' \in [Claimant -> Pass]
          /\ \A g \in Claimant : who'[g].at \notin {"idle", "lost"} => who'[g].key \in Key
          /\ \A g \in Claimant : who'[g].at \in {"done", "settling"} => who'[g].out \in Outcome
      BY <2>1, <2>2, <2>3, MovesOn
    <2>5. job' \in [Key -> {"none", "live", "ended", "closing", "closed"}]
      BY <1>2 DEF PodEnds, CloseJob, TypeOK
    <2> QED BY <1>2, <2>4, <2>5 DEF PodEnds, CloseJob, TypeOK
  <1>3. ASSUME LauncherReads(k) \/ LaunchPod(k) \/ LauncherPasses(k) \/ LauncherCloses(k)
        PROVE  TypeOK'
    BY <1>3 DEF LauncherReads, LaunchPod, LauncherPasses, LauncherCloses, TypeOK
  <1>4. ASSUME LauncherReports(k) PROVE TypeOK'
    <2>1. PICK class \in LauncherClasses(k) :
            /\ Fits(k, class)
            /\ Deliver(k, "pod-launcher", AcceptsFailure(ex, k[1], k[2]),
                       StepFailed(ex, k[1], k[2], class))
      BY <1>4 DEF LauncherReports
    <2>2. class \in Class
      BY DEF LauncherClasses, Class
    <2>3. StepFailed(ex, k[1], k[2], class) \in Execution
      BY <1>0, <2>1, <2>2, StepFailedType DEF Fits
    <2>4. <<k, "pod-launcher">> \in Key \X What
      BY DEF What
    <2>5. ex' \in Execution /\ seen' \subseteq Key \X What
      BY <1>0, <2>1, <2>3, <2>4 DEF Deliver, TypeOK
    <2>6. job' \in [Key -> {"none", "live", "ended", "closing", "closed"}]
      BY <1>4 DEF LauncherReports, TypeOK
    <2>7. launcher' \subseteq Key /\ UNCHANGED <<who, runtime, faults>>
      BY <1>4 DEF LauncherReports, TypeOK
    <2> QED BY <2>5, <2>6, <2>7 DEF TypeOK
  <1> QED BY <1>1, <1>2, <1>3, <1>4 DEF Launcher

\* The clock.
LEMMA TickType ==
  ASSUME TypeOK, Tick
  PROVE  TypeOK'
  <1>1. ex' \in Execution
    BY AgedType DEF Tick, TypeOK
  <1>2. faults' \in 0..MaxFaults
    BY ClaimantAssumption DEF Tick, TypeOK
  <1> QED BY <1>1, <1>2 DEF Tick, TypeOK

\* The state of a managed execution is well typed, for every plan, policy and
\* set of claimants: no decision, report, takeover or timeout writes a row, a
\* timer or an attempt outside its range.
THEOREM TypeCorrect == Spec => []TypeOK
  <1>1. Init => TypeOK
    <2> SUFFICES ASSUME Init PROVE TypeOK
      OBVIOUS
    <2>1. NotStarted \in Execution
      BY RowTypes DEF NotStarted, Execution, RunState, StepState, Kind, Question, Timer
    <2>2. PassOK(Idle)
      BY DEF PassOK, Pass, Idle, Phase
    <2>3. /\ who \in [Claimant -> Pass]
          /\ \A c \in Claimant : who[c] = Idle
      BY <2>2 DEF Init, PassOK
    <2> QED BY <2>1, <2>2, <2>3, ClaimantAssumption DEF Init, TypeOK, PassOK
  <1>2. TypeOK /\ [Next]_vars => TypeOK'
    <2> SUFFICES ASSUME TypeOK, [Next]_vars PROVE TypeOK'
      OBVIOUS
    <2>1. CASE UNCHANGED vars
      BY <2>1 DEF vars, TypeOK
    <2>2. ASSUME NEW c \in Claimant, Work(c) \/ StopReactor(c) \/ Heartbeat(c) \/ Lose(c)
          PROVE  TypeOK'
      BY <2>2, TakeType, WorkType, SettleType DEF Work
    <2>3. ASSUME NEW k \in Key, FireDeadline(k) \/ RuntimeFinishes(k) \/ PodEnds(k) \/ Launcher(k)
          PROVE  TypeOK'
      BY <2>3, FireDeadlineType, LauncherType
    <2> QED BY <2>1, <2>2, <2>3, CommandType, TickType DEF Next
  <1> QED BY <1>1, <1>2, PTL DEF Spec

-----------------------------------------------------------------------------
(* A cancel is final *)

\* A run called Cancelled was asked to be: why CancelIsFinal is inductive, for
\* every decision asks `cancelling` and not the name of the state.
Sealed == ex.run = "Cancelled" => ex.cancelling

\* A decision that says nothing of the run.
SameRun(d, e) == e.run = d.run /\ e.cancelling = d.cancelling

\* A decision that neither forgets a cancel nor invents one.
Keeps(d, e) ==
    /\ d.cancelling => e.cancelling
    /\ d.cancelling /\ d.run = "Cancelled" => e.run = "Cancelled"
    /\ e.run = "Cancelled" => e.cancelling \/ d.run = "Cancelled"

\* One decision after another keeps what each keeps.
LEMMA KeepsBoth ==
  ASSUME NEW d, NEW e, NEW f, Keeps(d, e) \/ SameRun(d, e), Keeps(e, f) \/ SameRun(e, f)
  PROVE  Keeps(d, f)
  BY DEF Keeps, SameRun

\* Nothing that only writes steps, rows and timers names the run.
LEMMA SameRuns ==
  ASSUME NEW d \in Execution, NEW S \in SUBSET Step, NEW n \in Attempt,
         NEW s \in Step, NEW a \in Attempt, NEW class \in Class
  PROVE  /\ SameRun(d, ScheduleAttempts(d, S, n))
         /\ SameRun(d, DispatchReady(d))
         /\ SameRun(d, SkipSteps(d, S))
         /\ SameRun(d, Complete(d, s, a))
         /\ SameRun(d, Fail(d, s, a, class))
         /\ SameRun(d, CloseQuestion(d, s, a))
         /\ SameRun(d, InputRequested(d, s, a))
         /\ SameRun(d, ScheduleRetry(d, s, n))
         /\ SameRun(d, StepStarted(d, s, a))
         /\ SameRun(d, Aged(d))
  <1>1. ASSUME NEW T \in SUBSET Step, NEW m \in Attempt PROVE SameRun(d, ScheduleAttempts(d, T, m))
    BY DEF ScheduleAttempts, Execution, SameRun
  <1>2. SameRun(d, DispatchReady(d))
    <2>1. Ready(d) \in SUBSET Step /\ 1 \in Attempt
      BY DEF Ready
    <2> QED BY <1>1, <2>1 DEF DispatchReady, SameRun
  <1>3. SameRun(d, SkipSteps(d, S))
    BY DEF SkipSteps, Execution, SameRun
  <1>4. SameRun(d, Complete(d, s, a)) /\ SameRun(d, CloseQuestion(d, s, a))
    BY DEF Complete, CloseQuestion, Execution, SameRun
  <1>5. SameRun(d, Fail(d, s, a, class)) /\ SameRun(d, InputRequested(d, s, a))
    BY DEF Fail, InputRequested, Execution, SameRun
  <1>6. SameRun(d, ScheduleRetry(d, s, n)) /\ SameRun(d, StepStarted(d, s, a))
    BY DEF ScheduleRetry, StepStarted, Execution, SameRun
  <1>7. SameRun(d, Aged(d))
    BY DEF Aged, Execution, SameRun
  <1> QED BY <1>1, <1>2, <1>3, <1>4, <1>5, <1>6, <1>7

\* What ends a run asks whether it is being cancelled.
LEMMA EndingsKeep ==
  ASSUME NEW d \in Execution, NEW s \in Step
  PROVE  /\ Keeps(d, ContinueAfter(d))
         /\ Keeps(d, SettleFailure(d, s))
  <1>1. Keeps(d, ContinueAfter(d))
    <2>1. SameRun(d, DispatchReady(d))
      <3>1. Ready(d) \in SUBSET Step /\ 1 \in Attempt
        BY DEF Ready
      <3> QED BY <3>1 DEF DispatchReady, ScheduleAttempts, Execution, SameRun
    <2>2. /\ [d EXCEPT !.run = "Cancelled"].run = "Cancelled"
          /\ [d EXCEPT !.run = "Cancelled"].cancelling = d.cancelling
          /\ [d EXCEPT !.run = "Completed"].run = "Completed"
          /\ [d EXCEPT !.run = "Completed"].cancelling = d.cancelling
      BY DEF Execution
    <2> QED BY <2>1, <2>2 DEF ContinueAfter, Keeps, SameRun
  <1>2. Keeps(d, SettleFailure(d, s))
    <2> DEFINE e == SkipDownstream(d, s)
               r == IF d.cancelling THEN "Cancelled" ELSE "Failed"
    <2>1. e \in Execution /\ SameRun(d, e)
      <3> DEFINE T == {c \in Downstream(s) : ~Terminal(d.st[c])}
      <3>1. T \in SUBSET Step
        BY DEF Downstream
      <3>2. e = SkipSteps(d, T)
        BY DEF SkipDownstream
      <3> HIDE DEF T
      <3>3. SkipSteps(d, T) \in Execution
        BY <3>1, SkipStepsType
      <3>4. SameRun(d, SkipSteps(d, T))
        BY <3>1 DEF SkipSteps, Execution, SameRun
      <3> QED BY <3>2, <3>3, <3>4
    <2>2. SettleFailure(d, s) = [e EXCEPT !.run = r]
      BY DEF SettleFailure
    <2> HIDE DEF e
    <2>3. [e EXCEPT !.run = r].run = r /\ [e EXCEPT !.run = r].cancelling = e.cancelling
      BY <2>1 DEF Execution
    <2> QED BY <2>1, <2>2, <2>3 DEF Keeps, SameRun
  <1> QED BY <1>1, <1>2

\* The cancel itself.
LEMMA CancelKeeps ==
  ASSUME NEW d \in Execution
  PROVE  Keeps(d, CancelExecution(d))
  <1> DEFINE S == {t \in Step : d.st[t] \in {"Scheduled", "Pending"}}
             r == IF \E t \in Step : d.st[t] \in {"Running", "AwaitingInput"}
                  THEN "Cancelling" ELSE "Cancelled"
  <1>1. SkipSteps(d, S) \in Execution
    BY SkipStepsType
  <1>2. CancelExecution(d) = IF d.cancelling THEN d
                             ELSE [SkipSteps(d, S) EXCEPT !.cancelling = TRUE, !.run = r]
    BY DEF CancelExecution
  <1> HIDE DEF S, r
  <1>3. [SkipSteps(d, S) EXCEPT !.cancelling = TRUE, !.run = r].cancelling = TRUE
    BY <1>1 DEF Execution
  <1> QED BY <1>2, <1>3 DEF Keeps

\* Every answer to a message keeps a cancel.
LEMMA DecisionsKeep ==
  ASSUME NEW d \in Execution, NEW s \in Step, NEW a \in Attempt, NEW class \in Class,
         NEW last \in BOOLEAN, ~last => a + 1 \in Attempt
  PROVE  /\ s \in Human \/ ~last => Keeps(d, AnswerLands(d, s, a))
         /\ (OnTimeout[s] = "Answer" /\ s \notin Human => ~last) => Keeps(d, TimeoutInput(d, s, a))
         /\ Keeps(d, StepCompleted(d, s, a))
         /\ Keeps(d, StepCacheHit(d, s, a))
         /\ (MayRetry(d, s, class) => ~last) => Keeps(d, StepFailed(d, s, a, class))
  <1>1. {s} \in SUBSET Step /\ \A e \in Execution, T \in SUBSET Step, n \in Attempt :
            SameRun(e, ScheduleAttempts(e, T, n))
    BY SameRuns
  <1>2. Keeps(d, ContinueAfter(Complete(d, s, a)))
    <2>1. Complete(d, s, a) \in Execution /\ SameRun(d, Complete(d, s, a))
      BY CompleteType, SameRuns
    <2>2. Keeps(Complete(d, s, a), ContinueAfter(Complete(d, s, a)))
      BY <2>1, EndingsKeep
    <2> QED BY <2>1, <2>2, KeepsBoth
  <1>3. ASSUME NEW c \in Class PROVE Keeps(d, SettleFailure(Fail(d, s, a, c), s))
    <2>1. Fail(d, s, a, c) \in Execution /\ SameRun(d, Fail(d, s, a, c))
      BY FailType, SameRuns
    <2>2. Keeps(Fail(d, s, a, c), SettleFailure(Fail(d, s, a, c), s))
      BY <2>1, EndingsKeep
    <2> QED BY <2>1, <2>2, KeepsBoth
  <1>4. ASSUME s \in Human \/ ~last PROVE Keeps(d, AnswerLands(d, s, a))
    <2> DEFINE e == CloseQuestion(d, s, a)
    <2>1. e \in Execution /\ SameRun(d, e)
      BY CloseQuestionType, SameRuns
    <2> HIDE DEF e
    <2>2. CASE s \in Human
      <3>1. Complete(e, s, a) \in Execution /\ SameRun(e, Complete(e, s, a))
        BY <2>1, CompleteType, SameRuns
      <3>2. Keeps(Complete(e, s, a), ContinueAfter(Complete(e, s, a)))
        BY <3>1, EndingsKeep
      <3>3. Keeps(e, ContinueAfter(Complete(e, s, a)))
        BY <3>1, <3>2, KeepsBoth
      <3>4. Keeps(d, ContinueAfter(Complete(e, s, a)))
        BY <2>1, <3>3, KeepsBoth
      <3> QED BY <2>2, <3>4 DEF AnswerLands, e
    <2>3. CASE s \notin Human
      <3>1. SameRun(e, ScheduleAttempts(e, {s}, a + 1))
        BY <1>1, <1>4, <2>1, <2>3
      <3>2. Keeps(d, ScheduleAttempts(e, {s}, a + 1))
        BY <2>1, <3>1, KeepsBoth
      <3> QED BY <2>3, <3>2 DEF AnswerLands, e
    <2> QED BY <2>2, <2>3
  <1>5. ASSUME OnTimeout[s] = "Answer" /\ s \notin Human => ~last
        PROVE  Keeps(d, TimeoutInput(d, s, a))
    <2>1. CASE OnTimeout[s] = "Fail"
      <3>1. "Policy" \in Class
        BY DEF Class
      <3> QED BY <1>3, <2>1, <3>1 DEF TimeoutInput
    <2>2. CASE OnTimeout[s] = "Skip"
      BY <1>2, <2>2 DEF TimeoutInput
    <2>3. CASE OnTimeout[s] = "Answer"
      BY <1>4, <1>5, <2>3 DEF TimeoutInput
    <2> QED BY <2>1, <2>2, <2>3
  <1>6. Keeps(d, StepCompleted(d, s, a))
    BY <1>2 DEF StepCompleted, Keeps
  <1>7. Keeps(d, StepCacheHit(d, s, a))
    <2> DEFINE e == [d EXCEPT !.st[s] = "Completed", !.keyed[s] = TRUE, !.rows[<<s, a>>] = NoRow]
    <2>1. e \in Execution /\ SameRun(d, e)
      BY RowTypes DEF Execution, StepState, SameRun
    <2>2. StepCacheHit(d, s, a) = IF d.st[s] = "Completed" THEN d ELSE ContinueAfter(e)
      BY DEF StepCacheHit
    <2> HIDE DEF e
    <2>3. Keeps(e, ContinueAfter(e))
      BY <2>1, EndingsKeep
    <2>4. Keeps(d, ContinueAfter(e))
      BY <2>1, <2>3, KeepsBoth
    <2> QED BY <2>2, <2>4 DEF Keeps
  <1>8. ASSUME MayRetry(d, s, class) => ~last PROVE Keeps(d, StepFailed(d, s, a, class))
    <2>1. CASE MayRetry(d, s, class)
      <3> DEFINE e == Fail(d, s, a, class)
      <3>1. e \in Execution /\ SameRun(d, e)
        BY FailType, SameRuns
      <3> HIDE DEF e
      <3>2. a + 1 \in Attempt
        BY <1>8, <2>1
      <3>3. SameRun(e, ScheduleRetry(e, s, a + 1))
        BY <3>1, <3>2, SameRuns
      <3>4. Keeps(d, ScheduleRetry(e, s, a + 1))
        BY <3>1, <3>3, KeepsBoth
      <3> QED BY <2>1, <3>4 DEF StepFailed, e
    <2>2. CASE ~MayRetry(d, s, class)
      BY <1>3, <2>2 DEF StepFailed
    <2> QED BY <2>1, <2>2
  <1> QED BY <1>4, <1>5, <1>6, <1>7, <1>8

\* A success keeps a cancel, whether it was performed or found in the catalog.
LEMMA HitKeeps ==
  ASSUME NEW d \in Execution, NEW s \in Step, NEW a \in Attempt
  PROVE  Keeps(d, StepCompleted(d, s, a)) /\ Keeps(d, StepCacheHit(d, s, a))
  <1>1. "Policy" \in Class /\ TRUE \in BOOLEAN
    BY DEF Class
  <1> QED BY <1>1, DecisionsKeep

\* A step that leaves the run's name and its cancel alone keeps them.
LEMMA SameRunKeeps ==
  ASSUME NEW d, NEW e, SameRun(d, e)
  PROVE  Keeps(d, e)
  BY DEF SameRun, Keeps

\* A command keeps a cancel: its guard, or the decision, asks.
LEMMA CommandKeeps ==
  ASSUME TypeOK, Commanded
  PROVE  Keeps(ex, ex')
  <1>0. ex \in Execution /\ \A s \in Step : ex.cur[s] \in 0..MaxAttempt
    BY Parts
  <1>1. ASSUME NEW r \in {"Running", "Paused"}, ex.run # "Cancelled"
        PROVE  /\ [ex EXCEPT !.run = r] \in Execution
               /\ Keeps(ex, [ex EXCEPT !.run = r])
               /\ Keeps(ex, DispatchReady([ex EXCEPT !.run = r]))
    <2> DEFINE e == [ex EXCEPT !.run = r]
    <2>1. e \in Execution
      BY <1>0 DEF Execution, RunState
    <2>2. e.run = r /\ e.cancelling = ex.cancelling
      BY <1>0 DEF Execution
    <2> HIDE DEF e
    <2>3. Keeps(ex, e)
      BY <1>1, <2>2 DEF Keeps
    <2>4. SameRun(e, DispatchReady(e))
      <3>1. Ready(e) \in SUBSET Step /\ 1 \in Attempt
        BY DEF Ready
      <3> QED BY <2>1, <3>1 DEF DispatchReady, ScheduleAttempts, Execution, SameRun
    <2>5. Keeps(ex, DispatchReady(e))
      BY <2>3, <2>4, KeepsBoth
    <2> QED BY <2>1, <2>3, <2>5 DEF e
  <1>2. ASSUME Start \/ Resume PROVE Keeps(ex, ex')
    <2>1. ex.run # "Cancelled" /\ ex' = DispatchReady([ex EXCEPT !.run = "Running"])
      BY <1>2 DEF Start, Resume, StartExecution, ResumeExecution
    <2> QED BY <1>1, <2>1
  <1>3. ASSUME Pause PROVE Keeps(ex, ex')
    <2>1. ex.run # "Cancelled" /\ ex' = [ex EXCEPT !.run = "Paused"]
      BY <1>3 DEF Pause, PauseExecution, Terminal
    <2> QED BY <1>1, <2>1
  <1>4. ASSUME Cancel PROVE Keeps(ex, ex')
    <2>1. ex' = CancelExecution(ex)
      BY <1>4 DEF Cancel
    <2>2. Keeps(ex, CancelExecution(ex))
      BY <1>0, CancelKeeps
    <2> QED BY <2>1, <2>2
  <1>5. ASSUME NEW s \in Step, Retry(s) PROVE Keeps(ex, ex')
    <2>1. PICK n \in Attempt : n = ex.cur[s] + 1
      BY <1>0, <1>5 DEF Retry
    <2>2. ex' = ScheduleAttempts(ex, {s}, n)
      BY <1>5, <2>1 DEF Retry, RetryStep
    <2>3. SameRun(ex, ScheduleAttempts(ex, {s}, n))
      <3>1. {s} \in SUBSET Step
        OBVIOUS
      <3> QED BY <1>0, <2>1, <3>1 DEF ScheduleAttempts, Execution, SameRun
    <2> QED BY <2>2, <2>3, SameRunKeeps
  <1>6. ASSUME NEW k \in Key, Answer(k) PROVE Keeps(ex, ex')
    <2> DEFINE last == k[2] = MaxAttempt
    <2>1. k[1] \in Step /\ k[2] \in Attempt /\ last \in BOOLEAN
      BY Parts
    <2>2. (~last => k[2] + 1 \in Attempt) /\ (k[1] \in Human \/ ~last)
      BY <1>6, <2>1 DEF Answer
    <2>3. ex' = AnswerLands(ex, k[1], k[2])
      BY <1>6 DEF Answer, ProvideInput
    <2> HIDE DEF last
    <2>4. "Policy" \in Class
      BY DEF Class
    <2> QED BY <1>0, <2>1, <2>2, <2>3, <2>4, DecisionsKeep
  <1> QED BY <1>2, <1>3, <1>4, <1>5, <1>6 DEF Commanded

\* A deadline keeps a cancel, however late it fires.
LEMMA DeadlineKeeps ==
  ASSUME TypeOK, NEW k \in Key, FireDeadline(k)
  PROVE  Keeps(ex, ex')
  <1> DEFINE last == k[2] = MaxAttempt
  <1>1. k[1] \in Step /\ k[2] \in Attempt /\ last \in BOOLEAN /\ ex \in Execution
    BY Parts
  <1>2. (~last => k[2] + 1 \in Attempt) /\ (OnTimeout[k[1]] = "Answer" /\ k[1] \notin Human => ~last)
    BY <1>1 DEF FireDeadline
  <1>3. \/ ex' = [ex EXCEPT !.timers[k] = NoTimer]
        \/ ex' = TimeoutInput(ex, k[1], k[2])
        \/ ex' = ex
    BY DEF FireDeadline, Deliver
  <1> HIDE DEF last
  <1>4. "Policy" \in Class
    BY DEF Class
  <1>5. SameRun(ex, [ex EXCEPT !.timers[k] = NoTimer]) /\ SameRun(ex, ex)
    BY <1>1 DEF SameRun, Execution
  <1>6. Keeps(ex, TimeoutInput(ex, k[1], k[2]))
    BY <1>1, <1>2, <1>4, DecisionsKeep
  <1> QED BY <1>3, <1>5, <1>6, SameRunKeeps

\* A failure report keeps a cancel, whoever sends it.
LEMMA FailureKeeps ==
  ASSUME TypeOK, NEW k \in Key, NEW class \in Class, Fits(k, class)
  PROVE  Keeps(ex, StepFailed(ex, k[1], k[2], class))
  <1> DEFINE last == k[2] = MaxAttempt
  <1>1. k[1] \in Step /\ k[2] \in Attempt /\ last \in BOOLEAN /\ ex \in Execution
    BY Parts
  <1>2. (~last => k[2] + 1 \in Attempt) /\ (MayRetry(ex, k[1], class) => ~last)
    BY <1>1 DEF Fits
  <1> HIDE DEF last
  <1> QED BY <1>1, <1>2, DecisionsKeep

\* A claimant's pass keeps a cancel: what it writes is its row, or a report.
LEMMA PassKeeps ==
  ASSUME TypeOK, NEW c \in Claimant, Work(c) \/ StopReactor(c) \/ Heartbeat(c) \/ Lose(c)
  PROVE  Keeps(ex, ex')
  <1> DEFINE k == who[c].key
  <1>0. ex \in Execution /\ PassOK(who[c]) /\ \A key \in Key : key[1] \in Step /\ key[2] \in Attempt
    BY Parts
  <1>1. SameRun(ex, ex) /\ "Policy" \in Class /\ FALSE \in BOOLEAN
    BY DEF SameRun, Class
  <1>2. ASSUME NEW key \in Key, TakeClaim(c, key) PROVE Keeps(ex, ex')
    <2>1. ex' = [ex EXCEPT !.rows[key] = Claim(ex.rows[key], c)]
      BY <1>2 DEF TakeClaim
    <2>2. SameRun(ex, ex')
      BY <1>0, <2>1 DEF SameRun, Execution
    <2> QED BY <2>2, SameRunKeeps
  <1>3. ASSUME \/ TakeReleased(c) \/ TakeRefused(c) \/ Lookup(c) \/ Execute(c) \/ Finish(c)
               \/ StopReactor(c) \/ Lose(c)
        PROVE  Keeps(ex, ex')
    <2>1. ex' = ex
      BY <1>3 DEF TakeReleased, TakeRefused, Lookup, Execute, Finish, StopReactor, Lose
    <2> QED BY <1>1, <2>1, SameRunKeeps
  <1>4. ASSUME TakeCacheHit(c) \/ TakeStarted(c) PROVE Keeps(ex, ex')
    <2>1. k \in Key
      BY <1>0, <1>4 DEF TakeCacheHit, TakeStarted, PassOK
    <2>2. \/ ex' = ex \/ ex' = StepCacheHit(ex, k[1], k[2]) \/ ex' = StepStarted(ex, k[1], k[2])
      BY <1>4 DEF TakeCacheHit, TakeStarted, Deliver
    <2> HIDE DEF k
    <2>3. SameRun(ex, StepStarted(ex, k[1], k[2]))
      BY <1>0, <2>1 DEF StepStarted, Execution, SameRun
    <2>4. Keeps(ex, StepCacheHit(ex, k[1], k[2]))
      BY <1>0, <2>1, HitKeeps
    <2> QED BY <1>1, <2>2, <2>3, <2>4, SameRunKeeps
  <1>5. ASSUME Heartbeat(c) \/ Settle(c) PROVE Keeps(ex, ex')
    <2>1. k \in Key
      BY <1>0, <1>5 DEF Heartbeat, Settle, PassOK
    <2>2. ex' = ex \/ ex' = [ex EXCEPT !.rows[k].age = 0]
      BY <1>5 DEF Heartbeat, Settle, Renewed
    <2> HIDE DEF k
    <2>3. SameRun(ex, [ex EXCEPT !.rows[k].age = 0])
      BY <1>0 DEF Execution, SameRun
    <2> QED BY <1>1, <2>2, <2>3, SameRunKeeps
  <1>6. ASSUME Report(c) PROVE Keeps(ex, ex')
    <2> DEFINE outcome == who[c].out
    <2>1. k \in Key /\ outcome \in Outcome
      BY <1>0, <1>6 DEF Report, PassOK
    <2>2. \/ ex' = ex
          \/ ex' = StepCompleted(ex, k[1], k[2])
          \/ ex' = InputRequested(ex, k[1], k[2])
          \/ /\ outcome \notin {"Completed", "Ask"} /\ Fits(k, outcome)
             /\ ex' = StepFailed(ex, k[1], k[2], outcome)
      BY <1>6 DEF Report, Deliver, k
    <2> HIDE DEF k, outcome
    <2>3. SameRun(ex, InputRequested(ex, k[1], k[2]))
      BY <1>0, <2>1 DEF InputRequested, Execution, SameRun
    <2>4. Keeps(ex, StepCompleted(ex, k[1], k[2]))
      BY <1>0, <2>1, HitKeeps
    <2>5. outcome \in Class /\ Fits(k, outcome) => Keeps(ex, StepFailed(ex, k[1], k[2], outcome))
      BY <2>1, FailureKeeps
    <2> QED BY <1>1, <2>1, <2>2, <2>3, <2>4, <2>5, SameRunKeeps DEF Outcome
  <1> QED BY <1>2, <1>3, <1>4, <1>5, <1>6 DEF Work

\* The launcher keeps a cancel: all it can send is a failure.
LEMMA LauncherKeeps ==
  ASSUME TypeOK, NEW k \in Key, RuntimeFinishes(k) \/ PodEnds(k) \/ Launcher(k)
  PROVE  Keeps(ex, ex')
  <1>1. ASSUME ex' = ex PROVE Keeps(ex, ex')
    BY <1>1 DEF Keeps
  <1>2. ASSUME LauncherReports(k) PROVE Keeps(ex, ex')
    <2>1. PICK class \in LauncherClasses(k) :
            /\ Fits(k, class)
            /\ ex' = ex \/ ex' = StepFailed(ex, k[1], k[2], class)
      BY <1>2 DEF LauncherReports, Deliver
    <2>2. class \in Class
      BY DEF LauncherClasses, Class
    <2>3. Keeps(ex, StepFailed(ex, k[1], k[2], class))
      BY <2>1, <2>2, FailureKeeps
    <2> QED BY <1>1, <2>1, <2>3
  <1> QED BY <1>1, <1>2 DEF RuntimeFinishes, PodEnds, Launcher,
             LauncherReads, LaunchPod, LauncherPasses, LauncherCloses, CloseJob

\* A cancelled run stays cancelled, for every plan, policy and set of claimants
\* and however late an answer, a deadline or a report arrives: the checked
\* CancelIsFinal, by the invariant that such a run is still `cancelling`.
THEOREM CancelStays == Spec => CancelIsFinal
  <1>1. Init => Sealed
    BY DEF Init, NotStarted, Sealed
  <1>2. TypeOK /\ Sealed /\ [Next]_vars
          => Sealed' /\ (ex.run = "Cancelled" => ex'.run = "Cancelled")
    <2> SUFFICES ASSUME TypeOK, Sealed, [Next]_vars
                 PROVE  Sealed' /\ (ex.run = "Cancelled" => ex'.run = "Cancelled")
      OBVIOUS
    <2>1. Keeps(ex, ex')
      <3>1. CASE UNCHANGED vars
        BY <3>1 DEF vars, Keeps
      <3>2. CASE Tick
        <4>1. ex' = Aged(ex) /\ ex \in Execution
          BY <3>2, Parts DEF Tick
        <4>2. SameRun(ex, Aged(ex))
          BY <4>1 DEF Aged, Execution, SameRun
        <4> QED BY <4>1, <4>2, SameRunKeeps
      <3> QED BY <3>1, <3>2, CommandKeeps, DeadlineKeeps, PassKeeps, LauncherKeeps DEF Next
    <2> QED BY <2>1 DEF Keeps, Sealed
  <1> QED BY <1>1, <1>2, TypeCorrect, PTL DEF Spec, CancelIsFinal

-----------------------------------------------------------------------------
(* What each decision writes *)

\* A step's own part of the execution is as it was.
Same(d, e, s) ==
    /\ e.st[s] = d.st[s] /\ e.cur[s] = d.cur[s] /\ e.ask[s] = d.ask[s]
    /\ e.answered[s] = d.answered[s] /\ e.keyed[s] = d.keyed[s]
    /\ \A a \in Attempt : /\ e.err[<<s, a>>] = d.err[<<s, a>>]
                          /\ e.rows[<<s, a>>] = d.rows[<<s, a>>]
                          /\ e.timers[<<s, a>>] = d.timers[<<s, a>>]

\* Of step s, what is kept of other attempts than a.
OtherAttempts(d, e, s, a) ==
    \A b \in Attempt : b # a => /\ e.err[<<s, b>>] = d.err[<<s, b>>]
                                /\ e.rows[<<s, b>>] = d.rows[<<s, b>>]
                                /\ e.timers[<<s, b>>] = d.timers[<<s, b>>]

\* An execution's parts.
LEMMA Shape ==
  ASSUME NEW d \in Execution
  PROVE  /\ d.run \in RunState /\ d.cancelling \in BOOLEAN
         /\ \A s \in Step : /\ d.st[s] \in StepState /\ d.cur[s] \in 0..MaxAttempt
                            /\ d.ask[s] \in Question /\ d.answered[s] \in BOOLEAN
                            /\ d.keyed[s] \in BOOLEAN
         /\ \A s \in Step, a \in Attempt : /\ d.err[<<s, a>>] \in Kind
                                           /\ d.rows[<<s, a>>] \in Row
                                           /\ d.timers[<<s, a>>] \in Timer
  BY DEF Execution

LEMMA RunSame ==
  ASSUME NEW d \in Execution, NEW r
  PROVE  /\ [d EXCEPT !.run = r].run = r /\ [d EXCEPT !.run = r].cancelling = d.cancelling
         /\ \A s \in Step : Same(d, [d EXCEPT !.run = r], s)
  BY DEF Execution, Same

SchedulePart(d, e, s, n) ==
    /\ e.st[s] = IF s \in Human THEN "AwaitingInput" ELSE "Pending"
    /\ e.cur[s] = n
    /\ e.answered[s] = d.answered[s] /\ e.keyed[s] = CacheKey(d, s)
    /\ e.ask[s] = IF s \in Human THEN Deadline[s] ELSE d.ask[s]
    /\ OtherAttempts(d, e, s, n)
    /\ e.err[<<s, n>>] = d.err[<<s, n>>]
    /\ e.rows[<<s, n>>] = IF s \in Human THEN d.rows[<<s, n>>] ELSE ClaimableRow(0)
    /\ e.timers[<<s, n>>] = IF s \in Human /\ Deadline[s] # NoClock
                            THEN Deadline[s] ELSE d.timers[<<s, n>>]

ScheduleAttemptsWrote(d, e, S, n) ==
    /\ SameRun(d, e)
    /\ \A s \in Step \ S : Same(d, e, s)
    /\ \A s \in S : SchedulePart(d, e, s, n)

LEMMA ScheduleAttemptsWrites ==
  ASSUME NEW d \in Execution, NEW S \in SUBSET Step, NEW n \in Attempt
  PROVE  ScheduleAttemptsWrote(d, ScheduleAttempts(d, S, n), S, n)
  <1> DEFINE e == ScheduleAttempts(d, S, n)
  <1>1. /\ e.run = d.run /\ e.cancelling = d.cancelling /\ e.err = d.err
        /\ e.answered = d.answered
    BY DEF ScheduleAttempts, Execution
  <1>2. ASSUME NEW s \in Step
        PROVE  /\ e.st[s] = IF s \in S THEN IF s \in Human THEN "AwaitingInput" ELSE "Pending"
                            ELSE d.st[s]
               /\ e.cur[s] = IF s \in S THEN n ELSE d.cur[s]
               /\ e.keyed[s] = IF s \in S THEN CacheKey(d, s) ELSE d.keyed[s]
               /\ e.ask[s] = IF s \in S \cap Human THEN Deadline[s] ELSE d.ask[s]
    BY DEF ScheduleAttempts, Execution
  <1>3. ASSUME NEW s \in Step, NEW a \in Attempt
        PROVE  /\ e.timers[<<s, a>>] = IF s \in S \cap Human /\ a = n /\ Deadline[s] # NoClock
                                       THEN Deadline[s] ELSE d.timers[<<s, a>>]
               /\ e.rows[<<s, a>>] = IF s \in S \ Human /\ a = n
                                     THEN ClaimableRow(0) ELSE d.rows[<<s, a>>]
    BY DEF ScheduleAttempts, Execution
  <1> HIDE DEF e
  <1>4. SameRun(d, e)
    BY <1>1 DEF SameRun
  <1>5. \A s \in Step \ S : Same(d, e, s)
    BY <1>1, <1>2, <1>3 DEF Same
  <1>6. \A s \in S : OtherAttempts(d, e, s, n)
    BY <1>1, <1>3 DEF OtherAttempts
  <1> QED BY <1>1, <1>2, <1>3, <1>4, <1>5, <1>6 DEF e, ScheduleAttemptsWrote, SchedulePart

SkipPart(d, e, s) ==
    /\ e.st[s] = "Cancelled" /\ e.cur[s] = d.cur[s] /\ e.ask[s] = d.ask[s]
    /\ e.answered[s] = d.answered[s] /\ e.keyed[s] = d.keyed[s]
    /\ \A a \in Attempt :
         /\ e.err[<<s, a>>] = d.err[<<s, a>>]
         /\ e.timers[<<s, a>>] = d.timers[<<s, a>>]
         /\ e.rows[<<s, a>>] = IF s \notin Human /\ a = d.cur[s]
                               THEN NoRow ELSE d.rows[<<s, a>>]

SkipStepsWrote(d, e, S) ==
    /\ SameRun(d, e)
    /\ \A s \in Step \ S : Same(d, e, s)
    /\ \A s \in S : SkipPart(d, e, s)

LEMMA SkipStepsWrites ==
  ASSUME NEW d \in Execution, NEW S \in SUBSET Step
  PROVE  SkipStepsWrote(d, SkipSteps(d, S), S)
  <1> DEFINE e == SkipSteps(d, S)
  <1>1. /\ e.run = d.run /\ e.cancelling = d.cancelling /\ e.err = d.err
        /\ e.answered = d.answered /\ e.cur = d.cur /\ e.ask = d.ask /\ e.keyed = d.keyed
        /\ e.timers = d.timers
    BY DEF SkipSteps, Execution
  <1>2. \A s \in Step : e.st[s] = IF s \in S THEN "Cancelled" ELSE d.st[s]
    BY DEF SkipSteps, Execution
  <1>3. \A s \in Step, a \in Attempt :
          e.rows[<<s, a>>] = IF s \in S \ Human /\ a = d.cur[s] THEN NoRow ELSE d.rows[<<s, a>>]
    BY DEF SkipSteps, Execution
  <1> HIDE DEF e
  <1>4. SameRun(d, e) /\ \A s \in Step \ S : Same(d, e, s)
    BY <1>1, <1>2, <1>3 DEF SameRun, Same
  <1> QED BY <1>1, <1>2, <1>3, <1>4 DEF e, SkipStepsWrote, SkipPart

CompletePart(d, e, s, a) ==
    /\ OtherAttempts(d, e, s, a)
    /\ e.st[s] = "Completed" /\ e.cur[s] = d.cur[s] /\ e.ask[s] = NoQuestion
    /\ e.answered[s] = d.answered[s] /\ e.keyed[s] = d.keyed[s]
    /\ e.err[<<s, a>>] = d.err[<<s, a>>] /\ e.rows[<<s, a>>] = NoRow
    /\ e.timers[<<s, a>>] = IF PlanHasDeadline(s) THEN NoTimer ELSE d.timers[<<s, a>>]

CompleteWrote(d, e, s, a) ==
    /\ SameRun(d, e)
    /\ \A t \in Step \ {s} : Same(d, e, t)
    /\ CompletePart(d, e, s, a)

LEMMA CompleteWrites ==
  ASSUME NEW d \in Execution, NEW s \in Step, NEW a \in Attempt
  PROVE  CompleteWrote(d, Complete(d, s, a), s, a)
  <1> DEFINE e == Complete(d, s, a)
  <1>1. /\ e.run = d.run /\ e.cancelling = d.cancelling /\ e.err = d.err
        /\ e.answered = d.answered /\ e.cur = d.cur /\ e.keyed = d.keyed
        /\ e.st = [d.st EXCEPT ![s] = "Completed"] /\ e.ask = [d.ask EXCEPT ![s] = NoQuestion]
        /\ e.rows = [d.rows EXCEPT ![<<s, a>>] = NoRow]
        /\ e.timers = [d.timers EXCEPT ![<<s, a>>] = IF PlanHasDeadline(s) THEN NoTimer ELSE @]
    BY DEF Complete, Execution
  <1>2. /\ DOMAIN d.st = Step /\ DOMAIN d.ask = Step /\ DOMAIN d.rows = Key
        /\ DOMAIN d.timers = Key /\ <<s, a>> \in Key
    BY DEF Execution
  <1> HIDE DEF e
  <1> QED BY <1>1, <1>2 DEF e, SameRun, Same, OtherAttempts, CompleteWrote, CompletePart

FailPart(d, e, s, a, class) ==
    /\ OtherAttempts(d, e, s, a)
    /\ e.st[s] = AttemptState(class) /\ e.cur[s] = d.cur[s] /\ e.ask[s] = NoQuestion
    /\ e.answered[s] = d.answered[s] /\ e.keyed[s] = d.keyed[s]
    /\ e.err[<<s, a>>] = KindOf(class) /\ e.rows[<<s, a>>] = NoRow
    /\ e.timers[<<s, a>>] = IF PlanHasDeadline(s) THEN NoTimer ELSE d.timers[<<s, a>>]

FailWrote(d, e, s, a, class) ==
    /\ SameRun(d, e)
    /\ \A t \in Step \ {s} : Same(d, e, t)
    /\ FailPart(d, e, s, a, class)

LEMMA FailWrites ==
  ASSUME NEW d \in Execution, NEW s \in Step, NEW a \in Attempt, NEW class \in Class
  PROVE  FailWrote(d, Fail(d, s, a, class), s, a, class)
  <1> DEFINE e == Fail(d, s, a, class)
  <1>1. /\ e.run = d.run /\ e.cancelling = d.cancelling
        /\ e.err = [d.err EXCEPT ![<<s, a>>] = KindOf(class)]
        /\ e.answered = d.answered /\ e.cur = d.cur /\ e.keyed = d.keyed
        /\ e.st = [d.st EXCEPT ![s] = AttemptState(class)]
        /\ e.ask = [d.ask EXCEPT ![s] = NoQuestion]
        /\ e.rows = [d.rows EXCEPT ![<<s, a>>] = NoRow]
        /\ e.timers = [d.timers EXCEPT ![<<s, a>>] = IF PlanHasDeadline(s) THEN NoTimer ELSE @]
    BY DEF Fail, Execution
  <1>2. /\ DOMAIN d.st = Step /\ DOMAIN d.ask = Step /\ DOMAIN d.rows = Key
        /\ DOMAIN d.timers = Key /\ DOMAIN d.err = Key /\ <<s, a>> \in Key
    BY DEF Execution
  <1> HIDE DEF e
  <1> QED BY <1>1, <1>2 DEF e, SameRun, Same, OtherAttempts, FailWrote, FailPart

ClosePart(d, e, s, a) ==
    /\ OtherAttempts(d, e, s, a)
    /\ e.st[s] = d.st[s] /\ e.cur[s] = d.cur[s] /\ e.ask[s] = NoQuestion
    /\ e.answered[s] = TRUE /\ e.keyed[s] = d.keyed[s]
    /\ e.err[<<s, a>>] = d.err[<<s, a>>] /\ e.timers[<<s, a>>] = NoTimer
    /\ e.rows[<<s, a>>] = IF s \in Human THEN d.rows[<<s, a>>] ELSE NoRow

CloseQuestionWrote(d, e, s, a) ==
    /\ SameRun(d, e)
    /\ \A t \in Step \ {s} : Same(d, e, t)
    /\ ClosePart(d, e, s, a)

LEMMA CloseQuestionWrites ==
  ASSUME NEW d \in Execution, NEW s \in Step, NEW a \in Attempt
  PROVE  CloseQuestionWrote(d, CloseQuestion(d, s, a), s, a)
  <1> DEFINE e == CloseQuestion(d, s, a)
  <1>1. /\ e.run = d.run /\ e.cancelling = d.cancelling /\ e.err = d.err /\ e.st = d.st
        /\ e.answered = [d.answered EXCEPT ![s] = TRUE] /\ e.cur = d.cur /\ e.keyed = d.keyed
        /\ e.ask = [d.ask EXCEPT ![s] = NoQuestion]
        /\ e.rows = [d.rows EXCEPT ![<<s, a>>] = IF s \in Human THEN @ ELSE NoRow]
        /\ e.timers = [d.timers EXCEPT ![<<s, a>>] = NoTimer]
    BY DEF CloseQuestion, Execution
  <1>2. /\ DOMAIN d.ask = Step /\ DOMAIN d.rows = Key /\ DOMAIN d.answered = Step
        /\ DOMAIN d.timers = Key /\ <<s, a>> \in Key
    BY DEF Execution
  <1> HIDE DEF e
  <1> QED BY <1>1, <1>2 DEF e, SameRun, Same, OtherAttempts, CloseQuestionWrote, ClosePart

AskPart(d, e, s, a) ==
    /\ OtherAttempts(d, e, s, a)
    /\ e.st[s] = "AwaitingInput" /\ e.cur[s] = d.cur[s] /\ e.ask[s] = Deadline[s]
    /\ e.answered[s] = d.answered[s] /\ e.keyed[s] = d.keyed[s]
    /\ e.err[<<s, a>>] = d.err[<<s, a>>]
    /\ e.rows[<<s, a>>] = Park(d.rows[<<s, a>>])
    /\ e.timers[<<s, a>>] = IF Deadline[s] = NoClock THEN d.timers[<<s, a>>]
                            ELSE Deadline[s]

InputRequestedWrote(d, e, s, a) ==
    /\ SameRun(d, e)
    /\ \A t \in Step \ {s} : Same(d, e, t)
    /\ AskPart(d, e, s, a)

LEMMA InputRequestedWrites ==
  ASSUME NEW d \in Execution, NEW s \in Step, NEW a \in Attempt
  PROVE  InputRequestedWrote(d, InputRequested(d, s, a), s, a)
  <1> DEFINE e == InputRequested(d, s, a)
  <1>1. /\ e.run = d.run /\ e.cancelling = d.cancelling /\ e.err = d.err
        /\ e.answered = d.answered /\ e.cur = d.cur /\ e.keyed = d.keyed
        /\ e.st = [d.st EXCEPT ![s] = "AwaitingInput"]
        /\ e.ask = [d.ask EXCEPT ![s] = Deadline[s]]
        /\ e.rows = [d.rows EXCEPT ![<<s, a>>] = Park(@)]
        /\ e.timers = [d.timers EXCEPT ![<<s, a>>] = IF Deadline[s] = NoClock THEN @
                                                     ELSE Deadline[s]]
    BY DEF InputRequested, Execution
  <1>2. /\ DOMAIN d.st = Step /\ DOMAIN d.ask = Step /\ DOMAIN d.rows = Key
        /\ DOMAIN d.timers = Key /\ <<s, a>> \in Key
    BY DEF Execution
  <1> HIDE DEF e
  <1> QED BY <1>1, <1>2 DEF e, SameRun, Same, OtherAttempts, InputRequestedWrote, AskPart

\* What a hit in the catalog writes before the run continues.
Found(d, s, a) ==
    [d EXCEPT !.st[s] = "Completed", !.keyed[s] = TRUE, !.rows[<<s, a>>] = NoRow]

FoundPart(d, e, s, a) ==
    /\ OtherAttempts(d, e, s, a)
    /\ e.st[s] = "Completed" /\ e.cur[s] = d.cur[s] /\ e.ask[s] = d.ask[s]
    /\ e.answered[s] = d.answered[s] /\ e.keyed[s] = TRUE
    /\ e.err[<<s, a>>] = d.err[<<s, a>>] /\ e.rows[<<s, a>>] = NoRow
    /\ e.timers[<<s, a>>] = d.timers[<<s, a>>]

FoundWrote(d, e, s, a) ==
    /\ e \in Execution /\ SameRun(d, e)
    /\ \A t \in Step \ {s} : Same(d, e, t)
    /\ FoundPart(d, e, s, a)

LEMMA FoundWrites ==
  ASSUME NEW d \in Execution, NEW s \in Step, NEW a \in Attempt
  PROVE  FoundWrote(d, Found(d, s, a), s, a)
  <1> DEFINE e == Found(d, s, a)
  <1>0. e \in Execution
    BY RowTypes DEF Found, Execution, StepState
  <1>1. /\ e.run = d.run /\ e.cancelling = d.cancelling /\ e.err = d.err
        /\ e.answered = d.answered /\ e.cur = d.cur /\ e.ask = d.ask /\ e.timers = d.timers
        /\ e.st = [d.st EXCEPT ![s] = "Completed"]
        /\ e.keyed = [d.keyed EXCEPT ![s] = TRUE]
        /\ e.rows = [d.rows EXCEPT ![<<s, a>>] = NoRow]
    BY DEF Found, Execution
  <1>2. DOMAIN d.st = Step /\ DOMAIN d.keyed = Step /\ DOMAIN d.rows = Key /\ <<s, a>> \in Key
    BY DEF Execution
  <1> HIDE DEF e
  <1> QED BY <1>0, <1>1, <1>2 DEF e, SameRun, Same, OtherAttempts, FoundWrote, FoundPart

StartPart(d, e, s, a) ==
    /\ e.st[s] = "Running" /\ e.cur[s] = d.cur[s] /\ e.ask[s] = d.ask[s]
    /\ e.answered[s] = d.answered[s] /\ e.keyed[s] = d.keyed[s]
    /\ \A b \in Attempt : /\ e.err[<<s, b>>] = d.err[<<s, b>>]
                          /\ e.rows[<<s, b>>] = d.rows[<<s, b>>]
                          /\ e.timers[<<s, b>>] = d.timers[<<s, b>>]

StepStartedWrote(d, e, s, a) ==
    /\ SameRun(d, e)
    /\ \A t \in Step \ {s} : Same(d, e, t)
    /\ StartPart(d, e, s, a)

LEMMA StepStartedWrites ==
  ASSUME NEW d \in Execution, NEW s \in Step, NEW a \in Attempt
  PROVE  StepStartedWrote(d, StepStarted(d, s, a), s, a)
  <1> DEFINE e == StepStarted(d, s, a)
  <1>1. /\ e.run = d.run /\ e.cancelling = d.cancelling /\ e.err = d.err
        /\ e.answered = d.answered /\ e.cur = d.cur /\ e.ask = d.ask /\ e.timers = d.timers
        /\ e.st = [d.st EXCEPT ![s] = "Running"] /\ e.keyed = d.keyed /\ e.rows = d.rows
    BY DEF StepStarted, Execution
  <1>2. DOMAIN d.st = Step
    BY DEF Execution
  <1> HIDE DEF e
  <1> QED BY <1>1, <1>2 DEF e, SameRun, Same, StepStartedWrote, StartPart

RetryPart(d, e, s, n) ==
    /\ OtherAttempts(d, e, s, n)
    /\ e.st[s] = "Pending" /\ e.cur[s] = n /\ e.ask[s] = d.ask[s]
    /\ e.answered[s] = d.answered[s] /\ e.keyed[s] = d.keyed[s]
    /\ e.err[<<s, n>>] = d.err[<<s, n>>]
    /\ e.rows[<<s, n>>] = ClaimableRow(RetryDelay)
    /\ e.timers[<<s, n>>] = d.timers[<<s, n>>]

ScheduleRetryWrote(d, e, s, n) ==
    /\ SameRun(d, e)
    /\ \A t \in Step \ {s} : Same(d, e, t)
    /\ RetryPart(d, e, s, n)

LEMMA ScheduleRetryWrites ==
  ASSUME NEW d \in Execution, NEW s \in Step, NEW n \in Attempt
  PROVE  ScheduleRetryWrote(d, ScheduleRetry(d, s, n), s, n)
  <1> DEFINE e == ScheduleRetry(d, s, n)
  <1>1. /\ e.run = d.run /\ e.cancelling = d.cancelling /\ e.err = d.err
        /\ e.answered = d.answered /\ e.ask = d.ask /\ e.timers = d.timers
        /\ e.st = [d.st EXCEPT ![s] = "Pending"] /\ e.cur = [d.cur EXCEPT ![s] = n]
        /\ e.keyed = d.keyed
        /\ e.rows = [d.rows EXCEPT ![<<s, n>>] = ClaimableRow(RetryDelay)]
    BY DEF ScheduleRetry, Execution
  <1>2. DOMAIN d.st = Step /\ DOMAIN d.cur = Step /\ DOMAIN d.rows = Key /\ <<s, n>> \in Key
    BY DEF Execution
  <1> HIDE DEF e
  <1> QED BY <1>1, <1>2 DEF e, SameRun, Same, OtherAttempts, ScheduleRetryWrote, RetryPart

\* The writes that are not a decision's: to one row, to one timer, and the clock's.
SameButRows(d, e) ==
    /\ SameRun(d, e) /\ e.st = d.st /\ e.cur = d.cur /\ e.ask = d.ask
    /\ e.answered = d.answered /\ e.keyed = d.keyed /\ e.err = d.err

RowWrote(d, e, k, row) ==
    /\ SameButRows(d, e) /\ e.timers = d.timers
    /\ e.rows[k] = row /\ \A q \in Key : q # k => e.rows[q] = d.rows[q]

LEMMA RowWrites ==
  ASSUME NEW d \in Execution, NEW k \in Key, NEW row
  PROVE  RowWrote(d, [d EXCEPT !.rows[k] = row], k, row)
  BY DEF Execution, RowWrote, SameButRows, SameRun

LEMMA RenewalWrites ==
  ASSUME NEW d \in Execution, NEW k \in Key
  PROVE  RowWrote(d, [d EXCEPT !.rows[k].age = 0], k, [d.rows[k] EXCEPT !.age = 0])
  BY DEF Execution, RowWrote, SameButRows, SameRun

TimerWrote(d, e, k) ==
    /\ SameButRows(d, e) /\ e.rows = d.rows
    /\ e.timers[k] = NoTimer /\ \A q \in Key : q # k => e.timers[q] = d.timers[q]

LEMMA TimerWrites ==
  ASSUME NEW d \in Execution, NEW k \in Key
  PROVE  TimerWrote(d, [d EXCEPT !.timers[k] = NoTimer], k)
  BY DEF Execution, TimerWrote, SameButRows, SameRun

AgedWrote(d, e) ==
    /\ SameRun(d, e) /\ e.st = d.st /\ e.cur = d.cur
    /\ e.answered = d.answered /\ e.keyed = d.keyed /\ e.err = d.err
    /\ \A s \in Step : e.ask[s] = IF d.ask[s] >= 0 THEN d.ask[s] - 1 ELSE d.ask[s]
    /\ \A k \in Key : /\ e.rows[k] = Older(d.rows[k])
                      /\ e.timers[k] = IF d.timers[k] > 0 THEN d.timers[k] - 1 ELSE d.timers[k]

LEMMA AgedWrites ==
  ASSUME NEW d \in Execution
  PROVE  AgedWrote(d, Aged(d))
  BY DEF Execution, AgedWrote, Aged, SameRun

LEMMA SameStates ==
  ASSUME NEW row \in Row, NEW c \in Claimant
  PROVE  /\ Older(row).state = row.state /\ [row EXCEPT !.age = 0].state = row.state
         /\ Claim(row, c).state = "running" /\ Claim(row, c).owner = c
  BY DEF Older, Claim, Row

-----------------------------------------------------------------------------
(* Where the passes go *)

Active(w) == w.at \notin {"idle", "lost"}

\* What a step may do to one claimant's pass.
Forward(c) ==
    \/ who'[c] = who[c]
    \/ who'[c].at \in {"idle", "lost"}
    \/ \E k \in Key : TakeClaim(c, k)
    \/ TakeStarted(c)
    \/ TakeRefused(c)
    \/ /\ who[c].at \in {"working", "executing", "done"}
       /\ who'[c].at \in {"executing", "done", "settling"}
       /\ who'[c].key = who[c].key

LEMMA PassesGoForward ==
  ASSUME TypeOK, [Next]_vars, NEW c \in Claimant
  PROVE  Forward(c)
  <1>0. who \in [Claimant -> Pass] /\ \A g \in Claimant : who[g] \in Pass
    BY DEF TypeOK
  <1>1. ASSUME who' = who PROVE Forward(c)
    BY <1>1 DEF Forward
  <1>2. ASSUME NEW g \in Claimant, NEW w, who' = [who EXCEPT ![g] = w], c # g PROVE Forward(c)
    BY <1>0, <1>2 DEF Forward
  <1>3. ASSUME NEW g \in Claimant, NEW w, who' = [who EXCEPT ![g] = w],
               w.at \in {"idle", "lost"}
        PROVE  Forward(c)
    BY <1>0, <1>3 DEF Forward
  <1>4. Idle.at = "idle" /\ [Idle EXCEPT !.at = "lost"].at = "lost"
    BY DEF Idle
  <1>5. ASSUME NEW g \in Claimant, NEW w \in Pass, who' = [who EXCEPT ![g] = w],
               who[g].at \in {"working", "executing", "done"},
               w.at \in {"executing", "done", "settling"}, w.key = who[g].key
        PROVE  Forward(c)
    BY <1>0, <1>5 DEF Forward
  <1>6. ASSUME NEW g \in Claimant,
               \/ \E k \in Key : TakeClaim(g, k)
               \/ TakeStarted(g) \/ TakeRefused(g)
        PROVE  Forward(c)
    <2>1. CASE c = g
      BY <1>6, <2>1 DEF Forward
    <2>2. CASE c # g
      <3>1. \E w : who' = [who EXCEPT ![g] = w]
        BY <1>6 DEF TakeClaim, TakeStarted, TakeRefused
      <3> QED BY <1>2, <2>2, <3>1
    <2> QED BY <2>1, <2>2
  <1>7. ASSUME NEW g \in Claimant, TakeReleased(g) \/ TakeCacheHit(g) \/ Report(g) \/ Lose(g)
        PROVE  Forward(c)
    BY <1>3, <1>4, <1>7 DEF TakeReleased, TakeCacheHit, Report, Lose
  <1> DEFINE Executes(g) == who' = [who EXCEPT ![g].at = "executing"]
             Settles(g, out) == who' = [who EXCEPT ![g].at = "settling", ![g].out = out]
  <1>8. ASSUME NEW g \in Claimant, NEW out, who[g].at \in {"working", "executing", "done"},
               Executes(g) \/ Becomes(g, out) \/ Settles(g, out)
        PROVE  Forward(c)
    <2>1. CASE c = g
      BY <1>0, <1>8, <2>1 DEF Forward, Pass, Becomes
    <2>2. CASE c # g
      BY <1>0, <1>8, <2>2 DEF Forward, Becomes
    <2> QED BY <2>1, <2>2
  <1>9. ASSUME NEW g \in Claimant,
               Lookup(g) \/ Execute(g) \/ Finish(g) \/ StopReactor(g) \/ Heartbeat(g) \/ Settle(g)
        PROVE  Forward(c)
    <2>1. CASE Lookup(g) \/ Execute(g) \/ Finish(g) \/ StopReactor(g)
      <3>1. /\ who[g].at \in {"working", "executing", "done"}
            /\ Executes(g) \/ \E out : Becomes(g, out)
        BY <2>1 DEF Lookup, Execute, Finish, StopReactor
      <3> HIDE DEF Executes, Settles
      <3> QED BY <1>8, <3>1
    <2>2. CASE Heartbeat(g) \/ Settle(g)
      <3>1. /\ who[g].at \in {"working", "executing", "done"}
            /\ \/ \E out : Settles(g, out)
               \/ who' = who
               \/ who' = [who EXCEPT ![g] = Idle]
        BY <2>2 DEF Heartbeat, Settle
      <3> HIDE DEF Executes, Settles
      <3> QED BY <1>1, <1>3, <1>4, <1>8, <3>1
    <2> QED BY <1>9, <2>1, <2>2
  <1>10. ASSUME NEW k \in Key, PodEnds(k) \/ CloseJob(k) PROVE Forward(c)
    <2>1. k \in Claimant
      BY <1>10, ClaimantAssumption DEF PodEnds, CloseJob
    <2> QED BY <1>3, <1>4, <1>10, <2>1 DEF PodEnds, CloseJob
  <1>11. ASSUME NEW k \in Key, FireDeadline(k) \/ RuntimeFinishes(k) \/ Launcher(k) \/ PodEnds(k)
         PROVE  Forward(c)
    BY <1>1, <1>10, <1>11 DEF FireDeadline, RuntimeFinishes, Launcher, LauncherReads, LaunchPod,
       LauncherPasses, LauncherReports, LauncherCloses
  <1>12. CASE Commanded \/ Tick \/ UNCHANGED vars
    BY <1>1, <1>12 DEF Commanded, Start, Pause, Resume, Cancel, Retry, Answer, Tick, vars
  <1> QED BY <1>6, <1>7, <1>9, <1>11, <1>12 DEF Next, Work

\* A pass that is under way has the key it had, or the one it just claimed.
LEMMA KeysAreClaimed ==
  ASSUME TypeOK, [Next]_vars, NEW c \in Claimant, Active(who'[c])
  PROVE  \/ Active(who[c]) /\ who'[c].key = who[c].key
         \/ \E k \in Key : TakeClaim(c, k) /\ who'[c].key = k
  <1>0. who \in [Claimant -> Pass] /\ who[c] \in Pass
    BY DEF TypeOK
  <1>1. Forward(c)
    BY PassesGoForward
  <1>2. ASSUME NEW k \in Key, TakeClaim(c, k) PROVE who'[c].key = k
    BY <1>0, <1>2 DEF TakeClaim, Idle
  <1>3. ASSUME TakeStarted(c) \/ TakeRefused(c)
        PROVE  Active(who[c]) /\ who'[c].key = who[c].key
    BY <1>0, <1>3 DEF TakeStarted, TakeRefused, Active, Pass
  <1> QED BY <1>1, <1>2, <1>3 DEF Forward, Active

-----------------------------------------------------------------------------
(* Held back, and never cached *)

\* A step with a row, or that has failed, was given an attempt; and one that was
\* answered has no cache key.
StepBegun(d, s) ==
    /\ \A a \in Attempt : d.rows[<<s, a>>].state # "absent" => d.cur[s] > 0
    /\ d.st[s] \in {"Failed", "Crashed"} => d.cur[s] > 0
    /\ s \notin Human /\ d.answered[s] => ~d.keyed[s]

Begun(d) == \A s \in Step : StepBegun(d, s)

\* No attempt is taken back.
Lasts(d, e) == \A s \in Step : d.cur[s] > 0 => e.cur[s] > 0

\* No first attempt is given.
NoneFirst(d, e) == \A s \in Step : e.cur[s] > 0 => d.cur[s] > 0

\* No first attempt is given to a run that is held.
Onward(d, e) ==
    /\ Lasts(d, e)
    /\ d.cancelling \/ (d.run = "Paused" /\ e.run = "Paused") => NoneFirst(d, e)

\* A write that gives no attempt and leaves the run alone, before a decision.
Quiet(d, e) == SameRun(d, e) /\ Lasts(d, e) /\ NoneFirst(d, e)

LEMMA QuietFirst ==
  ASSUME NEW d, NEW e, NEW f, Quiet(d, e), Onward(e, f)
  PROVE  Onward(d, f)
  BY DEF Quiet, Onward, SameRun, Lasts, NoneFirst

LEMMA QuietIsOnward ==
  ASSUME NEW d, NEW e, Quiet(d, e)
  PROVE  Onward(d, e)
  BY DEF Quiet, Onward

LEMMA SameBegun ==
  ASSUME NEW d, NEW e, NEW s, StepBegun(d, s), Same(d, e, s)
  PROVE  StepBegun(e, s)
  BY DEF StepBegun, Same

LEMMA RowKinds ==
  /\ NoRow.state = "absent" /\ \A w : ClaimableRow(w).state = "pending"
  /\ \A row \in Row : /\ row.state = "absent" => Park(row).state = "absent"
                      /\ row.state # "absent" => Park(row).state = "awaiting"
  <1>1. NoRow.state = "absent" /\ \A w : ClaimableRow(w).state = "pending"
    BY DEF NoRow, ClaimableRow
  <1>2. ASSUME NEW row \in Row, row.state # "absent"
        PROVE  Park(row).state = "awaiting"
    BY <1>2 DEF Park, Row
  <1>3. \A row \in Row : row.state = "absent" => Park(row) = row
    BY DEF Park
  <1> QED BY <1>1, <1>2, <1>3

LEMMA ScheduleBegun ==
  ASSUME NEW d \in Execution, NEW S \in SUBSET Step, NEW n \in Attempt,
         \A s \in Step \ S : StepBegun(d, s)
  PROVE  /\ Begun(ScheduleAttempts(d, S, n)) /\ Lasts(d, ScheduleAttempts(d, S, n))
         /\ (\A s \in S : d.cur[s] > 0) => Quiet(d, ScheduleAttempts(d, S, n))
  <1> DEFINE e == ScheduleAttempts(d, S, n)
  <1>1. /\ SameRun(d, e) /\ \A s \in Step \ S : Same(d, e, s)
        /\ \A s \in S : /\ e.st[s] = IF s \in Human THEN "AwaitingInput" ELSE "Pending"
                        /\ e.cur[s] = n /\ e.answered[s] = d.answered[s]
                        /\ e.keyed[s] = CacheKey(d, s)
    <2>1. ScheduleAttemptsWrote(d, e, S, n)
      BY ScheduleAttemptsWrites
    <2> HIDE DEF e
    <2> QED BY <2>1 DEF ScheduleAttemptsWrote, SchedulePart
  <1>2. n > 0
    OBVIOUS
  <1> HIDE DEF e
  <1>3. ASSUME NEW s \in Step PROVE StepBegun(e, s)
    <2>1. CASE s \in S
      BY <1>1, <1>2, <2>1 DEF StepBegun, CacheKey
    <2>2. CASE s \notin S
      BY <1>1, <2>2, SameBegun
    <2> QED BY <2>1, <2>2
  <1>4. Lasts(d, e)
    BY <1>1, <1>2 DEF Lasts, Same
  <1>5. ASSUME \A s \in S : d.cur[s] > 0 PROVE NoneFirst(d, e)
    BY <1>1, <1>5 DEF NoneFirst, Same
  <1> QED BY <1>1, <1>3, <1>4, <1>5 DEF e, Begun, Quiet

\* Nothing but the run's name is written.
LEMMA NameBegun ==
  ASSUME NEW d \in Execution, Begun(d), NEW r
  PROVE  Begun([d EXCEPT !.run = r]) /\ Onward(d, [d EXCEPT !.run = r])
  <1>1. \A s \in Step : Same(d, [d EXCEPT !.run = r], s)
    BY RunSame
  <1>2. Lasts(d, [d EXCEPT !.run = r]) /\ NoneFirst(d, [d EXCEPT !.run = r])
    BY <1>1 DEF Same, Lasts, NoneFirst
  <1> QED BY <1>1, <1>2, SameBegun DEF Begun, Onward

LEMMA DispatchBegun ==
  ASSUME NEW d \in Execution, Begun(d)
  PROVE  Begun(DispatchReady(d)) /\ Onward(d, DispatchReady(d))
  <1>1. CASE d.run = "Paused" \/ d.cancelling
    <2>1. DispatchReady(d) = d
      BY <1>1 DEF DispatchReady
    <2> QED BY <2>1 DEF Onward, Lasts, NoneFirst
  <1>2. CASE ~(d.run = "Paused" \/ d.cancelling)
    <2>1. DispatchReady(d) = ScheduleAttempts(d, Ready(d), 1) /\ Ready(d) \in SUBSET Step
          /\ 1 \in Attempt
      BY <1>2 DEF DispatchReady, Ready
    <2>2. /\ Begun(ScheduleAttempts(d, Ready(d), 1))
          /\ Lasts(d, ScheduleAttempts(d, Ready(d), 1))
      BY <2>1, ScheduleBegun DEF Begun
    <2> QED BY <1>2, <2>1, <2>2 DEF Onward
  <1> QED BY <1>1, <1>2

LEMMA ContinueBegun ==
  ASSUME NEW d \in Execution, Begun(d)
  PROVE  Begun(ContinueAfter(d)) /\ Onward(d, ContinueAfter(d))
  <1>1. ContinueAfter(d) \in {[d EXCEPT !.run = "Cancelled"], d, [d EXCEPT !.run = "Completed"],
                              DispatchReady(d)}
    BY DEF ContinueAfter
  <1>2. Onward(d, d)
    BY DEF Onward, Lasts, NoneFirst
  <1> QED BY <1>1, <1>2, NameBegun, DispatchBegun

LEMMA SkipBegun ==
  ASSUME NEW d \in Execution, Begun(d), NEW S \in SUBSET Step
  PROVE  Begun(SkipSteps(d, S)) /\ Quiet(d, SkipSteps(d, S))
  <1> DEFINE e == SkipSteps(d, S)
  <1>1. /\ SameRun(d, e) /\ \A s \in Step \ S : Same(d, e, s)
        /\ \A s \in S :
             /\ e.st[s] = "Cancelled" /\ e.cur[s] = d.cur[s]
             /\ e.answered[s] = d.answered[s] /\ e.keyed[s] = d.keyed[s]
             /\ \A a \in Attempt : e.rows[<<s, a>>] \in {NoRow, d.rows[<<s, a>>]}
    <2>1. SkipStepsWrote(d, e, S)
      BY SkipStepsWrites
    <2> HIDE DEF e
    <2> QED BY <2>1 DEF SkipStepsWrote, SkipPart
  <1> HIDE DEF e
  <1>2. ASSUME NEW s \in Step PROVE StepBegun(e, s)
    <2>1. CASE s \in S
      BY <1>1, <2>1, RowKinds DEF StepBegun, Begun
    <2>2. CASE s \notin S
      BY <1>1, <2>2, SameBegun DEF Begun
    <2> QED BY <2>1, <2>2
  <1>3. Lasts(d, e) /\ NoneFirst(d, e)
    BY <1>1 DEF Lasts, NoneFirst, Same
  <1> QED BY <1>1, <1>2, <1>3 DEF e, Begun, Quiet

LEMMA SettleBegun ==
  ASSUME NEW d \in Execution, Begun(d), NEW s \in Step
  PROVE  Begun(SettleFailure(d, s)) /\ Onward(d, SettleFailure(d, s))
  <1> DEFINE T == {c \in Downstream(s) : ~Terminal(d.st[c])}
             r == IF d.cancelling THEN "Cancelled" ELSE "Failed"
             e == SkipSteps(d, T)
  <1>1. T \in SUBSET Step
    BY DEF Downstream
  <1>2. SettleFailure(d, s) = [e EXCEPT !.run = r]
    BY DEF SettleFailure, SkipDownstream
  <1> HIDE DEF T, r
  <1>3. e \in Execution /\ Begun(e) /\ Quiet(d, e)
    BY <1>1, SkipBegun, SkipStepsType
  <1> HIDE DEF e
  <1>4. Begun([e EXCEPT !.run = r]) /\ Onward(e, [e EXCEPT !.run = r])
    BY <1>3, NameBegun
  <1> QED BY <1>2, <1>3, <1>4, QuietFirst

\* What is written of one step, before the run goes on.
LEMMA OneBegun ==
  ASSUME NEW d \in Execution, Begun(d), NEW s \in Step, NEW a \in Attempt, NEW class \in Class,
         d.cur[s] > 0
  PROVE  /\ Begun(Complete(d, s, a)) /\ Quiet(d, Complete(d, s, a))
         /\ Begun(Fail(d, s, a, class)) /\ Quiet(d, Fail(d, s, a, class))
         /\ Begun(InputRequested(d, s, a)) /\ Quiet(d, InputRequested(d, s, a))
         /\ Begun(StepStarted(d, s, a)) /\ Quiet(d, StepStarted(d, s, a))
         /\ d.keyed[s] => Begun(Found(d, s, a)) /\ Quiet(d, Found(d, s, a))
  <1>0. ASSUME NEW e, SameRun(d, e), \A t \in Step \ {s} : Same(d, e, t),
               e.cur[s] = d.cur[s], e.answered[s] = d.answered[s], e.keyed[s] = d.keyed[s]
        PROVE  Begun(e) /\ Quiet(d, e)
    <2>1. \A t \in Step \ {s} : StepBegun(e, t)
      BY <1>0, SameBegun DEF Begun
    <2>2. StepBegun(e, s)
      BY <1>0 DEF StepBegun, Begun
    <2>3. Lasts(d, e) /\ NoneFirst(d, e)
      BY <1>0 DEF Same, Lasts, NoneFirst
    <2> QED BY <1>0, <2>1, <2>2, <2>3 DEF Begun, Quiet
  <1>1. Begun(Complete(d, s, a)) /\ Quiet(d, Complete(d, s, a))
    <2> DEFINE e == Complete(d, s, a)
    <2>1. CompleteWrote(d, e, s, a)
      BY CompleteWrites
    <2> HIDE DEF e
    <2>2. Begun(e) /\ Quiet(d, e)
      BY <1>0, <2>1 DEF CompleteWrote, CompletePart
    <2> QED BY <2>2 DEF e
  <1>2. Begun(Fail(d, s, a, class)) /\ Quiet(d, Fail(d, s, a, class))
    <2> DEFINE e == Fail(d, s, a, class)
    <2>1. FailWrote(d, e, s, a, class)
      BY FailWrites
    <2> HIDE DEF e
    <2>2. Begun(e) /\ Quiet(d, e)
      BY <1>0, <2>1 DEF FailWrote, FailPart
    <2> QED BY <2>2 DEF e
  <1>3. Begun(InputRequested(d, s, a)) /\ Quiet(d, InputRequested(d, s, a))
    <2> DEFINE e == InputRequested(d, s, a)
    <2>1. InputRequestedWrote(d, e, s, a)
      BY InputRequestedWrites
    <2> HIDE DEF e
    <2>2. Begun(e) /\ Quiet(d, e)
      BY <1>0, <2>1 DEF InputRequestedWrote, AskPart
    <2> QED BY <2>2 DEF e
  <1>4. Begun(StepStarted(d, s, a)) /\ Quiet(d, StepStarted(d, s, a))
    <2> DEFINE e == StepStarted(d, s, a)
    <2>1. StepStartedWrote(d, e, s, a)
      BY StepStartedWrites
    <2> HIDE DEF e
    <2>2. Begun(e) /\ Quiet(d, e)
      BY <1>0, <2>1 DEF StepStartedWrote, StartPart
    <2> QED BY <2>2 DEF e
  <1>5. ASSUME d.keyed[s] PROVE Begun(Found(d, s, a)) /\ Quiet(d, Found(d, s, a))
    <2> DEFINE e == Found(d, s, a)
    <2>1. FoundWrote(d, e, s, a)
      BY FoundWrites
    <2>2. d.keyed[s] = TRUE
      BY <1>5, Shape
    <2> HIDE DEF e
    <2>3. Begun(e) /\ Quiet(d, e)
      BY <1>0, <2>1, <2>2 DEF FoundWrote, FoundPart
    <2> QED BY <2>3 DEF e
  <1> QED BY <1>1, <1>2, <1>3, <1>4, <1>5

\* Every answer to a message about a step that was given an attempt.
LEMMA AnswerBegun ==
  ASSUME NEW d \in Execution, Begun(d), NEW s \in Step, NEW a \in Attempt, d.cur[s] > 0,
         s \notin Human => a + 1 \in Attempt
  PROVE  Begun(AnswerLands(d, s, a)) /\ Onward(d, AnswerLands(d, s, a))
  <1> DEFINE e == CloseQuestion(d, s, a)
  <1>1. CloseQuestionWrote(d, e, s, a) /\ e \in Execution
    BY CloseQuestionWrites, CloseQuestionType
  <1> HIDE DEF e
  <1>2. Quiet(d, e) /\ (\A t \in Step \ {s} : StepBegun(e, t)) /\ e.cur[s] > 0
    <2>1. \A t \in Step \ {s} : Same(d, e, t)
      BY <1>1 DEF CloseQuestionWrote, ClosePart
    <2>2. \A t \in Step \ {s} : StepBegun(e, t)
      BY <2>1, SameBegun DEF Begun
    <2>3. SameRun(d, e) /\ e.cur[s] = d.cur[s]
      BY <1>1 DEF CloseQuestionWrote, ClosePart
    <2> QED BY <2>1, <2>2, <2>3 DEF Quiet, Lasts, NoneFirst, Same
  <1>3. CASE s \in Human
    <2>1. StepBegun(e, s)
      BY <1>1, <1>2, <1>3 DEF StepBegun
    <2>2. Begun(e) /\ "Policy" \in Class
      BY <1>2, <2>1 DEF Begun, Class
    <2> DEFINE f == Complete(e, s, a)
    <2>3. f \in Execution /\ Begun(f) /\ Quiet(e, f)
      BY <1>1, <1>2, <2>2, OneBegun, CompleteType
    <2>4. AnswerLands(d, s, a) = ContinueAfter(f)
      BY <1>3 DEF AnswerLands, e
    <2> HIDE DEF f
    <2>5. Begun(ContinueAfter(f)) /\ Onward(f, ContinueAfter(f))
      BY <2>3, ContinueBegun
    <2>6. Onward(e, ContinueAfter(f))
      BY <2>3, <2>5, QuietFirst
    <2>7. Onward(d, ContinueAfter(f))
      BY <1>2, <2>6, QuietFirst
    <2> QED BY <2>4, <2>5, <2>7
  <1>4. CASE s \notin Human
    <2> DEFINE f == ScheduleAttempts(e, {s}, a + 1)
    <2>1. AnswerLands(d, s, a) = f
      BY <1>4 DEF AnswerLands, e
    <2>2. {s} \in SUBSET Step /\ a + 1 \in Attempt /\ \A t \in {s} : e.cur[t] > 0
      BY <1>2, <1>4
    <2>3. Begun(f) /\ Quiet(e, f)
      BY <1>1, <1>2, <2>2, ScheduleBegun
    <2> HIDE DEF f
    <2>4. Onward(d, f)
      BY <1>2, <2>3, QuietIsOnward, QuietFirst
    <2> QED BY <2>1, <2>3, <2>4
  <1> QED BY <1>3, <1>4

LEMMA EndBegun ==
  ASSUME NEW d \in Execution, Begun(d), NEW s \in Step, NEW a \in Attempt, NEW class \in Class,
         d.cur[s] > 0
  PROVE  /\ Begun(ContinueAfter(Complete(d, s, a))) /\ Onward(d, ContinueAfter(Complete(d, s, a)))
         /\ Begun(SettleFailure(Fail(d, s, a, class), s))
         /\ Onward(d, SettleFailure(Fail(d, s, a, class), s))
         /\ a + 1 \in Attempt => /\ Begun(ScheduleRetry(Fail(d, s, a, class), s, a + 1))
                                 /\ Onward(d, ScheduleRetry(Fail(d, s, a, class), s, a + 1))
         /\ d.keyed[s] => /\ Begun(ContinueAfter(Found(d, s, a)))
                          /\ Onward(d, ContinueAfter(Found(d, s, a)))
  <1>1. Begun(ContinueAfter(Complete(d, s, a))) /\ Onward(d, ContinueAfter(Complete(d, s, a)))
    <2> DEFINE e == Complete(d, s, a)
    <2>1. e \in Execution /\ Begun(e) /\ Quiet(d, e)
      BY OneBegun, CompleteType
    <2> HIDE DEF e
    <2>2. Begun(ContinueAfter(e)) /\ Onward(d, ContinueAfter(e))
      BY <2>1, ContinueBegun, QuietFirst
    <2> QED BY <2>2 DEF e
  <1>2. /\ Begun(SettleFailure(Fail(d, s, a, class), s))
        /\ Onward(d, SettleFailure(Fail(d, s, a, class), s))
    <2> DEFINE e == Fail(d, s, a, class)
    <2>1. e \in Execution /\ Begun(e) /\ Quiet(d, e)
      BY OneBegun, FailType
    <2> HIDE DEF e
    <2>2. Begun(SettleFailure(e, s)) /\ Onward(d, SettleFailure(e, s))
      BY <2>1, SettleBegun, QuietFirst
    <2> QED BY <2>2 DEF e
  <1>3. ASSUME a + 1 \in Attempt
        PROVE  /\ Begun(ScheduleRetry(Fail(d, s, a, class), s, a + 1))
               /\ Onward(d, ScheduleRetry(Fail(d, s, a, class), s, a + 1))
    <2> DEFINE e == Fail(d, s, a, class)
               n == a + 1
               f == ScheduleRetry(e, s, n)
    <2>1. e \in Execution /\ Begun(e) /\ Quiet(d, e)
      BY OneBegun, FailType
    <2> HIDE DEF e
    <2>2. n \in Attempt /\ n > 0
      BY <1>3
    <2> HIDE DEF n
    <2>3. ScheduleRetryWrote(e, f, s, n)
      BY <2>1, <2>2, ScheduleRetryWrites
    <2> HIDE DEF f
    <2>4. \A t \in Step \ {s} : Same(e, f, t)
      BY <2>3 DEF ScheduleRetryWrote, RetryPart
    <2>5. \A t \in Step \ {s} : StepBegun(f, t)
      BY <2>1, <2>4, SameBegun DEF Begun
    <2>6. StepBegun(f, s) /\ SameRun(e, f) /\ f.cur[s] > 0
      BY <2>1, <2>2, <2>3 DEF StepBegun, ScheduleRetryWrote, RetryPart, Begun
    <2>7. d.cur[s] > 0 /\ \A t \in Step \ {s} : f.cur[t] = e.cur[t]
      BY <2>4 DEF Same
    <2>8. Quiet(d, f)
      BY <2>1, <2>6, <2>7 DEF Quiet, SameRun, Lasts, NoneFirst
    <2>9. Begun(f) /\ Onward(d, f)
      BY <2>5, <2>6, <2>8, QuietIsOnward DEF Begun
    <2> QED BY <2>9 DEF f, e, n
  <1>4. ASSUME d.keyed[s]
        PROVE  Begun(ContinueAfter(Found(d, s, a))) /\ Onward(d, ContinueAfter(Found(d, s, a)))
    <2> DEFINE e == Found(d, s, a)
    <2>1. Begun(e) /\ Quiet(d, e)
      BY <1>4, OneBegun
    <2>2. FoundWrote(d, e, s, a)
      BY FoundWrites
    <2> HIDE DEF e
    <2>3. e \in Execution
      BY <2>2 DEF FoundWrote, FoundPart
    <2>4. Begun(ContinueAfter(e)) /\ Onward(d, ContinueAfter(e))
      BY <2>1, <2>3, ContinueBegun, QuietFirst
    <2> QED BY <2>4 DEF e
  <1> QED BY <1>1, <1>2, <1>3, <1>4

LEMMA TimeoutBegun ==
  ASSUME NEW d \in Execution, Begun(d), NEW s \in Step, NEW a \in Attempt, d.cur[s] > 0,
         OnTimeout[s] = "Answer" /\ s \notin Human => a + 1 \in Attempt
  PROVE  Begun(TimeoutInput(d, s, a)) /\ Onward(d, TimeoutInput(d, s, a))
  <1>1. "Policy" \in Class /\ OnTimeout[s] \in {"Fail", "Skip", "Answer"}
    BY DEF Class
  <1>2. CASE OnTimeout[s] = "Fail"
    <2>1. TimeoutInput(d, s, a) = SettleFailure(Fail(d, s, a, "Policy"), s)
      BY <1>2 DEF TimeoutInput
    <2> QED BY <1>1, <2>1, EndBegun
  <1>3. CASE OnTimeout[s] = "Skip"
    <2>1. TimeoutInput(d, s, a) = ContinueAfter(Complete(d, s, a))
      BY <1>3 DEF TimeoutInput
    <2> QED BY <1>1, <2>1, EndBegun
  <1>4. CASE OnTimeout[s] = "Answer"
    <2>1. TimeoutInput(d, s, a) = AnswerLands(d, s, a)
      BY <1>4 DEF TimeoutInput
    <2> QED BY <1>4, <2>1, AnswerBegun
  <1> QED BY <1>1, <1>2, <1>3, <1>4

\* Claims, renewals, timers and the clock.
LEMMA RowsBegun ==
  ASSUME NEW d \in Execution, Begun(d), NEW e, SameRun(d, e),
         \A s \in Step : /\ e.st[s] = d.st[s] /\ e.cur[s] = d.cur[s]
                         /\ e.answered[s] = d.answered[s] /\ e.keyed[s] = d.keyed[s],
         \A s \in Step, a \in Attempt :
            e.rows[<<s, a>>].state # "absent" => d.rows[<<s, a>>].state # "absent"
  PROVE  Begun(e) /\ Onward(d, e)
  <1>1. Begun(e)
    BY DEF Begun, StepBegun
  <1> QED BY <1>1 DEF Onward, Lasts, NoneFirst

\* A pass under way, and a row the launcher has read, are of a step that was given
\* an attempt.
PassesBegun ==
    /\ \A c \in Claimant : Active(who[c]) => ex.cur[who[c].key[1]] > 0
    /\ \A k \in launcher : ex.cur[k[1]] > 0

AttemptsBegun == Begun(ex) /\ PassesBegun

LEMMA CommandBegun ==
  ASSUME TypeOK, AttemptsBegun, Commanded
  PROVE  Begun(ex') /\ Onward(ex, ex')
  <1>0. ex \in Execution /\ Begun(ex) /\ \A s \in Step : ex.cur[s] \in 0..MaxAttempt
    BY Parts DEF AttemptsBegun
  <1>1. ASSUME Start \/ Resume PROVE Begun(ex') /\ Onward(ex, ex')
    <2> DEFINE e == [ex EXCEPT !.run = "Running"]
    <2>1. ex' = DispatchReady(e) /\ (ex.run = "Empty" \/ ex.run = "Paused")
      BY <1>1 DEF Start, Resume, StartExecution, ResumeExecution
    <2>2. e \in Execution /\ Begun(e)
      BY <1>0, NameBegun, RunType DEF RunState
    <2>3. /\ e.run = "Running" /\ e.cancelling = ex.cancelling
          /\ \A s \in Step : Same(ex, e, s)
      BY <1>0, RunSame
    <2> HIDE DEF e
    <2>4. Begun(ex') /\ Onward(e, ex')
      BY <2>1, <2>2, DispatchBegun
    <2>5. SameRun(e, ex')
      <3>1. Ready(e) \in SUBSET Step /\ 1 \in Attempt
        BY DEF Ready
      <3> QED BY <2>1, <2>2, <3>1 DEF DispatchReady, ScheduleAttempts, Execution, SameRun
    <2>6. \A s \in Step : e.cur[s] = ex.cur[s]
      BY <2>3 DEF Same
    <2>7. Onward(ex, ex')
      BY <2>3, <2>4, <2>5, <2>6 DEF Onward, Lasts, NoneFirst, SameRun
    <2> QED BY <2>4, <2>7
  <1>2. ASSUME Pause PROVE Begun(ex') /\ Onward(ex, ex')
    BY <1>0, <1>2, NameBegun DEF Pause, PauseExecution
  <1>3. ASSUME Cancel PROVE Begun(ex') /\ Onward(ex, ex')
    <2> DEFINE S == {s \in Step : ex.st[s] \in {"Scheduled", "Pending"}}
               e == SkipSteps(ex, S)
               r == IF \E s \in Step : ex.st[s] \in {"Running", "AwaitingInput"}
                    THEN "Cancelling" ELSE "Cancelled"
    <2>1. ex' = [e EXCEPT !.cancelling = TRUE, !.run = r]
      BY <1>3 DEF Cancel, CancelExecution
    <2>2. S \in SUBSET Step
      OBVIOUS
    <2> HIDE DEF S, r
    <2>3. e \in Execution /\ Begun(e) /\ Quiet(ex, e)
      BY <1>0, <2>2, SkipBegun, SkipStepsType
    <2> HIDE DEF e
    <2>4. \A s \in Step : Same(e, ex', s)
      BY <2>1, <2>3 DEF Same, Execution
    <2>5. Begun(ex') /\ \A s \in Step : ex'.cur[s] = e.cur[s]
      BY <2>3, <2>4, SameBegun DEF Begun, Same
    <2> QED BY <2>3, <2>5 DEF Onward, Quiet, Lasts, NoneFirst
  <1>4. ASSUME NEW s \in Step, Retry(s) PROVE Begun(ex') /\ Onward(ex, ex')
    <2>1. /\ ex.cur[s] + 1 \in Attempt /\ {s} \in SUBSET Step
          /\ ex.st[s] \in {"Failed", "Crashed"}
          /\ ex' = ScheduleAttempts(ex, {s}, ex.cur[s] + 1)
      BY <1>0, <1>4 DEF Retry, MayRetryStep, RetryStep
    <2>2. \A t \in {s} : ex.cur[t] > 0
      BY <1>0, <2>1 DEF Begun, StepBegun
    <2>3. Begun(ex') /\ Quiet(ex, ex')
      BY <1>0, <2>1, <2>2, ScheduleBegun DEF Begun
    <2> QED BY <2>3, QuietIsOnward
  <1>5. ASSUME NEW k \in Key, Answer(k) PROVE Begun(ex') /\ Onward(ex, ex')
    <2>1. /\ k[1] \in Step /\ k[2] \in Attempt /\ ex.cur[k[1]] = k[2]
          /\ (k[1] \notin Human => k[2] < MaxAttempt) /\ ex' = AnswerLands(ex, k[1], k[2])
      BY <1>5, Parts DEF Answer, MayProvideInput, IsWaiting, ProvideInput
    <2>2. ex.cur[k[1]] > 0 /\ (k[1] \notin Human => k[2] + 1 \in Attempt)
      BY <2>1
    <2> QED BY <1>0, <2>1, <2>2, AnswerBegun
  <1> QED BY <1>1, <1>2, <1>3, <1>4, <1>5 DEF Commanded

LEMMA FailureBegun ==
  ASSUME TypeOK, Begun(ex), NEW k \in Key, NEW class \in Class, Fits(k, class), ex.cur[k[1]] > 0
  PROVE  Begun(StepFailed(ex, k[1], k[2], class)) /\ Onward(ex, StepFailed(ex, k[1], k[2], class))
  <1>1. ex \in Execution /\ k[1] \in Step /\ k[2] \in Attempt
    BY Parts
  <1>2. MayRetry(ex, k[1], class) => k[2] + 1 \in Attempt
    BY <1>1 DEF Fits
  <1>3. CASE MayRetry(ex, k[1], class)
    <2>1. StepFailed(ex, k[1], k[2], class)
            = ScheduleRetry(Fail(ex, k[1], k[2], class), k[1], k[2] + 1)
      BY <1>3 DEF StepFailed
    <2> QED BY <1>1, <1>2, <1>3, <2>1, EndBegun
  <1>4. CASE ~MayRetry(ex, k[1], class)
    <2>1. StepFailed(ex, k[1], k[2], class)
            = SettleFailure(Fail(ex, k[1], k[2], class), k[1])
      BY <1>4 DEF StepFailed
    <2> QED BY <1>1, <2>1, EndBegun
  <1> QED BY <1>3, <1>4

LEMMA PassBegun ==
  ASSUME TypeOK, AttemptsBegun, NEW c \in Claimant,
         Work(c) \/ StopReactor(c) \/ Heartbeat(c) \/ Lose(c)
  PROVE  Begun(ex') /\ Onward(ex, ex')
  <1> DEFINE k == who[c].key
  <1>0. /\ ex \in Execution /\ PassOK(who[c]) /\ Begun(ex)
        /\ \A key \in Key : key[1] \in Step /\ key[2] \in Attempt
        /\ Active(who[c]) => k \in Key /\ ex.cur[k[1]] > 0
    BY Parts DEF AttemptsBegun, PassesBegun, PassOK, Active
  <1>1. ASSUME ex' = ex PROVE Begun(ex') /\ Onward(ex, ex')
    BY <1>0, <1>1 DEF Onward, Lasts, NoneFirst
  <1>2. ASSUME NEW q \in Key, NEW row, ex.rows[q].state # "absent",
               RowWrote(ex, ex', q, row)
        PROVE  Begun(ex') /\ Onward(ex, ex')
    <2>1. \A s \in Step, a \in Attempt :
            ex'.rows[<<s, a>>].state # "absent" => ex.rows[<<s, a>>].state # "absent"
      BY <1>2 DEF RowWrote
    <2>2. /\ SameRun(ex, ex') /\ ex'.st = ex.st /\ ex'.cur = ex.cur
          /\ ex'.answered = ex.answered /\ ex'.keyed = ex.keyed
      BY <1>2 DEF RowWrote, SameButRows
    <2> QED BY <1>0, <2>1, <2>2, RowsBegun
  <1>3. ASSUME NEW key \in Key, TakeClaim(c, key) PROVE Begun(ex') /\ Onward(ex, ex')
    <2>1. /\ ex' = [ex EXCEPT !.rows[key] = Claim(ex.rows[key], c)]
          /\ ex.rows[key].state # "absent"
      BY <1>3 DEF TakeClaim, IsClaimable
    <2> QED BY <1>0, <1>2, <2>1, RowWrites
  <1>4. ASSUME \/ TakeReleased(c) \/ TakeRefused(c) \/ Lookup(c) \/ Execute(c) \/ Finish(c)
               \/ StopReactor(c) \/ Lose(c)
        PROVE  Begun(ex') /\ Onward(ex, ex')
    BY <1>1, <1>4 DEF TakeReleased, TakeRefused, Lookup, Execute, Finish, StopReactor, Lose
  <1>5. ASSUME TakeCacheHit(c) PROVE Begun(ex') /\ Onward(ex, ex')
    <2>1. /\ k \in Key /\ ex.cur[k[1]] > 0 /\ ex.keyed[k[1]]
          /\ ex' = ex \/ ex' = StepCacheHit(ex, k[1], k[2])
      BY <1>0, <1>5 DEF TakeCacheHit, Deliver, Active
    <2> HIDE DEF k
    <2>2. ex' \in {ex, ContinueAfter(Found(ex, k[1], k[2]))}
      BY <2>1 DEF StepCacheHit, Found
    <2>3. "Policy" \in Class
      BY DEF Class
    <2> QED BY <1>0, <1>1, <2>1, <2>2, <2>3, EndBegun
  <1>6. ASSUME TakeStarted(c) PROVE Begun(ex') /\ Onward(ex, ex')
    <2>1. /\ k \in Key /\ ex.cur[k[1]] > 0
          /\ ex' = ex \/ ex' = StepStarted(ex, k[1], k[2])
      BY <1>0, <1>6 DEF TakeStarted, Deliver, Active
    <2> HIDE DEF k
    <2>2. "Policy" \in Class
      BY DEF Class
    <2>3. Begun(StepStarted(ex, k[1], k[2])) /\ Quiet(ex, StepStarted(ex, k[1], k[2]))
      BY <1>0, <2>1, <2>2, OneBegun
    <2> QED BY <1>1, <2>1, <2>3, QuietIsOnward
  <1>7. ASSUME Heartbeat(c) \/ Settle(c) PROVE Begun(ex') /\ Onward(ex, ex')
    <2>1. k \in Key
      BY <1>0, <1>7 DEF Heartbeat, Settle, PassOK
    <2>2. ex' = ex \/ ex' = [ex EXCEPT !.rows[k].age = 0]
      BY <1>7 DEF Heartbeat, Settle, Renewed
    <2> HIDE DEF k
    <2>3. ASSUME ex' = [ex EXCEPT !.rows[k].age = 0] PROVE Begun(ex') /\ Onward(ex, ex')
      <3>1. RowWrote(ex, ex', k, [ex.rows[k] EXCEPT !.age = 0])
        BY <1>0, <2>1, <2>3, RenewalWrites
      <3>2. ex.rows[k] \in Row /\ <<k[1], k[2]>> = k /\ k[1] \in Step /\ k[2] \in Attempt
        BY <2>1, Parts
      <3>3. [ex.rows[k] EXCEPT !.age = 0].state = ex.rows[k].state
        BY <3>2 DEF Row
      <3>4. \A s \in Step, a \in Attempt :
              ex'.rows[<<s, a>>].state # "absent" => ex.rows[<<s, a>>].state # "absent"
        BY <3>1, <3>3 DEF RowWrote
      <3>5. /\ SameRun(ex, ex') /\ ex'.st = ex.st /\ ex'.cur = ex.cur
            /\ ex'.answered = ex.answered /\ ex'.keyed = ex.keyed
        BY <3>1 DEF RowWrote, SameButRows
      <3> QED BY <1>0, <3>4, <3>5, RowsBegun
    <2> QED BY <1>1, <2>2, <2>3
  <1>8. ASSUME Report(c) PROVE Begun(ex') /\ Onward(ex, ex')
    <2> DEFINE outcome == who[c].out
    <2>1. k \in Key /\ outcome \in Outcome /\ ex.cur[k[1]] > 0
      BY <1>0, <1>8 DEF Report, PassOK, Active
    <2>2. \/ ex' = ex
          \/ ex' = StepCompleted(ex, k[1], k[2])
          \/ ex' = InputRequested(ex, k[1], k[2])
          \/ /\ outcome \notin {"Completed", "Ask"} /\ Fits(k, outcome)
             /\ ex' = StepFailed(ex, k[1], k[2], outcome)
      BY <1>8 DEF Report, Deliver, k
    <2> HIDE DEF k, outcome
    <2>3. "Policy" \in Class
      BY DEF Class
    <2>4. Begun(InputRequested(ex, k[1], k[2])) /\ Quiet(ex, InputRequested(ex, k[1], k[2]))
      BY <1>0, <2>1, <2>3, OneBegun
    <2>5. ASSUME ex' = StepCompleted(ex, k[1], k[2]) PROVE Begun(ex') /\ Onward(ex, ex')
      <3>1. ex' \in {ex, ContinueAfter(Complete(ex, k[1], k[2]))}
        BY <2>5 DEF StepCompleted
      <3> QED BY <1>0, <1>1, <2>1, <2>3, <3>1, EndBegun
    <2>6. ASSUME outcome \in Class, Fits(k, outcome), ex' = StepFailed(ex, k[1], k[2], outcome)
          PROVE  Begun(ex') /\ Onward(ex, ex')
      BY <1>0, <2>1, <2>6, FailureBegun
    <2> QED BY <1>1, <2>1, <2>2, <2>4, <2>5, <2>6, QuietIsOnward DEF Outcome
  <1> QED BY <1>3, <1>4, <1>5, <1>6, <1>7, <1>8 DEF Work

LEMMA StepBegins ==
  ASSUME TypeOK, AttemptsBegun, [Next]_vars
  PROVE  Begun(ex') /\ Onward(ex, ex')
  <1>0. ex \in Execution /\ Begun(ex)
    BY Parts DEF AttemptsBegun
  <1>1. ASSUME ex' = ex PROVE Begun(ex') /\ Onward(ex, ex')
    BY <1>0, <1>1 DEF Onward, Lasts, NoneFirst
  <1>2. CASE Tick
    <2>1. ex' = Aged(ex)
      BY <1>2 DEF Tick
    <2>2. AgedWrote(ex, ex')
      BY <1>0, <2>1, AgedWrites
    <2>3. \A s \in Step, a \in Attempt :
            /\ <<s, a>> \in Key /\ ex.rows[<<s, a>>] \in Row
            /\ ex'.rows[<<s, a>>] = Older(ex.rows[<<s, a>>])
      BY <1>0, <2>2, Shape DEF AgedWrote
    <2>4. \A row \in Row : Older(row).state = row.state
      BY DEF Older, Row
    <2>5. \A s \in Step, a \in Attempt : ex'.rows[<<s, a>>].state = ex.rows[<<s, a>>].state
      BY <2>3, <2>4
    <2>6. /\ SameRun(ex, ex') /\ ex'.st = ex.st /\ ex'.cur = ex.cur
          /\ ex'.answered = ex.answered /\ ex'.keyed = ex.keyed
      BY <2>2 DEF AgedWrote
    <2> QED BY <1>0, <2>5, <2>6, RowsBegun
  <1>3. ASSUME NEW k \in Key, FireDeadline(k) PROVE Begun(ex') /\ Onward(ex, ex')
    <2>1. k[1] \in Step /\ k[2] \in Attempt
      BY Parts
    <2>2. \/ ex' = ex
          \/ ex' = [ex EXCEPT !.timers[k] = NoTimer]
          \/ ex' = TimeoutInput(ex, k[1], k[2]) /\ IsWaiting(ex, k[1], k[2])
      BY <1>3 DEF FireDeadline, Deliver
    <2>3. ASSUME ex' = [ex EXCEPT !.timers[k] = NoTimer] PROVE Begun(ex') /\ Onward(ex, ex')
      <3>1. TimerWrote(ex, ex', k)
        BY <1>0, <2>3, TimerWrites
      <3>2. /\ SameRun(ex, ex') /\ ex'.st = ex.st /\ ex'.cur = ex.cur
            /\ ex'.answered = ex.answered /\ ex'.keyed = ex.keyed /\ ex'.rows = ex.rows
        BY <3>1 DEF TimerWrote, SameButRows
      <3> QED BY <1>0, <3>2, RowsBegun
    <2>4. ASSUME ex' = TimeoutInput(ex, k[1], k[2]), IsWaiting(ex, k[1], k[2])
          PROVE  Begun(ex') /\ Onward(ex, ex')
      <3>1. ex.cur[k[1]] > 0
        BY <2>1, <2>4 DEF IsWaiting
      <3>2. OnTimeout[k[1]] = "Answer" /\ k[1] \notin Human => k[2] + 1 \in Attempt
        BY <1>3, <2>1 DEF FireDeadline
      <3> QED BY <1>0, <2>1, <2>4, <3>1, <3>2, TimeoutBegun
    <2> QED BY <1>1, <2>2, <2>3, <2>4
  <1>4. ASSUME NEW k \in Key, LauncherReports(k) PROVE Begun(ex') /\ Onward(ex, ex')
    <2>1. PICK class \in LauncherClasses(k) :
            /\ Fits(k, class)
            /\ ex' = ex \/ ex' = StepFailed(ex, k[1], k[2], class)
      BY <1>4 DEF LauncherReports, Deliver
    <2>2. class \in Class
      BY DEF LauncherClasses, Class
    <2>3. ex.cur[k[1]] > 0
      BY <1>4 DEF LauncherReports, AttemptsBegun, PassesBegun
    <2> QED BY <1>0, <1>1, <2>1, <2>2, <2>3, FailureBegun
  <1>5. ASSUME NEW k \in Key, RuntimeFinishes(k) \/ PodEnds(k) \/ Launcher(k)
        PROVE  Begun(ex') /\ Onward(ex, ex')
    BY <1>1, <1>4, <1>5 DEF RuntimeFinishes, PodEnds, Launcher, LauncherReads, LaunchPod,
       LauncherPasses, LauncherCloses, CloseJob
  <1>6. CASE UNCHANGED vars
    BY <1>1, <1>6 DEF vars
  <1> QED BY <1>2, <1>3, <1>5, <1>6, CommandBegun, PassBegun DEF Next

LEMMA PassesBeginStep ==
  ASSUME TypeOK, AttemptsBegun, [Next]_vars
  PROVE  PassesBegun'
  <1>0. /\ Lasts(ex, ex') /\ Begun(ex)
        /\ \A k \in Key : k[1] \in Step /\ k[2] \in Attempt /\ k = <<k[1], k[2]>>
    BY StepBegins, Parts DEF Onward, AttemptsBegun
  <1>1. ASSUME NEW k \in Key, ex.rows[k].state # "absent" PROVE ex'.cur[k[1]] > 0
    <2>1. ex.cur[k[1]] > 0
      BY <1>0, <1>1 DEF Begun, StepBegun
    <2> QED BY <1>0, <2>1 DEF Lasts
  <1>2. ASSUME NEW c \in Claimant, Active(who'[c]) PROVE ex'.cur[who'[c].key[1]] > 0
    <2>1. CASE Active(who[c]) /\ who'[c].key = who[c].key
      <3>1. ex.cur[who[c].key[1]] > 0 /\ who[c].key \in Key
        BY <2>1 DEF AttemptsBegun, PassesBegun, TypeOK, Active
      <3> QED BY <1>0, <2>1, <3>1 DEF Lasts
    <2>2. ASSUME NEW k \in Key, TakeClaim(c, k), who'[c].key = k
          PROVE  ex'.cur[who'[c].key[1]] > 0
      BY <1>1, <2>2 DEF TakeClaim, IsClaimable
    <2> QED BY <1>2, <2>1, <2>2, KeysAreClaimed
  <1>3. ASSUME NEW k \in launcher' PROVE ex'.cur[k[1]] > 0
    <2>1. CASE k \in launcher
      <3>1. k \in Key /\ ex.cur[k[1]] > 0
        BY <2>1 DEF TypeOK, AttemptsBegun, PassesBegun
      <3> QED BY <1>0, <3>1 DEF Lasts
    <2>2. CASE k \notin launcher
      <3>1. k \in Key /\ LauncherReads(k)
        <4>1. ASSUME launcher' \subseteq launcher PROVE FALSE
          BY <2>2, <4>1
        <4>2. ASSUME NEW q \in Key, LauncherReads(q) PROVE k = q
          BY <2>2, <4>2 DEF LauncherReads
        <4>3. ASSUME NEW c \in Claimant, Work(c) \/ StopReactor(c) \/ Heartbeat(c) \/ Lose(c)
              PROVE  launcher' = launcher
          BY <4>3 DEF Work, TakeClaim, TakeReleased, TakeRefused, TakeCacheHit, TakeStarted,
             Lookup, Execute, Finish, Settle, Report, StopReactor, Heartbeat, Lose
        <4>4. Commanded \/ Tick \/ UNCHANGED vars => launcher' = launcher
          BY DEF Commanded, Start, Pause, Resume, Cancel, Retry, Answer, Tick, vars
        <4>5. ASSUME NEW q \in Key, FireDeadline(q) \/ RuntimeFinishes(q) \/ PodEnds(q) \/ Launcher(q)
              PROVE  launcher' \subseteq launcher \/ LauncherReads(q)
          BY <4>5 DEF FireDeadline, RuntimeFinishes, PodEnds, Launcher, LaunchPod,
             LauncherPasses, LauncherReports, LauncherCloses, CloseJob
        <4> QED BY <4>1, <4>2, <4>3, <4>4, <4>5 DEF Next
      <3>2. ex.rows[k].state # "absent"
        BY <3>1 DEF LauncherReads, IsClaimable
      <3> QED BY <1>1, <3>1, <3>2
    <2> QED BY <2>1, <2>2
  <1> QED BY <1>2, <1>3 DEF PassesBegun

LEMMA AttemptsInit == Init => AttemptsBegun
  <1> SUFFICES ASSUME Init PROVE AttemptsBegun
    OBVIOUS
  <1>1. \A c \in Claimant : ~Active(who[c])
    BY DEF Init, Active, Idle
  <1>2. \A s \in Step : StepBegun(ex, s)
    BY RowKinds DEF Init, NotStarted, StepBegun
  <1> QED BY <1>1, <1>2 DEF Init, AttemptsBegun, Begun, PassesBegun

LEMMA AttemptsStep == TypeOK /\ AttemptsBegun /\ [Next]_vars => AttemptsBegun'
  <1> SUFFICES ASSUME TypeOK, AttemptsBegun, [Next]_vars PROVE AttemptsBegun'
    OBVIOUS
  <1>1. Begun(ex') /\ PassesBegun'
    BY StepBegins, PassesBeginStep
  <1> QED BY <1>1 DEF AttemptsBegun, Begun, StepBegun

\* decide.rs dispatch_ready: while a run is paused, or once it was asked to cancel, no
\* step gets its first attempt, whatever completes, is answered, fails or times out
\* meanwhile: for every plan, container steps included, every policy and every set of
\* claimants.  The invariant adds that a row, a pass under way, a row the launcher has
\* read and a failed step are all of a step that has an attempt already, so that what
\* a retry or an answer adds is never a first one.
THEOREM PlanIsHeldBack == Spec => HeldBack
  <1>1. TypeOK /\ TypeOK' /\ AttemptsBegun /\ [Next]_vars =>
          ((ex.cancelling \/ (ex.run = "Paused" /\ ex'.run = "Paused"))
             => \A s \in Step : ex.cur[s] = 0 => ex'.cur[s] = 0)
    <2> SUFFICES ASSUME TypeOK, AttemptsBegun, [Next]_vars, TypeOK',
                        ex.cancelling \/ (ex.run = "Paused" /\ ex'.run = "Paused"),
                        NEW s \in Step, ex.cur[s] = 0
                 PROVE  ex'.cur[s] = 0
      OBVIOUS
    <2>1. NoneFirst(ex, ex')
      BY StepBegins DEF Onward
    <2>2. ex'.cur[s] \in 0..MaxAttempt
      BY DEF TypeOK, Execution
    <2> QED BY <2>1, <2>2 DEF NoneFirst
  <1> QED BY <1>1, AttemptsInit, AttemptsStep, TypeCorrect, PTL DEF Spec, HeldBack

\* decide.rs schedule_attempt: from the moment somebody answered a step it has no
\* cache key, through every later retry, failure and takeover, so what they said is
\* never replaced by what the catalog holds; for every plan and set of claimants.
THEOREM AnswersStayUncached == Spec => []AnswersAreNotCached
  <1>1. AttemptsBegun => AnswersAreNotCached
    BY DEF AttemptsBegun, Begun, StepBegun, AnswersAreNotCached
  <1> QED BY <1>1, AttemptsInit, AttemptsStep, TypeCorrect, PTL DEF Spec
=============================================================================
