-------------------------- MODULE ClaimTableProofs --------------------------
(***************************************************************************)
(* What holds of the claim table, the timer table, the steps' states and   *)
(* the run's in plans without container jobs.  First what each decision as *)
(* a whole does to every step of the plan (Moves), for all actions once;   *)
(* then the invariants, which follow one step of the plan through its      *)
(* moves; last what each decision does to the run (RunMoves).              *)
(***************************************************************************)
EXTENDS ManagedExecutionProofs, NaturalsLemmas, FiniteSetTheorems

USE PlanAssumption, PolicyAssumption DEF Attempt, Key

-----------------------------------------------------------------------------
(* What a decision does to each step *)

\* dispatch_ready gives the step its first attempt.
Dispatched(d, e, s) ==
    /\ d.st[s] = "Scheduled"
    /\ \A p \in Parents[s] : e.st[p] = "Completed"
    /\ SchedulePart(d, e, s, 1)

\* A cancel, or the failure of a step above it, skips the step.
CutOff(d, e, s) ==
    /\ ~Terminal(d.st[s])
    /\ \/ "Cancel" \in Commands
       \/ \E f \in Step : s \in Downstream(f) /\ e.st[f] \in {"Failed", "Crashed"}
    /\ SkipPart(d, e, s)

\* What a decision about one step may do to another.
Beside(d, e, s) == Same(d, e, s) \/ Dispatched(d, e, s) \/ CutOff(d, e, s)

Around(d, e, s) == \A t \in Step \ {s} : Beside(d, e, t)

\* What StepFailed writes when it retries.
FailRetryPart(d, e, s, a, class) ==
    /\ e.st[s] = "Pending" /\ e.cur[s] = a + 1 /\ e.ask[s] = NoQuestion
    /\ e.answered[s] = d.answered[s] /\ e.keyed[s] = d.keyed[s]
    /\ e.err[<<s, a>>] = KindOf(class) /\ e.err[<<s, a + 1>>] = d.err[<<s, a + 1>>]
    /\ e.rows[<<s, a>>] = NoRow /\ e.rows[<<s, a + 1>>] = ClaimableRow(RetryDelay)
    /\ e.timers[<<s, a>>] = IF PlanHasDeadline(s) THEN NoTimer ELSE d.timers[<<s, a>>]
    /\ e.timers[<<s, a + 1>>] = d.timers[<<s, a + 1>>]
    /\ \A b \in Attempt : b # a /\ b # a + 1 =>
          /\ e.err[<<s, b>>] = d.err[<<s, b>>]
          /\ e.rows[<<s, b>>] = d.rows[<<s, b>>]
          /\ e.timers[<<s, b>>] = d.timers[<<s, b>>]

\* What an answer writes of a gate.
GatePart(d, e, s, a) ==
    /\ OtherAttempts(d, e, s, a)
    /\ e.st[s] = "Completed" /\ e.cur[s] = d.cur[s] /\ e.ask[s] = NoQuestion
    /\ e.answered[s] = TRUE /\ e.keyed[s] = d.keyed[s]
    /\ e.err[<<s, a>>] = d.err[<<s, a>>] /\ e.rows[<<s, a>>] = NoRow
    /\ e.timers[<<s, a>>] = NoTimer

\* What an answer writes of a step that asked.
AnswerPart(d, e, s, a) ==
    /\ e.st[s] = "Pending" /\ e.cur[s] = a + 1 /\ e.ask[s] = NoQuestion
    /\ e.answered[s] = TRUE /\ e.keyed[s] = FALSE
    /\ e.err[<<s, a>>] = d.err[<<s, a>>] /\ e.err[<<s, a + 1>>] = d.err[<<s, a + 1>>]
    /\ e.rows[<<s, a>>] = NoRow /\ e.rows[<<s, a + 1>>] = ClaimableRow(0)
    /\ e.timers[<<s, a>>] = NoTimer /\ e.timers[<<s, a + 1>>] = d.timers[<<s, a + 1>>]
    /\ \A b \in Attempt : b # a /\ b # a + 1 =>
          /\ e.err[<<s, b>>] = d.err[<<s, b>>]
          /\ e.rows[<<s, b>>] = d.rows[<<s, b>>]
          /\ e.timers[<<s, b>>] = d.timers[<<s, b>>]

LEMMA SameThen ==
  ASSUME NEW d, NEW m, NEW e, NEW s, Same(d, m, s), Beside(m, e, s)
  PROVE  Beside(d, e, s)
  <1>1. CASE Same(m, e, s)
    BY <1>1 DEF Same, Beside
  <1>2. CASE Dispatched(m, e, s)
    <2>1. SchedulePart(d, e, s, 1)
      BY <1>2 DEF Same, Dispatched, SchedulePart, OtherAttempts, CacheKey
    <2> QED BY <1>2, <2>1 DEF Same, Beside, Dispatched
  <1>3. CASE CutOff(m, e, s)
    <2>1. SkipPart(d, e, s)
      BY <1>3 DEF Same, CutOff, SkipPart
    <2> QED BY <1>3, <2>1 DEF Same, Beside, CutOff
  <1> QED BY <1>1, <1>2, <1>3 DEF Beside

LEMMA AroundBoth ==
  ASSUME NEW d, NEW m, NEW e, NEW s \in Step, \A t \in Step \ {s} : Same(d, m, t),
         \A t \in Step : Beside(m, e, t)
  PROVE  Around(d, e, s)
  BY SameThen DEF Around

LEMMA DispatchReaches ==
  ASSUME NEW d \in Execution
  PROVE  \A t \in Step : Same(d, DispatchReady(d), t) \/ Dispatched(d, DispatchReady(d), t)
  <1>1. CASE d.run = "Paused" \/ d.cancelling
    <2>1. DispatchReady(d) = d
      BY <1>1 DEF DispatchReady
    <2> QED BY <2>1 DEF Same
  <1>2. CASE ~(d.run = "Paused" \/ d.cancelling)
    <2> DEFINE R == Ready(d)
               e == ScheduleAttempts(d, R, 1)
    <2>1. DispatchReady(d) = e
      BY <1>2 DEF DispatchReady
    <2>2. R \in SUBSET Step /\ 1 \in Attempt /\ Parents \in [Step -> SUBSET Step]
      BY DEF Ready
    <2>3. \A t \in R : d.st[t] = "Scheduled" /\ \A p \in Parents[t] : d.st[p] = "Completed"
      BY DEF Ready
    <2> HIDE DEF R
    <2>4. ScheduleAttemptsWrote(d, e, R, 1)
      BY <2>2, ScheduleAttemptsWrites
    <2> HIDE DEF e
    <2>5. ASSUME NEW t \in R PROVE Dispatched(d, e, t)
      <3>1. ASSUME NEW p \in Parents[t] PROVE e.st[p] = "Completed"
        <4>1. d.st[p] = "Completed" /\ p \in Step
          BY <2>2, <2>3
        <4>2. p \in Step \ R
          BY <2>3, <4>1
        <4> QED BY <2>4, <4>1, <4>2 DEF ScheduleAttemptsWrote, Same
      <3> QED BY <2>3, <2>4, <3>1 DEF Dispatched, ScheduleAttemptsWrote
    <2>6. \A t \in Step \ R : Same(d, e, t)
      BY <2>4 DEF ScheduleAttemptsWrote
    <2> QED BY <2>1, <2>5, <2>6
  <1> QED BY <1>1, <1>2

LEMMA ContinueReaches ==
  ASSUME NEW d \in Execution
  PROVE  \A t \in Step : Same(d, ContinueAfter(d), t) \/ Dispatched(d, ContinueAfter(d), t)
  <1>1. ContinueAfter(d) \in {[d EXCEPT !.run = "Cancelled"], d, [d EXCEPT !.run = "Completed"],
                              DispatchReady(d)}
    BY DEF ContinueAfter
  <1>2. \A t \in Step : Same(d, d, t)
    BY DEF Same
  <1> QED BY <1>1, <1>2, RunSame, DispatchReaches

LEMMA SettleReaches ==
  ASSUME NEW d \in Execution, NEW s \in Step, d.st[s] \in {"Failed", "Crashed"}
  PROVE  \A t \in Step : Same(d, SettleFailure(d, s), t) \/ (t # s /\ CutOff(d, SettleFailure(d, s), t))
  <1> DEFINE T == {c \in Downstream(s) : ~Terminal(d.st[c])}
             r == IF d.cancelling THEN "Cancelled" ELSE "Failed"
             m == SkipSteps(d, T)
             e == [m EXCEPT !.run = r]
  <1>1. T \in SUBSET Step /\ s \notin T /\ \A t \in T : ~Terminal(d.st[t]) /\ t \in Downstream(s)
    BY DEF Downstream, Terminal
  <1>2. SettleFailure(d, s) = e
    BY DEF SettleFailure, SkipDownstream
  <1> HIDE DEF T, r
  <1>3. m \in Execution /\ SkipStepsWrote(d, m, T)
    BY <1>1, SkipStepsWrites, SkipStepsType
  <1> HIDE DEF m
  <1>4. \A t \in Step : Same(m, e, t)
    BY <1>3, RunSame
  <1> HIDE DEF e
  <1>5. \A t \in Step \ T : Same(d, e, t)
    BY <1>3, <1>4 DEF SkipStepsWrote, Same
  <1>6. e.st[s] \in {"Failed", "Crashed"}
    BY <1>1, <1>5 DEF Same
  <1>7. ASSUME NEW t \in T PROVE CutOff(d, e, t)
    <2>1. SkipPart(d, m, t) /\ Same(m, e, t)
      BY <1>1, <1>3, <1>4 DEF SkipStepsWrote
    <2>2. SkipPart(d, e, t)
      BY <2>1 DEF SkipPart, Same
    <2> QED BY <1>1, <1>6, <2>2 DEF CutOff
  <1> QED BY <1>1, <1>2, <1>5, <1>7

\* StepCompleted, and a question that lapses into a skip.
LEMMA CompletionReaches ==
  ASSUME NEW d \in Execution, NEW s \in Step, NEW a \in Attempt
  PROVE  /\ CompletePart(d, ContinueAfter(Complete(d, s, a)), s, a)
         /\ Around(d, ContinueAfter(Complete(d, s, a)), s)
  <1> DEFINE m == Complete(d, s, a)
             e == ContinueAfter(m)
  <1>1. m \in Execution /\ CompleteWrote(d, m, s, a)
    BY CompleteType, CompleteWrites
  <1> HIDE DEF m
  <1>2. \A t \in Step : Same(m, e, t) \/ Dispatched(m, e, t)
    BY <1>1, ContinueReaches
  <1> HIDE DEF e
  <1>3. CompletePart(d, m, s, a) /\ m.st[s] = "Completed"
    BY <1>1 DEF CompleteWrote, CompletePart
  <1>4. Same(m, e, s)
    BY <1>2, <1>3 DEF Dispatched
  <1>5. CompletePart(d, e, s, a)
    BY <1>3, <1>4 DEF CompletePart, Same, OtherAttempts
  <1>6. Around(d, e, s)
    BY <1>1, <1>2, AroundBoth DEF CompleteWrote, Beside
  <1> QED BY <1>5, <1>6 DEF e, m

\* StepCacheHit.
LEMMA HitReaches ==
  ASSUME NEW d \in Execution, NEW s \in Step, NEW a \in Attempt
  PROVE  /\ FoundPart(d, ContinueAfter(Found(d, s, a)), s, a)
         /\ Around(d, ContinueAfter(Found(d, s, a)), s)
  <1> DEFINE m == Found(d, s, a)
             e == ContinueAfter(m)
  <1>1. FoundWrote(d, m, s, a)
    BY FoundWrites
  <1> HIDE DEF m
  <1>2. m \in Execution
    BY <1>1 DEF FoundWrote
  <1>3. \A t \in Step : Same(m, e, t) \/ Dispatched(m, e, t)
    BY <1>2, ContinueReaches
  <1> HIDE DEF e
  <1>4. FoundPart(d, m, s, a) /\ m.st[s] = "Completed"
    BY <1>1 DEF FoundWrote, FoundPart
  <1>5. Same(m, e, s)
    BY <1>3, <1>4 DEF Dispatched
  <1>6. FoundPart(d, e, s, a)
    BY <1>4, <1>5 DEF FoundPart, Same, OtherAttempts
  <1>7. Around(d, e, s)
    BY <1>1, <1>3, AroundBoth DEF FoundWrote, Beside
  <1> QED BY <1>6, <1>7 DEF e, m

\* StepFailed without a retry, and a question that lapses into a failure.
LEMMA FailureReaches ==
  ASSUME NEW d \in Execution, NEW s \in Step, NEW a \in Attempt, NEW class \in Class
  PROVE  /\ FailPart(d, SettleFailure(Fail(d, s, a, class), s), s, a, class)
         /\ Around(d, SettleFailure(Fail(d, s, a, class), s), s)
  <1> DEFINE m == Fail(d, s, a, class)
             e == SettleFailure(m, s)
  <1>1. m \in Execution /\ FailWrote(d, m, s, a, class)
    BY FailType, FailWrites
  <1> HIDE DEF m
  <1>2. FailPart(d, m, s, a, class) /\ m.st[s] \in {"Failed", "Crashed"}
    BY <1>1 DEF FailWrote, FailPart, AttemptState
  <1>3. \A t \in Step : Same(m, e, t) \/ (t # s /\ CutOff(m, e, t))
    BY <1>1, <1>2, SettleReaches
  <1> HIDE DEF e
  <1>4. Same(m, e, s)
    BY <1>3
  <1>5. FailPart(d, e, s, a, class)
    BY <1>2, <1>4 DEF FailPart, Same, OtherAttempts
  <1>6. Around(d, e, s)
    BY <1>1, <1>3, AroundBoth DEF FailWrote, Beside
  <1> QED BY <1>5, <1>6 DEF e, m

\* StepFailed with a retry.
LEMMA RetryReaches ==
  ASSUME NEW d \in Execution, NEW s \in Step, NEW a \in Attempt, NEW class \in Class,
         a + 1 \in Attempt
  PROVE  /\ FailRetryPart(d, ScheduleRetry(Fail(d, s, a, class), s, a + 1), s, a, class)
         /\ Around(d, ScheduleRetry(Fail(d, s, a, class), s, a + 1), s)
  <1> DEFINE m == Fail(d, s, a, class)
             e == ScheduleRetry(m, s, a + 1)
  <1>1. m \in Execution /\ FailWrote(d, m, s, a, class)
    BY FailType, FailWrites
  <1> HIDE DEF m
  <1>2. ScheduleRetryWrote(m, e, s, a + 1)
    BY <1>1, ScheduleRetryWrites
  <1> HIDE DEF e
  <1>3. FailPart(d, m, s, a, class) /\ RetryPart(m, e, s, a + 1)
    BY <1>1, <1>2 DEF FailWrote, ScheduleRetryWrote
  <1>4. a # a + 1
    OBVIOUS
  <1>5. FailRetryPart(d, e, s, a, class)
    BY <1>3, <1>4 DEF FailPart, RetryPart, FailRetryPart, OtherAttempts
  <1>6. Around(d, e, s)
    BY <1>1, <1>2 DEF FailWrote, ScheduleRetryWrote, Around, Beside, Same
  <1> QED BY <1>5, <1>6 DEF e, m

\* InputProvided, by a person or by the clock.
LEMMA AnswerReaches ==
  ASSUME NEW d \in Execution, NEW s \in Step, NEW a \in Attempt, s \notin Human => a + 1 \in Attempt
  PROVE  /\ s \in Human => GatePart(d, AnswerLands(d, s, a), s, a)
         /\ s \notin Human => AnswerPart(d, AnswerLands(d, s, a), s, a)
         /\ Around(d, AnswerLands(d, s, a), s)
  <1> DEFINE m == CloseQuestion(d, s, a)
  <1>1. m \in Execution /\ CloseQuestionWrote(d, m, s, a)
    BY CloseQuestionType, CloseQuestionWrites
  <1> HIDE DEF m
  <1>2. ClosePart(d, m, s, a) /\ \A t \in Step \ {s} : Same(d, m, t)
    BY <1>1 DEF CloseQuestionWrote
  <1>3. CASE s \in Human
    <2> DEFINE e == ContinueAfter(Complete(m, s, a))
    <2>1. AnswerLands(d, s, a) = e
      BY <1>3 DEF AnswerLands, m
    <2>2. CompletePart(m, e, s, a) /\ Around(m, e, s)
      BY <1>1, CompletionReaches
    <2> HIDE DEF e
    <2>3. e.timers[<<s, a>>] = NoTimer
      BY <1>2, <2>2 DEF CompletePart, ClosePart
    <2>4. GatePart(d, e, s, a)
      BY <1>2, <2>2, <2>3 DEF CompletePart, ClosePart, GatePart, OtherAttempts
    <2>5. Around(d, e, s)
      BY <1>2, <2>2, SameThen DEF Around
    <2> QED BY <1>3, <2>1, <2>4, <2>5
  <1>4. CASE s \notin Human
    <2> DEFINE n == a + 1
               S == {s}
               e == ScheduleAttempts(m, S, n)
    <2>1. AnswerLands(d, s, a) = e
      BY <1>4 DEF AnswerLands, m
    <2>2. n \in Attempt /\ S \in SUBSET Step
      BY <1>4
    <2>3. ScheduleAttemptsWrote(m, e, S, n)
      BY <1>1, <2>2, ScheduleAttemptsWrites
    <2> HIDE DEF e
    <2>4. SchedulePart(m, e, s, n) /\ \A t \in Step \ {s} : Same(m, e, t)
      BY <2>3 DEF ScheduleAttemptsWrote
    <2>5. n # a
      OBVIOUS
    <2>6. e.answered[s] = TRUE /\ e.keyed[s] = FALSE
      BY <1>2, <2>4 DEF SchedulePart, ClosePart, CacheKey
    <2>7. AnswerPart(d, e, s, a)
      BY <1>2, <1>4, <2>4, <2>5, <2>6 DEF SchedulePart, ClosePart, AnswerPart, OtherAttempts
    <2>8. Around(d, e, s)
      BY <1>2, <2>4 DEF Around, Beside, Same
    <2> QED BY <1>4, <2>1, <2>7, <2>8
  <1> QED BY <1>3, <1>4

-----------------------------------------------------------------------------
(* What a step of the system does to each step of the plan *)

\* No two claimants take the same cacheable step.
Solo == \A s \in Cacheable, c, g \in Reactor \cup Worker :
            s \in Takes[c] /\ s \in Takes[g] => c = g

\* No execution authority says a final no.
NeverRefused == \A class \in Refusals : Retryable(class)

\* What the inbox has heard of an attempt from those who hold it.
Heard == {"started", "cache-hit", "outcome"}

Told(sn, s, a, w) == <<<<s, a>>, w>> \in sn

Kept(sn, tn, s) ==
    \A a \in Attempt, w \in Heard : Told(tn, s, a, w) <=> Told(sn, s, a, w)

Adds(sn, tn, s, a, w) ==
    /\ ~Told(sn, s, a, w) /\ Told(tn, s, a, w)
    /\ \A b \in Attempt, v \in Heard :
          b # a \/ v # w => (Told(tn, s, b, v) <=> Told(sn, s, b, v))

\* What is known of an attempt that a pass reports on.
Reported(d, sn, s, a) ==
    /\ s \notin Human /\ a <= d.cur[s]
    /\ Solo /\ s \in Cacheable =>
          ~Told(sn, s, a, "cache-hit") /\ ~Told(sn, s, a, "outcome")

StartTold(d, e, sn, tn, s, a) ==
    /\ d.cur[s] = a /\ Adds(sn, tn, s, a, "started") /\ StartPart(d, e, s, a)

DoneTold(d, e, sn, tn, s, a) ==
    /\ d.cur[s] = a /\ d.st[s] # "Completed" /\ Told(sn, s, a, "started")
    /\ Adds(sn, tn, s, a, "outcome") /\ CompletePart(d, e, s, a)

AskTold(d, e, sn, tn, s, a) ==
    /\ d.cur[s] = a /\ ~Terminal(d.st[s]) /\ Told(sn, s, a, "started")
    /\ "Ask" \in Outcomes[s] /\ Adds(sn, tn, s, a, "outcome") /\ AskPart(d, e, s, a)

FailTold(d, e, sn, tn, s, a) ==
    /\ AcceptsFailure(d, s, a) /\ (NeverRefused => Told(sn, s, a, "started"))
    /\ Adds(sn, tn, s, a, "outcome")
    /\ \E class \in Class : ~MayRetry(d, s, class) /\ FailPart(d, e, s, a, class)

RetryTold(d, e, sn, tn, s, a) ==
    /\ AcceptsFailure(d, s, a) /\ (NeverRefused => Told(sn, s, a, "started"))
    /\ Adds(sn, tn, s, a, "outcome") /\ a + 1 \in Attempt
    /\ \E class \in Class : MayRetry(d, s, class) /\ FailRetryPart(d, e, s, a, class)

HitTold(d, e, sn, tn, s, a) ==
    /\ d.cur[s] = a /\ d.st[s] # "Completed" /\ d.keyed[s]
    /\ Adds(sn, tn, s, a, "cache-hit") /\ FoundPart(d, e, s, a)

\* A second success: the inbox takes it and the decider changes nothing.
TwiceTold(d, e, sn, tn, s, a) ==
    /\ d.st[s] = "Completed" /\ Same(d, e, s)
    /\ \/ Adds(sn, tn, s, a, "outcome") /\ Told(sn, s, a, "started")
       \/ Adds(sn, tn, s, a, "cache-hit") /\ d.keyed[s]

Lapsed(d, e, s, a) ==
    /\ d.timers[<<s, a>>] = 0
    /\ \/ OnTimeout[s] = "Skip" /\ CompletePart(d, e, s, a)
       \/ OnTimeout[s] = "Fail" /\ FailPart(d, e, s, a, "Policy")

GateAnswered(d, e, s, a) == s \in Human /\ GatePart(d, e, s, a)

TaskAnswered(d, e, s, a) ==
    /\ s \notin Human /\ a + 1 \in Attempt /\ AnswerPart(d, e, s, a)

TriedAgain(d, e, s) ==
    /\ "Retry" \in Commands /\ d.cur[s] + 1 \in Attempt
    /\ d.st[s] \in {"Failed", "Crashed"}
    /\ SchedulePart(d, e, s, d.cur[s] + 1)

\* A claim, a renewal, or a timer nobody waits for.
Touched(d, e, s) ==
    /\ e.st[s] = d.st[s] /\ e.cur[s] = d.cur[s] /\ e.ask[s] = d.ask[s]
    /\ e.answered[s] = d.answered[s] /\ e.keyed[s] = d.keyed[s]
    /\ \A a \in Attempt :
         /\ e.err[<<s, a>>] = d.err[<<s, a>>]
         /\ \/ e.rows[<<s, a>>].state = d.rows[<<s, a>>].state
            \/ /\ d.rows[<<s, a>>].state \in {"pending", "running"}
               /\ e.rows[<<s, a>>].state = "running"
         /\ \/ e.timers[<<s, a>>] = d.timers[<<s, a>>]
            \/ ~IsWaiting(d, s, a) /\ e.timers[<<s, a>>] = NoTimer

GrownOlder(d, e, s) ==
    /\ e.st[s] = d.st[s] /\ e.cur[s] = d.cur[s]
    /\ e.answered[s] = d.answered[s] /\ e.keyed[s] = d.keyed[s]
    /\ e.ask[s] = IF d.ask[s] >= 0 THEN d.ask[s] - 1 ELSE d.ask[s]
    /\ \A a \in Attempt :
         /\ e.err[<<s, a>>] = d.err[<<s, a>>]
         /\ e.rows[<<s, a>>].state = d.rows[<<s, a>>].state
         /\ e.timers[<<s, a>>] = IF d.timers[<<s, a>>] > 0 THEN d.timers[<<s, a>>] - 1
                                 ELSE d.timers[<<s, a>>]

MovesQuietly(d, e, s) ==
    \/ Same(d, e, s) \/ Dispatched(d, e, s) \/ CutOff(d, e, s)
    \/ TriedAgain(d, e, s) \/ Touched(d, e, s) \/ GrownOlder(d, e, s)

MovesWaiting(d, e, s, a) ==
    /\ IsWaiting(d, s, a)
    /\ Lapsed(d, e, s, a) \/ GateAnswered(d, e, s, a) \/ TaskAnswered(d, e, s, a)

MovesTold(d, e, sn, tn, s, a) ==
    /\ Reported(d, sn, s, a)
    /\ \/ StartTold(d, e, sn, tn, s, a) \/ DoneTold(d, e, sn, tn, s, a)
       \/ AskTold(d, e, sn, tn, s, a) \/ FailTold(d, e, sn, tn, s, a)
       \/ RetryTold(d, e, sn, tn, s, a) \/ HitTold(d, e, sn, tn, s, a)
       \/ TwiceTold(d, e, sn, tn, s, a)

Moves(d, e, sn, tn, s) ==
    \/ Kept(sn, tn, s) /\ MovesQuietly(d, e, s)
    \/ Kept(sn, tn, s) /\ \E a \in Attempt : MovesWaiting(d, e, s, a)
    \/ \E a \in Attempt : MovesTold(d, e, sn, tn, s, a)

\* What a pass knows of the attempt it is about.
PassKnows(d, sn, c, p) ==
    Active(p) =>
      /\ c \in Reactor \cup Worker /\ p.key[1] \in Takes[c]
      /\ p.key[2] <= d.cur[p.key[1]]
      /\ p.at \in {"done", "settling"} /\ p.out = "Ask" => "Ask" \in Outcomes[p.key[1]]
      /\ p.at # "claimed" /\ (p.at = "settling" /\ p.out \in Class => NeverRefused) =>
            \/ Told(sn, p.key[1], p.key[2], "started")
            \/ Told(sn, p.key[1], p.key[2], "outcome")
      /\ Solo /\ p.key[1] \in Cacheable =>
            /\ ~Told(sn, p.key[1], p.key[2], "outcome")
            /\ ~Told(sn, p.key[1], p.key[2], "cache-hit")

PassesKnow == launcher = {} /\ \A c \in Claimant : PassKnows(ex, seen, c, who[c])

-----------------------------------------------------------------------------
(* Every action moves every step *)

StepsMove == \A s \in Step : Moves(ex, ex', seen, seen', s)

LEMMA KeptByAll ==
  ASSUME NEW sn, NEW tn, NEW k \in Key, tn = sn \/ tn = sn \cup {<<k, "deadline">>}
  PROVE  \A s \in Step : Kept(sn, tn, s)
  BY DEF Kept, Told, Heard

LEMMA AddsOne ==
  ASSUME NEW sn, NEW s \in Step, NEW a \in Attempt, NEW w \in Heard, ~Told(sn, s, a, w)
  PROVE  /\ Adds(sn, sn \cup {<<<<s, a>>, w>>}, s, a, w)
         /\ \A t \in Step \ {s} : Kept(sn, sn \cup {<<<<s, a>>, w>>}, t)
  BY DEF Kept, Adds, Told, Heard

\* A decision about one step moves the others beside it.
LEMMA AroundMoves ==
  ASSUME NEW d, NEW e, NEW sn, NEW tn, NEW s \in Step, Around(d, e, s),
         \A t \in Step \ {s} : Kept(sn, tn, t), Moves(d, e, sn, tn, s)
  PROVE  \A t \in Step : Moves(d, e, sn, tn, t)
  BY DEF Around, Beside, Moves, MovesQuietly

LEMMA BesideMoves ==
  ASSUME NEW d, NEW e, NEW sn, \A t \in Step : Beside(d, e, t)
  PROVE  \A t \in Step : Moves(d, e, sn, sn, t)
  BY DEF Beside, Moves, MovesQuietly, Kept

LEMMA CommandMoves ==
  ASSUME TypeOK, Commanded
  PROVE  StepsMove
  <1>0. ex \in Execution /\ seen' = seen /\ \A s \in Step : Kept(seen, seen, s)
    BY DEF TypeOK, Kept, Commanded, Start, Pause, Resume, Cancel, Retry, Answer
  <1>1. CASE Start \/ Resume
    <2> DEFINE m == [ex EXCEPT !.run = "Running"]
    <2>1. ex' = DispatchReady(m)
      BY <1>1 DEF Start, Resume, StartExecution, ResumeExecution
    <2>2. m \in Execution /\ \A t \in Step : Same(ex, m, t)
      BY <1>0, RunSame, RunType DEF RunState
    <2> HIDE DEF m
    <2>3. \A t \in Step : Beside(m, ex', t)
      BY <2>1, <2>2, DispatchReaches DEF Beside
    <2>4. \A t \in Step : Beside(ex, ex', t)
      BY <2>2, <2>3, SameThen
    <2> QED BY <1>0, <2>4, BesideMoves DEF StepsMove
  <1>2. CASE Pause
    <2>1. \A t \in Step : Beside(ex, ex', t)
      BY <1>0, <1>2, RunSame DEF Pause, PauseExecution, Beside
    <2> QED BY <1>0, <2>1, BesideMoves DEF StepsMove
  <1>3. CASE Cancel
    <2> DEFINE S == {s \in Step : ex.st[s] \in {"Scheduled", "Pending"}}
               m == SkipSteps(ex, S)
    <2>1. \E r \in RunState : ex' = [m EXCEPT !.cancelling = TRUE, !.run = r]
      BY <1>3 DEF Cancel, CancelExecution, RunState
    <2>2. S \in SUBSET Step /\ \A t \in S : ~Terminal(ex.st[t])
      BY DEF Terminal
    <2>3. m \in Execution /\ SkipStepsWrote(ex, m, S)
      BY <1>0, <2>2, SkipStepsWrites, SkipStepsType
    <2> HIDE DEF m, S
    <2>4. \A t \in Step : Same(m, ex', t)
      BY <2>1, <2>3 DEF Same, Execution
    <2>5. \A t \in Step \ S : Same(ex, ex', t)
      BY <2>3, <2>4 DEF SkipStepsWrote, Same
    <2>6. ASSUME NEW t \in S PROVE CutOff(ex, ex', t)
      <3>1. SkipPart(ex, m, t) /\ Same(m, ex', t)
        BY <2>2, <2>3, <2>4 DEF SkipStepsWrote
      <3>2. SkipPart(ex, ex', t)
        BY <3>1 DEF SkipPart, Same
      <3> QED BY <1>3, <2>2, <3>2 DEF CutOff, Cancel
    <2>7. \A t \in Step : Beside(ex, ex', t)
      BY <2>5, <2>6 DEF Beside
    <2> QED BY <1>0, <2>7, BesideMoves DEF StepsMove
  <1>4. ASSUME NEW s \in Step, Retry(s) PROVE StepsMove
    <2> DEFINE n == ex.cur[s] + 1
               S == {s}
    <2>1. /\ ex' = ScheduleAttempts(ex, S, n) /\ n \in Attempt /\ S \in SUBSET Step
          /\ "Retry" \in Commands /\ ex.st[s] \in {"Failed", "Crashed"}
      <3>1. ex.cur[s] \in 0..MaxAttempt
        BY <1>0 DEF Execution
      <3> QED BY <1>4, <3>1 DEF Retry, RetryStep, MayRetryStep
    <2>2. ScheduleAttemptsWrote(ex, ex', S, n)
      BY <1>0, <2>1, ScheduleAttemptsWrites
    <2>3. TriedAgain(ex, ex', s)
      BY <2>1, <2>2 DEF ScheduleAttemptsWrote, TriedAgain
    <2>4. Around(ex, ex', s)
      BY <2>2 DEF ScheduleAttemptsWrote, Around, Beside
    <2> QED BY <1>0, <2>3, <2>4, AroundMoves DEF StepsMove, Moves, MovesQuietly
  <1>5. ASSUME NEW k \in Key, Answer(k) PROVE StepsMove
    <2> DEFINE s == k[1]
               a == k[2]
    <2>1. /\ s \in Step /\ a \in Attempt /\ (s \notin Human => a + 1 \in Attempt)
          /\ ex' = AnswerLands(ex, s, a) /\ IsWaiting(ex, s, a)
      BY <1>5 DEF Answer, ProvideInput, MayProvideInput
    <2> HIDE DEF s, a
    <2>2. /\ s \in Human => GatePart(ex, ex', s, a)
          /\ s \notin Human => AnswerPart(ex, ex', s, a)
          /\ Around(ex, ex', s)
      BY <1>0, <2>1, AnswerReaches
    <2>3. MovesWaiting(ex, ex', s, a)
      BY <2>1, <2>2 DEF MovesWaiting, GateAnswered, TaskAnswered
    <2> QED BY <1>0, <2>1, <2>2, <2>3, AroundMoves DEF StepsMove, Moves
  <1> QED BY <1>1, <1>2, <1>3, <1>4, <1>5 DEF Commanded

LEMMA DeadlineMoves ==
  ASSUME TypeOK, NEW k \in Key, FireDeadline(k)
  PROVE  StepsMove
  <1> DEFINE s == k[1]
             a == k[2]
  <1>0. /\ ex \in Execution /\ s \in Step /\ a \in Attempt /\ k = <<s, a>>
        /\ (OnTimeout[s] = "Answer" /\ s \notin Human) => a + 1 \in Attempt
        /\ ex.timers[<<s, a>>] = 0
    <2>1. s \in Step /\ a \in Attempt /\ k = <<s, a>> /\ ex \in Execution
      BY DEF TypeOK
    <2>2. ex.timers[k] = 0 /\ ((OnTimeout[s] = "Answer" /\ s \notin Human) => a < MaxAttempt)
      BY DEF FireDeadline
    <2>3. a < MaxAttempt => a + 1 \in Attempt
      BY <2>1
    <2> HIDE DEF s, a
    <2> QED BY <2>1, <2>2, <2>3
  <1>1. CASE ~IsWaiting(ex, s, a) /\ ex' = [ex EXCEPT !.timers[k] = NoTimer] /\ seen' = seen
    <2>1. TimerWrote(ex, ex', k)
      BY <1>0, <1>1, TimerWrites
    <2>2. \A t \in Step : Touched(ex, ex', t)
      <3> SUFFICES ASSUME NEW t \in Step PROVE Touched(ex, ex', t)
        OBVIOUS
      <3>1. \A b \in Attempt : \/ <<t, b>> = k /\ ex'.timers[<<t, b>>] = NoTimer
                               \/ ex'.timers[<<t, b>>] = ex.timers[<<t, b>>]
        BY <2>1 DEF TimerWrote
      <3>2. \A b \in Attempt : <<t, b>> = k => t = s /\ b = a
        BY <1>0
      <3> QED BY <1>1, <2>1, <3>1, <3>2 DEF TimerWrote, SameButRows, Touched
    <2> QED BY <1>1, <2>2 DEF StepsMove, Moves, MovesQuietly, Kept
  <1>2. CASE UNCHANGED <<ex, seen>>
    BY <1>2, BesideMoves DEF StepsMove, Beside, Same
  <1>3. CASE /\ IsWaiting(ex, s, a) /\ ex' = TimeoutInput(ex, s, a)
             /\ seen' = seen \cup {<<k, "deadline">>}
    <2> HIDE DEF s, a
    <2>1. \A t \in Step : Kept(seen, seen', t)
      BY <1>3, KeptByAll
    <2>2. Around(ex, ex', s) /\ MovesWaiting(ex, ex', s, a)
      <3>1. CASE OnTimeout[s] = "Fail"
        <4>1. ex' = SettleFailure(Fail(ex, s, a, "Policy"), s) /\ "Policy" \in Class
          BY <1>3, <3>1 DEF TimeoutInput, Class
        <4>2. FailPart(ex, ex', s, a, "Policy") /\ Around(ex, ex', s)
          BY <1>0, <4>1, FailureReaches
        <4> QED BY <1>0, <1>3, <3>1, <4>2 DEF MovesWaiting, Lapsed
      <3>2. CASE OnTimeout[s] = "Skip"
        <4>1. ex' = ContinueAfter(Complete(ex, s, a))
          BY <1>3, <3>2 DEF TimeoutInput
        <4>2. CompletePart(ex, ex', s, a) /\ Around(ex, ex', s)
          BY <1>0, <4>1, CompletionReaches
        <4> QED BY <1>0, <1>3, <3>2, <4>2 DEF MovesWaiting, Lapsed
      <3>3. CASE OnTimeout[s] = "Answer"
        <4>1. ex' = AnswerLands(ex, s, a)
          BY <1>3, <3>3 DEF TimeoutInput
        <4>2. /\ s \in Human => GatePart(ex, ex', s, a)
              /\ s \notin Human => AnswerPart(ex, ex', s, a)
              /\ Around(ex, ex', s)
          BY <1>0, <3>3, <4>1, AnswerReaches
        <4> QED BY <1>0, <1>3, <3>3, <4>2 DEF MovesWaiting, GateAnswered, TaskAnswered
      <3> QED BY <1>0, <3>1, <3>2, <3>3
    <2> QED BY <1>0, <2>1, <2>2, AroundMoves DEF StepsMove, Moves
  <1> QED BY <1>1, <1>2, <1>3 DEF FireDeadline, Deliver

\* What a pass under way says of the attempt it is about.
LEMMA PassAttempt ==
  ASSUME TypeOK, PassesKnow, NEW c \in Claimant, Active(who[c])
  PROVE  /\ who[c].key[1] \in Step /\ who[c].key[2] \in Attempt
         /\ who[c].key = <<who[c].key[1], who[c].key[2]>> /\ who[c].key \in Key
         /\ Reported(ex, seen, who[c].key[1], who[c].key[2])
         /\ who[c].at # "claimed" /\ (who[c].at = "settling" /\ who[c].out \in Class => NeverRefused)
              => \/ Told(seen, who[c].key[1], who[c].key[2], "started")
                 \/ Told(seen, who[c].key[1], who[c].key[2], "outcome")
         /\ who[c].at = "settling" /\ who[c].out = "Ask" => "Ask" \in Outcomes[who[c].key[1]]
  <1>1. who[c].key \in Key
    BY DEF TypeOK, Active
  <1>2. PassKnows(ex, seen, c, who[c])
    BY DEF PassesKnow
  <1>3. \A g \in Reactor \cup Worker : Takes[g] \cap Human = {}
    BY ClaimantAssumption
  <1> HIDE DEF Key
  <1>4. /\ who[c].key[1] \in Step /\ who[c].key[2] \in Attempt
        /\ who[c].key = <<who[c].key[1], who[c].key[2]>>
    BY <1>1 DEF Key
  <1> QED BY <1>1, <1>2, <1>3, <1>4 DEF PassKnows, Reported

\* A report, decided on or not.
LEMMA DeliveredMoves ==
  ASSUME NEW s \in Step, NEW a \in Attempt, NEW w \in Heard, NEW accepted \in BOOLEAN, NEW next,
         Deliver(<<s, a>>, w, accepted, next),
         ~Told(seen, s, a, w) /\ accepted =>
            /\ Around(ex, next, s)
            /\ Adds(seen, seen \cup {<<<<s, a>>, w>>}, s, a, w) =>
                  MovesTold(ex, next, seen, seen \cup {<<<<s, a>>, w>>}, s, a)
  PROVE  StepsMove
  <1>1. CASE UNCHANGED <<ex, seen>>
    BY <1>1, BesideMoves DEF StepsMove, Beside, Same
  <1>2. CASE ~Told(seen, s, a, w) /\ accepted
    <2>1. ex' = next /\ seen' = seen \cup {<<<<s, a>>, w>>}
      BY <1>2 DEF Deliver, Told
    <2>2. /\ Adds(seen, seen', s, a, w)
          /\ \A t \in Step \ {s} : Kept(seen, seen', t)
      BY <1>2, <2>1, AddsOne
    <2>3. Around(ex, ex', s) /\ MovesTold(ex, ex', seen, seen', s, a)
      BY <1>2, <2>1, <2>2
    <2> QED BY <2>2, <2>3, AroundMoves DEF StepsMove, Moves
  <1> QED BY <1>1, <1>2 DEF Deliver, Told

LEMMA StartMoves ==
  ASSUME TypeOK, PassesKnow, NEW c \in Claimant, TakeStarted(c)
  PROVE  StepsMove
  <1> DEFINE s == who[c].key[1]
             a == who[c].key[2]
             e == StepStarted(ex, s, a)
             accepted == AcceptsStarted(ex, s, a)
  <1>0. Active(who[c]) /\ ex \in Execution
    BY DEF TakeStarted, Active, TypeOK
  <1>1. /\ s \in Step /\ a \in Attempt /\ who[c].key = <<s, a>> /\ Reported(ex, seen, s, a)
    BY <1>0, PassAttempt
  <1>2. Deliver(<<s, a>>, "started", accepted, e) /\ accepted \in BOOLEAN /\ "started" \in Heard
    BY <1>1 DEF TakeStarted, AcceptsStarted, Heard
  <1>3. accepted => ex.cur[s] = a
    BY DEF AcceptsStarted
  <1> HIDE DEF s, a, accepted
  <1>4. StepStartedWrote(ex, e, s, a)
    BY <1>0, <1>1, StepStartedWrites
  <1> HIDE DEF e
  <1>5. Around(ex, e, s) /\ StartPart(ex, e, s, a)
    BY <1>4 DEF StepStartedWrote, Around, Beside
  <1>9. ASSUME ~Told(seen, s, a, "started"), accepted,
               Adds(seen, seen \cup {<<<<s, a>>, "started">>}, s, a, "started")
        PROVE  MovesTold(ex, e, seen, seen \cup {<<<<s, a>>, "started">>}, s, a)
    BY <1>1, <1>2, <1>3, <1>5, <1>9 DEF MovesTold, StartTold
  <1>10. ~Told(seen, s, a, "started") /\ accepted =>
            /\ Around(ex, e, s)
            /\ Adds(seen, seen \cup {<<<<s, a>>, "started">>}, s, a, "started") =>
                  MovesTold(ex, e, seen, seen \cup {<<<<s, a>>, "started">>}, s, a)
    BY <1>5, <1>9
  <1> QED BY <1>1, <1>2, <1>10, DeliveredMoves

LEMMA HitMoves ==
  ASSUME TypeOK, PassesKnow, NEW c \in Claimant, TakeCacheHit(c)
  PROVE  StepsMove
  <1> DEFINE s == who[c].key[1]
             a == who[c].key[2]
             e == StepCacheHit(ex, s, a)
             accepted == AcceptsCompletion(ex, s, a)
  <1>0. Active(who[c]) /\ ex \in Execution
    BY DEF TakeCacheHit, Active, TypeOK
  <1>1. /\ s \in Step /\ a \in Attempt /\ who[c].key = <<s, a>> /\ Reported(ex, seen, s, a)
    BY <1>0, PassAttempt
  <1>2. /\ Deliver(<<s, a>>, "cache-hit", accepted, e) /\ accepted \in BOOLEAN
        /\ "cache-hit" \in Heard /\ ex.keyed[s]
    BY <1>1 DEF TakeCacheHit, AcceptsCompletion, Heard
  <1>3. accepted => ex.st[s] = "Completed" \/ ex.cur[s] = a
    BY DEF AcceptsCompletion
  <1>4. e = IF ex.st[s] = "Completed" THEN ex ELSE ContinueAfter(Found(ex, s, a))
    BY DEF StepCacheHit, Found
  <1> HIDE DEF s, a, accepted, e
  <1>5. CASE ex.st[s] = "Completed"
    <2>1. Around(ex, e, s) /\ Same(ex, e, s)
      BY <1>4, <1>5 DEF Around, Beside, Same
    <2>9. ASSUME ~Told(seen, s, a, "cache-hit"), accepted,
                 Adds(seen, seen \cup {<<<<s, a>>, "cache-hit">>}, s, a, "cache-hit")
          PROVE  MovesTold(ex, e, seen, seen \cup {<<<<s, a>>, "cache-hit">>}, s, a)
      BY <1>1, <1>2, <1>5, <2>1, <2>9 DEF MovesTold, TwiceTold
    <2>10. ~Told(seen, s, a, "cache-hit") /\ accepted =>
              /\ Around(ex, e, s)
              /\ Adds(seen, seen \cup {<<<<s, a>>, "cache-hit">>}, s, a, "cache-hit") =>
                    MovesTold(ex, e, seen, seen \cup {<<<<s, a>>, "cache-hit">>}, s, a)
      BY <2>1, <2>9
    <2> QED BY <1>1, <1>2, <2>10, DeliveredMoves
  <1>6. CASE ex.st[s] # "Completed"
    <2>1. FoundPart(ex, e, s, a) /\ Around(ex, e, s)
      BY <1>0, <1>1, <1>4, <1>6, HitReaches
    <2>9. ASSUME ~Told(seen, s, a, "cache-hit"), accepted,
                 Adds(seen, seen \cup {<<<<s, a>>, "cache-hit">>}, s, a, "cache-hit")
          PROVE  MovesTold(ex, e, seen, seen \cup {<<<<s, a>>, "cache-hit">>}, s, a)
      BY <1>1, <1>2, <1>3, <1>6, <2>1, <2>9 DEF MovesTold, HitTold
    <2>10. ~Told(seen, s, a, "cache-hit") /\ accepted =>
              /\ Around(ex, e, s)
              /\ Adds(seen, seen \cup {<<<<s, a>>, "cache-hit">>}, s, a, "cache-hit") =>
                    MovesTold(ex, e, seen, seen \cup {<<<<s, a>>, "cache-hit">>}, s, a)
      BY <2>1, <2>9
    <2> QED BY <1>1, <1>2, <2>10, DeliveredMoves
  <1> QED BY <1>5, <1>6

LEMMA ReportMoves ==
  ASSUME TypeOK, PassesKnow, NEW c \in Claimant, Report(c)
  PROVE  StepsMove
  <1> DEFINE s == who[c].key[1]
             a == who[c].key[2]
             out == who[c].out
  <1>0. Active(who[c]) /\ ex \in Execution /\ who[c].at = "settling" /\ out \in Outcome
    BY DEF Report, Active, TypeOK
  <1>1. /\ s \in Step /\ a \in Attempt /\ who[c].key = <<s, a>> /\ Reported(ex, seen, s, a)
        /\ (out \in Class => NeverRefused) =>
              Told(seen, s, a, "started") \/ Told(seen, s, a, "outcome")
        /\ out = "Ask" => "Ask" \in Outcomes[s]
    BY <1>0, PassAttempt
  <1>2. "outcome" \in Heard /\ s \in Step /\ a \in Attempt
    BY <1>1 DEF Heard
  <1>3. CASE out = "Completed"
    <2> DEFINE e == StepCompleted(ex, s, a)
               accepted == AcceptsCompletion(ex, s, a)
    <2>1. Deliver(<<s, a>>, "outcome", accepted, e) /\ accepted \in BOOLEAN
      BY <1>1, <1>3 DEF Report, AcceptsCompletion
    <2>2. accepted => ex.st[s] = "Completed" \/ ex.cur[s] = a
      BY DEF AcceptsCompletion
    <2>3. e = IF ex.st[s] = "Completed" THEN ex ELSE ContinueAfter(Complete(ex, s, a))
      BY DEF StepCompleted
    <2>4. Told(seen, s, a, "started") \/ Told(seen, s, a, "outcome")
      BY <1>1, <1>3 DEF Class
    <2> HIDE DEF s, a, out, accepted, e
    <2>5. CASE ex.st[s] = "Completed"
      <3>1. Around(ex, e, s) /\ Same(ex, e, s)
        BY <2>3, <2>5 DEF Around, Beside, Same
      <3>9. ASSUME ~Told(seen, s, a, "outcome"), accepted,
                   Adds(seen, seen \cup {<<<<s, a>>, "outcome">>}, s, a, "outcome")
            PROVE  MovesTold(ex, e, seen, seen \cup {<<<<s, a>>, "outcome">>}, s, a)
        BY <1>1, <1>2, <2>1, <2>4, <2>5, <3>1, <3>9 DEF MovesTold, TwiceTold
      <3>10. ~Told(seen, s, a, "outcome") /\ accepted =>
                /\ Around(ex, e, s)
                /\ Adds(seen, seen \cup {<<<<s, a>>, "outcome">>}, s, a, "outcome") =>
                      MovesTold(ex, e, seen, seen \cup {<<<<s, a>>, "outcome">>}, s, a)
        BY <3>1, <3>9
      <3> QED BY <1>2, <2>1, <3>10, DeliveredMoves
    <2>6. CASE ex.st[s] # "Completed"
      <3>1. CompletePart(ex, e, s, a) /\ Around(ex, e, s)
        BY <1>0, <1>1, <2>3, <2>6, CompletionReaches
      <3>9. ASSUME ~Told(seen, s, a, "outcome"), accepted,
                   Adds(seen, seen \cup {<<<<s, a>>, "outcome">>}, s, a, "outcome")
            PROVE  MovesTold(ex, e, seen, seen \cup {<<<<s, a>>, "outcome">>}, s, a)
        <4>1. Told(seen, s, a, "started") /\ ex.cur[s] = a
          BY <2>2, <2>4, <2>6, <3>9
        <4> QED BY <1>1, <2>6, <3>1, <3>9, <4>1 DEF MovesTold, DoneTold
      <3>10. ~Told(seen, s, a, "outcome") /\ accepted =>
                /\ Around(ex, e, s)
                /\ Adds(seen, seen \cup {<<<<s, a>>, "outcome">>}, s, a, "outcome") =>
                      MovesTold(ex, e, seen, seen \cup {<<<<s, a>>, "outcome">>}, s, a)
        BY <3>1, <3>9
      <3> QED BY <1>2, <2>1, <3>10, DeliveredMoves
    <2> QED BY <2>5, <2>6
  <1>4. CASE out = "Ask"
    <2> DEFINE e == InputRequested(ex, s, a)
               accepted == AcceptsQuestion(ex, s, a)
    <2>1. Deliver(<<s, a>>, "outcome", accepted, e) /\ accepted \in BOOLEAN
      BY <1>1, <1>4 DEF Report, AcceptsQuestion
    <2>2. accepted => ex.cur[s] = a /\ ~Terminal(ex.st[s])
      BY DEF AcceptsQuestion
    <2>3. /\ Told(seen, s, a, "started") \/ Told(seen, s, a, "outcome")
          /\ "Ask" \in Outcomes[s]
      BY <1>1, <1>4 DEF Class
    <2> HIDE DEF s, a, out, accepted
    <2>4. InputRequestedWrote(ex, e, s, a)
      BY <1>0, <1>1, InputRequestedWrites
    <2> HIDE DEF e
    <2>5. Around(ex, e, s) /\ AskPart(ex, e, s, a)
      BY <2>4 DEF InputRequestedWrote, Around, Beside
    <2>9. ASSUME ~Told(seen, s, a, "outcome"), accepted,
                 Adds(seen, seen \cup {<<<<s, a>>, "outcome">>}, s, a, "outcome")
          PROVE  MovesTold(ex, e, seen, seen \cup {<<<<s, a>>, "outcome">>}, s, a)
      <3>1. Told(seen, s, a, "started") /\ ex.cur[s] = a /\ ~Terminal(ex.st[s])
        BY <2>2, <2>3, <2>9
      <3> QED BY <1>1, <2>3, <2>5, <2>9, <3>1 DEF MovesTold, AskTold
    <2>10. ~Told(seen, s, a, "outcome") /\ accepted =>
              /\ Around(ex, e, s)
              /\ Adds(seen, seen \cup {<<<<s, a>>, "outcome">>}, s, a, "outcome") =>
                    MovesTold(ex, e, seen, seen \cup {<<<<s, a>>, "outcome">>}, s, a)
      BY <2>5, <2>9
    <2> QED BY <1>2, <2>1, <2>10, DeliveredMoves
  <1>5. CASE out \notin {"Completed", "Ask"}
    <2> DEFINE e == StepFailed(ex, s, a, out)
               accepted == AcceptsFailure(ex, s, a)
    <2>1. /\ Deliver(<<s, a>>, "outcome", accepted, e) /\ accepted \in BOOLEAN
          /\ Fits(<<s, a>>, out) /\ out \in Class
      BY <1>0, <1>1, <1>5 DEF Report, AcceptsFailure, Outcome
    <2>2. e = IF MayRetry(ex, s, out) THEN ScheduleRetry(Fail(ex, s, a, out), s, a + 1)
              ELSE SettleFailure(Fail(ex, s, a, out), s)
      BY DEF StepFailed
    <2>3. MayRetry(ex, s, out) => a + 1 \in Attempt
      BY <1>1, <2>1 DEF Fits
    <2>4. NeverRefused => Told(seen, s, a, "started") \/ Told(seen, s, a, "outcome")
      BY <1>1
    <2> HIDE DEF s, a, out, e
    <2>5. CASE MayRetry(ex, s, out)
      <3>1. FailRetryPart(ex, e, s, a, out) /\ Around(ex, e, s)
        BY <1>0, <1>1, <2>1, <2>2, <2>3, <2>5, RetryReaches
      <3>9. ASSUME ~Told(seen, s, a, "outcome"), accepted,
                   Adds(seen, seen \cup {<<<<s, a>>, "outcome">>}, s, a, "outcome")
            PROVE  MovesTold(ex, e, seen, seen \cup {<<<<s, a>>, "outcome">>}, s, a)
        <4>1. (NeverRefused => Told(seen, s, a, "started")) /\ AcceptsFailure(ex, s, a)
          BY <2>4, <3>9
        <4>2. RetryTold(ex, e, seen, seen \cup {<<<<s, a>>, "outcome">>}, s, a)
          BY <2>1, <2>3, <2>5, <3>1, <3>9, <4>1 DEF RetryTold
        <4> QED BY <1>1, <4>2 DEF MovesTold
      <3>10. ~Told(seen, s, a, "outcome") /\ accepted =>
                /\ Around(ex, e, s)
                /\ Adds(seen, seen \cup {<<<<s, a>>, "outcome">>}, s, a, "outcome") =>
                      MovesTold(ex, e, seen, seen \cup {<<<<s, a>>, "outcome">>}, s, a)
        BY <3>1, <3>9
      <3> QED BY <1>2, <2>1, <3>10, DeliveredMoves
    <2>6. CASE ~MayRetry(ex, s, out)
      <3>1. FailPart(ex, e, s, a, out) /\ Around(ex, e, s)
        BY <1>0, <1>1, <2>1, <2>2, <2>6, FailureReaches
      <3>9. ASSUME ~Told(seen, s, a, "outcome"), accepted,
                   Adds(seen, seen \cup {<<<<s, a>>, "outcome">>}, s, a, "outcome")
            PROVE  MovesTold(ex, e, seen, seen \cup {<<<<s, a>>, "outcome">>}, s, a)
        <4>1. (NeverRefused => Told(seen, s, a, "started")) /\ AcceptsFailure(ex, s, a)
          BY <2>4, <3>9
        <4>2. FailTold(ex, e, seen, seen \cup {<<<<s, a>>, "outcome">>}, s, a)
          BY <2>1, <2>6, <3>1, <3>9, <4>1 DEF FailTold
        <4> QED BY <1>1, <4>2 DEF MovesTold
      <3>10. ~Told(seen, s, a, "outcome") /\ accepted =>
                /\ Around(ex, e, s)
                /\ Adds(seen, seen \cup {<<<<s, a>>, "outcome">>}, s, a, "outcome") =>
                      MovesTold(ex, e, seen, seen \cup {<<<<s, a>>, "outcome">>}, s, a)
        BY <3>1, <3>9
      <3> QED BY <1>2, <2>1, <3>10, DeliveredMoves
    <2> QED BY <2>5, <2>6
  <1> QED BY <1>3, <1>4, <1>5

\* A claim or a renewal.
LEMMA RowMoves ==
  ASSUME NEW k \in Key, NEW row, RowWrote(ex, ex', k, row), seen' = seen,
         \/ row.state = ex.rows[k].state
         \/ ex.rows[k].state \in {"pending", "running"} /\ row.state = "running"
  PROVE  StepsMove
  <1>1. ASSUME NEW s \in Step PROVE Touched(ex, ex', s)
    <2>1. \A a \in Attempt : \/ ex'.rows[<<s, a>>].state = ex.rows[<<s, a>>].state
                             \/ /\ ex.rows[<<s, a>>].state \in {"pending", "running"}
                                /\ ex'.rows[<<s, a>>].state = "running"
      BY DEF RowWrote
    <2> QED BY <2>1 DEF Touched, RowWrote, SameButRows
  <1> QED BY <1>1 DEF StepsMove, Moves, MovesQuietly, Kept

LEMMA TickMoves ==
  ASSUME TypeOK, Tick
  PROVE  StepsMove
  <1>1. AgedWrote(ex, ex') /\ seen' = seen /\ ex \in Execution
    BY AgedWrites DEF Tick, TypeOK
  <1>2. \A row \in Row : Older(row).state = row.state
    BY DEF Older, Row
  <1>3. \A s \in Step, a \in Attempt : <<s, a>> \in Key /\ ex.rows[<<s, a>>] \in Row
    BY <1>1, Shape
  <1>4. ASSUME NEW s \in Step PROVE GrownOlder(ex, ex', s)
    BY <1>1, <1>2, <1>3 DEF GrownOlder, AgedWrote
  <1> QED BY <1>1, <1>4 DEF StepsMove, Moves, MovesQuietly, Kept

\* Without container jobs the launcher has nothing to do.
LEMMA NoPods ==
  ASSUME PodStep = {}, launcher = {}, NEW k \in Key
  PROVE  ~PodEnds(k) /\ ~Launcher(k)
  <1>1. Pod = {}
    BY DEF Pod
  <1> QED BY <1>1 DEF PodEnds, Launcher, LauncherReads, LaunchPod, LauncherPasses,
          LauncherReports, LauncherCloses, CloseJob

LEMMA PassMoves ==
  ASSUME TypeOK, PassesKnow, NEW c \in Claimant,
         Work(c) \/ StopReactor(c) \/ Heartbeat(c) \/ Lose(c)
  PROVE  StepsMove
  <1>0. ex \in Execution
    BY DEF TypeOK
  <1>1. ASSUME UNCHANGED <<ex, seen>> PROVE StepsMove
    BY <1>1, BesideMoves DEF StepsMove, Beside, Same
  <1>2. ASSUME NEW k \in Key, TakeClaim(c, k) PROVE StepsMove
    <2>1. /\ ex' = [ex EXCEPT !.rows[k] = Claim(ex.rows[k], c)] /\ seen' = seen
          /\ ex.rows[k].state \in {"pending", "running"} /\ ex.rows[k] \in Row
      BY <1>0, <1>2 DEF TakeClaim, IsClaimable, Execution
    <2>2. Claim(ex.rows[k], c).state = "running"
      BY <2>1, SameStates
    <2>3. RowWrote(ex, ex', k, Claim(ex.rows[k], c))
      BY <1>0, <2>1, RowWrites
    <2> QED BY <2>1, <2>2, <2>3, RowMoves
  <1>3. ASSUME Heartbeat(c) \/ Settle(c) PROVE StepsMove
    <2> DEFINE k == who[c].key
    <2>1. k \in Key /\ seen' = seen
      BY <1>3 DEF Heartbeat, Settle, TypeOK
    <2>2. ex' = ex \/ ex' = [ex EXCEPT !.rows[k].age = 0]
      BY <1>3 DEF Heartbeat, Settle, Renewed
    <2> HIDE DEF k
    <2>3. ASSUME ex' = [ex EXCEPT !.rows[k].age = 0] PROVE StepsMove
      <3>1. RowWrote(ex, ex', k, [ex.rows[k] EXCEPT !.age = 0])
        BY <1>0, <2>1, <2>3, RenewalWrites
      <3>2. ex.rows[k] \in Row
        BY <1>0, <2>1 DEF Execution
      <3>3. [ex.rows[k] EXCEPT !.age = 0].state = ex.rows[k].state
        BY <3>2 DEF Row
      <3> QED BY <2>1, <3>1, <3>3, RowMoves
    <2> QED BY <1>1, <2>1, <2>2, <2>3
  <1>4. ASSUME \/ TakeReleased(c) \/ TakeRefused(c) \/ Lookup(c) \/ Execute(c) \/ Finish(c)
               \/ StopReactor(c) \/ Lose(c)
        PROVE  StepsMove
    BY <1>1, <1>4 DEF TakeReleased, TakeRefused, Lookup, Execute, Finish, StopReactor, Lose
  <1> QED BY <1>2, <1>3, <1>4, StartMoves, HitMoves, ReportMoves DEF Work

LEMMA EveryStepMoves ==
  ASSUME TypeOK, PassesKnow, PodStep = {}, [Next]_vars
  PROVE  StepsMove
  <1>1. ASSUME UNCHANGED <<ex, seen>> PROVE StepsMove
    BY <1>1, BesideMoves DEF StepsMove, Beside, Same
  <1>2. \A k \in Key : ~PodEnds(k) /\ ~Launcher(k)
    BY NoPods DEF PassesKnow
  <1>3. ASSUME NEW k \in Key, RuntimeFinishes(k) PROVE StepsMove
    BY <1>1, <1>3 DEF RuntimeFinishes
  <1>4. CASE UNCHANGED vars
    BY <1>1, <1>4 DEF vars
  <1> QED BY <1>2, <1>3, <1>4, CommandMoves, TickMoves, DeadlineMoves, PassMoves DEF Next

-----------------------------------------------------------------------------
(* What holds of each step and its rows *)

\* A row is of the current attempt of a step that is not over, parked while the step
\* waits, and of an attempt nobody has ended otherwise.
RowsOK(d, sn, s) ==
    \A a \in Attempt : d.rows[<<s, a>>].state # "absent" =>
      /\ a = d.cur[s] /\ s \notin Human /\ ~Terminal(d.st[s])
      /\ d.rows[<<s, a>>].state = "awaiting" <=> d.st[s] = "AwaitingInput"
      /\ d.rows[<<s, a>>].state # "awaiting" =>
            ~Told(sn, s, a, "outcome") /\ ~Told(sn, s, a, "cache-hit")

\* Which states a step has before its first attempt, and that failures ask nothing.
BeginsOK(d, s) ==
    /\ d.st[s] = "Scheduled" => d.cur[s] = 0
    /\ d.cur[s] = 0 => d.st[s] \in {"Scheduled", "Cancelled"} /\ d.ask[s] = NoQuestion
    /\ d.st[s] \in {"Failed", "Crashed"} => d.ask[s] = NoQuestion

\* Nothing was heard of an attempt that has not been given, nor a hit of a step that
\* is not cacheable.
HeardOK(d, sn, s) ==
    /\ \A a \in Attempt, w \in Heard : Told(sn, s, a, w) => a <= d.cur[s]
    /\ d.keyed[s] => s \in Cacheable
    /\ \A a \in Attempt : Told(sn, s, a, "cache-hit") => s \in Cacheable

\* An attempt that was superseded, that asked or that failed had its outcome heard.
ToldOK(d, sn, s) ==
    s \notin Human =>
      /\ \A a \in Attempt : a < d.cur[s] => Told(sn, s, a, "outcome")
      /\ d.ask[s] # NoQuestion \/ d.st[s] = "AwaitingInput" =>
           Told(sn, s, d.cur[s], "outcome") /\ Told(sn, s, d.cur[s], "started")
      /\ d.st[s] \in {"Failed", "Crashed"} => Told(sn, s, d.cur[s], "outcome")

TableOK(d, sn, s) ==
    RowsOK(d, sn, s) /\ BeginsOK(d, s) /\ HeardOK(d, sn, s) /\ ToldOK(d, sn, s)

\* A report that is accepted, of an attempt whose outcome was not heard, is of the
\* current attempt.
LEMMA CurrentAttempt ==
  ASSUME NEW d \in Execution, NEW sn, NEW s \in Step, NEW a \in Attempt,
         TableOK(d, sn, s), Reported(d, sn, s, a), ~Told(sn, s, a, "outcome")
  PROVE  d.cur[s] = a
  <1>1. d.cur[s] \in 0..MaxAttempt /\ a <= d.cur[s] /\ s \notin Human
    BY Shape DEF Reported
  <1>2. ~(a < d.cur[s])
    BY <1>1 DEF TableOK, ToldOK
  <1> QED BY <1>1, <1>2

LEMMA QuietTable ==
  ASSUME NEW d \in Execution, NEW e \in Execution, NEW sn, NEW tn, NEW s \in Step,
         TableOK(d, sn, s), Kept(sn, tn, s), MovesQuietly(d, e, s)
  PROVE  TableOK(e, tn, s) /\ d.cur[s] <= e.cur[s]
  <1>1. /\ d.cur[s] \in 0..MaxAttempt /\ e.cur[s] \in 0..MaxAttempt
        /\ "outcome" \in Heard /\ "cache-hit" \in Heard /\ "started" \in Heard
    BY Shape DEF Heard
  <1>2. \A a \in Attempt, w \in Heard : Told(tn, s, a, w) <=> Told(sn, s, a, w)
    BY DEF Kept
  <1>3. /\ RowsOK(d, sn, s) /\ BeginsOK(d, s) /\ HeardOK(d, sn, s) /\ ToldOK(d, sn, s)
    BY DEF TableOK
  <1>4. CASE Same(d, e, s)
    <2>1. RowsOK(e, tn, s)
      BY <1>1, <1>2, <1>3, <1>4 DEF RowsOK, Same
    <2>2. BeginsOK(e, s) /\ HeardOK(e, tn, s) /\ ToldOK(e, tn, s)
      BY <1>1, <1>2, <1>3, <1>4 DEF BeginsOK, HeardOK, ToldOK, Same
    <2> QED BY <1>1, <1>4, <2>1, <2>2 DEF TableOK, Same
  <1>5. CASE Dispatched(d, e, s)
    <2>1. d.cur[s] = 0 /\ e.cur[s] = 1 /\ d.ask[s] = NoQuestion
      BY <1>3, <1>5 DEF BeginsOK, Dispatched, SchedulePart
    <2>2. \A a \in Attempt : d.rows[<<s, a>>].state = "absent"
      BY <1>3, <2>1 DEF RowsOK
    <2>3. RowsOK(e, tn, s)
      BY <1>1, <1>2, <1>3, <1>5, <2>1, <2>2, RowKinds
         DEF RowsOK, HeardOK, Dispatched, SchedulePart, OtherAttempts, Terminal
    <2>4. e.keyed[s] => s \in Cacheable
      BY <1>5 DEF Dispatched, SchedulePart, CacheKey
    <2>5. /\ e.st[s] = IF s \in Human THEN "AwaitingInput" ELSE "Pending"
          /\ s \notin Human => e.ask[s] = NoQuestion
      BY <1>5, <2>1 DEF Dispatched, SchedulePart
    <2>6. BeginsOK(e, s) /\ HeardOK(e, tn, s)
      BY <1>1, <1>2, <1>3, <2>1, <2>4, <2>5 DEF BeginsOK, HeardOK
    <2>7. ToldOK(e, tn, s)
      BY <1>1, <1>2, <1>3, <1>5, <2>1, <2>5 DEF ToldOK, Dispatched
    <2> QED BY <2>1, <2>3, <2>6, <2>7 DEF TableOK
  <1>6. CASE CutOff(d, e, s)
    <2>1. RowsOK(e, tn, s)
      BY <1>1, <1>2, <1>3, <1>6, RowKinds DEF RowsOK, CutOff, SkipPart
    <2>2. BeginsOK(e, s) /\ HeardOK(e, tn, s) /\ ToldOK(e, tn, s)
      BY <1>1, <1>2, <1>3, <1>6 DEF BeginsOK, HeardOK, ToldOK, CutOff, SkipPart
    <2> QED BY <1>1, <1>6, <2>1, <2>2 DEF TableOK, CutOff, SkipPart
  <1>7. CASE TriedAgain(d, e, s)
    <2>1. e.cur[s] = d.cur[s] + 1 /\ d.cur[s] + 1 \in Attempt /\ d.ask[s] = NoQuestion
      BY <1>3, <1>7 DEF BeginsOK, TriedAgain, SchedulePart
    <2>2. \A a \in Attempt : d.rows[<<s, a>>].state = "absent"
      BY <1>3, <1>7 DEF RowsOK, TriedAgain, Terminal
    <2>3. RowsOK(e, tn, s)
      BY <1>1, <1>2, <1>3, <1>7, <2>1, <2>2, RowKinds
         DEF RowsOK, HeardOK, TriedAgain, SchedulePart, OtherAttempts, Terminal
    <2>4. e.keyed[s] => s \in Cacheable
      BY <1>7 DEF TriedAgain, SchedulePart, CacheKey
    <2>5. /\ e.st[s] = IF s \in Human THEN "AwaitingInput" ELSE "Pending"
          /\ s \notin Human => e.ask[s] = NoQuestion
      BY <1>7, <2>1 DEF TriedAgain, SchedulePart
    <2>6. BeginsOK(e, s) /\ HeardOK(e, tn, s)
      BY <1>1, <1>2, <1>3, <2>1, <2>4, <2>5 DEF BeginsOK, HeardOK
    <2>7. ToldOK(e, tn, s)
      BY <1>1, <1>2, <1>3, <1>7, <2>1, <2>5 DEF ToldOK, TriedAgain
    <2> QED BY <1>1, <2>1, <2>3, <2>6, <2>7 DEF TableOK
  <1>8. CASE Touched(d, e, s)
    <2>1. RowsOK(e, tn, s)
      BY <1>1, <1>2, <1>3, <1>8 DEF RowsOK, Touched
    <2>2. BeginsOK(e, s) /\ HeardOK(e, tn, s) /\ ToldOK(e, tn, s)
      BY <1>1, <1>2, <1>3, <1>8 DEF BeginsOK, HeardOK, ToldOK, Touched
    <2> QED BY <1>1, <1>8, <2>1, <2>2 DEF TableOK, Touched
  <1>9. CASE GrownOlder(d, e, s)
    <2>1. RowsOK(e, tn, s)
      BY <1>1, <1>2, <1>3, <1>9 DEF RowsOK, GrownOlder
    <2>2. e.ask[s] = NoQuestion <=> d.ask[s] = NoQuestion
      BY <1>9, Shape DEF GrownOlder, NoQuestion, NoClock, Question
    <2>3. BeginsOK(e, s) /\ HeardOK(e, tn, s) /\ ToldOK(e, tn, s)
      BY <1>1, <1>2, <1>3, <1>9, <2>2 DEF BeginsOK, HeardOK, ToldOK, GrownOlder
    <2> QED BY <1>1, <1>9, <2>1, <2>3 DEF TableOK, GrownOlder
  <1> QED BY <1>4, <1>5, <1>6, <1>7, <1>8, <1>9 DEF MovesQuietly

LEMMA WaitingTable ==
  ASSUME NEW d \in Execution, NEW e \in Execution, NEW sn, NEW tn, NEW s \in Step,
         NEW a \in Attempt, TableOK(d, sn, s), Kept(sn, tn, s), MovesWaiting(d, e, s, a)
  PROVE  TableOK(e, tn, s) /\ d.cur[s] <= e.cur[s]
  <1>1. /\ d.cur[s] = a /\ d.ask[s] # NoQuestion
        /\ "outcome" \in Heard /\ "cache-hit" \in Heard /\ "started" \in Heard
    BY DEF Heard, MovesWaiting, IsWaiting
  <1>2. \A b \in Attempt, w \in Heard : Told(tn, s, b, w) <=> Told(sn, s, b, w)
    BY DEF Kept
  <1>3. /\ RowsOK(d, sn, s) /\ BeginsOK(d, s) /\ HeardOK(d, sn, s) /\ ToldOK(d, sn, s)
    BY DEF TableOK
  <1>4. \A b \in Attempt : b # a => d.rows[<<s, b>>].state = "absent"
    BY <1>1, <1>3 DEF RowsOK
  <1>5. CASE Lapsed(d, e, s, a)
    <2>1. /\ e.rows[<<s, a>>] = NoRow /\ OtherAttempts(d, e, s, a) /\ e.cur[s] = a
          /\ e.st[s] \in {"Completed", "Failed", "Crashed"} /\ e.ask[s] = NoQuestion
          /\ e.keyed[s] = d.keyed[s]
      BY <1>1, <1>5 DEF Lapsed, CompletePart, FailPart, AttemptState
    <2>2. RowsOK(e, tn, s)
      BY <1>4, <2>1, RowKinds DEF RowsOK, OtherAttempts
    <2>3. BeginsOK(e, s) /\ HeardOK(e, tn, s) /\ ToldOK(e, tn, s)
      BY <1>1, <1>2, <1>3, <2>1 DEF BeginsOK, HeardOK, ToldOK
    <2> QED BY <1>1, <2>1, <2>2, <2>3 DEF TableOK
  <1>6. CASE GateAnswered(d, e, s, a)
    <2>1. /\ e.rows[<<s, a>>] = NoRow /\ OtherAttempts(d, e, s, a) /\ e.cur[s] = a
          /\ e.st[s] = "Completed" /\ e.ask[s] = NoQuestion /\ e.keyed[s] = d.keyed[s]
      BY <1>1, <1>6 DEF GateAnswered, GatePart
    <2>2. RowsOK(e, tn, s)
      BY <1>4, <2>1, RowKinds DEF RowsOK, OtherAttempts
    <2>3. BeginsOK(e, s) /\ HeardOK(e, tn, s) /\ ToldOK(e, tn, s)
      BY <1>1, <1>2, <1>3, <2>1 DEF BeginsOK, HeardOK, ToldOK
    <2> QED BY <1>1, <2>1, <2>2, <2>3 DEF TableOK
  <1>7. CASE TaskAnswered(d, e, s, a)
    <2>1. /\ e.rows[<<s, a>>] = NoRow /\ e.rows[<<s, a + 1>>] = ClaimableRow(0)
          /\ a + 1 \in Attempt /\ s \notin Human /\ e.cur[s] = a + 1
          /\ e.st[s] = "Pending" /\ e.ask[s] = NoQuestion /\ e.keyed[s] = FALSE
          /\ \A b \in Attempt : b # a /\ b # a + 1 => e.rows[<<s, b>>] = d.rows[<<s, b>>]
      BY <1>1, <1>7 DEF TaskAnswered, AnswerPart
    <2>2. RowsOK(e, tn, s)
      BY <1>1, <1>2, <1>3, <1>4, <2>1, RowKinds DEF RowsOK, HeardOK, Terminal
    <2>3. BeginsOK(e, s) /\ HeardOK(e, tn, s) /\ ToldOK(e, tn, s)
      BY <1>1, <1>2, <1>3, <2>1 DEF BeginsOK, HeardOK, ToldOK
    <2> QED BY <1>1, <2>1, <2>2, <2>3 DEF TableOK
  <1> QED BY <1>5, <1>6, <1>7 DEF MovesWaiting

LEMMA ToldTable ==
  ASSUME NEW d \in Execution, NEW e \in Execution, NEW sn, NEW tn, NEW s \in Step,
         NEW a \in Attempt, TableOK(d, sn, s), MovesTold(d, e, sn, tn, s, a)
  PROVE  TableOK(e, tn, s) /\ d.cur[s] <= e.cur[s]
  <1>1. /\ d.cur[s] \in 0..MaxAttempt /\ Reported(d, sn, s, a) /\ s \notin Human /\ a <= d.cur[s]
        /\ "outcome" \in Heard /\ "cache-hit" \in Heard /\ "started" \in Heard
    BY Shape DEF Heard, MovesTold, Reported
  <1>2. /\ RowsOK(d, sn, s) /\ BeginsOK(d, s) /\ HeardOK(d, sn, s) /\ ToldOK(d, sn, s)
    BY DEF TableOK
  <1>3. CASE StartTold(d, e, sn, tn, s, a)
    <2>1. /\ d.cur[s] = a /\ ~Told(sn, s, a, "started") /\ Told(tn, s, a, "started")
          /\ \A b \in Attempt, v \in Heard :
               b # a \/ v # "started" => (Told(tn, s, b, v) <=> Told(sn, s, b, v))
          /\ e.st[s] = "Running" /\ e.cur[s] = a /\ e.ask[s] = d.ask[s] /\ e.keyed[s] = d.keyed[s]
          /\ \A b \in Attempt : e.rows[<<s, b>>] = d.rows[<<s, b>>]
      BY <1>3 DEF StartTold, Adds, StartPart
    <2>2. d.st[s] # "AwaitingInput" /\ d.ask[s] = NoQuestion
      BY <1>1, <1>2, <2>1 DEF ToldOK
    <2>3. RowsOK(e, tn, s)
      BY <1>1, <1>2, <2>1, <2>2 DEF RowsOK, Terminal
    <2>4. BeginsOK(e, s) /\ HeardOK(e, tn, s)
      BY <1>1, <1>2, <2>1 DEF BeginsOK, HeardOK
    <2>5. ToldOK(e, tn, s)
      BY <1>1, <1>2, <2>1, <2>2 DEF ToldOK
    <2> QED BY <2>1, <2>3, <2>4, <2>5 DEF TableOK
  \* An outcome that is not a second success is of the current attempt.
  <1>4. ASSUME d.cur[s] = a, Adds(sn, tn, s, a, "outcome"), e.cur[s] = a, e.ask[s] = NoQuestion,
               e.keyed[s] = d.keyed[s], e.st[s] \in {"Completed", "Failed", "Crashed"},
               OtherAttempts(d, e, s, a), e.rows[<<s, a>>] = NoRow
        PROVE  TableOK(e, tn, s) /\ d.cur[s] <= e.cur[s]
    <2>1. \A b \in Attempt : e.rows[<<s, b>>].state = "absent"
      BY <1>2, <1>4, RowKinds DEF RowsOK, OtherAttempts
    <2>2. RowsOK(e, tn, s) /\ BeginsOK(e, s)
      BY <1>4, <2>1 DEF RowsOK, BeginsOK
    <2>3. HeardOK(e, tn, s) /\ ToldOK(e, tn, s)
      BY <1>1, <1>2, <1>4 DEF HeardOK, ToldOK, Adds
    <2> QED BY <1>1, <1>4, <2>2, <2>3 DEF TableOK
  <1>5. CASE DoneTold(d, e, sn, tn, s, a)
    BY <1>4, <1>5 DEF DoneTold, CompletePart
  <1>6. CASE FailTold(d, e, sn, tn, s, a)
    <2>1. d.cur[s] = a
      BY <1>1, <1>6, CurrentAttempt DEF FailTold, Adds
    <2> QED BY <1>4, <1>6, <2>1 DEF FailTold, FailPart, AttemptState
  <1>7. CASE AskTold(d, e, sn, tn, s, a)
    <2>1. /\ d.cur[s] = a /\ Told(sn, s, a, "started") /\ Told(tn, s, a, "outcome")
          /\ \A b \in Attempt, v \in Heard :
               b # a \/ v # "outcome" => (Told(tn, s, b, v) <=> Told(sn, s, b, v))
          /\ e.st[s] = "AwaitingInput" /\ e.cur[s] = a /\ e.keyed[s] = d.keyed[s]
          /\ \A b \in Attempt : b # a => e.rows[<<s, b>>] = d.rows[<<s, b>>]
          /\ e.rows[<<s, a>>] = Park(d.rows[<<s, a>>]) /\ d.rows[<<s, a>>] \in Row
      BY <1>7, Shape DEF AskTold, Adds, AskPart, OtherAttempts
    <2>2. \A b \in Attempt : e.rows[<<s, b>>].state # "absent" =>
                                b = a /\ e.rows[<<s, b>>].state = "awaiting"
      BY <1>2, <2>1, RowKinds DEF RowsOK
    <2>3. RowsOK(e, tn, s)
      BY <1>1, <2>1, <2>2 DEF RowsOK, Terminal
    <2>4. BeginsOK(e, s) /\ HeardOK(e, tn, s)
      BY <1>1, <1>2, <2>1 DEF BeginsOK, HeardOK
    <2>5. ToldOK(e, tn, s)
      BY <1>1, <1>2, <2>1 DEF ToldOK
    <2> QED BY <2>1, <2>3, <2>4, <2>5 DEF TableOK
  <1>8. CASE RetryTold(d, e, sn, tn, s, a)
    <2>1. d.cur[s] = a
      BY <1>1, <1>8, CurrentAttempt DEF RetryTold, Adds
    <2>2. /\ Told(tn, s, a, "outcome")
          /\ \A b \in Attempt, v \in Heard :
               b # a \/ v # "outcome" => (Told(tn, s, b, v) <=> Told(sn, s, b, v))
          /\ e.st[s] = "Pending" /\ e.cur[s] = a + 1 /\ a + 1 \in Attempt
          /\ e.keyed[s] = d.keyed[s] /\ e.ask[s] = NoQuestion
          /\ \A b \in Attempt : b # a /\ b # a + 1 => e.rows[<<s, b>>] = d.rows[<<s, b>>]
          /\ e.rows[<<s, a>>] = NoRow /\ e.rows[<<s, a + 1>>] = ClaimableRow(RetryDelay)
      BY <1>8 DEF RetryTold, Adds, FailRetryPart
    <2>3. /\ \A b \in Attempt : b # a + 1 => e.rows[<<s, b>>].state = "absent"
          /\ e.rows[<<s, a + 1>>].state = "pending"
      BY <1>2, <2>1, <2>2, RowKinds DEF RowsOK
    <2>4. \A v \in Heard : ~Told(tn, s, a + 1, v)
      BY <1>2, <2>1, <2>2 DEF HeardOK
    <2>5. RowsOK(e, tn, s)
      BY <1>1, <2>2, <2>3, <2>4 DEF RowsOK, Terminal
    <2>6. BeginsOK(e, s) /\ HeardOK(e, tn, s)
      BY <1>1, <1>2, <2>1, <2>2 DEF BeginsOK, HeardOK
    <2>7. ToldOK(e, tn, s)
      BY <1>1, <1>2, <2>1, <2>2 DEF ToldOK
    <2> QED BY <2>1, <2>2, <2>5, <2>6, <2>7 DEF TableOK
  <1>9. CASE HitTold(d, e, sn, tn, s, a)
    <2>1. /\ d.cur[s] = a /\ d.keyed[s] /\ s \in Cacheable
          /\ \A b \in Attempt, v \in Heard :
               b # a \/ v # "cache-hit" => (Told(tn, s, b, v) <=> Told(sn, s, b, v))
          /\ e.st[s] = "Completed" /\ e.cur[s] = a /\ e.ask[s] = d.ask[s]
          /\ \A b \in Attempt : b # a => e.rows[<<s, b>>] = d.rows[<<s, b>>]
          /\ e.rows[<<s, a>>] = NoRow
      BY <1>2, <1>9 DEF HitTold, Adds, FoundPart, OtherAttempts, HeardOK
    <2>2. \A b \in Attempt : e.rows[<<s, b>>].state = "absent"
      BY <1>2, <2>1, RowKinds DEF RowsOK
    <2>3. RowsOK(e, tn, s) /\ BeginsOK(e, s)
      BY <2>1, <2>2 DEF RowsOK, BeginsOK
    <2>4. HeardOK(e, tn, s) /\ ToldOK(e, tn, s)
      BY <1>1, <1>2, <2>1 DEF HeardOK, ToldOK
    <2> QED BY <2>1, <2>3, <2>4 DEF TableOK
  <1>10. CASE TwiceTold(d, e, sn, tn, s, a)
    <2>1. /\ d.st[s] = "Completed" /\ Same(d, e, s)
          /\ \A b \in Attempt, v \in Heard : Told(sn, s, b, v) => Told(tn, s, b, v)
          /\ \A b \in Attempt, v \in Heard : Told(tn, s, b, v) => Told(sn, s, b, v) \/ b = a
          /\ \A b \in Attempt : Told(tn, s, b, "cache-hit") =>
                Told(sn, s, b, "cache-hit") \/ d.keyed[s]
      BY <1>1, <1>10 DEF TwiceTold, Adds
    <2>2. RowsOK(e, tn, s)
      BY <1>2, <2>1 DEF RowsOK, Same, Terminal
    <2>3. BeginsOK(e, s) /\ HeardOK(e, tn, s)
      BY <1>1, <1>2, <2>1 DEF BeginsOK, HeardOK, Same
    <2>4. d.cur[s] # 0
      BY <1>2, <2>1 DEF BeginsOK
    <2>5. ToldOK(e, tn, s)
      BY <1>1, <1>2, <2>1, <2>4 DEF ToldOK, Same
    <2> QED BY <1>1, <2>1, <2>2, <2>3, <2>5 DEF TableOK, Same
  <1> QED BY <1>3, <1>5, <1>6, <1>7, <1>8, <1>9, <1>10 DEF MovesTold

LEMMA MovedTable ==
  ASSUME NEW d \in Execution, NEW e \in Execution, NEW sn, NEW tn, NEW s \in Step,
         TableOK(d, sn, s), Moves(d, e, sn, tn, s)
  PROVE  TableOK(e, tn, s) /\ d.cur[s] <= e.cur[s]
  BY QuietTable, WaitingTable, ToldTable DEF Moves

-----------------------------------------------------------------------------
(* What the passes know stays true *)

\* Whoever says how an attempt ended, or that the catalog has it, is done with it.
LEMMA Spoken ==
  ASSUME TypeOK, PodStep = {}, launcher = {}, [Next]_vars,
         NEW s \in Step, NEW a \in Attempt, NEW w \in {"outcome", "cache-hit"},
         Told(seen', s, a, w), ~Told(seen, s, a, w)
  PROVE  \E c \in Claimant : Active(who[c]) /\ who[c].key = <<s, a>> /\ who'[c] = Idle
  <1>1. ASSUME seen' = seen PROVE FALSE
    BY <1>1 DEF Told
  <1>2. ASSUME NEW k, NEW v, NEW accepted, NEW next, Deliver(k, v, accepted, next)
        PROVE  k = <<s, a>> /\ v = w
    BY <1>2 DEF Deliver, Told
  <1>3. ASSUME NEW k \in Key, FireDeadline(k) PROVE FALSE
    <2>1. seen' = seen \/ seen' = seen \cup {<<k, "deadline">>}
      BY <1>3 DEF FireDeadline, Deliver
    <2> QED BY <1>1, <2>1 DEF Told
  <1>4. ASSUME NEW c \in Claimant, TakeStarted(c) PROVE FALSE
    BY <1>2, <1>4 DEF TakeStarted
  <1>5. ASSUME NEW c \in Claimant, TakeCacheHit(c) \/ Report(c)
        PROVE  Active(who[c]) /\ who[c].key = <<s, a>> /\ who'[c] = Idle
    <2>1. Active(who[c]) /\ who'[c] = Idle
      BY <1>5 DEF TakeCacheHit, Report, Active, TypeOK
    <2>2. who[c].key = <<s, a>>
      BY <1>2, <1>5 DEF TakeCacheHit, Report
    <2> QED BY <2>1, <2>2
  <1>6. ASSUME NEW c \in Claimant,
               \/ \E k \in Key : TakeClaim(c, k)
               \/ TakeReleased(c) \/ TakeRefused(c) \/ Lookup(c) \/ Execute(c) \/ Finish(c)
               \/ Settle(c) \/ StopReactor(c) \/ Heartbeat(c) \/ Lose(c)
        PROVE  FALSE
    BY <1>1, <1>6 DEF TakeClaim, TakeReleased, TakeRefused, Lookup, Execute, Finish, Settle,
       StopReactor, Heartbeat, Lose
  <1>7. \A k \in Key : ~PodEnds(k) /\ ~Launcher(k)
    BY NoPods
  <1>8. ASSUME NEW k \in Key, RuntimeFinishes(k) PROVE FALSE
    BY <1>1, <1>8 DEF RuntimeFinishes
  <1>9. ~Commanded /\ ~Tick /\ ~UNCHANGED vars
    BY <1>1 DEF Commanded, Start, Pause, Resume, Cancel, Retry, Answer, Tick, vars
  <1> QED BY <1>3, <1>4, <1>5, <1>6, <1>7, <1>8, <1>9 DEF Next, Work

LEMMA InboxGrows ==
  ASSUME StepsMove
  PROVE  \A s \in Step, a \in Attempt, w \in Heard : Told(seen, s, a, w) => Told(seen', s, a, w)
  <1> SUFFICES ASSUME NEW s \in Step, NEW a \in Attempt, NEW w \in Heard, Told(seen, s, a, w)
               PROVE  Told(seen', s, a, w)
    OBVIOUS
  <1>1. Moves(ex, ex', seen, seen', s)
    BY DEF StepsMove
  <1>2. ASSUME Kept(seen, seen', s) PROVE Told(seen', s, a, w)
    BY <1>2 DEF Kept
  <1>3. ASSUME NEW b \in Attempt, MovesTold(ex, ex', seen, seen', s, b) PROVE Told(seen', s, a, w)
    <2>1. PICK v \in Heard : Adds(seen, seen', s, b, v)
      BY <1>3 DEF MovesTold, StartTold, DoneTold, AskTold, FailTold, RetryTold, HitTold,
         TwiceTold, Heard
    <2> QED BY <2>1 DEF Adds
  <1> QED BY <1>1, <1>2, <1>3 DEF Moves

TablesOK == \A s \in Step : TableOK(ex, seen, s)

LEMMA TablesStep ==
  ASSUME TypeOK, TypeOK', TablesOK, PassesKnow, PodStep = {}, [Next]_vars
  PROVE  TablesOK' /\ \A s \in Step : ex.cur[s] <= ex'.cur[s]
  <1>1. ASSUME NEW s \in Step PROVE TableOK(ex', seen', s) /\ ex.cur[s] <= ex'.cur[s]
    <2>1. Moves(ex, ex', seen, seen', s) /\ TableOK(ex, seen, s) /\ ex \in Execution /\ ex' \in Execution
      BY EveryStepMoves DEF StepsMove, TablesOK, TypeOK
    <2> QED BY <2>1, MovedTable
  <1>2. \A s \in Step : TableOK(ex, seen, s)' <=> TableOK(ex', seen', s)
    BY DEF TableOK, RowsOK, BeginsOK, HeardOK, ToldOK, Told
  <1> QED BY <1>1, <1>2 DEF TablesOK

\* A pass that brings a question is of a step whose work may ask one.
LEMMA QuestionsAreAsked ==
  ASSUME TypeOK, [Next]_vars, NEW c \in Claimant, who'[c].key = who[c].key,
         who'[c].at \in {"done", "settling"}, who'[c].out = "Ask"
  PROVE  \/ who[c].at \in {"done", "settling"} /\ who[c].out = "Ask"
         \/ "Ask" \in Outcomes[who[c].key[1]]
  <1> DEFINE G == \/ who[c].at \in {"done", "settling"} /\ who[c].out = "Ask"
                  \/ "Ask" \in Outcomes[who[c].key[1]]
  <1>0. /\ who \in [Claimant -> Pass] /\ "Ask" \notin Class /\ Refusals \subseteq Class
        /\ Idle.at = "idle" /\ [Idle EXCEPT !.at = "lost"].at = "lost"
    BY ClaimantAssumption DEF TypeOK, Class, Idle
  <1>1. ASSUME who'[c] = who[c] PROVE G
    BY <1>1
  <1>2. ASSUME NEW g \in Claimant, NEW w, who' = [who EXCEPT ![g] = w], c # g PROVE G
    BY <1>0, <1>1, <1>2
  <1>3. ASSUME NEW g \in Claimant, NEW w, who' = [who EXCEPT ![g] = w],
               w.at \notin {"done", "settling"}
        PROVE  G
    BY <1>0, <1>2, <1>3
  <1>4. ASSUME NEW g \in Claimant, NEW at, NEW out,
               who' = [who EXCEPT ![g].at = at, ![g].out = out],
               \/ out # "Ask" \/ out \in Outcomes[who[g].key[1]]
               \/ who[g].at \in {"done", "settling"} /\ who[g].out = out
        PROVE  G
    <2>1. CASE c = g
      BY <1>0, <1>4, <2>1 DEF Pass
    <2>2. CASE c # g
      BY <1>0, <1>1, <1>4, <2>2
    <2> QED BY <2>1, <2>2
  <1>5. ASSUME NEW g \in Claimant, NEW at, at \notin {"done", "settling"},
               who' = [who EXCEPT ![g].at = at]
        PROVE  G
    BY <1>0, <1>1, <1>5 DEF Pass
  <1> HIDE DEF G
  <1>6. ASSUME NEW g \in Claimant,
               \/ \E k \in Key : TakeClaim(g, k)
               \/ TakeReleased(g) \/ TakeCacheHit(g) \/ Report(g) \/ Lose(g)
               \/ TakeStarted(g) \/ Execute(g)
        PROVE  G
    <2>1. ASSUME NEW k \in Key, TakeClaim(g, k) PROVE G
      <3> DEFINE w == [Idle EXCEPT !.at = "claimed", !.key = k,
                                   !.retaken = Claim(ex.rows[k], g).retaken]
      <3>1. who' = [who EXCEPT ![g] = w]
        BY <2>1 DEF TakeClaim
      <3>2. w.at = "claimed"
        BY DEF Idle
      <3> HIDE DEF w
      <3> QED BY <1>3, <3>1, <3>2
    <2>2. CASE TakeReleased(g) \/ TakeCacheHit(g) \/ Report(g) \/ Lose(g)
      BY <1>0, <1>3, <2>2 DEF TakeReleased, TakeCacheHit, Report, Lose
    <2>3. CASE TakeStarted(g) \/ Execute(g)
      BY <1>5, <2>3 DEF TakeStarted, Execute
    <2> QED BY <1>6, <2>1, <2>2, <2>3
  <1>7. ASSUME NEW g \in Claimant, TakeRefused(g) \/ Lookup(g) \/ Finish(g) \/ StopReactor(g)
        PROVE  G
    <2>1. ASSUME TakeRefused(g) PROVE G
      <3>1. PICK class \in Refusals : who' = [who EXCEPT ![g].at = "settling", ![g].out = class]
        BY <2>1 DEF TakeRefused
      <3> QED BY <1>0, <1>4, <3>1
    <2>2. ASSUME Lookup(g) PROVE G
      <3>1. PICK outcome \in PriorAttempt(who[g].key) \cup {"Transient"} : Becomes(g, outcome)
        BY <2>2 DEF Lookup
      <3>2. runtime[who[g].key] \in {"absent", "running", "done"}
        BY <2>2 DEF Lookup, TypeOK
      <3>3. outcome # "Ask"
        BY <3>2 DEF PriorAttempt
      <3> QED BY <1>4, <3>1, <3>3 DEF Becomes
    <2>3. ASSUME Finish(g) PROVE G
      <3>1. PICK outcome \in Outcomes[who[g].key[1]] : Becomes(g, outcome)
        BY <2>3 DEF Finish
      <3> QED BY <1>4, <3>1 DEF Becomes
    <2>4. ASSUME StopReactor(g) PROVE G
      BY <1>4, <2>4 DEF StopReactor, Becomes
    <2> QED BY <1>7, <2>1, <2>2, <2>3, <2>4
  <1>8. ASSUME NEW g \in Claimant, Heartbeat(g) \/ Settle(g) PROVE G
    <2>1. \/ who' = who \/ who' = [who EXCEPT ![g] = Idle]
          \/ \E out : /\ who' = [who EXCEPT ![g].at = "settling", ![g].out = out]
                      /\ out # "Ask" \/ (who[g].at = "done" /\ who[g].out = out)
      BY <1>0, <1>8 DEF Heartbeat, Settle
    <2>2. ASSUME who' = [who EXCEPT ![g] = Idle] PROVE G
      BY <1>0, <1>3, <2>2
    <2>3. ASSUME NEW out, who' = [who EXCEPT ![g].at = "settling", ![g].out = out],
                 out # "Ask" \/ (who[g].at = "done" /\ who[g].out = out)
          PROVE  G
      BY <1>4, <2>3
    <2> QED BY <1>1, <2>1, <2>2, <2>3
  <1>9. ASSUME NEW k \in Key, FireDeadline(k) \/ RuntimeFinishes(k) \/ PodEnds(k) \/ Launcher(k)
        PROVE  G
    <2>1. ASSUME PodEnds(k) \/ CloseJob(k) PROVE G
      <3>1. k \in Claimant /\ who' = [who EXCEPT ![k] = [Idle EXCEPT !.at = "lost"]]
        BY <2>1, ClaimantAssumption DEF PodEnds, CloseJob
      <3> QED BY <1>0, <1>3, <3>1
    <2>2. PodEnds(k) \/ CloseJob(k) \/ who' = who
      BY <1>9 DEF FireDeadline, RuntimeFinishes, Launcher, LauncherReads, LaunchPod,
         LauncherPasses, LauncherReports, LauncherCloses
    <2> QED BY <1>1, <2>1, <2>2
  <1>10. CASE Commanded \/ Tick \/ UNCHANGED vars
    BY <1>1, <1>10 DEF Commanded, Start, Pause, Resume, Cancel, Retry, Answer, Tick, vars
  <1> QED BY <1>6, <1>7, <1>8, <1>9, <1>10 DEF Next, Work, G

\* A pass that is new is of a row, and one that goes on is of the attempt it was of.
LEMMA PassesKnowStep ==
  ASSUME TypeOK, TypeOK', TablesOK, PassesKnow, PodStep = {}, [Next]_vars
  PROVE  PassesKnow'
  <1>0. /\ StepsMove /\ launcher = {} /\ Pod = {}
        /\ \A s \in Step : ex.cur[s] <= ex'.cur[s] /\ ex.cur[s] \in 0..MaxAttempt
                           /\ ex'.cur[s] \in 0..MaxAttempt
        /\ \A k \in Key : k[1] \in Step /\ k[2] \in Attempt /\ k = <<k[1], k[2]>>
        /\ \A s \in Step, a \in Attempt, w \in Heard : Told(seen, s, a, w) => Told(seen', s, a, w)
        /\ "outcome" \in Heard /\ "cache-hit" \in Heard /\ "started" \in Heard
    <2>1. StepsMove
      BY EveryStepMoves
    <2>2. \A s \in Step : ex.cur[s] \in 0..MaxAttempt /\ ex'.cur[s] \in 0..MaxAttempt
      BY DEF TypeOK, Execution
    <2>3. launcher = {} /\ Pod = {}
      BY DEF PassesKnow, Pod
    <2> QED BY <2>1, <2>2, <2>3, InboxGrows, TablesStep DEF Heard
  <1>1. launcher' = {}
    <2>1. \A k \in Key : ~PodEnds(k) /\ ~Launcher(k)
      BY <1>0, NoPods
    <2>2. ASSUME NEW c \in Claimant, Work(c) \/ StopReactor(c) \/ Heartbeat(c) \/ Lose(c)
          PROVE  launcher' = launcher
      BY <2>2 DEF Work, TakeClaim, TakeReleased, TakeRefused, TakeCacheHit, TakeStarted,
         Lookup, Execute, Finish, Settle, Report, StopReactor, Heartbeat, Lose
    <2>3. Commanded \/ Tick \/ UNCHANGED vars => launcher' = launcher
      BY DEF Commanded, Start, Pause, Resume, Cancel, Retry, Answer, Tick, vars
    <2>4. ASSUME NEW k \in Key, FireDeadline(k) \/ RuntimeFinishes(k) PROVE launcher' = launcher
      BY <2>4 DEF FireDeadline, RuntimeFinishes
    <2> QED BY <1>0, <2>1, <2>2, <2>3, <2>4 DEF Next
  <1>2. ASSUME NEW c \in Claimant, Active(who'[c]) PROVE PassKnows(ex', seen', c, who'[c])
    <2> DEFINE s == who'[c].key[1]
               a == who'[c].key[2]
    <2>1. ASSUME NEW k \in Key, TakeClaim(c, k), who'[c].key = k
          PROVE  PassKnows(ex', seen', c, who'[c])
      <3>1. /\ k[1] \in Takes[c] /\ c \in Reactor \cup Worker
            /\ ex.rows[k].state \in {"pending", "running"} /\ seen' = seen
            /\ who'[c].at = "claimed"
        BY <1>0, <2>1, ClaimantAssumption DEF TakeClaim, MayTake, IsClaimable, TypeOK, Idle
      <3>2. TableOK(ex, seen, k[1]) /\ k[1] \in Step /\ k[2] \in Attempt /\ k = <<k[1], k[2]>>
        BY <1>0 DEF TablesOK
      <3>3. k[2] = ex.cur[k[1]] /\ ~Told(seen, k[1], k[2], "outcome")
            /\ ~Told(seen, k[1], k[2], "cache-hit")
        BY <3>1, <3>2 DEF TableOK, RowsOK
      <3>4. k[2] <= ex'.cur[k[1]]
        BY <1>0, <3>2, <3>3
      <3> QED BY <2>1, <3>1, <3>3, <3>4 DEF PassKnows
    <2>2. ASSUME Active(who[c]), who'[c].key = who[c].key
          PROVE  PassKnows(ex', seen', c, who'[c])
      <3>1. /\ s \in Step /\ a \in Attempt /\ who[c].key = <<s, a>>
            /\ PassKnows(ex, seen, c, who[c]) /\ who[c].key \in Key
        BY <1>0, <2>2 DEF TypeOK, Active, PassesKnow
      <3>2. c \in Reactor \cup Worker /\ s \in Takes[c] /\ a <= ex.cur[s] /\ s \notin Human
        BY <2>2, <3>1, ClaimantAssumption DEF PassKnows
      <3>3. a <= ex'.cur[s]
        BY <1>0, <3>1, <3>2
      <3>4. ASSUME Solo, s \in Cacheable, NEW w \in {"outcome", "cache-hit"}
            PROVE  ~Told(seen', s, a, w)
        <4>1. ~Told(seen, s, a, w)
          BY <2>2, <3>1, <3>4 DEF PassKnows
        <4>2. ASSUME NEW g \in Claimant, Active(who[g]), who[g].key = <<s, a>>, who'[g] = Idle
              PROVE  FALSE
          <5>1. g \in Reactor \cup Worker /\ s \in Takes[g]
            BY <4>2 DEF PassesKnow, PassKnows
          <5>2. g = c
            BY <3>2, <3>4, <5>1 DEF Solo
          <5> QED BY <1>2, <4>2, <5>2 DEF Active, Idle
        <4>3. ASSUME Told(seen', s, a, w) PROVE FALSE
          <5> HIDE DEF s, a
          <5>1. launcher = {} /\ s \in Step /\ a \in Attempt
            BY <1>0, <3>1
          <5>2. \E g \in Claimant : Active(who[g]) /\ who[g].key = <<s, a>> /\ who'[g] = Idle
            BY <4>1, <4>3, <5>1, Spoken
          <5> QED BY <4>2, <5>2
        <4> QED BY <4>3
      <3>5. ASSUME who'[c].at # "claimed",
                   who'[c].at = "settling" /\ who'[c].out \in Class => NeverRefused
            PROVE  Told(seen', s, a, "started") \/ Told(seen', s, a, "outcome")
        <4>1. ASSUME Told(seen, s, a, "started") \/ Told(seen, s, a, "outcome")
              PROVE  Told(seen', s, a, "started") \/ Told(seen', s, a, "outcome")
          BY <1>0, <3>1, <4>1
        <4>2. CASE who'[c] = who[c]
          <5>1. Told(seen, s, a, "started") \/ Told(seen, s, a, "outcome")
            BY <2>2, <3>1, <3>5, <4>2 DEF PassKnows
          <5> QED BY <4>1, <5>1
        <4>3. CASE who[c].at \in {"working", "executing", "done"}
          <5>1. Told(seen, s, a, "started") \/ Told(seen, s, a, "outcome")
            BY <2>2, <3>1, <4>3 DEF PassKnows
          <5> QED BY <4>1, <5>1
        <4>4. CASE TakeStarted(c)
          <5>1. CASE ex.cur[s] = a
            <6>1. Told(seen', s, a, "started")
              BY <2>2, <3>1, <4>4, <5>1 DEF TakeStarted, Deliver, AcceptsStarted, Told
            <6> QED BY <6>1
          <5>2. CASE ex.cur[s] # a
            <6>1. a < ex.cur[s]
              BY <1>0, <3>1, <3>2, <5>2
            <6>2. Told(seen, s, a, "outcome")
              BY <3>1, <3>2, <6>1 DEF TablesOK, TableOK, ToldOK
            <6> QED BY <4>1, <6>2
          <5> QED BY <5>1, <5>2
        <4>5. CASE TakeRefused(c)
          <5>1. PICK class \in Refusals :
                  /\ ~Retryable(class)
                  /\ who' = [who EXCEPT ![c].at = "settling", ![c].out = class]
            BY <4>5 DEF TakeRefused
          <5>2. who'[c].at = "settling" /\ who'[c].out = class /\ class \in Class
            BY <5>1, ClaimantAssumption DEF TypeOK, Pass
          <5> QED BY <3>5, <5>1, <5>2 DEF NeverRefused
        <4>6. ASSUME NEW k \in Key, TakeClaim(c, k) PROVE FALSE
          BY <2>2, <4>6 DEF TakeClaim, Active
        <4>7. Forward(c)
          BY PassesGoForward
        <4> QED BY <1>2, <4>2, <4>3, <4>4, <4>5, <4>6, <4>7 DEF Forward, Active
      <3>6. ASSUME who'[c].at \in {"done", "settling"}, who'[c].out = "Ask"
            PROVE  "Ask" \in Outcomes[s]
        BY <2>2, <3>1, <3>6, QuestionsAreAsked DEF PassKnows
      <3> HIDE DEF s, a
      <3> QED BY <3>2, <3>3, <3>4, <3>5, <3>6 DEF PassKnows, s, a
    <2> QED BY <1>2, <2>1, <2>2, KeysAreClaimed
  <1>3. \A c \in Claimant : PassKnows(ex', seen', c, who'[c])
    BY <1>2 DEF PassKnows
  <1> QED BY <1>1, <1>3 DEF PassesKnow, PassKnows, Told, Active

-----------------------------------------------------------------------------
(* The claim table *)

TableInv == TablesOK /\ PassesKnow

LEMMA TableInit == Init => TableInv
  <1> SUFFICES ASSUME Init PROVE TableInv
    OBVIOUS
  <1>1. \A c \in Claimant : ~Active(who[c])
    BY DEF Init, Active, Idle
  <1>2. \A s \in Step : TableOK(ex, seen, s)
    BY RowKinds DEF Init, NotStarted, TableOK, RowsOK, BeginsOK, HeardOK, ToldOK, Told
  <1> QED BY <1>1, <1>2 DEF Init, TableInv, TablesOK, PassesKnow, PassKnows

LEMMA TableStep == PodStep = {} /\ TypeOK /\ TypeOK' /\ TableInv /\ [Next]_vars => TableInv'
  BY TablesStep, PassesKnowStep DEF TableInv

\* handler.rs attempt_rows: in a plan without container jobs, a row is of its step's
\* current attempt and of a step that is not over, and it is parked exactly while the
\* step waits for a person, whatever is claimed twice, reported late, answered, lapses
\* or is cancelled meanwhile; for every plan, policy and set of claimants.  The
\* invariant adds what the inbox has heard: the outcome of every attempt that was
\* superseded, asked or failed, of no attempt that was not given, and the start of
\* every attempt a pass is past.  That is what makes a late report of an attempt
\* either a redelivery or about the current one.
THEOREM ClaimTableStaysCurrent == PodStep = {} => (Spec => []ClaimTableIsCurrent)
  <1> SUFFICES ASSUME PodStep = {} PROVE Spec => []ClaimTableIsCurrent
    OBVIOUS
  <1>1. TypeOK /\ TableInv => ClaimTableIsCurrent
    <2> SUFFICES ASSUME TablesOK, NEW k \in Key, ex.rows[k].state # "absent"
                 PROVE  /\ k[2] = ex.cur[k[1]]
                        /\ ~Terminal(ex.st[k[1]])
                        /\ ex.rows[k].state = "awaiting" <=> ex.st[k[1]] = "AwaitingInput"
      BY DEF TableInv, ClaimTableIsCurrent
    <2>1. k[1] \in Step /\ k[2] \in Attempt /\ k = <<k[1], k[2]>>
      OBVIOUS
    <2>2. RowsOK(ex, seen, k[1])
      BY <2>1 DEF TablesOK, TableOK
    <2> QED BY <2>1, <2>2 DEF RowsOK
  <1>2. TypeOK /\ TypeOK' /\ TableInv /\ [Next]_vars => TableInv'
    BY TableStep
  <1> QED BY <1>1, <1>2, TableInit, TypeCorrect, PTL DEF Spec

-----------------------------------------------------------------------------
(* What is Completed *)

\* How a step came to be Completed, where nobody claims a cacheable step beside another.
FinalOK(d, sn, s) ==
    d.st[s] = "Completed" =>
       /\ d.ask[s] = NoQuestion
       /\ s \notin Human =>
            \/ Told(sn, s, d.cur[s], "outcome") /\ Told(sn, s, d.cur[s], "started")
            \/ Told(sn, s, d.cur[s], "cache-hit")

LEMMA CompletedMoves ==
  ASSUME Solo, NEW d \in Execution, NEW e \in Execution, NEW sn, NEW tn, NEW s \in Step,
         TableOK(d, sn, s), FinalOK(d, sn, s), Moves(d, e, sn, tn, s)
  PROVE  /\ FinalOK(e, tn, s)
         /\ d.st[s] = "Completed" => e.st[s] = "Completed"
  <1>1. /\ d.cur[s] \in 0..MaxAttempt /\ d.ask[s] \in Question
        /\ "outcome" \in Heard /\ "cache-hit" \in Heard /\ "started" \in Heard
        /\ HeardOK(d, sn, s) /\ BeginsOK(d, s) /\ ToldOK(d, sn, s)
        /\ d.st[s] = "Completed" => d.cur[s] \in Attempt
    BY Shape DEF Heard, TableOK, BeginsOK
  <1>2. ASSUME e.st[s] = d.st[s], e.cur[s] = d.cur[s],
               d.ask[s] = NoQuestion => e.ask[s] = NoQuestion,
               \A a \in Attempt, w \in Heard : Told(sn, s, a, w) => Told(tn, s, a, w)
        PROVE  FinalOK(e, tn, s) /\ (d.st[s] = "Completed" => e.st[s] = "Completed")
    BY <1>1, <1>2 DEF FinalOK
  <1>3. CASE Kept(sn, tn, s) /\ MovesQuietly(d, e, s)
    <2>1. \A a \in Attempt, w \in Heard : Told(sn, s, a, w) => Told(tn, s, a, w)
      BY <1>3 DEF Kept
    <2>2. CASE Same(d, e, s) \/ Touched(d, e, s)
      BY <1>2, <2>1, <2>2 DEF Same, Touched
    <2>3. CASE GrownOlder(d, e, s)
      BY <1>1, <1>2, <2>1, <2>3 DEF GrownOlder, NoQuestion
    <2>4. CASE Dispatched(d, e, s) \/ TriedAgain(d, e, s)
      BY <2>4 DEF Dispatched, TriedAgain, SchedulePart, FinalOK
    <2>5. CASE CutOff(d, e, s)
      BY <2>5 DEF CutOff, SkipPart, Terminal, FinalOK
    <2> QED BY <1>3, <2>2, <2>3, <2>4, <2>5 DEF MovesQuietly
  <1>4. ASSUME NEW a \in Attempt, Kept(sn, tn, s), MovesWaiting(d, e, s, a)
        PROVE  FinalOK(e, tn, s) /\ (d.st[s] = "Completed" => e.st[s] = "Completed")
    <2>1. /\ d.st[s] # "Completed" /\ d.cur[s] = a
          /\ s \notin Human => Told(sn, s, a, "outcome") /\ Told(sn, s, a, "started")
      BY <1>1, <1>4 DEF MovesWaiting, IsWaiting, FinalOK, ToldOK
    <2>2. s \notin Human => Told(tn, s, a, "outcome") /\ Told(tn, s, a, "started")
      BY <1>1, <1>4, <2>1 DEF Kept
    <2>3. e.st[s] = "Completed" => e.ask[s] = NoQuestion /\ e.cur[s] = a
      BY <1>4, <2>1 DEF MovesWaiting, Lapsed, GateAnswered, TaskAnswered, CompletePart, FailPart,
         GatePart, AnswerPart, AttemptState
    <2> QED BY <2>1, <2>2, <2>3 DEF FinalOK
  <1>5. ASSUME NEW a \in Attempt, MovesTold(d, e, sn, tn, s, a)
        PROVE  FinalOK(e, tn, s) /\ (d.st[s] = "Completed" => e.st[s] = "Completed")
    <2>1. /\ s \notin Human /\ Reported(d, sn, s, a)
          /\ s \in Cacheable => ~Told(sn, s, a, "cache-hit") /\ ~Told(sn, s, a, "outcome")
      BY <1>5 DEF MovesTold, Reported
    <2>2. ASSUME d.cur[s] = a, ~Told(sn, s, a, "outcome") \/ ~Told(sn, s, a, "started")
          PROVE  d.st[s] # "Completed"
      BY <1>1, <2>1, <2>2 DEF FinalOK, HeardOK
    <2>3. CASE StartTold(d, e, sn, tn, s, a)
      BY <2>2, <2>3 DEF StartTold, Adds, StartPart, FinalOK
    <2>4. CASE DoneTold(d, e, sn, tn, s, a)
      BY <1>1, <2>4 DEF DoneTold, Adds, CompletePart, FinalOK
    <2>5. CASE AskTold(d, e, sn, tn, s, a)
      BY <2>5 DEF AskTold, AskPart, FinalOK, Terminal
    <2>6. CASE FailTold(d, e, sn, tn, s, a) \/ RetryTold(d, e, sn, tn, s, a)
      <3>1. ~Told(sn, s, a, "outcome") /\ e.st[s] # "Completed"
        BY <2>6 DEF FailTold, RetryTold, Adds, FailPart, FailRetryPart, AttemptState
      <3>2. d.cur[s] = a
        BY <2>1, <3>1, CurrentAttempt
      <3> QED BY <2>2, <3>1, <3>2 DEF FinalOK
    <2>7. CASE HitTold(d, e, sn, tn, s, a)
      <3>1. /\ d.cur[s] = a /\ d.st[s] # "Completed" /\ s \in Cacheable
            /\ e.cur[s] = a /\ e.ask[s] = d.ask[s] /\ Told(tn, s, a, "cache-hit")
        BY <1>1, <2>7 DEF HitTold, Adds, FoundPart, HeardOK
      <3>2. d.ask[s] = NoQuestion
        BY <1>1, <2>1, <3>1 DEF ToldOK
      <3> QED BY <3>1, <3>2 DEF FinalOK
    <2>8. CASE TwiceTold(d, e, sn, tn, s, a)
      <3>1. Same(d, e, s) /\ \A b \in Attempt, w \in Heard : Told(sn, s, b, w) => Told(tn, s, b, w)
        BY <2>8 DEF TwiceTold, Adds
      <3> QED BY <1>2, <3>1 DEF Same
    <2> QED BY <1>5, <2>3, <2>4, <2>5, <2>6, <2>7, <2>8 DEF MovesTold
  <1> QED BY <1>3, <1>4, <1>5 DEF Moves

FinalInv == \A s \in Step : FinalOK(ex, seen, s)

LEMMA FinalInit == Init => FinalInv
  BY DEF Init, NotStarted, FinalInv, FinalOK

LEMMA FinalStep ==
  ASSUME Solo, PodStep = {}, TypeOK, TypeOK', TableInv, FinalInv, [Next]_vars
  PROVE  /\ FinalInv'
         /\ \A s \in Step : ex.st[s] = "Completed" => ex'.st[s] = "Completed"
  <1>1. ASSUME NEW s \in Step
        PROVE  FinalOK(ex', seen', s) /\ (ex.st[s] = "Completed" => ex'.st[s] = "Completed")
    <2>1. /\ ex \in Execution /\ ex' \in Execution /\ TableOK(ex, seen, s) /\ FinalOK(ex, seen, s)
          /\ Moves(ex, ex', seen, seen', s)
      BY EveryStepMoves DEF TypeOK, TableInv, TablesOK, FinalInv, StepsMove
    <2> QED BY <2>1, CompletedMoves
  <1>2. \A s \in Step : FinalOK(ex', seen', s) => FinalOK(ex, seen, s)'
    BY DEF FinalOK, Told
  <1> QED BY <1>1, <1>2 DEF FinalInv

\* decide.rs StepCompleted: a Completed step stays Completed, whatever is delivered
\* late, twice or after a takeover, for every plan without container jobs in which no
\* two claimants take the same cacheable step.  Two claimants of one cacheable step
\* can break it: the second one's step.started is new to the inbox after the first one
\* ended the attempt with a cache hit.
THEOREM CompletedStays == PodStep = {} /\ Solo => (Spec => CompletedIsFinal)
  <1> SUFFICES ASSUME PodStep = {}, Solo PROVE Spec => CompletedIsFinal
    OBVIOUS
  <1>1. TypeOK /\ TypeOK' /\ TableInv /\ [Next]_vars => TableInv'
    BY TableStep
  <1>2. TypeOK /\ TypeOK' /\ TableInv /\ FinalInv /\ [Next]_vars =>
          FinalInv' /\ \A s \in Step : ex.st[s] = "Completed" => ex'.st[s] = "Completed"
    BY FinalStep
  <1> QED BY <1>1, <1>2, TableInit, FinalInit, TypeCorrect, PTL DEF Spec, CompletedIsFinal

\* Only dispatch_ready gives a first attempt.
LEMMA FirstAttempts ==
  ASSUME NEW d \in Execution, NEW e, NEW sn, NEW tn, NEW s \in Step,
         TableOK(d, sn, s), Moves(d, e, sn, tn, s), d.cur[s] = 0, e.cur[s] # 0
  PROVE  Dispatched(d, e, s)
  <1>1. d.st[s] \in {"Scheduled", "Cancelled"} /\ d.ask[s] = NoQuestion
    BY DEF TableOK, BeginsOK
  <1>2. \A a \in Attempt : ~IsWaiting(d, s, a) /\ ~Reported(d, sn, s, a)
    BY <1>1 DEF IsWaiting, Reported
  <1>3. MovesQuietly(d, e, s)
    BY <1>2 DEF Moves, MovesWaiting, MovesTold
  <1> QED BY <1>1, <1>3 DEF MovesQuietly, Same, CutOff, SkipPart, TriedAgain, Touched, GrownOlder

OrderInv == TableInv /\ FinalInv /\ ParentsFirst

LEMMA OrderInit == Init => OrderInv
  <1>1. Init => ParentsFirst
    BY DEF Init, NotStarted, ParentsFirst
  <1> QED BY <1>1, TableInit, FinalInit DEF OrderInv

LEMMA OrderStep ==
  PodStep = {} /\ Solo /\ TypeOK /\ TypeOK' /\ OrderInv /\ [Next]_vars => OrderInv'
  <1> SUFFICES ASSUME PodStep = {}, Solo, TypeOK, TypeOK', TableInv, FinalInv, ParentsFirst,
                      [Next]_vars
               PROVE  TableInv' /\ FinalInv' /\ ParentsFirst'
    BY DEF OrderInv
  <1>1. /\ TableInv' /\ FinalInv'
        /\ \A s \in Step : ex.st[s] = "Completed" => ex'.st[s] = "Completed"
    BY TableStep, FinalStep
  <1>2. ParentsFirst'
    <2> SUFFICES ASSUME NEW s \in Step, ex'.cur[s] > 0, NEW p \in Parents[s]
                 PROVE  ex'.st[p] = "Completed"
      BY DEF ParentsFirst
    <2>1. /\ ex \in Execution /\ TableOK(ex, seen, s) /\ Moves(ex, ex', seen, seen', s)
          /\ p \in Step
      BY EveryStepMoves DEF TypeOK, TableInv, TablesOK, StepsMove
    <2>2. CASE ex.cur[s] > 0
      BY <1>1, <2>1, <2>2 DEF ParentsFirst
    <2>3. CASE ~(ex.cur[s] > 0)
      <3>1. ex.cur[s] = 0 /\ ex'.cur[s] # 0
        BY <2>1, <2>3, Shape
      <3> QED BY <2>1, <3>1, FirstAttempts DEF Dispatched
    <2> QED BY <2>2, <2>3
  <1> QED BY <1>1, <1>2

\* decide.rs dispatch_ready: a step that has been given an attempt has every parent
\* Completed, and keeps them so through takeovers, retries and late reports; under the
\* same hypotheses as CompletedStays, on which it rests.
THEOREM ParentsComeFirst == PodStep = {} /\ Solo => (Spec => []ParentsFirst)
  <1> SUFFICES ASSUME PodStep = {}, Solo PROVE Spec => []ParentsFirst
    OBVIOUS
  <1>1. TypeOK /\ TypeOK' /\ OrderInv /\ [Next]_vars => OrderInv'
    BY OrderStep
  <1>2. OrderInv => ParentsFirst
    BY DEF OrderInv
  <1> QED BY <1>1, <1>2, OrderInit, TypeCorrect, PTL DEF Spec

-----------------------------------------------------------------------------
(* Questions and their clocks *)

\* A question a worker asked with a clock on it is answered when that runs out.
AskedAreAnswered == \A s \in Step \ Human : Deadline[s] # NoClock => OnTimeout[s] = "Answer"

TimerOf(d, s, a) ==
    IF IsWaiting(d, s, a) /\ d.ask[s] # NoClock
    THEN IF d.ask[s] = -1 THEN 0 ELSE d.ask[s]
    ELSE NoTimer

ClockOK(d, s) ==
    /\ d.ask[s] \notin {NoQuestion, NoClock} => Deadline[s] # NoClock
    /\ \A a \in Attempt : d.timers[<<s, a>>] = TimerOf(d, s, a)

LEMMA ClockMoves ==
  ASSUME AskedAreAnswered, NEW d \in Execution, NEW e \in Execution, NEW sn, NEW tn,
         NEW s \in Step, TableOK(d, sn, s), ClockOK(d, s), Moves(d, e, sn, tn, s)
  PROVE  ClockOK(e, s)
  <1>1. /\ d.cur[s] \in 0..MaxAttempt /\ d.ask[s] \in Question
        /\ Deadline[s] \in Nat \cup {NoClock} /\ BeginsOK(d, s) /\ ToldOK(d, sn, s)
    BY Shape DEF TableOK
  <1>2. \A a \in Attempt : d.timers[<<s, a>>] = TimerOf(d, s, a)
    BY DEF ClockOK
  \* No question, no timer: what leaves both so.
  <1>3. ASSUME d.ask[s] = NoQuestion PROVE \A a \in Attempt : d.timers[<<s, a>>] = NoTimer
    BY <1>2, <1>3 DEF TimerOf, IsWaiting
  <1>4. ASSUME e.ask[s] = NoQuestion, \A a \in Attempt : e.timers[<<s, a>>] = NoTimer
        PROVE  ClockOK(e, s)
    BY <1>4 DEF ClockOK, TimerOf, IsWaiting
  <1>5. ASSUME e.ask[s] = d.ask[s], e.cur[s] = d.cur[s],
               \A a \in Attempt : e.timers[<<s, a>>] = d.timers[<<s, a>>]
        PROVE  ClockOK(e, s)
    BY <1>5 DEF ClockOK, TimerOf, IsWaiting
  \* A question that is put, with the timer of its deadline.
  <1>6. ASSUME NEW a \in Attempt, d.ask[s] = NoQuestion, e.ask[s] = Deadline[s], e.cur[s] = a,
               \A b \in Attempt : b # a => e.timers[<<s, b>>] = d.timers[<<s, b>>],
               e.timers[<<s, a>>] = IF Deadline[s] = NoClock THEN d.timers[<<s, a>>]
                                    ELSE Deadline[s]
        PROVE  ClockOK(e, s)
    <2>1. \A b \in Attempt : b # a => e.timers[<<s, b>>] = NoTimer /\ ~IsWaiting(e, s, b)
      BY <1>3, <1>6 DEF IsWaiting
    <2>2. CASE Deadline[s] = NoClock
      BY <1>3, <1>6, <2>1, <2>2 DEF ClockOK, TimerOf
    <2>3. CASE Deadline[s] \in Nat
      <3>1. Deadline[s] # NoClock /\ Deadline[s] # NoQuestion /\ Deadline[s] # -1
        BY <2>3 DEF NoClock, NoQuestion
      <3> QED BY <1>6, <2>1, <3>1 DEF ClockOK, TimerOf, IsWaiting
    <2> QED BY <1>1, <2>2, <2>3
  <1>7. CASE MovesQuietly(d, e, s)
    <2>1. CASE Same(d, e, s) \/ CutOff(d, e, s)
      BY <1>5, <2>1 DEF Same, CutOff, SkipPart
    <2>2. ASSUME NEW n \in Attempt, d.ask[s] = NoQuestion, SchedulePart(d, e, s, n)
          PROVE  ClockOK(e, s)
      <3>1. CASE s \in Human
        BY <1>6, <2>2, <3>1 DEF SchedulePart, OtherAttempts
      <3>2. CASE s \notin Human
        BY <1>3, <1>4, <2>2, <3>2 DEF SchedulePart, OtherAttempts
      <3> QED BY <3>1, <3>2
    <2>3. CASE Dispatched(d, e, s)
      BY <1>1, <2>2, <2>3 DEF Dispatched, BeginsOK
    <2>4. CASE TriedAgain(d, e, s)
      BY <1>1, <2>2, <2>4 DEF TriedAgain, BeginsOK
    <2>5. CASE Touched(d, e, s)
      <3>1. \A a \in Attempt : TimerOf(e, s, a) = TimerOf(d, s, a)
        BY <2>5 DEF Touched, TimerOf, IsWaiting
      <3>2. \A a \in Attempt : ~IsWaiting(d, s, a) => TimerOf(d, s, a) = NoTimer
        BY DEF TimerOf
      <3> QED BY <1>2, <2>5, <3>1, <3>2 DEF Touched, ClockOK
    <2>6. CASE GrownOlder(d, e, s)
      <3>1. /\ e.ask[s] = NoQuestion <=> d.ask[s] = NoQuestion
            /\ e.ask[s] = NoClock <=> d.ask[s] = NoClock
        BY <1>1, <2>6 DEF GrownOlder, Question, NoClock, NoQuestion
      <3>2. ASSUME NEW a \in Attempt PROVE e.timers[<<s, a>>] = TimerOf(e, s, a)
        <4>1. IsWaiting(e, s, a) <=> IsWaiting(d, s, a)
          BY <2>6, <3>1 DEF IsWaiting, GrownOlder
        <4>2. CASE IsWaiting(d, s, a) /\ d.ask[s] # NoClock
          <5>1. d.ask[s] \in Nat \cup {-1}
            BY <1>1, <4>2 DEF IsWaiting, Question
          <5>2. d.timers[<<s, a>>] = IF d.ask[s] = -1 THEN 0 ELSE d.ask[s]
            BY <1>2, <4>2 DEF TimerOf
          <5>3. e.timers[<<s, a>>] = IF e.ask[s] = -1 THEN 0 ELSE e.ask[s]
            BY <2>6, <5>1, <5>2 DEF GrownOlder
          <5> QED BY <3>1, <4>1, <4>2, <5>3 DEF TimerOf
        <4>3. CASE ~(IsWaiting(d, s, a) /\ d.ask[s] # NoClock)
          <5>1. d.timers[<<s, a>>] = NoTimer
            BY <1>2, <4>3 DEF TimerOf
          <5>2. e.timers[<<s, a>>] = NoTimer
            BY <2>6, <5>1 DEF GrownOlder, NoTimer
          <5> QED BY <3>1, <4>1, <4>3, <5>2 DEF TimerOf
        <4> QED BY <4>2, <4>3
      <3> QED BY <3>1, <3>2 DEF ClockOK
    <2> QED BY <1>7, <2>1, <2>3, <2>4, <2>5, <2>6 DEF MovesQuietly
  <1>8. ASSUME NEW a \in Attempt, MovesWaiting(d, e, s, a) PROVE ClockOK(e, s)
    <2>1. /\ IsWaiting(d, s, a)
          /\ \A b \in Attempt : b # a => d.timers[<<s, b>>] = NoTimer
      BY <1>2, <1>8 DEF MovesWaiting, TimerOf, IsWaiting
    <2>2. CASE Lapsed(d, e, s, a)
      <3>1. d.timers[<<s, a>>] = 0 /\ OnTimeout[s] # "Answer"
        BY <2>2 DEF Lapsed
      <3>2. d.ask[s] # NoClock
        BY <1>2, <3>1 DEF TimerOf, NoTimer
      <3>3. Deadline[s] # NoClock /\ s \in Human
        BY <2>1, <3>1, <3>2 DEF ClockOK, IsWaiting, AskedAreAnswered
      <3>4. e.ask[s] = NoQuestion /\ e.timers[<<s, a>>] = NoTimer /\ OtherAttempts(d, e, s, a)
        BY <2>2, <3>3 DEF Lapsed, CompletePart, FailPart, PlanHasDeadline
      <3> QED BY <1>4, <2>1, <3>4 DEF OtherAttempts
    <2>3. CASE GateAnswered(d, e, s, a)
      BY <1>4, <2>1, <2>3 DEF GateAnswered, GatePart, OtherAttempts
    <2>4. CASE TaskAnswered(d, e, s, a)
      BY <1>4, <2>1, <2>4 DEF TaskAnswered, AnswerPart
    <2> QED BY <1>8, <2>2, <2>3, <2>4 DEF MovesWaiting
  <1>9. ASSUME NEW a \in Attempt, MovesTold(d, e, sn, tn, s, a) PROVE ClockOK(e, s)
    <2>1. s \notin Human /\ Reported(d, sn, s, a) /\ ~PlanHasDeadline(s)
      BY <1>9 DEF MovesTold, Reported, PlanHasDeadline
    <2>2. ASSUME Adds(sn, tn, s, a, "outcome"), d.st[s] # "Completed"
          PROVE  d.cur[s] = a /\ d.ask[s] = NoQuestion
      <3>1. ~Told(sn, s, a, "outcome")
        BY <2>2 DEF Adds
      <3>2. d.cur[s] = a
        BY <2>1, <3>1, CurrentAttempt
      <3> QED BY <1>1, <2>1, <3>1, <3>2 DEF ToldOK
    <2>3. CASE StartTold(d, e, sn, tn, s, a) \/ HitTold(d, e, sn, tn, s, a)
      BY <1>5, <2>3 DEF StartTold, StartPart, HitTold, FoundPart, OtherAttempts
    <2>4. CASE DoneTold(d, e, sn, tn, s, a)
      BY <1>3, <1>4, <2>1, <2>2, <2>4 DEF DoneTold, CompletePart, OtherAttempts
    <2>5. CASE AskTold(d, e, sn, tn, s, a)
      <3>1. d.ask[s] = NoQuestion
        BY <2>2, <2>5 DEF AskTold, Terminal
      <3> QED BY <1>6, <2>5, <3>1 DEF AskTold, AskPart, OtherAttempts
    <2>6. CASE FailTold(d, e, sn, tn, s, a) \/ RetryTold(d, e, sn, tn, s, a)
      <3>1. ~Told(sn, s, a, "outcome")
        BY <2>6 DEF FailTold, RetryTold, Adds
      <3>2. d.cur[s] = a
        BY <2>1, <3>1, CurrentAttempt
      <3>3. d.ask[s] = NoQuestion
        BY <1>1, <2>1, <3>1, <3>2 DEF ToldOK
      <3>4. e.ask[s] = NoQuestion /\ \A b \in Attempt : e.timers[<<s, b>>] = d.timers[<<s, b>>]
        BY <2>1, <2>6 DEF FailTold, RetryTold, FailPart, FailRetryPart, OtherAttempts
      <3> QED BY <1>3, <1>4, <3>3, <3>4
    <2>7. CASE TwiceTold(d, e, sn, tn, s, a)
      BY <1>5, <2>7 DEF TwiceTold, Same
    <2> QED BY <1>9, <2>3, <2>4, <2>5, <2>6, <2>7 DEF MovesTold
  <1> QED BY <1>7, <1>8, <1>9 DEF Moves

ClocksOK == \A s \in Step : ClockOK(ex, s)

\* handler.rs deadline_rows: in a plan without container jobs a timer row stands exactly
\* while the attempt it names waits on a question with a deadline, and comes due when
\* that does; no answer, lapse, cancel, retry or late report leaves one behind or takes
\* one too early.  A question a worker asks must be of the kind that is answered when
\* its clock runs out: deadline_rows does not cancel the timer of one that lapses into
\* a failure or a skip.
THEOREM DeadlinesStayAgreed ==
  PodStep = {} /\ AskedAreAnswered => (Spec => []DeadlinesAgree)
  <1> SUFFICES ASSUME PodStep = {}, AskedAreAnswered PROVE Spec => []DeadlinesAgree
    OBVIOUS
  <1>1. TypeOK /\ TypeOK' /\ TableInv /\ [Next]_vars => TableInv'
    BY TableStep
  <1>2. Init => ClocksOK
    BY DEF Init, NotStarted, ClocksOK, ClockOK, TimerOf, IsWaiting
  <1>3. TypeOK /\ TypeOK' /\ TableInv /\ ClocksOK /\ [Next]_vars => ClocksOK'
    <2> SUFFICES ASSUME TypeOK, TypeOK', TableInv, ClocksOK, [Next]_vars PROVE ClocksOK'
      OBVIOUS
    <2>1. ASSUME NEW s \in Step PROVE ClockOK(ex', s)
      <3>1. /\ ex \in Execution /\ ex' \in Execution /\ TableOK(ex, seen, s) /\ ClockOK(ex, s)
            /\ Moves(ex, ex', seen, seen', s)
        BY EveryStepMoves DEF TypeOK, TableInv, TablesOK, ClocksOK, StepsMove
      <3> QED BY <3>1, ClockMoves
    <2>2. \A s \in Step : ClockOK(ex', s) => ClockOK(ex, s)'
      BY DEF ClockOK, TimerOf, IsWaiting
    <2> QED BY <2>1, <2>2 DEF ClocksOK
  <1>4. ClocksOK => DeadlinesAgree
    BY DEF ClocksOK, ClockOK, TimerOf, DeadlinesAgree
  <1> QED BY <1>1, <1>2, <1>3, <1>4, TableInit, TypeCorrect, PTL DEF Spec

-----------------------------------------------------------------------------
(* Work that was dispatched *)

\* What keeps a late step.started from reviving a step: an attempt nobody has started
\* is still pending, or ended by a hit.  A step that is to be worked on has its row.
WorkOK(d, sn, s) ==
    s \notin Human =>
      /\ d.cur[s] > 0 =>
           \/ d.st[s] = "Pending"
           \/ Told(sn, s, d.cur[s], "started") \/ Told(sn, s, d.cur[s], "cache-hit")
      /\ d.st[s] \in {"Pending", "Running"} =>
           d.cur[s] > 0 /\ d.rows[<<s, d.cur[s]>>].state \in {"pending", "running"}

\* A step below one that is not Completed has no attempt.
LEMMA NotReached ==
  ASSUME NEW d, \A s \in Step : d.cur[s] \in 0..MaxAttempt, \A s \in Step : BeginsOK(d, s),
         \A s \in Step : d.cur[s] > 0 => \A p \in Parents[s] : d.st[p] = "Completed",
         NEW f \in Step, d.st[f] # "Completed", NEW s \in Downstream(f)
  PROVE  d.cur[s] = 0
  <1> DEFINE C == {c \in Step : d.cur[c] = 0}
  <1>1. C \in SUBSET Step
    OBVIOUS
  <1>2. ASSUME NEW x \in Step, d.st[x] # "Completed" PROVE Children(x) \subseteq C
    BY <1>2 DEF Children
  <1>3. \A x \in C : x \in Step /\ d.st[x] # "Completed"
    BY DEF BeginsOK
  <1>4. Children(f) \subseteq C /\ \A x \in C : Children(x) \subseteq C
    BY <1>2, <1>3
  <1> HIDE DEF C
  <1>5. s \in C
    BY <1>1, <1>4 DEF Downstream
  <1> QED BY <1>5 DEF C

LEMMA WorkMoves ==
  ASSUME Solo, NeverRefused, NEW d \in Execution, NEW e \in Execution, NEW sn, NEW tn,
         NEW s \in Step, TableOK(d, sn, s), WorkOK(d, sn, s), Moves(d, e, sn, tn, s),
         CutOff(d, e, s) => e.cur[s] = 0
  PROVE  WorkOK(e, tn, s)
  <1> SUFFICES ASSUME s \notin Human PROVE WorkOK(e, tn, s)
    BY DEF WorkOK
  <1>1. /\ d.cur[s] \in 0..MaxAttempt /\ e.cur[s] \in 0..MaxAttempt
        /\ "outcome" \in Heard /\ "cache-hit" \in Heard /\ "started" \in Heard
        /\ HeardOK(d, sn, s) /\ BeginsOK(d, s) /\ ToldOK(d, sn, s)
    BY Shape DEF Heard, TableOK
  <1>2. ASSUME e.st[s] = d.st[s], e.cur[s] = d.cur[s],
               \A a \in Attempt : d.rows[<<s, a>>].state \in {"pending", "running"} =>
                                    e.rows[<<s, a>>].state \in {"pending", "running"},
               \A a \in Attempt, w \in Heard : Told(sn, s, a, w) => Told(tn, s, a, w)
        PROVE  WorkOK(e, tn, s)
    <2>1. d.cur[s] > 0 => d.cur[s] \in Attempt
      BY <1>1
    <2> QED BY <1>1, <1>2, <2>1 DEF WorkOK
  <1>3. ASSUME e.st[s] = "Pending", e.cur[s] \in Attempt, e.rows[<<s, e.cur[s]>>].state = "pending"
        PROVE  WorkOK(e, tn, s)
    BY <1>3 DEF WorkOK
  <1>4. ASSUME e.st[s] \notin {"Pending", "Running"},
               Told(tn, s, e.cur[s], "started") \/ Told(tn, s, e.cur[s], "cache-hit")
        PROVE  WorkOK(e, tn, s)
    BY <1>4 DEF WorkOK
  <1>5. CASE Kept(sn, tn, s) /\ MovesQuietly(d, e, s)
    <2>1. \A a \in Attempt, w \in Heard : Told(sn, s, a, w) => Told(tn, s, a, w)
      BY <1>5 DEF Kept
    <2>2. CASE Same(d, e, s)
      BY <1>2, <2>1, <2>2 DEF Same
    <2>3. CASE Touched(d, e, s)
      BY <1>2, <2>1, <2>3 DEF Touched
    <2>4. CASE GrownOlder(d, e, s)
      BY <1>2, <2>1, <2>4 DEF GrownOlder
    <2>5. CASE Dispatched(d, e, s) \/ TriedAgain(d, e, s)
      BY <1>1, <1>3, <2>5, RowKinds DEF Dispatched, TriedAgain, SchedulePart
    <2>6. CASE CutOff(d, e, s)
      BY <2>6 DEF CutOff, SkipPart, WorkOK
    <2> QED BY <1>5, <2>2, <2>3, <2>4, <2>5, <2>6 DEF MovesQuietly
  <1>6. ASSUME NEW a \in Attempt, Kept(sn, tn, s), MovesWaiting(d, e, s, a)
        PROVE  WorkOK(e, tn, s)
    <2>1. d.cur[s] = a /\ Told(sn, s, a, "started")
      BY <1>1, <1>6 DEF MovesWaiting, IsWaiting, ToldOK
    <2>2. Told(tn, s, a, "started")
      BY <1>1, <1>6, <2>1 DEF Kept
    <2>3. CASE Lapsed(d, e, s, a)
      BY <1>4, <2>1, <2>2, <2>3 DEF Lapsed, CompletePart, FailPart, AttemptState
    <2>4. CASE TaskAnswered(d, e, s, a)
      BY <1>3, <2>4, RowKinds DEF TaskAnswered, AnswerPart
    <2> QED BY <1>6, <2>3, <2>4 DEF MovesWaiting, GateAnswered
  <1>7. ASSUME NEW a \in Attempt, MovesTold(d, e, sn, tn, s, a) PROVE WorkOK(e, tn, s)
    <2>1. /\ Reported(d, sn, s, a)
          /\ s \in Cacheable => ~Told(sn, s, a, "cache-hit") /\ ~Told(sn, s, a, "outcome")
      BY <1>7 DEF MovesTold, Reported
    <2>2. CASE StartTold(d, e, sn, tn, s, a)
      <3>1. /\ d.cur[s] = a /\ ~Told(sn, s, a, "started") /\ Told(tn, s, a, "started")
            /\ e.cur[s] = a /\ e.st[s] = "Running"
            /\ \A b \in Attempt : e.rows[<<s, b>>] = d.rows[<<s, b>>]
        BY <2>2 DEF StartTold, Adds, StartPart
      <3>2. ~Told(sn, s, a, "cache-hit")
        BY <1>1, <2>1 DEF HeardOK
      <3>3. d.st[s] = "Pending" /\ a > 0
        BY <3>1, <3>2 DEF WorkOK
      <3> QED BY <3>1, <3>3 DEF WorkOK
    <2>3. CASE DoneTold(d, e, sn, tn, s, a) \/ AskTold(d, e, sn, tn, s, a)
      <3>1. /\ d.cur[s] = a /\ Told(sn, s, a, "started") /\ Adds(sn, tn, s, a, "outcome")
            /\ e.cur[s] = a /\ e.st[s] \in {"Completed", "AwaitingInput"}
        BY <2>3 DEF DoneTold, AskTold, CompletePart, AskPart
      <3> QED BY <1>1, <1>4, <3>1 DEF Adds
    <2>4. CASE FailTold(d, e, sn, tn, s, a)
      <3>1. /\ Told(sn, s, a, "started") /\ Adds(sn, tn, s, a, "outcome")
            /\ e.cur[s] = d.cur[s] /\ e.st[s] \in {"Failed", "Crashed"}
        BY <2>4 DEF FailTold, FailPart, AttemptState
      <3>2. d.cur[s] = a
        BY <2>1, <3>1, CurrentAttempt DEF Adds
      <3> QED BY <1>1, <1>4, <3>1, <3>2 DEF Adds
    <2>5. CASE RetryTold(d, e, sn, tn, s, a)
      BY <1>3, <2>5, RowKinds DEF RetryTold, FailRetryPart
    <2>6. CASE HitTold(d, e, sn, tn, s, a)
      BY <1>4, <2>6 DEF HitTold, Adds, FoundPart
    <2>7. CASE TwiceTold(d, e, sn, tn, s, a)
      <3>1. Same(d, e, s) /\ \A b \in Attempt, w \in Heard : Told(sn, s, b, w) => Told(tn, s, b, w)
        BY <2>7 DEF TwiceTold, Adds
      <3> QED BY <1>2, <3>1 DEF Same
    <2> QED BY <1>7, <2>2, <2>3, <2>4, <2>5, <2>6, <2>7 DEF MovesTold
  <1> QED BY <1>5, <1>6, <1>7 DEF Moves

WorkInv == \A s \in Step : WorkOK(ex, seen, s)

LEMMA WorkInit == Init => WorkInv
  BY DEF Init, NotStarted, WorkInv, WorkOK

\* In the state after a step, what is skipped has no attempt.
LEMMA SkippedUnreached ==
  ASSUME TypeOK', OrderInv', "Cancel" \notin Commands, NEW s \in Step, CutOff(ex, ex', s)
  PROVE  ex'.cur[s] = 0
  <1>1. PICK f \in Step : s \in Downstream(f) /\ ex'.st[f] \in {"Failed", "Crashed"}
    BY DEF CutOff
  <1>2. /\ \A t \in Step : ex'.cur[t] \in 0..MaxAttempt
        /\ \A t \in Step : BeginsOK(ex', t)
        /\ \A t \in Step : ex'.cur[t] > 0 => \A p \in Parents[t] : ex'.st[p] = "Completed"
    BY DEF TypeOK, Execution, OrderInv, TableInv, TablesOK, TableOK, BeginsOK, ParentsFirst
  <1>3. ex'.st[f] # "Completed"
    BY <1>1
  <1> QED BY <1>1, <1>2, <1>3, NotReached

LEMMA WorkStep ==
  ASSUME PodStep = {}, Solo, NeverRefused, "Cancel" \notin Commands, TypeOK, TypeOK',
         OrderInv, OrderInv', WorkInv, [Next]_vars
  PROVE  WorkInv'
  <1>1. ASSUME NEW s \in Step PROVE WorkOK(ex', seen', s)
    <2>1. /\ ex \in Execution /\ ex' \in Execution /\ TableOK(ex, seen, s) /\ WorkOK(ex, seen, s)
          /\ Moves(ex, ex', seen, seen', s)
      BY EveryStepMoves DEF TypeOK, OrderInv, TableInv, TablesOK, WorkInv, StepsMove
    <2>2. CutOff(ex, ex', s) => ex'.cur[s] = 0
      BY SkippedUnreached
    <2> QED BY <2>1, <2>2, WorkMoves
  <1>2. \A s \in Step : WorkOK(ex', seen', s) => WorkOK(ex, seen, s)'
    BY DEF WorkOK, Told
  <1> QED BY <1>1, <1>2 DEF WorkInv

\* claim.rs is_claimable: a step the log calls pending or running has a row that
\* somebody holds or may claim, across takeovers, lost claimants, retries, a person's
\* retries and answers; in every plan without container jobs in which no two claimants
\* take the same cacheable step, no authority refuses for good and nobody cancels.
\* Each of the last three lets a claim end between the claim and its step.started,
\* which is then accepted and leaves the step running without a row.
THEOREM NothingIsStranded ==
  PodStep = {} /\ Solo /\ NeverRefused /\ "Cancel" \notin Commands
    => (Spec => []NothingStranded)
  <1> SUFFICES ASSUME PodStep = {}, Solo, NeverRefused, "Cancel" \notin Commands
               PROVE  Spec => []NothingStranded
    OBVIOUS
  <1>1. TypeOK /\ TypeOK' /\ OrderInv /\ [Next]_vars => OrderInv'
    BY OrderStep
  <1>2. TypeOK /\ TypeOK' /\ OrderInv /\ OrderInv' /\ WorkInv /\ [Next]_vars => WorkInv'
    BY WorkStep
  <1>3. WorkInv => NothingStranded
    BY DEF WorkInv, WorkOK, NothingStranded
  <1> QED BY <1>1, <1>2, <1>3, OrderInit, WorkInit, TypeCorrect, PTL DEF Spec

-----------------------------------------------------------------------------
(* Retries *)

Failures(d, s, kind) == {a \in Attempt : d.err[<<s, a>>] = kind}

Spendable == {"work", "unavailable"}

LEMMA FailuresAreFinite ==
  ASSUME NEW d, NEW s, NEW kind
  PROVE  IsFiniteSet(Failures(d, s, kind)) /\ Cardinality(Failures(d, s, kind)) \in Nat
  <1>1. IsFiniteSet(Attempt)
    BY FS_Interval
  <1>2. Failures(d, s, kind) \subseteq Attempt
    BY DEF Failures
  <1> QED BY <1>1, <1>2, FS_Subset, FS_CardinalityType

LEMMA OneMoreFailure ==
  ASSUME NEW d, NEW e, NEW s, NEW a \in Attempt, NEW k \in Spendable, NEW kind \in Spendable,
         d.err[<<s, a>>] = "none", e.err[<<s, a>>] = k,
         \A b \in Attempt : b # a => e.err[<<s, b>>] = d.err[<<s, b>>]
  PROVE  Cardinality(Failures(e, s, kind)) =
           IF kind = k THEN Cardinality(Failures(d, s, kind)) + 1
           ELSE Cardinality(Failures(d, s, kind))
  <1>1. a \notin Failures(d, s, kind) /\ kind # "none"
    BY DEF Failures, Spendable
  <1>2. CASE kind = k
    <2>1. Failures(e, s, kind) = Failures(d, s, kind) \cup {a}
      BY <1>2 DEF Failures
    <2> DEFINE failed == Failures(d, s, kind)
    <2>2. IsFiniteSet(failed) /\ a \notin failed
      BY <1>1, FailuresAreFinite
    <2>3. Failures(e, s, kind) = failed \cup {a}
      BY <2>1
    <2> HIDE DEF failed
    <2>4. Cardinality(failed \cup {a}) = Cardinality(failed) + 1
      BY <2>2, FS_AddElement
    <2>5. Cardinality(Failures(e, s, kind)) = Cardinality(failed) + 1
      BY <2>3, <2>4
    <2> QED BY <1>2, <2>5 DEF failed
  <1>3. CASE kind # k
    <2>1. Failures(e, s, kind) = Failures(d, s, kind)
      BY <1>1, <1>3 DEF Failures
    <2> QED BY <1>3, <2>1
  <1> QED BY <1>2, <1>3

\* The current attempt has not failed.
Fresh(d, s) == \A a \in Attempt : d.err[<<s, a>>] # "none" => a < d.cur[s]

\* Earlier attempts have failed, later ones have not, what has failed is heard of, and
\* as long as the current attempt has not failed neither budget is spent.
EarnedOK(d, sn, s) ==
    /\ \A a \in Attempt : a < d.cur[s] => d.err[<<s, a>>] # "none"
    /\ \A a \in Attempt : d.err[<<s, a>>] # "none" =>
          /\ a <= d.cur[s]
          /\ s \notin Human => Told(sn, s, a, "outcome")
          /\ s \in Human => d.ask[s] = NoQuestion
    /\ s \notin Human => d.ask[s] = NoQuestion
    /\ \A kind \in Spendable :
          /\ Cardinality(Failures(d, s, kind)) <= Budget(kind)
          /\ Fresh(d, s) => Cardinality(Failures(d, s, kind)) < Budget(kind)

\* Nobody but a gate asks, no person retries, and each budget allows a first attempt.
PlainRetries ==
    /\ "Retry" \notin Commands
    /\ \A s \in Step \ Human : "Ask" \notin Outcomes[s]
    /\ MaxAttempts >= 1 /\ MaxUnavailable >= 1

LEMMA EarnedMoves ==
  ASSUME PlainRetries, NEW d \in Execution, NEW e \in Execution, NEW sn, NEW tn,
         NEW s \in Step, TableOK(d, sn, s), EarnedOK(d, sn, s), Moves(d, e, sn, tn, s)
  PROVE  EarnedOK(e, tn, s)
  <1>1. /\ d.cur[s] \in 0..MaxAttempt /\ "outcome" \in Heard
        /\ HeardOK(d, sn, s) /\ BeginsOK(d, s)
        /\ \A kind \in Spendable : Budget(kind) \in Nat
        /\ \A kind : Cardinality(Failures(d, s, kind)) \in Nat
    BY Shape, FailuresAreFinite DEF Heard, TableOK, Budget
  \* Moves that fail nothing.
  <1>2. ASSUME \A a \in Attempt : e.err[<<s, a>>] = d.err[<<s, a>>],
               e.cur[s] = d.cur[s] \/ (d.cur[s] = 0 /\ e.cur[s] = 1),
               e.ask[s] = NoQuestion \/ e.ask[s] = d.ask[s]
                  \/ (s \in Human /\ \A a \in Attempt : d.err[<<s, a>>] = "none"),
               \A a \in Attempt : Told(sn, s, a, "outcome") => Told(tn, s, a, "outcome")
        PROVE  EarnedOK(e, tn, s)
    <2>1. \A kind : Failures(e, s, kind) = Failures(d, s, kind)
      BY <1>2 DEF Failures
    <2>2. Fresh(e, s) => Fresh(d, s)
      BY <1>1, <1>2 DEF Fresh, EarnedOK
    <2>3. \A a \in Attempt : a < e.cur[s] => e.err[<<s, a>>] # "none"
      BY <1>1, <1>2 DEF EarnedOK
    <2>4. \A a \in Attempt : e.err[<<s, a>>] # "none" =>
             /\ a <= e.cur[s] /\ (s \notin Human => Told(tn, s, a, "outcome"))
             /\ s \in Human => e.ask[s] = NoQuestion
      BY <1>1, <1>2 DEF EarnedOK
    <2>5. s \notin Human => e.ask[s] = NoQuestion
      BY <1>2 DEF EarnedOK
    <2> QED BY <2>1, <2>2, <2>3, <2>4, <2>5 DEF EarnedOK
  \* Moves that fail the current attempt.
  <1>3. ASSUME NEW a \in Attempt, NEW k \in Spendable, d.cur[s] = a,
               d.err[<<s, a>>] = "none", e.err[<<s, a>>] = k, e.ask[s] = NoQuestion,
               \A b \in Attempt : b # a => e.err[<<s, b>>] = d.err[<<s, b>>],
               \/ e.cur[s] = a
               \/ e.cur[s] = a + 1 /\ 1 + Cardinality(Failures(d, s, k)) < Budget(k),
               s \notin Human => Told(tn, s, a, "outcome"),
               \A b \in Attempt : Told(sn, s, b, "outcome") => Told(tn, s, b, "outcome")
        PROVE  EarnedOK(e, tn, s)
    <2>1. Fresh(d, s)
      BY <1>1, <1>3 DEF EarnedOK, Fresh
    <2>2. \A kind \in Spendable : Cardinality(Failures(d, s, kind)) < Budget(kind)
      BY <2>1 DEF EarnedOK
    <2>3. \A kind \in Spendable :
            Cardinality(Failures(e, s, kind)) =
               IF kind = k THEN Cardinality(Failures(d, s, kind)) + 1
               ELSE Cardinality(Failures(d, s, kind))
      BY <1>3, OneMoreFailure
    <2>4. \A kind \in Spendable :
            /\ Cardinality(Failures(e, s, kind)) <= Budget(kind)
            /\ Fresh(e, s) => Cardinality(Failures(e, s, kind)) < Budget(kind)
      <3> SUFFICES ASSUME NEW kind \in Spendable
                   PROVE  /\ Cardinality(Failures(e, s, kind)) <= Budget(kind)
                          /\ Fresh(e, s) => Cardinality(Failures(e, s, kind)) < Budget(kind)
        OBVIOUS
      <3>1. /\ Budget(kind) \in Nat /\ Cardinality(Failures(d, s, kind)) \in Nat
            /\ Cardinality(Failures(d, s, kind)) < Budget(kind)
        BY <1>1, <2>2
      <3>2. Cardinality(Failures(e, s, kind)) <= Budget(kind)
        BY <2>3, <3>1
      <3>3. e.cur[s] = a => ~Fresh(e, s)
        BY <1>3 DEF Fresh, Spendable
      <3>4. e.cur[s] = a + 1 /\ kind = k => Cardinality(Failures(e, s, kind)) < Budget(kind)
               \/ e.cur[s] = a
        BY <1>3, <2>3, <3>1
      <3>5. kind # k => Cardinality(Failures(e, s, kind)) < Budget(kind)
        BY <2>3, <3>1
      <3> QED BY <1>3, <3>2, <3>3, <3>4, <3>5
    <2>5. \A b \in Attempt : b < e.cur[s] => e.err[<<s, b>>] # "none"
      BY <1>1, <1>3 DEF EarnedOK, Spendable
    <2>6. \A b \in Attempt : e.err[<<s, b>>] # "none" =>
             b <= e.cur[s] /\ (s \notin Human => Told(tn, s, b, "outcome"))
      BY <1>1, <1>3 DEF EarnedOK
    <2> QED BY <1>3, <2>4, <2>5, <2>6 DEF EarnedOK
  <1>4. \A class : KindOf(class) \in Spendable
    BY DEF KindOf, Spendable
  <1>5. CASE Kept(sn, tn, s) /\ MovesQuietly(d, e, s)
    <2>1. \A a \in Attempt : Told(sn, s, a, "outcome") => Told(tn, s, a, "outcome")
      BY <1>1, <1>5 DEF Kept
    <2>2. CASE Same(d, e, s) \/ Touched(d, e, s) \/ CutOff(d, e, s)
      BY <1>2, <2>1, <2>2 DEF Same, Touched, CutOff, SkipPart
    <2>3. CASE GrownOlder(d, e, s)
      <3>1. s \in Human => e.ask[s] = NoQuestion \/ \A a \in Attempt : d.err[<<s, a>>] = "none"
        BY <2>3 DEF EarnedOK, GrownOlder, NoQuestion
      <3>2. s \notin Human => e.ask[s] = NoQuestion
        BY <2>3 DEF EarnedOK, GrownOlder, NoQuestion
      <3> QED BY <1>2, <2>1, <2>3, <3>1, <3>2 DEF GrownOlder
    <2>4. CASE Dispatched(d, e, s)
      <3>1. d.cur[s] = 0 /\ e.cur[s] = 1
        BY <1>1, <2>4 DEF Dispatched, SchedulePart, BeginsOK
      <3>2. \A a \in Attempt : d.err[<<s, a>>] = "none"
        BY <3>1 DEF EarnedOK
      <3>3. \A a \in Attempt : e.err[<<s, a>>] = d.err[<<s, a>>]
        BY <2>4 DEF Dispatched, SchedulePart, OtherAttempts
      <3>4. s \notin Human => e.ask[s] = d.ask[s]
        BY <2>4 DEF Dispatched, SchedulePart
      <3> QED BY <1>2, <2>1, <3>1, <3>2, <3>3, <3>4
    <2> QED BY <1>5, <2>2, <2>3, <2>4 DEF MovesQuietly, TriedAgain, PlainRetries
  <1>6. ASSUME NEW a \in Attempt, Kept(sn, tn, s), MovesWaiting(d, e, s, a)
        PROVE  EarnedOK(e, tn, s)
    <2>1. /\ d.cur[s] = a /\ s \in Human
          /\ \A b \in Attempt : d.err[<<s, b>>] = "none"
      BY <1>6 DEF MovesWaiting, IsWaiting, EarnedOK
    <2>2. \A b \in Attempt : Told(sn, s, b, "outcome") => Told(tn, s, b, "outcome")
      BY <1>1, <1>6 DEF Kept
    <2>3. CASE Lapsed(d, e, s, a) /\ FailPart(d, e, s, a, "Policy")
      BY <1>3, <1>4, <2>1, <2>2, <2>3 DEF FailPart, OtherAttempts
    <2>4. CASE CompletePart(d, e, s, a) \/ GatePart(d, e, s, a)
      BY <1>2, <2>2, <2>4 DEF CompletePart, GatePart, OtherAttempts
    <2> QED BY <1>6, <2>1, <2>3, <2>4 DEF MovesWaiting, Lapsed, GateAnswered, TaskAnswered
  <1>7. ASSUME NEW a \in Attempt, MovesTold(d, e, sn, tn, s, a) PROVE EarnedOK(e, tn, s)
    <2>1. Reported(d, sn, s, a) /\ s \notin Human
      BY <1>7 DEF MovesTold, Reported
    <2>2. ASSUME NEW w \in Heard, Adds(sn, tn, s, a, w)
          PROVE  /\ \A b \in Attempt : Told(sn, s, b, "outcome") => Told(tn, s, b, "outcome")
                 /\ w = "outcome" => Told(tn, s, a, "outcome")
      BY <1>1, <2>2 DEF Adds
    <2>3. "started" \in Heard /\ "cache-hit" \in Heard /\ "outcome" \in Heard
      BY DEF Heard
    <2>4. CASE StartTold(d, e, sn, tn, s, a)
      BY <1>2, <2>2, <2>3, <2>4 DEF StartTold, StartPart
    <2>5. CASE DoneTold(d, e, sn, tn, s, a)
      BY <1>2, <2>2, <2>3, <2>5 DEF DoneTold, CompletePart, OtherAttempts
    <2>6. CASE HitTold(d, e, sn, tn, s, a)
      BY <1>2, <2>2, <2>3, <2>6 DEF HitTold, FoundPart, OtherAttempts
    <2>7. CASE TwiceTold(d, e, sn, tn, s, a)
      BY <1>2, <2>2, <2>3, <2>7 DEF TwiceTold, Same
    <2>8. CASE FailTold(d, e, sn, tn, s, a) \/ RetryTold(d, e, sn, tn, s, a)
      <3>1. /\ Adds(sn, tn, s, a, "outcome") /\ ~Told(sn, s, a, "outcome")
        BY <2>8 DEF FailTold, RetryTold, Adds
      <3>2. d.cur[s] = a /\ d.err[<<s, a>>] = "none"
        BY <2>1, <3>1, CurrentAttempt DEF EarnedOK
      <3>3. CASE FailTold(d, e, sn, tn, s, a)
        <4>1. PICK class \in Class : FailPart(d, e, s, a, class)
          BY <3>3 DEF FailTold
        <4> QED BY <1>3, <1>4, <2>2, <2>3, <3>1, <3>2, <4>1 DEF FailPart, OtherAttempts
      <3>4. CASE RetryTold(d, e, sn, tn, s, a)
        <4>1. PICK class \in Class : MayRetry(d, s, class) /\ FailRetryPart(d, e, s, a, class)
          BY <3>4 DEF RetryTold
        <4>2. 1 + Cardinality(Failures(d, s, KindOf(class))) < Budget(KindOf(class))
          BY <4>1 DEF MayRetry, Spent, Failures
        <4>3. /\ e.err[<<s, a>>] = KindOf(class) /\ e.ask[s] = NoQuestion /\ e.cur[s] = a + 1
              /\ \A b \in Attempt : b # a => e.err[<<s, b>>] = d.err[<<s, b>>]
          BY <4>1 DEF FailRetryPart
        <4> QED BY <1>3, <1>4, <2>2, <2>3, <3>1, <3>2, <4>2, <4>3
      <3> QED BY <2>8, <3>3, <3>4
    <2>9. ~AskTold(d, e, sn, tn, s, a)
      BY <2>1 DEF AskTold, PlainRetries
    <2> QED BY <1>7, <2>4, <2>5, <2>6, <2>7, <2>8, <2>9 DEF MovesTold
  <1> QED BY <1>5, <1>6, <1>7 DEF Moves

EarnedInv == \A s \in Step : EarnedOK(ex, seen, s)

\* decide.rs StepFailed: every attempt before the current one is recorded as failed, and
\* neither kind of failure is recorded more often than its budget allows, whatever is
\* claimed twice, reported late or redelivered; in every plan without container jobs in
\* which only gates ask, no person retries and both budgets allow a first attempt.  The
\* invariant adds that the budgets still have room while the current attempt has not
\* failed, and that a failure that was recorded was heard of, so that it is not counted
\* again.
THEOREM RetriesStayEarned == PodStep = {} /\ PlainRetries => (Spec => []RetriesAreEarned)
  <1> SUFFICES ASSUME PodStep = {}, PlainRetries PROVE Spec => []RetriesAreEarned
    OBVIOUS
  <1>1. TypeOK /\ TypeOK' /\ TableInv /\ [Next]_vars => TableInv'
    BY TableStep
  <1>2. Init => EarnedInv
    <2> SUFFICES ASSUME Init, NEW s \in Step PROVE EarnedOK(ex, seen, s)
      BY DEF EarnedInv
    <2>1. /\ \A a \in Attempt : ex.err[<<s, a>>] = "none"
          /\ ex.cur[s] = 0 /\ ex.ask[s] = NoQuestion
      BY DEF Init, NotStarted
    <2>2. ASSUME NEW kind \in Spendable PROVE Cardinality(Failures(ex, s, kind)) < Budget(kind)
      <3>1. Failures(ex, s, kind) = {}
        BY <2>1 DEF Failures, Spendable
      <3>2. Cardinality(Failures(ex, s, kind)) = 0
        BY <3>1, FS_EmptySet
      <3> QED BY <3>2 DEF PlainRetries, Budget
    <2>3. \A kind \in Spendable : Cardinality(Failures(ex, s, kind)) <= Budget(kind)
      <3>1. \A kind \in Spendable : Budget(kind) \in Nat /\ Cardinality(Failures(ex, s, kind)) \in Nat
        BY FailuresAreFinite DEF Budget
      <3> QED BY <2>2, <3>1
    <2> QED BY <2>1, <2>2, <2>3 DEF EarnedOK
  <1>3. TypeOK /\ TypeOK' /\ TableInv /\ EarnedInv /\ [Next]_vars => EarnedInv'
    <2> SUFFICES ASSUME TypeOK, TypeOK', TableInv, EarnedInv, [Next]_vars PROVE EarnedInv'
      OBVIOUS
    <2>1. ASSUME NEW s \in Step PROVE EarnedOK(ex', seen', s)
      <3>1. /\ ex \in Execution /\ ex' \in Execution /\ TableOK(ex, seen, s)
            /\ EarnedOK(ex, seen, s) /\ Moves(ex, ex', seen, seen', s)
        BY EveryStepMoves DEF TypeOK, TableInv, TablesOK, EarnedInv, StepsMove
      <3> QED BY <3>1, EarnedMoves
    <2>2. \A s \in Step : EarnedOK(ex', seen', s) => EarnedOK(ex, seen, s)'
      BY DEF EarnedOK, Failures, Fresh, Told
    <2> QED BY <2>1, <2>2 DEF EarnedInv
  <1>4. EarnedInv => RetriesAreEarned
    <2> SUFFICES ASSUME EarnedInv, NEW s \in Step
                 PROVE  /\ \A a \in Attempt : a < ex.cur[s] => ex.err[<<s, a>>] # "none"
                        /\ Cardinality(Failures(ex, s, "work")) <= MaxAttempts
                        /\ Cardinality(Failures(ex, s, "unavailable")) <= MaxUnavailable
      BY DEF RetriesAreEarned, Failures
    <2> QED BY DEF EarnedInv, EarnedOK, Spendable, Budget
  <1> QED BY <1>1, <1>2, <1>3, <1>4, TableInit, TypeCorrect, PTL DEF Spec

-----------------------------------------------------------------------------
(* The run and its steps *)

\* A step that waits has its question, a gate is never claimed, and what was skipped
\* never began.
StateOK(d, s) ==
    /\ d.st[s] = "AwaitingInput" => d.ask[s] # NoQuestion
    /\ s \in Human => d.st[s] \notin {"Pending", "Running"}
    /\ d.st[s] = "Cancelled" => d.cur[s] = 0

\* Where nobody cancels or retries, what has ended stays as it ended.
LEMMA EndedMoves ==
  ASSUME Solo, NeverRefused, "Retry" \notin Commands,
         NEW d \in Execution, NEW e \in Execution, NEW sn, NEW tn, NEW s \in Step,
         TableOK(d, sn, s), FinalOK(d, sn, s), WorkOK(d, sn, s), StateOK(d, s),
         Moves(d, e, sn, tn, s), CutOff(d, e, s) => e.cur[s] = 0
  PROVE  /\ StateOK(e, s)
         /\ Terminal(d.st[s]) => e.st[s] = d.st[s]
  <1> DEFINE G == StateOK(e, s) /\ (Terminal(d.st[s]) => e.st[s] = d.st[s])
  <1>1. /\ d.cur[s] \in 0..MaxAttempt /\ d.ask[s] \in Question /\ Deadline[s] # NoQuestion
        /\ "outcome" \in Heard /\ "cache-hit" \in Heard /\ "started" \in Heard
        /\ HeardOK(d, sn, s) /\ BeginsOK(d, s) /\ ToldOK(d, sn, s)
    BY Shape DEF Heard, TableOK, NoClock, NoQuestion
  <1>2. d.st[s] = "Completed" => e.st[s] = "Completed"
    BY CompletedMoves
  <1>3. ASSUME e.st[s] = d.st[s], e.cur[s] = d.cur[s],
               d.ask[s] # NoQuestion => e.ask[s] # NoQuestion
        PROVE  G
    BY <1>3 DEF StateOK
  <1>4. CASE Kept(sn, tn, s) /\ MovesQuietly(d, e, s)
    <2>1. CASE Same(d, e, s) \/ Touched(d, e, s)
      BY <1>3, <2>1 DEF Same, Touched
    <2>2. CASE GrownOlder(d, e, s)
      BY <1>1, <1>3, <2>2 DEF GrownOlder, NoQuestion, NoClock, Question
    <2>3. CASE Dispatched(d, e, s)
      BY <1>1, <2>3 DEF Dispatched, SchedulePart, StateOK, Terminal
    <2>4. CASE CutOff(d, e, s)
      BY <2>4 DEF CutOff, SkipPart, StateOK
    <2> QED BY <1>4, <2>1, <2>2, <2>3, <2>4 DEF MovesQuietly, TriedAgain
  <1>5. ASSUME NEW a \in Attempt, Kept(sn, tn, s), MovesWaiting(d, e, s, a) PROVE G
    <2>1. d.cur[s] = a /\ d.ask[s] # NoQuestion /\ a > 0
      BY <1>5 DEF MovesWaiting, IsWaiting
    <2>2. ~Terminal(d.st[s])
      BY <1>1, <2>1 DEF BeginsOK, FinalOK, StateOK, Terminal
    <2>3. e.st[s] \in {"Completed", "Failed", "Crashed", "Pending"} /\ (s \in Human => e.st[s] # "Pending")
      BY <1>5 DEF MovesWaiting, Lapsed, GateAnswered, TaskAnswered, CompletePart, FailPart,
         GatePart, AnswerPart, AttemptState
    <2> QED BY <2>2, <2>3 DEF StateOK
  <1>6. ASSUME NEW a \in Attempt, MovesTold(d, e, sn, tn, s, a) PROVE G
    <2>1. /\ s \notin Human /\ Reported(d, sn, s, a) /\ d.cur[s] > 0
          /\ s \in Cacheable => ~Told(sn, s, a, "cache-hit") /\ ~Told(sn, s, a, "outcome")
      BY <1>1, <1>6 DEF MovesTold, Reported
    <2>2. ASSUME d.cur[s] = a, ~Told(sn, s, a, "outcome") PROVE d.st[s] \notin {"Failed", "Crashed"}
      BY <1>1, <2>1, <2>2 DEF ToldOK
    <2>3. d.st[s] # "Cancelled"
      BY <2>1 DEF StateOK
    <2>4. CASE StartTold(d, e, sn, tn, s, a)
      <3>1. d.cur[s] = a /\ ~Told(sn, s, a, "started") /\ e.st[s] = "Running"
        BY <2>4 DEF StartTold, Adds, StartPart
      <3>2. ~Told(sn, s, a, "cache-hit")
        BY <1>1, <2>1 DEF HeardOK
      <3>3. d.st[s] = "Pending"
        BY <2>1, <3>1, <3>2 DEF WorkOK
      <3> QED BY <2>1, <3>1, <3>3 DEF StateOK, Terminal
    <2>5. CASE DoneTold(d, e, sn, tn, s, a)
      <3>1. d.cur[s] = a /\ ~Told(sn, s, a, "outcome") /\ e.st[s] = "Completed"
        BY <2>5 DEF DoneTold, Adds, CompletePart
      <3> QED BY <2>1, <2>2, <2>3, <3>1 DEF StateOK, Terminal
    <2>6. CASE AskTold(d, e, sn, tn, s, a)
      BY <1>1, <2>1, <2>6 DEF AskTold, AskPart, StateOK
    <2>7. CASE FailTold(d, e, sn, tn, s, a) \/ RetryTold(d, e, sn, tn, s, a)
      <3>1. ~Told(sn, s, a, "outcome") /\ e.st[s] \in {"Failed", "Crashed", "Pending"}
        BY <2>7 DEF FailTold, RetryTold, Adds, FailPart, FailRetryPart, AttemptState
      <3>2. d.cur[s] = a
        BY <2>1, <3>1, CurrentAttempt
      <3> QED BY <1>2, <2>1, <2>2, <2>3, <3>1, <3>2 DEF StateOK, Terminal
    <2>8. CASE HitTold(d, e, sn, tn, s, a)
      <3>1. d.cur[s] = a /\ s \in Cacheable /\ e.st[s] = "Completed"
        BY <1>1, <2>8 DEF HitTold, FoundPart, HeardOK
      <3> QED BY <2>1, <2>2, <2>3, <3>1 DEF StateOK, Terminal
    <2>9. CASE TwiceTold(d, e, sn, tn, s, a)
      BY <1>3, <2>9 DEF TwiceTold, Same
    <2> QED BY <1>6, <2>4, <2>5, <2>6, <2>7, <2>8, <2>9 DEF MovesTold
  <1> QED BY <1>4, <1>5, <1>6 DEF Moves

StatesOK == \A s \in Step : StateOK(ex, s)

LEMMA StatesStep ==
  ASSUME PodStep = {}, Solo, NeverRefused, "Cancel" \notin Commands, "Retry" \notin Commands,
         TypeOK, TypeOK', OrderInv, OrderInv', WorkInv, StatesOK, [Next]_vars
  PROVE  /\ StatesOK'
         /\ \A s \in Step : Terminal(ex.st[s]) => ex'.st[s] = ex.st[s]
  <1>1. ASSUME NEW s \in Step
        PROVE  StateOK(ex', s) /\ (Terminal(ex.st[s]) => ex'.st[s] = ex.st[s])
    <2>1. /\ ex \in Execution /\ ex' \in Execution /\ TableOK(ex, seen, s) /\ WorkOK(ex, seen, s)
          /\ FinalOK(ex, seen, s) /\ StateOK(ex, s) /\ Moves(ex, ex', seen, seen', s)
      BY EveryStepMoves DEF TypeOK, OrderInv, TableInv, TablesOK, FinalInv, WorkInv, StatesOK,
         StepsMove
    <2>2. CutOff(ex, ex', s) => ex'.cur[s] = 0
      BY SkippedUnreached
    <2> QED BY <2>1, <2>2, EndedMoves
  <1>2. \A s \in Step : StateOK(ex', s) => StateOK(ex, s)'
    BY DEF StateOK
  <1> QED BY <1>1, <1>2 DEF StatesOK

AllDone(d) == \A s \in Step : d.st[s] = "Completed"

\* Nothing about the run or about where a step stands.
Idles(d, e) == e.run = d.run /\ \A s \in Step : e.st[s] = d.st[s] /\ e.cur[s] = d.cur[s]

\* continue_after: the run is over, or everything that can be dispatched is.
GoesOn(d, e) ==
    /\ \A s \in Step : e.st[s] \in {d.st[s], "Completed", "Pending", "AwaitingInput"}
    /\ AllDone(e) => e.run = "Completed"
    /\ ~AllDone(e) => e.run = d.run /\ (d.run # "Paused" => Ready(e) = {})

\* One step is started, asks, is retried or is answered.
Works(d, e) ==
    /\ e.run = d.run
    /\ \E s \in Step : /\ e.st[s] \in {"Pending", "Running", "AwaitingInput"}
                       /\ \A t \in Step \ {s} : e.st[t] = d.st[t]

\* settle_failure.
Fails(d, e) ==
    /\ e.run = "Failed"
    /\ \E f \in Step : /\ e.st[f] \in {"Failed", "Crashed"}
                       /\ \A c \in Downstream(f) : Terminal(e.st[c])

\* A start or a resume.
Begins(d, e) ==
    /\ d.run \in {"Empty", "Paused"} /\ e.run = "Running" /\ Ready(e) = {}
    /\ \A s \in Step : e.st[s] \in {d.st[s], "Pending", "AwaitingInput"}

Pauses(d, e) ==
    /\ d.run # "Empty" /\ ~Terminal(d.run) /\ e.run = "Paused"
    /\ \A s \in Step : e.st[s] = d.st[s]

\* A decision about a step that has an attempt.
Decides(d, e) ==
    /\ e.cancelling = d.cancelling
    /\ GoesOn(d, e) \/ Works(d, e) \/ Fails(d, e)

RunMoves(d, e) ==
    /\ e.cancelling = d.cancelling
    /\ \/ Idles(d, e) \/ Begins(d, e) \/ Pauses(d, e)
       \/ Decides(d, e) /\ \E s \in Step : d.cur[s] > 0

\* Nothing is ready once dispatch_ready has been.
LEMMA DispatchSettles ==
  ASSUME NEW d \in Execution, ~d.cancelling
  PROVE  /\ DispatchReady(d).run = d.run /\ DispatchReady(d).cancelling = d.cancelling
         /\ d.run # "Paused" => Ready(DispatchReady(d)) = {}
         /\ \A s \in Step : /\ DispatchReady(d).st[s] \in {d.st[s], "Pending", "AwaitingInput"}
                            /\ d.st[s] = "Completed" => DispatchReady(d).st[s] = "Completed"
  <1>1. CASE d.run = "Paused"
    <2>1. DispatchReady(d) = d
      BY <1>1 DEF DispatchReady
    <2> QED BY <1>1, <2>1
  <1>2. CASE d.run # "Paused"
    <2> DEFINE R == Ready(d)
               e == ScheduleAttempts(d, R, 1)
    <2>1. DispatchReady(d) = e
      BY <1>2 DEF DispatchReady
    <2>2. R \in SUBSET Step /\ 1 \in Attempt
      BY DEF Ready
    <2>3. \A t \in Step : t \in R <=> d.st[t] = "Scheduled" /\ \A p \in Parents[t] : d.st[p] = "Completed"
      BY DEF Ready
    <2> HIDE DEF R
    <2>4. ScheduleAttemptsWrote(d, e, R, 1)
      BY <2>2, ScheduleAttemptsWrites
    <2> HIDE DEF e
    <2>5. /\ SameRun(d, e)
          /\ \A t \in R : e.st[t] \in {"Pending", "AwaitingInput"}
          /\ \A t \in Step \ R : e.st[t] = d.st[t]
      BY <2>2, <2>4 DEF ScheduleAttemptsWrote, SchedulePart, Same
    <2>6. Ready(e) = {}
      <3> SUFFICES ASSUME NEW t \in Step, e.st[t] = "Scheduled",
                          \A p \in Parents[t] : e.st[p] = "Completed"
                   PROVE  FALSE
        BY DEF Ready
      <3>1. t \notin R /\ d.st[t] = "Scheduled"
        BY <2>5
      <3>2. \A p \in Parents[t] : p \in Step /\ d.st[p] = "Completed"
        BY <2>5
      <3> QED BY <2>3, <3>1, <3>2
    <2> QED BY <2>1, <2>3, <2>5, <2>6 DEF SameRun
  <1> QED BY <1>1, <1>2

LEMMA ContinueSettles ==
  ASSUME NEW d, NEW m \in Execution, SameRun(d, m), ~d.cancelling,
         \A s \in Step : m.st[s] \in {d.st[s], "Completed"}
  PROVE  /\ GoesOn(d, ContinueAfter(m))
         /\ ContinueAfter(m).cancelling = d.cancelling
  <1> DEFINE e == ContinueAfter(m)
  <1>0. ~m.cancelling /\ m.run = d.run /\ m.cancelling = d.cancelling
    BY DEF SameRun
  <1>1. CASE AllDone(m)
    <2>1. e = [m EXCEPT !.run = "Completed"]
      BY <1>0, <1>1 DEF ContinueAfter, AllDone
    <2>2. e.run = "Completed" /\ e.cancelling = m.cancelling /\ \A s \in Step : e.st[s] = m.st[s]
      BY <2>1 DEF Execution
    <2> HIDE DEF e
    <2>3. AllDone(e) /\ \A s \in Step : e.st[s] = "Completed"
      BY <1>1, <2>2 DEF AllDone
    <2>4. GoesOn(d, e)
      BY <2>2, <2>3 DEF GoesOn
    <2> QED BY <1>0, <2>2, <2>4 DEF e
  <1>2. CASE ~AllDone(m)
    <2>1. e = DispatchReady(m)
      BY <1>0, <1>2 DEF ContinueAfter, AllDone
    <2> HIDE DEF e
    <2>2. /\ e.run = m.run /\ e.cancelling = m.cancelling
          /\ m.run # "Paused" => Ready(e) = {}
          /\ \A s \in Step : e.st[s] \in {m.st[s], "Pending", "AwaitingInput"}
      BY <1>0, <2>1, DispatchSettles
    <2>3. ~AllDone(e)
      BY <1>2, <2>2 DEF AllDone
    <2>4. \A s \in Step : e.st[s] \in {d.st[s], "Completed", "Pending", "AwaitingInput"}
      BY <2>2
    <2>5. GoesOn(d, e)
      BY <1>0, <2>2, <2>3, <2>4 DEF GoesOn
    <2> QED BY <1>0, <2>2, <2>5 DEF e
  <1> QED BY <1>1, <1>2

LEMMA FailureSettles ==
  ASSUME NEW d, NEW m \in Execution, SameRun(d, m), ~d.cancelling,
         NEW s \in Step, m.st[s] \in {"Failed", "Crashed"}
  PROVE  /\ Fails(d, SettleFailure(m, s))
         /\ SettleFailure(m, s).cancelling = d.cancelling
  <1> DEFINE T == {c \in Downstream(s) : ~Terminal(m.st[c])}
             q == SkipSteps(m, T)
             e == [q EXCEPT !.run = "Failed"]
  <1>1. T \in SUBSET Step /\ s \notin T /\ \A c \in Downstream(s) : c \in Step /\ (c \in T \/ Terminal(m.st[c]))
    BY DEF Downstream, Terminal
  <1>2. SettleFailure(m, s) = e
    BY DEF SettleFailure, SkipDownstream, SameRun
  <1> HIDE DEF T
  <1>3. q \in Execution /\ SkipStepsWrote(m, q, T)
    BY <1>1, SkipStepsWrites, SkipStepsType
  <1> HIDE DEF q
  <1>4. e.run = "Failed" /\ e.cancelling = q.cancelling /\ e.st = q.st
    BY <1>3 DEF Execution
  <1> HIDE DEF e
  <1>5. /\ SameRun(m, q) /\ \A t \in Step \ T : q.st[t] = m.st[t]
        /\ \A t \in T : q.st[t] = "Cancelled"
    BY <1>3 DEF SkipStepsWrote, SkipPart, Same
  <1>6. e.st[s] \in {"Failed", "Crashed"}
    BY <1>1, <1>4, <1>5
  <1>7. ASSUME NEW c \in Downstream(s) PROVE Terminal(e.st[c])
    BY <1>1, <1>4, <1>5 DEF Terminal
  <1>8. Fails(d, e)
    BY <1>4, <1>6, <1>7 DEF Fails
  <1> QED BY <1>2, <1>4, <1>5, <1>8 DEF SameRun

\* One step is written and nothing else of the plan.
LEMMA OneWorks ==
  ASSUME NEW d, NEW e, NEW s \in Step, SameRun(d, e), \A t \in Step \ {s} : Same(d, e, t),
         e.st[s] \in {"Pending", "Running", "AwaitingInput"}
  PROVE  Decides(d, e)
  <1>1. Works(d, e)
    BY DEF Works, SameRun, Same
  <1> QED BY <1>1 DEF Decides, SameRun

LEMMA CompletionDecides ==
  ASSUME NEW d \in Execution, NEW s \in Step, NEW a \in Attempt, ~d.cancelling
  PROVE  Decides(d, ContinueAfter(Complete(d, s, a)))
  <1> DEFINE m == Complete(d, s, a)
             e == ContinueAfter(m)
  <1>1. m \in Execution /\ CompleteWrote(d, m, s, a)
    BY CompleteType, CompleteWrites
  <1> HIDE DEF m
  <1>2. SameRun(d, m) /\ \A t \in Step : m.st[t] \in {d.st[t], "Completed"}
    BY <1>1 DEF CompleteWrote, CompletePart, Same
  <1>3. GoesOn(d, e) /\ e.cancelling = d.cancelling
    BY <1>1, <1>2, ContinueSettles
  <1> QED BY <1>3 DEF Decides, m

LEMMA HitDecides ==
  ASSUME NEW d \in Execution, NEW s \in Step, NEW a \in Attempt, ~d.cancelling
  PROVE  Decides(d, ContinueAfter(Found(d, s, a)))
  <1> DEFINE m == Found(d, s, a)
             e == ContinueAfter(m)
  <1>1. FoundWrote(d, m, s, a)
    BY FoundWrites
  <1> HIDE DEF m
  <1>2. m \in Execution /\ SameRun(d, m) /\ \A t \in Step : m.st[t] \in {d.st[t], "Completed"}
    BY <1>1 DEF FoundWrote, FoundPart, Same
  <1>3. GoesOn(d, e) /\ e.cancelling = d.cancelling
    BY <1>2, ContinueSettles
  <1> QED BY <1>3 DEF Decides, m

LEMMA FailureDecides ==
  ASSUME NEW d \in Execution, NEW s \in Step, NEW a \in Attempt, NEW class \in Class,
         ~d.cancelling
  PROVE  Decides(d, SettleFailure(Fail(d, s, a, class), s))
  <1> DEFINE m == Fail(d, s, a, class)
             e == SettleFailure(m, s)
  <1>1. m \in Execution /\ FailWrote(d, m, s, a, class)
    BY FailType, FailWrites
  <1> HIDE DEF m
  <1>2. SameRun(d, m) /\ m.st[s] \in {"Failed", "Crashed"}
    BY <1>1 DEF FailWrote, FailPart, AttemptState
  <1>3. Fails(d, e) /\ e.cancelling = d.cancelling
    BY <1>1, <1>2, FailureSettles
  <1> QED BY <1>3 DEF Decides, m

LEMMA RetryDecides ==
  ASSUME NEW d \in Execution, NEW s \in Step, NEW a \in Attempt, NEW class \in Class,
         a + 1 \in Attempt
  PROVE  Decides(d, ScheduleRetry(Fail(d, s, a, class), s, a + 1))
  <1> DEFINE m == Fail(d, s, a, class)
             e == ScheduleRetry(m, s, a + 1)
  <1>1. m \in Execution /\ FailWrote(d, m, s, a, class)
    BY FailType, FailWrites
  <1> HIDE DEF m
  <1>2. ScheduleRetryWrote(m, e, s, a + 1)
    BY <1>1, ScheduleRetryWrites
  <1> HIDE DEF e
  <1>3. SameRun(d, e) /\ (\A t \in Step \ {s} : Same(d, e, t)) /\ e.st[s] = "Pending"
    BY <1>1, <1>2 DEF FailWrote, ScheduleRetryWrote, RetryPart, SameRun, Same
  <1>4. Decides(d, e)
    BY <1>3, OneWorks
  <1> QED BY <1>4 DEF e, m

LEMMA AnswerDecides ==
  ASSUME NEW d \in Execution, NEW s \in Step, NEW a \in Attempt, ~d.cancelling,
         s \notin Human => a + 1 \in Attempt
  PROVE  Decides(d, AnswerLands(d, s, a))
  <1> DEFINE m == CloseQuestion(d, s, a)
  <1>1. m \in Execution /\ CloseQuestionWrote(d, m, s, a)
    BY CloseQuestionType, CloseQuestionWrites
  <1> HIDE DEF m
  <1>2. /\ SameRun(d, m) /\ \A t \in Step \ {s} : Same(d, m, t)
        /\ m.st[s] = d.st[s]
    BY <1>1 DEF CloseQuestionWrote, ClosePart
  <1>3. CASE s \in Human
    <2> DEFINE q == Complete(m, s, a)
               e == ContinueAfter(q)
    <2>1. AnswerLands(d, s, a) = e
      BY <1>3 DEF AnswerLands, m
    <2>2. q \in Execution /\ CompleteWrote(m, q, s, a)
      BY <1>1, CompleteType, CompleteWrites
    <2> HIDE DEF q
    <2>3. SameRun(d, q) /\ \A t \in Step : q.st[t] \in {d.st[t], "Completed"}
      BY <1>2, <2>2 DEF CompleteWrote, CompletePart, Same, SameRun
    <2>4. GoesOn(d, e) /\ e.cancelling = d.cancelling
      BY <2>2, <2>3, ContinueSettles
    <2> HIDE DEF e
    <2> QED BY <2>1, <2>4 DEF Decides
  <1>4. CASE s \notin Human
    <2> DEFINE n == a + 1
               S == {s}
               e == ScheduleAttempts(m, S, n)
    <2>1. AnswerLands(d, s, a) = e
      BY <1>4 DEF AnswerLands, m
    <2>2. n \in Attempt /\ S \in SUBSET Step
      BY <1>4
    <2>3. ScheduleAttemptsWrote(m, e, S, n)
      BY <1>1, <2>2, ScheduleAttemptsWrites
    <2> HIDE DEF e
    <2>4. SameRun(m, e) /\ SchedulePart(m, e, s, n) /\ \A t \in Step \ {s} : Same(m, e, t)
      BY <2>3 DEF ScheduleAttemptsWrote
    <2>5. SameRun(d, e) /\ (\A t \in Step \ {s} : Same(d, e, t)) /\ e.st[s] = "Pending"
      BY <1>2, <1>4, <2>4 DEF SchedulePart, SameRun, Same
    <2>6. Decides(d, e)
      BY <2>5, OneWorks
    <2> QED BY <2>1, <2>6
  <1> QED BY <1>3, <1>4

LEMMA DeadlineRuns ==
  ASSUME TypeOK, ~ex.cancelling, NEW k \in Key, FireDeadline(k)
  PROVE  RunMoves(ex, ex')
  <1> DEFINE s == k[1]
             a == k[2]
  <1>0. /\ ex \in Execution /\ s \in Step /\ a \in Attempt
        /\ (OnTimeout[s] = "Answer" /\ s \notin Human) => a + 1 \in Attempt
    <2>1. s \in Step /\ a \in Attempt /\ ex \in Execution
      BY DEF TypeOK
    <2>2. (OnTimeout[s] = "Answer" /\ s \notin Human) => a < MaxAttempt
      BY DEF FireDeadline
    <2>3. a < MaxAttempt => a + 1 \in Attempt
      BY <2>1
    <2> HIDE DEF s, a
    <2> QED BY <2>1, <2>2, <2>3
  <1>1. CASE ex' = [ex EXCEPT !.timers[k] = NoTimer]
    <2>1. SameButRows(ex, ex')
      BY <1>0, <1>1, TimerWrites DEF TimerWrote
    <2> QED BY <2>1 DEF SameButRows, SameRun, RunMoves, Idles
  <1>2. CASE ex' = ex
    BY <1>2 DEF RunMoves, Idles
  <1>3. CASE IsWaiting(ex, s, a) /\ ex' = TimeoutInput(ex, s, a)
    <2> HIDE DEF s, a
    <2>1. ex.cur[s] > 0
      BY <1>0, <1>3 DEF IsWaiting
    <2>2. Decides(ex, ex')
      <3>1. CASE OnTimeout[s] = "Fail"
        <4>1. ex' = SettleFailure(Fail(ex, s, a, "Policy"), s) /\ "Policy" \in Class
          BY <1>3, <3>1 DEF TimeoutInput, Class
        <4> QED BY <1>0, <4>1, FailureDecides
      <3>2. CASE OnTimeout[s] = "Skip"
        <4>1. ex' = ContinueAfter(Complete(ex, s, a))
          BY <1>3, <3>2 DEF TimeoutInput
        <4> QED BY <1>0, <4>1, CompletionDecides
      <3>3. CASE OnTimeout[s] = "Answer"
        <4>1. ex' = AnswerLands(ex, s, a)
          BY <1>3, <3>3 DEF TimeoutInput
        <4> QED BY <1>0, <3>3, <4>1, AnswerDecides
      <3> QED BY <1>0, <3>1, <3>2, <3>3
    <2> QED BY <1>0, <2>1, <2>2 DEF RunMoves, Decides
  <1> QED BY <1>1, <1>2, <1>3 DEF FireDeadline, Deliver

LEMMA CommandRuns ==
  ASSUME TypeOK, ~ex.cancelling, "Cancel" \notin Commands, "Retry" \notin Commands, Commanded
  PROVE  RunMoves(ex, ex')
  <1>0. ex \in Execution
    BY DEF TypeOK
  <1>1. CASE Start \/ Resume
    <2> DEFINE m == [ex EXCEPT !.run = "Running"]
    <2>1. ex' = DispatchReady(m) /\ ex.run \in {"Empty", "Paused"}
      BY <1>1 DEF Start, Resume, StartExecution, ResumeExecution
    <2>5. m \in Execution
      BY <1>0, RunType DEF RunState
    <2>6. m.run = "Running" /\ m.cancelling = ex.cancelling /\ m.st = ex.st
      BY <1>0 DEF Execution
    <2> HIDE DEF m
    <2>2. /\ m \in Execution /\ m.run = "Running" /\ m.cancelling = ex.cancelling
          /\ m.st = ex.st
      BY <2>5, <2>6
    <2>3. /\ ex'.run = "Running" /\ ex'.cancelling = ex.cancelling /\ Ready(ex') = {}
          /\ \A s \in Step : ex'.st[s] \in {m.st[s], "Pending", "AwaitingInput"}
      BY <2>1, <2>2, DispatchSettles
    <2>4. Begins(ex, ex')
      BY <2>1, <2>2, <2>3 DEF Begins
    <2> QED BY <2>3, <2>4 DEF RunMoves
  <1>2. CASE Pause
    <2>1. ex' = [ex EXCEPT !.run = "Paused"] /\ ex.run # "Empty" /\ ~Terminal(ex.run)
      BY <1>2 DEF Pause, PauseExecution
    <2>2. ex'.run = "Paused" /\ ex'.cancelling = ex.cancelling /\ ex'.st = ex.st
      BY <1>0, <2>1 DEF Execution
    <2> QED BY <2>1, <2>2 DEF RunMoves, Pauses
  <1>3. ASSUME NEW k \in Key, Answer(k) PROVE RunMoves(ex, ex')
    <2> DEFINE s == k[1]
               a == k[2]
    <2>1. /\ s \in Step /\ a \in Attempt /\ (s \notin Human => a + 1 \in Attempt)
          /\ ex' = AnswerLands(ex, s, a) /\ IsWaiting(ex, s, a)
      BY <1>3 DEF Answer, ProvideInput, MayProvideInput
    <2> HIDE DEF s, a
    <2>2. Decides(ex, ex')
      BY <1>0, <2>1, AnswerDecides
    <2>3. ex.cur[s] > 0
      BY <2>1 DEF IsWaiting
    <2> QED BY <2>1, <2>2, <2>3 DEF RunMoves, Decides
  <1>4. ~Cancel /\ \A s \in Step : ~Retry(s)
    BY DEF Cancel, Retry
  <1> QED BY <1>1, <1>2, <1>3, <1>4 DEF Commanded

LEMMA PassRuns ==
  ASSUME TypeOK, ~ex.cancelling, PassesKnow, NEW c \in Claimant,
         Work(c) \/ StopReactor(c) \/ Heartbeat(c) \/ Lose(c)
  PROVE  RunMoves(ex, ex')
  <1>0. ex \in Execution
    BY DEF TypeOK
  <1>1. ASSUME ex' = ex PROVE RunMoves(ex, ex')
    BY <1>1 DEF RunMoves, Idles
  <1>2. ASSUME SameButRows(ex, ex') PROVE RunMoves(ex, ex')
    BY <1>2 DEF SameButRows, SameRun, RunMoves, Idles
  <1>3. ASSUME NEW k \in Key, TakeClaim(c, k) PROVE RunMoves(ex, ex')
    <2>1. ex' = [ex EXCEPT !.rows[k] = Claim(ex.rows[k], c)]
      BY <1>3 DEF TakeClaim
    <2>2. SameButRows(ex, ex')
      BY <1>0, <2>1, RowWrites DEF RowWrote
    <2> QED BY <1>2, <2>2
  <1>4. ASSUME Heartbeat(c) \/ Settle(c) PROVE RunMoves(ex, ex')
    <2> DEFINE k == who[c].key
    <2>1. k \in Key
      BY <1>4 DEF Heartbeat, Settle, TypeOK
    <2>2. ex' = ex \/ ex' = [ex EXCEPT !.rows[k].age = 0]
      BY <1>4 DEF Heartbeat, Settle, Renewed
    <2> HIDE DEF k
    <2>3. ASSUME ex' = [ex EXCEPT !.rows[k].age = 0] PROVE SameButRows(ex, ex')
      BY <1>0, <2>1, <2>3, RenewalWrites DEF RowWrote
    <2> QED BY <1>1, <1>2, <2>2, <2>3
  <1>5. ASSUME \/ TakeReleased(c) \/ TakeRefused(c) \/ Lookup(c) \/ Execute(c) \/ Finish(c)
               \/ StopReactor(c) \/ Lose(c)
        PROVE  RunMoves(ex, ex')
    BY <1>1, <1>5 DEF TakeReleased, TakeRefused, Lookup, Execute, Finish, StopReactor, Lose
  <1> DEFINE s == who[c].key[1]
             a == who[c].key[2]
  <1>6. ASSUME TakeStarted(c) \/ TakeCacheHit(c) \/ Report(c)
        PROVE  /\ s \in Step /\ a \in Attempt /\ who[c].key = <<s, a>> /\ who[c].key \in Key
               /\ ex.cur[s] > 0
    <2>1. Active(who[c])
      BY <1>6 DEF TakeStarted, TakeCacheHit, Report, Active
    <2>2. /\ s \in Step /\ a \in Attempt /\ who[c].key = <<s, a>> /\ who[c].key \in Key
          /\ Reported(ex, seen, s, a)
      BY <2>1, PassAttempt
    <2> HIDE DEF s, a
    <2>3. ex.cur[s] \in 0..MaxAttempt
      BY <1>0, <2>2, Shape
    <2> QED BY <2>2, <2>3 DEF Reported
  <1>7. ASSUME NEW next, Decides(ex, next), s \in Step, ex.cur[s] > 0
        PROVE  RunMoves(ex, next)
    BY <1>7 DEF RunMoves, Decides
  <1>8. ASSUME TakeStarted(c) PROVE RunMoves(ex, ex')
    <2> DEFINE e == StepStarted(ex, s, a)
    <2>1. ex' = e \/ ex' = ex
      BY <1>8 DEF TakeStarted, Deliver
    <2>2. s \in Step /\ a \in Attempt /\ ex.cur[s] > 0
      BY <1>6, <1>8
    <2> HIDE DEF s, a
    <2>3. StepStartedWrote(ex, e, s, a)
      BY <1>0, <2>2, StepStartedWrites
    <2> HIDE DEF e
    <2>4. Decides(ex, e)
      BY <2>2, <2>3, OneWorks DEF StepStartedWrote, StartPart
    <2> QED BY <1>1, <2>1, <2>2, <2>4 DEF RunMoves, Decides
  <1>9. ASSUME TakeCacheHit(c) PROVE RunMoves(ex, ex')
    <2>1. ex' = StepCacheHit(ex, s, a) \/ ex' = ex
      BY <1>9 DEF TakeCacheHit, Deliver
    <2>2. s \in Step /\ a \in Attempt /\ ex.cur[s] > 0
      BY <1>6, <1>9
    <2>3. StepCacheHit(ex, s, a) \in {ex, ContinueAfter(Found(ex, s, a))}
      BY DEF StepCacheHit, Found
    <2> HIDE DEF s, a
    <2>4. Decides(ex, ContinueAfter(Found(ex, s, a)))
      BY <1>0, <2>2, HitDecides
    <2>5. ex' = ex \/ ex' = ContinueAfter(Found(ex, s, a))
      BY <2>1, <2>3
    <2>6. ex' = ex \/ Decides(ex, ex')
      BY <2>4, <2>5
    <2> QED BY <1>1, <2>2, <2>6 DEF RunMoves, Decides
  <1>10. ASSUME Report(c) PROVE RunMoves(ex, ex')
    <2> DEFINE out == who[c].out
    <2>1. out \in Outcome
      BY <1>10 DEF Report, TypeOK
    <2>2. s \in Step /\ a \in Attempt /\ ex.cur[s] > 0 /\ who[c].key = <<s, a>>
      BY <1>6, <1>10
    <2>3. CASE out = "Completed"
      <3>1. ex' = ex \/ ex' = StepCompleted(ex, s, a)
        BY <1>10, <2>3 DEF Report, Deliver
      <3>2. ex' = ex \/ ex' = ContinueAfter(Complete(ex, s, a))
        BY <3>1 DEF StepCompleted
      <3> HIDE DEF s, a
      <3>3. ex' = ex \/ Decides(ex, ex')
        BY <1>0, <2>2, <3>2, CompletionDecides
      <3> QED BY <1>1, <2>2, <3>3 DEF RunMoves, Decides
    <2>4. CASE out = "Ask"
      <3> DEFINE e == InputRequested(ex, s, a)
      <3>1. ex' = ex \/ ex' = e
        BY <1>10, <2>4 DEF Report, Deliver
      <3> HIDE DEF s, a
      <3>2. InputRequestedWrote(ex, e, s, a)
        BY <1>0, <2>2, InputRequestedWrites
      <3> HIDE DEF e
      <3>3. Decides(ex, e)
        BY <2>2, <3>2, OneWorks DEF InputRequestedWrote, AskPart
      <3> QED BY <1>1, <2>2, <3>1, <3>3 DEF RunMoves, Decides
    <2>5. CASE out \notin {"Completed", "Ask"}
      <3>1. /\ ex' = ex \/ ex' = StepFailed(ex, s, a, out)
            /\ Fits(<<s, a>>, out) /\ out \in Class
        BY <1>10, <2>1, <2>2, <2>5 DEF Report, Deliver, Outcome
      <3>2. MayRetry(ex, s, out) => a + 1 \in Attempt
        BY <2>2, <3>1 DEF Fits
      <3>3. \/ ex' = ex
            \/ MayRetry(ex, s, out) /\ ex' = ScheduleRetry(Fail(ex, s, a, out), s, a + 1)
            \/ ex' = SettleFailure(Fail(ex, s, a, out), s)
        BY <3>1 DEF StepFailed
      <3> HIDE DEF s, a, out
      <3>4. MayRetry(ex, s, out) => Decides(ex, ScheduleRetry(Fail(ex, s, a, out), s, a + 1))
        BY <1>0, <2>2, <3>1, <3>2, RetryDecides
      <3>5. Decides(ex, SettleFailure(Fail(ex, s, a, out), s))
        BY <1>0, <2>2, <3>1, FailureDecides
      <3>6. ex' = ex \/ Decides(ex, ex')
        BY <3>3, <3>4, <3>5
      <3> QED BY <1>1, <2>2, <3>6 DEF RunMoves, Decides
    <2> QED BY <2>3, <2>4, <2>5
  <1> QED BY <1>3, <1>4, <1>5, <1>8, <1>9, <1>10 DEF Work

LEMMA EveryStepRuns ==
  ASSUME TypeOK, PassesKnow, PodStep = {}, "Cancel" \notin Commands, "Retry" \notin Commands,
         ~ex.cancelling, [Next]_vars
  PROVE  RunMoves(ex, ex')
  <1>1. ASSUME ex' = ex PROVE RunMoves(ex, ex')
    BY <1>1 DEF RunMoves, Idles
  <1>2. \A k \in Key : ~PodEnds(k) /\ ~Launcher(k)
    BY NoPods DEF PassesKnow
  <1>3. ASSUME NEW k \in Key, RuntimeFinishes(k) PROVE RunMoves(ex, ex')
    BY <1>1, <1>3 DEF RuntimeFinishes
  <1>4. CASE UNCHANGED vars
    BY <1>1, <1>4 DEF vars
  <1>5. CASE Tick
    <2>1. AgedWrote(ex, ex')
      BY <1>5, AgedWrites DEF Tick, TypeOK
    <2> QED BY <2>1 DEF AgedWrote, SameRun, RunMoves, Idles
  <1> QED BY <1>2, <1>3, <1>4, <1>5, CommandRuns, DeadlineRuns, PassRuns DEF Next

\* A run and its steps: nothing has ended badly while the run goes on, nothing that
\* could be dispatched waits while it is Running, and below the failure that ended it
\* everything is skipped.
AgreeOK(d) ==
    /\ d.run \in {"Empty", "Running", "Paused", "Completed", "Failed"} /\ ~d.cancelling
    /\ d.run = "Empty" => \A s \in Step : d.st[s] = "Scheduled" /\ d.cur[s] = 0
    /\ d.run \in {"Running", "Paused"} =>
          ~AllDone(d) /\ \A s \in Step : d.st[s] \notin {"Failed", "Crashed", "Cancelled"}
    /\ d.run = "Running" => Ready(d) = {}
    /\ d.run = "Completed" => AllDone(d)
    /\ d.run = "Failed" => \E f \in Step : /\ d.st[f] \in {"Failed", "Crashed"}
                                           /\ \A c \in Downstream(f) : d.st[c] = "Cancelled"

LEMMA AgreeMoves ==
  ASSUME Step # {}, NEW d \in Execution, NEW e \in Execution, AgreeOK(d), RunMoves(d, e),
         \A s \in Step : Terminal(d.st[s]) => e.st[s] = d.st[s],
         \A f \in Step : e.st[f] \in {"Failed", "Crashed"} =>
             \A c \in Downstream(f) : e.st[c] \in {"Scheduled", "Cancelled"}
  PROVE  AgreeOK(e)
  <1>0. /\ d.run \in {"Empty", "Running", "Paused", "Completed", "Failed"} /\ ~d.cancelling
        /\ ~e.cancelling /\ \A f \in Step : Downstream(f) \subseteq Step
        /\ \A s \in Step : Parents[s] \subseteq Step
    BY DEF AgreeOK, RunMoves, Downstream
  \* What is over stays over.
  <1>1. ASSUME d.run = "Completed" PROVE AllDone(e)
    BY <1>1 DEF AgreeOK, AllDone, Terminal
  <1>2. ASSUME d.run = "Failed"
        PROVE  /\ ~AllDone(e)
               /\ \E f \in Step : /\ e.st[f] \in {"Failed", "Crashed"}
                                  /\ \A c \in Downstream(f) : e.st[c] = "Cancelled"
    <2>1. PICK f \in Step : /\ d.st[f] \in {"Failed", "Crashed"}
                            /\ \A c \in Downstream(f) : d.st[c] = "Cancelled"
      BY <1>2 DEF AgreeOK
    <2>2. e.st[f] = d.st[f] /\ \A c \in Downstream(f) : e.st[c] = "Cancelled"
      BY <1>0, <2>1 DEF Terminal
    <2> QED BY <2>1, <2>2 DEF AllDone
  <1>3. CASE Idles(d, e)
    <2>1. e.run = d.run /\ \A s \in Step : e.st[s] = d.st[s] /\ e.cur[s] = d.cur[s]
      BY <1>3 DEF Idles
    <2>2. Ready(e) = Ready(d) /\ (AllDone(e) <=> AllDone(d))
      BY <1>0, <2>1 DEF Ready, AllDone
    <2> QED BY <1>0, <1>1, <1>2, <2>1, <2>2 DEF AgreeOK
  <1>4. CASE Begins(d, e)
    <2>1. ~AllDone(d) /\ \A s \in Step : d.st[s] \notin {"Failed", "Crashed", "Cancelled"}
      BY <1>4 DEF Begins, AgreeOK, AllDone
    <2>2. ~AllDone(e) /\ \A s \in Step : e.st[s] \notin {"Failed", "Crashed", "Cancelled"}
      BY <1>4, <2>1 DEF Begins, AllDone
    <2> QED BY <1>0, <1>4, <2>2 DEF Begins, AgreeOK
  <1>5. CASE Pauses(d, e)
    <2>1. ~AllDone(d) /\ \A s \in Step : d.st[s] \notin {"Failed", "Crashed", "Cancelled"}
      BY <1>0, <1>5 DEF Pauses, AgreeOK, Terminal
    <2>2. ~AllDone(e) /\ \A s \in Step : e.st[s] \notin {"Failed", "Crashed", "Cancelled"}
      BY <1>5, <2>1 DEF Pauses, AllDone
    <2> QED BY <1>0, <1>5, <2>2 DEF Pauses, AgreeOK
  <1>6. ASSUME NEW x \in Step, d.cur[x] > 0 PROVE d.run # "Empty"
    BY <1>6 DEF AgreeOK
  <1>7. CASE Fails(d, e)
    <2>1. PICK f \in Step : /\ e.st[f] \in {"Failed", "Crashed"}
                            /\ \A c \in Downstream(f) : Terminal(e.st[c])
      BY <1>7 DEF Fails
    <2>2. \A c \in Downstream(f) : e.st[c] = "Cancelled"
      BY <2>1 DEF Terminal
    <2>3. e.run = "Failed"
      BY <1>7 DEF Fails
    <2> QED BY <1>0, <2>1, <2>2, <2>3 DEF AgreeOK
  <1>8. CASE GoesOn(d, e) /\ d.run # "Empty"
    <2>1. CASE AllDone(e)
      <3>1. e.run = "Completed"
        BY <1>8, <2>1 DEF GoesOn
      <3> QED BY <1>0, <2>1, <3>1 DEF AgreeOK
    <2>2. CASE ~AllDone(e)
      <3>1. e.run = d.run /\ (d.run # "Paused" => Ready(e) = {}) /\ d.run # "Completed"
        BY <1>1, <1>8, <2>2 DEF GoesOn
      <3>2. d.run \in {"Running", "Paused"} =>
              \A s \in Step : e.st[s] \notin {"Failed", "Crashed", "Cancelled"}
        BY <1>8 DEF GoesOn, AgreeOK
      <3> QED BY <1>0, <1>2, <1>8, <2>2, <3>1, <3>2 DEF AgreeOK
    <2> QED BY <2>1, <2>2
  <1>9. CASE Works(d, e) /\ d.run # "Empty"
    <2>1. PICK s \in Step : /\ e.st[s] \in {"Pending", "Running", "AwaitingInput"}
                            /\ \A t \in Step \ {s} : e.st[t] = d.st[t]
      BY <1>9 DEF Works
    <2>2. ~AllDone(e) /\ e.run = d.run
      BY <1>9, <2>1 DEF Works, AllDone
    <2>3. Ready(e) \subseteq Ready(d)
      BY <1>0, <2>1 DEF Ready
    <2>4. d.run \in {"Running", "Paused"} =>
            \A t \in Step : e.st[t] \notin {"Failed", "Crashed", "Cancelled"}
      BY <2>1 DEF AgreeOK
    <2> QED BY <1>0, <1>1, <1>2, <1>9, <2>2, <2>3, <2>4 DEF AgreeOK
  <1> QED BY <1>3, <1>4, <1>5, <1>6, <1>7, <1>8, <1>9 DEF RunMoves, Decides

\* The plans compile.rs and plan.rs let through: with a step, and without a cycle.
SoundPlan ==
    /\ Step # {}
    /\ \E rank \in [Step -> Nat] : \A s \in Step : \A p \in Parents[s] : rank[p] < rank[s]

\* Some step that is not Completed has only Completed parents.
LEMMA FirstUnfinished ==
  ASSUME SoundPlan, NEW d, ~AllDone(d)
  PROVE  \E s \in Step : d.st[s] # "Completed" /\ \A p \in Parents[s] : d.st[p] = "Completed"
  <1>1. PICK rank \in [Step -> Nat] : \A s \in Step : \A p \in Parents[s] : rank[p] < rank[s]
    BY DEF SoundPlan
  <1> DEFINE T == {rank[s] : s \in {x \in Step : d.st[x] # "Completed"}}
  <1>2. T \in SUBSET Nat /\ T # {}
    BY DEF AllDone
  <1>3. PICK n \in T : \A m \in T : n <= m
    <2> HIDE DEF T
    <2> QED BY <1>2, LeastNumber
  <1>4. PICK s \in Step : d.st[s] # "Completed" /\ n = rank[s]
    BY <1>3
  <1>5. ASSUME NEW p \in Parents[s], d.st[p] # "Completed" PROVE FALSE
    <2>1. p \in Step /\ rank[p] \in T
      BY <1>5
    <2>2. rank[s] <= rank[p] /\ rank[p] < rank[s] /\ rank[p] \in Nat /\ rank[s] \in Nat
      BY <1>1, <1>3, <1>4, <2>1
    <2> QED BY <2>2
  <1> QED BY <1>4, <1>5

\* decide.rs continue_after, settle_failure: in every sound plan without container jobs,
\* a run that says Completed has only Completed steps, one that says Failed has a failed
\* step below which everything is skipped, and one that is Running has an attempt
\* somebody can take or a question somebody can answer; through pauses, takeovers, late
\* and repeated reports, answers and deadlines.  Nobody may cancel or retry by hand (a
\* retry leaves the run Failed while its step succeeds), and no attempt may end between
\* its claim and its step.started, as for NothingIsStranded.
THEOREM RunAgrees ==
  PodStep = {} /\ Solo /\ NeverRefused /\ SoundPlan /\ Commands \cap {"Cancel", "Retry"} = {}
    => (Spec => []RunAgreesWithSteps)
  <1> SUFFICES ASSUME PodStep = {}, Solo, NeverRefused, SoundPlan,
                      "Cancel" \notin Commands, "Retry" \notin Commands
               PROVE  Spec => []RunAgreesWithSteps
    OBVIOUS
  <1>1. TypeOK /\ TypeOK' /\ OrderInv /\ [Next]_vars => OrderInv'
    BY OrderStep
  <1>2. TypeOK /\ TypeOK' /\ OrderInv /\ OrderInv' /\ WorkInv /\ [Next]_vars => WorkInv'
    BY WorkStep
  <1>3. Init => StatesOK /\ AgreeOK(ex)
    BY DEF Init, NotStarted, StatesOK, StateOK, AgreeOK
  <1>4. TypeOK /\ TypeOK' /\ OrderInv /\ OrderInv' /\ WorkInv /\ StatesOK /\ AgreeOK(ex)
          /\ [Next]_vars => StatesOK' /\ AgreeOK(ex')
    <2> SUFFICES ASSUME TypeOK, TypeOK', OrderInv, OrderInv', WorkInv, StatesOK, AgreeOK(ex),
                        [Next]_vars
                 PROVE  StatesOK' /\ AgreeOK(ex')
      OBVIOUS
    <2>1. StatesOK' /\ \A s \in Step : Terminal(ex.st[s]) => ex'.st[s] = ex.st[s]
      BY StatesStep
    <2>2. ~ex.cancelling /\ PassesKnow /\ ex \in Execution /\ ex' \in Execution
      BY DEF AgreeOK, OrderInv, TableInv, TypeOK
    <2>3. RunMoves(ex, ex')
      BY <2>2, EveryStepRuns
    <2>4. /\ \A t \in Step : ex'.cur[t] \in 0..MaxAttempt
          /\ \A t \in Step : BeginsOK(ex', t)
          /\ \A t \in Step : ex'.cur[t] > 0 => \A p \in Parents[t] : ex'.st[p] = "Completed"
      BY DEF TypeOK, Execution, OrderInv, TableInv, TablesOK, TableOK, BeginsOK, ParentsFirst
    <2>5. ASSUME NEW f \in Step, ex'.st[f] \in {"Failed", "Crashed"}, NEW c \in Downstream(f)
          PROVE  ex'.st[c] \in {"Scheduled", "Cancelled"}
      <3>1. ex'.st[f] # "Completed" /\ c \in Step
        BY <2>5 DEF Downstream
      <3>2. ex'.cur[c] = 0
        BY <2>4, <2>5, <3>1, NotReached
      <3> QED BY <2>4, <3>1, <3>2 DEF BeginsOK
    <2>6. Step # {}
      BY DEF SoundPlan
    <2>7. AgreeOK(ex')
      BY <2>1, <2>2, <2>3, <2>5, <2>6, AgreeMoves
    <2> QED BY <2>1, <2>7
  <1>5. AgreeOK(ex') => AgreeOK(ex)'
    BY DEF AgreeOK, AllDone, Ready
  <1>6. TypeOK /\ WorkInv /\ StatesOK /\ AgreeOK(ex) => RunAgreesWithSteps
    <2> SUFFICES ASSUME TypeOK, WorkInv, StatesOK, AgreeOK(ex) PROVE RunAgreesWithSteps
      OBVIOUS
    <2>1. ASSUME ex.run = "Running"
          PROVE  \/ \E k \in Key : ex.rows[k].state # "absent"
                 \/ \E s \in Step : ex.ask[s] # NoQuestion
      <3>1. PICK s \in Step : ex.st[s] # "Completed" /\ \A p \in Parents[s] : ex.st[p] = "Completed"
        BY <2>1, FirstUnfinished DEF AgreeOK
      <3>2. ex.st[s] \in {"Pending", "Running", "AwaitingInput"}
        <4>1. ex.st[s] \in StepState /\ ex.st[s] \notin {"Failed", "Crashed", "Cancelled"}
          BY <2>1, Shape DEF TypeOK, AgreeOK
        <4>2. ex.st[s] # "Scheduled"
          BY <2>1, <3>1 DEF AgreeOK, Ready
        <4> QED BY <3>1, <4>1, <4>2 DEF StepState
      <3>3. CASE ex.st[s] = "AwaitingInput"
        BY <3>3 DEF StatesOK, StateOK
      <3>4. CASE ex.st[s] \in {"Pending", "Running"}
        <4>1. s \notin Human /\ WorkOK(ex, seen, s) /\ ex.cur[s] \in 0..MaxAttempt
          BY <3>4, Shape DEF StatesOK, StateOK, WorkInv, TypeOK
        <4>2. ex.cur[s] > 0 /\ ex.rows[<<s, ex.cur[s]>>].state \in {"pending", "running"}
          BY <3>4, <4>1 DEF WorkOK
        <4>3. <<s, ex.cur[s]>> \in Key
          BY <4>1, <4>2
        <4> QED BY <4>2, <4>3
      <3> QED BY <3>2, <3>3, <3>4
    <2>2. ex.run = "Completed" => \A s \in Step : ex.st[s] = "Completed"
      BY DEF AgreeOK, AllDone
    <2>3. ex.run = "Failed" => \E f \in Step : /\ ex.st[f] \in {"Failed", "Crashed"}
                                               /\ \A c \in Downstream(f) : ex.st[c] = "Cancelled"
      BY DEF AgreeOK
    <2> QED BY <2>1, <2>2, <2>3 DEF RunAgreesWithSteps
  <1> QED BY <1>1, <1>2, <1>3, <1>4, <1>5, <1>6, OrderInit, WorkInit, TypeCorrect, PTL DEF Spec
=============================================================================
