SPECIFICATION FairSpec
CONSTANTS
    Step <- MCStep
    Parents <- MCParents
    Human = {"gate"}
    Cacheable = {"task"}
    Reactor = {r1}
    Worker = {w1}
    PodStep = {}
    Claimant = {r1, w1}
    None = None
    MaxAttempt = 3
    MaxAttempts = 2
    MaxUnavailable = 2
    RetryDelay = 1
    Lease = 0
    Deadline <- MCDeadline
    OnTimeout <- MCOnTimeout
    Takes <- MCTakes
    Outcomes <- MCOutcomes
    Refusals = {"Policy", "Transient"}
    Commands = {"Pause", "Resume", "Cancel", "Retry", "Answer"}
    MaxFaults = 1
INVARIANTS ClaimTableIsCurrent DeadlinesAgree AnswersAreNotCached
PROPERTIES CompletedIsFinal HeldBack CancelIsFinal QuestionsEnd
CHECK_DEADLOCK FALSE
