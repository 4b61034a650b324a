SPECIFICATION FairSpec
CONSTANTS
    Step <- MCStep
    Parents <- MCParents
    Human = {}
    Cacheable = {}
    Reactor = {r1, r2}
    Worker = {}
    PodStep = {}
    Claimant = {r1, r2}
    None = None
    MaxAttempt = 3
    MaxAttempts = 2
    MaxUnavailable = 2
    RetryDelay = 0
    Lease = 0
    Deadline <- MCDeadline
    OnTimeout <- MCOnTimeout
    Takes <- MCTakes
    Outcomes <- MCOutcomes
    Refusals = {}
    Commands = {}
    MaxFaults = 2
INVARIANTS ClaimTableIsCurrent NothingStranded ParentsFirst RetriesAreEarned RunAgreesWithSteps
PROPERTIES CompletedIsFinal RunEnds
CHECK_DEADLOCK FALSE
