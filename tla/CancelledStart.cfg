SPECIFICATION FairSpec
CONSTANTS
    Step <- MCStep
    Parents <- MCParents
    Human = {}
    Cacheable = {}
    Reactor = {r1, r2}
    Worker = {}
    PodStep = {}
    Claimant = {r1, r2}
    None = None
    MaxAttempt = 2
    MaxAttempts = 2
    MaxUnavailable = 2
    RetryDelay = 0
    Lease = 0
    Deadline <- MCDeadline
    OnTimeout <- MCOnTimeout
    Takes <- MCTakes
    Outcomes <- MCCompletes
    Refusals = {}
    Commands = {"Cancel"}
    MaxFaults = 0
PROPERTY CancelEnds
CHECK_DEADLOCK FALSE
