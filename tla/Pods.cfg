SPECIFICATION FairSpec
CONSTANTS
    Step <- MCStep
    Parents <- MCParents
    Human = {}
    Cacheable = {}
    Reactor = {r1}
    Worker = {}
    PodStep = {"pod"}
    Claimant <- MCClaimant
    None = None
    MaxAttempt = 2
    MaxAttempts = 2
    MaxUnavailable = 1
    RetryDelay = 0
    Lease = 1
    Deadline <- MCDeadline
    OnTimeout <- MCOnTimeout
    Takes <- MCTakes
    Outcomes <- MCOutcomes
    Refusals = {}
    Commands = {}
    MaxFaults = 1
INVARIANT RetriesAreEarned
PROPERTIES RunEnds
CHECK_DEADLOCK FALSE
