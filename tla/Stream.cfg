SPECIFICATION FairSpec
CONSTANTS
    Message = {"start", "pause", "report"}
    FactCount <- MCOneEach
    Handler = {h1, h2}
    MaxRetries = 1
    Publisher = {p1, p2}
    Batch = 2
    Undecodable <- MCUndecodable
    PendingOrder = "insertion"
    Stamp <- MCStamp
    Rank <- MCRank
    MaxFaults = 1
    None = None
INVARIANTS NoStaleDecision NoFactLost LogInOrder
PROPERTIES ImplementsDecisionLog AllPublished
