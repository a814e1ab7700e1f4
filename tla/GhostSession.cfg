SPECIFICATION FairSessionSpec
CONSTANTS
    HandoffIds = {h1}
    MaxTab = 1
    MaxGen = 1
    None = None
    AgentIds = {a1, a2}
    HostIds = {s1, s2, s3, s4}
    MaxRequests = 3
INVARIANTS
    SessionTypeOK
    OnceAndInEpoch
    AnswersAreTrue
PROPERTIES
    EveryRequestAnswered
\* The child process ends when its session closes.
CHECK_DEADLOCK FALSE
