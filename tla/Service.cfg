SPECIFICATION Spec
CONSTANTS
    a1 = a1  a2 = a2  n1 = n1  n2 = n2  k1 = k1  k2 = k2
    u1 = u1  u2 = u2  u3 = u3  c1 = c1  c2 = c2
    NoNonce = NoNonce  NoKid = NoKid  NoConn = NoConn  Nobody = Nobody
    Agent = {a1, a2}
    Ceiling <- Units
    Proposal <- Proposals
    Similarity <- Likeness
    ReentryHigh = 70
    ReentryMedium = 45
    LowConfidenceMax = 35
    Kid = {k1, k2}
    FirstKeys <- OneKey
    Ballots <- OwnAndPeer
    Num = 1
    Den = 2
    HumanOnDisagreement = TRUE
    MaxSeenNonces = 1
    ProposalLogMax = 2
    IntentGraphMax = 1
    MaxFleetSteps = 3
    RestrictTtlSteps = 2
    MaxNesting = 2
    Workload <- Loads
    User <- Threads
    Client <- Clients
    ClientOf <- SharedClient
    TokenOf <- Tokens
    Identity <- Callers
    Conn = {1, 2, 3}
    MaxConnections = 2
INVARIANTS TypeOK AnswersBelong SlotsConserved OneMoreAfterStop ReplayNeedsEviction
           OverrunIsNested RefusalSticks RestrictionLasts
PROPERTIES RevocationIsFinal GrantsAreEntitled
CHECK_DEADLOCK FALSE
