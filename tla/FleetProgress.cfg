SPECIFICATION FairSpec
CONSTANTS
    Name = {"read"}
    Scope = {"x"}
    Wild = "*"
    Unlimited = Unlimited
    NoNonce = NoNonce
    a1 = a1  a2 = a2  n1 = n1  n2 = n2  n3 = n3  n4 = n4
    Agent <- OneAgent
    Ceiling <- FreeCeiling
    Proposal <- FlawedProposals
    Delegation <- FreeGrant
    RoleAllows <- SelfRole
    Gov = {g1, g2}
    Revocable = {}
    MaxEpoch = 2
    StoreMayFail = TRUE
    MaxCrashes = 0
    DedupeProposalIds = TRUE
    MaxFleetSteps = 3
    MaxAgentSteps = 0
    RestrictPolicy <- WallClock
    RestrictTtl <- OneStep
    HasQuorum = FALSE
PROPERTIES CallsReturn
