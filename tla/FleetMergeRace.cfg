SPECIFICATION Spec
CONSTANTS
    Name = {"read"}
    Scope = {"x", "y"}
    Wild = "*"
    Unlimited = Unlimited
    NoNonce = NoNonce
    a1 = a1  a2 = a2  n1 = n1  n2 = n2  n3 = n3  n4 = n4
    Agent <- TwoAgents
    Ceiling <- RaceCeiling
    Proposal <- LeadProposals
    Delegation <- RaceDelegations
    RoleAllows <- LeadRoles
    Gov = {g1, g2}
    Revocable = {}
    MaxEpoch = 4
    StoreMayFail = FALSE
    MaxCrashes = 0
    DedupeProposalIds = TRUE
    MaxFleetSteps = 3
    MaxAgentSteps = 0
    RestrictPolicy <- HumanOnly
    RestrictTtl <- OneStep
    HasQuorum = FALSE
PROPERTY MergeLosesNothing
