SPECIFICATION Spec
CONSTANTS
    Name = {"read"}
    Scope = {"x", "y"}
    Wild = "*"
    Unlimited = Unlimited
    NoNonce = NoNonce
    a1 = a1  a2 = a2  n1 = n1  n2 = n2  n3 = n3  n4 = n4
    Agent <- TwoAgents
    Ceiling <- GrantCeiling
    Proposal <- GrantProposals
    Delegation <- GrantDelegations
    RoleAllows <- LeadRoles
    Gov = {g1, g2}
    Revocable = {a2}
    MaxEpoch = 3
    StoreMayFail = FALSE
    MaxCrashes = 0
    DedupeProposalIds = FALSE
    MaxFleetSteps = 3
    MaxAgentSteps = 0
    RestrictPolicy <- HumanOnly
    RestrictTtl <- OneStep
    HasQuorum = FALSE
INVARIANTS WithinCeiling GrantNotOverspent
PROPERTIES PublishedIsAudited AccountSpec
SYMMETRY GrantSymmetry
