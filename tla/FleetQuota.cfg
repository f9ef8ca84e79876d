SPECIFICATION Spec
CONSTANTS
    Name = {"read"}
    Scope = {"x"}
    Wild = "*"
    Unlimited = Unlimited
    NoNonce = NoNonce
    a1 = a1  a2 = a2  n1 = n1  n2 = n2  n3 = n3  n4 = n4
    Agent <- OneAgent
    Ceiling <- FreeCeiling
    Proposal <- UnsignedProposals
    Delegation <- NoDelegation
    RoleAllows <- NoRoles
    Gov = {g1, g2}
    Revocable = {}
    MaxEpoch = 1
    StoreMayFail = FALSE
    MaxCrashes = 0
    DedupeProposalIds = TRUE
    MaxFleetSteps = 3
    MaxAgentSteps = 4
    RestrictPolicy <- QuotaAndSteps
    RestrictTtl <- QuotaOneTtlTwo
    HasQuorum = FALSE
INVARIANTS StepBudgetsBound RestrictionBinds ExpiryIsEarned
PROPERTIES QuotaEscalates
SYMMETRY UnsignedSymmetry
