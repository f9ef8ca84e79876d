-------------------------------- MODULE MCFleet --------------------------------
(* Small deployments for TLC: what is submitted, held and offered in each. *)
EXTENDS Fleet, TLC

CONSTANTS a1, a2, n1, n2, n3, n4

Perm(scope, max) == [name |-> "read", scope |-> scope, max |-> max]
Metered(perms) == [perms |-> perms,
                   rem |-> [k \in {Key(p) : p \in {q \in perms : q.max # Unlimited}} |->
                               (CHOOSE p \in perms : Key(p) = k).max]]

Ask(a, n, id, scope) ==
    [agent |-> a, nonce |-> n, id |-> id, perm |-> Perm(scope, Unlimited),
     admissible |-> TRUE, lawful |-> TRUE]

OneAgent == {a1}
TwoAgents == {a1, a2}

(* One proposal, one reusing its nonce, one reusing its id; units for two. *)
ReplayProposals == {Ask(a1, n1, 1, "x"), Ask(a1, n1, 2, "x"), Ask(a1, n2, 1, "x")}
TwoUnits == [a \in {a1} |-> Metered({Perm("x", 2)})]
FreeCeiling == [a \in {a1} |-> Metered({Perm(Wild, Unlimited)})]

(* Unsigned proposals, which carry no nonce: only the id protects them.    *)
UnsignedProposals == {Ask(a1, NoNonce, n, "x") : n \in {n1, n2, n3, n4}}

(* One proposal that passes, one failing (1)-(5), one failing (8)-(9).     *)
FlawedProposals == {Ask(a1, n1, 1, "x"),
                    [Ask(a1, n2, 2, "x") EXCEPT !.admissible = FALSE],
                    [Ask(a1, n3, 3, "x") EXCEPT !.lawful = FALSE]}

(* Governors under one policy are alike, and so are such proposals. *)
GovSymmetry == Permutations(Gov)

HumanOnly == [g \in Gov |-> "HUMAN_ONLY"]
WallClock == [g \in Gov |-> "TTL_WALLCLOCK"]

OneStep == [g \in Gov |-> 1]

(* One governor's envelope says STEP_BUDGET, the other's TTL_STEPS. *)
QuotaGovernor == CHOOSE g \in Gov : TRUE
QuotaAndSteps ==
    [g \in Gov |-> IF g = QuotaGovernor THEN "STEP_BUDGET" ELSE "TTL_STEPS"]
QuotaOneTtlTwo == [g \in Gov |-> IF g = QuotaGovernor THEN 1 ELSE 2]
UnsignedSymmetry == Permutations({n1, n2, n3, n4})
GrantSymmetry == GovSymmetry \cup Permutations({n1, n2})

NoDelegation == {}
NoRoles == {}

(* A lead (a1) with a budget of two that it may share with a2, in whole or *)
(* by what it has left, replacing or merging.                              *)
LeadCeiling == (a1 :> Metered({Perm("x", 2)})) @@
               (a2 :> Metered({Perm("x", 2), Perm("y", 1)}))
Offer(scope, max, left) ==
    [perms |-> {Perm(scope, max)}, rem |-> (<<"read", scope>> :> left)]
Give(from, to, offered, merge) ==
    [from |-> from, to |-> to, offered |-> offered, merge |-> merge]
LeadDelegations == {Give(a1, a2, Offer("x", 2, 1), FALSE),
                    Give(a1, a2, Offer("x", 2, 2), FALSE)}

(* a1 gives a2 more of x than a2's ceiling allows, in place of all that a2 *)
(* holds, or adds y to it; a2 gives back x, unless it is spent or          *)
(* restricted; a2 asks for x twice.                                        *)
GrantCeiling == (a1 :> Metered({Perm("x", 2), Perm("y", 1)})) @@
                (a2 :> Metered({Perm("x", 1), Perm(Wild, 1)}))
GrantDelegations == {Give(a1, a2, Offer("x", 2, 2), FALSE),
                     Give(a1, a2, Offer("y", 1, 1), TRUE),
                     Give(a2, a1, Offer("x", 1, 1), FALSE)}
GrantProposals == {Ask(a2, n, n, "x") : n \in {n1, n2}}

(* a1 takes away all a2 holds, then gives it two things in two calls. *)
RaceDelegations == {Give(a1, a2, NoAuthority, FALSE),
                    Give(a1, a2, Offer("x", 1, 1), TRUE),
                    Give(a1, a2, Offer("y", 1, 1), TRUE)}
RaceCeiling == (a1 :> Metered({Perm("x", 1), Perm("y", 1)})) @@
               (a2 :> Metered({Perm("x", 2), Perm("y", 1)}))

LeadRoles == {<<a1, a2>>, <<a2, a1>>}
LeadProposals == {Ask(a1, n1, 1, "x")}
FreeGrant == {Give(a1, a1, Offer("x", 1, 1), TRUE)}
SelfRole == {<<a1, a1>>}
==============================================================================
