------------------------------- MODULE Delegate -------------------------------
(***************************************************************************)
(* ChainmailGovernor.register_delegation and revoke_delegation on the      *)
(* durable path.  A delegation reads the delegator's effective authority,  *)
(* for a merge the recipient's rows, writes the audit record and only then *)
(* publishes: four transactions that siblings' calls may separate.         *)
(***************************************************************************)
EXTENDS Governor

CONSTANTS
    RoleAllows,      \* pairs <<from, to>> the role map lets through
    Revocable,       \* the agents operators may revoke delegations to
    MaxEpoch         \* bound: no new delegation or revocation beyond it

ASSUME DelegationAssumption ==
    \A d \in Delegation : /\ d.from \in Agent /\ d.to \in Agent
                          /\ IsAuthority(d.offered) /\ UniqueKeys(d.offered.perms)
                          /\ d.merge \in BOOLEAN

RefuseDelegation(g) == Return(g, [decision |-> "refused", ran |-> FALSE])

RegisterDelegation(g, d) ==
    /\ pc[g] = "idle" /\ epoch < MaxEpoch
    /\ loc' = [loc EXCEPT ![g] = [Blank EXCEPT !.call = d, !.stage = "delegate"]]
    /\ outcome' = [outcome EXCEPT ![g] = NoOutcome]
    /\ Goto(g, "base")
    /\ UNCHANGED <<storeVars, localVars, executed, crashes>>

(* Seeded fault: a replacing grant is published without its record. *)
DelegCheckUnaudited(g) ==
    LET d == loc[g].call
    IN  /\ pc[g] = "offer"
        /\ IF <<d.from, d.to>> \in RoleAllows /\ IsSubsetOf(d.offered, loc[g].auth)
           THEN /\ loc' = [loc EXCEPT ![g].grant = ClampToCeiling(d.offered, Ceiling[d.to])]
                /\ Goto(g, IF d.merge THEN "current" ELSE "publish")
                /\ UNCHANGED outcome
           ELSE RefuseDelegation(g)
        /\ UNCHANGED <<storeVars, localVars, executed, crashes>>

(* Role map, containment in what the delegator holds, and the clamp to     *)
(* what the recipient's envelope ceiling allows.                           *)
DelegCheck(g) ==
    LET d == loc[g].call
    IN  /\ pc[g] = "offer"
        /\ IF <<d.from, d.to>> \in RoleAllows /\ IsSubsetOf(d.offered, loc[g].auth)
           THEN /\ loc' = [loc EXCEPT ![g].grant = ClampToCeiling(d.offered, Ceiling[d.to])]
                /\ Goto(g, IF d.merge THEN "current" ELSE "audit")
                /\ UNCHANGED outcome
           ELSE RefuseDelegation(g)
        /\ UNCHANGED <<storeVars, localVars, executed, crashes>>

(* merge=True: union with what the recipient holds now; a key held by both *)
(* is refused.                                                             *)
DelegMerge(g) ==
    LET current == LiveAuthority(loc[g].call.to)
    IN  /\ pc[g] = "current"
        /\ IF KeysOf(current) \cap KeysOf(loc[g].grant) = {}
           THEN /\ loc' = [loc EXCEPT ![g].grant = Merge(current, @)]
                /\ Goto(g, "audit")
                /\ UNCHANGED outcome
           ELSE RefuseDelegation(g)
        /\ UNCHANGED <<storeVars, localVars, executed, crashes>>

(* Audit before publication *)
DelegAudit(g) ==
    /\ pc[g] = "audit"
    /\ LogAudit(<<loc[g].call, "delegation">>)
    /\ Goto(g, "publish")
    /\ UNCHANGED <<loc, localVars, outcome, executed, crashes>>

(* Only (name, scope, max_budget) are handed to the store. *)
DelegPublish(g) ==
    /\ pc[g] = "publish"
    /\ ReplaceLive(loc[g].call.to, loc[g].grant.perms)
    /\ Return(g, [decision |-> "accepted", ran |-> FALSE])
    /\ UNCHANGED <<localVars, executed, crashes>>

DelegStoreFails(g) ==
    /\ StoreMayFail
    /\ \/ pc[g] \in {"current", "audit", "publish"}
       \/ pc[g] \in {"base", "restr"} /\ loc[g].stage = "delegate"
    /\ RefuseDelegation(g)
    /\ UNCHANGED <<storeVars, localVars, executed, crashes>>

(* revoke_delegation: back to the envelope ceiling, in one transaction. *)
RevokeDelegation(g, a) ==
    /\ pc[g] = "idle" /\ a \in Revocable /\ epoch < MaxEpoch
    /\ ReplaceLive(a, Ceiling[a].perms)
    /\ UNCHANGED govVars

DelegateSteps(g) ==
    \/ \E d \in Delegation : RegisterDelegation(g, d)
    \/ DelegCheck(g) \/ DelegMerge(g) \/ DelegAudit(g) \/ DelegPublish(g)
    \/ DelegStoreFails(g)
    \/ \E a \in Agent : RevokeDelegation(g, a)
==============================================================================
