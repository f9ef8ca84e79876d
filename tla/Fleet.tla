--------------------------------- MODULE Fleet ---------------------------------
(***************************************************************************)
(* The deployment: every governor process evaluates proposals, registers   *)
(* and revokes delegations, crashes and restarts, all on one SQLiteStore.  *)
(* The properties here are the promises of README.md, "Core invariants",   *)
(* and of the docstrings of governor.py and persistence.py.                *)
(***************************************************************************)
EXTENDS Evaluate, Delegate

GovernorNext(g) ==
    GovernorSteps(g) \/ BootFails(g) \/ EvaluateSteps(g) \/ DelegateSteps(g)

Next == (\E g \in Gov : GovernorNext(g)) \/ (\E i \in DOMAIN restrictions : ClockPasses(i))

Spec == Init /\ [][Next]_vars
------------------------------------------------------------------------------
Pcs == {"down", "boot", "seed", "idle", "base", "restr", "expire",
        "nonce", "pid", "fleet", "agent", "live", "gate", "started", "quorum",
        "spend", "consume", "run", "impose", "completed",
        "offer", "current", "audit", "publish"}

(* Types of the whole deployment's state. *)
TypeOK ==
    /\ StoreTypeOK
    /\ nonces \subseteq {NonceOf(p) : p \in Proposal}
    /\ pids \subseteq {p.id : p \in Proposal}
    /\ pc \in [Gov -> Pcs]
    /\ DOMAIN loc = Gov
    /\ \A g \in Gov : DOMAIN loc[g] = DOMAIN Blank
    /\ stepCount \in [Gov -> Nat]
    /\ crashes \in 0..MaxCrashes

(* README invariant 8: one signed proposal, or another one reusing its     *)
(* nonce, reaches the outside world at most once, across every governor of *)
(* the fleet, every crash, restart and retry.                              *)
NonceExecutesOnce ==
    \A i, j \in DOMAIN executed :
        /\ executed[i].call.nonce # NoNonce
        /\ NonceOf(executed[i].call) = NonceOf(executed[j].call)
        => i = j

(* The same for proposal ids, which are fleet-wide (claim_proposal_id). *)
ProposalIdExecutesOnce ==
    DedupeProposalIds =>
        \A i, j \in DOMAIN executed :
            executed[i].call.id = executed[j].call.id => i = j

(* README invariant 7 and consume_permission_budget: however many          *)
(* governors race, one grant of a metered permission pays for at most      *)
(* max_budget executions, and for each of its units at most one.           *)
SameGrant(e, f) ==
    /\ e.charge.metered /\ f.charge.metered
    /\ e.call.agent = f.call.agent
    /\ e.charge.key = f.charge.key /\ e.charge.epoch = f.charge.epoch

GrantNotOverspent ==
    \A i \in DOMAIN executed :
        executed[i].charge.metered =>
            Cardinality({j \in DOMAIN executed : SameGrant(executed[i], executed[j])})
                <= executed[i].charge.max

(* README invariant 7: no more actions run than the fleet's step budget    *)
(* and the acting agent's allow, restarts included.                        *)
StepBudgetsBound ==
    /\ Len(executed) <= MaxFleetSteps
    /\ MaxAgentSteps # 0 =>
         \A a \in Agent :
             Cardinality({i \in DOMAIN executed : executed[i].call.agent = a}) <= MaxAgentSteps

(* (14): nothing runs before its audit record says it has started. *)
ExecutedIsAudited ==
    \A i \in DOMAIN executed : <<executed[i].call, "started">> \in audit

(* README invariants 1 and 2: whatever is delegated, merged, revoked or    *)
(* seeded, an agent's durable authority stays within its envelope ceiling. *)
WithinCeiling ==
    \A a \in Agent : \A r \in live[a] :
        /\ \E c \in Ceiling[a].perms : Covers(c, r) /\ WithinBudget(r.max, c.max)
        /\ WithinBudget(r.rem, r.max)

(* (15b): a restriction imposed before the final look at the store, and    *)
(* still in force, keeps the same permission from being executed.          *)
RestrictionBinds ==
    \A g \in Gov : pc[g] = "run" =>
        \A i \in 1..loc[g].floor :
            LET r == restrictions[i]
            IN  ~ /\ r.agent = loc[g].call.agent
                  /\ <<r.name, r.scope>> = Key(loc[g].call.perm)
                  /\ r.status = "ACTIVE" /\ IsRestrictionLive(g, r)

(* A restriction is retired as EXPIRED only when its term has truly run    *)
(* out for the whole fleet; a HUMAN_ONLY one never is.  governor.py says,  *)
(* where it refuses TTL_STEPS in production, that a sibling with a higher  *)
(* count of its own may retire one early: counts are mirrors of the        *)
(* fleet's, and none may.                                                  *)
ExpiryIsEarned ==
    \A i \in DOMAIN restrictions :
        restrictions[i].status = "EXPIRED" =>
            \/ restrictions[i].kind = "wall" /\ restrictions[i].due
            \/ restrictions[i].kind = "steps" /\ restrictions[i].expiry <= fleetSteps

(* Restrictions are never deleted, and only leave ACTIVE, once. *)
RestrictionsOneWay ==
    [][\A i \in DOMAIN restrictions :
          /\ i \in DOMAIN restrictions'
          /\ restrictions[i].status # "ACTIVE" =>
                restrictions'[i].status = restrictions[i].status]_vars

(* "Restarting must never increase authority or renew a consumed budget":  *)
(* no step of a governor that is coming up touches an agent that already   *)
(* has durable authority.                                                  *)
RestartKeepsAuthority ==
    [][\A g \in Gov, a \in inited :
          pc[g] \in {"down", "boot", "seed"} /\ pc[g] # pc'[g] => live'[a] = live[a]]_vars

(* Outside of a new grant, what is left of a budget only shrinks. *)
BudgetOnlyShrinks ==
    [][\A a \in Agent : \A r \in live[a], s \in live'[a] :
          /\ Key(r) = Key(s) /\ r.epoch = s.epoch
          => s.max = r.max /\ WithinBudget(s.rem, r.rem)]_vars

(* register_delegation audits before it publishes. *)
PublishedIsAudited ==
    [][\A g \in Gov :
          pc[g] = "publish" /\ live' # live /\ pc'[g] # pc[g]
          => <<loc[g].call, "delegation">> \in audit]_vars

(* STEP_BUDGET: a restricted permission's quota of further evaluations     *)
(* ends in an escalation to HUMAN; nothing but the loss of the process     *)
(* makes a governor forget it.                                             *)
QuotaEscalates ==
    [][\A g \in Gov : \A q \in quota[g] :
          \/ \E r \in quota'[g] : r.agent = q.agent /\ r.key = q.key
          \/ pc'[g] = "down"
          \/ q.left = 0 /\ outcome'[g].decision = "HUMAN"]_vars

(* The steps a governor takes by itself once it has been called. *)
Serves(g) ==
    \/ BootSeed(g) \/ BootDone(g) \/ \E a \in Agent : BootCheck(g, a)
    \/ ReadBase(g) \/ ReadRestrictions(g)
    \/ \E i \in DOMAIN restrictions : ExpireOne(g, i)
    \/ EvalClaimNonce(g) \/ EvalClaimProposalId(g)
    \/ EvalCountFleet(g) \/ EvalCountAgent(g) \/ EvalReadLive(g)
    \/ \E d \in Decisions : EvalGate(g, d) \/ EvalQuorum(g, d)
    \/ EvalAuditStarted(g) \/ EvalResolve(g) \/ EvalConsume(g)
    \/ \E ok, acted \in BOOLEAN : EvalExecute(g, ok, acted)
    \/ EvalImpose(g) \/ EvalAuditCompleted(g)
    \/ DelegCheck(g) \/ DelegMerge(g) \/ DelegAudit(g) \/ DelegPublish(g)

FairSpec == Spec /\ \A g \in Gov : WF_vars(Serves(g))

(* No interleaving of siblings, expired restrictions, failures or crashes  *)
(* keeps a call from returning: every evaluation or delegation ends.       *)
CallsReturn ==
    \A g \in Gov : (pc[g] # "idle" /\ pc[g] # "down") ~> (pc[g] = "idle" \/ pc[g] = "down")
------------------------------------------------------------------------------
(* Governor g makes its delegation the recipient's authority. *)
Accepts(g) == pc[g] = "publish" /\ pc'[g] = "idle" /\ outcome'[g].decision = "accepted"

(* README invariant 2 and register_delegation's docstring: a delegator     *)
(* never grants more than it holds at the moment of the call, "including   *)
(* its current remaining budget".                                          *)
DelegationNotExpanding ==
    [][\A g \in Gov : Accepts(g) =>
          \A r \in live'[loc[g].call.to] :
              LET source == Match(loc[g].auth, r)
              IN  Key(r) \in KeysOf(loc[g].call.offered) /\ source.max # Unlimited
                  => WithinBudget(r.rem, Left(loc[g].auth, Key(source), source.max))]_vars

(* The same docstring: a merge is a union with what the recipient holds,   *)
(* so whatever it holds at publication it still holds afterwards.          *)
MergeLosesNothing ==
    [][\A g \in Gov : Accepts(g) /\ loc[g].call.merge =>
          \A r \in live[loc[g].call.to] :
              \E s \in live'[loc[g].call.to] : Key(s) = Key(r)]_vars
------------------------------------------------------------------------------
(* The fleet implements the abstract ledger, the nonces being identifiers. *)
Ledger == INSTANCE ExecutionLedger WITH
    Id <- {NonceOf(p) : p \in Proposal},
    claimed <- nonces,
    done <- [i \in DOMAIN executed |-> NonceOf(executed[i].call)]

LedgerSpec == Ledger!Spec

(* It implements the account of units, too: the metered rows of an agent   *)
(* are what is left of its grants, and a governor at the boundary holds    *)
(* the unit its UPDATE took.                                               *)
AccountOf(rows) ==
    {[key |-> Key(r), grant |-> r.epoch, max |-> r.max, left |-> r.rem] :
        r \in {x \in rows : x.max # Unlimited}}

UnitOf(e) ==
    IF e.charge.metered
    THEN {[owner |-> e.call.agent, key |-> e.charge.key, grant |-> e.charge.epoch,
           max |-> e.charge.max, number |-> e.charge.unit]}
    ELSE {}

Account == INSTANCE BudgetAccount WITH
    Owner <- Agent,
    Spender <- Gov,
    accounts <- [a \in Agent |-> AccountOf(live[a])],
    grants <- epoch,
    held <- [g \in Gov |-> IF pc[g] = "run" THEN UnitOf(loc[g]) ELSE {}],
    paid <- [i \in DOMAIN executed |-> UnitOf(executed[i])]

(* consume_permission_budget: a unit leaves the row before the action it   *)
(* pays for and comes back neither after a crash nor after a refusal, and  *)
(* no action is paid for with another governor's unit, or a used one.      *)
AccountSpec == Account!Spec
==============================================================================
