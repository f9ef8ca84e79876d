------------------------------- MODULE Evaluate -------------------------------
(***************************************************************************)
(* ChainmailGovernor.evaluate on the durable path, one action per store    *)
(* call (or external call) and the local decisions that follow it.  The    *)
(* numbers are those of the comments in governor._evaluate_locked.         *)
(*                                                                         *)
(* A proposal is abstracted to what the steps tell apart:                  *)
(*   agent, nonce, id, perm (required_permission),                         *)
(*   admissible: it passes (1)-(5), envelope, structure, agent, allow-list *)
(*               and signature;                                            *)
(*   lawful: it passes (8) schema and (9) hard denials.                    *)
(* The contextual-risk verdict (13), the quorum's verdict (15) and the     *)
(* boundary's answer (16) come from outside and may be anything.           *)
(***************************************************************************)
EXTENDS Governor

CONSTANTS
    DedupeProposalIds,  \* config.dedupe_proposal_ids
    MaxFleetSteps,      \* envelope.max_fleet_steps
    MaxAgentSteps,      \* config.per_agent_step_budget, 0 for none
    RestrictPolicy,     \* envelope.restrict_policy of each governor's envelope
    RestrictTtl,        \* its restrict_ttl_steps, or restrict_step_budget
    HasQuorum           \* self.quorum is not None

ASSUME PolicyAssumption ==
    /\ RestrictPolicy \in
         [Gov -> {"TTL_STEPS", "TTL_WALLCLOCK", "STEP_BUDGET", "HUMAN_ONLY"}]
    /\ RestrictTtl \in [Gov -> Nat \ {0}] /\ MaxFleetSteps \in Nat /\ MaxAgentSteps \in Nat
    /\ DedupeProposalIds \in BOOLEAN /\ HasQuorum \in BOOLEAN

ASSUME ProposalAssumption ==
    \A p \in Proposal : /\ p.agent \in Agent /\ p.perm \in Permission
                        /\ p.admissible \in BOOLEAN /\ p.lawful \in BOOLEAN

NonceOf(p) == <<p.agent, p.nonce>>

(* (1)-(5): an inadmissible proposal is denied before any claim. *)
Submit(g, p) ==
    /\ pc[g] = "idle"
    /\ IF p.admissible
       THEN /\ Goto(g, IF p.nonce = NoNonce THEN "pid" ELSE "nonce")
            /\ loc' = [loc EXCEPT ![g] = [Blank EXCEPT !.call = p]]
            /\ outcome' = [outcome EXCEPT ![g] = NoOutcome]
       ELSE Deny(g)
    /\ UNCHANGED <<storeVars, localVars, executed, crashes>>

(* Seeded fault: only this process remembers what was claimed. *)
EvalClaimNonceCached(g) ==
    LET k == NonceOf(loc[g].call)
    IN  /\ pc[g] = "nonce"
        /\ IF k \in seen[g].nonces
           THEN Deny(g) /\ UNCHANGED <<storeVars, seen>>
           ELSE /\ nonces' = nonces \cup {k}
                /\ seen' = [seen EXCEPT ![g].nonces = @ \cup {k}]
                /\ Goto(g, "pid")
                /\ UNCHANGED <<pids, stepVars, authVars, restrictions, audit, loc, outcome>>
        /\ UNCHANGED <<stepCount, quota, executed, crashes>>

(* (6) the local cache answers a replay by itself; otherwise the store's   *)
(* UNIQUE constraint decides.                                              *)
EvalClaimNonce(g) ==
    LET p == loc[g].call
        k == NonceOf(p)
    IN  /\ pc[g] = "nonce"
        /\ IF k \in seen[g].nonces \/ k \in nonces
           THEN Deny(g) /\ UNCHANGED <<storeVars, seen>>
           ELSE /\ ClaimNonce(p.agent, p.nonce)
                /\ seen' = [seen EXCEPT ![g].nonces = @ \cup {k}]
                /\ Goto(g, "pid")
                /\ UNCHANGED <<loc, outcome>>
        /\ UNCHANGED <<stepCount, quota, executed, crashes>>

EvalClaimProposalIdCached(g) ==   \* the same fault for proposal ids
    LET id == loc[g].call.id
    IN  /\ pc[g] = "pid"
        /\ IF id \in seen[g].pids
           THEN Deny(g) /\ UNCHANGED <<storeVars, seen>>
           ELSE /\ pids' = pids \cup {id}
                /\ seen' = [seen EXCEPT ![g].pids = @ \cup {id}]
                /\ Goto(g, "fleet")
                /\ UNCHANGED <<nonces, stepVars, authVars, restrictions, audit, loc, outcome>>
        /\ UNCHANGED <<stepCount, quota, executed, crashes>>

EvalClaimProposalId(g) ==
    LET id == loc[g].call.id
    IN  /\ pc[g] = "pid"
        /\ \/ /\ ~ DedupeProposalIds
              /\ Goto(g, "fleet")
              /\ UNCHANGED <<storeVars, seen, loc, outcome>>
           \/ /\ DedupeProposalIds
              /\ id \in seen[g].pids \/ id \in pids
              /\ Deny(g)
              /\ UNCHANGED <<storeVars, seen>>
           \/ /\ DedupeProposalIds
              /\ id \notin seen[g].pids
              /\ ClaimProposalId(id)
              /\ seen' = [seen EXCEPT ![g].pids = @ \cup {id}]
              /\ Goto(g, "fleet")
              /\ UNCHANGED <<loc, outcome>>
        /\ UNCHANGED <<stepCount, quota, executed, crashes>>

(* Seeded fault: the budget is compared with the local mirror.             *)
EvalCountFleetLocal(g) ==
    /\ pc[g] = "fleet"
    /\ IncrementFleet
    /\ loc' = [loc EXCEPT ![g].count = stepCount[g] + 1,
                          ![g].within = stepCount[g] + 1 <= MaxFleetSteps]
    /\ Goto(g, "agent")
    /\ UNCHANGED <<localVars, outcome, executed, crashes>>

(* The evaluation is counted, whatever it decides later: first for the     *)
(* fleet, then for the agent, in two transactions.                         *)
EvalCountFleet(g) ==
    /\ pc[g] = "fleet"
    /\ IncrementFleet
    /\ loc' = [loc EXCEPT ![g].count = fleetSteps + 1,
                          ![g].within = fleetSteps + 1 <= MaxFleetSteps]
    /\ Goto(g, "agent")
    /\ UNCHANGED <<localVars, outcome, executed, crashes>>

(* (7) step budgets, (8) schema, (9) hard denials *)
EvalCountAgent(g) ==
    LET p      == loc[g].call
        within == /\ loc[g].within
                  /\ MaxAgentSteps = 0 \/ agentSteps[p.agent] + 1 <= MaxAgentSteps
    IN  /\ pc[g] = "agent"
        /\ IncrementAgent(p.agent)
        /\ stepCount' = [stepCount EXCEPT ![g] = loc[g].count]
        /\ IF within /\ p.lawful
           THEN Goto(g, "live") /\ UNCHANGED <<loc, outcome>>
           ELSE Deny(g)
        /\ UNCHANGED <<seen, quota, executed, crashes>>

(* (10) live_auth, whose budget step (11) looks at. *)
EvalReadLive(g) ==
    /\ pc[g] = "live"
    /\ LET p == loc[g].call
       IN  loc' = [loc EXCEPT ![g].budgetOk = HasBudget(LiveAuthority(p.agent), p.perm),
                              ![g].stage = "check"]
    /\ Goto(g, "base")
    /\ UNCHANGED <<storeVars, localVars, outcome, executed, crashes>>

(* _check_restrict_budget: what the STEP_BUDGET policy leaves of quota.    *)
QuotaFor(g, a, k) == {q \in quota[g] : q.agent = a /\ q.key = k}
QuotaExhausted(g, a, k) == \E q \in QuotaFor(g, a, k) : q.left = 0
QuotaForgotten(g, a, k) ==        \* seeded fault: a used-up quota is dropped
    (quota[g] \ QuotaFor(g, a, k))
        \cup {[q EXCEPT !.left = @ - 1] : q \in {r \in QuotaFor(g, a, k) : r.left > 1}}

QuotaAfter(g, a, k) ==
    (quota[g] \ QuotaFor(g, a, k))
        \cup {[q EXCEPT !.left = @ - 1] : q \in {r \in QuotaFor(g, a, k) : r.left > 0}}

(* (10) permission, (11) budget, (12) step-budget restriction, and the     *)
(* decision mapping of (13).                                               *)
EvalGate(g, verdict) ==
    LET p == loc[g].call
        k == Key(p.perm)
    IN  /\ pc[g] = "gate"
        /\ \/ /\ ~ (Can(loc[g].auth, p.perm) /\ loc[g].budgetOk)
              /\ Deny(g) /\ UNCHANGED quota
           \/ /\ Can(loc[g].auth, p.perm) /\ loc[g].budgetOk
              /\ quota' = [quota EXCEPT ![g] = QuotaAfter(g, p.agent, k)]
              /\ IF QuotaExhausted(g, p.agent, k)
                 THEN Deny(g)
                 ELSE /\ loc' = [loc EXCEPT ![g].dec = verdict]
                      /\ Goto(g, "started")
                      /\ UNCHANGED outcome
        /\ UNCHANGED <<storeVars, stepCount, seen, executed, crashes>>

AfterQuorumStale(d) ==            \* seeded fault: (15b) keeps step (10)'s view
    IF d = "CONTINUE" THEN "spend" ELSE IF d = "RESTRICT" THEN "impose" ELSE "completed"

(* Where the evaluation goes with decision d once quorum is settled. *)
AfterQuorum(d) ==
    IF d = "CONTINUE" THEN "base" ELSE IF d = "RESTRICT" THEN "impose" ELSE "completed"

(* Seeded fault: a failing audit sink is ignored. *)
EvalAuditSwallowed(g) ==
    LET d == loc[g].dec
    IN  /\ pc[g] = "started"
        /\ Goto(g, AfterQuorum(d))
        /\ loc' = [loc EXCEPT ![g].stage = "fresh", ![g].floor = Len(restrictions)]
        /\ UNCHANGED <<storeVars, localVars, outcome, executed, crashes>>

(* (14) audit started *)
EvalAuditStarted(g) ==
    LET d == loc[g].dec
    IN  /\ pc[g] = "started"
        /\ LogAudit(<<loc[g].call, "started">>)
        /\ IF d = "CONTINUE" /\ HasQuorum
           THEN Goto(g, "quorum") /\ UNCHANGED loc
           ELSE /\ Goto(g, AfterQuorum(d))
                /\ loc' = [loc EXCEPT ![g].stage = "fresh", ![g].floor = Len(restrictions)]
        /\ UNCHANGED <<localVars, outcome, executed, crashes>>

(* (15) peer governors may turn a CONTINUE into anything. *)
EvalQuorum(g, verdict) ==
    /\ pc[g] = "quorum"
    /\ loc' = [loc EXCEPT ![g].dec = verdict, ![g].stage = "fresh",
                          ![g].floor = Len(restrictions)]
    /\ Goto(g, AfterQuorum(verdict))
    /\ UNCHANGED <<storeVars, localVars, outcome, executed, crashes>>

(* (15b) the permission is resolved in the fresh authority; an unmetered   *)
(* one needs no consumption, a lost one is refused here.                   *)
EvalResolve(g) ==
    LET p == loc[g].call.perm
    IN  /\ pc[g] = "spend"
        /\ IF ~ Can(loc[g].auth, p)
           THEN loc' = [loc EXCEPT ![g].dec = "HUMAN"] /\ Goto(g, "completed")
           ELSE /\ Goto(g, IF Match(loc[g].auth, p).max = Unlimited THEN "run" ELSE "consume")
                /\ UNCHANGED loc
        /\ UNCHANGED <<storeVars, localVars, outcome, executed, crashes>>

ChargeFor(row) == [metered |-> row.max # Unlimited, key |-> Key(row),
                   epoch |-> row.epoch, max |-> row.max, unit |-> row.rem]

(* consume_permission_budget: the enforcement point. *)
EvalConsume(g) ==
    LET p    == loc[g].call
        rows == Spendable(p.agent, Key(Match(loc[g].auth, p.perm)))
    IN  /\ pc[g] = "consume"
        /\ \/ /\ rows = {}
              /\ loc' = [loc EXCEPT ![g].dec = "HUMAN"]
              /\ Goto(g, "completed")
              /\ UNCHANGED storeVars
           \/ \E row \in rows :
              /\ ConsumePermission(p.agent, row)
              /\ loc' = [loc EXCEPT ![g].charge = ChargeFor(row)]
              /\ Goto(g, "run")
        /\ UNCHANGED <<localVars, outcome, executed, crashes>>

Execution(l) == [call |-> l.call, count |-> l.count, charge |-> l.charge]

(* Seeded fault: a boundary that raises is tried again. *)
EvalExecuteRetried(g, ok, acted) ==
    /\ pc[g] = "run"
    /\ ok => acted
    /\ executed' = IF acted THEN Append(executed, Execution(loc[g])) ELSE executed
    /\ IF ok
       THEN /\ loc' = [loc EXCEPT ![g].ran = TRUE]
            /\ Goto(g, "completed")
       ELSE UNCHANGED <<loc, pc>>
    /\ UNCHANGED <<storeVars, localVars, outcome, crashes>>

(* Seeded fault: a boundary that does not agree is paid back, also when it  *)
(* has acted.                                                              *)
EvalExecuteRefunds(g, ok, acted) ==
    LET a    == loc[g].call.agent
        c    == loc[g].charge
        mine == {r \in live[a] : c.metered /\ Key(r) = c.key /\ r.epoch = c.epoch}
    IN  /\ pc[g] = "run"
        /\ ok => acted
        /\ executed' = IF acted THEN Append(executed, Execution(loc[g])) ELSE executed
        /\ loc' = [loc EXCEPT ![g].dec = IF ok THEN @ ELSE "HUMAN", ![g].ran = acted]
        /\ live' = IF ok THEN live
                   ELSE [live EXCEPT ![a] = (@ \ mine) \cup {[r EXCEPT !.rem = @ + 1] : r \in mine}]
        /\ Goto(g, "completed")
        /\ UNCHANGED <<replayVars, stepVars, inited, epoch, restrictions, audit,
                       localVars, outcome, crashes>>

(* (16) execution boundary: it executes and agrees, refuses, or raises,    *)
(* before or after its side effect.                                        *)
EvalExecute(g, ok, acted) ==
    /\ pc[g] = "run"
    /\ ok => acted
    /\ executed' = IF acted
                   THEN Append(executed, Execution(loc[g]))
                   ELSE executed
    /\ loc' = [loc EXCEPT ![g].dec = IF ok THEN @ ELSE "HUMAN", ![g].ran = acted]
    /\ Goto(g, "completed")
    /\ UNCHANGED <<storeVars, localVars, outcome, crashes>>

(* (18) apply restriction: _compute_restrict_expiry, then the store, then  *)
(* _apply_restrict; STEP_BUDGET stays in this process's memory.            *)
NewRestriction(g, p) ==
    [agent |-> p.agent, name |-> p.perm.name, scope |-> p.perm.scope,
     kind |-> CASE RestrictPolicy[g] = "TTL_STEPS" -> "steps"
                [] RestrictPolicy[g] = "TTL_WALLCLOCK" -> "wall"
                [] OTHER -> "human",
     expiry |-> IF RestrictPolicy[g] = "TTL_STEPS" THEN stepCount[g] + RestrictTtl[g] ELSE 0,
     due |-> FALSE, status |-> "ACTIVE"]

EvalImpose(g) ==
    LET p == loc[g].call
        k == Key(p.perm)
    IN  /\ pc[g] = "impose"
        /\ IF RestrictPolicy[g] = "STEP_BUDGET"
           THEN /\ quota' = [quota EXCEPT ![g] = (@ \ QuotaFor(g, p.agent, k)) \cup
                                {[agent |-> p.agent, key |-> k, left |-> RestrictTtl[g]]}]
                /\ UNCHANGED storeVars
           ELSE Impose(NewRestriction(g, p)) /\ UNCHANGED quota
        /\ Goto(g, "completed")
        /\ UNCHANGED <<loc, stepCount, seen, outcome, executed, crashes>>

(* (19) audit completed, and the result. *)
EvalAuditCompleted(g) ==
    /\ pc[g] = "completed"
    /\ LogAudit(<<loc[g].call, loc[g].dec>>)
    /\ Return(g, [decision |-> loc[g].dec, ran |-> loc[g].ran])
    /\ UNCHANGED <<localVars, executed, crashes>>

(* A store call raises sqlite3.Error.  Before the audit-started record and *)
(* at both audit writes that ends the call in HUMAN; from there on the     *)
(* decision becomes HUMAN and the evaluation still completes.              *)
DeniesOnFailure(g) ==
    \/ pc[g] \in {"nonce", "fleet", "agent", "live", "started", "completed"}
    \/ pc[g] = "pid" /\ DedupeProposalIds
    \/ pc[g] \in {"base", "restr"} /\ loc[g].stage = "check"

DowngradesOnFailure(g) ==
    \/ pc[g] \in {"base", "restr"} /\ loc[g].stage = "fresh"
    \/ pc[g] = "consume"
    \/ pc[g] = "impose" /\ RestrictPolicy[g] # "STEP_BUDGET"

EvalStoreFails(g) ==
    /\ StoreMayFail
    /\ \/ DeniesOnFailure(g) /\ Deny(g)
       \/ /\ DowngradesOnFailure(g)
          /\ loc' = [loc EXCEPT ![g].dec = "HUMAN"]
          /\ Goto(g, "completed")
          /\ UNCHANGED outcome
    /\ UNCHANGED <<storeVars, localVars, executed, crashes>>

EvaluateSteps(g) ==
    \/ \E p \in Proposal : Submit(g, p)
    \/ EvalClaimNonce(g) \/ EvalClaimProposalId(g)
    \/ EvalCountFleet(g) \/ EvalCountAgent(g)
    \/ EvalReadLive(g)
    \/ \E d \in Decisions : EvalGate(g, d) \/ EvalQuorum(g, d)
    \/ EvalAuditStarted(g)
    \/ EvalResolve(g) \/ EvalConsume(g)
    \/ \E ok, acted \in BOOLEAN : EvalExecute(g, ok, acted)
    \/ EvalImpose(g) \/ EvalAuditCompleted(g)
    \/ EvalStoreFails(g)
==============================================================================
