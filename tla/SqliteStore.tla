----------------------------- MODULE SqliteStore -----------------------------
(***************************************************************************)
(* The durable state of persistence.SQLiteStore, shared by every governor  *)
(* process of a deployment namespace, and its operations.  Each operation  *)
(* is one committed transaction, so one atomic step; what a governor does  *)
(* between two of them is interleaved with everybody else.                 *)
(***************************************************************************)
EXTENDS Authority, Sequences

CONSTANTS Agent,
          Ceiling      \* AuthorityEnvelope.agent_authorities: Agent -> Authority

VARIABLES
    nonces,        \* replay_nonces: the claimed <<agent, nonce>> pairs
    pids,          \* replay_proposal_ids: the claimed proposal ids
    fleetSteps,    \* step_counters, scope "fleet"
    agentSteps,    \* step_counters, scope "agent:<id>"
    inited,        \* live_authority_agents: the agents ever initialised
    live,          \* live_authority: the permission rows of each agent
    restrictions,  \* the restrictions table; a restriction_id is an index
    audit,         \* proposals and delegations, the audit tables
    epoch          \* how many times permission rows were written (ghost)

replayVars == <<nonces, pids>>
stepVars == <<fleetSteps, agentSteps>>
authVars == <<inited, live, epoch>>
storeVars == <<replayVars, stepVars, authVars, restrictions, audit>>

(* The table's UNIQUE (namespace, agent, name, scope). *)
UniqueKeys(perms) == \A p, q \in perms : Key(p) = Key(q) => p = q

ASSUME CeilingAssumption ==
    \A a \in Agent : IsAuthority(Ceiling[a]) /\ UniqueKeys(Ceiling[a].perms)

(* A row of live_authority.  The ghost "epoch" tells one grant of a        *)
(* permission from a later grant of the same permission.                   *)
Row == [name : Name, scope : Scopes, max : Budget, rem : Budget, epoch : Nat]
PermOf(row) == [name |-> row.name, scope |-> row.scope, max |-> row.max]

Restriction == [agent : Agent, name : Name, scope : Scopes,
                kind : {"wall", "human", "steps"}, expiry : Nat,
                due : BOOLEAN, status : {"ACTIVE", "EXPIRED", "CLEARED"}]

StoreInit ==
    /\ nonces = {} /\ pids = {}
    /\ fleetSteps = 0 /\ agentSteps = [a \in Agent |-> 0]
    /\ inited = {} /\ live = [a \in Agent |-> {}] /\ epoch = 0
    /\ restrictions = <<>>
    /\ audit = {}

(* claim_nonce, claim_proposal_id: the INSERT that meets no UNIQUE         *)
(* conflict.  A conflict changes nothing and is the caller's replay.       *)
ClaimNonceSwapped(a, n) ==        \* seeded fault: the columns swapped
    /\ <<n, a>> \notin nonces
    /\ nonces' = nonces \cup {<<n, a>>}
    /\ UNCHANGED <<pids, stepVars, authVars, restrictions, audit>>

ClaimNonce(a, n) ==
    /\ <<a, n>> \notin nonces
    /\ nonces' = nonces \cup {<<a, n>>}
    /\ UNCHANGED <<pids, stepVars, authVars, restrictions, audit>>

ClaimProposalId(id) ==
    /\ id \notin pids
    /\ pids' = pids \cup {id}
    /\ UNCHANGED <<nonces, stepVars, authVars, restrictions, audit>>

(* increment_step_counter, for the fleet scope and for an agent's. *)
IncrementFleet ==
    /\ fleetSteps' = fleetSteps + 1
    /\ UNCHANGED <<replayVars, agentSteps, authVars, restrictions, audit>>

IncrementAgent(a) ==
    /\ agentSteps' = [agentSteps EXCEPT ![a] = @ + 1]
    /\ UNCHANGED <<replayVars, fleetSteps, authVars, restrictions, audit>>

(* Newly inserted rows always start with remaining = max_budget. *)
FreshRows(perms, e) ==
    {[name |-> p.name, scope |-> p.scope, max |-> p.max, rem |-> p.max, epoch |-> e] :
        p \in perms}

(* Seeded fault: INSERT OR REPLACE. *)
InitializeAgentAlways(a, perms) ==
    /\ inited' = inited \cup {a}
    /\ epoch' = epoch + 1
    /\ live' = [live EXCEPT ![a] = FreshRows(perms, epoch + 1)]
    /\ UNCHANGED <<replayVars, stepVars, restrictions, audit>>

(* initialize_agent_authority: seeds an agent at most once, ever. *)
InitializeAgent(a, perms) ==
    /\ IF a \in inited THEN UNCHANGED authVars
       ELSE /\ inited' = inited \cup {a}
            /\ epoch' = epoch + 1
            /\ live' = [live EXCEPT ![a] = FreshRows(perms, epoch + 1)]
    /\ UNCHANGED <<replayVars, stepVars, restrictions, audit>>

(* replace_live_authority: DELETE, INSERT every permission, one commit. *)
ReplaceLive(a, perms) ==
    /\ inited' = inited \cup {a}
    /\ epoch' = epoch + 1
    /\ live' = [live EXCEPT ![a] = FreshRows(perms, epoch + 1)]
    /\ UNCHANGED <<replayVars, stepVars, restrictions, audit>>

(* get_live_authority_rows, as _get_live_auth_durable turns them into an   *)
(* Authority.                                                              *)
LiveAuthority(a) ==
    LET metered == {r \in live[a] : r.max # Unlimited}
    IN  [perms |-> {PermOf(r) : r \in live[a]},
         rem   |-> [k \in {Key(r) : r \in metered} |->
                       (CHOOSE r \in metered : Key(r) = k).rem]]

SpendableUnchecked(a, key) ==     \* seeded fault: no "remaining >= 1"
    {r \in live[a] : Key(r) = key}

(* consume_permission_budget: the row the UPDATE would decrement. *)
Spendable(a, key) ==
    {r \in live[a] : Key(r) = key /\ (r.max = Unlimited \/ r.rem >= 1)}

ConsumePermission(a, row) ==
    /\ row \in live[a]
    /\ live' = [live EXCEPT ![a] = (@ \ {row}) \cup
                   {IF row.max = Unlimited THEN row ELSE [row EXCEPT !.rem = @ - 1]}]
    /\ UNCHANGED <<replayVars, stepVars, inited, epoch, restrictions, audit>>

(* impose_restriction, active_restrictions, mark_expired, clear_restriction *)
Impose(r) ==
    /\ restrictions' = Append(restrictions, r)
    /\ UNCHANGED <<replayVars, stepVars, authVars, audit>>

ActiveIds(a) ==
    {i \in DOMAIN restrictions : restrictions[i].agent = a
                              /\ restrictions[i].status = "ACTIVE"}

LeaveAny(i, status) ==            \* seeded fault: no "AND status = 'ACTIVE'"
    restrictions' = [restrictions EXCEPT ![i].status = status]

LeaveActive(i, status) ==
    restrictions' = IF restrictions[i].status = "ACTIVE"
                    THEN [restrictions EXCEPT ![i].status = status]
                    ELSE restrictions

MarkExpired(i) ==
    /\ LeaveActive(i, "EXPIRED")
    /\ UNCHANGED <<replayVars, stepVars, authVars, audit>>

ClearRestriction(i, a) ==
    /\ IF restrictions[i].agent = a THEN LeaveActive(i, "CLEARED")
       ELSE UNCHANGED restrictions
    /\ UNCHANGED <<replayVars, stepVars, authVars, audit>>

(* log_proposal, log_delegation *)
LogAudit(entry) ==
    /\ audit' = audit \cup {entry}
    /\ UNCHANGED <<replayVars, stepVars, authVars, restrictions>>

StoreTypeOK ==
    /\ fleetSteps \in Nat /\ agentSteps \in [Agent -> Nat] /\ epoch \in Nat
    /\ inited \subseteq Agent
    /\ live \in [Agent -> SUBSET Row]
    /\ restrictions \in Seq(Restriction)
==============================================================================
