------------------------------- MODULE Governor -------------------------------
(***************************************************************************)
(* What every entry point of ChainmailGovernor shares when a SQLiteStore   *)
(* is wired in.  A governor process serves one call at a time (the RLock); *)
(* pc[g] is the store call it makes next and loc[g] the call's locals.  A  *)
(* process may crash before any store call, and restarts by running        *)
(* __init__, which seeds the durable authority of every agent it knows.    *)
(*                                                                         *)
(* _effective_authority is a subroutine of three callers: pc "base" reads  *)
(* the permission rows, "restr" the restrictions, "expire" marks the ones  *)
(* found expired; loc[g].stage tells where it was called from.             *)
(***************************************************************************)
EXTENDS SqliteStore

CONSTANTS
    Gov,             \* governor processes sharing the store
    Proposal,        \* what callers may submit (see Evaluate)
    Delegation,      \* the delegations callers may ask for (see Delegate)
    NoNonce,         \* a proposal without a nonce
    StoreMayFail,    \* store calls may raise sqlite3.Error
    MaxCrashes       \* bound on the number of crashes

VARIABLES
    pc,
    loc,
    stepCount,       \* self.step_count, the local mirror of the fleet counter
    seen,            \* self._seen_nonces and self._seen_proposal_ids
    quota,           \* self._restrict_budgets (STEP_BUDGET policy)
    outcome,         \* the last call's result (ghost)
    executed,        \* every side effect the execution boundary made (ghost)
    crashes          \* counts crashes, for MaxCrashes

localVars == <<stepCount, seen, quota>>
govVars == <<pc, loc, localVars, outcome, executed, crashes>>
vars == <<storeVars, govVars>>

ASSUME BoundsAssumption == MaxCrashes \in Nat /\ StoreMayFail \in BOOLEAN

Decisions == {"CONTINUE", "RESTRICT", "RECHECK", "HUMAN"}

NoCall == [call |-> "none"]
NoCharge == [metered |-> FALSE, key |-> <<>>, epoch |-> 0, max |-> 0, unit |-> 0]
NoOutcome == [decision |-> "none", ran |-> FALSE]

Blank == [call |-> NoCall,          \* the proposal or delegation being served
          stage |-> "none",         \* the caller of _effective_authority
          dec |-> "none",           \* the decision so far
          count |-> 0,              \* fleet_count
          within |-> TRUE,          \* fleet_within /\ agent_within
          budgetOk |-> TRUE,        \* step (11), from live_auth
          auth |-> NoAuthority,     \* the Authority last computed
          grant |-> NoAuthority,    \* register_delegation's new_auth
          todo |-> {},              \* ids to mark expired, agents to seed
          floor |-> 0,              \* restrictions imposed before the fresh read (ghost)
          charge |-> NoCharge,      \* the budget unit consumed (ghost)
          ran |-> FALSE]            \* the side effect has happened (ghost)

(* Seeded fault: a term ends one step early. *)
IsRestrictionLiveEarly(g, r) ==
    \/ r.kind = "human"
    \/ r.kind = "wall" /\ ~ r.due
    \/ r.kind = "steps" /\ r.expiry > stepCount[g] + 1

(* The kind and liveness of a restriction, as g sees it. *)
IsRestrictionLive(g, r) ==
    \/ r.kind = "human"
    \/ r.kind = "wall" /\ ~ r.due
    \/ r.kind = "steps" /\ r.expiry > stepCount[g]

(* Where the governor goes once its pc is g's next. *)
Goto(g, next) == pc' = [pc EXCEPT ![g] = next]

(* The call returns: its locals are gone. *)
Return(g, result) ==
    /\ Goto(g, "idle")
    /\ loc' = [loc EXCEPT ![g] = Blank]
    /\ outcome' = [outcome EXCEPT ![g] = result]

Deny(g) == Return(g, [decision |-> "HUMAN", ran |-> loc[g].ran])

GovInit ==
    /\ pc = [g \in Gov |-> "down"]
    /\ loc = [g \in Gov |-> Blank]
    /\ stepCount = [g \in Gov |-> 0]
    /\ seen = [g \in Gov |-> [nonces |-> {}, pids |-> {}]]
    /\ quota = [g \in Gov |-> {}]
    /\ outcome = [g \in Gov |-> NoOutcome]
    /\ executed = <<>>
    /\ crashes = 0

Init == StoreInit /\ GovInit
------------------------------------------------------------------------------
(* __init__ of the durable path *)
Restart(g) ==
    /\ pc[g] = "down"
    /\ Goto(g, "boot")
    /\ loc' = [loc EXCEPT ![g].todo = Agent]
    /\ UNCHANGED <<storeVars, localVars, outcome, executed, crashes>>

(* is_authority_initialized: an initialised agent is left as it is. *)
BootCheck(g, a) ==
    /\ pc[g] = "boot" /\ a \in loc[g].todo
    /\ IF a \in inited
       THEN loc' = [loc EXCEPT ![g].todo = @ \ {a}] /\ UNCHANGED pc
       ELSE loc' = [loc EXCEPT ![g].call = [agent |-> a]] /\ Goto(g, "seed")
    /\ UNCHANGED <<storeVars, localVars, outcome, executed, crashes>>

(* initialize_agent_authority: a sibling may have been faster. *)
BootSeed(g) ==
    /\ pc[g] = "seed"
    /\ LET a == loc[g].call.agent
       IN  /\ InitializeAgent(a, Ceiling[a].perms)
           /\ loc' = [loc EXCEPT ![g].todo = @ \ {a}, ![g].call = NoCall]
    /\ Goto(g, "boot")
    /\ UNCHANGED <<localVars, outcome, executed, crashes>>

(* peek_step_counter: step_count continues from the durable value. *)
BootDone(g) ==
    /\ pc[g] = "boot" /\ loc[g].todo = {}
    /\ stepCount' = [stepCount EXCEPT ![g] = fleetSteps]
    /\ Goto(g, "idle")
    /\ UNCHANGED <<storeVars, loc, seen, quota, outcome, executed, crashes>>

Crash(g) ==
    /\ pc[g] # "down" /\ crashes < MaxCrashes
    /\ crashes' = crashes + 1
    /\ Goto(g, "down")
    /\ loc' = [loc EXCEPT ![g] = Blank]
    /\ stepCount' = [stepCount EXCEPT ![g] = 0]
    /\ seen' = [seen EXCEPT ![g] = [nonces |-> {}, pids |-> {}]]
    /\ quota' = [quota EXCEPT ![g] = {}]
    /\ outcome' = [outcome EXCEPT ![g] = NoOutcome]
    /\ UNCHANGED <<storeVars, executed>>
------------------------------------------------------------------------------
(* _effective_authority *)
Subject(g) ==      \* the agent whose authority is asked for
    IF loc[g].stage = "delegate" THEN loc[g].call.from ELSE loc[g].call.agent

ReadBase(g) ==
    /\ pc[g] = "base"
    /\ loc' = [loc EXCEPT ![g].auth = LiveAuthority(Subject(g))]
    /\ Goto(g, "restr")
    /\ UNCHANGED <<storeVars, localVars, outcome, executed, crashes>>

AfterAuthority(stage) ==
    CASE stage = "check" -> "gate" [] stage = "fresh" -> "spend" [] stage = "delegate" -> "offer"

ReadRestrictions(g) ==
    LET ids    == ActiveIds(Subject(g))
        active == {i \in ids : IsRestrictionLive(g, restrictions[i])}
        rows   == {[name |-> restrictions[i].name, scope |-> restrictions[i].scope] : i \in active}
    IN  /\ pc[g] = "restr"
        /\ loc' = [loc EXCEPT ![g].auth = EffectiveAuthority(@, rows),
                              ![g].todo = ids \ active]
        /\ Goto(g, IF ids = active THEN AfterAuthority(loc[g].stage) ELSE "expire")
        /\ UNCHANGED <<storeVars, localVars, outcome, executed, crashes>>

ExpireForever(g, i) ==            \* seeded fault: the row is listed again
    /\ pc[g] = "expire" /\ i \in loc[g].todo
    /\ MarkExpired(i)
    /\ UNCHANGED govVars

(* mark_expired is best effort: a failure changes no decision. *)
ExpireOne(g, i) ==
    /\ pc[g] = "expire" /\ i \in loc[g].todo
    /\ \/ MarkExpired(i)
       \/ StoreMayFail /\ UNCHANGED storeVars
    /\ loc' = [loc EXCEPT ![g].todo = @ \ {i}]
    /\ IF loc[g].todo = {i} THEN Goto(g, AfterAuthority(loc[g].stage)) ELSE UNCHANGED pc
    /\ UNCHANGED <<localVars, outcome, executed, crashes>>
------------------------------------------------------------------------------
(* ChainmailGovernor.clear_restriction: one store call. *)
Clear(g, i, a) ==
    /\ pc[g] = "idle" /\ i \in DOMAIN restrictions
    /\ ClearRestriction(i, a)
    /\ UNCHANGED govVars

(* Time passes the wall-clock expiry of a restriction. *)
ClockPasses(i) ==
    /\ i \in DOMAIN restrictions
    /\ restrictions[i].kind = "wall" /\ ~ restrictions[i].due
    /\ restrictions' = [restrictions EXCEPT ![i].due = TRUE]
    /\ UNCHANGED <<replayVars, stepVars, authVars, audit, govVars>>

GovernorSteps(g) ==
    \/ Restart(g) \/ BootSeed(g) \/ BootDone(g) \/ Crash(g)
    \/ \E a \in Agent : BootCheck(g, a)
    \/ ReadBase(g) \/ ReadRestrictions(g)
    \/ \E i \in DOMAIN restrictions : ExpireOne(g, i)
    \/ \E i \in DOMAIN restrictions, a \in Agent : Clear(g, i, a)

(* sqlite3.Error out of __init__: no governor comes up. *)
BootFails(g) ==
    /\ StoreMayFail /\ pc[g] \in {"boot", "seed"}
    /\ Goto(g, "down")
    /\ loc' = [loc EXCEPT ![g] = Blank]
    /\ UNCHANGED <<storeVars, localVars, outcome, executed, crashes>>
==============================================================================
