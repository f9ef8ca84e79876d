----------------------------- MODULE MemoryGovernor -----------------------------
(***************************************************************************)
(* A ChainmailGovernor with no SQLiteStore: all it knows is in the memory  *)
(* of one process.  Replay protection is a pair of bounded caches, what an *)
(* agent was refused is a bounded intent graph, and its units of budget    *)
(* are taken only after the execution boundary has returned.               *)
(*                                                                         *)
(* The lock is an RLock: a boundary may evaluate another proposal, or      *)
(* delegate, on the thread that called it.  The key registry has a lock of *)
(* its own, and an operator changes it at any time.  Each agent has one    *)
(* metered permission.  Confidences, similarities and thresholds are in    *)
(* per cent.                                                               *)
(***************************************************************************)
EXTENDS Integers, Sequences, FiniteSets, SequencesExt, WeightedVotes

CONSTANTS
    Agent,
    Ceiling,          \* the envelope: units of each agent's permission
    Proposal,         \* records: agent, nonce, id, topic, confidence, kid, lawful
    NoNonce, NoKid,   \* a proposal without them
    Similarity,       \* of two topics, to the embedding engine
    ReentryHigh, ReentryMedium, LowConfidenceMax,
    Kid,              \* key ids the operator may use
    FirstKeys,        \* the key registry at the start
    Ballots,          \* sets of votes the quorum transport may return
    MaxSeenNonces, ProposalLogMax, IntentGraphMax,
    MaxFleetSteps, RestrictTtlSteps,
    MaxNesting,       \* bound: evaluations within evaluations
    Workload          \* what a behaviour is about, and its bounds: the steps
                      \* beyond which nothing is claimed, what a boundary
                      \* evaluates or grants, the decisions the contextual
                      \* signals may come to, the kids the operator handles

ASSUME CeilingAssumption == Ceiling \in [Agent -> Nat]
KeyTable == UNION {[K -> [agent : Agent, revoked : BOOLEAN]] : K \in SUBSET Kid}
ASSUME KeysAssumption == FirstKeys \in KeyTable
ASSUME ProposalAssumption ==
    \A p \in Proposal : p.agent \in Agent /\ p.confidence \in 0..100
ASSUME SimilarityAssumption ==
    Similarity \in [{p.topic : p \in Proposal} \X {p.topic : p \in Proposal} -> 0..100]
ASSUME ReentryAssumption ==
    /\ ReentryHigh \in 0..100 /\ ReentryMedium \in 0..ReentryHigh
    /\ LowConfidenceMax \in 0..100
ASSUME CapAssumption ==
    /\ MaxSeenNonces \in Nat /\ ProposalLogMax \in Nat /\ IntentGraphMax \in Nat
    /\ RestrictTtlSteps \in Nat /\ MaxNesting \in Nat \ {0}
ASSUME HandledAssumption ==
    \A w \in Workload : w.proposals \subseteq Proposal /\ w.keys \subseteq Kid

VARIABLES
    work,          \* the workload of this behaviour (it never changes)
    registry,      \* kid -> its agent, and whether it was revoked
    seenNonces,    \* _seen_nonces and _seen_proposal_ids, oldest first
    seenIds,
    stepCount,
    live,          \* units left to each agent
    restricted,    \* the step counts at which an agent's restrictions expire
    intent,        \* the intent graph: agent, topic and whether it was refused
    stack,         \* executions under way, the innermost last
    history,       \* every evaluation that was decided (ghost)
    claimed,       \* every nonce that was claimed, in order (ghost)
    published      \* the Authority an agent was last given: its units, and
                   \* the step count at which it took the place of another

govVars == <<work, registry, seenNonces, seenIds, stepCount, live, restricted, intent,
             stack, history, claimed, published>>

GovInit ==
    /\ work \in Workload
    /\ registry = FirstKeys
    /\ seenNonces = <<>> /\ seenIds = <<>> /\ stepCount = 0
    /\ live = Ceiling /\ restricted = [a \in Agent |-> {}]
    /\ intent = <<>> /\ stack = <<>>
    /\ history = <<>> /\ claimed = <<>>
    /\ published = [a \in Agent |-> [units |-> Ceiling[a], since |-> 0]]
------------------------------------------------------------------------------
(* Seeded fault: a lock that another thread gets while a boundary runs. *)
MayEnterAny(t) == Len(stack) < MaxNesting

(* The RLock is free, or held by the thread that asks for it again. *)
HoldsLock(t) == stack # <<>> => Last(stack).thread = t
MayEnter(t) == HoldsLock(t) /\ Len(stack) < MaxNesting

LastN(s, n) == IF Len(s) > n THEN SubSeq(s, Len(s) - n + 1, Len(s)) ELSE s

(* Seeded fault: the cache is trimmed before it holds its cap. *)
RememberShort(table, key, cap) == LastN(Append(table, key), cap - 1)

(* _remember: what was remembered first is forgotten first. *)
Remember(table, key, cap) == LastN(Append(table, key), cap)

NonceKey(p) == <<p.agent, p.nonce>>

(* KeyRegistry.resolve: the key is known, bound to the agent, not revoked. *)
Resolves(kid, a) ==
    kid \in DOMAIN registry /\ registry[kid].agent = a /\ ~ registry[kid].revoked

(* CompositeVerifier.verify wants a nonce; an unsigned proposal is let by. *)
Verified(p) ==
    p.kid = NoKid \/ (p.nonce # NoNonce /\ Resolves(p.kid, p.agent))

(* (4)-(6): refused before anything is claimed, and nothing remembers it.  *)
Unheard(p) ==
    \/ p.id \in ToSet(seenIds)
    \/ ~ Verified(p)
    \/ p.nonce # NoNonce /\ NonceKey(p) \in ToSet(seenNonces)

(* (6): the identifiers are consumed, whatever the decision will be.       *)
Claim(p) ==
    /\ stepCount < work.evaluations
    /\ seenIds' = Remember(seenIds, p.id, ProposalLogMax)
    /\ IF p.nonce = NoNonce THEN UNCHANGED <<seenNonces, claimed>>
       ELSE /\ seenNonces' = Remember(seenNonces, NonceKey(p), MaxSeenNonces)
            /\ claimed' = Append(claimed, NonceKey(p))
    /\ stepCount' = stepCount + 1

(* Seeded fault: a restriction ends with the step before. *)
StillRestrictedShort(a, steps) == {e \in restricted[a] : e - 1 > steps}

(* _active_restrictions: those whose step has not come, and only they are  *)
(* kept.                                                                   *)
StillRestricted(a, steps) == {e \in restricted[a] : e > steps}
Prune(a, steps) == [restricted EXCEPT ![a] = StillRestricted(a, steps)]

(* (7)-(9): out of steps, or against the schema or a hard denial.          *)
OutOfBounds(p, steps) == steps > MaxFleetSteps \/ ~ p.lawful

(* (10)-(11): the permission is restricted, or no unit is left of it.      *)
Barred(p, steps) == StillRestricted(p.agent, steps) # {} \/ live[p.agent] < 1

(* reentry_risk: likeness to what was refused, times the confidence that   *)
(* the proposal states for itself.                                         *)
Weight(p, topic) == Similarity[<<p.topic, topic>>] * p.confidence

(* The peak over what this agent was refused reaches a level; without a    *)
(* refusal it reaches none.                                                *)
Reenters(p, level) ==
    \E i \in DOMAIN intent :
        /\ intent[i].agent = p.agent /\ intent[i].refused
        /\ Weight(p, intent[i].topic) >= 100 * level

(* (13): the other signals of the embeddings are left open, and come to a  *)
(* decision of their own; re-entry and low confidence make it no milder.   *)
Verdict(p, signal) ==
    IF signal = "HUMAN" \/ Reenters(p, ReentryHigh) THEN "HUMAN"
    ELSE IF signal = "RECHECK" THEN "RECHECK"
    ELSE IF \/ signal = "RESTRICT" \/ Reenters(p, ReentryMedium)
            \/ p.confidence <= LowConfidenceMax
         THEN "RESTRICT" ELSE "CONTINUE"

(* (15): only a CONTINUE goes to the quorum.                               *)
AfterQuorum(verdict, ballot) ==
    IF verdict = "CONTINUE" THEN Aggregate(ballot) ELSE verdict

(* Seeded fault: only a RESTRICT is a refusal to come back to. *)
RefusalLight(decision) == decision = "RESTRICT"

Refusal(decision) == decision \in {"RESTRICT", "HUMAN"}

(* The intent graph remembers what was decided last. *)
Record(t, p, decision, outer, judged, heard) ==
    /\ intent' = LastN(Append(intent, [agent |-> p.agent, topic |-> p.topic,
                                       refused |-> Refusal(decision)]), IntentGraphMax)
    /\ history' = Append(history, [agent |-> p.agent, topic |-> p.topic,
                                   confidence |-> p.confidence,
                                   decision |-> decision, nested |-> \E i \in DOMAIN outer : outer[i].thread = t,
                                   judged |-> judged, heard |-> heard])

(* One action per way through evaluate, until the boundary is called.  A   *)
(* proposal is refused before its identifiers are claimed;                 *)
Unheeded(t, p) ==
    /\ MayEnter(t) /\ Unheard(p)
    /\ UNCHANGED govVars

(* or behind it, unknown to the intent graph;                              *)
Denied(t, p) ==
    /\ MayEnter(t) /\ ~ Unheard(p)
    /\ Claim(p)
    /\ \/ OutOfBounds(p, stepCount') /\ UNCHANGED restricted
       \/ /\ ~ OutOfBounds(p, stepCount') /\ Barred(p, stepCount')
          /\ restricted' = Prune(p.agent, stepCount')
    /\ UNCHANGED <<work, registry, live, intent, stack, history, published>>

Heard(t, p) ==
    /\ MayEnter(t) /\ ~ Unheard(p)
    /\ Claim(p)
    /\ ~ OutOfBounds(p, stepCount') /\ ~ Barred(p, stepCount')

(* or it is judged, and refused, restricted or sent back;                  *)
Refused(t, p, decision) ==
    /\ Heard(t, p)
    /\ \E s \in work.signals, b \in Ballots : decision = AfterQuorum(Verdict(p, s), b)
    /\ decision # "CONTINUE"
    /\ LET kept == Prune(p.agent, stepCount')
       IN  restricted' = IF decision = "RESTRICT"
                         THEN [kept EXCEPT ![p.agent] =
                                  @ \cup {stepCount' + RestrictTtlSteps}]
                         ELSE kept
    /\ Record(t, p, decision, stack, Len(history), stepCount')
    /\ UNCHANGED <<work, registry, live, stack, published>>

(* or the boundary is called, with the unit checked and not yet taken.     *)
Executing(t, p) ==
    /\ Heard(t, p)
    /\ \E s \in work.signals, b \in Ballots : AfterQuorum(Verdict(p, s), b) = "CONTINUE"
    /\ restricted' = Prune(p.agent, stepCount')
    /\ stack' = Append(stack, [thread |-> t, proposal |-> p,
                               judged |-> Len(history), heard |-> stepCount'])
    /\ UNCHANGED <<work, registry, live, intent, history, published>>

(* Seeded fault: consume_budget does not look at what is left. *)
TakenAnyway(left) == left - 1

Taken(left) == IF left > 0 THEN left - 1 ELSE left

(* (16)-(18): the boundary returns, or it rejects or raises.  The unit is  *)
(* taken from the Authority that was looked up in (10), if one is still    *)
(* there: nobody asks whether it was, nor whether that Authority is still  *)
(* the agent's.                                                            *)
Executed(t, decision) ==
    /\ stack # <<>> /\ Last(stack).thread = t
    /\ decision \in {"CONTINUE", "HUMAN"}
    /\ LET p == Last(stack).proposal
       IN  /\ live' = IF decision = "CONTINUE" /\ published[p.agent].since < Last(stack).heard
                      THEN [live EXCEPT ![p.agent] = Taken(@)] ELSE live
           /\ stack' = Front(stack)
           /\ UNCHANGED <<work, registry, seenNonces, seenIds, stepCount, restricted,
                          claimed, published>>
           /\ Record(t, p, decision, Front(stack), Last(stack).judged, Last(stack).heard)

Publish(a, units) ==
    /\ live' = [live EXCEPT ![a] = units]
    /\ published' = [published EXCEPT ![a] = [units |-> units, since |-> stepCount]]
    /\ UNCHANGED <<work, registry, seenNonces, seenIds, stepCount, intent, stack, history,
                   claimed>>

(* register_delegation: no more than the delegator holds, no more than the *)
(* recipient's ceiling, in place of what it had.                           *)
MayGive(from, units) == StillRestricted(from, stepCount) = {} /\ units <= live[from]

Delegate(t, from, to, units) ==
    /\ HoldsLock(t) /\ MayGive(from, units)
    /\ Publish(to, IF units < Ceiling[to] THEN units ELSE Ceiling[to])
    /\ restricted' = Prune(from, stepCount)

DelegationRefused(t, from, units) ==
    /\ HoldsLock(t) /\ ~ MayGive(from, units)
    /\ restricted' = Prune(from, stepCount)
    /\ UNCHANGED <<work, registry, seenNonces, seenIds, stepCount, live, intent, stack,
                   history, claimed, published>>

(* revoke_delegation: back to the ceiling. *)
RevokeDelegation(t, to) ==
    /\ HoldsLock(t)
    /\ Publish(to, Ceiling[to]) /\ UNCHANGED restricted
------------------------------------------------------------------------------
RegistryChanges(r) ==
    /\ registry' = r
    /\ UNCHANGED <<work, seenNonces, seenIds, stepCount, live, restricted, intent, stack,
                   history, claimed, published>>

WithKey(kid, a) ==
    [k \in DOMAIN registry \cup {kid} |->
        IF k = kid THEN [agent |-> a, revoked |-> FALSE] ELSE registry[k]]

(* Seeded fault: a kid is registered over the one there was. *)
AddKeyOver(kid, a) == RegistryChanges(WithKey(kid, a))

(* KeyRegistry.add_key refuses a kid it knows. *)
AddKey(kid, a) == kid \notin DOMAIN registry /\ RegistryChanges(WithKey(kid, a))

Revoked(r, kid) == [r EXCEPT ![kid].revoked = TRUE]

RevokeKey(kid) == kid \in DOMAIN registry /\ RegistryChanges(Revoked(registry, kid))

(* rotate adds the new key first: when that raises the old one stays.      *)
RotateKey(old, new) ==
    /\ old \in DOMAIN registry /\ new \notin DOMAIN registry
    /\ RegistryChanges(Revoked(WithKey(new, registry[old].agent), old))

Operator ==
    \E kid \in work.keys :
        \/ \E a \in Agent : AddKey(kid, a)
        \/ RevokeKey(kid)
        \/ \E new \in work.keys : RotateKey(kid, new)
------------------------------------------------------------------------------
Entry == [agent : Agent, topic : {p.topic : p \in Proposal}, refused : BOOLEAN]

GovTypeOK ==
    /\ registry \in KeyTable
    /\ ToSet(seenNonces) \subseteq {NonceKey(p) : p \in Proposal}
    /\ ToSet(seenIds) \subseteq {p.id : p \in Proposal}
    /\ Len(seenNonces) <= MaxSeenNonces /\ Len(seenIds) <= ProposalLogMax
    /\ IsInjective(seenNonces) /\ IsInjective(seenIds)
    /\ \A a \in Agent : live[a] \in 0..Ceiling[a]
    /\ \A a \in Agent : \A e \in restricted[a] : e <= stepCount + RestrictTtlSteps
    /\ Len(intent) <= IntentGraphMax /\ ToSet(intent) \subseteq Entry
    /\ Len(stack) <= MaxNesting

(* A nonce is accepted a second time only when the cache had to forget it: *)
(* max_seen_nonces others were claimed in between, whoever claimed them.   *)
ReplayNeedsEviction ==
    \A i, j \in DOMAIN claimed :
        i < j /\ claimed[i] = claimed[j] => j - i > MaxSeenNonces

(* Executions that were heard since an agent was last given units outnumber*)
(* them only by those that a boundary started itself, on the thread that   *)
(* runs it, whatever boundaries delegate and revoke in between: no two     *)
(* threads ever spend the same unit.                                       *)
Ran(a) ==
    {i \in DOMAIN history : /\ history[i].agent = a /\ history[i].decision = "CONTINUE"
                            /\ history[i].heard > published[a].since}
OverrunIsNested ==
    \A a \in Agent :
        Cardinality(Ran(a)) <=
            published[a].units + Cardinality({i \in Ran(a) : history[i].nested})

(* What an agent was refused does not run later under other words, unless  *)
(* the confidence of the later proposal discounts its likeness to below    *)
(* reentry_medium, or the intent graph had to forget the refusal:          *)
(* intent_graph_max decisions, of any agents, were recorded since.         *)
RefusalSticks ==
    \A i, j \in DOMAIN history :
        /\ history[i].decision \in {"RESTRICT", "HUMAN"} /\ history[j].decision = "CONTINUE"
        /\ history[i].agent = history[j].agent
        /\ Weight(history[j], history[i].topic) >= 100 * ReentryMedium
        /\ i <= history[j].judged
        => history[j].judged - i >= IntentGraphMax

(* After a RESTRICT, the agent's permission executes nothing that is heard *)
(* within restrict_ttl_steps evaluations, those of other agents counted.   *)
RestrictionLasts ==
    \A i, j \in DOMAIN history :
        /\ history[i].decision = "RESTRICT" /\ history[j].decision = "CONTINUE"
        /\ history[i].agent = history[j].agent /\ i <= history[j].judged
        => history[j].heard - history[i].heard >= RestrictTtlSteps

(* A revoked key never verifies again, and a kid never changes hands.      *)
RevocationIsFinal ==
    [][\A kid \in DOMAIN registry :
           /\ kid \in DOMAIN registry'
           /\ registry'[kid].agent = registry[kid].agent
           /\ registry[kid].revoked => registry'[kid].revoked]_registry
==============================================================================
