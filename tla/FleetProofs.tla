------------------------------ MODULE FleetProofs ------------------------------
(***************************************************************************)
(* What every other proof about the fleet rests on.  The pure operators of *)
(* Authority first, for authorities of any size: _match always finds the   *)
(* most restrictive candidate, and clamp_to_ceiling never leaves more than *)
(* the ceiling grants.  Then Shape: which fields a governor's locals have, *)
(* and what kind of call it is serving at which pc.                        *)
(***************************************************************************)
EXTENDS Fleet, WellFoundedInduction, TLAPS

(* A non-empty set of budgets has a least one. *)
LEMMA LeastNat ==
    ASSUME NEW S, S \subseteq Nat, S # {}
    PROVE  \E m \in S : \A n \in S : m <= n
<1> DEFINE R == {ss \in Nat \X Nat : ss[1] < ss[2]}
<1>1. IsWellFoundedOn(R, Nat)
  BY NatLessThanWellFounded DEF OpToRel
<1>2. \A x, y \in S : <<y, x>> \in R <=> y < x
  OBVIOUS
<1> HIDE DEF R
<1>3. \E x \in S : \A y \in S : ~ (<<y, x>> \in R)
  BY <1>1, WFMin
<1>4. PICK m \in S : \A n \in S : ~ (<<n, m>> \in R)
  BY <1>3
<1>5. \A n \in S : m <= n
  <2> TAKE n \in S
  <2>1. ~ (n < m)
    BY <1>2, <1>4
  <2>2. n \in Nat /\ m \in Nat
    OBVIOUS
  <2>. QED BY <2>1, <2>2
<1>. QED BY <1>5

(* _match finds a candidate that no other one undercuts. *)
LEMMA MatchIsCandidate ==
    ASSUME NEW a, a.perms \subseteq Permission, NEW q, Can(a, q)
    PROVE  /\ Match(a, q) \in a.perms
           /\ Covers(Match(a, q), q)
           /\ \A o \in Candidates(a, q) : MoreRestrictive(Match(a, q), o)
<1> DEFINE C == Candidates(a, q)
           bounded == {p \in C : p.max # Unlimited}
<1>1. C # {} /\ C \subseteq Permission
  BY DEF Candidates, Can
<1>2. \A p \in C : p.scope = Wild \/ p.scope = q.scope
  BY DEF Candidates, Covers
<1>3. \A p \in C : p.max = Unlimited \/ p.max \in Nat
  BY <1>1 DEF Permission, Budget
<1>4. \E m \in C : \A o \in C : MoreRestrictive(m, o)
  <2>1. CASE bounded = {}
    <3>1. \A p \in C : p.max = Unlimited
      BY <2>1
    <3>2. CASE \E p \in C : p.scope = Wild
      BY <3>1, <3>2 DEF MoreRestrictive
    <3>3. CASE ~ \E p \in C : p.scope = Wild
      BY <1>1, <1>2, <3>1, <3>3 DEF MoreRestrictive
    <3>. QED BY <3>2, <3>3
  <2>2. CASE bounded # {}
    <3>1. {p.max : p \in bounded} \subseteq Nat /\ {p.max : p \in bounded} # {}
      BY <1>3, <2>2
    <3>2. \E b \in {p.max : p \in bounded} : \A n \in {p.max : p \in bounded} : b <= n
      BY <3>1, LeastNat
    <3>3. PICK l \in bounded : \A p \in bounded : l.max <= p.max
      BY <3>2
    <3> DEFINE least == {p \in bounded : p.max = l.max}
    <3>4. \A p \in least, o \in C : o.max # p.max => MoreRestrictive(p, o)
      BY <1>3, <3>3 DEF MoreRestrictive
    <3>5. CASE \E p \in least : p.scope = Wild
      BY <3>4, <3>5 DEF MoreRestrictive
    <3>6. CASE ~ \E p \in least : p.scope = Wild
      <4>1. \A o \in C : o.max = l.max => o.scope = l.scope
        BY <1>2, <3>6
      <4>. QED BY <3>4, <4>1 DEF MoreRestrictive
    <3>. QED BY <3>5, <3>6
  <2>. QED BY <2>1, <2>2
<1> HIDE DEF C
<1>5. PICK m \in C : \A o \in C : MoreRestrictive(m, o)
  BY <1>4
<1>6. Match(a, q) = CHOOSE p \in C : \A o \in C : MoreRestrictive(p, o)
  BY DEF Match, C
<1>7. Match(a, q) \in C /\ \A o \in C : MoreRestrictive(Match(a, q), o)
  BY <1>5, <1>6
<1>. QED BY <1>7 DEF C, Candidates

(* p is within the permissions ceiling grants: one of them covers it and   *)
(* has at least its budget.                                                *)
Within(p, ceiling) ==
    /\ p \in Permission
    /\ \E c \in ceiling.perms : Covers(c, p) /\ WithinBudget(p.max, c.max)

(* clamp_to_ceiling never leaves anything above the ceiling. *)
LEMMA ClampIsWithin ==
    ASSUME NEW a, a.perms \subseteq Permission,
           NEW ceiling, ceiling.perms \subseteq Permission,
           NEW r \in ClampToCeiling(a, ceiling).perms
    PROVE  Within(r, ceiling)
<1>1. PICK p \in a.perms : Can(ceiling, p) /\ r = Capped(p, ceiling)
  BY DEF ClampToCeiling
<1> DEFINE c == Match(ceiling, p)
<1>2. c \in ceiling.perms /\ Covers(c, p)
  BY <1>1, MatchIsCandidate
<1> HIDE DEF c
<1>3. p \in Permission /\ c \in Permission
  BY <1>2
<1>4. r = [p EXCEPT !.max = CappedBudget(p, c)]
  BY <1>1 DEF Capped, c
<1>5. CappedBudget(p, c) \in Budget /\ WithinBudget(CappedBudget(p, c), c.max)
  BY <1>3, UnlimitedAssumption DEF CappedBudget, Permission, Budget, WithinBudget, Least
<1>6. r \in Permission /\ Covers(c, r) /\ r.max = CappedBudget(p, c)
  BY <1>2, <1>3, <1>4, <1>5 DEF Covers, Permission
<1>. QED BY <1>2, <1>5, <1>6 DEF Within
------------------------------------------------------------------------------
Fields == DOMAIN Blank

Subroutine == {"base", "restr", "expire"}
EvalPcs == {"nonce", "pid", "fleet", "agent", "live", "gate", "started", "quorum",
            "spend", "consume", "run", "impose", "completed"}
DelegPcs == {"offer", "current", "audit", "publish"}

Evaluating(g) ==
    \/ pc[g] \in EvalPcs
    \/ pc[g] \in Subroutine /\ loc[g].stage \in {"check", "fresh"}
Delegating(g) ==
    \/ pc[g] \in DelegPcs
    \/ pc[g] \in Subroutine /\ loc[g].stage = "delegate"

Shape ==
    /\ pc \in [Gov -> Pcs]
    /\ DOMAIN loc = Gov
    /\ \A g \in Gov : DOMAIN loc[g] = Fields
    /\ \A g \in Gov : pc[g] \in Subroutine => loc[g].stage \in {"check", "fresh", "delegate"}
    /\ \A g \in Gov : Evaluating(g) => loc[g].call \in Proposal
    /\ \A g \in Gov : Delegating(g) => loc[g].call \in Delegation
    /\ \A g \in Gov : pc[g] = "seed" => loc[g].call.agent \in Agent

(* The initial state has this shape. *)
LEMMA ShapeInit == Init => Shape
BY DEF Init, GovInit, Shape, Pcs, Fields, Evaluating, Delegating, Subroutine,
       EvalPcs, DelegPcs

(* Every action of every governor keeps it. *)
LEMMA ShapeStep == Shape /\ [Next]_vars => Shape'
<1> SUFFICES ASSUME Shape, [Next]_vars PROVE Shape'
  OBVIOUS
<1> USE DEF Shape, Goto, Pcs, Evaluating, Delegating, Subroutine, EvalPcs, DelegPcs
<1> Blank \in {Blank} /\ DOMAIN Blank = Fields
  BY DEF Fields
<1> {"call", "stage", "dec", "count", "within", "budgetOk", "auth", "grant", "todo",
     "floor", "charge", "ran"} = Fields
  BY DEF Fields, Blank
<1>1. CASE UNCHANGED vars
  BY <1>1 DEF vars, govVars
<1>2. ASSUME NEW i \in DOMAIN restrictions, ClockPasses(i) PROVE Shape'
  BY <1>2 DEF ClockPasses, govVars
<1>3. ASSUME NEW g \in Gov, GovernorSteps(g) \/ BootFails(g) PROVE Shape'
  <2>1. CASE Restart(g)
    BY <2>1 DEF Restart
  <2>2. ASSUME NEW a \in Agent, BootCheck(g, a) PROVE Shape'
    BY <2>2 DEF BootCheck
  <2>3. CASE BootSeed(g)
    BY <2>3 DEF BootSeed
  <2>4. CASE BootDone(g)
    BY <2>4 DEF BootDone
  <2>5. CASE Crash(g)
    BY <2>5 DEF Crash
  <2>6. CASE ReadBase(g)
    BY <2>6 DEF ReadBase
  <2>7. CASE ReadRestrictions(g)
    BY <2>7 DEF ReadRestrictions, AfterAuthority
  <2>8. ASSUME NEW i \in DOMAIN restrictions, ExpireOne(g, i) PROVE Shape'
    BY <2>8 DEF ExpireOne, AfterAuthority
  <2>9. ASSUME NEW i \in DOMAIN restrictions, NEW a \in Agent, Clear(g, i, a) PROVE Shape'
    BY <2>9 DEF Clear, govVars
  <2>10. CASE BootFails(g)
    BY <2>10 DEF BootFails
  <2>. QED  BY <1>3, <2>1, <2>2, <2>3, <2>4, <2>5, <2>6, <2>7, <2>8, <2>9, <2>10
            DEF GovernorSteps
<1>4. ASSUME NEW g \in Gov, EvaluateSteps(g) PROVE Shape'
  <2> USE DEF Deny, Return
  <2>1. ASSUME NEW p \in Proposal, Submit(g, p) PROVE Shape'
    BY <2>1 DEF Submit
  <2>2. CASE EvalClaimNonce(g)
    BY <2>2 DEF EvalClaimNonce
  <2>3. CASE EvalClaimProposalId(g)
    BY <2>3 DEF EvalClaimProposalId
  <2>4. CASE EvalCountFleet(g)
    BY <2>4 DEF EvalCountFleet
  <2>5. CASE EvalCountAgent(g)
    BY <2>5 DEF EvalCountAgent
  <2>6. CASE EvalReadLive(g)
    BY <2>6 DEF EvalReadLive
  <2>7. ASSUME NEW d \in Decisions, EvalGate(g, d) PROVE Shape'
    BY <2>7 DEF EvalGate
  <2>8. ASSUME NEW d \in Decisions, EvalQuorum(g, d) PROVE Shape'
    BY <2>8 DEF EvalQuorum, AfterQuorum
  <2>9. CASE EvalAuditStarted(g)
    <3>1. loc[g].call \in Proposal /\ pc[g] = "started"
      BY <2>9 DEF EvalAuditStarted
    <3>2. CASE loc[g].dec = "CONTINUE" /\ HasQuorum
      BY <2>9, <3>1, <3>2 DEF EvalAuditStarted
    <3>3. CASE ~ (loc[g].dec = "CONTINUE" /\ HasQuorum)
      <4> DEFINE next == AfterQuorum(loc[g].dec)
      <4>1. next \in {"base", "impose", "completed"}
        BY DEF AfterQuorum
      <4>2. /\ pc' = [pc EXCEPT ![g] = next]
            /\ loc' = [loc EXCEPT ![g].stage = "fresh", ![g].floor = Len(restrictions)]
        BY <2>9, <3>3 DEF EvalAuditStarted
      <4> HIDE DEF next
      <4>. QED BY <3>1, <4>1, <4>2
    <3>. QED BY <3>2, <3>3
  <2>10. CASE EvalResolve(g)
    BY <2>10 DEF EvalResolve
  <2>11. CASE EvalConsume(g)
    BY <2>11 DEF EvalConsume
  <2>12. ASSUME NEW ok \in BOOLEAN, NEW acted \in BOOLEAN, EvalExecute(g, ok, acted)
         PROVE Shape'
    BY <2>12 DEF EvalExecute
  <2>13. CASE EvalImpose(g)
    BY <2>13 DEF EvalImpose
  <2>14. CASE EvalAuditCompleted(g)
    BY <2>14 DEF EvalAuditCompleted
  <2>15. CASE EvalStoreFails(g)
    BY <2>15 DEF EvalStoreFails, DowngradesOnFailure
  <2>. QED  BY <1>4, <2>1, <2>2, <2>3, <2>4, <2>5, <2>6, <2>7, <2>8, <2>9, <2>10,
               <2>11, <2>12, <2>13, <2>14, <2>15 DEF EvaluateSteps
<1>5. ASSUME NEW g \in Gov, DelegateSteps(g) PROVE Shape'
  <2> USE DEF RefuseDelegation, Return
  <2>1. ASSUME NEW d \in Delegation, RegisterDelegation(g, d) PROVE Shape'
    BY <2>1 DEF RegisterDelegation
  <2>2. CASE DelegCheck(g)
    BY <2>2 DEF DelegCheck
  <2>3. CASE DelegMerge(g)
    BY <2>3 DEF DelegMerge
  <2>4. CASE DelegAudit(g)
    BY <2>4 DEF DelegAudit
  <2>5. CASE DelegPublish(g)
    BY <2>5 DEF DelegPublish
  <2>6. CASE DelegStoreFails(g)
    BY <2>6 DEF DelegStoreFails
  <2>7. ASSUME NEW a \in Agent, RevokeDelegation(g, a) PROVE Shape'
    BY <2>7 DEF RevokeDelegation, govVars
  <2>. QED  BY <1>5, <2>1, <2>2, <2>3, <2>4, <2>5, <2>6, <2>7 DEF DelegateSteps
<1>. QED BY <1>1, <1>2, <1>3, <1>4, <1>5 DEF Next, GovernorNext
================================================================================
