------------------------------ MODULE TableProofs ------------------------------
(***************************************************************************)
(* The rows of the deployment's tables.  The envelope ceiling: whatever is *)
(* seeded, delegated, merged, revoked or spent, in whatever interleaving,  *)
(* no durable permission of an agent ever exceeds what the envelope        *)
(* predeclares for it.  The invariant follows a grant from the clamp in    *)
(* DelegCheck, through the merge, to its publication, by when other        *)
(* governors may have changed the rows.                                    *)
(*                                                                         *)
(* The rest of TypeOK is the counters, the claimed identifiers and the     *)
(* restrictions table.  What a restriction binds follows from what each    *)
(* evaluation has seen of the table.                                       *)
(***************************************************************************)
EXTENDS FleetProofs

RowOK(a, r) ==
    /\ r \in Row
    /\ Within(PermOf(r), Ceiling[a])
    /\ r.max = Unlimited => r.rem = Unlimited
    /\ r.max # Unlimited => r.rem \in Nat /\ r.rem <= r.max

RowsOK ==
    /\ live \in [Agent -> SUBSET Row]
    /\ epoch \in Nat
    /\ \A a \in Agent : \A r \in live[a] : RowOK(a, r)

HasGrant(g) == pc[g] \in {"current", "audit", "publish"}

GrantsOK ==
    \A g \in Gov : HasGrant(g) =>
        \A p \in loc[g].grant.perms : Within(p, Ceiling[loc[g].call.to])

CeilingInv == RowsOK /\ GrantsOK

(* Rows written afresh from permissions within the ceiling are within it.  *)
LEMMA FreshRowsOK ==
    ASSUME NEW a \in Agent, NEW perms, \A p \in perms : Within(p, Ceiling[a]),
           NEW e \in Nat, NEW r \in FreshRows(perms, e)
    PROVE  RowOK(a, r)
<1>1. PICK p \in perms :
          r = [name |-> p.name, scope |-> p.scope, max |-> p.max, rem |-> p.max, epoch |-> e]
  BY DEF FreshRows
<1>2. p \in Permission /\ PermOf(r) = p
  BY <1>1 DEF Within, PermOf, Permission
<1>. QED BY <1>1, <1>2, UnlimitedAssumption DEF RowOK, Row, Permission, Budget

(* Writing them keeps the rows of everybody within the ceiling.            *)
LEMMA WriteRows ==
    ASSUME RowsOK, NEW a \in Agent, NEW perms, \A p \in perms : Within(p, Ceiling[a]),
           epoch' = epoch + 1,
           live' = [live EXCEPT ![a] = FreshRows(perms, epoch + 1)]
    PROVE  RowsOK'
<1>1. epoch + 1 \in Nat
  BY DEF RowsOK
<1>2. \A r \in FreshRows(perms, epoch + 1) : RowOK(a, r)
  BY <1>1, FreshRowsOK
<1>3. \A b \in Agent : \A r \in live'[b] : RowOK(b, r)
  BY <1>2 DEF RowsOK
<1>4. FreshRows(perms, epoch + 1) \subseteq Row
  BY <1>2 DEF RowOK
<1>. QED BY <1>1, <1>3, <1>4 DEF RowsOK, RowOK

(* The envelope's own permissions are within the envelope. *)
LEMMA CeilingWithin ==
    ASSUME NEW a \in Agent, NEW p \in Ceiling[a].perms
    PROVE  Within(p, Ceiling[a])
<1>1. p \in Permission
  BY CeilingAssumption DEF IsAuthority
<1>2. Covers(p, p) /\ WithinBudget(p.max, p.max)
  BY <1>1 DEF Covers, WithinBudget, Permission, Budget
<1>. QED BY <1>1, <1>2 DEF Within

(* consume_permission_budget only lowers a remaining count. *)
LEMMA SpendRows ==
    ASSUME RowsOK, NEW a \in Agent, NEW k, NEW row \in Spendable(a, k),
           epoch' = epoch, ConsumePermission(a, row)
    PROVE  RowsOK'
<1> DEFINE spent == IF row.max = Unlimited THEN row ELSE [row EXCEPT !.rem = @ - 1]
<1>1. row \in live[a] /\ RowOK(a, row)
  BY DEF Spendable, RowsOK
<1>2. row.max # Unlimited => row.rem \in Nat /\ row.rem >= 1
  BY <1>1 DEF Spendable, RowOK
<1>3. RowOK(a, spent)
  <2>1. CASE row.max = Unlimited
    BY <1>1, <2>1
  <2>2. CASE row.max # Unlimited
    <3>1. /\ spent = [row EXCEPT !.rem = row.rem - 1]
          /\ row.rem - 1 \in Nat /\ row \in Row
      BY <1>1, <1>2, <2>2 DEF RowOK
    <3>2. /\ spent \in Row /\ spent.max = row.max /\ spent.rem = row.rem - 1
          /\ PermOf(spent) = PermOf(row)
      BY <3>1 DEF Row, PermOf, Budget
    <3>. QED BY <1>1, <1>2, <2>2, <3>1, <3>2 DEF RowOK, Row, Budget
  <2>. QED BY <2>1, <2>2
<1> HIDE DEF spent
<1>4. live' = [live EXCEPT ![a] = (@ \ {row}) \cup {spent}]
  BY DEF ConsumePermission, spent
<1>5. \A b \in Agent : \A r \in live'[b] : RowOK(b, r)
  BY <1>3, <1>4 DEF RowsOK
<1>6. live' \in [Agent -> SUBSET Row]
  BY <1>3, <1>4 DEF RowsOK, RowOK
<1>. QED BY <1>5, <1>6 DEF RowsOK, RowOK
------------------------------------------------------------------------------
(* A step that writes no permission rows and prepares no grant.            *)
PrepareNone ==
    \A h \in Gov : HasGrant(h)' =>
        /\ HasGrant(h) /\ loc'[h].call = loc[h].call /\ loc'[h].grant = loc[h].grant
NoGrant ==
    /\ UNCHANGED <<live, epoch>>
    /\ PrepareNone

(* Such a step keeps the invariant. *)
LEMMA PrepareNoneKeeps == GrantsOK /\ PrepareNone => GrantsOK'
BY DEF GrantsOK, PrepareNone

(* It keeps all of it when the rows stay as they are. *)
LEMMA NoGrantKeeps == CeilingInv /\ NoGrant => CeilingInv'
BY PrepareNoneKeeps DEF CeilingInv, NoGrant, RowsOK, RowOK

(* Coming up, reading authority and clearing restrictions grant nothing,   *)
(* but for the seeding.                                                    *)
LEMMA GovernorGrantsNothing ==
    ASSUME Shape, NEW g \in Gov, GovernorSteps(g) \/ BootFails(g), ~ BootSeed(g)
    PROVE  NoGrant
<1> USE DEF Shape, Subroutine, Goto, HasGrant, PrepareNone, NoGrant, storeVars, authVars,
            govVars
<1> {"call", "stage", "dec", "count", "within", "budgetOk", "auth", "grant", "todo",
     "floor", "charge", "ran"} = Fields
  BY DEF Fields, Blank
<1>1. CASE Restart(g)
  BY <1>1 DEF Restart
<1>2. ASSUME NEW a \in Agent, BootCheck(g, a)
    PROVE  NoGrant
  BY <1>2 DEF BootCheck
<1>3. CASE BootDone(g)
  BY <1>3 DEF BootDone
<1>4. CASE Crash(g)
  BY <1>4 DEF Crash
<1>5. CASE ReadBase(g)
  BY <1>5 DEF ReadBase
<1>6. CASE ReadRestrictions(g)
  BY <1>6 DEF ReadRestrictions, AfterAuthority
<1>7. ASSUME NEW i \in DOMAIN restrictions, ExpireOne(g, i)
    PROVE  NoGrant
  BY <1>7 DEF ExpireOne, AfterAuthority, MarkExpired
<1>8. ASSUME NEW i \in DOMAIN restrictions, NEW a \in Agent, Clear(g, i, a)
    PROVE  NoGrant
  BY <1>8 DEF Clear, ClearRestriction
<1>9. CASE BootFails(g)
  BY <1>9 DEF BootFails
<1>. QED BY <1>1, <1>2, <1>3, <1>4, <1>5, <1>6, <1>7, <1>8, <1>9
        DEF GovernorSteps

(* An evaluation writes permission rows only to consume.                   *)
LEMMA EvaluateGrantsNothing ==
    ASSUME Shape, NEW g \in Gov, EvaluateSteps(g), ~ EvalConsume(g)
    PROVE  NoGrant
<1> USE DEF Shape, Subroutine, Goto, HasGrant, PrepareNone, NoGrant, storeVars, authVars,
            govVars
<1> {"call", "stage", "dec", "count", "within", "budgetOk", "auth", "grant", "todo",
     "floor", "charge", "ran"} = Fields
  BY DEF Fields, Blank
<1>1. ASSUME NEW p \in Proposal, Submit(g, p)
    PROVE  NoGrant
  BY <1>1 DEF Submit, Deny, Return, Blank
<1>2. CASE EvalClaimNonce(g)
  BY <1>2 DEF EvalClaimNonce, ClaimNonce, Deny, Return
<1>3. CASE EvalClaimProposalId(g)
  BY <1>3 DEF EvalClaimProposalId, ClaimProposalId, Deny, Return
<1>4. CASE EvalCountFleet(g)
  BY <1>4 DEF EvalCountFleet, IncrementFleet
<1>5. CASE EvalCountAgent(g)
  BY <1>5 DEF EvalCountAgent, IncrementAgent, Deny, Return
<1>6. CASE EvalReadLive(g)
  BY <1>6 DEF EvalReadLive
<1>7. ASSUME NEW d \in Decisions, EvalGate(g, d)
    PROVE  NoGrant
  BY <1>7 DEF EvalGate, Deny, Return
<1>8. ASSUME NEW d \in Decisions, EvalQuorum(g, d)
    PROVE  NoGrant
  BY <1>8 DEF EvalQuorum, AfterQuorum
<1>9. CASE EvalAuditStarted(g)
  BY <1>9 DEF EvalAuditStarted, LogAudit, AfterQuorum
<1>10. CASE EvalResolve(g)
  BY <1>10 DEF EvalResolve
<1>11. ASSUME NEW ok \in BOOLEAN, NEW acted \in BOOLEAN, EvalExecute(g, ok, acted)
    PROVE  NoGrant
  BY <1>11 DEF EvalExecute
<1>12. CASE EvalImpose(g)
  BY <1>12 DEF EvalImpose, Impose
<1>13. CASE EvalAuditCompleted(g)
  BY <1>13 DEF EvalAuditCompleted, LogAudit, Return
<1>14. CASE EvalStoreFails(g)
  BY <1>14 DEF EvalStoreFails, Deny, Return
<1>. QED BY <1>1, <1>2, <1>3, <1>4, <1>5, <1>6, <1>7, <1>8, <1>9, <1>10,
        <1>11, <1>12, <1>13, <1>14 DEF EvaluateSteps

(* Seeding writes the envelope's permissions, once. *)
LEMMA SeedKeeps ==
    ASSUME Shape, CeilingInv, NEW g \in Gov, BootSeed(g)
    PROVE  CeilingInv'
<1> DEFINE a == loc[g].call.agent
<1>1. a \in Agent /\ PrepareNone
  BY DEF BootSeed, Shape, Goto, HasGrant, PrepareNone
<1>2. RowsOK'
  <2>1. CASE a \in inited
    BY <2>1 DEF BootSeed, InitializeAgent, authVars, CeilingInv, RowsOK, RowOK
  <2>2. CASE a \notin inited
    <3>1. /\ epoch' = epoch + 1
          /\ live' = [live EXCEPT ![a] = FreshRows(Ceiling[a].perms, epoch + 1)]
      BY <2>2 DEF BootSeed, InitializeAgent
    <3> HIDE DEF a
    <3>. QED BY <1>1, <3>1, WriteRows, CeilingWithin DEF CeilingInv
  <2>. QED BY <2>1, <2>2
<1>. QED BY <1>1, <1>2, PrepareNoneKeeps DEF CeilingInv

(* Consumption lowers one row. *)
LEMMA ConsumeKeeps ==
    ASSUME Shape, CeilingInv, NEW g \in Gov, EvalConsume(g)
    PROVE  CeilingInv'
<1> DEFINE p == loc[g].call
           k == Key(Match(loc[g].auth, p.perm))
<1>1. p \in Proposal /\ p.agent \in Agent
  BY ProposalAssumption DEF EvalConsume, Shape, Evaluating, EvalPcs
<1>2. PrepareNone
  BY DEF EvalConsume, Shape, Goto, HasGrant, PrepareNone
<1>3. RowsOK'
  <2>1. CASE UNCHANGED storeVars
    BY <2>1 DEF storeVars, authVars, CeilingInv, RowsOK, RowOK
  <2>2. CASE \E row \in Spendable(p.agent, k) : ConsumePermission(p.agent, row)
    <3>1. PICK row \in Spendable(p.agent, k) : ConsumePermission(p.agent, row)
      BY <2>2
    <3>2. epoch' = epoch
      BY <3>1 DEF ConsumePermission
    <3> HIDE DEF p, k
    <3>. QED BY <1>1, <3>1, <3>2, SpendRows DEF CeilingInv
  <2>. QED BY <2>1, <2>2 DEF EvalConsume
<1>. QED BY <1>2, <1>3, PrepareNoneKeeps DEF CeilingInv

(* A delegation is clamped when it is checked, stays within the ceiling    *)
(* when it is merged with rows that are, and is published as it is.        *)
LEMMA DelegateKeeps ==
    ASSUME Shape, CeilingInv, NEW g \in Gov, DelegateSteps(g)
    PROVE  CeilingInv'
<1> USE DEF Shape, Goto, HasGrant
<1> {"call", "stage", "dec", "count", "within", "budgetOk", "auth", "grant", "todo",
     "floor", "charge", "ran"} = Fields
  BY DEF Fields, Blank
<1> DEFINE d == loc[g].call
<1>1. ASSUME NEW x \in Delegation, RegisterDelegation(g, x)
      PROVE  NoGrant
  BY <1>1 DEF RegisterDelegation, Blank, PrepareNone, NoGrant, storeVars, authVars
<1>2. CASE DelegCheck(g)
  <2>1. d \in Delegation /\ d.to \in Agent /\ d.offered.perms \subseteq Permission
    BY <1>2, DelegationAssumption DEF DelegCheck, Delegating, DelegPcs, IsAuthority
  <2>2. Ceiling[d.to].perms \subseteq Permission
    BY <2>1, CeilingAssumption DEF IsAuthority
  <2>3. \A r \in ClampToCeiling(d.offered, Ceiling[d.to]).perms : Within(r, Ceiling[d.to])
    BY <2>1, <2>2, ClampIsWithin
  <2>4. UNCHANGED <<live, epoch>>
    BY <1>2 DEF DelegCheck, storeVars, authVars
  <2>5. GrantsOK'
    BY <1>2, <2>3 DEF DelegCheck, RefuseDelegation, Return, GrantsOK, CeilingInv
  <2>. QED BY <2>4, <2>5 DEF CeilingInv, RowsOK, RowOK
<1>3. CASE DelegMerge(g)
  <2>1. d \in Delegation /\ d.to \in Agent
    BY <1>3, DelegationAssumption DEF DelegMerge, Delegating, DelegPcs
  <2>2. \A r \in LiveAuthority(d.to).perms : Within(r, Ceiling[d.to])
    BY <2>1 DEF LiveAuthority, CeilingInv, RowsOK, RowOK
  <2>3. \A r \in loc[g].grant.perms : Within(r, Ceiling[d.to])
    BY <1>3 DEF DelegMerge, CeilingInv, GrantsOK
  <2>4. \A r \in Merge(LiveAuthority(d.to), loc[g].grant).perms : Within(r, Ceiling[d.to])
    BY <2>2, <2>3 DEF Merge
  <2>5. UNCHANGED <<live, epoch>>
    BY <1>3 DEF DelegMerge, storeVars, authVars
  <2>6. GrantsOK'
    BY <1>3, <2>4 DEF DelegMerge, RefuseDelegation, Return, GrantsOK, CeilingInv
  <2>. QED BY <2>5, <2>6 DEF CeilingInv, RowsOK, RowOK
<1>4. CASE DelegAudit(g)
  <2>1. NoGrant
    BY <1>4 DEF DelegAudit, LogAudit, PrepareNone, NoGrant, authVars
  <2>. QED BY <2>1, NoGrantKeeps
<1>5. CASE DelegPublish(g)
  <2>1. d \in Delegation /\ d.to \in Agent
    BY <1>5, DelegationAssumption DEF DelegPublish, Delegating, DelegPcs
  <2>2. \A r \in loc[g].grant.perms : Within(r, Ceiling[d.to])
    BY <1>5 DEF DelegPublish, CeilingInv, GrantsOK
  <2>3. /\ epoch' = epoch + 1
        /\ live' = [live EXCEPT ![d.to] = FreshRows(loc[g].grant.perms, epoch + 1)]
    BY <1>5 DEF DelegPublish, ReplaceLive
  <2>4. PrepareNone
    BY <1>5 DEF DelegPublish, Return, PrepareNone
  <2> HIDE DEF d
  <2>5. RowsOK'
    BY <2>1, <2>2, <2>3, WriteRows DEF CeilingInv
  <2>. QED BY <2>4, <2>5, PrepareNoneKeeps DEF CeilingInv
<1>6. CASE DelegStoreFails(g)
  <2>1. NoGrant
    BY <1>6 DEF DelegStoreFails, RefuseDelegation, Return, PrepareNone, NoGrant, storeVars,
                authVars
  <2>. QED BY <2>1, NoGrantKeeps
<1>7. ASSUME NEW a \in Agent, RevokeDelegation(g, a)
      PROVE  CeilingInv'
  <2>1. /\ epoch' = epoch + 1
        /\ live' = [live EXCEPT ![a] = FreshRows(Ceiling[a].perms, epoch + 1)]
    BY <1>7 DEF RevokeDelegation, ReplaceLive
  <2>2. PrepareNone
    BY <1>7 DEF RevokeDelegation, PrepareNone, govVars
  <2>3. RowsOK'
    BY <2>1, WriteRows, CeilingWithin DEF CeilingInv
  <2>. QED BY <2>2, <2>3, PrepareNoneKeeps DEF CeilingInv
<1>. QED
  BY <1>1, <1>2, <1>3, <1>4, <1>5, <1>6, <1>7, NoGrantKeeps DEF DelegateSteps

(* Every step of the deployment keeps the ceiling. *)
LEMMA CeilingStep == Shape /\ CeilingInv /\ [Next]_vars => CeilingInv'
<1> SUFFICES ASSUME Shape, CeilingInv, [Next]_vars PROVE CeilingInv'
  OBVIOUS
<1>1. CASE UNCHANGED vars
  <2>1. NoGrant
    BY <1>1 DEF vars, storeVars, authVars, govVars, NoGrant, PrepareNone, HasGrant
  <2>. QED BY <2>1, NoGrantKeeps
<1>2. ASSUME NEW i \in DOMAIN restrictions, ClockPasses(i)
      PROVE  CeilingInv'
  <2>1. NoGrant
    BY <1>2 DEF ClockPasses, authVars, govVars, NoGrant, PrepareNone, HasGrant
  <2>. QED BY <2>1, NoGrantKeeps
<1>3. ASSUME NEW g \in Gov, GovernorSteps(g) \/ BootFails(g)
      PROVE  CeilingInv'
  BY <1>3, GovernorGrantsNothing, NoGrantKeeps, SeedKeeps
<1>4. ASSUME NEW g \in Gov, EvaluateSteps(g)
      PROVE  CeilingInv'
  BY <1>4, EvaluateGrantsNothing, NoGrantKeeps, ConsumeKeeps
<1>5. ASSUME NEW g \in Gov, DelegateSteps(g)
      PROVE  CeilingInv'
  BY <1>5, DelegateKeeps
<1>. QED BY <1>1, <1>2, <1>3, <1>4, <1>5 DEF Next, GovernorNext

(* Initially there are no rows and no grants. *)
LEMMA CeilingInit == Init => CeilingInv
BY DEF Init, StoreInit, GovInit, CeilingInv, RowsOK, GrantsOK, HasGrant

(* README invariants 1 and 2: durable authority never exceeds the envelope *)
(* ceiling, for any envelope, offers and interleaving of governors.        *)
THEOREM CeilingHolds == Spec => []WithinCeiling
<1>1. Init => Shape /\ CeilingInv
  BY ShapeInit, CeilingInit
<1>2. Shape /\ CeilingInv /\ [Next]_vars => (Shape /\ CeilingInv)'
  BY ShapeStep, CeilingStep
<1>3. CeilingInv => WithinCeiling
  <2> SUFFICES ASSUME CeilingInv, NEW a \in Agent, NEW r \in live[a]
               PROVE  /\ \E c \in Ceiling[a].perms : Covers(c, r) /\ WithinBudget(r.max, c.max)
                      /\ WithinBudget(r.rem, r.max)
    BY DEF WithinCeiling
  <2>1. RowOK(a, r)
    BY DEF CeilingInv, RowsOK
  <2>2. WithinBudget(r.rem, r.max)
    BY <2>1, UnlimitedAssumption DEF RowOK, WithinBudget, Row, Budget
  <2>3. PICK c \in Ceiling[a].perms : Covers(c, PermOf(r)) /\ WithinBudget(PermOf(r).max, c.max)
    BY <2>1 DEF RowOK, Within
  <2>4. Covers(c, r) /\ WithinBudget(r.max, c.max)
    BY <2>3 DEF Covers, PermOf
  <2>. QED BY <2>2, <2>4
<1>. QED BY <1>1, <1>2, <1>3, PTL DEF Spec
------------------------------------------------------------------------------
Counters ==
    /\ fleetSteps \in Nat /\ agentSteps \in [Agent -> Nat]
    /\ stepCount \in [Gov -> Nat]
    /\ \A g \in Gov : loc[g].count \in Nat
    /\ crashes \in 0..MaxCrashes
    /\ inited \subseteq Agent

Tables ==
    /\ nonces \subseteq {NonceOf(p) : p \in Proposal}
    /\ pids \subseteq {p.id : p \in Proposal}
    /\ restrictions \in Seq(Restriction)

(* Writing a column of one restriction keeps the table a table.            *)
LEMMA UpdateRestriction ==
    ASSUME restrictions \in Seq(Restriction), NEW i \in DOMAIN restrictions
    PROVE  /\ \A st \in {"EXPIRED", "CLEARED"} :
                 [restrictions EXCEPT ![i].status = st] \in Seq(Restriction)
           /\ [restrictions EXCEPT ![i].due = TRUE] \in Seq(Restriction)
<1>1. restrictions[i] \in Restriction
  OBVIOUS
<1>2. \A r \in Restriction : [restrictions EXCEPT ![i] = r] \in Seq(Restriction)
  OBVIOUS
<1>3. /\ \A st \in {"EXPIRED", "CLEARED"} : [restrictions[i] EXCEPT !.status = st] \in Restriction
      /\ [restrictions[i] EXCEPT !.due = TRUE] \in Restriction
  BY <1>1 DEF Restriction
<1>. QED BY <1>2, <1>3

(* A new restriction is a row of the table. *)
LEMMA NewRestrictionTyped ==
    ASSUME Counters, NEW g \in Gov, NEW p \in Proposal
    PROVE  NewRestriction(g, p) \in Restriction
<1>1. /\ p.agent \in Agent /\ p.perm.name \in Name /\ p.perm.scope \in Scopes
      /\ stepCount[g] + RestrictTtl[g] \in Nat
  BY ProposalAssumption, PolicyAssumption DEF Counters, Permission
<1>. QED BY <1>1 DEF NewRestriction, Restriction

(* The counters stay counters when a governor comes up or reads. *)
LEMMA CountersGovernor ==
    ASSUME Shape, Counters, NEW g \in Gov, GovernorSteps(g) \/ BootFails(g)
    PROVE  Counters'
<1> USE BoundsAssumption, ProposalAssumption
    DEF Shape, Counters, Goto, storeVars, stepVars, replayVars, authVars, localVars, govVars,
        Evaluating, EvalPcs, NonceOf
<1> {"call", "stage", "dec", "count", "within", "budgetOk", "auth", "grant", "todo",
     "floor", "charge", "ran"} = Fields
  BY DEF Fields, Blank
<1> Blank.count = 0
  BY DEF Blank
<1>1. CASE Restart(g)
  BY <1>1 DEF Restart
<1>2. ASSUME NEW a \in Agent, BootCheck(g, a)
    PROVE  Counters'
  BY <1>2 DEF BootCheck
<1>3. CASE BootSeed(g)
  BY <1>3 DEF BootSeed, InitializeAgent
<1>4. CASE BootDone(g)
  BY <1>4 DEF BootDone
<1>5. CASE Crash(g)
  BY <1>5 DEF Crash
<1>6. CASE ReadBase(g)
  BY <1>6 DEF ReadBase
<1>7. CASE ReadRestrictions(g)
  BY <1>7 DEF ReadRestrictions, AfterAuthority
<1>8. ASSUME NEW i \in DOMAIN restrictions, ExpireOne(g, i)
    PROVE  Counters'
  BY <1>8 DEF ExpireOne, AfterAuthority, MarkExpired
<1>9. ASSUME NEW i \in DOMAIN restrictions, NEW a \in Agent, Clear(g, i, a)
    PROVE  Counters'
  BY <1>9 DEF Clear, ClearRestriction
<1>10. CASE BootFails(g)
  BY <1>10 DEF BootFails
<1>. QED BY <1>1, <1>2, <1>3, <1>4, <1>5, <1>6, <1>7, <1>8, <1>9, <1>10
        DEF GovernorSteps

(* The counters stay counters when a governor evaluates. *)
LEMMA CountersEvaluate ==
    ASSUME Shape, Counters, NEW g \in Gov, EvaluateSteps(g)
    PROVE  Counters'
<1> USE BoundsAssumption, ProposalAssumption
    DEF Shape, Counters, Goto, storeVars, stepVars, replayVars, authVars, localVars, govVars,
        Evaluating, EvalPcs, NonceOf
<1> {"call", "stage", "dec", "count", "within", "budgetOk", "auth", "grant", "todo",
     "floor", "charge", "ran"} = Fields
  BY DEF Fields, Blank
<1> Blank.count = 0
  BY DEF Blank
<1>1. ASSUME NEW p \in Proposal, Submit(g, p)
    PROVE  Counters'
  BY <1>1 DEF Submit, Deny, Return, Blank
<1>2. CASE EvalClaimNonce(g)
  BY <1>2 DEF EvalClaimNonce, ClaimNonce, Deny, Return
<1>3. CASE EvalClaimProposalId(g)
  BY <1>3 DEF EvalClaimProposalId, ClaimProposalId, Deny, Return
<1>4. CASE EvalCountFleet(g)
  BY <1>4 DEF EvalCountFleet, IncrementFleet
<1>5. CASE EvalCountAgent(g)
  BY <1>5 DEF EvalCountAgent, IncrementAgent, Deny, Return
<1>6. CASE EvalReadLive(g)
  BY <1>6 DEF EvalReadLive
<1>7. ASSUME NEW d \in Decisions, EvalGate(g, d)
    PROVE  Counters'
  BY <1>7 DEF EvalGate, Deny, Return
<1>8. ASSUME NEW d \in Decisions, EvalQuorum(g, d)
    PROVE  Counters'
  BY <1>8 DEF EvalQuorum, AfterQuorum
<1>9. CASE EvalAuditStarted(g)
  <2>1. loc' = loc \/ loc' = [loc EXCEPT ![g].stage = "fresh", ![g].floor = Len(restrictions)]
    BY <1>9 DEF EvalAuditStarted
  <2>2. \A h \in Gov : loc'[h].count = loc[h].count
    BY <2>1
  <2>. QED BY <1>9, <2>2 DEF EvalAuditStarted, LogAudit
<1>10. CASE EvalResolve(g)
  BY <1>10 DEF EvalResolve
<1>11. CASE EvalConsume(g)
  BY <1>11 DEF EvalConsume, ConsumePermission
<1>12. ASSUME NEW ok \in BOOLEAN, NEW acted \in BOOLEAN, EvalExecute(g, ok, acted)
    PROVE  Counters'
  BY <1>12 DEF EvalExecute
<1>13. CASE EvalImpose(g)
  BY <1>13 DEF EvalImpose, Impose
<1>14. CASE EvalAuditCompleted(g)
  BY <1>14 DEF EvalAuditCompleted, LogAudit, Return
<1>15. CASE EvalStoreFails(g)
  BY <1>15 DEF EvalStoreFails, Deny, Return
<1>. QED BY <1>1, <1>2, <1>3, <1>4, <1>5, <1>6, <1>7, <1>8, <1>9, <1>10,
        <1>11, <1>12, <1>13, <1>14, <1>15 DEF EvaluateSteps

(* The counters stay counters when a governor delegates or revokes. *)
LEMMA CountersDelegate ==
    ASSUME Shape, Counters, NEW g \in Gov, DelegateSteps(g)
    PROVE  Counters'
<1> USE BoundsAssumption, ProposalAssumption
    DEF Shape, Counters, Goto, storeVars, stepVars, replayVars, authVars, localVars, govVars,
        Evaluating, EvalPcs, NonceOf
<1> {"call", "stage", "dec", "count", "within", "budgetOk", "auth", "grant", "todo",
     "floor", "charge", "ran"} = Fields
  BY DEF Fields, Blank
<1> Blank.count = 0
  BY DEF Blank
<1>1. ASSUME NEW d \in Delegation, RegisterDelegation(g, d)
    PROVE  Counters'
  BY <1>1 DEF RegisterDelegation, Blank
<1>2. CASE DelegCheck(g)
  BY <1>2 DEF DelegCheck, RefuseDelegation, Return
<1>3. CASE DelegMerge(g)
  BY <1>3 DEF DelegMerge, RefuseDelegation, Return
<1>4. CASE DelegAudit(g)
  BY <1>4 DEF DelegAudit, LogAudit
<1>5. CASE DelegPublish(g)
  BY <1>5, DelegationAssumption
     DEF Delegating, DelegPcs, DelegPublish, ReplaceLive, Return
<1>6. CASE DelegStoreFails(g)
  BY <1>6 DEF DelegStoreFails, RefuseDelegation, Return
<1>7. ASSUME NEW a \in Agent, RevokeDelegation(g, a)
    PROVE  Counters'
  BY <1>7 DEF RevokeDelegation, ReplaceLive
<1>. QED BY <1>1, <1>2, <1>3, <1>4, <1>5, <1>6, <1>7 DEF DelegateSteps

(* The tables keep their types when a governor comes up, reads or expires. *)
LEMMA TablesGovernor ==
    ASSUME Shape, Tables, NEW g \in Gov, GovernorSteps(g) \/ BootFails(g)
    PROVE  Tables'
<1> USE BoundsAssumption, ProposalAssumption
    DEF Shape, Tables, Goto, storeVars, stepVars, replayVars, authVars, localVars, govVars,
        Evaluating, EvalPcs, NonceOf
<1> {"call", "stage", "dec", "count", "within", "budgetOk", "auth", "grant", "todo",
     "floor", "charge", "ran"} = Fields
  BY DEF Fields, Blank
<1> Blank.count = 0
  BY DEF Blank
<1>1. CASE Restart(g)
  BY <1>1 DEF Restart
<1>2. ASSUME NEW a \in Agent, BootCheck(g, a)
    PROVE  Tables'
  BY <1>2 DEF BootCheck
<1>3. CASE BootSeed(g)
  BY <1>3 DEF BootSeed, InitializeAgent
<1>4. CASE BootDone(g)
  BY <1>4 DEF BootDone
<1>5. CASE Crash(g)
  BY <1>5 DEF Crash
<1>6. CASE ReadBase(g)
  BY <1>6 DEF ReadBase
<1>7. CASE ReadRestrictions(g)
  BY <1>7 DEF ReadRestrictions, AfterAuthority
<1>8. ASSUME NEW i \in DOMAIN restrictions, ExpireOne(g, i)
    PROVE  Tables'
  BY <1>8, UpdateRestriction DEF ExpireOne, AfterAuthority, MarkExpired, LeaveActive
<1>9. ASSUME NEW i \in DOMAIN restrictions, NEW a \in Agent, Clear(g, i, a)
    PROVE  Tables'
  BY <1>9, UpdateRestriction DEF Clear, ClearRestriction, LeaveActive
<1>10. CASE BootFails(g)
  BY <1>10 DEF BootFails
<1>. QED BY <1>1, <1>2, <1>3, <1>4, <1>5, <1>6, <1>7, <1>8, <1>9, <1>10
        DEF GovernorSteps

(* The tables keep their types when a governor evaluates. *)
LEMMA TablesEvaluate ==
    ASSUME Shape, Counters, Tables, NEW g \in Gov, EvaluateSteps(g)
    PROVE  Tables'
<1> USE BoundsAssumption, ProposalAssumption
    DEF Shape, Tables, Goto, storeVars, stepVars, replayVars, authVars, localVars, govVars,
        Evaluating, EvalPcs, NonceOf
<1> {"call", "stage", "dec", "count", "within", "budgetOk", "auth", "grant", "todo",
     "floor", "charge", "ran"} = Fields
  BY DEF Fields, Blank
<1> Blank.count = 0
  BY DEF Blank
<1>1. ASSUME NEW p \in Proposal, Submit(g, p)
    PROVE  Tables'
  BY <1>1 DEF Submit, Deny, Return, Blank
<1>2. CASE EvalClaimNonce(g)
  BY <1>2 DEF EvalClaimNonce, ClaimNonce, Deny, Return
<1>3. CASE EvalClaimProposalId(g)
  BY <1>3 DEF EvalClaimProposalId, ClaimProposalId, Deny, Return
<1>4. CASE EvalCountFleet(g)
  BY <1>4 DEF EvalCountFleet, IncrementFleet
<1>5. CASE EvalCountAgent(g)
  BY <1>5 DEF EvalCountAgent, IncrementAgent, Deny, Return
<1>6. CASE EvalReadLive(g)
  BY <1>6 DEF EvalReadLive
<1>7. ASSUME NEW d \in Decisions, EvalGate(g, d)
    PROVE  Tables'
  BY <1>7 DEF EvalGate, Deny, Return
<1>8. ASSUME NEW d \in Decisions, EvalQuorum(g, d)
    PROVE  Tables'
  BY <1>8 DEF EvalQuorum, AfterQuorum
<1>9. CASE EvalAuditStarted(g)
  BY <1>9 DEF EvalAuditStarted, LogAudit, AfterQuorum
<1>10. CASE EvalResolve(g)
  BY <1>10 DEF EvalResolve
<1>11. CASE EvalConsume(g)
  BY <1>11 DEF EvalConsume, ConsumePermission
<1>12. ASSUME NEW ok \in BOOLEAN, NEW acted \in BOOLEAN, EvalExecute(g, ok, acted)
    PROVE  Tables'
  BY <1>12 DEF EvalExecute
<1>13. CASE EvalImpose(g)
  BY <1>13, NewRestrictionTyped, SMTT(30) DEF EvalImpose, Impose
<1>14. CASE EvalAuditCompleted(g)
  BY <1>14 DEF EvalAuditCompleted, LogAudit, Return
<1>15. CASE EvalStoreFails(g)
  BY <1>15 DEF EvalStoreFails, Deny, Return
<1>. QED BY <1>1, <1>2, <1>3, <1>4, <1>5, <1>6, <1>7, <1>8, <1>9, <1>10,
        <1>11, <1>12, <1>13, <1>14, <1>15 DEF EvaluateSteps

(* The tables keep their types when a governor delegates or revokes. *)
LEMMA TablesDelegate ==
    ASSUME Shape, Tables, NEW g \in Gov, DelegateSteps(g)
    PROVE  Tables'
<1> USE BoundsAssumption, ProposalAssumption
    DEF Shape, Tables, Goto, storeVars, stepVars, replayVars, authVars, localVars, govVars,
        Evaluating, EvalPcs, NonceOf
<1> {"call", "stage", "dec", "count", "within", "budgetOk", "auth", "grant", "todo",
     "floor", "charge", "ran"} = Fields
  BY DEF Fields, Blank
<1> Blank.count = 0
  BY DEF Blank
<1>1. ASSUME NEW d \in Delegation, RegisterDelegation(g, d)
    PROVE  Tables'
  BY <1>1 DEF RegisterDelegation, Blank
<1>2. CASE DelegCheck(g)
  BY <1>2 DEF DelegCheck, RefuseDelegation, Return
<1>3. CASE DelegMerge(g)
  BY <1>3 DEF DelegMerge, RefuseDelegation, Return
<1>4. CASE DelegAudit(g)
  BY <1>4 DEF DelegAudit, LogAudit
<1>5. CASE DelegPublish(g)
  BY <1>5 DEF DelegPublish, ReplaceLive, Return
<1>6. CASE DelegStoreFails(g)
  BY <1>6 DEF DelegStoreFails, RefuseDelegation, Return
<1>7. ASSUME NEW a \in Agent, RevokeDelegation(g, a)
    PROVE  Tables'
  BY <1>7 DEF RevokeDelegation, ReplaceLive
<1>. QED BY <1>1, <1>2, <1>3, <1>4, <1>5, <1>6, <1>7 DEF DelegateSteps

(* Every step keeps the counters and the tables. *)
LEMMA TypeStep == Shape /\ Counters /\ Tables /\ [Next]_vars => Counters' /\ Tables'
<1> SUFFICES ASSUME Shape, Counters, Tables, [Next]_vars PROVE Counters' /\ Tables'
  OBVIOUS
<1>1. CASE UNCHANGED vars
  BY <1>1 DEF vars, storeVars, stepVars, replayVars, authVars, govVars, localVars, Counters, Tables
<1>2. ASSUME NEW i \in DOMAIN restrictions, ClockPasses(i)
      PROVE  Counters' /\ Tables'
  BY <1>2, UpdateRestriction
     DEF ClockPasses, stepVars, replayVars, authVars, govVars, localVars, Counters, Tables
<1>3. ASSUME NEW g \in Gov, GovernorNext(g)
      PROVE  Counters' /\ Tables'
  BY <1>3, CountersGovernor, CountersEvaluate, CountersDelegate,
     TablesGovernor, TablesEvaluate, TablesDelegate DEF GovernorNext
<1>. QED BY <1>1, <1>2, <1>3 DEF Next

(* They start typed. *)
LEMMA TypeInit == Init => Counters /\ Tables
BY BoundsAssumption DEF Init, StoreInit, GovInit, Counters, Tables, Blank

(* Type correctness of the deployment, for any constants the assumptions   *)
(* allow.                                                                  *)
THEOREM TypesHold == Spec => []TypeOK
<1>1. Init => Shape /\ CeilingInv /\ Counters /\ Tables
  BY ShapeInit, CeilingInit, TypeInit
<1>2. Shape /\ CeilingInv /\ Counters /\ Tables /\ [Next]_vars
         => (Shape /\ CeilingInv /\ Counters /\ Tables)'
  BY ShapeStep, CeilingStep, TypeStep
<1>3. Shape /\ CeilingInv /\ Counters /\ Tables => TypeOK
  BY DEF Shape, Fields, CeilingInv, RowsOK, Counters, Tables, TypeOK, StoreTypeOK
<1>. QED BY <1>1, <1>2, <1>3, PTL DEF Spec

------------------------------------------------------------------------------
(* What may happen to a row of the restrictions table: it is retired once, *)
(* as EXPIRED only when its term is over for the fleet, and time passes.   *)
Over(r, steps) ==
    \/ r.kind = "wall" /\ r.due
    \/ r.kind = "steps" /\ r.expiry <= steps

Later(r, s, steps) ==
    /\ s.agent = r.agent /\ s.name = r.name /\ s.scope = r.scope
    /\ s.kind = r.kind /\ s.expiry = r.expiry /\ (r.due => s.due)
    /\ r.status # "ACTIVE" => s.status = r.status
    /\ s.status = "EXPIRED" => r.status = "EXPIRED" \/ Over(r, steps)

(* New rows are not EXPIRED.                                               *)
TableGrows ==
    /\ \A i \in DOMAIN restrictions :
          i \in DOMAIN restrictions' /\ Later(restrictions[i], restrictions'[i], fleetSteps)
    /\ \A i \in DOMAIN restrictions' :
          i \in DOMAIN restrictions \/ restrictions'[i].status = "ACTIVE"
    /\ fleetSteps <= fleetSteps'

(* The mirrors of the fleet's step counter are behind it, and the rows a   *)
(* governor is about to retire are over.                                   *)
Counted ==
    \A g \in Gov : /\ stepCount[g] <= fleetSteps
                   /\ pc[g] = "agent" => loc[g].count <= fleetSteps
Doomed ==
    \A g \in Gov : pc[g] = "expire" =>
        \A i \in loc[g].todo : i \in DOMAIN restrictions /\ Over(restrictions[i], fleetSteps)

(* Writing a table that stays as it is, or grows by an active row.         *)
LEMMA TableSame ==
    ASSUME Tables, Counters, restrictions' = restrictions,
           fleetSteps' = fleetSteps \/ fleetSteps' = fleetSteps + 1
    PROVE  TableGrows
BY DEF TableGrows, Later, Tables, Counters

(* MarkExpired and ClearRestriction touch one row, if it is ACTIVE.        *)
LEMMA TableLeaves ==
    ASSUME Tables, Counters, NEW i \in DOMAIN restrictions, NEW st \in {"EXPIRED", "CLEARED"},
           st = "EXPIRED" => Over(restrictions[i], fleetSteps),
           LeaveActive(i, st), fleetSteps' = fleetSteps
    PROVE  TableGrows
<1>1. CASE restrictions[i].status # "ACTIVE"
  BY <1>1, TableSame DEF LeaveActive
<1>2. CASE restrictions[i].status = "ACTIVE"
  <2>1. restrictions' = [restrictions EXCEPT ![i].status = st]
    BY <1>2 DEF LeaveActive
  <2>2. restrictions[i] \in Restriction
    BY DEF Tables
  <2>3. /\ restrictions'[i] = [restrictions[i] EXCEPT !.status = st]
        /\ DOMAIN restrictions' = DOMAIN restrictions
        /\ \A j \in DOMAIN restrictions : j # i => restrictions'[j] = restrictions[j]
    BY <2>1
  <2>4. Later(restrictions[i], restrictions'[i], fleetSteps)
    BY <1>2, <2>2, <2>3 DEF Later, Restriction
  <2>5. \A j \in DOMAIN restrictions : j # i =>
            Later(restrictions[j], restrictions'[j], fleetSteps)
    BY <2>3 DEF Later
  <2>. QED BY <2>3, <2>4, <2>5 DEF TableGrows, Counters
<1>. QED BY <1>1, <1>2

(* What Append does to a sequence. *)
LEMMA SeqAppend ==
    ASSUME NEW s, NEW S, s \in Seq(S), NEW x
    PROVE  /\ DOMAIN s = 1..Len(s) /\ Len(s) \in Nat
           /\ DOMAIN Append(s, x) = 1..(Len(s) + 1)
           /\ \A i \in 1..Len(s) : Append(s, x)[i] = s[i]
           /\ Append(s, x)[Len(s) + 1] = x
<1> s \in Seq(S \cup {x}) /\ x \in S \cup {x}
  OBVIOUS
<1> QED OBVIOUS

(* Impose appends an active row.                                           *)
LEMMA TableAppends ==
    ASSUME Tables, Counters, NEW r, r.status = "ACTIVE", Impose(r), fleetSteps' = fleetSteps
    PROVE  TableGrows
<1> DEFINE n == Len(restrictions)
<1>1. restrictions \in Seq(Restriction) /\ restrictions' = Append(restrictions, r)
  BY DEF Tables, Impose
<1>2. /\ DOMAIN restrictions = 1..n /\ n \in Nat /\ DOMAIN restrictions' = 1..(n + 1)
      /\ \A i \in 1..n : restrictions'[i] = restrictions[i]
      /\ restrictions'[n + 1] = r
  BY ONLY <1>1, SeqAppend
<1> HIDE DEF n
<1>3. \A i \in DOMAIN restrictions' : i \in DOMAIN restrictions \/ i = n + 1
  BY <1>2
<1>. QED BY <1>2, <1>3 DEF TableGrows, Later, Counters

(* Coming up, reading and clearing treat the table so. *)
LEMMA GovernorTable ==
    ASSUME Shape, Counters, Tables, Doomed, NEW g \in Gov, GovernorSteps(g) \/ BootFails(g)
    PROVE  TableGrows
<1> USE DEF Shape, Goto, storeVars, replayVars, stepVars, authVars, localVars, govVars
<1>1. CASE Restart(g)
  BY <1>1, TableSame DEF Restart
<1>2. ASSUME NEW a \in Agent, BootCheck(g, a) PROVE TableGrows
  BY <1>2, TableSame DEF BootCheck
<1>3. CASE BootSeed(g)
  BY <1>3, TableSame DEF BootSeed, InitializeAgent
<1>4. CASE BootDone(g)
  BY <1>4, TableSame DEF BootDone
<1>5. CASE Crash(g)
  BY <1>5, TableSame DEF Crash
<1>6. CASE ReadBase(g)
  BY <1>6, TableSame DEF ReadBase
<1>7. CASE ReadRestrictions(g)
  BY <1>7, TableSame DEF ReadRestrictions
<1>8. ASSUME NEW i \in DOMAIN restrictions, ExpireOne(g, i) PROVE TableGrows
  <2>1. i \in DOMAIN restrictions /\ Over(restrictions[i], fleetSteps)
    BY <1>8 DEF ExpireOne, Doomed
  <2>. QED BY <1>8, <2>1, TableLeaves, TableSame DEF ExpireOne, MarkExpired
<1>9. ASSUME NEW i \in DOMAIN restrictions, NEW a \in Agent, Clear(g, i, a) PROVE TableGrows
  BY <1>9, TableLeaves, TableSame DEF Clear, ClearRestriction
<1>10. CASE BootFails(g)
  BY <1>10, TableSame DEF BootFails
<1>. QED BY <1>1, <1>2, <1>3, <1>4, <1>5, <1>6, <1>7, <1>8, <1>9, <1>10 DEF GovernorSteps

(* An evaluation only imposes. *)
LEMMA EvaluateTable ==
    ASSUME Shape, Counters, Tables, NEW g \in Gov, EvaluateSteps(g)
    PROVE  TableGrows
<1> USE DEF Shape, Goto, storeVars, replayVars, stepVars, authVars, localVars, govVars
<1>1. ASSUME NEW p \in Proposal, Submit(g, p) PROVE TableGrows
  BY <1>1, TableSame DEF Submit
<1>2. CASE EvalClaimNonce(g)
  BY <1>2, TableSame DEF EvalClaimNonce, ClaimNonce
<1>3. CASE EvalClaimProposalId(g)
  BY <1>3, TableSame DEF EvalClaimProposalId, ClaimProposalId
<1>4. CASE EvalCountFleet(g)
  BY <1>4, TableSame DEF EvalCountFleet, IncrementFleet
<1>5. CASE EvalCountAgent(g)
  BY <1>5, TableSame DEF EvalCountAgent, IncrementAgent
<1>6. CASE EvalReadLive(g)
  BY <1>6, TableSame DEF EvalReadLive
<1>7. ASSUME NEW d \in Decisions, EvalGate(g, d) PROVE TableGrows
  BY <1>7, TableSame DEF EvalGate
<1>8. ASSUME NEW d \in Decisions, EvalQuorum(g, d) PROVE TableGrows
  BY <1>8, TableSame DEF EvalQuorum
<1>9. CASE EvalAuditStarted(g)
  BY <1>9, TableSame DEF EvalAuditStarted, LogAudit
<1>10. CASE EvalResolve(g)
  BY <1>10, TableSame DEF EvalResolve
<1>11. CASE EvalConsume(g)
  BY <1>11, TableSame DEF EvalConsume, ConsumePermission
<1>12. ASSUME NEW ok \in BOOLEAN, NEW acted \in BOOLEAN, EvalExecute(g, ok, acted) PROVE TableGrows
  BY <1>12, TableSame DEF EvalExecute
<1>13. CASE EvalImpose(g)
  <2>1. CASE Impose(NewRestriction(g, loc[g].call))
    <3>1. NewRestriction(g, loc[g].call).status = "ACTIVE"
      BY DEF NewRestriction
    <3>2. fleetSteps' = fleetSteps
      BY <2>1 DEF Impose
    <3>. QED BY <2>1, <3>1, <3>2, TableAppends
  <2>2. CASE UNCHANGED storeVars
    BY <2>2, TableSame
  <2>. QED BY <1>13, <2>1, <2>2 DEF EvalImpose
<1>14. CASE EvalAuditCompleted(g)
  BY <1>14, TableSame DEF EvalAuditCompleted, LogAudit
<1>15. CASE EvalStoreFails(g)
  BY <1>15, TableSame DEF EvalStoreFails
<1>. QED BY <1>1, <1>2, <1>3, <1>4, <1>5, <1>6, <1>7, <1>8, <1>9, <1>10,
        <1>11, <1>12, <1>13, <1>14, <1>15 DEF EvaluateSteps

(* A delegation does not touch it. *)
LEMMA DelegateTable ==
    ASSUME Shape, Counters, Tables, NEW g \in Gov, DelegateSteps(g)
    PROVE  TableGrows
<1> USE DEF Shape, Goto, storeVars, replayVars, stepVars, authVars, localVars, govVars
<1>1. ASSUME NEW d \in Delegation, RegisterDelegation(g, d) PROVE TableGrows
  BY <1>1, TableSame DEF RegisterDelegation
<1>2. CASE DelegCheck(g)
  BY <1>2, TableSame DEF DelegCheck
<1>3. CASE DelegMerge(g)
  BY <1>3, TableSame DEF DelegMerge
<1>4. CASE DelegAudit(g)
  BY <1>4, TableSame DEF DelegAudit, LogAudit
<1>5. CASE DelegPublish(g)
  BY <1>5, TableSame DEF DelegPublish, ReplaceLive
<1>6. CASE DelegStoreFails(g)
  BY <1>6, TableSame DEF DelegStoreFails
<1>7. ASSUME NEW a \in Agent, RevokeDelegation(g, a) PROVE TableGrows
  BY <1>7, TableSame DEF RevokeDelegation, ReplaceLive
<1>. QED BY <1>1, <1>2, <1>3, <1>4, <1>5, <1>6, <1>7 DEF DelegateSteps

(* So every step treats the table.                                         *)
LEMMA TableStep == Shape /\ Counters /\ Tables /\ Doomed /\ [Next]_vars => TableGrows
<1> SUFFICES ASSUME Shape, Counters, Tables, Doomed, [Next]_vars PROVE TableGrows
  OBVIOUS
<1>1. CASE UNCHANGED vars
  BY <1>1, TableSame DEF vars, storeVars, stepVars
<1>2. ASSUME NEW i \in DOMAIN restrictions, ClockPasses(i) PROVE TableGrows
  <2>1. restrictions[i] \in Restriction /\ fleetSteps' = fleetSteps /\ fleetSteps \in Nat
    BY <1>2 DEF Tables, Counters, ClockPasses, stepVars
  <2>2. /\ restrictions'[i] = [restrictions[i] EXCEPT !.due = TRUE]
        /\ DOMAIN restrictions' = DOMAIN restrictions
        /\ \A j \in DOMAIN restrictions : j # i => restrictions'[j] = restrictions[j]
    BY <1>2 DEF ClockPasses
  <2>3. Later(restrictions[i], restrictions'[i], fleetSteps)
    BY <2>1, <2>2 DEF Later, Restriction
  <2>4. \A j \in DOMAIN restrictions : j # i =>
            Later(restrictions[j], restrictions'[j], fleetSteps)
    BY <2>2 DEF Later
  <2>5. \A j \in DOMAIN restrictions : Later(restrictions[j], restrictions'[j], fleetSteps)
    BY <2>3, <2>4
  <2>. QED BY <2>1, <2>2, <2>5 DEF TableGrows
<1>. QED BY <1>1, <1>2, GovernorTable, EvaluateTable, DelegateTable DEF Next, GovernorNext

------------------------------------------------------------------------------
(* The final look: from the read at (15b) to the boundary.  floor is what  *)
(* the table had when that read was due; the authority the evaluation goes *)
(* on with does not contain what was restricted by then.                   *)
Fresh(g) ==
    \/ pc[g] \in Subroutine /\ loc[g].stage = "fresh"
    \/ pc[g] \in {"spend", "consume", "run"}
Looked(g) ==
    \/ pc[g] = "expire" /\ loc[g].stage = "fresh"
    \/ pc[g] \in {"spend", "consume", "run"}
Going(g) == pc[g] \in {"consume", "run"}

Blocks(g, i) ==
    /\ restrictions[i].agent = loc[g].call.agent
    /\ <<restrictions[i].name, restrictions[i].scope>> = Key(loc[g].call.perm)
    /\ restrictions[i].status = "ACTIVE" /\ IsRestrictionLive(g, restrictions[i])

Floors == \A g \in Gov : Fresh(g) => 1..loc[g].floor \subseteq DOMAIN restrictions
Judged ==
    \A g \in Gov : Looked(g) =>
        \A i \in 1..loc[g].floor : Blocks(g, i) => ~ Can(loc[g].auth, loc[g].call.perm)
Allowed == \A g \in Gov : Going(g) => Can(loc[g].auth, loc[g].call.perm)

LookInv == Floors /\ Judged /\ Allowed

(* A step that takes no look and forgets none.                             *)
QuietLook ==
    \A h \in Gov :
        /\ Fresh(h)' => Fresh(h) /\ loc'[h].floor = loc[h].floor
        /\ Looked(h)' => /\ Looked(h) /\ loc'[h].floor = loc[h].floor
                         /\ loc'[h].call = loc[h].call /\ loc'[h].auth = loc[h].auth
                         /\ stepCount'[h] = stepCount[h]
        /\ Going(h)' => Going(h)
        /\ pc'[h] = "expire" => pc[h] = "expire" /\ loc'[h].todo \subseteq loc[h].todo

(* Coming up, reading rows and clearing are quiet. *)
LEMMA GovernorLook ==
    ASSUME Shape, Counters, Counted, NEW g \in Gov, GovernorSteps(g) \/ BootFails(g),
           ~ ReadRestrictions(g)
    PROVE  QuietLook /\ Counted'
<1> USE DEF Shape, Subroutine, Goto, Fresh, Looked, Going, QuietLook, Counted, Counters,
            storeVars, replayVars, stepVars, localVars, govVars
<1> {"call", "stage", "dec", "count", "within", "budgetOk", "auth", "grant", "todo",
     "floor", "charge", "ran"} = Fields
  BY DEF Fields, Blank
<1> Blank.stage = "none"
  BY DEF Blank
<1>1. CASE Restart(g)
  BY <1>1 DEF Restart
<1>2. ASSUME NEW a \in Agent, BootCheck(g, a) PROVE QuietLook /\ Counted'
  BY <1>2 DEF BootCheck
<1>3. CASE BootSeed(g)
  BY <1>3 DEF BootSeed, InitializeAgent
<1>4. CASE BootDone(g)
  BY <1>4 DEF BootDone
<1>5. CASE Crash(g)
  BY <1>5 DEF Crash
<1>6. CASE ReadBase(g)
  BY <1>6 DEF ReadBase
<1>8. ASSUME NEW i \in DOMAIN restrictions, ExpireOne(g, i) PROVE QuietLook /\ Counted'
  BY <1>8 DEF ExpireOne, AfterAuthority, MarkExpired
<1>9. ASSUME NEW i \in DOMAIN restrictions, NEW a \in Agent, Clear(g, i, a) PROVE QuietLook /\ Counted'
  BY <1>9 DEF Clear, ClearRestriction
<1>10. CASE BootFails(g)
  BY <1>10 DEF BootFails
<1>. QED BY <1>1, <1>2, <1>3, <1>4, <1>5, <1>6, <1>8, <1>9, <1>10 DEF GovernorSteps

(* Of an evaluation, the steps into (15b) and out of it are not.           *)
LEMMA EvaluateLook ==
    ASSUME Shape, Counters, Counted, NEW g \in Gov, EvaluateSteps(g),
           ~ EvalAuditStarted(g), \A d \in Decisions : ~ EvalQuorum(g, d), ~ EvalResolve(g)
    PROVE  QuietLook /\ Counted'
<1> USE DEF Shape, Subroutine, Goto, Fresh, Looked, Going, QuietLook, Counted, Counters,
            storeVars, replayVars, stepVars, localVars, govVars
<1> {"call", "stage", "dec", "count", "within", "budgetOk", "auth", "grant", "todo",
     "floor", "charge", "ran"} = Fields
  BY DEF Fields, Blank
<1> Blank.stage = "none"
  BY DEF Blank
<1>1. ASSUME NEW p \in Proposal, Submit(g, p) PROVE QuietLook /\ Counted'
  BY <1>1 DEF Submit, Deny, Return, Blank
<1>2. CASE EvalClaimNonce(g)
  BY <1>2 DEF EvalClaimNonce, ClaimNonce, Deny, Return
<1>3. CASE EvalClaimProposalId(g)
  BY <1>3 DEF EvalClaimProposalId, ClaimProposalId, Deny, Return
<1>4. CASE EvalCountFleet(g)
  BY <1>4 DEF EvalCountFleet, IncrementFleet
<1>5. CASE EvalCountAgent(g)
  BY <1>5 DEF EvalCountAgent, IncrementAgent, Deny, Return
<1>6. CASE EvalReadLive(g)
  BY <1>6 DEF EvalReadLive
<1>7. ASSUME NEW d \in Decisions, EvalGate(g, d) PROVE QuietLook /\ Counted'
  BY <1>7 DEF EvalGate, Deny, Return
<1>11. CASE EvalConsume(g)
  BY <1>11, SMTT(30) DEF EvalConsume, ConsumePermission
<1>12. ASSUME NEW ok \in BOOLEAN, NEW acted \in BOOLEAN, EvalExecute(g, ok, acted) PROVE QuietLook /\ Counted'
  BY <1>12 DEF EvalExecute
<1>13. CASE EvalImpose(g)
  BY <1>13 DEF EvalImpose, Impose
<1>14. CASE EvalAuditCompleted(g)
  BY <1>14 DEF EvalAuditCompleted, LogAudit, Return
<1>15. CASE EvalStoreFails(g)
  BY <1>15 DEF EvalStoreFails, Deny, Return
<1>. QED BY <1>1, <1>2, <1>3, <1>4, <1>5, <1>6, <1>7, <1>11, <1>12, <1>13, <1>14, <1>15 DEF EvaluateSteps

(* A delegation is quiet about it.                                         *)
LEMMA DelegateLook ==
    ASSUME Shape, Counters, Counted, NEW g \in Gov, DelegateSteps(g)
    PROVE  QuietLook /\ Counted'
<1> USE DEF Shape, Subroutine, Goto, Fresh, Looked, Going, QuietLook, Counted, Counters,
            storeVars, replayVars, stepVars, localVars, govVars
<1> {"call", "stage", "dec", "count", "within", "budgetOk", "auth", "grant", "todo",
     "floor", "charge", "ran"} = Fields
  BY DEF Fields, Blank
<1> Blank.stage = "none"
  BY DEF Blank
<1>1. ASSUME NEW d \in Delegation, RegisterDelegation(g, d) PROVE QuietLook /\ Counted'
  BY <1>1 DEF RegisterDelegation, Blank
<1>2. CASE DelegCheck(g)
  BY <1>2 DEF DelegCheck, RefuseDelegation, Return
<1>3. CASE DelegMerge(g)
  BY <1>3 DEF DelegMerge, RefuseDelegation, Return
<1>4. CASE DelegAudit(g)
  BY <1>4 DEF DelegAudit, LogAudit
<1>5. CASE DelegPublish(g)
  BY <1>5 DEF DelegPublish, ReplaceLive, Return
<1>6. CASE DelegStoreFails(g)
  BY <1>6 DEF DelegStoreFails, RefuseDelegation, Return
<1>7. ASSUME NEW a \in Agent, RevokeDelegation(g, a) PROVE QuietLook /\ Counted'
  BY <1>7 DEF RevokeDelegation, ReplaceLive
<1>. QED BY <1>1, <1>2, <1>3, <1>4, <1>5, <1>6, <1>7 DEF DelegateSteps

(* Rows get retired and terms run out; neither makes a governor's judgment *)
(* of them wrong.                                                          *)
LEMMA LookKept ==
    ASSUME Shape, Counters, Tables, LookInv, Doomed, QuietLook, TableGrows, Counters'
    PROVE  LookInv' /\ Doomed'
<1>1. ASSUME NEW g \in Gov, Looked(g)', NEW i \in DOMAIN restrictions, Blocks(g, i)'
      PROVE  Blocks(g, i)
  BY <1>1 DEF QuietLook, TableGrows, Later, Blocks, IsRestrictionLive
<1>2. Floors'
  BY DEF LookInv, Floors, QuietLook, TableGrows
<1>3. Judged'
  <2> SUFFICES ASSUME NEW g \in Gov, Looked(g)', NEW i \in 1..loc'[g].floor, Blocks(g, i)'
               PROVE  ~ Can(loc'[g].auth, loc'[g].call.perm)
    BY DEF Judged
  <2>1. Looked(g) /\ i \in 1..loc[g].floor /\ i \in DOMAIN restrictions
    BY DEF QuietLook, LookInv, Floors, Looked, Fresh, Subroutine
  <2>. QED BY <1>1, <2>1 DEF QuietLook, LookInv, Judged
<1>4. Allowed'
  BY DEF LookInv, Allowed, QuietLook, Going, Looked
<1>5. Doomed'
  <2> SUFFICES ASSUME NEW g \in Gov, pc'[g] = "expire", NEW i \in loc'[g].todo
               PROVE  i \in DOMAIN restrictions' /\ Over(restrictions'[i], fleetSteps')
    BY DEF Doomed
  <2>1. i \in DOMAIN restrictions /\ Over(restrictions[i], fleetSteps)
    BY DEF QuietLook, Doomed
  <2>2. restrictions[i] \in Restriction
    BY <2>1 DEF Tables
  <2>3. restrictions[i].expiry \in Nat
    BY <2>2 DEF Restriction
  <2>. QED BY <2>1, <2>3 DEF TableGrows, Later, Over, Counters
<1>. QED BY <1>2, <1>3, <1>4, <1>5 DEF LookInv

(* _effective_authority leaves nothing that covers a restricted key.       *)
LEMMA Bars ==
    ASSUME NEW a, NEW active, NEW r \in active, NEW q, Key(q) = <<r.name, r.scope>>
    PROVE  ~ Can(EffectiveAuthority(a, active), q)
<1>1. q.name = r.name /\ q.scope = r.scope
  BY DEF Key
<1>2. EffectiveAuthority(a, active).perms =
          {p \in a.perms : \E s \in Unrestricted(a, active) : Covers(s, p)}
  BY DEF EffectiveAuthority, ReduceTo
<1>3. \A s \in Unrestricted(a, active) : \A p : ~ (Covers(s, p) /\ Covers(p, q))
  BY <1>1 DEF Unrestricted, Covers
<1>. QED BY <1>2, <1>3 DEF Can

(* The look itself.                                                        *)
LEMMA ReadLook ==
    ASSUME Shape, Counters, Tables, Counted, Doomed, LookInv, NEW g \in Gov, ReadRestrictions(g)
    PROVE  LookInv' /\ Doomed' /\ Counted'
<1> DEFINE ids    == ActiveIds(Subject(g))
           active == {i \in ids : IsRestrictionLive(g, restrictions[i])}
           rows   == {[name |-> restrictions[i].name, scope |-> restrictions[i].scope] : i \in active}
           left   == EffectiveAuthority(loc[g].auth, rows)
<1>1. /\ pc[g] = "restr"
      /\ loc' = [loc EXCEPT ![g].auth = left, ![g].todo = ids \ active]
      /\ pc' = [pc EXCEPT ![g] = IF ids = active THEN AfterAuthority(loc[g].stage) ELSE "expire"]
      /\ UNCHANGED <<restrictions, fleetSteps, stepCount>>
  BY DEF ReadRestrictions, Goto, storeVars, stepVars, localVars
<1>2. /\ \A h \in Gov : h # g => loc'[h] = loc[h] /\ pc'[h] = pc[h]
      /\ loc'[g].auth = left /\ loc'[g].todo = ids \ active
      /\ loc'[g].call = loc[g].call /\ loc'[g].floor = loc[g].floor
      /\ loc'[g].stage = loc[g].stage /\ loc'[g].count = loc[g].count
  <2>1. {"call", "floor", "auth", "todo", "stage", "count"} \subseteq Fields
    BY DEF Fields, Blank
  <2> HIDE DEF left, ids, active
  <2>. QED BY <1>1, <2>1 DEF Shape
<1>3. /\ pc'[g] = "expire" \/ (pc'[g] = AfterAuthority(loc[g].stage))
      /\ loc[g].stage \in {"check", "fresh", "delegate"}
  BY <1>1 DEF Shape, Subroutine
<1>4. \A i \in DOMAIN restrictions : loc[g].stage = "fresh" /\ Blocks(g, i)
          => ~ Can(left, loc[g].call.perm)
  <2> SUFFICES ASSUME NEW i \in DOMAIN restrictions, loc[g].stage = "fresh", Blocks(g, i)
               PROVE  ~ Can(left, loc[g].call.perm)
    OBVIOUS
  <2> DEFINE row == [name |-> restrictions[i].name, scope |-> restrictions[i].scope]
  <2>1. i \in active
    BY DEF ActiveIds, Subject, Blocks
  <2>2. row \in rows /\ Key(loc[g].call.perm) = <<row.name, row.scope>>
    BY <2>1 DEF Blocks
  <2> HIDE DEF rows, row
  <2>. QED BY <2>2, Bars
<1> HIDE DEF left
<1>5. \A h \in Gov, i \in DOMAIN restrictions : Blocks(h, i)' => Blocks(h, i)
  <2> SUFFICES ASSUME NEW h \in Gov, NEW i \in DOMAIN restrictions, Blocks(h, i)'
               PROVE  Blocks(h, i)
    OBVIOUS
  <2>1. loc'[h].call = loc[h].call
    BY <1>2
  <2>2. restrictions' = restrictions /\ stepCount' = stepCount
    BY <1>1
  <2>. QED BY <2>1, <2>2 DEF Blocks, IsRestrictionLive
<1>6. Floors'
  <2>1. \A h \in Gov : Fresh(h)' => Fresh(h) /\ loc'[h].floor = loc[h].floor
    <3>1. Fresh(g)' => loc[g].stage = "fresh"
      BY <1>2, <1>3 DEF Fresh, AfterAuthority
    <3>. QED BY <1>1, <1>2, <3>1 DEF Fresh, Subroutine
  <2>. QED BY <1>1, <2>1 DEF LookInv, Floors
<1>7. Judged'
  <2> SUFFICES ASSUME NEW h \in Gov, Looked(h)', NEW i \in 1..loc'[h].floor, Blocks(h, i)'
               PROVE  ~ Can(loc'[h].auth, loc'[h].call.perm)
    BY DEF Judged
  <2>1. CASE h # g
    <3>1. Looked(h) /\ loc'[h] = loc[h] /\ i \in DOMAIN restrictions
      BY <1>2, <2>1 DEF Looked, LookInv, Floors, Fresh, Subroutine
    <3>. QED BY <1>5, <3>1 DEF LookInv, Judged
  <2>2. CASE h = g
    <3>1. loc[g].stage = "fresh"
      BY <1>2, <1>3, <2>2 DEF Looked, AfterAuthority
    <3>2. i \in DOMAIN restrictions
      BY <1>1, <1>2, <2>2, <3>1 DEF LookInv, Floors, Fresh, Subroutine
    <3>. QED BY <1>2, <1>4, <1>5, <2>2, <3>1, <3>2
  <2>. QED BY <2>1, <2>2
<1>8. Allowed'
  BY <1>2, <1>3 DEF LookInv, Allowed, Going, AfterAuthority
<1>9. Doomed'
  <2>1. \A i \in ids \ active : i \in DOMAIN restrictions /\ Over(restrictions[i], fleetSteps)
    <3> SUFFICES ASSUME NEW i \in ids \ active
                 PROVE  i \in DOMAIN restrictions /\ Over(restrictions[i], fleetSteps)
      OBVIOUS
    <3>1. i \in DOMAIN restrictions /\ ~ IsRestrictionLive(g, restrictions[i])
      BY DEF ActiveIds
    <3>2. restrictions[i] \in Restriction
      BY <3>1 DEF Tables
    <3>. QED BY <3>1, <3>2 DEF IsRestrictionLive, Over, Restriction, Counted, Counters
  <2> HIDE DEF ids, active
  <2>. QED BY <1>1, <1>2, <2>1 DEF Doomed
<1>10. Counted'
  <2>1. pc'[g] # "agent"
    BY <1>3 DEF AfterAuthority
  <2> HIDE DEF ids, active
  <2>. QED BY <1>1, <1>2, <2>1 DEF Counted
<1>. QED BY <1>6, <1>7, <1>8, <1>9, <1>10 DEF LookInv

(* The steps into (15b), which note how long the table is, and out of it.  *)
LEMMA FloorLook ==
    ASSUME Shape, Tables, Counted, Doomed, LookInv, NEW g \in Gov,
           \/ EvalAuditStarted(g) \/ EvalResolve(g)
           \/ \E d \in Decisions : EvalQuorum(g, d)
    PROVE  LookInv' /\ Doomed' /\ Counted'
<1>1. UNCHANGED <<restrictions, fleetSteps, stepCount>>
  BY DEF EvalAuditStarted, EvalResolve, EvalQuorum, LogAudit, storeVars, stepVars, localVars
<1>2. /\ \A h \in Gov : h # g => loc'[h] = loc[h] /\ pc'[h] = pc[h]
      /\ loc'[g].call = loc[g].call /\ loc'[g].auth = loc[g].auth
      /\ pc'[g] \notin {"expire", "agent"}
      /\ Fresh(g)' => loc'[g].floor = Len(restrictions)
                      \/ (Fresh(g) /\ loc'[g].floor = loc[g].floor)
      /\ Looked(g)' => Looked(g) /\ loc'[g].floor = loc[g].floor
      /\ Going(g)' => Can(loc[g].auth, loc[g].call.perm)
  <2> USE DEF Shape, Goto, Fresh, Looked, Going, Subroutine
  <2> {"call", "stage", "dec", "count", "within", "budgetOk", "auth", "grant", "todo",
       "floor", "charge", "ran"} = Fields
    BY DEF Fields, Blank
  <2>1. CASE EvalAuditStarted(g)
    BY <2>1 DEF EvalAuditStarted, AfterQuorum
  <2>2. ASSUME NEW d \in Decisions, EvalQuorum(g, d)
        PROVE  /\ \A h \in Gov : h # g => loc'[h] = loc[h] /\ pc'[h] = pc[h]
               /\ loc'[g].call = loc[g].call /\ loc'[g].auth = loc[g].auth
               /\ pc'[g] \notin {"expire", "agent"}
               /\ loc'[g].floor = Len(restrictions)
               /\ ~ Looked(g)' /\ ~ Going(g)'
    <3>1. /\ loc' = [loc EXCEPT ![g].dec = d, ![g].stage = "fresh",
                               ![g].floor = Len(restrictions)]
          /\ pc' = [pc EXCEPT ![g] = AfterQuorum(d)]
      BY <2>2 DEF EvalQuorum
    <3>2. AfterQuorum(d) \in {"base", "impose", "completed"}
      BY DEF AfterQuorum
    <3>3. /\ \A h \in Gov : h # g => loc'[h] = loc[h]
          /\ loc'[g].call = loc[g].call /\ loc'[g].auth = loc[g].auth
          /\ loc'[g].floor = Len(restrictions)
      BY <3>1
    <3>4. pc'[g] \in {"base", "impose", "completed"} /\ \A h \in Gov : h # g => pc'[h] = pc[h]
      BY <3>1, <3>2
    <3>. QED BY <3>3, <3>4
  <2>3. CASE EvalResolve(g)
    BY <2>3 DEF EvalResolve
  <2>. QED BY <2>1, <2>2, <2>3
<1>3. \A h \in Gov : \A i : Blocks(h, i)' => Blocks(h, i)
  BY <1>1, <1>2 DEF Blocks, IsRestrictionLive
<1>4. 1..Len(restrictions) = DOMAIN restrictions
  BY DEF Tables
<1>5. Floors'
  BY <1>1, <1>2, <1>4 DEF LookInv, Floors, Fresh
<1>6. Judged'
  BY <1>2, <1>3 DEF LookInv, Judged, Looked
<1>7. Allowed'
  BY <1>2 DEF LookInv, Allowed, Going
<1>8. Doomed' /\ Counted'
  BY <1>1, <1>2 DEF Doomed, Counted
<1>. QED BY <1>5, <1>6, <1>7, <1>8 DEF LookInv

LookAndCount == Counted /\ Doomed /\ LookInv

(* All of it is kept by every step.                                        *)
LEMMA LookStep ==
    Shape /\ Counters /\ Tables /\ LookAndCount /\ [Next]_vars => LookAndCount'
<1> SUFFICES ASSUME Shape, Counters, Tables, Counted, Doomed, LookInv, [Next]_vars
             PROVE  Counted' /\ Doomed' /\ LookInv'
  BY DEF LookAndCount
<1>0. TableGrows /\ Counters'
  BY TableStep, TypeStep
<1>1. ASSUME QuietLook, Counted' PROVE Counted' /\ Doomed' /\ LookInv'
  BY <1>0, <1>1, LookKept
<1>2. CASE UNCHANGED vars
  <2>1. QuietLook /\ Counted'
    BY <1>2 DEF vars, storeVars, stepVars, govVars, localVars, QuietLook, Counted, Fresh, Looked, Going
  <2>. QED BY <1>1, <2>1
<1>3. ASSUME NEW i \in DOMAIN restrictions, ClockPasses(i) PROVE QuietLook /\ Counted'
  BY <1>3 DEF ClockPasses, stepVars, govVars, localVars, QuietLook, Counted, Fresh, Looked, Going
<1>4. ASSUME NEW g \in Gov, GovernorNext(g) PROVE Counted' /\ Doomed' /\ LookInv'
  BY <1>1, <1>4, GovernorLook, EvaluateLook, DelegateLook, ReadLook, FloorLook DEF GovernorNext
<1>. QED BY <1>1, <1>2, <1>3, <1>4 DEF Next

(* There is no look and no restriction at first.                           *)
LEMMA LookInit == Init => LookAndCount
BY DEF Init, StoreInit, GovInit, LookAndCount, Counted, Doomed, LookInv, Floors, Judged, Allowed,
       Fresh, Looked, Going, Subroutine

(* The invariant of the restrictions table.                                *)
LEMMA TableAlways == Spec => [](Shape /\ Counters /\ Tables /\ LookAndCount)
<1>1. Init => Shape /\ Counters /\ Tables /\ LookAndCount
  BY ShapeInit, TypeInit, LookInit
<1>2. Shape /\ Counters /\ Tables /\ LookAndCount /\ [Next]_vars
         => (Shape /\ Counters /\ Tables /\ LookAndCount)'
  BY ShapeStep, TypeStep, LookStep
<1>. QED BY <1>1, <1>2, PTL DEF Spec

(* (15b): what was restricted before the final look, and still is, is not  *)
(* executed, whatever siblings impose, retire or clear meanwhile.          *)
THEOREM RestrictedNotExecuted == Spec => []RestrictionBinds
<1>1. LookInv => RestrictionBinds
  BY DEF LookInv, Judged, Allowed, RestrictionBinds, Looked, Going, Blocks
<1>. QED BY <1>1, TableAlways, PTL DEF LookAndCount

(* Rows stay, and leave ACTIVE once.                                       *)
THEOREM RestrictionsStay == Spec => RestrictionsOneWay
<1>1. Shape /\ Counters /\ Tables /\ LookAndCount /\ [Next]_vars =>
        [\A i \in DOMAIN restrictions :
            /\ i \in DOMAIN restrictions'
            /\ restrictions[i].status # "ACTIVE" =>
                  restrictions'[i].status = restrictions[i].status]_vars
  BY TableStep DEF LookAndCount, TableGrows, Later
<1>. QED BY <1>1, TableAlways, PTL DEF Spec, RestrictionsOneWay

(* A retired row's term stays over.                                        *)
LEMMA EarnedStep ==
    ASSUME Counters, Tables, Tables', Counters', TableGrows, ExpiryIsEarned
    PROVE  ExpiryIsEarned'
<1> SUFFICES ASSUME NEW i \in DOMAIN restrictions', restrictions'[i].status = "EXPIRED"
             PROVE  Over(restrictions'[i], fleetSteps')
  BY DEF ExpiryIsEarned, Over
<1>1. i \in DOMAIN restrictions
  BY DEF TableGrows
<1>2. Over(restrictions[i], fleetSteps)
  BY <1>1 DEF TableGrows, Later, ExpiryIsEarned, Over
<1>3. restrictions[i] \in Restriction
  BY <1>1 DEF Tables
<1>4. restrictions[i].expiry \in Nat
  BY <1>3 DEF Restriction
<1>. QED BY <1>1, <1>2, <1>4 DEF TableGrows, Later, Over, Counters

(* A restriction is EXPIRED only when its term is over for the fleet,      *)
(* although every governor judges by its own mirror of the step counter.   *)
THEOREM ExpiredWhenOver == Spec => []ExpiryIsEarned
<1>1. Init => ExpiryIsEarned
  BY DEF Init, StoreInit, ExpiryIsEarned
<1>2. /\ Shape /\ Counters /\ Tables /\ LookAndCount /\ ExpiryIsEarned
      /\ [Next]_vars
      => ExpiryIsEarned'
  BY TableStep, TypeStep, EarnedStep DEF LookAndCount
<1>. QED BY <1>1, <1>2, TableAlways, PTL DEF Spec
================================================================================
