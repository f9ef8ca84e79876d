------------------------------ MODULE BudgetProofs -----------------------------
(***************************************************************************)
(* Metered budgets, for any number of governors, agents, grants, crashes   *)
(* and store failures.  The argument is about tickets: the remaining count *)
(* a governor's UPDATE found is the ticket of the one execution it may     *)
(* make.  A row only hands out tickets above its remaining count, so no    *)
(* two holders or executions of one grant have the same ticket, and there  *)
(* are max_budget of them.                                                 *)
(* Step budgets, for which the fleet's counter hands out numbers, and the  *)
(* quotas of the STEP_BUDGET policy follow.  Between the two stands the    *)
(* step-by-step refinement of BudgetAccount.                               *)
(***************************************************************************)
EXTENDS TableProofs, ReplayProofs, FiniteSetTheorems

(* Rows have one permission per key, also those a delegation is preparing, *)
(* and no row is from a later grant than the last.                         *)
GrantsKeyed == \A g \in Gov : HasGrant(g) => UniqueKeys(loc[g].grant.perms)

Keyed ==
    /\ \A a \in Agent : UniqueKeys(live[a]) /\ \A r \in live[a] : r.epoch <= epoch
    /\ GrantsKeyed

(* What a step may do to the rows. *)
Writes(a, perms) ==
    /\ UniqueKeys(perms)
    /\ epoch' = epoch + 1
    /\ live' = [live EXCEPT ![a] = FreshRows(perms, epoch + 1)]

SpentRow(row) == IF row.max = Unlimited THEN row ELSE [row EXCEPT !.rem = @ - 1]

Spends(a, row) ==
    /\ row \in live[a] /\ (row.max = Unlimited \/ row.rem >= 1)
    /\ epoch' = epoch
    /\ live' = [live EXCEPT ![a] = (@ \ {row}) \cup {SpentRow(row)}]

(* Rows written afresh keep the keys of their permissions.                 *)
LEMMA FreshKeyed ==
    ASSUME NEW perms, UniqueKeys(perms), NEW e
    PROVE  UniqueKeys(FreshRows(perms, e)) /\ \A r \in FreshRows(perms, e) : r.epoch = e
BY DEF UniqueKeys, FreshRows, Key

(* The clamp changes ceilings, never keys.                                 *)
LEMMA ClampKeyed ==
    ASSUME NEW a, a.perms \subseteq Permission, UniqueKeys(a.perms), NEW c
    PROVE  UniqueKeys(ClampToCeiling(a, c).perms)
<1>1. \A p \in Permission : Key(Capped(p, c)) = Key(p)
  BY DEF Capped, Key, Permission
<1>2. ClampToCeiling(a, c).perms = {Capped(p, c) : p \in {q \in a.perms : Can(c, q)}}
  BY DEF ClampToCeiling
<1> HIDE DEF Capped
<1>. QED BY <1>1, <1>2 DEF UniqueKeys

(* A merge is refused where keys collide.                                  *)
LEMMA MergeKeyed ==
    ASSUME NEW a \in Agent, UniqueKeys(live[a]), live[a] \subseteq Row,
           NEW b, UniqueKeys(b.perms), KeysOf(LiveAuthority(a)) \cap KeysOf(b) = {}
    PROVE  UniqueKeys(Merge(LiveAuthority(a), b).perms)
<1> DEFINE A == LiveAuthority(a)
<1>1. UniqueKeys(A.perms)
  <2>1. \A r \in live[a] : Key(PermOf(r)) = Key(r)
    BY DEF PermOf, Key
  <2>. QED BY <2>1 DEF LiveAuthority, UniqueKeys
<1>2. \A p \in A.perms, q \in b.perms : Key(p) # Key(q)
  BY DEF KeysOf
<1>3. Merge(A, b).perms = A.perms \cup b.perms
  BY DEF Merge
<1>4. UniqueKeys(A.perms \cup b.perms)
  <2> HIDE DEF A
  <2>. QED BY <1>1, <1>2 DEF UniqueKeys
<1>. QED BY <1>3, <1>4

(* Where no rows change and no grant is prepared, keys stay unique.        *)
LEMMA NoGrantKeyed == Keyed /\ NoGrant => Keyed'
BY DEF Keyed, GrantsKeyed, NoGrant, PrepareNone, UniqueKeys

(* Fresh rows leave every row keyed.                                       *)
LEMMA WritesKeyed ==
    ASSUME Keyed, CeilingInv, NEW a \in Agent, NEW perms, Writes(a, perms), PrepareNone
    PROVE  Keyed'
<1>1. /\ UniqueKeys(FreshRows(perms, epoch + 1))
      /\ \A r \in FreshRows(perms, epoch + 1) : r.epoch = epoch + 1
  BY FreshKeyed DEF Writes
<1>2. /\ epoch \in Nat /\ epoch' = epoch + 1
      /\ \A b \in Agent : \A r \in live[b] : r.epoch \in Nat
      /\ live \in [Agent -> SUBSET Row]
      /\ live' = [live EXCEPT ![a] = FreshRows(perms, epoch + 1)]
  BY DEF Writes, CeilingInv, RowsOK, RowOK, Row
<1>3. \A b \in Agent : live'[b] = IF b = a THEN FreshRows(perms, epoch + 1) ELSE live[b]
  BY <1>2
<1>4. \A b \in Agent : UniqueKeys(live'[b])
  BY <1>1, <1>3 DEF Keyed
<1>5. \A b \in Agent : \A r \in live'[b] : r.epoch <= epoch'
  <2> SUFFICES ASSUME NEW b \in Agent, NEW r \in live'[b] PROVE r.epoch <= epoch'
    OBVIOUS
  <2>1. CASE b = a
    BY <1>1, <1>2, <1>3, <2>1
  <2>2. CASE b # a
    <3>1. r \in live[b] /\ r.epoch <= epoch /\ r.epoch \in Nat
      BY <1>2, <1>3, <2>2 DEF Keyed
    <3>. QED BY <1>2, <3>1
  <2>. QED BY <2>1, <2>2
<1>6. GrantsKeyed'
  BY DEF Keyed, GrantsKeyed, PrepareNone
<1>. QED BY <1>4, <1>5, <1>6 DEF Keyed

(* A spent row keeps its key and its grant, and has one unit less.         *)
LEMMA SpentRowIs ==
    ASSUME NEW row \in Row, row.max = Unlimited \/ row.rem \in Nat
    PROVE  /\ Key(SpentRow(row)) = Key(row) /\ SpentRow(row).epoch = row.epoch
           /\ SpentRow(row).max = row.max
           /\ SpentRow(row).rem = IF row.max = Unlimited THEN row.rem ELSE row.rem - 1
BY DEF SpentRow, Key, Row

(* So spending leaves rows keyed. *)
LEMMA SpendsKeyed ==
    ASSUME Keyed, CeilingInv, NEW a \in Agent, NEW row, Spends(a, row), PrepareNone
    PROVE  Keyed'
<1>1. row \in Row /\ (row.max = Unlimited \/ row.rem \in Nat) /\ row \in live[a]
  BY DEF Spends, CeilingInv, RowsOK, RowOK
<1>2. Key(SpentRow(row)) = Key(row) /\ SpentRow(row).epoch = row.epoch
  BY <1>1, SpentRowIs
<1>3. \A b \in Agent : live'[b] = IF b = a THEN (live[a] \ {row}) \cup {SpentRow(row)}
                                ELSE live[b]
  BY DEF Spends, CeilingInv, RowsOK
<1> HIDE DEF SpentRow
<1>4. \A b \in Agent : UniqueKeys(live'[b])
  BY <1>1, <1>2, <1>3 DEF Keyed, UniqueKeys
<1>5. \A b \in Agent : \A r \in live'[b] : r.epoch <= epoch'
  BY <1>1, <1>2, <1>3 DEF Keyed, Spends
<1>6. GrantsKeyed'
  BY DEF Keyed, GrantsKeyed, PrepareNone
<1>. QED BY <1>4, <1>5, <1>6 DEF Keyed

------------------------------------------------------------------------------
(* Every step leaves the rows alone, writes an agent's rows afresh or      *)
(* spends one unit.                                                        *)
RowsChange ==
    \/ UNCHANGED <<live, epoch>>
    \/ \E a \in Agent : \E perms : Writes(a, perms)
    \/ \E a \in Agent : \E row : Spends(a, row)

(* All but consume_permission_budget write afresh or not at all.           *)
Regranted ==
    \/ UNCHANGED <<live, epoch>>
    \/ \E a \in Agent : \E perms : Writes(a, perms)

(* Seeding writes the envelope's own permissions, unless a sibling has.    *)
LEMMA SeedRows ==
    ASSUME Shape, CeilingInv, Keyed, NEW g \in Gov, BootSeed(g)
    PROVE  Keyed' /\ Regranted
<1> DEFINE a == loc[g].call.agent
<1>1. a \in Agent /\ PrepareNone
  BY DEF BootSeed, Shape, Goto, HasGrant, PrepareNone
<1>2. CASE a \in inited
  <2>1. NoGrant
    BY <1>1, <1>2 DEF BootSeed, InitializeAgent, authVars, NoGrant
  <2>. QED BY <2>1, NoGrantKeyed DEF NoGrant, Regranted
<1>3. CASE a \notin inited
  <2>1. Writes(a, Ceiling[a].perms)
    BY <1>1, <1>3, CeilingAssumption DEF BootSeed, InitializeAgent, Writes
  <2> HIDE DEF a
  <2>. QED BY <1>1, <2>1, WritesKeyed DEF Regranted
<1>. QED BY <1>2, <1>3

(* consume_permission_budget spends. *)
LEMMA ConsumeRows ==
    ASSUME Shape, CeilingInv, Keyed, NEW g \in Gov, EvalConsume(g)
    PROVE  Keyed' /\ RowsChange
<1> DEFINE p == loc[g].call
           k == Key(Match(loc[g].auth, p.perm))
<1>1. p.agent \in Agent
  BY ProposalAssumption DEF EvalConsume, Shape, Evaluating, EvalPcs
<1>2. PrepareNone
  BY DEF EvalConsume, Shape, Goto, HasGrant, PrepareNone
<1>3. CASE UNCHANGED storeVars
  <2>1. NoGrant
    BY <1>2, <1>3 DEF storeVars, authVars, NoGrant
  <2>. QED BY <2>1, NoGrantKeyed DEF NoGrant, RowsChange
<1>4. CASE \E row \in Spendable(p.agent, k) : ConsumePermission(p.agent, row)
  <2>1. PICK row \in Spendable(p.agent, k) : ConsumePermission(p.agent, row)
    BY <1>4
  <2>2. Spends(p.agent, row)
    BY <2>1 DEF ConsumePermission, Spendable, Spends, SpentRow
  <2> HIDE DEF p, k
  <2>. QED BY <1>1, <1>2, <2>2, SpendsKeyed DEF RowsChange
<1>. QED BY <1>3, <1>4 DEF EvalConsume

(* What a delegation prepares has one permission per key, and that is what *)
(* it publishes; a revocation writes the envelope's.                       *)
LEMMA DelegateRows ==
    ASSUME Shape, CeilingInv, Keyed, NEW g \in Gov, DelegateSteps(g)
    PROVE  Keyed' /\ Regranted
<1> USE DEF Shape, Goto, HasGrant
<1> {"call", "stage", "dec", "count", "within", "budgetOk", "auth", "grant", "todo",
     "floor", "charge", "ran"} = Fields
  BY DEF Fields, Blank
<1> DEFINE d == loc[g].call
<1>0. ASSUME NoGrant PROVE Keyed' /\ Regranted
  BY <1>0, NoGrantKeyed DEF NoGrant, Regranted
<1>1. ASSUME NEW x \in Delegation, RegisterDelegation(g, x)
      PROVE  NoGrant
  BY <1>1 DEF RegisterDelegation, Blank, PrepareNone, NoGrant, storeVars, authVars
<1>2. CASE DelegCheck(g)
  <2>1. d \in Delegation
    BY <1>2 DEF DelegCheck, Delegating, DelegPcs
  <2>2. UniqueKeys(ClampToCeiling(d.offered, Ceiling[d.to]).perms)
    <3>1. d.offered.perms \subseteq Permission /\ UniqueKeys(d.offered.perms)
      BY <2>1, DelegationAssumption DEF IsAuthority
    <3> HIDE DEF d
    <3>. QED BY <3>1, ClampKeyed
  <2>3. UNCHANGED <<live, epoch>>
    BY <1>2 DEF DelegCheck, storeVars, authVars
  <2>4. GrantsKeyed'
    BY <1>2, <2>2 DEF DelegCheck, RefuseDelegation, Return, GrantsKeyed, Keyed
  <2>. QED BY <2>3, <2>4 DEF Keyed, Regranted
<1>3. CASE DelegMerge(g)
  <2>1. d \in Delegation /\ d.to \in Agent
    BY <1>3, DelegationAssumption DEF DelegMerge, Delegating, DelegPcs
  <2>2. UniqueKeys(live[d.to]) /\ live[d.to] \subseteq Row /\ UniqueKeys(loc[g].grant.perms)
    BY <1>3, <2>1 DEF DelegMerge, Keyed, GrantsKeyed, CeilingInv, RowsOK
  <2>3. KeysOf(LiveAuthority(d.to)) \cap KeysOf(loc[g].grant) = {}
          => UniqueKeys(Merge(LiveAuthority(d.to), loc[g].grant).perms)
    <3> HIDE DEF d
    <3>. QED BY <2>1, <2>2, MergeKeyed
  <2>4. UNCHANGED <<live, epoch>>
    BY <1>3 DEF DelegMerge, storeVars, authVars
  <2>5. GrantsKeyed'
    BY <1>3, <2>3 DEF DelegMerge, RefuseDelegation, Return, GrantsKeyed, Keyed
  <2>. QED BY <2>4, <2>5 DEF Keyed, Regranted
<1>4. CASE DelegAudit(g)
  <2>1. NoGrant
    BY <1>4 DEF DelegAudit, LogAudit, PrepareNone, NoGrant, authVars
  <2>. QED BY <1>0, <2>1
<1>5. CASE DelegPublish(g)
  <2>1. d.to \in Agent
    BY <1>5, DelegationAssumption DEF DelegPublish, Delegating, DelegPcs
  <2>2. Writes(d.to, loc[g].grant.perms)
    BY <1>5 DEF DelegPublish, ReplaceLive, Writes, Keyed, GrantsKeyed
  <2>3. PrepareNone
    BY <1>5 DEF DelegPublish, Return, PrepareNone
  <2> HIDE DEF d
  <2>. QED BY <2>1, <2>2, <2>3, WritesKeyed DEF Regranted
<1>6. CASE DelegStoreFails(g)
  <2>1. NoGrant
    BY <1>6 DEF DelegStoreFails, RefuseDelegation, Return, PrepareNone, NoGrant, storeVars,
                authVars
  <2>. QED BY <1>0, <2>1
<1>7. ASSUME NEW a \in Agent, RevokeDelegation(g, a)
      PROVE  Keyed' /\ Regranted
  <2>1. Writes(a, Ceiling[a].perms)
    BY <1>7, CeilingAssumption DEF RevokeDelegation, ReplaceLive, Writes
  <2>2. PrepareNone
    BY <1>7 DEF RevokeDelegation, PrepareNone, govVars
  <2>. QED BY <2>1, <2>2, WritesKeyed DEF Regranted
<1>. QED BY <1>0, <1>1, <1>2, <1>3, <1>4, <1>5, <1>6, <1>7 DEF DelegateSteps

(* So it is for every step of the deployment.                              *)
LEMMA RowsStep ==
    Shape /\ CeilingInv /\ Keyed /\ [Next]_vars => Keyed' /\ RowsChange
<1> SUFFICES ASSUME Shape, CeilingInv, Keyed, [Next]_vars PROVE Keyed' /\ RowsChange
  OBVIOUS
<1>0. ASSUME NoGrant PROVE Keyed' /\ RowsChange
  BY <1>0, NoGrantKeyed DEF NoGrant, RowsChange
<1>1. CASE UNCHANGED vars
  BY <1>0, <1>1 DEF vars, storeVars, authVars, govVars, NoGrant, PrepareNone, HasGrant
<1>2. ASSUME NEW i \in DOMAIN restrictions, ClockPasses(i) PROVE NoGrant
  BY <1>2 DEF ClockPasses, authVars, govVars, NoGrant, PrepareNone, HasGrant
<1>3. ASSUME NEW g \in Gov, GovernorSteps(g) \/ BootFails(g) PROVE Keyed' /\ RowsChange
  BY <1>0, <1>3, GovernorGrantsNothing, SeedRows DEF Regranted, RowsChange
<1>4. ASSUME NEW g \in Gov, EvaluateSteps(g) PROVE Keyed' /\ RowsChange
  BY <1>0, <1>4, EvaluateGrantsNothing, ConsumeRows
<1>5. ASSUME NEW g \in Gov, DelegateSteps(g) PROVE Keyed' /\ RowsChange
  BY <1>5, DelegateRows DEF Regranted, RowsChange
<1>. QED BY <1>0, <1>1, <1>2, <1>3, <1>4, <1>5 DEF Next, GovernorNext

(* Initially there are no rows.                                            *)
LEMMA KeyedInit == Init => Keyed
BY DEF Init, StoreInit, GovInit, Keyed, GrantsKeyed, HasGrant, UniqueKeys

(* What is left of a grant in one step of the rows.                        *)
LEMMA RowsShrink ==
    ASSUME CeilingInv, Keyed, RowsChange, NEW a \in Agent, NEW r \in live[a],
           NEW s \in live'[a], Key(r) = Key(s), r.epoch = s.epoch
    PROVE  s.max = r.max /\ WithinBudget(s.rem, r.rem)
<1>1. /\ r \in Row /\ (r.max = Unlimited \/ r.rem \in Nat) /\ r.epoch <= epoch
      /\ r.max = Unlimited => r.rem = Unlimited
      /\ live \in [Agent -> SUBSET Row] /\ epoch \in Nat /\ r.epoch \in Nat
      /\ \A x \in live[a] : Key(x) = Key(r) => x = r
  BY DEF CeilingInv, RowsOK, RowOK, Keyed, UniqueKeys, Row
<1>2. WithinBudget(r.rem, r.rem)
  BY <1>1 DEF WithinBudget, Row, Budget
<1>3. CASE UNCHANGED <<live, epoch>>
  BY <1>1, <1>2, <1>3
<1>4. ASSUME NEW b \in Agent, NEW perms, Writes(b, perms)
      PROVE  s.max = r.max /\ WithinBudget(s.rem, r.rem)
  <2>1. live'[a] = IF a = b THEN FreshRows(perms, epoch + 1) ELSE live[a]
    BY <1>1, <1>4 DEF Writes
  <2>2. \A x \in FreshRows(perms, epoch + 1) : x.epoch = epoch + 1
    BY <1>4, FreshKeyed DEF Writes
  <2>3. s \in live[a]
    BY <1>1, <2>1, <2>2
  <2>. QED BY <1>1, <1>2, <2>3
<1>5. ASSUME NEW b \in Agent, NEW row, Spends(b, row)
      PROVE  s.max = r.max /\ WithinBudget(s.rem, r.rem)
  <2>1. live'[a] = IF a = b THEN (live[b] \ {row}) \cup {SpentRow(row)} ELSE live[a]
    BY <1>1, <1>5 DEF Spends
  <2>2. CASE s \in live[a]
    BY <1>1, <1>2, <2>2
  <2>3. CASE a = b /\ s = SpentRow(row)
    <3>1. row \in live[a] /\ row \in Row /\ (row.max = Unlimited \/ row.rem \in Nat)
      BY <1>5, <2>3 DEF Spends, CeilingInv, RowsOK, RowOK
    <3>2. Key(s) = Key(row)
      BY <2>3, <3>1, SpentRowIs
    <3>3. row = r
      BY <1>1, <3>1, <3>2
    <3>4. s.max = r.max /\ s.rem = IF r.max = Unlimited THEN r.rem ELSE r.rem - 1
      BY <2>3, <3>1, <3>3, SpentRowIs
    <3>5. r.max # Unlimited => r.rem \in Nat /\ r.rem >= 1
      BY <1>1, <1>5, <3>3 DEF Spends
    <3>. QED BY <1>2, <3>4, <3>5 DEF WithinBudget
  <2>. QED BY <2>1, <2>2, <2>3
<1>. QED BY <1>3, <1>4, <1>5 DEF RowsChange

(* Between two grants of a permission no step, of any governor, puts back  *)
(* a unit of its budget.                                                   *)
THEOREM BudgetsShrink == Spec => BudgetOnlyShrinks
<1>1. Init => Shape /\ CeilingInv /\ Keyed
  BY ShapeInit, CeilingInit, KeyedInit
<1>2. Shape /\ CeilingInv /\ Keyed /\ [Next]_vars => (Shape /\ CeilingInv /\ Keyed)'
  BY ShapeStep, CeilingStep, RowsStep
<1>3. Shape /\ CeilingInv /\ Keyed /\ [Next]_vars =>
          [\A a \in Agent : \A r \in live[a], s \in live'[a] :
              /\ Key(r) = Key(s) /\ r.epoch = s.epoch
              => s.max = r.max /\ WithinBudget(s.rem, r.rem)]_vars
  BY RowsStep, RowsShrink
<1>. QED BY <1>1, <1>2, <1>3, PTL DEF Spec, BudgetOnlyShrinks

------------------------------------------------------------------------------
(* A step of one governor leaves the others where they are. *)
OnlyMoves(g) == \A h \in Gov : h # g => pc'[h] = pc[h]
ComingUp(g) == pc[g] \in {"down", "boot", "seed"}
SeededStays == \A a \in inited : live'[a] = live[a]

(* Coming up writes the rows of agents that have none yet.                 *)
LEMMA BootingStays ==
    ASSUME Shape, CeilingInv, Counters, NEW g \in Gov, GovernorSteps(g) \/ BootFails(g)
    PROVE  SeededStays
<1> USE DEF Shape, Goto, SeededStays, storeVars, authVars, govVars, CeilingInv, RowsOK,
            Counters
<1>1. CASE Restart(g)
  BY <1>1 DEF Restart
<1>2. ASSUME NEW a \in Agent, BootCheck(g, a) PROVE SeededStays
  BY <1>2 DEF BootCheck
<1>3. CASE BootSeed(g)
  BY <1>3 DEF BootSeed, InitializeAgent
<1>4. CASE BootDone(g)
  BY <1>4 DEF BootDone
<1>5. CASE Crash(g)
  BY <1>5 DEF Crash
<1>6. CASE ReadBase(g)
  BY <1>6 DEF ReadBase
<1>7. CASE ReadRestrictions(g)
  BY <1>7 DEF ReadRestrictions, AfterAuthority
<1>8. ASSUME NEW i \in DOMAIN restrictions, ExpireOne(g, i) PROVE SeededStays
  BY <1>8 DEF ExpireOne, AfterAuthority, MarkExpired
<1>9. ASSUME NEW i \in DOMAIN restrictions, NEW a \in Agent, Clear(g, i, a) PROVE SeededStays
  BY <1>9 DEF Clear, ClearRestriction
<1>10. CASE BootFails(g)
  BY <1>10 DEF BootFails
<1>. QED BY <1>1, <1>2, <1>3, <1>4, <1>5, <1>6, <1>7, <1>8, <1>9, <1>10 DEF GovernorSteps

(* Only a governor that is already up evaluates or delegates.              *)
LEMMA ServingIsUp ==
    ASSUME Shape, NEW g \in Gov, EvaluateSteps(g) \/ DelegateSteps(g)
    PROVE  ~ ComingUp(g) \/ UNCHANGED pc
<1> USE DEF ComingUp, Goto, govVars
<1>1. CASE EvaluateSteps(g)
  BY <1>1 DEF EvaluateSteps, Submit, EvalClaimNonce, EvalClaimProposalId, EvalCountFleet,
              EvalCountAgent, EvalReadLive, EvalGate, EvalQuorum, EvalAuditStarted,
              EvalResolve, EvalConsume, EvalExecute, EvalImpose, EvalAuditCompleted,
              EvalStoreFails, DeniesOnFailure, DowngradesOnFailure
<1>2. CASE DelegateSteps(g)
  BY <1>2 DEF DelegateSteps, RegisterDelegation, DelegCheck, DelegMerge, DelegAudit,
              DelegPublish, DelegStoreFails, RevokeDelegation
<1>. QED BY <1>1, <1>2

(* Nor does it move another governor.                                      *)
LEMMA ServingMovesItself ==
    ASSUME Shape, NEW g \in Gov, EvaluateSteps(g) \/ DelegateSteps(g)
    PROVE  OnlyMoves(g)
<1> USE DEF Shape, OnlyMoves, Goto, govVars, Deny, Return, RefuseDelegation
<1>1. CASE EvaluateSteps(g)
  BY <1>1 DEF EvaluateSteps, Submit, EvalClaimNonce, EvalClaimProposalId, EvalCountFleet,
              EvalCountAgent, EvalReadLive, EvalGate, EvalQuorum, EvalAuditStarted,
              EvalResolve, EvalConsume, EvalExecute, EvalImpose, EvalAuditCompleted,
              EvalStoreFails
<1>2. CASE DelegateSteps(g)
  BY <1>2 DEF DelegateSteps, RegisterDelegation, DelegCheck, DelegMerge, DelegAudit,
              DelegPublish, DelegStoreFails, RevokeDelegation
<1>. QED BY <1>1, <1>2

(* persistence.py: restarting a governor never gives an agent that already *)
(* has durable authority more, less or other of it.                        *)
THEOREM RestartRenewsNothing == Spec => RestartKeepsAuthority
<1>1. Init => Shape /\ CeilingInv /\ Counters /\ Tables
  BY ShapeInit, CeilingInit, TypeInit
<1>2. Shape /\ CeilingInv /\ Counters /\ Tables /\ [Next]_vars
         => (Shape /\ CeilingInv /\ Counters /\ Tables)'
  BY ShapeStep, CeilingStep, TypeStep
<1>3. Shape /\ CeilingInv /\ Counters /\ [Next]_vars =>
          [\A g \in Gov, a \in inited :
              pc[g] \in {"down", "boot", "seed"} /\ pc[g] # pc'[g] => live'[a] = live[a]]_vars
  <2> SUFFICES ASSUME Shape, CeilingInv, Counters, Next, NEW g \in Gov, NEW a \in inited,
                      ComingUp(g), pc[g] # pc'[g]
               PROVE  live'[a] = live[a]
    BY DEF ComingUp
  <2>1. ASSUME NEW i \in DOMAIN restrictions, ClockPasses(i) PROVE FALSE
    BY <2>1 DEF ClockPasses, govVars
  <2>2. ASSUME NEW h \in Gov, EvaluateSteps(h) \/ DelegateSteps(h) PROVE FALSE
    BY <2>2, ServingIsUp, ServingMovesItself DEF OnlyMoves
  <2>3. ASSUME NEW h \in Gov, GovernorSteps(h) \/ BootFails(h) PROVE live'[a] = live[a]
    BY <2>3, BootingStays DEF SeededStays
  <2>. QED BY <2>1, <2>2, <2>3 DEF Next, GovernorNext
<1>. QED BY <1>1, <1>2, <1>3, PTL DEF Spec, RestartKeepsAuthority

------------------------------------------------------------------------------
(* A governor at the boundary of a metered permission holds a ticket;      *)
(* before it has spent a unit its call has none.                           *)
Holds(g) == pc[g] = "run" /\ loc[g].charge.metered

Unspent(g) ==
    \/ pc[g] \in {"nonce", "pid", "fleet", "agent", "live", "gate", "started", "quorum",
                  "spend", "consume"}
    \/ pc[g] \in Subroutine

NotYet == \A g \in Gov : Unspent(g) => ~ loc[g].charge.metered

KeepsHolders ==
    \A h \in Gov : Holds(h)' =>
        Holds(h) /\ loc'[h].call = loc[h].call /\ loc'[h].charge = loc[h].charge

(* A step of g leaves what the others hold with them.                      *)
OthersHold(g) == \A h \in Gov : h # g /\ Holds(h) => Holds(h)'

HandsStay(g) == NotYet' /\ KeepsHolders /\ OthersHold(g)

(* Coming up and reading hand out no ticket. *)
LEMMA GovernorHolds ==
    ASSUME Shape, NotYet, NEW g \in Gov, GovernorSteps(g) \/ BootFails(g)
    PROVE  HandsStay(g)
<1> USE DEF Shape, Goto, Holds, Unspent, NotYet, KeepsHolders, OthersHold, HandsStay,
            Subroutine, storeVars, govVars
<1> {"call", "stage", "dec", "count", "within", "budgetOk", "auth", "grant", "todo",
     "floor", "charge", "ran"} = Fields
  BY DEF Fields, Blank
<1> Blank.charge.metered = FALSE /\ Blank.stage = "none"
  BY DEF Blank, NoCharge
<1>1. CASE Restart(g)
  BY <1>1 DEF Restart
<1>2. ASSUME NEW a \in Agent, BootCheck(g, a) PROVE HandsStay(g)
  BY <1>2 DEF BootCheck
<1>3. CASE BootSeed(g)
  BY <1>3 DEF BootSeed, InitializeAgent
<1>4. CASE BootDone(g)
  BY <1>4 DEF BootDone
<1>5. CASE Crash(g)
  BY <1>5 DEF Crash
<1>6. CASE ReadBase(g)
  BY <1>6 DEF ReadBase
<1>7. CASE ReadRestrictions(g)
  BY <1>7 DEF ReadRestrictions, AfterAuthority
<1>8. ASSUME NEW i \in DOMAIN restrictions, ExpireOne(g, i) PROVE HandsStay(g)
  BY <1>8 DEF ExpireOne, AfterAuthority, MarkExpired
<1>9. ASSUME NEW i \in DOMAIN restrictions, NEW a \in Agent, Clear(g, i, a) PROVE HandsStay(g)
  BY <1>9 DEF Clear, ClearRestriction
<1>10. CASE BootFails(g)
  BY <1>10 DEF BootFails
<1>. QED BY <1>1, <1>2, <1>3, <1>4, <1>5, <1>6, <1>7, <1>8, <1>9, <1>10 DEF GovernorSteps

(* Nor does an evaluation, but by consuming. *)
LEMMA EvaluateHolds ==
    ASSUME Shape, NotYet, NEW g \in Gov, EvaluateSteps(g), ~ EvalConsume(g)
    PROVE  HandsStay(g)
<1> USE DEF Shape, Goto, Holds, Unspent, NotYet, KeepsHolders, OthersHold, HandsStay,
            Subroutine, storeVars, govVars
<1> {"call", "stage", "dec", "count", "within", "budgetOk", "auth", "grant", "todo",
     "floor", "charge", "ran"} = Fields
  BY DEF Fields, Blank
<1> Blank.charge.metered = FALSE /\ Blank.stage = "none"
  BY DEF Blank, NoCharge
<1>1. ASSUME NEW p \in Proposal, Submit(g, p) PROVE HandsStay(g)
  BY <1>1 DEF Submit, Deny, Return, Blank
<1>2. CASE EvalClaimNonce(g)
  BY <1>2 DEF EvalClaimNonce, ClaimNonce, Deny, Return
<1>3. CASE EvalClaimProposalId(g)
  BY <1>3 DEF EvalClaimProposalId, ClaimProposalId, Deny, Return
<1>4. CASE EvalCountFleet(g)
  BY <1>4 DEF EvalCountFleet, IncrementFleet
<1>5. CASE EvalCountAgent(g)
  BY <1>5 DEF EvalCountAgent, IncrementAgent, Deny, Return
<1>6. CASE EvalReadLive(g)
  BY <1>6 DEF EvalReadLive
<1>7. ASSUME NEW d \in Decisions, EvalGate(g, d) PROVE HandsStay(g)
  BY <1>7 DEF EvalGate, Deny, Return
<1>8. ASSUME NEW d \in Decisions, EvalQuorum(g, d) PROVE HandsStay(g)
  BY <1>8 DEF EvalQuorum, AfterQuorum
<1>9. CASE EvalAuditStarted(g)
  BY <1>9 DEF EvalAuditStarted, LogAudit, AfterQuorum
<1>10. CASE EvalResolve(g)
  BY <1>10 DEF EvalResolve
<1>12. ASSUME NEW ok \in BOOLEAN, NEW acted \in BOOLEAN, EvalExecute(g, ok, acted) PROVE HandsStay(g)
  BY <1>12 DEF EvalExecute
<1>13. CASE EvalImpose(g)
  BY <1>13 DEF EvalImpose, Impose
<1>14. CASE EvalAuditCompleted(g)
  BY <1>14 DEF EvalAuditCompleted, LogAudit, Return
<1>15. CASE EvalStoreFails(g)
  BY <1>15 DEF EvalStoreFails, Deny, Return
<1>. QED BY <1>1, <1>2, <1>3, <1>4, <1>5, <1>6, <1>7, <1>8, <1>9, <1>10,
        <1>12, <1>13, <1>14, <1>15 DEF EvaluateSteps

(* Nor does a delegation. *)
LEMMA DelegateHolds ==
    ASSUME Shape, NotYet, NEW g \in Gov, DelegateSteps(g)
    PROVE  HandsStay(g)
<1> USE DEF Shape, Goto, Holds, Unspent, NotYet, KeepsHolders, OthersHold, HandsStay,
            Subroutine, storeVars, govVars
<1> {"call", "stage", "dec", "count", "within", "budgetOk", "auth", "grant", "todo",
     "floor", "charge", "ran"} = Fields
  BY DEF Fields, Blank
<1> Blank.charge.metered = FALSE /\ Blank.stage = "none"
  BY DEF Blank, NoCharge
<1>1. ASSUME NEW d \in Delegation, RegisterDelegation(g, d) PROVE HandsStay(g)
  BY <1>1 DEF RegisterDelegation, Blank
<1>2. CASE DelegCheck(g)
  BY <1>2 DEF DelegCheck, RefuseDelegation, Return
<1>3. CASE DelegMerge(g)
  BY <1>3 DEF DelegMerge, RefuseDelegation, Return
<1>4. CASE DelegAudit(g)
  BY <1>4 DEF DelegAudit, LogAudit
<1>5. CASE DelegPublish(g)
  BY <1>5 DEF DelegPublish, ReplaceLive, Return
<1>6. CASE DelegStoreFails(g)
  BY <1>6 DEF DelegStoreFails, RefuseDelegation, Return
<1>7. ASSUME NEW a \in Agent, RevokeDelegation(g, a) PROVE HandsStay(g)
  BY <1>7 DEF RevokeDelegation, ReplaceLive
<1>. QED BY <1>1, <1>2, <1>3, <1>4, <1>5, <1>6, <1>7 DEF DelegateSteps

------------------------------------------------------------------------------
(* A ticket c, for rows and the last grant e: it is one of the units of    *)
(* its grant, and what the grant's row has left is below it.               *)
Ticket(c, rows, e) ==
    /\ c.max \in Nat /\ c.unit \in 1..c.max /\ c.epoch \in Nat /\ c.epoch <= e
    /\ \A r \in rows : Key(r) = c.key /\ r.epoch = c.epoch => r.max = c.max /\ r.rem < c.unit

Apart(a, c, b, d) ==
    a = b /\ c.key = d.key /\ c.epoch = d.epoch => c.max = d.max /\ c.unit # d.unit

Charge(i) == executed[i].charge
Actor(i) == executed[i].call.agent
Paid(i) == Charge(i).metered

HeldTickets ==
    \A g \in Gov : Holds(g) =>
        /\ loc[g].call.agent \in Agent
        /\ Ticket(loc[g].charge, live[loc[g].call.agent], epoch)

UsedTickets ==
    \A i \in DOMAIN executed : Paid(i) =>
        /\ Actor(i) \in Agent
        /\ Ticket(Charge(i), live[Actor(i)], epoch)

HeldApart ==
    \A g, h \in Gov : Holds(g) /\ Holds(h) /\ g # h =>
        Apart(loc[g].call.agent, loc[g].charge, loc[h].call.agent, loc[h].charge)

HeldUnused ==
    \A g \in Gov, i \in DOMAIN executed : Holds(g) /\ Paid(i) =>
        Apart(loc[g].call.agent, loc[g].charge, Actor(i), Charge(i))

UsedApart ==
    \A i, j \in DOMAIN executed : Paid(i) /\ Paid(j) /\ i # j =>
        Apart(Actor(i), Charge(i), Actor(j), Charge(j))

TicketInv ==
    /\ NotYet
    /\ \E S : executed \in Seq(S)
    /\ HeldTickets /\ UsedTickets
    /\ HeldApart /\ HeldUnused /\ UsedApart

(* A ticket stays one whatever happens to the rows: fresh rows are of a    *)
(* later grant, and spending lowers what is left.                          *)
LEMMA TicketStays ==
    ASSUME CeilingInv, Keyed, RowsChange, NEW a \in Agent, NEW c, Ticket(c, live[a], epoch)
    PROVE  Ticket(c, live'[a], epoch')
<1>1. /\ live \in [Agent -> SUBSET Row] /\ epoch \in Nat
      /\ c.max \in Nat /\ c.unit \in Nat /\ c.epoch \in Nat /\ c.epoch <= epoch
      /\ c.max # Unlimited
  BY UnlimitedAssumption DEF CeilingInv, RowsOK, Ticket
<1>2. epoch' \in Nat /\ epoch <= epoch'
  BY <1>1 DEF RowsChange, Writes, Spends
<1>3. ASSUME NEW s \in live'[a], Key(s) = c.key, s.epoch = c.epoch
      PROVE  s.max = c.max /\ s.rem < c.unit
  <2>1. CASE s \in live[a]
    BY <1>3, <2>1 DEF Ticket
  <2>2. CASE s \notin live[a]
    <3>1. ASSUME NEW b \in Agent, NEW perms, Writes(b, perms) PROVE FALSE
      <4>1. s \in FreshRows(perms, epoch + 1)
        BY <1>1, <1>3, <2>2, <3>1 DEF Writes
      <4>2. s.epoch = epoch + 1
        BY <3>1, <4>1, FreshKeyed DEF Writes
      <4>. QED BY <1>1, <1>3, <4>2
    <3>2. ASSUME NEW b \in Agent, NEW row, Spends(b, row)
          PROVE  s.max = c.max /\ s.rem < c.unit
      <4>1. b = a /\ s = SpentRow(row) /\ row \in live[a]
        BY <1>1, <1>3, <2>2, <3>2 DEF Spends
      <4>2. row \in Row /\ (row.max = Unlimited \/ row.rem \in Nat)
        BY <4>1 DEF CeilingInv, RowsOK, RowOK
      <4>3. row.max = c.max /\ row.rem < c.unit
        BY <1>3, <4>1, <4>2, SpentRowIs DEF Ticket
      <4>4. s.max = row.max /\ s.rem = row.rem - 1
        BY <1>1, <4>1, <4>2, <4>3, SpentRowIs
      <4>. QED BY <1>1, <4>2, <4>3, <4>4
    <3>. QED BY <1>3, <2>2, <3>1, <3>2 DEF RowsChange
  <2>. QED BY <2>1, <2>2
<1>. QED BY <1>1, <1>2, <1>3 DEF Ticket

(* What a governor finds in the row it lowers is a new ticket.             *)
LEMMA NewTicket ==
    ASSUME CeilingInv, Keyed, NEW a \in Agent, NEW row, Spends(a, row), row.max # Unlimited
    PROVE  /\ Ticket(ChargeFor(row), live'[a], epoch')
           /\ \A b, c : Ticket(c, live[b], epoch) => Apart(a, ChargeFor(row), b, c)
<1> DEFINE n == ChargeFor(row)
<1>1. /\ row \in Row /\ row \in live[a] /\ row.rem \in Nat /\ row.rem <= row.max
      /\ row.rem >= 1 /\ row.max \in Nat
      /\ row.epoch \in Nat /\ row.epoch <= epoch
      /\ live' = [live EXCEPT ![a] = (@ \ {row}) \cup {SpentRow(row)}] /\ epoch' = epoch
      /\ live \in [Agent -> SUBSET Row]
  BY DEF Spends, CeilingInv, RowsOK, RowOK, Row, Budget, Keyed
<1>2. n.key = Key(row) /\ n.epoch = row.epoch /\ n.max = row.max /\ n.unit = row.rem
  BY DEF ChargeFor
<1> HIDE DEF n
<1>3. ASSUME NEW s \in live'[a], Key(s) = n.key, s.epoch = n.epoch
      PROVE  s.max = n.max /\ s.rem < n.unit
  <2>1. \A x \in live[a] : Key(x) = Key(row) => x = row
    BY <1>1 DEF Keyed, UniqueKeys
  <2>2. s = SpentRow(row)
    BY <1>1, <1>2, <1>3, <2>1
  <2>. QED BY <1>1, <1>2, <2>2, SpentRowIs
<1>4. Ticket(n, live'[a], epoch')
  BY <1>1, <1>2, <1>3 DEF Ticket
<1>5. ASSUME NEW b, NEW c, Ticket(c, live[b], epoch) PROVE Apart(a, n, b, c)
  <2> SUFFICES ASSUME a = b, n.key = c.key, n.epoch = c.epoch
               PROVE  n.max = c.max /\ n.unit # c.unit
    BY DEF Apart
  <2>1. row.max = c.max /\ row.rem < c.unit /\ c.unit \in Nat
    BY <1>1, <1>2, <1>5 DEF Ticket
  <2>. QED BY <1>1, <1>2, <2>1
<1>. QED BY <1>4, <1>5 DEF n

(* A step that hands out no ticket and executes nothing keeps them all.    *)
LEMMA TicketsKept ==
    ASSUME CeilingInv, Keyed, TicketInv, RowsChange, NotYet', KeepsHolders, executed' = executed
    PROVE  TicketInv'
<1>1. \A a \in Agent : \A c : Ticket(c, live[a], epoch) => Ticket(c, live'[a], epoch')
  BY TicketStays
<1>2. HeldTickets'
  BY <1>1 DEF TicketInv, HeldTickets, KeepsHolders
<1>3. UsedTickets'
  BY <1>1 DEF TicketInv, UsedTickets, Paid, Actor, Charge
<1>4. HeldApart'
  BY DEF TicketInv, HeldApart, KeepsHolders
<1>5. HeldUnused'
  BY DEF TicketInv, HeldUnused, KeepsHolders, Paid, Actor, Charge
<1>6. UsedApart'
  BY DEF TicketInv, UsedApart, Paid, Actor, Charge
<1>. QED BY <1>2, <1>3, <1>4, <1>5, <1>6 DEF TicketInv

(* consume_permission_budget hands out one ticket, unless the permission   *)
(* is unmetered or nothing is left.                                        *)
LEMMA ConsumeTickets ==
    ASSUME Shape, CeilingInv, Keyed, TicketInv, NEW g \in Gov, EvalConsume(g)
    PROVE  TicketInv'
<1> DEFINE p == loc[g].call
           k == Key(Match(loc[g].auth, p.perm))
<1>1. /\ p.agent \in Agent /\ executed' = executed /\ pc[g] = "consume"
      /\ DOMAIN loc = Gov /\ pc \in [Gov -> Pcs] /\ DOMAIN loc[g] = Fields
  BY ProposalAssumption DEF EvalConsume, Shape, Evaluating, EvalPcs
<1>2. RowsChange
  BY ConsumeRows
<1>3. {"call", "charge", "dec"} \subseteq Fields
  BY DEF Fields, Blank
<1>4. CASE UNCHANGED storeVars /\ loc' = [loc EXCEPT ![g].dec = "HUMAN"]
           /\ pc' = [pc EXCEPT ![g] = "completed"]
  <2>1. NotYet' /\ KeepsHolders
    BY <1>1, <1>3, <1>4 DEF NotYet, KeepsHolders, Unspent, Holds, Subroutine, TicketInv
  <2>. QED BY <1>1, <1>2, <2>1, TicketsKept
<1>5. ASSUME NEW row \in Spendable(p.agent, k), ConsumePermission(p.agent, row),
             loc' = [loc EXCEPT ![g].charge = ChargeFor(row)],
             pc' = [pc EXCEPT ![g] = "run"]
      PROVE  TicketInv'
  <2>1. Spends(p.agent, row)
    BY <1>5 DEF ConsumePermission, Spendable, Spends, SpentRow
  <2>2. /\ \A h \in Gov : h # g => loc'[h] = loc[h] /\ pc'[h] = pc[h]
        /\ loc'[g].call = p /\ loc'[g].charge = ChargeFor(row)
    BY <1>1, <1>3, <1>5
  <2>3. ChargeFor(row).metered = (row.max # Unlimited)
    BY DEF ChargeFor
  <2>4. NotYet'
    BY <1>1, <1>5, <2>2 DEF NotYet, Unspent, Subroutine, TicketInv
  <2>5. CASE row.max = Unlimited
    <3>1. KeepsHolders
      BY <1>1, <2>2, <2>3, <2>5 DEF KeepsHolders, Holds
    <3>. QED BY <1>1, <1>2, <2>4, <3>1, TicketsKept
  <2>6. CASE row.max # Unlimited
    <3> DEFINE n == ChargeFor(row)
               a == p.agent
    <3>1. /\ Ticket(n, live'[a], epoch')
          /\ \A b, c : Ticket(c, live[b], epoch) => Apart(a, n, b, c)
      <4> HIDE DEF p, k
      <4>. QED BY <1>1, <2>1, <2>6, NewTicket
    <3>2. \A b \in Agent : \A c : Ticket(c, live[b], epoch) => Ticket(c, live'[b], epoch')
      BY <1>2, TicketStays
    <3>3. loc'[g].charge = n /\ loc'[g].call.agent = a
      BY <2>2
    <3> HIDE DEF n, a
    <3>4. \A h \in Gov : h # g => /\ Holds(h)' <=> Holds(h)
                                  /\ loc'[h] = loc[h]
      BY <2>2 DEF Holds
    <3>5. HeldTickets'
      BY <1>1, <3>1, <3>2, <3>3, <3>4 DEF TicketInv, HeldTickets, a
    <3>6. UsedTickets'
      BY <1>1, <3>2 DEF TicketInv, UsedTickets, Paid, Actor, Charge
    <3>7. HeldApart'
      <4>1. \A h \in Gov : h # g /\ Holds(h) =>
                /\ Apart(a, n, loc[h].call.agent, loc[h].charge)
                /\ Apart(loc[h].call.agent, loc[h].charge, a, n)
        BY <3>1 DEF TicketInv, HeldTickets, Apart
      <4>. QED BY <3>3, <3>4, <4>1 DEF TicketInv, HeldApart
    <3>8. HeldUnused'
      <4>1. \A i \in DOMAIN executed : Paid(i) => Apart(a, n, Actor(i), Charge(i))
        BY <3>1 DEF TicketInv, UsedTickets
      <4>. QED BY <1>1, <3>3, <3>4, <4>1 DEF TicketInv, HeldUnused, Paid, Actor, Charge
    <3>9. UsedApart'
      BY <1>1 DEF TicketInv, UsedApart, Paid, Actor, Charge
    <3>. QED BY <1>1, <2>4, <3>5, <3>6, <3>7, <3>8, <3>9 DEF TicketInv
  <2>. QED BY <2>5, <2>6
<1>. QED BY <1>4, <1>5 DEF EvalConsume, Goto

(* The boundary uses the ticket of the governor that calls it.             *)
LEMMA ExecuteTickets ==
    ASSUME Shape, TicketInv, NEW g \in Gov, NEW ok \in BOOLEAN, NEW acted \in BOOLEAN,
           EvalExecute(g, ok, acted), executed' # executed
    PROVE  TicketInv'
<1>1. /\ executed' = Append(executed, Execution(loc[g]))
      /\ pc[g] = "run" /\ pc' = [pc EXCEPT ![g] = "completed"]
      /\ UNCHANGED <<live, epoch>>
      /\ \A h \in Gov : h # g => loc'[h] = loc[h]
      /\ pc \in [Gov -> Pcs]
  BY DEF EvalExecute, storeVars, authVars, Shape, Goto
<1>2. Execution(loc[g]).call = loc[g].call /\ Execution(loc[g]).charge = loc[g].charge
  BY DEF Execution
<1>3. PICK S : executed \in Seq(S)
  BY DEF TicketInv
<1> DEFINE n == Len(executed)
<1>4. /\ executed' \in Seq(S \cup {Execution(loc[g])})
      /\ DOMAIN executed = 1..n /\ n \in Nat
      /\ DOMAIN executed' = 1..(n + 1)
      /\ \A i \in 1..n : executed'[i] = executed[i]
      /\ executed'[n + 1] = Execution(loc[g])
  <2> HIDE DEF Execution
  <2>. QED BY ONLY <1>1, <1>3, AppendIsSeq
<1> HIDE DEF n, Execution
<1>5. \A i \in DOMAIN executed' :
          \/ /\ i \in DOMAIN executed /\ Paid(i)' = Paid(i)
             /\ Actor(i)' = Actor(i) /\ Charge(i)' = Charge(i)
          \/ /\ i = n + 1 /\ Actor(i)' = loc[g].call.agent /\ Charge(i)' = loc[g].charge
             /\ Paid(i)' <=> Holds(g)
  BY <1>1, <1>2, <1>4 DEF Paid, Actor, Charge, Holds
<1>6. \A i \in DOMAIN executed : i # n + 1
  BY <1>4
<1>7. \A h \in Gov : Holds(h)' => h # g /\ Holds(h) /\ loc'[h] = loc[h]
  BY <1>1 DEF Holds
<1>8. NotYet'
  BY <1>1, <1>7 DEF NotYet, Unspent, Subroutine, TicketInv
<1>9. HeldTickets'
  BY <1>1, <1>7 DEF TicketInv, HeldTickets
<1>10. UsedTickets'
  BY <1>1, <1>5 DEF TicketInv, HeldTickets, UsedTickets
<1>11. HeldApart'
  BY <1>7 DEF TicketInv, HeldApart
<1>12. HeldUnused'
  BY <1>5, <1>7 DEF TicketInv, HeldUnused, HeldApart
<1>13. UsedApart'
  <2>1. \A i \in DOMAIN executed : Holds(g) /\ Paid(i) =>
            /\ Apart(loc[g].call.agent, loc[g].charge, Actor(i), Charge(i))
            /\ Apart(Actor(i), Charge(i), loc[g].call.agent, loc[g].charge)
    BY DEF TicketInv, HeldUnused, Apart
  <2>. QED BY <1>5, <1>6, <2>1 DEF TicketInv, UsedApart
<1>. QED BY <1>4, <1>8, <1>9, <1>10, <1>11, <1>12, <1>13 DEF TicketInv

(* The tickets are an invariant of the deployment.                         *)
LEMMA TicketStep ==
    Shape /\ CeilingInv /\ Keyed /\ TicketInv /\ [Next]_vars => TicketInv'
<1> SUFFICES ASSUME Shape, CeilingInv, Keyed, TicketInv, [Next]_vars PROVE TicketInv'
  OBVIOUS
<1>0. RowsChange
  BY RowsStep
<1>1. CASE UNCHANGED vars
  <2>1. NotYet' /\ KeepsHolders /\ executed' = executed
    BY <1>1 DEF vars, govVars, TicketInv, NotYet, KeepsHolders, Unspent, Holds, Subroutine
  <2>. QED BY <1>0, <2>1, TicketsKept
<1>2. ASSUME NEW i \in DOMAIN restrictions, ClockPasses(i) PROVE TicketInv'
  <2>1. NotYet' /\ KeepsHolders /\ executed' = executed
    BY <1>2 DEF ClockPasses, govVars, TicketInv, NotYet, KeepsHolders, Unspent, Holds,
                Subroutine
  <2>. QED BY <1>0, <2>1, TicketsKept
<1>3. ASSUME NEW g \in Gov, GovernorSteps(g) \/ BootFails(g) PROVE TicketInv'
  BY <1>0, <1>3, QuietGovernor, GovernorHolds, TicketsKept DEF Quiet, TicketInv, HandsStay
<1>4. ASSUME NEW g \in Gov, DelegateSteps(g) PROVE TicketInv'
  BY <1>0, <1>4, QuietDelegate, DelegateHolds, TicketsKept DEF Quiet, TicketInv, HandsStay
<1>5. ASSUME NEW g \in Gov, EvaluateSteps(g) PROVE TicketInv'
  <2>1. CASE executed' # executed
    BY <1>5, <2>1, OnlyExecuteExecutes, ExecuteTickets
  <2>2. CASE EvalConsume(g)
    BY <2>2, ConsumeTickets
  <2>3. CASE executed' = executed /\ ~ EvalConsume(g)
    BY <1>0, <1>5, <2>3, EvaluateHolds, TicketsKept DEF TicketInv, HandsStay
  <2>. QED BY <2>1, <2>2, <2>3
<1>. QED BY <1>1, <1>2, <1>3, <1>4, <1>5 DEF Next, GovernorNext

(* There are none at first.                                                *)
LEMMA TicketInit == Init => TicketInv
<1> SUFFICES ASSUME Init PROVE TicketInv
  OBVIOUS
<1>1. executed = <<>> /\ \A g \in Gov : pc[g] = "down"
  BY DEF Init, GovInit
<1>2. executed \in Seq({}) /\ DOMAIN executed = {}
  BY <1>1
<1>. QED BY <1>1, <1>2 DEF TicketInv, NotYet, Unspent, Holds, Subroutine, HeldTickets, UsedTickets,
                        HeldApart, HeldUnused, UsedApart

(* A grant has max_budget tickets, and each execution it paid for used     *)
(* one of its own.                                                         *)
LEMMA TicketsBound ==
    ASSUME TicketInv, NEW i \in DOMAIN executed, Paid(i)
    PROVE  Cardinality({j \in DOMAIN executed : SameGrant(executed[i], executed[j])})
               <= executed[i].charge.max
<1> DEFINE S == {j \in DOMAIN executed : SameGrant(executed[i], executed[j])}
           m == executed[i].charge.max
           f == [j \in S |-> executed[j].charge.unit]
<1>1. m \in Nat
  BY DEF TicketInv, UsedTickets, Ticket, Charge
<1>2. \A j \in S : Paid(j) /\ Actor(j) = Actor(i) /\ Charge(j).key = Charge(i).key
                   /\ Charge(j).epoch = Charge(i).epoch
  BY DEF SameGrant, Paid, Actor, Charge
<1>3. \A j \in S : executed[j].charge.unit \in 1..m
  <2>1. \A j \in S : Charge(j).max = m /\ Charge(j).unit \in 1..Charge(j).max
    BY <1>2 DEF TicketInv, UsedTickets, UsedApart, Ticket, Apart, Charge
  <2>. QED BY <2>1 DEF Charge
<1>4. \A j, k \in S : executed[j].charge.unit = executed[k].charge.unit => j = k
  BY <1>2 DEF TicketInv, UsedApart, Apart, Charge
<1>5. f \in [S -> 1..m] /\ \A j, k \in S : f[j] = f[k] => j = k
  BY <1>3, <1>4
<1> HIDE DEF S, m, f
<1>6. f \in Injection(S, 1..m)
  BY <1>5 DEF Injection, IsInjective
<1>7. IsFiniteSet(1..m) /\ Cardinality(1..m) = m
  BY <1>1, FS_Interval
<1>8. Cardinality(S) <= Cardinality(1..m)
  BY <1>6, <1>7, FS_Injection
<1>9. Cardinality(S) <= m
  BY <1>7, <1>8
<1>. QED BY <1>9 DEF S, m

(* README invariant 7: however many governors race, crash and restart, a   *)
(* grant pays for at most max_budget executions.                           *)
THEOREM GrantsBound == Spec => []GrantNotOverspent
<1>1. Init => Shape /\ CeilingInv /\ Keyed /\ TicketInv
  BY ShapeInit, CeilingInit, KeyedInit, TicketInit
<1>2. Shape /\ CeilingInv /\ Keyed /\ TicketInv /\ [Next]_vars
         => (Shape /\ CeilingInv /\ Keyed /\ TicketInv)'
  BY ShapeStep, CeilingStep, RowsStep, TicketStep
<1>3. TicketInv => GrantNotOverspent
  BY TicketsBound DEF GrantNotOverspent, Paid, Charge
<1>. QED BY <1>1, <1>2, <1>3, PTL DEF Spec

------------------------------------------------------------------------------
(* The fleet implements BudgetAccount.  What the refinement mapping of     *)
(* Fleet shows of the state: *)
Balances == [a \in Agent |-> AccountOf(live[a])]
InHand == [g \in Gov |-> IF pc[g] = "run" THEN UnitOf(loc[g]) ELSE {}]
Payments == [i \in DOMAIN executed |-> UnitOf(executed[i])]
Shown == <<Balances, epoch, InHand, Payments>>

Entry(r) == [key |-> Key(r), grant |-> r.epoch, max |-> r.max, left |-> r.rem]

(* A row lowered by one is an account lowered by one. *)
LEMMA SpentAccount ==
    ASSUME NEW rows, rows \subseteq Row, UniqueKeys(rows), NEW row \in rows,
           row.max # Unlimited, row.rem \in Nat
    PROVE  /\ Entry(row) \in AccountOf(rows)
           /\ AccountOf((rows \ {row}) \cup {SpentRow(row)})
                = (AccountOf(rows) \ {Entry(row)}) \cup {[Entry(row) EXCEPT !.left = @ - 1]}
<1>1. AccountOf(rows) = {Entry(r) : r \in {x \in rows : x.max # Unlimited}}
  BY DEF AccountOf, Entry
<1>2. AccountOf((rows \ {row}) \cup {SpentRow(row)})
        = {Entry(r) : r \in {x \in (rows \ {row}) \cup {SpentRow(row)} : x.max # Unlimited}}
  BY DEF AccountOf, Entry
<1>3. \A x \in rows : Entry(x) = Entry(row) => x = row
  BY DEF UniqueKeys, Entry
<1>4. Entry(SpentRow(row)) = [Entry(row) EXCEPT !.left = @ - 1]
  BY SpentRowIs DEF Entry
<1>5. SpentRow(row).max # Unlimited
  BY SpentRowIs
<1> HIDE DEF Entry, SpentRow
<1>. QED BY <1>1, <1>2, <1>3, <1>4, <1>5

(* Only one account changes where only one agent's rows do. *)
LEMMA OneAccount ==
    ASSUME live \in [Agent -> SUBSET Row], NEW a \in Agent, NEW rows,
           live' = [live EXCEPT ![a] = rows]
    PROVE  /\ Balances' = [Balances EXCEPT ![a] = AccountOf(rows)]
           /\ Balances'[a] = AccountOf(rows) /\ Balances[a] = AccountOf(live[a])
<1>1. live'[a] = rows /\ \A b \in Agent : b # a => live'[b] = live[b]
  OBVIOUS
<1>. QED BY <1>1 DEF Balances

(* Rows written afresh are full accounts of a new grant. *)
LEMMA WritesGrant ==
    ASSUME CeilingInv, CeilingInv', Keyed', NEW a \in Agent, NEW perms, Writes(a, perms),
           InHand' = InHand, Payments' = Payments
    PROVE  Account!Grant(a)
<1> DEFINE rows == FreshRows(perms, epoch + 1)
<1>1. /\ live' = [live EXCEPT ![a] = rows] /\ epoch' = epoch + 1
      /\ live \in [Agent -> SUBSET Row] /\ rows = live'[a]
      /\ \A r \in rows : r \in Row /\ r.epoch = epoch + 1
      /\ UniqueKeys(rows)
  BY FreshKeyed DEF Writes, CeilingInv, RowsOK, Keyed
<1>2. \A r \in rows : r.rem = r.max
  BY DEF FreshRows
<1> HIDE DEF rows
<1>3. /\ Balances' = [Balances EXCEPT ![a] = AccountOf(rows)] /\ Balances'[a] = AccountOf(rows)
  BY <1>1, OneAccount
<1>4. \A x \in AccountOf(rows) : x.grant = epoch + 1 /\ x.max \in Nat /\ x.left = x.max
  BY <1>1, <1>2 DEF AccountOf, Row, Budget
<1>5. \A x, y \in AccountOf(rows) : x.key = y.key => x = y
  BY <1>1 DEF AccountOf, UniqueKeys
<1>. QED BY <1>1, <1>3, <1>4, <1>5 DEF Account!Grant, Balances, InHand, Payments

(* The UPDATE takes a unit; an unmetered row is left as it is. *)
LEMMA ConsumeTakes ==
    ASSUME Shape, CeilingInv, Keyed, TicketInv, NEW g \in Gov, EvalConsume(g)
    PROVE  \/ UNCHANGED Shown
           \/ \E a \in Agent : Account!Take(g, a)
<1> DEFINE p == loc[g].call
           k == Key(Match(loc[g].auth, p.perm))
<1>1. /\ p.agent \in Agent /\ executed' = executed /\ pc[g] = "consume"
      /\ DOMAIN loc = Gov /\ pc \in [Gov -> Pcs] /\ DOMAIN loc[g] = Fields
  BY ProposalAssumption DEF EvalConsume, Shape, Evaluating, EvalPcs
<1>2. {"call", "charge", "dec"} \subseteq Fields
  BY DEF Fields, Blank
<1>3. Payments' = Payments
  BY <1>1 DEF Payments
<1>4. InHand[g] = {}
  BY <1>1 DEF InHand
<1>5. ASSUME UNCHANGED storeVars, loc' = [loc EXCEPT ![g].dec = "HUMAN"],
             pc' = [pc EXCEPT ![g] = "completed"]
      PROVE  UNCHANGED Shown
  <2>1. InHand' = InHand
    BY <1>1, <1>5 DEF InHand
  <2>2. Balances' = Balances /\ epoch' = epoch
    BY <1>5 DEF Balances, storeVars, authVars
  <2>. QED BY <1>3, <2>1, <2>2 DEF Shown
<1>6. ASSUME NEW a \in Agent, a = p.agent, NEW row \in Spendable(a, k),
             ConsumePermission(a, row), loc' = [loc EXCEPT ![g].charge = ChargeFor(row)],
             pc' = [pc EXCEPT ![g] = "run"]
      PROVE  UNCHANGED Shown \/ Account!Take(g, a)
  <2>1. Spends(a, row)
    BY <1>6 DEF ConsumePermission, Spendable, Spends, SpentRow
  <2>2. InHand' = [InHand EXCEPT ![g] = UnitOf(loc'[g])]
    BY <1>1, <1>6 DEF InHand
  <2>3. loc'[g].call.agent = a /\ loc'[g].charge = ChargeFor(row)
    BY <1>1, <1>2, <1>6
  <2>4. /\ ChargeFor(row).metered = (row.max # Unlimited) /\ ChargeFor(row).key = Key(row)
        /\ ChargeFor(row).epoch = row.epoch /\ ChargeFor(row).max = row.max
        /\ ChargeFor(row).unit = row.rem
    BY DEF ChargeFor
  <2>5. /\ live \in [Agent -> SUBSET Row] /\ a \in Agent /\ row \in live[a]
        /\ epoch' = epoch
    BY <1>1, <2>1 DEF Spends, CeilingInv, RowsOK
  <2>6. CASE row.max = Unlimited
    <3>1. UnitOf(loc'[g]) = {}
      BY <2>3, <2>4, <2>6 DEF UnitOf
    <3>2. live' = live
      BY <2>1, <2>5, <2>6 DEF Spends, SpentRow
    <3>3. InHand' = InHand
      BY <1>4, <2>2, <3>1 DEF InHand
    <3>4. Balances' = Balances
      BY <3>2 DEF Balances
    <3>. QED BY <1>3, <2>5, <3>3, <3>4 DEF Shown
  <2>7. CASE row.max # Unlimited
    <3>1. /\ row \in Row /\ row.rem \in Nat /\ row.rem >= 1 /\ live[a] \subseteq Row
          /\ UniqueKeys(live[a])
          /\ live' = [live EXCEPT ![a] = (live[a] \ {row}) \cup {SpentRow(row)}]
      BY <2>1, <2>5, <2>7 DEF Spends, CeilingInv, RowsOK, RowOK, Keyed
    <3>2. UnitOf(loc'[g]) = {Account!Unit(a, Entry(row))}
      BY <2>3, <2>4, <2>7 DEF UnitOf, Account!Unit, Entry
    <3>3. /\ Entry(row) \in Balances[a] /\ Entry(row).left >= 1
          /\ Balances' = [Balances EXCEPT ![a] =
                (Balances[a] \ {Entry(row)}) \cup {[Entry(row) EXCEPT !.left = @ - 1]}]
      <4> DEFINE rows == (live[a] \ {row}) \cup {SpentRow(row)}
      <4>1. Entry(row).left = row.rem
        BY DEF Entry
      <4>2. /\ Entry(row) \in AccountOf(live[a])
            /\ AccountOf(rows) = (AccountOf(live[a]) \ {Entry(row)})
                                   \cup {[Entry(row) EXCEPT !.left = @ - 1]}
        BY <2>5, <2>7, <3>1, SpentAccount
      <4>3. live' = [live EXCEPT ![a] = rows]
        BY <3>1
      <4> HIDE DEF rows, Entry, SpentRow
      <4>4. Balances' = [Balances EXCEPT ![a] = AccountOf(rows)] /\ Balances[a] = AccountOf(live[a])
        BY <2>5, <4>3, OneAccount
      <4>. QED BY <3>1, <4>1, <4>2, <4>4
    <3>4. Account!Take(g, a)
      <4> HIDE DEF Entry
      <4>1. /\ [h \in Gov |-> IF pc[h] = "run" THEN UnitOf(loc[h]) ELSE {}][g] = {}
            /\ epoch' = epoch
            /\ [i \in DOMAIN executed |-> UnitOf(executed[i])]'
                 = [i \in DOMAIN executed |-> UnitOf(executed[i])]
        BY <1>3, <1>4, <2>5 DEF InHand, Payments
      <4>2. /\ Entry(row) \in [b \in Agent |-> AccountOf(live[b])][a]
            /\ Entry(row).left >= 1
            /\ [b \in Agent |-> AccountOf(live[b])]'
                 = [[b \in Agent |-> AccountOf(live[b])] EXCEPT ![a] =
                      (@ \ {Entry(row)}) \cup {[Entry(row) EXCEPT !.left = @ - 1]}]
        BY <3>3 DEF Balances
      <4>3. [h \in Gov |-> IF pc[h] = "run" THEN UnitOf(loc[h]) ELSE {}]'
             = [[h \in Gov |-> IF pc[h] = "run" THEN UnitOf(loc[h]) ELSE {}]
                  EXCEPT ![g] = {Account!Unit(a, Entry(row))}]
        BY <2>2, <3>2 DEF InHand
      <4>. QED BY ONLY <4>1, <4>2, <4>3, Zenon DEF Account!Take
    <3>. QED BY <3>4
  <2>. QED BY <2>6, <2>7
<1>7. PICK a \in Agent : a = p.agent
  BY <1>1
<1>8. \/ /\ UNCHANGED storeVars /\ loc' = [loc EXCEPT ![g].dec = "HUMAN"]
         /\ pc' = [pc EXCEPT ![g] = "completed"]
      \/ \E row \in Spendable(a, k) :
             /\ ConsumePermission(a, row)
             /\ loc' = [loc EXCEPT ![g].charge = ChargeFor(row)]
             /\ pc' = [pc EXCEPT ![g] = "run"]
  BY <1>7 DEF EvalConsume, Goto, ConsumePermission
<1>9. ASSUME NEW row \in Spendable(a, k), ConsumePermission(a, row),
             loc' = [loc EXCEPT ![g].charge = ChargeFor(row)],
             pc' = [pc EXCEPT ![g] = "run"]
      PROVE  UNCHANGED Shown \/ Account!Take(g, a)
  BY <1>6, <1>7, <1>9
<1> HIDE DEF p, k
<1>10. UNCHANGED Shown \/ Account!Take(g, a)
  BY <1>5, <1>8, <1>9
<1>. QED BY <1>10

(* An execution appends what it was paid with. *)
LEMMA PaymentsGrow ==
    ASSUME NEW S, executed \in Seq(S), NEW x, executed' = Append(executed, x)
    PROVE  Payments' = Append(Payments, UnitOf(x))
<1> DEFINE n == Len(executed)
<1>1. /\ DOMAIN executed = 1..n /\ n \in Nat
      /\ DOMAIN executed' = 1..(n + 1)
      /\ \A i \in 1..n : executed'[i] = executed[i]
      /\ executed'[n + 1] = x
  BY AppendIsSeq
<1> DEFINE T == {UnitOf(executed[i]) : i \in DOMAIN executed}
<1>2. Payments \in Seq(T) /\ Len(Payments) = n
  <2>1. Payments \in [1..n -> T] /\ DOMAIN Payments = 1..n
    BY <1>1 DEF Payments
  <2>. QED BY <1>1, <2>1
<1>3. /\ DOMAIN Append(Payments, UnitOf(x)) = 1..(n + 1)
      /\ \A i \in 1..n : Append(Payments, UnitOf(x))[i] = Payments[i]
      /\ Append(Payments, UnitOf(x))[n + 1] = UnitOf(x)
  BY <1>2, AppendIsSeq
<1>4. \A i \in 1..(n + 1) : Append(Payments, UnitOf(x))[i] = UnitOf(executed'[i])
  BY <1>1, <1>3 DEF Payments
<1>. QED BY <1>1, <1>2, <1>3, <1>4 DEF Payments

(* The boundary pays with the unit in hand, or loses it. *)
LEMMA ExecutePays ==
    ASSUME Shape, TicketInv, NEW g \in Gov, NEW ok \in BOOLEAN, NEW acted \in BOOLEAN,
           EvalExecute(g, ok, acted)
    PROVE  Account!Pay(g) \/ Account!Lose(g)
<1>1. /\ pc[g] = "run" /\ pc' = [pc EXCEPT ![g] = "completed"]
      /\ live' = live /\ epoch' = epoch
      /\ \A h \in Gov : h # g => loc'[h] = loc[h]
      /\ pc \in [Gov -> Pcs]
      /\ executed' = IF acted THEN Append(executed, Execution(loc[g])) ELSE executed
  BY DEF EvalExecute, storeVars, authVars, Shape, Goto
<1>2. Balances' = Balances
  BY <1>1 DEF Balances
<1>3. InHand' = [InHand EXCEPT ![g] = {}] /\ InHand[g] = UnitOf(loc[g])
  BY <1>1 DEF InHand
<1>4. UnitOf(Execution(loc[g])) = UnitOf(loc[g])
  BY DEF UnitOf, Execution
<1>5. CASE acted
  <2>1. PICK S : executed \in Seq(S)
    BY DEF TicketInv
  <2>2. executed' = Append(executed, Execution(loc[g]))
    BY <1>1, <1>5
  <2>3. Payments' = Append(Payments, UnitOf(Execution(loc[g])))
    <3> HIDE DEF Execution, UnitOf
    <3>. QED BY <2>1, <2>2, PaymentsGrow
  <2>4. Payments' = Append(Payments, InHand[g])
    BY <1>3, <1>4, <2>3
  <2>. QED BY <1>1, <1>2, <1>3, <2>4 DEF Account!Pay, Balances, InHand, Payments
<1>6. CASE ~ acted
  <2>1. Payments' = Payments
    BY <1>1, <1>6 DEF Payments
  <2>. QED BY <1>1, <1>2, <1>3, <2>1 DEF Account!Lose, Balances, InHand, Payments
<1>. QED BY <1>5, <1>6

(* A crash loses it. *)
LEMMA CrashLoses ==
    ASSUME Shape, NEW g \in Gov, Crash(g)
    PROVE  Account!Lose(g)
<1>1. /\ pc' = [pc EXCEPT ![g] = "down"] /\ pc \in [Gov -> Pcs]
      /\ live' = live /\ epoch' = epoch /\ executed' = executed
      /\ \A h \in Gov : h # g => loc'[h] = loc[h]
  BY DEF Crash, Shape, Goto, storeVars, authVars
<1>2. InHand' = [InHand EXCEPT ![g] = {}]
  BY <1>1 DEF InHand
<1>3. Balances' = Balances /\ Payments' = Payments
  BY <1>1 DEF Balances, Payments
<1>. QED BY <1>1, <1>2, <1>3 DEF Account!Lose, Balances, InHand, Payments

(* What a step of g leaves in hand, when it neither consumes nor is at the *)
(* boundary: everything. *)
LEMMA HandsKept ==
    ASSUME NEW g \in Gov, pc[g] # "run", KeepsHolders, OthersHold(g), executed' = executed
    PROVE  InHand' = InHand /\ Payments' = Payments
<1>1. \A h \in Gov : InHand[h] = IF Holds(h) THEN UnitOf(loc[h]) ELSE {}
  BY DEF InHand, Holds, UnitOf
<1>2. \A h \in Gov : InHand'[h] = IF Holds(h)' THEN UnitOf(loc'[h]) ELSE {}
  BY DEF InHand, Holds, UnitOf
<1>3. \A h \in Gov : Holds(h)' <=> Holds(h)
  BY DEF KeepsHolders, OthersHold, Holds
<1>4. \A h \in Gov : Holds(h) => UnitOf(loc'[h]) = UnitOf(loc[h])
  BY <1>3 DEF KeepsHolders, UnitOf
<1>5. \A h \in Gov : InHand'[h] = InHand[h]
  BY <1>1, <1>2, <1>3, <1>4
<1>6. InHand' = InHand
  BY <1>5 DEF InHand
<1>. QED BY <1>6 DEF Payments

(* At the boundary a governor executes or crashes, and does nothing else. *)
LEMMA OnlyBoundaryRuns ==
    ASSUME NEW g \in Gov, pc[g] = "run"
    PROVE  /\ GovernorSteps(g) \/ BootFails(g) => Crash(g)
           /\ EvaluateSteps(g) => \E ok, acted \in BOOLEAN : EvalExecute(g, ok, acted)
           /\ ~ DelegateSteps(g)
<1>1. GovernorSteps(g) \/ BootFails(g) => Crash(g)
  BY DEF GovernorSteps, BootFails, Restart, BootSeed, BootDone, BootCheck, ReadBase,
         ReadRestrictions, ExpireOne, Clear
<1>2. EvaluateSteps(g) => \E ok, acted \in BOOLEAN : EvalExecute(g, ok, acted)
  BY DEF EvaluateSteps, Submit, EvalClaimNonce, EvalClaimProposalId, EvalCountFleet,
         EvalCountAgent, EvalReadLive, EvalGate, EvalQuorum, EvalAuditStarted, EvalResolve,
         EvalConsume, EvalImpose, EvalAuditCompleted, EvalStoreFails, DeniesOnFailure,
         DowngradesOnFailure
<1>3. ~ DelegateSteps(g)
  BY DEF DelegateSteps, RegisterDelegation, DelegCheck, DelegMerge, DelegAudit, DelegPublish,
         DelegStoreFails, RevokeDelegation
<1>. QED BY <1>1, <1>2, <1>3

(* So every step of the fleet is one of the account, or none. *)
LEMMA AccountStep ==
    ASSUME Shape, CeilingInv, CeilingInv', Keyed, Keyed', TicketInv, [Next]_vars
    PROVE  [Account!Next]_Shown
<1>0. ASSUME Regranted, InHand' = InHand, Payments' = Payments
      PROVE  [Account!Next]_Shown
  <2>1. CASE UNCHANGED <<live, epoch>>
    BY <1>0, <2>1 DEF Shown, Balances
  <2>2. ASSUME NEW a \in Agent, NEW perms, Writes(a, perms) PROVE Account!Next
    BY <1>0, <2>2, WritesGrant DEF Account!Next
  <2>. QED BY <1>0, <2>1, <2>2 DEF Regranted
<1>1. CASE UNCHANGED vars
  BY <1>1 DEF vars, storeVars, authVars, govVars, Shown, Balances, InHand, Payments
<1>2. ASSUME NEW i \in DOMAIN restrictions, ClockPasses(i) PROVE UNCHANGED Shown
  BY <1>2 DEF ClockPasses, authVars, govVars, Shown, Balances, InHand, Payments
<1>3. ASSUME NEW g \in Gov, pc[g] # "run", GovernorSteps(g) \/ BootFails(g)
      PROVE  [Account!Next]_Shown
  <2>1. Regranted
    BY <1>3, GovernorGrantsNothing, SeedRows DEF Regranted, NoGrant
  <2>2. KeepsHolders /\ OthersHold(g) /\ executed' = executed
    BY <1>3, QuietGovernor, GovernorHolds DEF Quiet, TicketInv, HandsStay
  <2>. QED BY <1>0, <1>3, <2>1, <2>2, HandsKept
<1>4. ASSUME NEW g \in Gov, DelegateSteps(g) PROVE [Account!Next]_Shown
  <2>1. Regranted /\ pc[g] # "run"
    BY <1>4, DelegateRows, OnlyBoundaryRuns
  <2>2. KeepsHolders /\ OthersHold(g) /\ executed' = executed
    BY <1>4, QuietDelegate, DelegateHolds DEF Quiet, TicketInv, HandsStay
  <2>. QED BY <1>0, <2>1, <2>2, HandsKept
<1>5. ASSUME NEW g \in Gov, pc[g] = "run", GovernorNext(g) PROVE Account!Next
  <2>1. ~ DelegateSteps(g)
    BY <1>5, OnlyBoundaryRuns
  <2>2. ASSUME GovernorSteps(g) \/ BootFails(g) PROVE Account!Next
    BY <1>5, <2>2, OnlyBoundaryRuns, CrashLoses DEF Account!Next
  <2>3. ASSUME EvaluateSteps(g) PROVE Account!Next
    <3>1. PICK ok, acted \in BOOLEAN : EvalExecute(g, ok, acted)
      BY <1>5, <2>3, OnlyBoundaryRuns
    <3>. QED BY <3>1, ExecutePays DEF Account!Next
  <2>. QED BY <1>5, <2>1, <2>2, <2>3 DEF GovernorNext
<1>6. ASSUME NEW g \in Gov, EvalConsume(g) PROVE [Account!Next]_Shown
  BY <1>6, ConsumeTakes DEF Account!Next
<1>7. ASSUME NEW g \in Gov, pc[g] # "run", EvaluateSteps(g), ~ EvalConsume(g)
      PROVE  [Account!Next]_Shown
  <2>1. Regranted
    BY <1>7, EvaluateGrantsNothing DEF Regranted, NoGrant
  <2>2. executed' = executed
    BY <1>7, OnlyExecuteExecutes DEF EvalExecute
  <2>3. KeepsHolders /\ OthersHold(g)
    BY <1>7, EvaluateHolds DEF TicketInv, HandsStay
  <2>. QED BY <1>0, <1>7, <2>1, <2>2, <2>3, HandsKept
<1>. QED BY <1>1, <1>2, <1>3, <1>4, <1>5, <1>6, <1>7 DEF Next, GovernorNext

(* README invariant 7, as the account of BudgetAccount: for any governors, *)
(* grants, crashes and failures, the fleet's steps are those of the        *)
(* account.                                                                *)
THEOREM FleetImplementsAccount == Spec => AccountSpec
<1>1. Init => Shape /\ CeilingInv /\ Keyed /\ TicketInv
  BY ShapeInit, CeilingInit, KeyedInit, TicketInit
<1>2. Shape /\ CeilingInv /\ Keyed /\ TicketInv /\ [Next]_vars
         => (Shape /\ CeilingInv /\ Keyed /\ TicketInv)'
  BY ShapeStep, CeilingStep, RowsStep, TicketStep
<1>3. Init => Account!Init
  BY DEF Init, StoreInit, GovInit, Account!Init, AccountOf
<1>4. Shape /\ CeilingInv /\ Keyed /\ TicketInv /\ [Next]_vars => [Account!Next]_Shown
  BY <1>2, AccountStep
<1>. QED BY <1>1, <1>2, <1>3, <1>4, PTL DEF Spec, AccountSpec, Account!Spec,
         Account!accountVars, Shown, Balances, InHand, Payments
------------------------------------------------------------------------------
(* Step budgets.  The fleet's counter gives every evaluation a number of   *)
(* its own, and none with a number above the budget gets past the check.   *)
CountedPcs == {"live", "gate", "started", "quorum", "spend", "consume", "run"}
Passed(g) ==
    \/ pc[g] \in CountedPcs
    \/ pc[g] \in Subroutine /\ loc[g].stage # "delegate"
Counting(g) == pc[g] = "agent" \/ Passed(g)

Numbers ==
    /\ \A g \in Gov : Counting(g) =>
          /\ loc[g].count \in 1..fleetSteps
          /\ \A h \in Gov : Counting(h) /\ loc[h].count = loc[g].count => h = g
          /\ \A i \in DOMAIN executed : executed[i].count # loc[g].count
    /\ \A i \in DOMAIN executed :
          /\ executed[i].count \in 1..fleetSteps /\ executed[i].count <= MaxFleetSteps
          /\ \A j \in DOMAIN executed : executed[j].count = executed[i].count => j = i

Checked ==
    \A g \in Gov : Passed(g) \/ (pc[g] = "agent" /\ loc[g].within)
                   => loc[g].count <= MaxFleetSteps

(* An agent's counter is at least what it has under way and done, and so   *)
(* is its budget.                                                          *)
UnderWay(a) == {g \in Gov : Passed(g) /\ loc[g].call.agent = a}
DoneBy(a) == {i \in DOMAIN executed : executed[i].call.agent = a}

Room(s, t, n) ==
    /\ IsFiniteSet(s) /\ IsFiniteSet(t)
    /\ Cardinality(s) + Cardinality(t) <= n
    /\ MaxAgentSteps # 0 => Cardinality(s) + Cardinality(t) <= MaxAgentSteps

HasRoom == \A a \in Agent : Room(UnderWay(a), DoneBy(a), agentSteps[a])

StepInv ==
    /\ \E S : executed \in Seq(S)
    /\ Numbers /\ Checked /\ HasRoom

(* A step that counts nothing and executes nothing.                        *)
QuietCount ==
    /\ fleetSteps <= fleetSteps'
    /\ \A a \in Agent : agentSteps[a] <= agentSteps'[a]
    /\ \A h \in Gov :
          /\ Passed(h)' => Passed(h) /\ loc'[h].call = loc[h].call
          /\ Counting(h)' => Counting(h) /\ loc'[h].count = loc[h].count
          /\ pc'[h] = "agent" => pc[h] = "agent" /\ loc'[h].within = loc[h].within

(* Coming up, reading and clearing count nothing. *)
LEMMA GovernorCounts ==
    ASSUME Shape, Counters, NEW g \in Gov, GovernorSteps(g) \/ BootFails(g)
    PROVE  QuietCount
<1> USE DEF Shape, Subroutine, Goto, Counting, Passed, QuietCount, CountedPcs,
            storeVars, replayVars, stepVars, authVars, localVars, govVars, Counters
<1> {"call", "stage", "dec", "count", "within", "budgetOk", "auth", "grant", "todo",
     "floor", "charge", "ran"} = Fields
  BY DEF Fields, Blank
<1> Blank.stage = "none"
  BY DEF Blank
<1>1. CASE Restart(g)
  BY <1>1 DEF Restart
<1>2. ASSUME NEW a \in Agent, BootCheck(g, a) PROVE QuietCount
  BY <1>2 DEF BootCheck
<1>3. CASE BootSeed(g)
  BY <1>3, SMTT(30) DEF BootSeed, InitializeAgent
<1>4. CASE BootDone(g)
  BY <1>4 DEF BootDone
<1>5. CASE Crash(g)
  BY <1>5 DEF Crash
<1>6. CASE ReadBase(g)
  BY <1>6 DEF ReadBase
<1>7. CASE ReadRestrictions(g)
  BY <1>7 DEF ReadRestrictions, AfterAuthority
<1>8. ASSUME NEW i \in DOMAIN restrictions, ExpireOne(g, i) PROVE QuietCount
  BY <1>8 DEF ExpireOne, AfterAuthority, MarkExpired
<1>9. ASSUME NEW i \in DOMAIN restrictions, NEW a \in Agent, Clear(g, i, a) PROVE QuietCount
  BY <1>9 DEF Clear, ClearRestriction
<1>10. CASE BootFails(g)
  BY <1>10 DEF BootFails
<1>. QED BY <1>1, <1>2, <1>3, <1>4, <1>5, <1>6, <1>7, <1>8, <1>9, <1>10 DEF GovernorSteps

(* Of an evaluation two steps do.                                          *)
LEMMA EvaluateCounts ==
    ASSUME Shape, Counters, NEW g \in Gov, EvaluateSteps(g),
           ~ EvalCountFleet(g), ~ EvalCountAgent(g)
    PROVE  QuietCount
<1> USE DEF Shape, Subroutine, Goto, Counting, Passed, QuietCount, CountedPcs,
            storeVars, replayVars, stepVars, authVars, localVars, govVars, Counters
<1> {"call", "stage", "dec", "count", "within", "budgetOk", "auth", "grant", "todo",
     "floor", "charge", "ran"} = Fields
  BY DEF Fields, Blank
<1> Blank.stage = "none"
  BY DEF Blank
<1>1. ASSUME NEW p \in Proposal, Submit(g, p) PROVE QuietCount
  BY <1>1 DEF Submit, Deny, Return, Blank
<1>2. CASE EvalClaimNonce(g)
  BY <1>2 DEF EvalClaimNonce, ClaimNonce, Deny, Return
<1>3. CASE EvalClaimProposalId(g)
  BY <1>3 DEF EvalClaimProposalId, ClaimProposalId, Deny, Return
<1>6. CASE EvalReadLive(g)
  BY <1>6 DEF EvalReadLive
<1>7. ASSUME NEW d \in Decisions, EvalGate(g, d) PROVE QuietCount
  BY <1>7 DEF EvalGate, Deny, Return
<1>8. ASSUME NEW d \in Decisions, EvalQuorum(g, d) PROVE QuietCount
  BY <1>8 DEF EvalQuorum, AfterQuorum
<1>9. CASE EvalAuditStarted(g)
  BY <1>9 DEF EvalAuditStarted, LogAudit, AfterQuorum
<1>10. CASE EvalResolve(g)
  BY <1>10 DEF EvalResolve
<1>11. CASE EvalConsume(g)
  BY <1>11, SMTT(30) DEF EvalConsume, ConsumePermission
<1>12. ASSUME NEW ok \in BOOLEAN, NEW acted \in BOOLEAN, EvalExecute(g, ok, acted) PROVE QuietCount
  BY <1>12 DEF EvalExecute
<1>13. CASE EvalImpose(g)
  BY <1>13 DEF EvalImpose, Impose
<1>14. CASE EvalAuditCompleted(g)
  BY <1>14 DEF EvalAuditCompleted, LogAudit, Return
<1>15. CASE EvalStoreFails(g)
  BY <1>15 DEF EvalStoreFails, Deny, Return
<1>. QED BY <1>1, <1>2, <1>3, <1>6, <1>7, <1>8, <1>9, <1>10,
        <1>11, <1>12, <1>13, <1>14, <1>15 DEF EvaluateSteps

(* A delegation counts nothing. *)
LEMMA DelegateCounts ==
    ASSUME Shape, Counters, NEW g \in Gov, DelegateSteps(g)
    PROVE  QuietCount
<1> USE DEF Shape, Subroutine, Goto, Counting, Passed, QuietCount, CountedPcs,
            storeVars, replayVars, stepVars, authVars, localVars, govVars, Counters
<1> {"call", "stage", "dec", "count", "within", "budgetOk", "auth", "grant", "todo",
     "floor", "charge", "ran"} = Fields
  BY DEF Fields, Blank
<1> Blank.stage = "none"
  BY DEF Blank
<1>1. ASSUME NEW d \in Delegation, RegisterDelegation(g, d) PROVE QuietCount
  BY <1>1 DEF RegisterDelegation, Blank
<1>2. CASE DelegCheck(g)
  BY <1>2 DEF DelegCheck, RefuseDelegation, Return
<1>3. CASE DelegMerge(g)
  BY <1>3 DEF DelegMerge, RefuseDelegation, Return
<1>4. CASE DelegAudit(g)
  BY <1>4 DEF DelegAudit, LogAudit
<1>5. CASE DelegPublish(g)
  BY <1>5 DEF DelegPublish, ReplaceLive, Return
<1>6. CASE DelegStoreFails(g)
  BY <1>6 DEF DelegStoreFails, RefuseDelegation, Return
<1>7. ASSUME NEW a \in Agent, RevokeDelegation(g, a) PROVE QuietCount
  BY <1>7 DEF RevokeDelegation, ReplaceLive
<1>. QED BY <1>1, <1>2, <1>3, <1>4, <1>5, <1>6, <1>7 DEF DelegateSteps

(* Room is left when fewer are under way.                                  *)
LEMMA RoomLeft ==
    ASSUME NEW s, NEW t, NEW n \in Nat, NEW m \in Nat, Room(s, t, n), n <= m, NEW r \in SUBSET s
    PROVE  Room(r, t, m)
<1>1. IsFiniteSet(r) /\ Cardinality(r) <= Cardinality(s)
  BY FS_Subset DEF Room
<1>2. Cardinality(r) \in Nat /\ Cardinality(s) \in Nat /\ Cardinality(t) \in Nat
  BY <1>1, FS_CardinalityType DEF Room
<1>. QED BY <1>1, <1>2, PolicyAssumption DEF Room

(* So quiet steps keep the counts.                                         *)
LEMMA CountKept ==
    ASSUME Counters, Counters', StepInv, QuietCount, executed' = executed
    PROVE  StepInv'
<1>1. Numbers'
  <2>1. 1..fleetSteps \subseteq 1..fleetSteps'
    BY DEF QuietCount, Counters
  <2>2. \A h \in Gov : Counting(h)' => Counting(h) /\ loc'[h].count = loc[h].count
    BY DEF QuietCount
  <2>. QED BY <2>1, <2>2 DEF StepInv, Numbers, Counting, Passed
<1>2. Checked'
  BY DEF StepInv, Checked, QuietCount, Counting, Passed
<1>3. HasRoom'
  <2> SUFFICES ASSUME NEW a \in Agent PROVE Room(UnderWay(a)', DoneBy(a)', agentSteps'[a])
    BY DEF HasRoom
  <2>1. UnderWay(a)' \in SUBSET UnderWay(a) /\ DoneBy(a)' = DoneBy(a)
    BY DEF UnderWay, DoneBy, QuietCount, Passed
  <2>2. agentSteps[a] \in Nat /\ agentSteps'[a] \in Nat /\ agentSteps[a] <= agentSteps'[a]
    BY DEF Counters, QuietCount
  <2>3. Room(UnderWay(a), DoneBy(a), agentSteps[a])
    BY DEF StepInv, HasRoom
  <2>4. Room(UnderWay(a)', DoneBy(a), agentSteps'[a])
    BY <2>1, <2>2, <2>3, RoomLeft
  <2>. QED BY <2>1, <2>4
<1>. QED BY <1>1, <1>2, <1>3 DEF StepInv

(* The fleet's counter numbers an evaluation.                              *)
LEMMA FleetCounts ==
    ASSUME Shape, Counters, StepInv, NEW g \in Gov, EvalCountFleet(g)
    PROVE  StepInv'
<1>1. /\ pc[g] = "fleet" /\ pc' = [pc EXCEPT ![g] = "agent"]
      /\ fleetSteps' = fleetSteps + 1 /\ fleetSteps \in Nat
      /\ UNCHANGED <<agentSteps, executed>>
      /\ \A h \in Gov : h # g => loc'[h] = loc[h]
      /\ loc'[g].count = fleetSteps + 1
      /\ loc'[g].within = (fleetSteps + 1 <= MaxFleetSteps)
      /\ pc \in [Gov -> Pcs]
  <2>1. {"count", "within"} \subseteq Fields
    BY DEF Fields, Blank
  <2>. QED BY <2>1 DEF EvalCountFleet, IncrementFleet, Shape, Goto, Counters
<1>2. /\ \A h \in Gov : h # g => /\ Counting(h)' <=> Counting(h)
                                /\ Passed(h)' <=> Passed(h)
                                /\ pc'[h] = pc[h]
      /\ ~ Passed(g)' /\ ~ Passed(g) /\ pc'[g] = "agent"
  BY <1>1 DEF Counting, Passed, CountedPcs, Subroutine
<1>3. Numbers'
  <2>1. 1..fleetSteps \subseteq 1..fleetSteps' /\ loc'[g].count \in 1..fleetSteps'
        /\ loc'[g].count \notin 1..fleetSteps
    BY <1>1
  <2>2. \A h \in Gov : h # g /\ Counting(h)' => Counting(h) /\ loc'[h].count = loc[h].count
    BY <1>1, <1>2 DEF Counting, Passed
  <2>. QED BY <1>1, <2>1, <2>2 DEF StepInv, Numbers, Counting, Passed
<1>4. Checked'
  BY <1>1, <1>2 DEF StepInv, Checked, Counting, Passed
<1>5. HasRoom'
  <2>1. \A a \in Agent : UnderWay(a)' = UnderWay(a) /\ DoneBy(a)' = DoneBy(a)
    BY <1>1, <1>2 DEF UnderWay, DoneBy, Passed
  <2>. QED BY <1>1, <2>1 DEF StepInv, HasRoom
<1>. QED BY <1>1, <1>3, <1>4, <1>5 DEF StepInv

(* One more under way needs one more of the counter and of the budget.     *)
LEMMA RoomTaken ==
    ASSUME NEW s, NEW t, NEW n \in Nat, NEW g, Room(s, t, n),
           MaxAgentSteps # 0 => n + 1 <= MaxAgentSteps
    PROVE  Room(s \cup {g}, t, n + 1)
<1>1. /\ IsFiniteSet(s \cup {g})
      /\ Cardinality(s \cup {g}) = IF g \in s THEN Cardinality(s) ELSE Cardinality(s) + 1
  BY FS_AddElement DEF Room
<1>2. Cardinality(s) \in Nat /\ Cardinality(t) \in Nat
  BY FS_CardinalityType DEF Room
<1>. QED BY <1>1, <1>2, PolicyAssumption DEF Room

(* The agent's counter lets an evaluation pass, or not.                    *)
LEMMA AgentCounts ==
    ASSUME Shape, Counters, StepInv, NEW g \in Gov, EvalCountAgent(g)
    PROVE  StepInv'
<1> DEFINE a == loc[g].call.agent
<1>1. /\ pc[g] = "agent" /\ a \in Agent /\ UNCHANGED <<fleetSteps, executed>>
      /\ agentSteps' = [agentSteps EXCEPT ![a] = @ + 1] /\ agentSteps \in [Agent -> Nat]
      /\ pc \in [Gov -> Pcs]
  BY ProposalAssumption
     DEF EvalCountAgent, IncrementAgent, Shape, Counters, Evaluating, EvalPcs
<1>2. \/ /\ pc' = [pc EXCEPT ![g] = "live"] /\ loc' = loc
         /\ loc[g].within /\ (MaxAgentSteps = 0 \/ agentSteps[a] + 1 <= MaxAgentSteps)
      \/ pc' = [pc EXCEPT ![g] = "idle"] /\ loc' = [loc EXCEPT ![g] = Blank]
  BY DEF EvalCountAgent, Deny, Return, Goto
<1>3. \A h \in Gov : h # g => pc'[h] = pc[h] /\ loc'[h] = loc[h]
  BY <1>2 DEF Shape
<1>4. /\ \A h \in Gov : h # g => /\ Counting(h)' <=> Counting(h)
                                /\ Passed(h)' <=> Passed(h)
      /\ Counting(g) /\ ~ Passed(g)
      /\ Counting(g)' <=> Passed(g)'
  BY <1>1, <1>2, <1>3 DEF Counting, Passed, CountedPcs, Subroutine
<1>5. Passed(g)' => /\ loc'[g] = loc[g] /\ loc[g].within
                    /\ MaxAgentSteps = 0 \/ agentSteps[a] + 1 <= MaxAgentSteps
  BY <1>1, <1>2 DEF Passed, CountedPcs, Subroutine
<1> HIDE DEF a
<1>6. Numbers'
  BY <1>1, <1>3, <1>4, <1>5, SMTT(30) DEF StepInv, Numbers, Counting, Passed
<1>7. Checked'
  <2>1. pc'[g] # "agent"
    BY <1>1, <1>2
  <2>. QED BY <1>1, <1>3, <1>4, <1>5, <2>1 DEF StepInv, Checked, Counting, Passed
<1>8. HasRoom'
  <2> SUFFICES ASSUME NEW b \in Agent PROVE Room(UnderWay(b)', DoneBy(b)', agentSteps'[b])
    BY DEF HasRoom
  <2>1. /\ DoneBy(b)' = DoneBy(b) /\ Room(UnderWay(b), DoneBy(b), agentSteps[b])
        /\ agentSteps[b] \in Nat
    BY <1>1 DEF DoneBy, StepInv, HasRoom
  <2>2. CASE Passed(g)' /\ b = a
    <3>1. UnderWay(b)' = UnderWay(b) \cup {g} /\ agentSteps'[b] = agentSteps[b] + 1
      BY <1>1, <1>3, <1>4, <1>5, <2>2 DEF UnderWay, a, Passed
    <3>2. MaxAgentSteps # 0 => agentSteps[b] + 1 <= MaxAgentSteps
      BY <1>5, <2>2
    <3>3. Room(UnderWay(b) \cup {g}, DoneBy(b), agentSteps[b] + 1)
      BY <2>1, <3>2, RoomTaken
    <3>. QED BY <2>1, <3>1, <3>3
  <2>3. CASE ~ (Passed(g)' /\ b = a)
    <3>1. /\ UnderWay(b)' \in SUBSET UnderWay(b)
          /\ agentSteps'[b] \in Nat /\ agentSteps[b] <= agentSteps'[b]
      BY <1>1, <1>3, <1>4, <1>5, <2>3 DEF UnderWay, a, Passed
    <3>. QED BY <2>1, <3>1, RoomLeft
  <2>. QED BY <2>2, <2>3
<1>. QED BY <1>1, <1>6, <1>7, <1>8 DEF StepInv

(* What was under way is done.                                             *)
LEMMA RoomMoved ==
    ASSUME NEW s, NEW t, NEW n \in Nat, Room(s, t, n), NEW g \in s, NEW i
    PROVE  Room(s \ {g}, t \cup {i}, n)
<1>1. /\ IsFiniteSet(s \ {g}) /\ Cardinality(s \ {g}) = Cardinality(s) - 1
      /\ IsFiniteSet(t \cup {i})
      /\ Cardinality(t \cup {i}) = IF i \in t THEN Cardinality(t) ELSE Cardinality(t) + 1
  BY FS_AddElement, FS_RemoveElement DEF Room
<1>2. Cardinality(s) \in Nat /\ Cardinality(t) \in Nat
  BY FS_CardinalityType DEF Room
<1>. QED BY <1>1, <1>2, PolicyAssumption DEF Room

(* The boundary turns one into the other, with its number.                 *)
LEMMA ExecuteCounts ==
    ASSUME Shape, Counters, StepInv, NEW g \in Gov, NEW ok \in BOOLEAN, NEW acted \in BOOLEAN,
           EvalExecute(g, ok, acted), executed' # executed
    PROVE  StepInv'
<1>1. /\ executed' = Append(executed, Execution(loc[g]))
      /\ pc[g] = "run" /\ pc' = [pc EXCEPT ![g] = "completed"]
      /\ UNCHANGED <<fleetSteps, agentSteps>> /\ agentSteps \in [Agent -> Nat]
      /\ \A h \in Gov : h # g => loc'[h] = loc[h]
      /\ pc \in [Gov -> Pcs]
  BY DEF EvalExecute, storeVars, stepVars, Shape, Goto, Counters
<1>2. Execution(loc[g]).call = loc[g].call /\ Execution(loc[g]).count = loc[g].count
  BY DEF Execution
<1>3. PICK S : executed \in Seq(S)
  BY DEF StepInv
<1> DEFINE n == Len(executed)
<1>4. /\ executed' \in Seq(S \cup {Execution(loc[g])})
      /\ DOMAIN executed = 1..n /\ n \in Nat
      /\ DOMAIN executed' = 1..(n + 1)
      /\ \A i \in 1..n : executed'[i] = executed[i]
      /\ executed'[n + 1] = Execution(loc[g])
  <2> HIDE DEF Execution
  <2>. QED BY ONLY <1>1, <1>3, AppendIsSeq
<1> HIDE DEF n, Execution
<1>5. /\ \A i \in DOMAIN executed' : (i \in DOMAIN executed /\ executed'[i] = executed[i])
                                   \/ (i = n + 1 /\ executed'[i] = Execution(loc[g]))
      /\ \A i \in DOMAIN executed : i # n + 1 /\ i \in DOMAIN executed'
      /\ n + 1 \in DOMAIN executed'
  BY <1>4
<1>6. /\ \A h \in Gov : h # g => /\ Counting(h)' <=> Counting(h)
                                /\ Passed(h)' <=> Passed(h)
                                /\ pc'[h] = pc[h]
      /\ Passed(g) /\ Counting(g) /\ ~ Counting(g)' /\ ~ Passed(g)' /\ pc'[g] # "agent"
  BY <1>1 DEF Counting, Passed, CountedPcs, Subroutine
<1>7. Numbers'
  <2>1. loc[g].count \in 1..fleetSteps /\ loc[g].count <= MaxFleetSteps
    BY <1>6 DEF StepInv, Numbers, Checked
  <2>2. \A i \in DOMAIN executed' :
            /\ executed'[i].count \in 1..fleetSteps /\ executed'[i].count <= MaxFleetSteps
            /\ \A j \in DOMAIN executed' : executed'[j].count = executed'[i].count => j = i
    BY <1>2, <1>5, <1>6, <2>1 DEF StepInv, Numbers
  <2>3. \A h \in Gov : Counting(h)' =>
            /\ h # g /\ Counting(h) /\ loc'[h] = loc[h]
            /\ \A i \in DOMAIN executed' : executed'[i].count # loc[h].count
    BY <1>1, <1>2, <1>5, <1>6 DEF StepInv, Numbers, Counting, Passed
  <2>4. \A h \in Gov : Counting(h)' => loc'[h].count \in 1..fleetSteps'
    BY <1>1, <2>3 DEF StepInv, Numbers
  <2>5. \A h, f \in Gov : Counting(h)' /\ Counting(f)' /\ loc'[f].count = loc'[h].count => f = h
    BY <2>3 DEF StepInv, Numbers
  <2>6. \A h \in Gov : Counting(h)' =>
            \A i \in DOMAIN executed' : executed'[i].count # loc'[h].count
    BY <2>3
  <2>7. \A i \in DOMAIN executed' :
            executed'[i].count \in 1..fleetSteps' /\ executed'[i].count <= MaxFleetSteps
    BY <1>1, <2>2
  <2>. QED BY <2>2, <2>4, <2>5, <2>6, <2>7 DEF Numbers
<1>8. Checked'
  BY <1>1, <1>6 DEF StepInv, Checked, Counting, Passed
<1>9. HasRoom'
  <2> SUFFICES ASSUME NEW b \in Agent PROVE Room(UnderWay(b)', DoneBy(b)', agentSteps'[b])
    BY DEF HasRoom
  <2>1. /\ Room(UnderWay(b), DoneBy(b), agentSteps[b])
        /\ agentSteps[b] \in Nat /\ agentSteps'[b] = agentSteps[b]
    BY <1>1 DEF StepInv, HasRoom
  <2>2. CASE loc[g].call.agent = b
    <3>1. UnderWay(b)' = UnderWay(b) \ {g} /\ g \in UnderWay(b)
      BY <1>1, <1>6, <2>2 DEF UnderWay, Passed
    <3>2. DoneBy(b)' = DoneBy(b) \cup {n + 1}
      BY <1>2, <1>5, <2>2 DEF DoneBy
    <3>3. Room(UnderWay(b) \ {g}, DoneBy(b) \cup {n + 1}, agentSteps[b])
      BY <2>1, <3>1, RoomMoved
    <3>. QED BY <2>1, <3>1, <3>2, <3>3
  <2>3. CASE loc[g].call.agent # b
    <3>1. UnderWay(b)' = UnderWay(b)
      BY <1>1, <1>6, <2>3 DEF UnderWay, Passed
    <3>2. DoneBy(b)' = DoneBy(b)
      BY <1>2, <1>5, <2>3 DEF DoneBy
    <3>. QED BY <2>1, <3>1, <3>2
  <2>. QED BY <2>2, <2>3
<1>. QED BY <1>4, <1>7, <1>8, <1>9 DEF StepInv

(* Every step keeps the counts.                                            *)
LEMMA StepsStep ==
    Shape /\ Counters /\ Tables /\ StepInv /\ [Next]_vars => StepInv'
<1> SUFFICES ASSUME Shape, Counters, Tables, StepInv, [Next]_vars PROVE StepInv'
  OBVIOUS
<1>0. Counters'
  BY TypeStep
<1>1. CASE UNCHANGED vars
  <2>1. QuietCount /\ executed' = executed
    BY <1>1 DEF vars, storeVars, stepVars, govVars, QuietCount, Counting, Passed, Counters
  <2>. QED BY <1>0, <2>1, CountKept
<1>2. ASSUME NEW i \in DOMAIN restrictions, ClockPasses(i) PROVE StepInv'
  <2>1. QuietCount /\ executed' = executed
    BY <1>2 DEF ClockPasses, stepVars, govVars, QuietCount, Counting, Passed, Counters
  <2>. QED BY <1>0, <2>1, CountKept
<1>3. ASSUME NEW g \in Gov, GovernorSteps(g) \/ BootFails(g) PROVE StepInv'
  BY <1>0, <1>3, QuietGovernor, GovernorCounts, CountKept DEF Quiet
<1>4. ASSUME NEW g \in Gov, DelegateSteps(g) PROVE StepInv'
  BY <1>0, <1>4, QuietDelegate, DelegateCounts, CountKept DEF Quiet
<1>5. ASSUME NEW g \in Gov, EvaluateSteps(g) PROVE StepInv'
  <2>1. CASE executed' # executed
    BY <1>5, <2>1, OnlyExecuteExecutes, ExecuteCounts
  <2>2. CASE executed' = executed
    BY <1>0, <1>5, <2>2, FleetCounts, AgentCounts, EvaluateCounts, CountKept
  <2>. QED BY <2>1, <2>2
<1>. QED BY <1>1, <1>2, <1>3, <1>4, <1>5 DEF Next, GovernorNext

(* Nothing is counted at first.                                            *)
LEMMA StepsInit == Init => StepInv
<1> SUFFICES ASSUME Init PROVE StepInv
  OBVIOUS
<1>1. /\ executed = <<>> /\ agentSteps = [a \in Agent |-> 0]
      /\ \A g \in Gov : pc[g] = "down"
  BY DEF Init, StoreInit, GovInit
<1>2. executed \in Seq({}) /\ DOMAIN executed = {}
  BY <1>1
<1>3. \A a \in Agent : UnderWay(a) = {} /\ DoneBy(a) = {} /\ agentSteps[a] = 0
  BY <1>1, <1>2 DEF UnderWay, DoneBy, Passed, CountedPcs, Subroutine
<1>4. IsFiniteSet({}) /\ Cardinality({}) = 0
  BY FS_EmptySet
<1>5. Room({}, {}, 0)
  BY <1>4, PolicyAssumption DEF Room
<1>6. HasRoom
  BY <1>3, <1>5 DEF HasRoom
<1>7. \A g \in Gov : ~ Counting(g) /\ ~ Passed(g) /\ pc[g] # "agent"
  BY <1>1 DEF Counting, Passed, CountedPcs, Subroutine
<1>8. Numbers
  BY <1>2, <1>7 DEF Numbers
<1>9. Checked
  BY <1>7 DEF Checked
<1>. QED BY <1>2, <1>6, <1>8, <1>9 DEF StepInv

(* Different numbers up to the budget are no more than the budget.         *)
LEMMA NumbersBound == ASSUME StepInv PROVE Len(executed) <= MaxFleetSteps
<1> DEFINE D == DOMAIN executed
           f == [i \in D |-> executed[i].count]
<1>1. D = 1..Len(executed) /\ Len(executed) \in Nat /\ MaxFleetSteps \in Nat
  BY PolicyAssumption DEF StepInv
<1>2. f \in [D -> 1..MaxFleetSteps] /\ \A i, j \in D : f[i] = f[j] => i = j
  BY PolicyAssumption DEF StepInv, Numbers
<1> HIDE DEF D, f
<1>3. f \in Injection(D, 1..MaxFleetSteps)
  BY <1>2 DEF Injection, IsInjective
<1>4. IsFiniteSet(1..MaxFleetSteps) /\ Cardinality(1..MaxFleetSteps) = MaxFleetSteps
  BY <1>1, FS_Interval, SMTT(30)
<1>5. Cardinality(D) = Len(executed)
  BY <1>1, FS_Interval, SMTT(30)
<1>6. Cardinality(D) <= Cardinality(1..MaxFleetSteps)
  BY <1>3, <1>4, FS_Injection
<1>. QED BY <1>4, <1>5, <1>6

(* README invariant 7: the fleet's step budget and each agent's bound what *)
(* is executed, whatever crashes, restarts and races come in between.      *)
THEOREM StepsBound == Spec => []StepBudgetsBound
<1>1. Init => Shape /\ Counters /\ Tables /\ StepInv
  BY ShapeInit, TypeInit, StepsInit
<1>2. Shape /\ Counters /\ Tables /\ StepInv /\ [Next]_vars
         => (Shape /\ Counters /\ Tables /\ StepInv)'
  BY ShapeStep, TypeStep, StepsStep
<1>3. StepInv => StepBudgetsBound
  <2> SUFFICES ASSUME StepInv, MaxAgentSteps # 0, NEW a \in Agent
               PROVE  Cardinality(DoneBy(a)) <= MaxAgentSteps
    BY NumbersBound DEF StepBudgetsBound, DoneBy
  <2>1. Room(UnderWay(a), DoneBy(a), agentSteps[a])
    BY DEF StepInv, HasRoom
  <2>2. Cardinality(UnderWay(a)) \in Nat /\ Cardinality(DoneBy(a)) \in Nat
    BY <2>1, FS_CardinalityType DEF Room
  <2>. QED BY <2>1, <2>2, PolicyAssumption DEF Room
<1>. QED BY <1>1, <1>2, <1>3, PTL DEF Spec

------------------------------------------------------------------------------
(* Quotas of the STEP_BUDGET policy.  Two steps and a crash change them.   *)
QuotaRow == [agent : Agent, key : {Key(p.perm) : p \in Proposal}, left : Nat]

QuotaInv == quota \in [Gov -> SUBSET QuotaRow] /\ DOMAIN outcome = Gov

QuotaStep(g) ==
    /\ DOMAIN outcome' = DOMAIN outcome
    /\ \/ quota' = quota
       \/ pc' = [pc EXCEPT ![g] = "down"] /\ quota' = [quota EXCEPT ![g] = {}]
       \/ EvalImpose(g)
       \/ \E d \in Decisions : EvalGate(g, d)

(* A crash forgets them. *)
LEMMA GovernorQuota ==
    ASSUME Shape, NEW g \in Gov, GovernorSteps(g) \/ BootFails(g)
    PROVE  QuotaStep(g)
<1> USE DEF QuotaStep, Goto, storeVars, replayVars, stepVars, authVars, localVars, govVars
<1>1. CASE Restart(g)
  BY <1>1 DEF Restart
<1>2. ASSUME NEW a \in Agent, BootCheck(g, a) PROVE QuotaStep(g)
  BY <1>2 DEF BootCheck
<1>3. CASE BootSeed(g)
  BY <1>3 DEF BootSeed, InitializeAgent
<1>4. CASE BootDone(g)
  BY <1>4 DEF BootDone
<1>5. CASE Crash(g)
  BY <1>5 DEF Crash
<1>6. CASE ReadBase(g)
  BY <1>6 DEF ReadBase
<1>7. CASE ReadRestrictions(g)
  BY <1>7 DEF ReadRestrictions, AfterAuthority
<1>8. ASSUME NEW i \in DOMAIN restrictions, ExpireOne(g, i) PROVE QuotaStep(g)
  BY <1>8 DEF ExpireOne, AfterAuthority, MarkExpired
<1>9. ASSUME NEW i \in DOMAIN restrictions, NEW a \in Agent, Clear(g, i, a) PROVE QuotaStep(g)
  BY <1>9 DEF Clear, ClearRestriction
<1>10. CASE BootFails(g)
  BY <1>10 DEF BootFails
<1>. QED BY <1>1, <1>2, <1>3, <1>4, <1>5, <1>6, <1>7, <1>8, <1>9, <1>10 DEF GovernorSteps

(* In an evaluation it is the gate and the restriction. *)
LEMMA EvaluateQuota ==
    ASSUME Shape, NEW g \in Gov, EvaluateSteps(g)
    PROVE  QuotaStep(g)
<1> USE DEF QuotaStep, Goto, storeVars, replayVars, stepVars, authVars, localVars, govVars
<1>1. ASSUME NEW p \in Proposal, Submit(g, p) PROVE QuotaStep(g)
  BY <1>1 DEF Submit, Deny, Return, Blank
<1>2. CASE EvalClaimNonce(g)
  BY <1>2 DEF EvalClaimNonce, ClaimNonce, Deny, Return
<1>3. CASE EvalClaimProposalId(g)
  BY <1>3 DEF EvalClaimProposalId, ClaimProposalId, Deny, Return
<1>4. CASE EvalCountFleet(g)
  BY <1>4 DEF EvalCountFleet
<1>5. CASE EvalCountAgent(g)
  BY <1>5 DEF EvalCountAgent, Deny, Return
<1>6. CASE EvalReadLive(g)
  BY <1>6 DEF EvalReadLive
<1>7. ASSUME NEW d \in Decisions, EvalGate(g, d) PROVE QuotaStep(g)
  BY <1>7 DEF EvalGate, Deny, Return
<1>8. ASSUME NEW d \in Decisions, EvalQuorum(g, d) PROVE QuotaStep(g)
  BY <1>8 DEF EvalQuorum, AfterQuorum
<1>9. CASE EvalAuditStarted(g)
  BY <1>9 DEF EvalAuditStarted, LogAudit, AfterQuorum
<1>10. CASE EvalResolve(g)
  BY <1>10 DEF EvalResolve
<1>11. CASE EvalConsume(g)
  BY <1>11 DEF EvalConsume, ConsumePermission
<1>12. ASSUME NEW ok \in BOOLEAN, NEW acted \in BOOLEAN, EvalExecute(g, ok, acted) PROVE QuotaStep(g)
  BY <1>12 DEF EvalExecute
<1>13. CASE EvalImpose(g)
  BY <1>13 DEF EvalImpose, Impose
<1>14. CASE EvalAuditCompleted(g)
  BY <1>14 DEF EvalAuditCompleted, LogAudit, Return
<1>15. CASE EvalStoreFails(g)
  BY <1>15 DEF EvalStoreFails, Deny, Return
<1>. QED BY <1>1, <1>2, <1>3, <1>4, <1>5, <1>6, <1>7, <1>8, <1>9, <1>10,
        <1>11, <1>12, <1>13, <1>14, <1>15 DEF EvaluateSteps

(* A delegation leaves them alone. *)
LEMMA DelegateQuota ==
    ASSUME Shape, NEW g \in Gov, DelegateSteps(g)
    PROVE  QuotaStep(g)
<1> USE DEF QuotaStep, Goto, storeVars, replayVars, stepVars, authVars, localVars, govVars
<1>1. ASSUME NEW d \in Delegation, RegisterDelegation(g, d) PROVE QuotaStep(g)
  BY <1>1 DEF RegisterDelegation, Blank
<1>2. CASE DelegCheck(g)
  BY <1>2 DEF DelegCheck, RefuseDelegation, Return
<1>3. CASE DelegMerge(g)
  BY <1>3 DEF DelegMerge, RefuseDelegation, Return
<1>4. CASE DelegAudit(g)
  BY <1>4 DEF DelegAudit, LogAudit
<1>5. CASE DelegPublish(g)
  BY <1>5 DEF DelegPublish, ReplaceLive, Return
<1>6. CASE DelegStoreFails(g)
  BY <1>6 DEF DelegStoreFails, RefuseDelegation, Return
<1>7. ASSUME NEW a \in Agent, RevokeDelegation(g, a) PROVE QuotaStep(g)
  BY <1>7 DEF RevokeDelegation, ReplaceLive
<1>. QED BY <1>1, <1>2, <1>3, <1>4, <1>5, <1>6, <1>7 DEF DelegateSteps

(* What such a step does to the rows of a governor.                        *)
QuotaSafe ==
    \A h \in Gov : \A q \in quota[h] :
        \/ \E r \in quota'[h] : r.agent = q.agent /\ r.key = q.key
        \/ pc'[h] = "down"
        \/ q.left = 0 /\ outcome'[h].decision = "HUMAN"

(* The gate charges a quota, or escalates and forgets it.                  *)
LEMMA GateKeepsQuota ==
    ASSUME Shape, QuotaInv, NEW g \in Gov, NEW d \in Decisions, EvalGate(g, d)
    PROVE  QuotaInv' /\ QuotaSafe
<1> DEFINE a == loc[g].call.agent
           k == Key(loc[g].call.perm)
<1>1. DOMAIN outcome' = Gov
  BY DEF EvalGate, QuotaInv, Deny, Return
<1>2. CASE quota' = quota
  BY <1>1, <1>2 DEF QuotaInv, QuotaSafe
<1>3. CASE quota' # quota
  <2>1. /\ quota' = [quota EXCEPT ![g] = QuotaAfter(g, a, k)]
        /\ QuotaExhausted(g, a, k) =>
            outcome' = [outcome EXCEPT ![g] = [decision |-> "HUMAN", ran |-> loc[g].ran]]
    BY <1>3 DEF EvalGate, Deny, Return
  <2>2. \A q \in quota[g] : q \in QuotaRow
    BY DEF QuotaInv
  <2> HIDE DEF a, k
  <2>3. \A q \in QuotaFor(g, a, k) : q.left > 0 =>
            /\ [q EXCEPT !.left = @ - 1] \in QuotaAfter(g, a, k)
            /\ [q EXCEPT !.left = @ - 1] \in QuotaRow
            /\ [q EXCEPT !.left = @ - 1].agent = q.agent /\ [q EXCEPT !.left = @ - 1].key = q.key
    BY <2>2, SMTT(30) DEF QuotaAfter, QuotaFor, QuotaRow
  <2>4. \A q \in QuotaAfter(g, a, k) : q \in QuotaRow
    BY <2>2, <2>3 DEF QuotaAfter, QuotaFor
  <2>5. QuotaInv'
    BY <1>1, <2>1, <2>4 DEF QuotaInv
  <2>6. ASSUME NEW h \in Gov, NEW q \in quota[h]
        PROVE  \/ \E r \in quota'[h] : r.agent = q.agent /\ r.key = q.key
               \/ q.left = 0 /\ outcome'[h].decision = "HUMAN"
    <3>1. CASE h # g
      BY <2>1, <2>6, <3>1 DEF QuotaInv
    <3>2. CASE h = g /\ q \notin QuotaFor(g, a, k)
      <4>1. q \in quota'[h]
        BY <2>1, <2>6, <3>2 DEF QuotaInv, QuotaAfter
      <4>. QED BY <4>1
    <3>3. CASE h = g /\ q \in QuotaFor(g, a, k) /\ q.left > 0
      <4>1. quota'[h] = QuotaAfter(g, a, k)
        BY <2>1, <3>3 DEF QuotaInv
      <4>. QED BY <2>3, <3>3, <4>1
    <3>4. CASE h = g /\ q \in QuotaFor(g, a, k) /\ ~ (q.left > 0)
      <4>1. q.left = 0
        BY <2>2, <2>6, <3>4 DEF QuotaRow
      <4>2. outcome'[h].decision = "HUMAN"
        BY <2>1, <3>4, <4>1 DEF QuotaExhausted, QuotaInv
      <4>. QED BY <4>1, <4>2
    <3>. QED BY <3>1, <3>2, <3>3, <3>4
  <2>. QED BY <2>5, <2>6 DEF QuotaSafe
<1>. QED BY <1>2, <1>3

(* A restriction renews the quota of its own permission.                   *)
LEMMA ImposeKeepsQuota ==
    ASSUME Shape, QuotaInv, NEW g \in Gov, EvalImpose(g)
    PROVE  QuotaInv' /\ QuotaSafe
<1> DEFINE a == loc[g].call.agent
           k == Key(loc[g].call.perm)
           row == [agent |-> a, key |-> k, left |-> RestrictTtl[g]]
<1>1. outcome' = outcome
  BY DEF EvalImpose
<1>2. CASE quota' = quota
  BY <1>1, <1>2 DEF QuotaInv, QuotaSafe
<1>3. CASE quota' # quota
  <2>1. quota' = [quota EXCEPT ![g] = (@ \ QuotaFor(g, a, k)) \cup {row}]
    BY <1>3 DEF EvalImpose
  <2>2. loc[g].call \in Proposal
    BY DEF EvalImpose, Shape, Evaluating, EvalPcs
  <2>3. row \in QuotaRow
    BY <2>2, ProposalAssumption, PolicyAssumption DEF QuotaRow
  <2>4. row.agent = a /\ row.key = k
    OBVIOUS
  <2> HIDE DEF a, k, row
  <2>5. QuotaInv'
    BY <1>1, <2>1, <2>3 DEF QuotaInv
  <2>6. ASSUME NEW h \in Gov, NEW q \in quota[h]
        PROVE  \E r \in quota'[h] : r.agent = q.agent /\ r.key = q.key
    <3>1. CASE h # g
      BY <2>1, <2>6, <3>1 DEF QuotaInv
    <3>2. CASE h = g
      <4>1. quota'[h] = (quota[g] \ QuotaFor(g, a, k)) \cup {row}
        BY <2>1, <3>2 DEF QuotaInv
      <4>. QED BY <2>4, <2>6, <3>2, <4>1 DEF QuotaFor
    <3>. QED BY <3>1, <3>2
  <2>. QED BY <2>5, <2>6 DEF QuotaSafe
<1>. QED BY <1>2, <1>3

(* Every step keeps the quotas typed, and is safe.                         *)
LEMMA QuotasStep ==
    Shape /\ QuotaInv /\ [Next]_vars => QuotaInv' /\ QuotaSafe
<1> SUFFICES ASSUME Shape, QuotaInv, [Next]_vars PROVE QuotaInv' /\ QuotaSafe
  OBVIOUS
<1>1. CASE quota' = quota /\ DOMAIN outcome' = DOMAIN outcome
  BY <1>1 DEF QuotaInv, QuotaSafe
<1>2. CASE UNCHANGED vars
  BY <1>1, <1>2 DEF vars, govVars, localVars
<1>3. ASSUME NEW i \in DOMAIN restrictions, ClockPasses(i) PROVE QuotaInv' /\ QuotaSafe
  BY <1>1, <1>3 DEF ClockPasses, govVars, localVars
<1>4. ASSUME NEW g \in Gov, GovernorNext(g) PROVE QuotaInv' /\ QuotaSafe
  <2>1. QuotaStep(g)
    BY <1>4, GovernorQuota, EvaluateQuota, DelegateQuota DEF GovernorNext
  <2>2. CASE EvalImpose(g)
    BY <2>2, ImposeKeepsQuota
  <2>3. ASSUME NEW d \in Decisions, EvalGate(g, d) PROVE QuotaInv' /\ QuotaSafe
    BY <2>3, GateKeepsQuota
  <2>4. CASE pc' = [pc EXCEPT ![g] = "down"] /\ quota' = [quota EXCEPT ![g] = {}]
    <3>1. QuotaInv'
      BY <2>1, <2>4 DEF QuotaInv, QuotaStep
    <3>2. QuotaSafe
      BY <2>4 DEF QuotaInv, QuotaSafe, Shape
    <3>. QED BY <3>1, <3>2
  <2>. QED BY <1>1, <2>1, <2>2, <2>3, <2>4 DEF QuotaStep
<1>. QED BY <1>2, <1>3, <1>4 DEF Next

(* STEP_BUDGET: a quota ends in an escalation to HUMAN; nothing but the    *)
(* loss of the process makes a governor forget one.                        *)
THEOREM QuotasEscalate == Spec => QuotaEscalates
<1>1. Init => Shape /\ QuotaInv
  BY ShapeInit DEF Init, GovInit, QuotaInv
<1>2. Shape /\ QuotaInv /\ [Next]_vars => (Shape /\ QuotaInv)'
  BY ShapeStep, QuotasStep
<1>3. Shape /\ QuotaInv /\ [Next]_vars =>
         [\A g \in Gov : \A q \in quota[g] :
             \/ \E r \in quota'[g] : r.agent = q.agent /\ r.key = q.key
             \/ pc'[g] = "down"
             \/ q.left = 0 /\ outcome'[g].decision = "HUMAN"]_vars
  BY QuotasStep DEF QuotaSafe
<1>. QED BY <1>1, <1>2, <1>3, PTL DEF Spec, QuotaEscalates
==============================================================================
