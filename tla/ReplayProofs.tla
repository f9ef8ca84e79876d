------------------------------ MODULE ReplayProofs ------------------------------
(***************************************************************************)
(* Replay protection of the fleet, for any number of governors, proposals, *)
(* crashes and store failures.  The argument is about possession: from the *)
(* claim of an identifier to the execution boundary exactly one governor   *)
(* holds it, and no identifier that was executed is ever held again.       *)
(***************************************************************************)
EXTENDS FleetProofs
------------------------------------------------------------------------------
(* Claiming and executing.  A governor holds the nonce it has claimed      *)
(* until it reaches the execution boundary.                                *)
Serving(g) ==
    \/ pc[g] \in {"fleet", "agent", "live", "gate", "started", "quorum",
                  "spend", "consume", "run"}
    \/ pc[g] \in {"base", "restr", "expire"} /\ loc[g].stage # "delegate"

HoldsNonce(g) == (pc[g] = "pid" \/ Serving(g)) /\ loc[g].call.nonce # NoNonce
HoldsId(g) == Serving(g) /\ DedupeProposalIds

Executed(i) == executed[i].call

HeldNonces ==      \* each claimed, held by one governor only, not executed
    \A g \in Gov : HoldsNonce(g) =>
        /\ NonceOf(loc[g].call) \in nonces
        /\ \A h \in Gov : HoldsNonce(h) /\ NonceOf(loc[g].call) = NonceOf(loc[h].call)
                          => g = h
        /\ \A i \in DOMAIN executed :
              Executed(i).nonce # NoNonce => NonceOf(Executed(i)) # NonceOf(loc[g].call)

ExecutedClaimed ==
    \A i \in DOMAIN executed :
        /\ Executed(i) \in Proposal
        /\ Executed(i).nonce # NoNonce => NonceOf(Executed(i)) \in nonces

ReplayInv ==
    /\ \E S : executed \in Seq(S)
    /\ HeldNonces
    /\ ExecutedClaimed
    /\ NonceExecutesOnce

HeldIds ==
    \A g \in Gov : HoldsId(g) =>
        /\ loc[g].call.id \in pids
        /\ \A h \in Gov : HoldsId(h) /\ loc[g].call.id = loc[h].call.id => g = h
        /\ \A i \in DOMAIN executed : Executed(i).id # loc[g].call.id

IdInv ==
    /\ \E S : executed \in Seq(S)
    /\ HeldIds
    /\ DedupeProposalIds => \A i \in DOMAIN executed : Executed(i).id \in pids
    /\ ProposalIdExecutesOnce

(* A step that claims nothing, executes nothing and puts no governor       *)
(* behind a claim it has not made.                                         *)
QuietNonce ==
    /\ UNCHANGED <<nonces, executed>>
    /\ \A h \in Gov : HoldsNonce(h)' => HoldsNonce(h) /\ loc'[h].call = loc[h].call
QuietId ==
    /\ UNCHANGED <<pids, executed>>
    /\ \A h \in Gov : HoldsId(h)' => HoldsId(h) /\ loc'[h].call = loc[h].call
Quiet ==
    /\ UNCHANGED executed
    /\ nonces' = nonces => QuietNonce
    /\ pids' = pids => QuietId

(* Such a step leaves both invariants as they are. *)
LEMMA QuietKeepsReplay == ReplayInv /\ QuietNonce => ReplayInv'
BY SMTT(30) DEF ReplayInv, HeldNonces, ExecutedClaimed, QuietNonce, NonceExecutesOnce,
       Executed, NonceOf

(* ... also for proposal ids. *)
LEMMA QuietKeepsIds == IdInv /\ QuietId => IdInv'
BY DEF IdInv, HeldIds, QuietId, ProposalIdExecutesOnce, Executed, HoldsId

(* Coming up, reading authority and clearing restrictions are quiet. *)
LEMMA QuietGovernor ==
    ASSUME Shape, NEW g \in Gov, GovernorSteps(g) \/ BootFails(g)
    PROVE  Quiet /\ UNCHANGED replayVars
<1> USE DEF Shape, Goto, Quiet, QuietNonce, QuietId, HoldsNonce, HoldsId, Serving,
            storeVars, replayVars, govVars
<1> {"call", "stage", "dec", "count", "within", "budgetOk", "auth", "grant", "todo",
     "floor", "charge", "ran"} = Fields
  BY DEF Fields, Blank
<1>1. CASE Restart(g)
  BY <1>1 DEF Restart
<1>2. ASSUME NEW a \in Agent, BootCheck(g, a) PROVE Quiet /\ UNCHANGED replayVars
  BY <1>2 DEF BootCheck
<1>3. CASE BootSeed(g)
  BY <1>3 DEF BootSeed, InitializeAgent
<1>4. CASE BootDone(g)
  BY <1>4 DEF BootDone
<1>5. CASE Crash(g)
  BY <1>5 DEF Crash
<1>6. CASE ReadBase(g)
  BY <1>6 DEF ReadBase
<1>7. CASE ReadRestrictions(g)
  BY <1>7 DEF ReadRestrictions, AfterAuthority
<1>8. ASSUME NEW i \in DOMAIN restrictions, ExpireOne(g, i) PROVE Quiet /\ UNCHANGED replayVars
  BY <1>8 DEF ExpireOne, AfterAuthority, MarkExpired
<1>9. ASSUME NEW i \in DOMAIN restrictions, NEW a \in Agent, Clear(g, i, a) PROVE Quiet /\ UNCHANGED replayVars
  BY <1>9 DEF Clear, ClearRestriction
<1>10. CASE BootFails(g)
  BY <1>10 DEF BootFails
<1>. QED BY <1>1, <1>2, <1>3, <1>4, <1>5, <1>6, <1>7, <1>8, <1>9, <1>10 DEF GovernorSteps

(* An evaluation step that executes nothing is quiet about whatever it    *)
(* does not claim.                                                         *)
LEMMA QuietEvaluate ==
    ASSUME Shape, NEW g \in Gov, EvaluateSteps(g), UNCHANGED executed
    PROVE  Quiet
<1> USE DEF Shape, Goto, Quiet, QuietNonce, QuietId, HoldsNonce, HoldsId, Serving,
            storeVars, replayVars, govVars, NonceOf
<1> {"call", "stage", "dec", "count", "within", "budgetOk", "auth", "grant", "todo",
     "floor", "charge", "ran"} = Fields
  BY DEF Fields, Blank
<1>1. ASSUME NEW p \in Proposal, Submit(g, p)
    PROVE  Quiet
  BY <1>1 DEF Submit, Deny, Return, Blank
<1>2. CASE EvalClaimNonce(g)
  BY <1>2 DEF EvalClaimNonce, ClaimNonce, Deny, Return
<1>3. CASE EvalClaimProposalId(g)
  BY <1>3 DEF EvalClaimProposalId, ClaimProposalId, Deny, Return
<1>4. CASE EvalCountFleet(g)
  BY <1>4 DEF EvalCountFleet, IncrementFleet
<1>5. CASE EvalCountAgent(g)
  BY <1>5 DEF EvalCountAgent, IncrementAgent, Deny, Return
<1>6. CASE EvalReadLive(g)
  BY <1>6 DEF EvalReadLive
<1>7. ASSUME NEW d \in Decisions, EvalGate(g, d)
    PROVE  Quiet
  BY <1>7 DEF EvalGate, Deny, Return
<1>8. ASSUME NEW d \in Decisions, EvalQuorum(g, d)
    PROVE  Quiet
  BY <1>8 DEF EvalQuorum, AfterQuorum
<1>9. CASE EvalAuditStarted(g)
  BY <1>9 DEF EvalAuditStarted, LogAudit, AfterQuorum
<1>10. CASE EvalResolve(g)
  BY <1>10 DEF EvalResolve
<1>11. CASE EvalConsume(g)
  BY <1>11 DEF EvalConsume, ConsumePermission
<1>12. CASE EvalImpose(g)
  BY <1>12 DEF EvalImpose, Impose
<1>13. CASE EvalAuditCompleted(g)
  BY <1>13 DEF EvalAuditCompleted, LogAudit, Return
<1>14. CASE EvalStoreFails(g)
  BY <1>14 DEF EvalStoreFails, Deny, Return
<1>15. ASSUME NEW ok \in BOOLEAN, NEW acted \in BOOLEAN, EvalExecute(g, ok, acted)
    PROVE  Quiet
  BY <1>15 DEF EvalExecute
<1>. QED BY <1>1, <1>2, <1>3, <1>4, <1>5, <1>6, <1>7, <1>8, <1>9, <1>10, <1>11, <1>12, <1>13, <1>14, <1>15 DEF EvaluateSteps

(* Delegations neither claim nor execute. *)
LEMMA QuietDelegate ==
    ASSUME Shape, NEW g \in Gov, DelegateSteps(g)
    PROVE  Quiet /\ UNCHANGED replayVars
<1> USE DEF Shape, Goto, Quiet, QuietNonce, QuietId, HoldsNonce, HoldsId, Serving,
            storeVars, replayVars, govVars, Blank
<1> {"call", "stage", "dec", "count", "within", "budgetOk", "auth", "grant", "todo",
     "floor", "charge", "ran"} = Fields
  BY DEF Fields, Blank
<1>1. ASSUME NEW d \in Delegation, RegisterDelegation(g, d)
    PROVE  Quiet /\ UNCHANGED replayVars
  BY <1>1 DEF RegisterDelegation, Blank
<1>2. CASE DelegCheck(g)
  BY <1>2 DEF DelegCheck, RefuseDelegation, Return
<1>3. CASE DelegMerge(g)
  BY <1>3 DEF DelegMerge, RefuseDelegation, Return
<1>4. CASE DelegAudit(g)
  BY <1>4 DEF DelegAudit, LogAudit
<1>5. CASE DelegPublish(g)
  BY <1>5 DEF DelegPublish, ReplaceLive, Return
<1>6. CASE DelegStoreFails(g)
  BY <1>6 DEF DelegStoreFails, RefuseDelegation, Return
<1>7. ASSUME NEW a \in Agent, RevokeDelegation(g, a)
    PROVE  Quiet /\ UNCHANGED replayVars
  BY <1>7 DEF RevokeDelegation, ReplaceLive
<1>. QED BY <1>1, <1>2, <1>3, <1>4, <1>5, <1>6, <1>7 DEF DelegateSteps

(* Side effects come from the execution boundary alone. *)
LEMMA OnlyExecuteExecutes ==
    ASSUME NEW g \in Gov, EvaluateSteps(g), executed' # executed
    PROVE  \E ok, acted \in BOOLEAN : EvalExecute(g, ok, acted)
BY DEF EvaluateSteps, Submit, EvalClaimNonce, EvalClaimProposalId, EvalCountFleet,
       EvalCountAgent, EvalReadLive, EvalGate, EvalQuorum, EvalAuditStarted, EvalResolve,
       EvalConsume, EvalImpose, EvalAuditCompleted, EvalStoreFails

(* Identifiers are claimed by the two claims of (6) alone. *)
LEMMA OnlyClaimsClaim ==
    ASSUME NEW g \in Gov, EvaluateSteps(g)
    PROVE  /\ nonces' # nonces => EvalClaimNonce(g)
           /\ pids' # pids => EvalClaimProposalId(g)
BY DEF EvaluateSteps, Submit, EvalClaimNonce, EvalClaimProposalId, EvalCountFleet,
       EvalCountAgent, EvalReadLive, EvalGate, EvalQuorum, EvalAuditStarted, EvalResolve,
       EvalConsume, EvalImpose, EvalAuditCompleted, EvalStoreFails, EvalExecute,
       storeVars, replayVars, ClaimNonce, ClaimProposalId, IncrementFleet, IncrementAgent,
       LogAudit, Impose, ConsumePermission

(* EvalClaimNonce hands a governor a nonce nobody holds. *)
LEMMA ClaimKeepsReplay ==
    ASSUME Shape, ReplayInv, NEW g \in Gov, EvalClaimNonce(g), nonces' # nonces
    PROVE  ReplayInv'
<1> USE DEF Shape, Goto, HoldsNonce, Serving
<1>1. /\ NonceOf(loc[g].call) \notin nonces
      /\ nonces' = nonces \cup {NonceOf(loc[g].call)}
      /\ UNCHANGED <<loc, executed>>
      /\ pc[g] = "nonce" /\ pc' = [pc EXCEPT ![g] = "pid"]
  BY DEF EvalClaimNonce, ClaimNonce, NonceOf, storeVars, replayVars
<1>2. \A h \in Gov : HoldsNonce(h)' => h = g \/ HoldsNonce(h)
  BY <1>1
<1>. QED BY <1>1, <1>2 DEF ReplayInv, HeldNonces, ExecutedClaimed, NonceExecutesOnce, Executed

(* What Append does to a sequence of whatever elements. *)
LEMMA AppendIsSeq ==
    ASSUME NEW s, NEW S, s \in Seq(S), NEW x
    PROVE  /\ Append(s, x) \in Seq(S \cup {x})
           /\ DOMAIN s = 1..Len(s) /\ Len(s) \in Nat
           /\ DOMAIN Append(s, x) = 1..(Len(s) + 1)
           /\ \A i \in 1..Len(s) : Append(s, x)[i] = s[i]
           /\ Append(s, x)[Len(s) + 1] = x
<1> s \in Seq(S \cup {x}) /\ x \in S \cup {x}
  OBVIOUS
<1> QED OBVIOUS

(* EvalExecute turns the nonce a governor holds into an executed one.      *)
LEMMA ExecuteKeepsReplay ==
    ASSUME Shape, ReplayInv, NEW g \in Gov, NEW ok \in BOOLEAN, NEW acted \in BOOLEAN,
           EvalExecute(g, ok, acted), executed' # executed
    PROVE  ReplayInv'
<1>1. /\ executed' = Append(executed, Execution(loc[g]))
      /\ pc[g] = "run" /\ pc' = [pc EXCEPT ![g] = "completed"]
      /\ nonces' = nonces
      /\ \A h \in Gov : h # g => loc'[h] = loc[h]
  BY DEF EvalExecute, storeVars, replayVars, Shape, Goto
<1>2. \A h \in Gov : HoldsNonce(h)' => h # g /\ HoldsNonce(h) /\ loc'[h] = loc[h]
  BY <1>1 DEF HoldsNonce, Serving, Shape
<1>3. Execution(loc[g]).call = loc[g].call
  BY DEF Execution
<1>4. HoldsNonce(g) \/ loc[g].call.nonce = NoNonce
  BY <1>1 DEF HoldsNonce, Serving
<1>5. PICK S : executed \in Seq(S)
  BY DEF ReplayInv
<1> DEFINE n == Len(executed)
<1>6. /\ executed' \in Seq(S \cup {Execution(loc[g])})
      /\ DOMAIN executed = 1..n /\ n \in Nat
      /\ DOMAIN executed' = 1..(n + 1)
      /\ \A i \in 1..n : executed'[i] = executed[i]
      /\ executed'[n + 1] = Execution(loc[g])
  <2> HIDE DEF Execution
  <2>. QED BY ONLY <1>1, <1>5, AppendIsSeq
<1>7. \E T : executed' \in Seq(T)
  BY <1>6
<1> HIDE DEF n
<1>8. \A i \in DOMAIN executed' : (i \in DOMAIN executed /\ Executed(i)' = Executed(i))
                                \/ (i = n + 1 /\ Executed(i)' = loc[g].call)
  BY <1>3, <1>6 DEF Executed
<1>9. \A i \in DOMAIN executed : i # n + 1
  BY <1>6
<1>10. HeldNonces'
  <2> SUFFICES ASSUME NEW h \in Gov, HoldsNonce(h)'
               PROVE  /\ NonceOf(loc[h].call) \in nonces
                      /\ \A k \in Gov : HoldsNonce(k)' /\ NonceOf(loc[h].call) = NonceOf(loc[k].call)
                                        => h = k
                      /\ \A i \in DOMAIN executed' : Executed(i)'.nonce # NoNonce
                             => NonceOf(Executed(i)') # NonceOf(loc[h].call)
    BY <1>1, <1>2 DEF HeldNonces, NonceOf
  <2>. QED BY <1>2, <1>4, <1>8 DEF ReplayInv, HeldNonces
<1>11. ExecutedClaimed'
  <2>1. loc[g].call \in Proposal
    BY <1>1 DEF Shape, Evaluating, EvalPcs
  <2>. QED BY <2>1, <1>1, <1>4, <1>8 DEF ReplayInv, ExecutedClaimed, HeldNonces, NonceOf
<1>12. NonceExecutesOnce'
  <2>1. \A p, q : NonceOf(p) = NonceOf(q) => p.nonce = q.nonce
    BY DEF NonceOf
  <2>2. \A i \in DOMAIN executed : Executed(i).nonce # NoNonce /\ loc[g].call.nonce # NoNonce
            => NonceOf(Executed(i)) # NonceOf(loc[g].call)
    BY <1>4 DEF ReplayInv, HeldNonces
  <2>3. \A i, j \in DOMAIN executed :
            Executed(i).nonce # NoNonce /\ NonceOf(Executed(i)) = NonceOf(Executed(j)) => i = j
    BY DEF ReplayInv, NonceExecutesOnce, Executed
  <2>4. \A i, j \in DOMAIN executed' :
            Executed(i)'.nonce # NoNonce /\ NonceOf(Executed(i)') = NonceOf(Executed(j)') => i = j
    BY <2>1, <2>2, <2>3, <1>8
  <2>. QED BY <2>4 DEF NonceExecutesOnce, Executed, NonceOf
<1>. QED
  BY <1>7, <1>10, <1>11, <1>12 DEF ReplayInv

(* EvalClaimProposalId, as far as IdInv can see. *)
LEMMA ClaimKeepsIds ==
    ASSUME Shape, IdInv, NEW g \in Gov, EvalClaimProposalId(g), pids' # pids
    PROVE  IdInv'
<1> USE DEF Shape, Goto, HoldsId, Serving
<1>1. /\ loc[g].call.id \notin pids
      /\ pids' = pids \cup {loc[g].call.id}
      /\ UNCHANGED <<loc, executed>>
      /\ pc[g] = "pid" /\ pc' = [pc EXCEPT ![g] = "fleet"]
  BY DEF EvalClaimProposalId, ClaimProposalId, storeVars, replayVars
<1>2. \A h \in Gov : HoldsId(h)' => h = g \/ HoldsId(h)
  BY <1>1
<1>. QED BY <1>1, <1>2 DEF IdInv, HeldIds, ProposalIdExecutesOnce, Executed

(* EvalExecute turns the id a governor holds into an executed one. *)
LEMMA ExecuteKeepsIds ==
    ASSUME Shape, IdInv, NEW g \in Gov, NEW ok \in BOOLEAN, NEW acted \in BOOLEAN,
           EvalExecute(g, ok, acted), executed' # executed
    PROVE  IdInv'
<1>1. /\ executed' = Append(executed, Execution(loc[g]))
      /\ pc[g] = "run" /\ pc' = [pc EXCEPT ![g] = "completed"]
      /\ pids' = pids
      /\ \A h \in Gov : h # g => loc'[h] = loc[h]
  BY DEF EvalExecute, storeVars, replayVars, Shape, Goto
<1>2. \A h \in Gov : HoldsId(h)' => h # g /\ HoldsId(h) /\ loc'[h] = loc[h]
  BY <1>1 DEF HoldsId, Serving, Shape
<1>3. Execution(loc[g]).call = loc[g].call
  BY DEF Execution
<1>4. DedupeProposalIds => HoldsId(g)
  BY <1>1 DEF HoldsId, Serving
<1>5. PICK S : executed \in Seq(S)
  BY DEF IdInv
<1> DEFINE n == Len(executed)
<1>6. /\ executed' \in Seq(S \cup {Execution(loc[g])})
      /\ DOMAIN executed = 1..n /\ n \in Nat
      /\ DOMAIN executed' = 1..(n + 1)
      /\ \A i \in 1..n : executed'[i] = executed[i]
      /\ executed'[n + 1] = Execution(loc[g])
  <2> HIDE DEF Execution
  <2>. QED BY ONLY <1>1, <1>5, AppendIsSeq
<1>7. \E T : executed' \in Seq(T)
  BY <1>6
<1> HIDE DEF n
<1>8. \A i \in DOMAIN executed' : (i \in DOMAIN executed /\ Executed(i)' = Executed(i))
                                \/ (i = n + 1 /\ Executed(i)' = loc[g].call)
  BY <1>3, <1>6 DEF Executed
<1>9. HeldIds'
  <2> SUFFICES ASSUME NEW h \in Gov, HoldsId(h)'
               PROVE  /\ loc[h].call.id \in pids
                      /\ \A k \in Gov : HoldsId(k)' /\ loc[h].call.id = loc[k].call.id
                                        => h = k
                      /\ \A i \in DOMAIN executed' : Executed(i)'.id # loc[h].call.id
    BY <1>1, <1>2 DEF HeldIds
  <2>1. DedupeProposalIds
    BY DEF HoldsId
  <2>. QED BY <1>2, <1>4, <1>8, <2>1 DEF IdInv, HeldIds
<1>10. DedupeProposalIds => \A i \in DOMAIN executed' : Executed(i)'.id \in pids'
  BY <1>1, <1>4, <1>8 DEF IdInv, HeldIds
<1>11. ProposalIdExecutesOnce'
  <2>1. DedupeProposalIds => \A i \in DOMAIN executed : Executed(i).id # loc[g].call.id
    BY <1>4 DEF IdInv, HeldIds
  <2>2. DedupeProposalIds => \A i, j \in DOMAIN executed :
            Executed(i).id = Executed(j).id => i = j
    BY DEF IdInv, ProposalIdExecutesOnce, Executed
  <2>3. DedupeProposalIds => \A i, j \in DOMAIN executed' :
            Executed(i)'.id = Executed(j)'.id => i = j
    BY <2>1, <2>2, <1>8
  <2>. QED BY <2>3 DEF ProposalIdExecutesOnce, Executed
<1>. QED
  BY <1>7, <1>9, <1>10, <1>11 DEF IdInv

(* Every step of the deployment keeps both invariants. *)
LEMMA ReplayStep == Shape /\ ReplayInv /\ IdInv /\ [Next]_vars => ReplayInv' /\ IdInv'
<1> SUFFICES ASSUME Shape, ReplayInv, IdInv, [Next]_vars PROVE ReplayInv' /\ IdInv'
  OBVIOUS
<1>1. CASE UNCHANGED vars
  <2>1. Quiet /\ UNCHANGED replayVars
    BY <1>1 DEF vars, storeVars, replayVars, govVars, Quiet, QuietNonce, QuietId,
                HoldsNonce, HoldsId, Serving
  <2>. QED BY <2>1, QuietKeepsReplay, QuietKeepsIds DEF Quiet, replayVars
<1>2. ASSUME NEW i \in DOMAIN restrictions, ClockPasses(i) PROVE ReplayInv' /\ IdInv'
  <2>1. Quiet /\ UNCHANGED replayVars
    BY <1>2 DEF ClockPasses, replayVars, govVars, Quiet, QuietNonce, QuietId,
                HoldsNonce, HoldsId, Serving
  <2>. QED BY <2>1, QuietKeepsReplay, QuietKeepsIds DEF Quiet, replayVars
<1>3. ASSUME NEW g \in Gov, GovernorSteps(g) \/ BootFails(g) PROVE ReplayInv' /\ IdInv'
  BY <1>3, QuietGovernor, QuietKeepsReplay, QuietKeepsIds DEF Quiet, replayVars
<1>4. ASSUME NEW g \in Gov, DelegateSteps(g) PROVE ReplayInv' /\ IdInv'
  BY <1>4, QuietDelegate, QuietKeepsReplay, QuietKeepsIds DEF Quiet, replayVars
<1>5. ASSUME NEW g \in Gov, EvaluateSteps(g) PROVE ReplayInv' /\ IdInv'
  <2>1. CASE executed' # executed
    BY <1>5, <2>1, OnlyExecuteExecutes, ExecuteKeepsReplay, ExecuteKeepsIds
  <2>2. CASE executed' = executed
    <3>1. Quiet
      BY <1>5, <2>2, QuietEvaluate
    <3>2. ReplayInv'
      BY <1>5, <3>1, OnlyClaimsClaim, ClaimKeepsReplay, QuietKeepsReplay DEF Quiet
    <3>3. IdInv'
      BY <1>5, <3>1, OnlyClaimsClaim, ClaimKeepsIds, QuietKeepsIds DEF Quiet
    <3>. QED BY <3>2, <3>3
  <2>. QED BY <2>1, <2>2
<1>. QED BY <1>1, <1>2, <1>3, <1>4, <1>5 DEF Next, GovernorNext

(* Nothing is held or executed at first. *)
LEMMA ReplayInit == Init => ReplayInv /\ IdInv
<1> SUFFICES ASSUME Init PROVE ReplayInv /\ IdInv
  OBVIOUS
<1>1. executed = <<>> /\ \A g \in Gov : pc[g] = "down"
  BY DEF Init, GovInit
<1>2. executed \in Seq({}) /\ DOMAIN executed = {}
  BY <1>1
<1>. QED BY <1>1, <1>2 DEF ReplayInv, IdInv, HeldNonces, HeldIds, ExecutedClaimed, HoldsNonce,
                        HoldsId, Serving, NonceExecutesOnce, ProposalIdExecutesOnce

(* Whatever the governors, the proposals and the failures, a nonce and a   *)
(* proposal id are executed at most once, across crashes and restarts.     *)
THEOREM ReplaySafety == Spec => [](NonceExecutesOnce /\ ProposalIdExecutesOnce)
<1>1. Init => Shape /\ ReplayInv /\ IdInv
  BY ShapeInit, ReplayInit
<1>2. Shape /\ ReplayInv /\ IdInv /\ [Next]_vars => (Shape /\ ReplayInv /\ IdInv)'
  BY ShapeStep, ReplayStep
<1>3. ReplayInv /\ IdInv => NonceExecutesOnce /\ ProposalIdExecutesOnce
  BY DEF ReplayInv, IdInv
<1>. QED BY <1>1, <1>2, <1>3, PTL DEF Spec

(* Its second half on its own, as the runs check it. *)
THEOREM ProposalIdSafety == Spec => []ProposalIdExecutesOnce
BY ReplaySafety, PTL
------------------------------------------------------------------------------
Done == [i \in DOMAIN executed |-> NonceOf(executed[i].call)]

(* Appending an execution appends its identifier. *)
LEMMA DoneGrows ==
    ASSUME NEW S, executed \in Seq(S), NEW x, executed' = Append(executed, x)
    PROVE  Done' = Append(Done, NonceOf(x.call))
<1> DEFINE n == Len(executed)
<1>1. /\ DOMAIN executed = 1..n /\ n \in Nat
      /\ DOMAIN executed' = 1..(n + 1)
      /\ \A i \in 1..n : executed'[i] = executed[i]
      /\ executed'[n + 1] = x
  BY AppendIsSeq
<1> DEFINE T == {NonceOf(executed[i].call) : i \in DOMAIN executed}
<1>2. Done \in Seq(T) /\ Len(Done) = n
  <2>1. Done \in [1..n -> T] /\ DOMAIN Done = 1..n
    BY <1>1 DEF Done
  <2>. QED BY <1>1, <2>1
<1>3. /\ DOMAIN Append(Done, NonceOf(x.call)) = 1..(n + 1)
      /\ \A i \in 1..n : Append(Done, NonceOf(x.call))[i] = Done[i]
      /\ Append(Done, NonceOf(x.call))[n + 1] = NonceOf(x.call)
  BY <1>2, AppendIsSeq
<1>4. \A i \in 1..(n + 1) : Append(Done, NonceOf(x.call))[i] = NonceOf(executed'[i].call)
  BY <1>1, <1>3 DEF Done
<1>. QED BY <1>1, <1>2, <1>3, <1>4 DEF Done

(* Each step of the fleet claims an identifier, executes one that is       *)
(* claimed and not yet executed, or is invisible to the ledger.            *)
LEMMA LedgerStep ==
    ASSUME \A p \in Proposal : p.nonce # NoNonce,
           Shape, ReplayInv, [Next]_vars
    PROVE  [Ledger!Next]_<<nonces, Done>>
<1>1. CASE executed' # executed
  <2>1. PICK g \in Gov, ok, acted \in BOOLEAN : EvalExecute(g, ok, acted)
    <3>1. ~ UNCHANGED vars
      BY <1>1 DEF vars, govVars
    <3>2. \A i \in DOMAIN restrictions : ~ ClockPasses(i)
      BY <1>1 DEF ClockPasses, govVars
    <3>3. PICK g \in Gov : GovernorNext(g)
      BY <3>1, <3>2 DEF Next
    <3>4. EvaluateSteps(g)
      BY <1>1, <3>3, QuietGovernor, QuietDelegate DEF GovernorNext, Quiet
    <3>. QED BY <1>1, <3>4, OnlyExecuteExecutes
  <2> DEFINE k == NonceOf(loc[g].call)
  <2>2. /\ executed' = Append(executed, Execution(loc[g]))
        /\ pc[g] = "run" /\ nonces' = nonces
    BY <1>1, <2>1 DEF EvalExecute, storeVars, replayVars
  <2>3. Execution(loc[g]).call = loc[g].call
    BY DEF Execution
  <2>4. loc[g].call \in Proposal
    BY <2>2 DEF Shape, Evaluating, EvalPcs
  <2>5. HoldsNonce(g)
    BY <2>2, <2>4 DEF HoldsNonce, Serving
  <2>6. k \in nonces /\ \A i \in DOMAIN executed : Executed(i).nonce # NoNonce
                                               => NonceOf(Executed(i)) # k
    BY <2>5 DEF ReplayInv, HeldNonces
  <2>7. \A i \in DOMAIN executed : Executed(i).nonce # NoNonce
    BY DEF ReplayInv, ExecutedClaimed
  <2>8. PICK S : executed \in Seq(S)
    BY DEF ReplayInv
  <2>9. Done' = Append(Done, k)
    <3> HIDE DEF Done, Execution
    <3>. QED BY <2>2, <2>3, <2>8, DoneGrows
  <2>10. \A i \in DOMAIN Done : Done[i] # k
    BY <2>6, <2>7 DEF Done, Executed
  <2>11. k \in {NonceOf(p) : p \in Proposal}
    BY <2>4
  <2>12. Ledger!Execute(k)
    BY <2>2, <2>6, <2>9, <2>10 DEF Ledger!Execute, Done
  <2>. QED BY <2>11, <2>12 DEF Ledger!Next
<1>2. CASE executed' = executed /\ nonces' # nonces
  <2>1. PICK g \in Gov : EvalClaimNonce(g)
    <3>1. ~ UNCHANGED vars
      BY <1>2 DEF vars, storeVars, replayVars
    <3>2. \A i \in DOMAIN restrictions : ~ ClockPasses(i)
      BY <1>2 DEF ClockPasses, replayVars
    <3>3. PICK g \in Gov : GovernorNext(g)
      BY <3>1, <3>2 DEF Next
    <3>4. EvaluateSteps(g)
      BY <1>2, <3>3, QuietGovernor, QuietDelegate DEF GovernorNext, replayVars
    <3>. QED BY <1>2, <3>4, OnlyClaimsClaim
  <2> DEFINE k == NonceOf(loc[g].call)
  <2>2. k \notin nonces /\ nonces' = nonces \cup {k} /\ pc[g] = "nonce"
    BY <1>2, <2>1 DEF EvalClaimNonce, ClaimNonce, NonceOf, storeVars, replayVars
  <2>3. k \in {NonceOf(p) : p \in Proposal}
    BY <2>2 DEF Shape, Evaluating, EvalPcs
  <2>4. Ledger!Claim(k)
    BY <1>2, <2>2 DEF Ledger!Claim, Done
  <2>. QED BY <2>3, <2>4 DEF Ledger!Next
<1>3. CASE executed' = executed /\ nonces' = nonces
  BY <1>3 DEF Done
<1>. QED BY <1>1, <1>2, <1>3

(* With a nonce in every proposal the fleet implements ExecutionLedger:    *)
(* claim once, execute at most once and only after the claim.              *)
THEOREM FleetImplementsLedger ==
    ASSUME \A p \in Proposal : p.nonce # NoNonce
    PROVE  Spec => LedgerSpec
<1>1. Init => Shape /\ ReplayInv /\ IdInv
  BY ShapeInit, ReplayInit
<1>2. Shape /\ ReplayInv /\ IdInv /\ [Next]_vars => (Shape /\ ReplayInv /\ IdInv)'
  BY ShapeStep, ReplayStep
<1>3. Init => Ledger!Init
  BY DEF Init, StoreInit, GovInit, Ledger!Init
<1>4. Shape /\ ReplayInv /\ [Next]_vars => [Ledger!Next]_<<nonces, Done>>
  BY LedgerStep
<1>. QED BY <1>1, <1>2, <1>3, <1>4, PTL DEF Spec, LedgerSpec, Ledger!Spec, Done
------------------------------------------------------------------------------
(* Records before effects.  From the audit-started record to the boundary  *)
(* the record of the call in progress is there; so is a delegation's when  *)
(* it is about to be published.                                            *)
StartedCall(g) ==
    \/ pc[g] \in {"quorum", "spend", "consume", "run"}
    \/ pc[g] \in Subroutine /\ loc[g].stage = "fresh"

StartedRecord(g) == StartedCall(g) => <<loc[g].call, "started">> \in audit
DelegationRecord(g) == pc[g] = "publish" => <<loc[g].call, "delegation">> \in audit
Recorded == \A g \in Gov : StartedRecord(g) /\ DelegationRecord(g)

AuditInv ==
    /\ Recorded
    /\ \E S : executed \in Seq(S)
    /\ ExecutedIsAudited

(* No step of a governor that comes up or reads loses a record.            *)
LEMMA RecordedGovernor ==
    ASSUME Shape, Recorded, NEW g \in Gov, GovernorSteps(g) \/ BootFails(g)
    PROVE  Recorded' /\ audit' = audit
<1> USE DEF Shape, Subroutine, Goto, Recorded, StartedCall, StartedRecord, DelegationRecord,
            storeVars, govVars
<1> {"call", "stage", "dec", "count", "within", "budgetOk", "auth", "grant", "todo",
     "floor", "charge", "ran"} = Fields
  BY DEF Fields, Blank
<1>1. CASE Restart(g)
  BY <1>1 DEF Restart
<1>2. ASSUME NEW a \in Agent, BootCheck(g, a) PROVE Recorded' /\ audit' = audit
  BY <1>2 DEF BootCheck
<1>3. CASE BootSeed(g)
  BY <1>3 DEF BootSeed, InitializeAgent
<1>4. CASE BootDone(g)
  BY <1>4 DEF BootDone
<1>5. CASE Crash(g)
  BY <1>5 DEF Crash
<1>6. CASE ReadBase(g)
  BY <1>6 DEF ReadBase
<1>7. CASE ReadRestrictions(g)
  BY <1>7 DEF ReadRestrictions, AfterAuthority
<1>8. ASSUME NEW i \in DOMAIN restrictions, ExpireOne(g, i) PROVE Recorded' /\ audit' = audit
  BY <1>8 DEF ExpireOne, AfterAuthority, MarkExpired
<1>9. ASSUME NEW i \in DOMAIN restrictions, NEW a \in Agent, Clear(g, i, a) PROVE Recorded' /\ audit' = audit
  BY <1>9 DEF Clear, ClearRestriction
<1>10. CASE BootFails(g)
  BY <1>10 DEF BootFails
<1>. QED BY <1>1, <1>2, <1>3, <1>4, <1>5, <1>6, <1>7, <1>8, <1>9, <1>10 DEF GovernorSteps

(* An evaluation passes the audit-started step before anything that needs  *)
(* the record, and no record is ever removed.                              *)
LEMMA RecordedEvaluate ==
    ASSUME Shape, Recorded, NEW g \in Gov, EvaluateSteps(g)
    PROVE  Recorded' /\ audit \subseteq audit'
<1> USE DEF Shape, Subroutine, Goto, Recorded, StartedCall, StartedRecord, DelegationRecord,
            storeVars, govVars
<1> {"call", "stage", "dec", "count", "within", "budgetOk", "auth", "grant", "todo",
     "floor", "charge", "ran"} = Fields
  BY DEF Fields, Blank
<1>1. ASSUME NEW p \in Proposal, Submit(g, p) PROVE Recorded' /\ audit \subseteq audit'
  BY <1>1 DEF Submit, Deny, Return, Blank
<1>2. CASE EvalClaimNonce(g)
  BY <1>2 DEF EvalClaimNonce, ClaimNonce, Deny, Return
<1>3. CASE EvalClaimProposalId(g)
  BY <1>3 DEF EvalClaimProposalId, ClaimProposalId, Deny, Return
<1>4. CASE EvalCountFleet(g)
  BY <1>4 DEF EvalCountFleet, IncrementFleet
<1>5. CASE EvalCountAgent(g)
  BY <1>5 DEF EvalCountAgent, IncrementAgent, Deny, Return
<1>6. CASE EvalReadLive(g)
  BY <1>6 DEF EvalReadLive
<1>7. ASSUME NEW d \in Decisions, EvalGate(g, d) PROVE Recorded' /\ audit \subseteq audit'
  BY <1>7 DEF EvalGate, Deny, Return
<1>8. ASSUME NEW d \in Decisions, EvalQuorum(g, d) PROVE Recorded' /\ audit \subseteq audit'
  BY <1>8 DEF EvalQuorum, AfterQuorum
<1>9. CASE EvalAuditStarted(g)
  BY <1>9 DEF EvalAuditStarted, LogAudit, AfterQuorum
<1>10. CASE EvalResolve(g)
  BY <1>10 DEF EvalResolve
<1>11. CASE EvalConsume(g)
  BY <1>11 DEF EvalConsume, ConsumePermission
<1>12. ASSUME NEW ok \in BOOLEAN, NEW acted \in BOOLEAN, EvalExecute(g, ok, acted) PROVE Recorded' /\ audit \subseteq audit'
  BY <1>12 DEF EvalExecute
<1>13. CASE EvalImpose(g)
  BY <1>13 DEF EvalImpose, Impose
<1>14. CASE EvalAuditCompleted(g)
  BY <1>14 DEF EvalAuditCompleted, LogAudit, Return
<1>15. CASE EvalStoreFails(g)
  BY <1>15 DEF EvalStoreFails, Deny, Return
<1>. QED BY <1>1, <1>2, <1>3, <1>4, <1>5, <1>6, <1>7, <1>8, <1>9, <1>10,
        <1>11, <1>12, <1>13, <1>14, <1>15 DEF EvaluateSteps

(* A delegation reaches its publication through its audit step only.       *)
LEMMA RecordedDelegate ==
    ASSUME Shape, Recorded, NEW g \in Gov, DelegateSteps(g)
    PROVE  Recorded' /\ audit \subseteq audit'
<1> USE DEF Shape, Subroutine, Goto, Recorded, StartedCall, StartedRecord, DelegationRecord,
            storeVars, govVars
<1> {"call", "stage", "dec", "count", "within", "budgetOk", "auth", "grant", "todo",
     "floor", "charge", "ran"} = Fields
  BY DEF Fields, Blank
<1>1. ASSUME NEW d \in Delegation, RegisterDelegation(g, d) PROVE Recorded' /\ audit \subseteq audit'
  BY <1>1 DEF RegisterDelegation, Blank
<1>2. CASE DelegCheck(g)
  BY <1>2 DEF DelegCheck, RefuseDelegation, Return
<1>3. CASE DelegMerge(g)
  BY <1>3 DEF DelegMerge, RefuseDelegation, Return
<1>4. CASE DelegAudit(g)
  BY <1>4 DEF DelegAudit, LogAudit
<1>5. CASE DelegPublish(g)
  BY <1>5 DEF DelegPublish, ReplaceLive, Return
<1>6. CASE DelegStoreFails(g)
  BY <1>6 DEF DelegStoreFails, RefuseDelegation, Return
<1>7. ASSUME NEW a \in Agent, RevokeDelegation(g, a) PROVE Recorded' /\ audit \subseteq audit'
  BY <1>7 DEF RevokeDelegation, ReplaceLive
<1>. QED BY <1>1, <1>2, <1>3, <1>4, <1>5, <1>6, <1>7 DEF DelegateSteps

(* What the boundary executes has its record.                              *)
LEMMA ExecuteKeepsAudited ==
    ASSUME Shape, AuditInv, NEW g \in Gov, NEW ok \in BOOLEAN, NEW acted \in BOOLEAN,
           EvalExecute(g, ok, acted), executed' # executed
    PROVE  ExecutedIsAudited' /\ \E S : executed' \in Seq(S)
<1>1. /\ executed' = Append(executed, Execution(loc[g]))
      /\ pc[g] = "run" /\ audit' = audit
  BY DEF EvalExecute, storeVars
<1>2. Execution(loc[g]).call = loc[g].call
  BY DEF Execution
<1>3. <<loc[g].call, "started">> \in audit
  BY <1>1 DEF AuditInv, Recorded, StartedRecord, StartedCall
<1>4. PICK S : executed \in Seq(S)
  BY DEF AuditInv
<1> HIDE DEF Execution
<1>5. /\ executed' \in Seq(S \cup {Execution(loc[g])})
      /\ DOMAIN executed = 1..Len(executed)
      /\ DOMAIN executed' = 1..(Len(executed) + 1)
      /\ \A i \in 1..Len(executed) : executed'[i] = executed[i]
      /\ executed'[Len(executed) + 1] = Execution(loc[g])
      /\ Len(executed) \in Nat
  BY ONLY <1>1, <1>4, AppendIsSeq
<1>6. \A i \in DOMAIN executed' : i \in DOMAIN executed \/ i = Len(executed) + 1
  BY <1>5
<1>. QED BY <1>1, <1>2, <1>3, <1>5, <1>6 DEF AuditInv, ExecutedIsAudited

(* Every step keeps the records of what is under way and of what was done. *)
LEMMA AuditStep == Shape /\ AuditInv /\ [Next]_vars => AuditInv'
<1> SUFFICES ASSUME Shape, AuditInv, [Next]_vars PROVE AuditInv'
  OBVIOUS
<1>1. ASSUME executed' = executed, audit \subseteq audit', Recorded' PROVE AuditInv'
  BY <1>1 DEF AuditInv, ExecutedIsAudited
<1>2. CASE UNCHANGED vars
  BY <1>1, <1>2 DEF vars, storeVars, govVars, AuditInv, Recorded, StartedRecord,
                    DelegationRecord, StartedCall
<1>3. ASSUME NEW i \in DOMAIN restrictions, ClockPasses(i) PROVE AuditInv'
  BY <1>1, <1>3 DEF ClockPasses, govVars, AuditInv, Recorded, StartedRecord,
                    DelegationRecord, StartedCall
<1>4. ASSUME NEW g \in Gov, GovernorSteps(g) \/ BootFails(g) PROVE AuditInv'
  BY <1>1, <1>4, QuietGovernor, RecordedGovernor DEF Quiet, AuditInv
<1>5. ASSUME NEW g \in Gov, DelegateSteps(g) PROVE AuditInv'
  BY <1>1, <1>5, QuietDelegate, RecordedDelegate DEF Quiet, AuditInv
<1>6. ASSUME NEW g \in Gov, EvaluateSteps(g) PROVE AuditInv'
  <2>1. Recorded' /\ audit \subseteq audit'
    BY <1>6, RecordedEvaluate DEF AuditInv
  <2>2. CASE executed' # executed
    BY <1>6, <2>1, <2>2, OnlyExecuteExecutes, ExecuteKeepsAudited DEF AuditInv
  <2>. QED BY <1>1, <2>1, <2>2
<1>. QED BY <1>2, <1>3, <1>4, <1>5, <1>6 DEF Next, GovernorNext

(* Nothing is under way at first. *)
LEMMA AuditInit == Init => AuditInv
<1> SUFFICES ASSUME Init PROVE AuditInv
  OBVIOUS
<1>1. executed = <<>> /\ \A g \in Gov : pc[g] = "down"
  BY DEF Init, GovInit
<1>2. executed \in Seq({}) /\ DOMAIN executed = {}
  BY <1>1
<1>. QED BY <1>1, <1>2 DEF AuditInv, Recorded, StartedRecord, DelegationRecord, StartedCall,
                        Subroutine, ExecutedIsAudited

(* (14): whatever fails or crashes, nothing reaches the outside world      *)
(* without a durable record that it has started.                           *)
THEOREM RecordedBeforeExecuted == Spec => []ExecutedIsAudited
<1>1. Init => Shape /\ AuditInv
  BY ShapeInit, AuditInit
<1>2. Shape /\ AuditInv /\ [Next]_vars => (Shape /\ AuditInv)'
  BY ShapeStep, AuditStep
<1>3. AuditInv => ExecutedIsAudited
  BY DEF AuditInv
<1>. QED BY <1>1, <1>2, <1>3, PTL DEF Spec

(* register_delegation: no authority is published before its record.       *)
THEOREM RecordedBeforePublished == Spec => PublishedIsAudited
<1>1. Init => Shape /\ AuditInv
  BY ShapeInit, AuditInit
<1>2. Shape /\ AuditInv /\ [Next]_vars => (Shape /\ AuditInv)'
  BY ShapeStep, AuditStep
<1>3. AuditInv => [\A g \in Gov :
          pc[g] = "publish" /\ live' # live /\ pc'[g] # pc[g]
          => <<loc[g].call, "delegation">> \in audit]_vars
  BY DEF AuditInv, Recorded, DelegationRecord
<1>. QED BY <1>1, <1>2, <1>3, PTL DEF Spec, PublishedIsAudited
==============================================================================
