---------------------------- MODULE RollbackProofs ----------------------------
(***************************************************************************)
(* Rollback detection is correct, for any number of threads, advances,     *)
(* crashes and restored copies, as long as one process owns the database   *)
(* file.  (With two, MCRollback's other runs show what goes wrong.)        *)
(***************************************************************************)
EXTENDS RollbackCheckpoint, TLAPS

OneOwner == \A p, q \in Proc : p = q

(* The checkpoint lies between what was acknowledged and what was ever     *)
(* committed; the file is behind the latter only after a restore.          *)
Marks ==
    /\ acked <= external /\ external <= high /\ seq <= high
    /\ \A b \in backups : b <= high
    /\ ~ restored => seq = high

(* A store that is being opened has read the file as it is; an open one    *)
(* holds a file that is not behind what was acknowledged.  (It may be      *)
(* behind the checkpoint: a call on a store that was closed pushes late.)  *)
Opened ==
    \A p \in Proc :
        /\ up[p] \in {"opening", "heal"} => local[p] = seq
        /\ up[p] = "open" => acked <= seq

(* What the lock gives the callers of an open store; what a call pushes    *)
(* was committed.                                                          *)
Advancing ==
    \A c \in Caller :
        /\ call[c] \in {"bump", "push"} => up[Host[c]] = "open"
        /\ call[c] = "bump" => newSeq[c] = seq + 1
        /\ call[c] = "push" => newSeq[c] <= seq
        /\ call[c] \in {"push", "orphan"} => newSeq[c] <= high
        /\ \A d \in Caller : call[c] = "bump" /\ call[d] = "bump" => c = d

IInv == TypeOK /\ Marks /\ Opened /\ Advancing

(* The initial state: nothing has been committed.                          *)
LEMMA IInvInit == Init => IInv
<1> SUFFICES ASSUME Init PROVE IInv
    OBVIOUS
<1> USE HostAssumption DEF Init
<1>1. TypeOK
      BY DEF TypeOK
<1>2. Marks
      BY DEF Marks
<1>3. Opened
      BY DEF Opened
<1>4. Advancing
      BY DEF Advancing
<1> QED BY <1>1, <1>2, <1>3, <1>4 DEF IInv

(* Opening and stopping a store preserves the invariant.                   *)
LEMMA ProcessKeeps ==
    ASSUME IInv, NEW p \in Proc, OneOwner,
           OpenRead(p) \/ OpenCompare(p) \/ OpenHeal(p) \/ Close(p) \/ Crash(p)
    PROVE  IInv'
<1> USE HostAssumption DEF IInv, TypeOK, Marks, Opened, Advancing, OneOwner, fileVars
<1>1. CASE OpenRead(p)
      BY <1>1 DEF OpenRead
<1>2. CASE OpenCompare(p)
      <2>1. up' \in [Proc -> {"closed", "opening", "heal", "open", "refused"}]
            BY <1>2 DEF OpenCompare
      <2>2. up'[p] = "open" => acked <= seq
            BY <1>2 DEF OpenCompare
      <2>3. \A c \in Caller : call[c] \notin {"bump", "push"}
            BY <1>2 DEF OpenCompare
      <2>4. up'[p] # "opening"
            BY <1>2 DEF OpenCompare
      <2> QED BY <1>2, <2>1, <2>2, <2>3, <2>4 DEF OpenCompare
<1>3. CASE OpenHeal(p)
      BY <1>3 DEF OpenHeal
<1>4. CASE Close(p)
      BY <1>4 DEF Close, LockFree
<1>5. CASE Crash(p)
      BY <1>5 DEF Crash
<1> QED BY <1>1, <1>2, <1>3, <1>4, <1>5

(* So does every step of advance_checkpoint.                               *)
LEMMA CallerKeeps ==
    ASSUME IInv, NEW c \in Caller, OneOwner,
           SelectSeq(c) \/ BumpSeq(c) \/ PushSeq(c) \/ AdvanceFails(c)
    PROVE  IInv'
<1> USE HostAssumption DEF IInv, TypeOK, Marks, Opened, Advancing, OneOwner, fileVars
<1>1. CASE SelectSeq(c)
      BY <1>1 DEF SelectSeq, LockFree
<1>2. CASE BumpSeq(c)
      <2>1. seq' = seq + 1 /\ \A p \in Proc : up[p] = "open"
            BY <1>2 DEF BumpSeq
      <2>2. TypeOK' /\ Marks'
            BY <1>2, <2>1 DEF BumpSeq, Larger
      <2>3. Opened'
            BY <1>2, <2>1 DEF BumpSeq
      <2>4. Advancing'
            BY <1>2, <2>1 DEF BumpSeq, Larger
      <2> QED BY <2>2, <2>3, <2>4
<1>3. CASE PushSeq(c)
      BY <1>3 DEF PushSeq, Larger
<1>4. CASE AdvanceFails(c)
      BY <1>4 DEF AdvanceFails
<1> QED BY <1>1, <1>2, <1>3, <1>4

(* And what operators do to the file while no store is open.               *)
LEMMA OperatorKeeps ==
    ASSUME IInv, Backup \/ \E b \in backups : Restore(b)
    PROVE  IInv'
<1> USE HostAssumption DEF IInv, TypeOK, Marks, Opened, Advancing
<1>1. CASE Backup
      BY <1>1 DEF Backup
<1>2. ASSUME NEW b \in backups, Restore(b) PROVE IInv'
      <2>1. \A c \in Caller : call[c] \notin {"bump", "push"}
            BY <1>2 DEF Restore
      <2>2. CASE b < high
            BY <1>2, <2>1, <2>2 DEF Restore
      <2>3. CASE ~ (b < high)
            BY <1>2, <2>1, <2>3 DEF Restore
      <2> QED BY <2>2, <2>3
<1> QED BY <1>1, <1>2

(* The invariant is inductive.                                             *)
LEMMA IInvStep == ASSUME IInv, OneOwner, [Next]_vars PROVE IInv'
<1>1. CASE UNCHANGED vars
      BY <1>1 DEF vars, IInv, TypeOK, Marks, Opened, Advancing
<1>2. CASE Next
      BY <1>2, ProcessKeeps, CallerKeeps, OperatorKeeps DEF Next
<1> QED BY <1>1, <1>2

(* What the invariant says of a single step.                               *)
StepSafe ==
    /\ \A p \in Proc : up[p] # "refused" /\ up'[p] = "refused" => restored
    /\ \A p \in Proc : up[p] # "open" /\ up'[p] = "open" => external' >= seq
    /\ (\E p \in Proc : up[p] = "open") /\ seq' # seq => seq' > seq

(* Only OpenCompare refuses, only it and OpenHeal open, and only BumpSeq   *)
(* and Restore write the file.                                             *)
LEMMA StepIsSafe == ASSUME IInv, OneOwner, Next PROVE StepSafe
<1> USE HostAssumption DEF IInv, TypeOK, Marks, Opened, Advancing, OneOwner, StepSafe, fileVars
<1>1. ASSUME NEW p \in Proc, OpenRead(p) PROVE StepSafe
      BY <1>1 DEF OpenRead
<1>2. ASSUME NEW p \in Proc, OpenCompare(p) PROVE StepSafe
      <2>1. up'[p] = "refused" => restored
            BY <1>2 DEF OpenCompare
      <2>2. up'[p] = "open" => external' >= seq
            BY <1>2 DEF OpenCompare
      <2> QED BY <1>2, <2>1, <2>2 DEF OpenCompare
<1>3. ASSUME NEW p \in Proc, OpenHeal(p) PROVE StepSafe
      BY <1>3 DEF OpenHeal
<1>4. ASSUME NEW p \in Proc, Close(p) \/ Crash(p) PROVE StepSafe
      BY <1>4 DEF Close, Crash
<1>5. ASSUME NEW c \in Caller, SelectSeq(c) PROVE StepSafe
      BY <1>5 DEF SelectSeq
<1>6. ASSUME NEW c \in Caller, BumpSeq(c) PROVE StepSafe
      BY <1>6 DEF BumpSeq
<1>7. ASSUME NEW c \in Caller, PushSeq(c) PROVE StepSafe
      BY <1>7 DEF PushSeq
<1>8. ASSUME NEW c \in Caller, AdvanceFails(c) PROVE StepSafe
      BY <1>8 DEF AdvanceFails
<1>9. CASE Backup
      BY <1>9 DEF Backup
<1>10. ASSUME NEW b \in backups, Restore(b) PROVE StepSafe
      BY <1>10 DEF Restore
<1> QED BY <1>1, <1>2, <1>3, <1>4, <1>5, <1>6, <1>7, <1>8, <1>9, <1>10 DEF Next

(* With one owner, an open store is never older than an acknowledged       *)
(* checkpoint: a restored earlier backup is refused.                       *)
THEOREM RollbackDetected == OneOwner /\ Spec => []NeverServesOlder
<1>1. ASSUME OneOwner PROVE Spec => []NeverServesOlder
      <2>1. IInv /\ [Next]_vars => IInv'
            BY <1>1, IInvStep
      <2>2. IInv => NeverServesOlder
            BY DEF IInv, TypeOK, Marks, Opened, NeverServesOlder
      <2> QED BY IInvInit, <2>1, <2>2, PTL DEF Spec
<1> QED BY <1>1

(* With one owner, no sequence of crashes, failed pushes and restarts is   *)
(* mistaken for a rollback.                                                *)
THEOREM NoFalseAlarm == OneOwner /\ Spec => RefusedOnlyAfterRestore
<1>1. ASSUME OneOwner PROVE Spec => RefusedOnlyAfterRestore
      <2>1. IInv /\ [Next]_vars => IInv'
            BY <1>1, IInvStep
      <2>2. IInv /\ [Next]_vars =>
                [\A p \in Proc : up[p] # "refused" /\ up'[p] = "refused" => restored]_vars
            BY <1>1, StepIsSafe DEF StepSafe
      <2> QED BY IInvInit, <2>1, <2>2, PTL DEF Spec, RefusedOnlyAfterRestore
<1> QED BY <1>1

(* With one owner, opening leaves no committed bump unprotected.           *)
THEOREM OpeningHeals == OneOwner /\ Spec => HealedAtOpen
<1>1. ASSUME OneOwner PROVE Spec => HealedAtOpen
      <2>1. IInv /\ [Next]_vars => IInv'
            BY <1>1, IInvStep
      <2>2. IInv /\ [Next]_vars =>
                [\A p \in Proc : up[p] # "open" /\ up'[p] = "open" => external' >= seq]_vars
            BY <1>1, StepIsSafe DEF StepSafe
      <2> QED BY IInvInit, <2>1, <2>2, PTL DEF Spec, HealedAtOpen
<1> QED BY <1>1

(* With one owner, all variables keep their types; the invariant proved   *)
(* above contains them.                                                    *)
THEOREM CheckpointTypes == OneOwner /\ Spec => []TypeOK
<1>1. ASSUME OneOwner PROVE Spec => []TypeOK
      <2>1. IInv /\ [Next]_vars => IInv'
            BY <1>1, IInvStep
      <2>2. IInv => TypeOK
            BY DEF IInv
      <2> QED BY IInvInit, <2>1, <2>2, PTL DEF Spec
<1> QED BY <1>1
===============================================================================
