-------------------------- MODULE RollbackCheckpoint --------------------------
(***************************************************************************)
(* Rollback detection of persistence.SQLiteStore: the database file keeps  *)
(* a sequence number, an external RollbackCheckpoint a high-water mark.    *)
(* advance_checkpoint bumps the first, commits, and then pushes the second *)
(* outside of the store's lock; opening a store compares the two.  The     *)
(* callers of one process share its store and that lock, which no other    *)
(* process takes part in.                                                  *)
(***************************************************************************)
EXTENDS Naturals, FiniteSets

CONSTANTS Proc,      \* the processes that open the database file
          Caller,    \* threads that call advance_checkpoint
          Host,      \* Caller -> Proc
          MaxSeq     \* bound: no advance_checkpoint beyond it

ASSUME HostAssumption == Host \in [Caller -> Proc]

VARIABLES
    seq,        \* rollback_checkpoint_state.seq, in the file
    external,   \* the RollbackCheckpoint's value
    up,         \* how far each process is with its SQLiteStore
    local,      \* local_seq of _check_rollback_checkpoint
    call,       \* how far each caller is with advance_checkpoint ("orphan":
                \* it pushes for a store that has been closed meanwhile)
    newSeq,     \* its new_seq
    backups,    \* sequence numbers of the copies taken of the file
    high,       \* the highest seq ever committed (ghost)
    restored,   \* the file is a copy older than that (ghost)
    acked       \* the highest value advance_checkpoint returned, on a store
                \* that was still open (ghost)

vars == <<seq, external, up, local, call, newSeq, backups, high, restored, acked>>
fileVars == <<seq, backups, high, restored>>

Larger(m, n) == IF m >= n THEN m ELSE n

Init ==
    /\ seq = 0 /\ external = 0 /\ high = 0 /\ acked = 0
    /\ up = [p \in Proc |-> "closed"] /\ local = [p \in Proc |-> 0]
    /\ call = [c \in Caller |-> "idle"] /\ newSeq = [c \in Caller |-> 0]
    /\ backups = {} /\ restored = FALSE

(* Seeded faults: an older file is let in; any difference is refused;      *)
(* nothing is healed.                                                      *)
OpenCompareTolerant(p) ==
    /\ up[p] = "opening"
    /\ up' = [up EXCEPT ![p] = IF local[p] > external THEN "heal" ELSE "open"]
    /\ UNCHANGED <<fileVars, external, local, call, newSeq, acked>>

OpenCompareStrict(p) ==
    /\ up[p] = "opening"
    /\ up' = [up EXCEPT ![p] = IF local[p] = external THEN "open" ELSE "refused"]
    /\ UNCHANGED <<fileVars, external, local, call, newSeq, acked>>

OpenCompareUnhealed(p) ==
    /\ up[p] = "opening"
    /\ up' = [up EXCEPT ![p] = IF local[p] < external THEN "refused" ELSE "open"]
    /\ UNCHANGED <<fileVars, external, local, call, newSeq, acked>>

(* __init__ runs _check_rollback_checkpoint: it reads the file,            *)
OpenRead(p) ==
    /\ up[p] \in {"closed", "refused"}
    /\ up' = [up EXCEPT ![p] = "opening"]
    /\ local' = [local EXCEPT ![p] = seq]
    /\ UNCHANGED <<fileVars, external, call, newSeq, acked>>

(* then the checkpoint, and compares;                                      *)
OpenCompare(p) ==
    /\ up[p] = "opening"
    /\ \/ local[p] < external /\ up' = [up EXCEPT ![p] = "refused"]
       \/ local[p] = external /\ up' = [up EXCEPT ![p] = "open"]
       \/ local[p] > external /\ up' = [up EXCEPT ![p] = "heal"]
    /\ UNCHANGED <<fileVars, external, local, call, newSeq, acked>>

(* a file ahead of the checkpoint heals it, which the checkpoint refuses   *)
(* when somebody has meanwhile moved it further.                           *)
OpenHeal(p) ==
    /\ up[p] = "heal"
    /\ IF local[p] < external
       THEN up' = [up EXCEPT ![p] = "closed"] /\ UNCHANGED external
       ELSE up' = [up EXCEPT ![p] = "open"] /\ external' = local[p]
    /\ UNCHANGED <<fileVars, local, call, newSeq, acked>>

(* close() waits for the lock, not for a caller that pushes.               *)
LockFree(p) == \A c \in Caller : Host[c] = p => call[c] # "bump"

Close(p) ==
    /\ up[p] = "open" /\ LockFree(p)
    /\ up' = [up EXCEPT ![p] = "closed"]
    /\ call' = [c \in Caller |-> IF Host[c] = p /\ call[c] = "push" THEN "orphan" ELSE call[c]]
    /\ UNCHANGED <<fileVars, external, local, newSeq, acked>>

(* The process dies at any moment, and its threads with it. *)
Crash(p) ==
    /\ up[p] # "closed" \/ \E c \in Caller : Host[c] = p /\ call[c] # "idle"
    /\ up' = [up EXCEPT ![p] = "closed"]
    /\ call' = [c \in Caller |-> IF Host[c] = p THEN "idle" ELSE call[c]]
    /\ UNCHANGED <<fileVars, external, local, newSeq, acked>>
------------------------------------------------------------------------------
(* advance_checkpoint: SELECT seq, outside of any transaction but under    *)
(* the lock of the process,                                                *)
SelectSeq(c) ==
    /\ up[Host[c]] = "open" /\ call[c] = "idle" /\ LockFree(Host[c])
    /\ seq < MaxSeq
    /\ newSeq' = [newSeq EXCEPT ![c] = seq + 1]
    /\ call' = [call EXCEPT ![c] = "bump"]
    /\ UNCHANGED <<fileVars, external, up, local, acked>>

(* UPSERT and commit, which releases the lock,                             *)
BumpSeq(c) ==
    /\ call[c] = "bump"
    /\ seq' = newSeq[c]
    /\ high' = Larger(high, newSeq[c])
    /\ call' = [call EXCEPT ![c] = "push"]
    /\ UNCHANGED <<external, up, local, newSeq, backups, restored, acked>>

(* and the push, which the checkpoint refuses when it would move back.     *)
PushSeq(c) ==
    /\ call[c] \in {"push", "orphan"}
    /\ IF newSeq[c] < external
       THEN UNCHANGED <<external, acked>>
       ELSE /\ external' = newSeq[c]
            /\ acked' = IF call[c] = "push" THEN Larger(acked, newSeq[c]) ELSE acked
    /\ call' = [call EXCEPT ![c] = "idle"]
    /\ UNCHANGED <<fileVars, up, local, newSeq>>

(* The UPSERT or the push raises: nothing is written.                      *)
AdvanceFails(c) ==
    /\ call[c] \in {"bump", "push", "orphan"}
    /\ call' = [call EXCEPT ![c] = "idle"]
    /\ UNCHANGED <<fileVars, external, up, local, newSeq, acked>>
------------------------------------------------------------------------------
(* Operators copy the file at any time, and put a copy back while no       *)
(* process has it open.                                                    *)
Backup ==
    /\ backups' = backups \cup {seq}
    /\ UNCHANGED <<seq, high, restored, external, up, local, call, newSeq, acked>>

Restore(b) ==
    /\ \A p \in Proc : up[p] \in {"closed", "refused"}
    /\ b \in backups
    /\ seq' = b
    /\ restored' = (b < high)
    /\ UNCHANGED <<backups, high, external, up, local, call, newSeq, acked>>

Next ==
    \/ \E p \in Proc : OpenRead(p) \/ OpenCompare(p) \/ OpenHeal(p) \/ Close(p) \/ Crash(p)
    \/ \E c \in Caller : SelectSeq(c) \/ BumpSeq(c) \/ PushSeq(c) \/ AdvanceFails(c)
    \/ Backup \/ \E b \in backups : Restore(b)

Spec == Init /\ [][Next]_vars
------------------------------------------------------------------------------
TypeOK ==
    /\ seq \in Nat /\ external \in Nat /\ high \in Nat /\ acked \in Nat
    /\ up \in [Proc -> {"closed", "opening", "heal", "open", "refused"}]
    /\ local \in [Proc -> Nat]
    /\ call \in [Caller -> {"idle", "bump", "push", "orphan"}]
    /\ newSeq \in [Caller -> Nat]
    /\ backups \subseteq Nat /\ restored \in BOOLEAN

(* A store never serves a file older than a state whose advance_checkpoint *)
(* call has returned on an open store: restoring an earlier backup is      *)
(* refused, whatever crashes, failed pushes and pushes that come after     *)
(* close() lie in between.  It says nothing of bumps nobody was told of.   *)
NeverServesOlder == \A p \in Proc : up[p] = "open" => seq >= acked

(* RollbackDetectedError means what its docstring says: the file was       *)
(* replaced by an earlier copy.  A crash between the commit and the push   *)
(* never looks like one.                                                   *)
RefusedOnlyAfterRestore ==
    [][\A p \in Proc : up[p] # "refused" /\ up'[p] = "refused" => restored]_vars

(* Self-healing: a store that opens leaves the checkpoint no further       *)
(* behind than the file, so that no committed bump stays unprotected.      *)
HealedAtOpen ==
    [][\A p \in Proc : up[p] # "open" /\ up'[p] = "open" => external' >= seq]_vars

(* The comment on the table: advance_checkpoint bumps seq "always upward"; *)
(* while a store is open nobody else writes it.                            *)
SeqOnlyUpward ==
    [][(\E p \in Proc : up[p] = "open") /\ seq' # seq => seq' > seq]_vars
==============================================================================
