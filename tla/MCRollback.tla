------------------------------ MODULE MCRollback ------------------------------
(* One process with two threads, and two processes with one thread each. *)
EXTENDS RollbackCheckpoint

CONSTANTS p1, p2, t1, t2

OneProcess == {p1}
TwoProcesses == {p1, p2}
Threads == {t1, t2}
SameHost == [c \in Threads |-> p1]
OwnHost == [c \in Threads |-> IF c = t1 THEN p1 ELSE p2]
==============================================================================
