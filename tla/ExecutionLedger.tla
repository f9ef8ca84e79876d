---------------------------- MODULE ExecutionLedger ----------------------------
(***************************************************************************)
(* What replay protection promises a deployment, whatever its processes    *)
(* do: an identifier is claimed before it is executed and is executed at   *)
(* most once, in one history that survives every process.                  *)
(***************************************************************************)
EXTENDS Naturals, Sequences

CONSTANT Id

VARIABLES claimed,   \* identifiers used up
          done       \* the identifiers executed, in order

Init == claimed = {} /\ done = <<>>

Claim(k) == k \notin claimed /\ claimed' = claimed \cup {k} /\ UNCHANGED done

Execute(k) ==
    /\ k \in claimed
    /\ \A i \in DOMAIN done : done[i] # k
    /\ done' = Append(done, k)
    /\ UNCHANGED claimed

Next == \E k \in Id : Claim(k) \/ Execute(k)

Spec == Init /\ [][Next]_<<claimed, done>>
================================================================================
