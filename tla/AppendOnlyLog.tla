---------------------------- MODULE AppendOnlyLog ----------------------------
(* What an audit log promises its readers: records are added one at a time *)
(* at the end, and what was once recorded is neither changed nor lost.     *)
EXTENDS Naturals, Sequences

CONSTANT Record

VARIABLE log

Init == log = <<>>

AppendOne(r) == log' = Append(log, r)

Next == \E r \in Record : AppendOne(r)

Spec == Init /\ [][Next]_log
==============================================================================
