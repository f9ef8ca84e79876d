----------------------------- MODULE BudgetAccount -----------------------------
(***************************************************************************)
(* What a metered budget promises a deployment, whatever its processes do: *)
(* units are numbered and enter an account only with a new grant; one      *)
(* leaves it, into the hands of the spender that took it, before the       *)
(* action it pays for; it pays for one action or is lost, and none comes   *)
(* back.                                                                   *)
(***************************************************************************)
EXTENDS Integers, Sequences

CONSTANTS Owner, Spender

VARIABLES accounts,  \* of each owner: what is left of each grant
          grants,    \* how often an account was written
          held,      \* the unit each spender has taken and not used, if any
          paid       \* what each action was paid with, nothing if unmetered

accountVars == <<accounts, grants, held, paid>>

Init ==
    /\ accounts = [o \in Owner |-> {}] /\ grants = 0
    /\ held = [s \in Spender |-> {}] /\ paid = <<>>

Unit(o, a) == [owner |-> o, key |-> a.key, grant |-> a.grant, max |-> a.max, number |-> a.left]

(* A grant replaces all of one account by full ones, one for each key. *)
Grant(o) ==
    /\ grants' = grants + 1
    /\ accounts' = [accounts EXCEPT ![o] = accounts'[o]]
    /\ \A a \in accounts'[o] : a.grant = grants + 1 /\ a.max \in Nat /\ a.left = a.max
    /\ \A a, b \in accounts'[o] : a.key = b.key => a = b
    /\ UNCHANGED <<held, paid>>

Take(s, o) ==
    /\ held[s] = {}
    /\ \E a \in accounts[o] :
          /\ a.left >= 1
          /\ accounts' = [accounts EXCEPT ![o] = (@ \ {a}) \cup {[a EXCEPT !.left = @ - 1]}]
          /\ held' = [held EXCEPT ![s] = {Unit(o, a)}]
    /\ UNCHANGED <<grants, paid>>

Pay(s) ==
    /\ paid' = Append(paid, held[s])
    /\ held' = [held EXCEPT ![s] = {}]
    /\ UNCHANGED <<accounts, grants>>

Lose(s) ==
    /\ held' = [held EXCEPT ![s] = {}]
    /\ UNCHANGED <<accounts, grants, paid>>

Next ==
    \/ \E o \in Owner : Grant(o) \/ \E s \in Spender : Take(s, o)
    \/ \E s \in Spender : Pay(s) \/ Lose(s)

Spec == Init /\ [][Next]_accountVars
================================================================================
