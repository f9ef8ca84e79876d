------------------------------ MODULE Authority ------------------------------
(***************************************************************************)
(* The value types of src/chainmail/core.py that carry authority:          *)
(* Permission (name, scope, budget ceiling) and Authority (a set of        *)
(* permissions with the budget left of the metered ones).  Every operator  *)
(* is the pure result of the method it is named after; the modules that    *)
(* hold authority in their state apply them.                               *)
(***************************************************************************)
EXTENDS Integers, FiniteSets

CONSTANTS Name,       \* permission names
          Scope,      \* the concrete scopes
          Wild,       \* the scope "*"
          Unlimited   \* max_budget = None

ASSUME WildAssumption == Wild \notin Scope
ASSUME UnlimitedAssumption == Unlimited \notin Int

Scopes == Scope \cup {Wild}
Budget == Nat \cup {Unlimited}
Permission == [name : Name, scope : Scopes, max : Budget]
Keys == Name \X Scopes

(* a is a budget ceiling no larger than b; None is above every number. *)
WithinBudget(a, b) == b = Unlimited \/ (a \in Nat /\ b \in Nat /\ a <= b)

Key(p) == <<p.name, p.scope>>

Covers(p, q) == p.name = q.name /\ (p.scope = Wild \/ p.scope = q.scope)

(* An Authority: rem is the dict budget_remaining, defined on some keys. *)
IsAuthority(a) ==
    /\ a.perms \subseteq Permission
    /\ DOMAIN a.rem \subseteq Keys
    /\ \A k \in DOMAIN a.rem : a.rem[k] \in Nat

NoAuthority == [perms |-> {}, rem |-> [k \in {} |-> 0]]

Can(a, q) == \E p \in a.perms : Covers(p, q)

(* The sort key of _match: bounded before unbounded, then the smaller      *)
(* ceiling, then the scope, where the wildcard "*" comes first.            *)
MoreRestrictive(p, q) ==
    \/ p.max # Unlimited /\ q.max = Unlimited
    \/ p.max # Unlimited /\ q.max # Unlimited /\ p.max < q.max
    \/ p.max = q.max /\ (p.scope = Wild \/ p.scope = q.scope)

Candidates(a, q) == {p \in a.perms : Covers(p, q)}

(* _match, where it finds a candidate (every caller tests Can first). *)
Match(a, q) ==
    CHOOSE p \in Candidates(a, q) :
        \A o \in Candidates(a, q) : MoreRestrictive(p, o)

(* budget_remaining.get(key, default) *)
Left(a, k, default) == IF k \in DOMAIN a.rem THEN a.rem[k] ELSE default

Least(m, n) == IF m <= n THEN m ELSE n

HasBudget(a, q) ==
    /\ Can(a, q)
    /\ LET p == Match(a, q)
       IN  p.max = Unlimited \/ Left(a, Key(p), p.max) > 0

(* What p can still be used for: never more than its own ceiling. *)
Claimed(a, p) == Least(Left(a, Key(p), p.max), p.max)

Contained(a, p, b) ==
    /\ Can(b, p)
    /\ LET m == Match(b, p)
       IN  \/ m.max = Unlimited
           \/ /\ p.max # Unlimited
              /\ p.max <= m.max
              /\ Claimed(a, p) <= Left(b, Key(m), m.max)

IsSubsetOf(a, b) == \A p \in a.perms : Contained(a, p, b)

(* The permissions reduce_to keeps and what each is left with.  An         *)
(* authority built from the table's rows has at most one with a key.       *)
ReduceTo(a, allowed) ==
    LET kept    == {p \in a.perms : \E s \in allowed : Covers(s, p)}
        metered == {p \in kept : Key(p) \in DOMAIN a.rem \/ p.max # Unlimited}
    IN  [perms |-> kept,
         rem   |-> [k \in {Key(p) : p \in metered} |->
                       Left(a, k, (CHOOSE p \in metered : Key(p) = k).max)]]

CappedBudget(p, c) ==
    IF p.max = Unlimited THEN c.max
    ELSE IF c.max = Unlimited THEN p.max ELSE Least(p.max, c.max)

Capped(p, ceiling) == [p EXCEPT !.max = CappedBudget(p, Match(ceiling, p))]

Unclamped(a, ceiling) == a        \* seeded fault: the clamp is left out

(* clamp_to_ceiling: only what the ceiling covers, with budget and         *)
(* remaining count cut to the ceiling's own.                               *)
ClampToCeiling(a, ceiling) ==
    LET kept    == {p \in a.perms : Can(ceiling, p)}
        clamped == {Capped(p, ceiling) : p \in kept}
        metered == {p \in clamped : p.max # Unlimited}
    IN  [perms |-> clamped,
         rem   |-> [k \in {Key(p) : p \in metered} |->
                       LET m == (CHOOSE p \in metered : Key(p) = k).max
                       IN  Least(Left(a, k, m), m)]]

(* The merge branch of register_delegation; a collision is refused first.  *)
KeysOf(a) == {Key(p) : p \in a.perms}
Merge(a, b) ==
    [perms |-> a.perms \cup b.perms,
     rem   |-> [k \in DOMAIN a.rem \cup DOMAIN b.rem |->
                   IF k \in DOMAIN b.rem THEN b.rem[k] ELSE a.rem[k]]]

(* _effective_authority: take away every permission that covers a          *)
(* restricted one, then reduce_to what is left.                            *)
UnrestrictedExact(a, active) ==   \* seeded fault: keys compared, not covered
    {p \in a.perms : ~ \E r \in active : p.name = r.name /\ p.scope = r.scope}

Unrestricted(a, active) == {p \in a.perms : ~ \E r \in active : Covers(p, r)}
EffectiveAuthority(a, active) ==
    IF active = {} THEN a ELSE ReduceTo(a, Unrestricted(a, active))
==============================================================================
