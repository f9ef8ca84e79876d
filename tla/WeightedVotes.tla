------------------------------ MODULE WeightedVotes -----------------------------
(* quorum.QuorumAggregator: how the weighted votes of several governors make *)
(* one decision.                                                             *)
EXTENDS Integers, FiniteSetsExt

CONSTANTS
    Num, Den,                \* the threshold, as a fraction
    HumanOnDisagreement      \* require_human_on_disagreement

ASSUME ThresholdAssumption ==
    Num \in Nat /\ Den \in Nat /\ 0 < Num /\ Num <= Den
ASSUME DisagreementAssumption == HumanOnDisagreement \in BOOLEAN

Decision == {"CONTINUE", "RESTRICT", "RECHECK", "HUMAN"}

(* The votes: what each governor decides, and its weight (positive). *)
Weights(votes) ==
    [d \in Decision |->
        MapThenSumSet(LAMBDA v : v.weight, {v \in votes : v.decision = d})]

Total(w) == w["CONTINUE"] + w["RESTRICT"] + w["RECHECK"] + w["HUMAN"]
MeetsThreshold(w, d) == Num * Total(w) <= Den * w[d]

(* HUMAN dominates; one voice is followed; a leaning towards CONTINUE is   *)
(* enough only where disagreement is tolerated; a cautious decision that   *)
(* clears the threshold is taken, RESTRICT first.                          *)
Outcome(w) ==
    IF w["HUMAN"] > 0 THEN "HUMAN"
    ELSE IF \E d \in Decision : w[d] = Total(w)
    THEN CHOOSE d \in Decision : w[d] = Total(w)
    ELSE IF MeetsThreshold(w, "CONTINUE")
    THEN IF HumanOnDisagreement THEN "HUMAN" ELSE "CONTINUE"
    ELSE IF MeetsThreshold(w, "RESTRICT") THEN "RESTRICT"
    ELSE IF MeetsThreshold(w, "RECHECK") THEN "RECHECK"
    ELSE "HUMAN"

Aggregate(votes) == IF votes = {} THEN "HUMAN" ELSE Outcome(Weights(votes))
==============================================================================
