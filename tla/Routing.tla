------------------------------ MODULE Routing -------------------------------
(***************************************************************************)
(* How a finding is routed to a fix strategy (routing/fix_matrix.py) and,   *)
(* on the manual lane, to a model (llm/model_router.py).  Pure resolution:  *)
(* a matrix is a sequence of rules, and each rule names the values that     *)
(* some of a finding's dimensions must have.                                *)
(***************************************************************************)
EXTENDS Naturals, Sequences, Functions

Constraints == {"tool", "complexity"}
Dimensions  == Constraints \cup {"rule_id", "tag", "category"}

(* A rule: what it matches, "*" for anything, and the strategy it gives.   *)
(* A finding: its values, and a set of tags.                               *)
Names(rule, d) == d \in DOMAIN rule.match

Meets(rule, finding, d) ==
    IF d = "tag" THEN rule.match.tag \in finding.tags
                 ELSE rule.match[d] = finding[d]

Weight(rule, d, w) == IF Names(rule, d) THEN w ELSE 0

Mutant_Score(rule) ==
    IF Names(rule, "*") THEN 1
    ELSE Weight(rule, "tool", 2) + Weight(rule, "complexity", 5)
         + Weight(rule, "rule_id", 100) + Weight(rule, "tag", 10)
         + Weight(rule, "category", 5)

(* _match_score of a rule that matches; a wildcard looks at nothing else.  *)
Score(rule) ==
    IF Names(rule, "*") THEN 1
    ELSE Weight(rule, "tool", 2) + Weight(rule, "complexity", 2)
         + Weight(rule, "rule_id", 100) + Weight(rule, "tag", 10)
         + Weight(rule, "category", 5)

Matches(rule, finding) ==
    /\ Score(rule) > 0
    /\ ~Names(rule, "*") =>
          \A d \in Dimensions : Names(rule, d) => Meets(rule, finding, d)

MatchedBy(rule) ==
    IF Names(rule, "rule_id") THEN "rule_id"
    ELSE IF Names(rule, "tag") THEN "tag"
    ELSE IF Names(rule, "category") THEN "category"
    ELSE IF Names(rule, "*") THEN "wildcard"
    ELSE "constraint"

ProposeOnly == [kind |-> "propose_only", tier |-> "none", depth |-> "none",
                matched_by |-> "no_match", rule |-> 0]

(* The first of the matching rules with the highest score.                 *)
Resolve(matrix, finding) ==
    LET found == {i \in DOMAIN matrix : Matches(matrix[i], finding)}
        best  == CHOOSE i \in found :
                   \A j \in found :
                      \/ Score(matrix[j]) < Score(matrix[i])
                      \/ Score(matrix[j]) = Score(matrix[i]) /\ i <= j
    IN IF found = {} THEN ProposeOnly
       ELSE [kind  |-> matrix[best].strategy.kind,
             tier  |-> matrix[best].strategy.tier,
             depth |-> matrix[best].strategy.depth,
             matched_by |-> MatchedBy(matrix[best]), rule |-> best]

-----------------------------------------------------------------------------
(* The model                                                               *)

TierLadder == <<"haiku", "mistral-large", "opus", "opus-deep">>
Depths     == {"low", "medium", "high"}

ComplexityToTier == [low |-> "haiku", medium |-> "mistral-large",
                     high |-> "opus", critical |-> "opus-deep"]
ComplexityToDepth == [low |-> "low", medium |-> "medium", high |-> "high",
                      critical |-> "high"]

Escalate(tier) ==
    LET i == CHOOSE k \in DOMAIN TierLadder : TierLadder[k] = tier
    IN IF i = Len(TierLadder) THEN tier ELSE TierLadder[i + 1]

PickTier(complexity, strategy, failures) ==
    LET tier == IF strategy.tier \in Range(TierLadder)
                  THEN strategy.tier ELSE ComplexityToTier[complexity]
    IN IF failures >= 2 THEN Escalate(tier) ELSE tier

PickDepth(complexity, strategy) ==
    IF strategy.depth \in Depths THEN strategy.depth
                                 ELSE ComplexityToDepth[complexity]

PickEffort(tier, failures) ==
    IF tier \notin {"opus", "opus-deep"} THEN "none"
    ELSE IF failures >= 1 THEN "high" ELSE "medium"

ResolveForFinding(finding, strategy, failures) ==
    LET tier == PickTier(finding.complexity, strategy, failures)
    IN [tier |-> tier, depth |-> PickDepth(finding.complexity, strategy),
        effort |-> PickEffort(tier, failures)]

-----------------------------------------------------------------------------
(* The documented order of the rules: rule_id before tag before category    *)
(* before other constraints before the wildcard.                            *)
Level(rule) ==
    IF Names(rule, "*") THEN 0
    ELSE IF Names(rule, "rule_id") THEN 4
    ELSE IF Names(rule, "tag") THEN 3
    ELSE IF Names(rule, "category") THEN 2
    ELSE 1

(* "most specific wins: rule_id > tag > category > wildcard"               *)
(* (contracts/fix_matrix.yaml): no combination of weaker dimensions ever   *)
(* adds up to a stronger one.                                              *)
MostSpecificWins(matrix, finding) ==
    LET chosen == Resolve(matrix, finding).rule
    IN \A i \in DOMAIN matrix :
          Matches(matrix[i], finding) =>
             chosen # 0 /\ Level(matrix[i]) <= Level(matrix[chosen])
=============================================================================
