--------------------------- MODULE PipelineProofs ---------------------------
(***************************************************************************)
(* What the approval gate guarantees, for any findings and any paths, and   *)
(* theorems about Pipeline, for any payloads and configurations.            *)
(***************************************************************************)
EXTENDS Pipeline, TLAPS

-----------------------------------------------------------------------------
(* Plans and gates.                                                        *)

USE GovernanceAssumption DEF GovernanceAssumption

LEMMA TierType ==
    ASSUME NEW f \in Finding
    PROVE  TierImpact(f) \in Tiers
<1>1. CASE f.file = NoFile
  BY <1>1 DEF TierImpact, Tiers
<1>2. CASE f.file # NoFile
  <2>1. PathOf[f.file] \in PathClass
    BY <1>2 DEF Finding
  <2>2. AreaTier[PathOf[f.file].area] \in Tiers
    BY <2>1 DEF PathClass, AreaTier, Tiers
  <2> QED
    BY <1>2, <2>2 DEF TierImpact, PathTier, Tiers
<1> QED
  BY <1>1, <1>2

LEMMA MaxOfTiers ==
    ASSUME NEW S \in SUBSET Tiers, S # {}
    PROVE  Max(S) \in S /\ \A t \in S : Max(S) >= t
<1>1. \E m \in S : \A t \in S : m >= t
  <2>1. CASE 5 \in S
    BY <2>1 DEF Tiers
  <2>2. CASE 5 \notin S /\ 4 \in S
    BY <2>2 DEF Tiers
  <2>3. CASE 5 \notin S /\ 4 \notin S /\ 3 \in S
    BY <2>3 DEF Tiers
  <2>4. CASE 5 \notin S /\ 4 \notin S /\ 3 \notin S /\ 2 \in S
    BY <2>4 DEF Tiers
  <2>5. CASE 5 \notin S /\ 4 \notin S /\ 3 \notin S /\ 2 \notin S /\ 1 \in S
    BY <2>5 DEF Tiers
  <2>6. CASE 5 \notin S /\ 4 \notin S /\ 3 \notin S /\ 2 \notin S /\ 1 \notin S
    <3>1. \A t \in S : t = 0
      BY <2>6 DEF Tiers
    <3> QED
      BY <3>1
  <2> QED
    BY <2>1, <2>2, <2>3, <2>4, <2>5, <2>6
<1> QED
  BY <1>1 DEF Max

(* The tier of a plan bounds that of its findings, and grows with them.    *)
LEMMA MaxTierBounds ==
    ASSUME NEW F \in SUBSET Finding
    PROVE  /\ MaxTier(F) \in Tiers
           /\ \A f \in F : TierImpact(f) <= MaxTier(F)
<1> DEFINE S == {0} \cup {TierImpact(f) : f \in F}
<1>1. S \in SUBSET Tiers /\ S # {}
  BY TierType DEF Tiers
<1>2. Max(S) \in S /\ \A t \in S : Max(S) >= t
  BY <1>1, MaxOfTiers
<1>3. \A f \in F : TierImpact(f) \in S /\ TierImpact(f) \in Tiers
  BY TierType
<1>4. Max(S) \in Tiers
  BY <1>1, <1>2
<1> HIDE DEF S
<1>5. \A f \in F : TierImpact(f) <= Max(S)
  BY <1>2, <1>3, <1>4 DEF Tiers
<1> QED
  BY <1>4, <1>5 DEF MaxTier, S

LEMMA MaxTierMonotone ==
    ASSUME NEW G \in SUBSET Finding, NEW F \in SUBSET G
    PROVE  MaxTier(F) <= MaxTier(G)
<1> DEFINE S == {0} \cup {TierImpact(f) : f \in F}
<1>1. S \in SUBSET Tiers /\ S # {}
  BY TierType DEF Tiers
<1>2. MaxTier(F) \in S
  BY <1>1, MaxOfTiers DEF MaxTier
<1>3. MaxTier(G) \in Tiers /\ \A f \in G : TierImpact(f) <= MaxTier(G)
  BY MaxTierBounds
<1>4. CASE MaxTier(F) = 0
  BY <1>3, <1>4 DEF Tiers
<1>5. CASE \E f \in F : MaxTier(F) = TierImpact(f)
  BY <1>3, <1>5
<1> QED
  BY <1>2, <1>4, <1>5

(* A plan that passes the gate touches no protected path, stays within the *)
(* ceiling and T2, and has no severe finding and none of a gated category. *)
THEOREM OpenGateBoundsPlan ==
    ASSUME NEW F \in SUBSET Finding, NEW c \in Config, ~Gated(F, c)
    PROVE  /\ \A f \in F : /\ ~Protected(f)
                           /\ f.severity \in {"low", "medium"}
                           /\ Category(f) \notin ApprovalGated
           /\ \A f \in BuildPlan(F, c).targeted_findings :
                  /\ f \in F /\ TierImpact(f) <= 2
                  /\ WithinCeiling(TierImpact(f), c)
<1> DEFINE targets == {f \in F : Repairable(f)}
           tier == MaxTier(targets)
           protected == \E f \in F : Protected(f)
<1>1. tier \in Tiers /\ \A f \in targets : TierImpact(f) <= tier
  BY MaxTierBounds
<1>2. BuildPlan(F, c).targeted_findings = targets
  BY DEF BuildPlan
<1>3. /\ ~protected
      /\ tier \notin {3, 4, 5}
      /\ RiskLevel(F, protected, tier) = "low"
      /\ ~HasGatedCategory(F)
      /\ WithinCeiling(tier, c)
  BY DEF Gated, RequiresHumanApproval, BuildPlan, IsExecutable
<1>4. ~HasSeverity(F, "critical") /\ ~HasSeverity(F, "high")
  BY <1>3 DEF RiskLevel
<1>5. \A f \in F : f.severity \in {"low", "medium"}
  BY <1>4 DEF HasSeverity, Finding
<1>6. \A f \in targets : TierImpact(f) \in Tiers
  BY TierType
<1>7. tier <= 2
  BY <1>1, <1>3 DEF Tiers
<1>8. c.write_ceiling \in Tiers
  BY DEF Config
<1> HIDE DEF tier, targets
<1>9. \A f \in targets : TierImpact(f) <= 2
  BY <1>1, <1>6, <1>7 DEF Tiers
<1>10. \A f \in targets : WithinCeiling(TierImpact(f), c)
  BY <1>1, <1>3, <1>6, <1>8 DEF WithinCeiling, Tiers
<1> QED
  BY <1>2, <1>3, <1>5, <1>9, <1>10 DEF HasGatedCategory, targets

(* Findings added to a plan that has a target in the repository never open *)
(* its gate.                                                               *)
THEOREM MoreFindingsKeepGate ==
    ASSUME NEW G \in SUBSET Finding, NEW F \in SUBSET G,
           NEW c \in Config,
           Gated(F, c), BuildPlan(F, c).target_tier > 0
    PROVE  Gated(G, c)
<1> DEFINE targets(H) == {f \in H : Repairable(f)}
           tier(H) == MaxTier(targets(H))
           protected(H) == \E f \in H : Protected(f)
           risk(H) == RiskLevel(H, protected(H), tier(H))
<1>1. SUFFICES ASSUME ~Gated(G, c)
               PROVE  ~Gated(F, c)
  OBVIOUS
<1>2. /\ ~protected(G) /\ tier(G) \notin {3, 4, 5} /\ risk(G) = "low"
      /\ ~HasGatedCategory(G) /\ WithinCeiling(tier(G), c)
      /\ \A f \in targets(G) : Category(f) \notin NeverAuto
  BY <1>1 DEF Gated, RequiresHumanApproval, BuildPlan, IsExecutable
<1>3. tier(F) > 0
  BY DEF BuildPlan
<1>4. targets(F) \subseteq targets(G)
  OBVIOUS
<1>5. /\ tier(F) <= tier(G) /\ tier(F) \in Tiers /\ tier(G) \in Tiers
      /\ c.write_ceiling \in Tiers
  BY <1>4, MaxTierMonotone, MaxTierBounds DEF Config
<1>6. targets(F) # {}
  <2>1. targets(F) = {} => tier(F) = Max({0})
    BY DEF MaxTier
  <2>2. Max({0}) = 0
    BY MaxOfTiers DEF Tiers
  <2> QED
    BY <1>3, <2>1, <2>2
<1>7. ~protected(F) /\ ~HasGatedCategory(F)
  BY <1>2 DEF HasGatedCategory
<1>8. ~HasSeverity(F, "critical") /\ ~HasSeverity(F, "high")
  BY <1>2 DEF RiskLevel, HasSeverity
<1>9. \A f \in targets(F) : Category(f) \notin NeverAuto
  BY <1>2, <1>4
<1> HIDE DEF targets, tier, protected
<1>10. tier(F) \in {1, 2} /\ WithinCeiling(tier(F), c)
  BY <1>2, <1>3, <1>5 DEF Tiers, WithinCeiling
<1>11. risk(F) = "low"
  BY <1>7, <1>8, <1>10 DEF RiskLevel
<1>12. IsExecutable(targets(F), protected(F), tier(F), c)
  BY <1>6, <1>7, <1>9, <1>10 DEF IsExecutable
<1> DEFINE plan == BuildPlan(F, c)
<1>13. /\ plan.target_tier = tier(F)
       /\ plan.risk_level = risk(F)
       /\ plan.protected_paths_touched = protected(F)
       /\ plan.executable =
              IsExecutable(targets(F), protected(F), tier(F), c)
       /\ plan.approval_required = (\/ protected(F) \/ tier(F) \in {3, 4, 5}
                                    \/ risk(F) # "low" \/ HasGatedCategory(F))
  BY DEF BuildPlan, targets, tier, protected
<1>14. ~plan.approval_required /\ plan.executable
  BY <1>7, <1>10, <1>11, <1>12, <1>13
<1> QED
  BY <1>7, <1>10, <1>11, <1>13, <1>14 DEF Gated, RequiresHumanApproval

-----------------------------------------------------------------------------
(* A run.                                                                  *)

USE PipelineAssumption DEF PipelineAssumption

LEMMA RuleTypes ==
    ASSUME NEW F \in SUBSET Finding
    PROVE  RuleIds(F) \subseteq Rules
BY DEF RuleIds, Finding

LEMMA PlanTypes ==
    ASSUME findings \subseteq Finding
    PROVE  /\ Autofix \subseteq findings /\ Manual \subseteq findings
           /\ Plan.targeted_findings \subseteq Autofix
<1>1. Plan.targeted_findings =
        {f \in Autofix \cup {g \in Manual : Protected(g)} : Repairable(f)}
  BY DEF Plan, BuildPlan
<1> QED
  BY <1>1 DEF Autofix, Manual, Repairable

(* Types hold in every reachable state.                                    *)
THEOREM TypeCorrect == Spec => []TypeOK
<1>1. Init => TypeOK
  BY DEF Init, TypeOK, Execution, Statuses, NoExecution, Result
<1>2. TypeOK /\ [Next]_vars => TypeOK'
  <2> SUFFICES ASSUME TypeOK, [Next]_vars PROVE TypeOK'
    OBVIOUS
  <2> USE DEF TypeOK
  <2>1. CASE UNCHANGED vars
    BY <2>1 DEF vars, Execution, Manual, Autofix
  <2>2. CASE Parse \/ ParseFails \/ Complete \/ Raise \/ LLMRaisesOnStale
    BY <2>2 DEF Parse, ParseFails, Complete, Raise, LLMRaisesOnStale,
                Execution, Manual, Autofix
  <2>3. ASSUME NEW P \in SUBSET Manual, Propose(P) PROVE TypeOK'
    BY <2>3 DEF Propose, SentToModel, Execution, Manual, Autofix
  <2>4. CASE PlanOnly \/ ExecutorRefuses \/ NothingApplicable
    <3>1. ASSUME NEW s \in Statuses
          PROVE  Result(s, {}, {}) \in Execution
      BY DEF Result, Execution
    <3>2. PICK s \in Statuses : LeaveExecutor(Result(s, {}, {}))
      BY <2>4 DEF PlanOnly, ExecutorRefuses, NothingApplicable, NoExecution,
                  Statuses
    <3>3. pc = "execute" /\ UNCHANGED stale
      BY <2>4 DEF PlanOnly, ExecutorRefuses, NothingApplicable, ExecutorRuns
    <3> QED
      BY <3>1, <3>2, <3>3 DEF LeaveExecutor, Execution, Manual, Autofix
  <2>5. ASSUME NEW A \in SUBSET Autofix, ExecutorCompletes(A) PROVE TypeOK'
    BY <2>5 DEF ExecutorCompletes, ExecutorRuns, LeaveExecutor, Result,
                Execution, Statuses, Manual, Autofix
  <2>6. CASE ExecutorRollsBack
    <3>1. RuleIds(Plan.targeted_findings) \subseteq Rules
      <4>1. Plan.targeted_findings \in SUBSET Finding
        BY PlanTypes
      <4> QED
        BY <4>1, RuleTypes
    <3> QED
      BY <2>6, <3>1 DEF ExecutorRollsBack, ExecutorRuns, LeaveExecutor,
                        Result, Execution, Statuses, Manual, Autofix
  <2>7. CASE SkipLLM \/ LLMCompletes \/ LLMRollsBack
    <3>1. ASSUME NEW s \in Statuses, NEW A \in SUBSET findings
          PROVE  Result(s, A, {}) \in Execution
      BY DEF Result, Execution
    <3>2. Applicable(proposals) \in SUBSET findings
      BY DEF Applicable, Manual
    <3>3. PICK s \in Statuses, A \in SUBSET findings :
              LeaveLLM(Result(s, A, {}))
      BY <2>7, <3>2 DEF SkipLLM, LLMCompletes, LLMRollsBack, NoExecution,
                        Statuses
    <3>4. pc = "llm"
      BY <2>7 DEF SkipLLM, LLMCompletes, LLMRollsBack, LLMRuns
    <3> QED
      BY <3>1, <3>3, <3>4 DEF LeaveLLM, Execution, Manual, Autofix
  <2>8. ASSUME NEW P \in SUBSET Manual, LLMRetryCompletes(P) PROVE TypeOK'
    BY <2>8 DEF LLMRetryCompletes, LLMRuns, LeaveLLM, Applicable, Result,
                Execution, Statuses, Manual, Autofix
  <2>9. CASE Report
    BY <2>9 DEF Report, Execution, Manual, Autofix
  <2>10. CASE EmitTelemetry
    <3>1. RuleIds(findings) \subseteq Rules
      BY RuleTypes
    <3> QED
      BY <2>10, <3>1 DEF EmitTelemetry, Execution, Manual, Autofix
  <2> QED
    BY <2>1, <2>2, <2>3, <2>4, <2>5, <2>6, <2>7, <2>8, <2>9, <2>10
       DEF Next, Proceed
<1> QED
  BY <1>1, <1>2, PTL DEF Spec

-----------------------------------------------------------------------------

(* Only a completed executor run keeps autofixes.                          *)
LEMMA ExecutorSteps ==
    ASSUME TypeOK, [Next]_vars
    PROVE  /\ UNCHANGED <<findings, config>>
           /\ \/ UNCHANGED execution
              \/ execution'.applied = {}
              \/ /\ ~NeedsApproval
                 /\ execution'.applied \subseteq Plan.targeted_findings
<1>1. CASE UNCHANGED vars
  BY <1>1 DEF vars
<1>2. CASE Parse \/ ParseFails \/ Complete \/ Raise \/ LLMRaisesOnStale
           \/ Report \/ EmitTelemetry
  BY <1>2 DEF Parse, ParseFails, Complete, Raise, LLMRaisesOnStale, Report,
              EmitTelemetry
<1>3. ASSUME NEW P \in SUBSET Manual, Propose(P) \/ LLMRetryCompletes(P)
      PROVE  UNCHANGED <<findings, config, execution>>
  BY <1>3 DEF Propose, LLMRetryCompletes, LeaveLLM
<1>4. CASE PlanOnly \/ ExecutorRefuses \/ NothingApplicable
           \/ ExecutorRollsBack
  BY <1>4 DEF PlanOnly, ExecutorRefuses, NothingApplicable,
              ExecutorRollsBack, LeaveExecutor, Result, NoExecution
<1>5. ASSUME NEW A \in SUBSET Autofix, ExecutorCompletes(A)
      PROVE  /\ UNCHANGED <<findings, config>> /\ ~NeedsApproval
             /\ execution'.applied \subseteq Plan.targeted_findings
  BY <1>5 DEF ExecutorCompletes, ExecutorRuns, LeaveExecutor, Result
<1>6. CASE SkipLLM \/ LLMCompletes \/ LLMRollsBack
  BY <1>6 DEF SkipLLM, LLMCompletes, LLMRollsBack, LeaveLLM
<1> QED
  BY <1>1, <1>2, <1>3, <1>4, <1>5, <1>6 DEF Next, Proceed

(* A finding reported as a secret is of that category, which nothing       *)
(* repairs, unless a keyword or its source speaks first.                   *)
LEMMA SecretsAreRead ==
    ASSUME NEW f \in Finding, f.category = "security_issue",
           Category(f) \notin NeverAuto
    PROVE  Reread(f)
<1> SUFFICES ASSUME f.says = {}, f.source # "github_checks"
             PROVE  FALSE
  BY DEF Reread
<1>1. {i \in DOMAIN Hints : Hints[i].says \in f.says} = {}
  OBVIOUS
<1>2. InferCategory(f) = "security_issue"
  BY <1>1 DEF InferCategory
<1>3. ~Protected(f)
  BY DEF Category, NeverAuto
<1>4. Category(f) = "security_issue"
  BY <1>2, <1>3 DEF Category, Categories
<1> QED
  BY <1>4 DEF NeverAuto

(* What the deterministic lane keeps has passed the whole plan's gate.     *)
THEOREM GateBoundsAutofix == Spec => []AutofixWithinBounds
<1>1. Init => AutofixWithinBounds
  BY DEF Init, AutofixWithinBounds, NoExecution, Result
<1>2. TypeOK /\ AutofixWithinBounds /\ [Next]_vars => AutofixWithinBounds'
  <2> SUFFICES ASSUME TypeOK, AutofixWithinBounds, [Next]_vars,
                      execution'.applied # {}
               PROVE  AutofixWithinBounds'
    BY DEF AutofixWithinBounds
  <2>1. UNCHANGED <<findings, config>>
    BY ExecutorSteps
  <2>2. CASE UNCHANGED execution
    BY <2>1, <2>2 DEF AutofixWithinBounds, Autofix
  <2>3. CASE ~NeedsApproval /\ execution'.applied \subseteq
                                   Plan.targeted_findings
    <3> DEFINE F == Autofix \cup {f \in Manual : Protected(f)}
    <3>1. F \in SUBSET Finding /\ config \in Config
      BY DEF TypeOK, Autofix, Manual
    <3>2. ~Gated(F, config)
      BY <2>3 DEF NeedsApproval, Plan, Gated
    <3>3. /\ \A f \in F : /\ ~Protected(f)
                          /\ f.severity \in {"low", "medium"}
                          /\ Category(f) \notin ApprovalGated
          /\ \A f \in BuildPlan(F, config).targeted_findings :
                 /\ f \in F /\ TierImpact(f) <= 2
                 /\ WithinCeiling(TierImpact(f), config)
      BY <3>1, <3>2, OpenGateBoundsPlan
    <3>4. \A f \in findings : ~Protected(f)
      BY <3>3 DEF Autofix, Manual
    <3>5. \A f \in execution'.applied :
              TierImpact(f) <= 2 /\ WithinCeiling(TierImpact(f), config)
      BY <2>3, <3>3 DEF Plan
    <3>6. \A f \in F : f.category = "security_issue" => Reread(f)
      BY <3>1, <3>3, SecretsAreRead DEF ApprovalGated
    <3> QED
      BY <2>1, <3>3, <3>4, <3>5, <3>6 DEF AutofixWithinBounds, Autofix
  <2> QED
    BY <2>2, <2>3, ExecutorSteps
<1> QED
  BY <1>1, <1>2, TypeCorrect, PTL DEF Spec

-----------------------------------------------------------------------------

(* Only the LLM lane changes its execution, and keeps eligible findings.   *)
LEMMA LLMSteps ==
    ASSUME TypeOK, [Next]_vars
    PROVE  \/ UNCHANGED llm
           \/ llm'.applied \subseteq {f \in Manual : IsApplyEligible(f, config)}
<1>1. CASE UNCHANGED vars
  BY <1>1 DEF vars
<1>2. CASE Parse \/ ParseFails \/ Complete \/ Raise \/ LLMRaisesOnStale
           \/ Report \/ EmitTelemetry
  BY <1>2 DEF Parse, ParseFails, Complete, Raise, LLMRaisesOnStale, Report,
              EmitTelemetry
<1>3. ASSUME NEW P \in SUBSET Manual, Propose(P) PROVE UNCHANGED llm
  BY <1>3 DEF Propose
<1>4. CASE PlanOnly \/ ExecutorRefuses \/ NothingApplicable
           \/ ExecutorRollsBack
  BY <1>4 DEF PlanOnly, ExecutorRefuses, NothingApplicable,
              ExecutorRollsBack, LeaveExecutor
<1>5. ASSUME NEW A \in SUBSET Autofix, ExecutorCompletes(A)
      PROVE  UNCHANGED llm
  BY <1>5 DEF ExecutorCompletes, LeaveExecutor
<1>6. CASE SkipLLM \/ LLMCompletes \/ LLMRollsBack
  BY <1>6 DEF SkipLLM, LLMCompletes, LLMRollsBack, LeaveLLM, Result,
              NoExecution, Applicable, TypeOK
<1>7. ASSUME NEW P \in SUBSET Manual, LLMRetryCompletes(P)
      PROVE  llm'.applied \subseteq {f \in Manual : IsApplyEligible(f, config)}
  BY <1>7 DEF LLMRetryCompletes, LeaveLLM, Result, Applicable
<1> QED
  BY <1>1, <1>2, <1>3, <1>4, <1>5, <1>6, <1>7 DEF Next, Proceed

(* What the LLM lane keeps, of a first attempt or a retry, is eligible.    *)
THEOREM GateBoundsLLM == Spec => []LLMWithinBounds
<1>1. Init => LLMWithinBounds
  BY DEF Init, LLMWithinBounds, NoExecution, Result
<1>2. TypeOK /\ LLMWithinBounds /\ [Next]_vars => LLMWithinBounds'
  <2> SUFFICES ASSUME TypeOK, LLMWithinBounds, [Next]_vars
               PROVE  LLMWithinBounds'
    OBVIOUS
  <2>1. UNCHANGED config
    BY ExecutorSteps
  <2> QED
    <3>1. CASE UNCHANGED llm
      BY <2>1, <3>1 DEF LLMWithinBounds, WithinCeiling
    <3>2. CASE llm'.applied \subseteq {f \in Manual : IsApplyEligible(f, config)}
      <4>1. \A f \in llm'.applied : f \in Finding /\ IsApplyEligible(f, config)
        BY <3>2 DEF TypeOK, Manual
      <4>2. \A f \in llm'.applied : f.category = "security_issue" => Reread(f)
        BY <4>1, SecretsAreRead DEF IsApplyEligible
      <4> QED
        BY <2>1, <4>1, <4>2 DEF LLMWithinBounds, IsApplyEligible, WithinCeiling
    <3> QED
      BY <3>1, <3>2, LLMSteps
<1> QED
  BY <1>1, <1>2, TypeCorrect, PTL DEF Spec

(* Before telemetry nothing is promoted; the lanes keep disjoint findings. *)
PromotionInv ==
    /\ llm.applied \subseteq Manual
    /\ telemetry.promoted # {} => pc \in {"complete", "over"}
    /\ PromotesOnlyVerified

(* A promoted rule's findings have all been repaired.                      *)
THEOREM PromotedRulesAreVerified == Spec => []PromotesOnlyVerified
<1>1. Init => PromotionInv
  BY DEF Init, PromotionInv, PromotesOnlyVerified, NoExecution, Result
<1>2. TypeOK /\ PromotionInv /\ [Next]_vars => PromotionInv'
  <2> SUFFICES ASSUME TypeOK, PromotionInv, [Next]_vars PROVE PromotionInv'
    OBVIOUS
  <2>1. llm'.applied \subseteq Manual'
    BY ExecutorSteps, LLMSteps DEF PromotionInv, Manual, Autofix
  <2>2. CASE EmitTelemetry
    <3>1. UNCHANGED <<findings, execution, llm>> /\ pc' = "complete"
      BY <2>2 DEF EmitTelemetry
    <3>2. ASSUME NEW f \in Autofix, f.rule \in telemetry'.promoted
          PROVE  f \in execution.applied
      <4>1. Promotable(f.rule)
        BY <2>2, <3>2 DEF EmitTelemetry
      <4>2. f \in LastExecution.applied
        BY <4>1 DEF Promotable, Verified
      <4>3. f \notin llm.applied
        BY DEF PromotionInv, Manual
      <4> QED
        BY <4>2, <4>3 DEF LastExecution
    <3> QED
      BY <2>1, <3>1, <3>2 DEF PromotionInv, PromotesOnlyVerified, Autofix
  <2>3. CASE UNCHANGED telemetry /\ telemetry.promoted = {}
    BY <2>1, <2>3 DEF PromotionInv, PromotesOnlyVerified
  <2>4. CASE /\ UNCHANGED <<findings, telemetry, execution>>
             /\ pc \in {"complete", "over"} /\ pc' \in {"complete", "over"}
    BY <2>1, <2>4 DEF PromotionInv, PromotesOnlyVerified, Autofix
  <2>5. \/ EmitTelemetry
        \/ /\ UNCHANGED telemetry
           /\ pc \in {"complete", "over"} =>
                  /\ UNCHANGED <<findings, execution>>
                  /\ pc' \in {"complete", "over"}
    BY DEF Next, Proceed, vars, Parse, ParseFails, Propose, LLMRetryCompletes,
           PlanOnly, ExecutorRefuses, ExecutorCompletes, NothingApplicable,
           ExecutorRollsBack, ExecutorRuns, LeaveExecutor, SkipLLM,
           LLMRaisesOnStale, LLMCompletes, LLMRollsBack, LLMRuns, LeaveLLM,
           Report, Complete, Raise
  <2> QED
    BY <2>2, <2>3, <2>4, <2>5 DEF PromotionInv
<1>3. PromotionInv => PromotesOnlyVerified
  BY DEF PromotionInv
<1> QED
  BY <1>1, <1>2, <1>3, TypeCorrect, PTL DEF Spec

(* No larger plan passes the gate than one that is gated.                  *)
THEOREM GateIsMonotone == Spec => []FindingsNeverOpenGate
<1>1. TypeOK => FindingsNeverOpenGate
  BY MoreFindingsKeepGate DEF TypeOK, FindingsNeverOpenGate
<1> QED
  BY <1>1, TypeCorrect, PTL
=============================================================================
