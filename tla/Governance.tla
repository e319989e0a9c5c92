----------------------------- MODULE Governance -----------------------------
(***************************************************************************)
(* What the bot may touch: classification of findings (classification/,     *)
(* repo_context/), the repair plan (planning/repair_planner.py), the        *)
(* approval gate (planning/approval_gate.py) and the gate of the LLM lane   *)
(* (is_apply_eligible in repair/llm_apply.py).  All of it is computed from  *)
(* the findings of one pull request and the configuration; there is no      *)
(* state.  A finding is its raw form; what classify_finding adds to it are  *)
(* operators on that.  Its id and its thread are numbers; 0 is no thread.    *)
(***************************************************************************)
EXTENDS Naturals, FiniteSetsExt, Sequences

CONSTANTS Files,   \* paths findings are about
          PathOf,  \* what the rules look at in each path
          NoFile,  \* file_path is None
          Rules,   \* Semgrep rule ids
          NoRule   \* rule_id is None

(* Where a path is, whether below a subdirectory of that, and whether it   *)
(* is spelled out in protected_exact or matches a protected file name.     *)
PathClass == [area: {"models", "kb", "workflows", "tests", "app", "other"},
              nested: BOOLEAN,
              name: {"plain", "exact", "listed"}]

ASSUME GovernanceAssumption ==
    /\ NoFile \notin Files /\ NoRule \notin Rules
    /\ PathOf \in [Files -> PathClass]

Tiers == 0..5

Categories ==
    {"contract_violation", "style_violation", "bug_risk", "security_issue",
     "patch_coverage_failure", "missing_tests_for_changed_code",
     "github_required_check_failure", "lint_failure", "typing_failure",
     "docs_consistency_failure", "compliance_failure",
     "architecture_boundary_violation", "protected_file_violation",
     "ambiguous_comment", "validator_gap_signal", "agent_instruction_gap"}

AutoRepairable ==
    {"lint_failure", "typing_failure", "missing_tests_for_changed_code"}

NeverAuto == {"architecture_boundary_violation", "protected_file_violation",
              "security_issue", "contract_violation"}

ApprovalGated ==
    NeverAuto \cup {"docs_consistency_failure", "compliance_failure",
                    "style_violation", "github_required_check_failure"}

(* Keywords of a message, in the order they are looked for, and what they  *)
(* make of it.                                                             *)
Hints == <<[says |-> "coverage", means |-> "missing_tests_for_changed_code"],
           [says |-> "typing",   means |-> "typing_failure"],
           [says |-> "lint",     means |-> "lint_failure"],
           [says |-> "boundary", means |-> "architecture_boundary_violation"],
           [says |-> "yaml",     means |-> "compliance_failure"],
           [says |-> "secret",   means |-> "security_issue"]>>

Finding ==
    [file: Files \cup {NoFile},
     says: SUBSET {Hints[i].says : i \in DOMAIN Hints},
     category: Categories \cup {"unknown"},
     severity: {"low", "medium", "high", "critical"},
     source: {"agent_review", "github_checks"},
     autofix: BOOLEAN,
     rule: Rules \cup {NoRule},
     id: Nat, thread: Nat]

Config == [mode: {"dry_run", "propose_only", "learn_only",
                  "repair_and_verify", "repair_verify_and_push"},
           allow_push: BOOLEAN, write_ceiling: Tiers, llm_apply: BOOLEAN]

-----------------------------------------------------------------------------
(* classify_finding                                                        *)

(* Path.match takes ** for a single component, so the patterns kb/** and   *)
(* the like do not reach into subdirectories.                              *)
MatchesAny(path) ==
    \/ path.name # "plain"
    \/ path.area \in {"models", "kb", "workflows"} /\ ~path.nested

Protected(f) == f.file # NoFile /\ MatchesAny(PathOf[f.file])

AreaTier == [models |-> 5, kb |-> 5, workflows |-> 2, tests |-> 2, app |-> 3,
             other |-> 1]

PathTier(path) ==
    IF path.name = "exact" \/ (path.area = "other" /\ MatchesAny(path))
      THEN 4 ELSE AreaTier[path.area]

TierImpact(f) == IF f.file = NoFile THEN 0 ELSE PathTier(PathOf[f.file])

InferCategory(f) ==
    LET heard == {i \in DOMAIN Hints : Hints[i].says \in f.says}
    IN IF heard # {} THEN Hints[Min(heard)].means
       ELSE IF f.source = "github_checks" THEN "github_required_check_failure"
       ELSE f.category

Category(f) ==
    LET inferred == InferCategory(f)
    IN IF Protected(f) THEN "protected_file_violation"
       ELSE IF "boundary" \in f.says THEN "architecture_boundary_violation"
       ELSE IF inferred \in Categories THEN inferred
       ELSE "validator_gap_signal"

Repairable(f) ==
    /\ Category(f) \notin NeverAuto
    /\ ~Protected(f)
    /\ f.autofix \/ Category(f) \in AutoRepairable

-----------------------------------------------------------------------------
(* build_repair_plan                                                       *)

WithinCeiling(tier, config) == tier <= config.write_ceiling

Mutant_LowestTier(F) == Min({5} \cup {TierImpact(f) : f \in F})

(* T0 without any findings.                                                *)
MaxTier(F) == Max({0} \cup {TierImpact(f) : f \in F})

HasSeverity(F, s) == \E f \in F : f.severity = s

HasGatedCategory(F) == \E f \in F : Category(f) \in ApprovalGated

RiskLevel(F, protected, tier) ==
    IF protected \/ tier \in {4, 5} \/ HasSeverity(F, "critical") THEN "high"
    ELSE IF HasSeverity(F, "high") \/ HasGatedCategory(F) THEN "medium"
    ELSE "low"

IsExecutable(targets, protected, tier, config) ==
    /\ targets # {} /\ ~protected
    /\ WithinCeiling(tier, config)
    /\ \A f \in targets : Category(f) \notin NeverAuto

BuildPlan(F, config) ==
    LET targets   == {f \in F : Repairable(f)}
        tier      == MaxTier(targets)
        protected == \E f \in F : Protected(f)
        risk      == RiskLevel(F, protected, tier)
    IN [targeted_findings       |-> targets,
        target_tier             |-> tier,
        protected_paths_touched |-> protected,
        risk_level              |-> risk,
        approval_required       |-> \/ protected \/ tier \in {3, 4, 5}
                                    \/ risk # "low" \/ HasGatedCategory(F),
        executable |-> IsExecutable(targets, protected, tier, config)]

RequiresHumanApproval(plan, config) ==
    \/ plan.approval_required
    \/ ~plan.executable
    \/ plan.protected_paths_touched
    \/ ~WithinCeiling(plan.target_tier, config)
    \/ plan.risk_level = "high"
    \/ config.allow_push /\ plan.target_tier \notin {1, 2}

(* The gate's answer for a plan made of these findings.                    *)
Gated(F, config) == RequiresHumanApproval(BuildPlan(F, config), config)

-----------------------------------------------------------------------------
(* The LLM lane                                                            *)

(* propose_repairs sends these to the model.                               *)
SentToModel(manual) == {f \in manual : ~Protected(f)}

(* is_apply_eligible, for a finding whose proposal has an instruction.     *)
IsApplyEligible(f, config) ==
    /\ ~Protected(f)
    /\ Category(f) \notin NeverAuto
    /\ WithinCeiling(TierImpact(f), config)
=============================================================================
