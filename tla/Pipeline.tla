------------------------------ MODULE Pipeline ------------------------------
(***************************************************************************)
(* One run of the pipeline (pipeline/run_pipeline.py): the payload is       *)
(* parsed and routed into two lanes, the router is asked for proposals, the *)
(* deterministic lane runs behind the approval gate, the LLM lane behind a  *)
(* gate of its own, and artifacts and telemetry are written.  The lanes     *)
(* appear as their outcomes, those RepairLane allows.  Anything may raise;  *)
(* run_pipeline handles only the failure to parse.                          *)
(***************************************************************************)
EXTENDS Governance

CONSTANTS Payloads,  \* sets of findings a payload may hold, ids distinct
          Configs    \* configurations the run may have

ASSUME PipelineAssumption ==
    /\ Payloads \subseteq SUBSET Finding
    /\ Configs \subseteq Config

VARIABLES findings,   \* of the payload
          config,
          pc,         \* what run_pipeline does next
          proposals,  \* findings the model made an instruction for
          stale,      \* proposals for lines the first lane has changed
          execution,  \* RepairExecution of the deterministic lane
          llm,        \* RepairExecution of the LLM lane
          artifacts,  \* executions the artifacts record
          telemetry,  \* autofix_telemetry.json
          runtime     \* RuntimeState.status

vars == <<findings, config, pc, proposals, stale, execution, llm,
          artifacts, telemetry, runtime>>

RepairModes == {"repair_and_verify", "repair_verify_and_push"}

(* A RepairExecution: its status, the findings whose edits it kept, and    *)
(* its false_positive_rules.                                               *)
Result(s, applied, rules) ==
    [status |-> s, applied |-> applied, false_positive_rules |-> rules]
NoExecution == Result("none", {}, {})

(* route_findings                                                          *)
Autofix == {f \in findings : f.autofix}
Manual  == findings \ Autofix

Mutant_AutofixOnly == BuildPlan(Autofix, config)

(* Manual findings on protected paths are planned too, to raise the gate.  *)
Plan == BuildPlan(Autofix \cup {f \in Manual : Protected(f)}, config)

NeedsApproval == RequiresHumanApproval(Plan, config)

Mutant_NoRuleKept(F) == {f.rule : f \in {g \in F : g.autofix}}

RuleIds(F) == {f.rule : f \in {g \in F : g.autofix}} \ {NoRule}

Init ==
    /\ findings \in Payloads /\ config \in Configs
    /\ pc = "parse" /\ proposals = {} /\ stale = {}
    /\ execution = NoExecution /\ llm = NoExecution
    /\ artifacts = {} /\ telemetry = [promoted |-> {}, false_positive |-> {}]
    /\ runtime = "running"

-----------------------------------------------------------------------------

Parse ==
    /\ pc = "parse" /\ pc' = "propose"
    /\ UNCHANGED <<findings, config, proposals, stale, execution, llm,
                   artifacts, telemetry, runtime>>

ParseFails ==
    /\ pc = "parse" /\ pc' = "over" /\ runtime' = "failed"
    /\ UNCHANGED <<findings, config, proposals, stale, execution, llm,
                   artifacts, telemetry>>

(* The model answers with instructions for some of what it is asked about, *)
(* bound to the lines the file has now.  An unreachable router answers     *)
(* with none.                                                              *)
Propose(P) ==
    /\ pc = "propose" /\ pc' = "execute"
    /\ P \subseteq {f \in SentToModel(Manual) : f.file # NoFile}
    /\ proposals' = P
    /\ UNCHANGED <<findings, config, stale, execution, llm, artifacts,
                   telemetry, runtime>>

LeaveExecutor(result) ==
    /\ pc' = "llm" /\ execution' = result
    /\ UNCHANGED <<findings, config, proposals, llm, artifacts,
                   telemetry, runtime>>

PlanOnly ==
    /\ pc = "execute" /\ config.mode \notin RepairModes
    /\ LeaveExecutor(IF NeedsApproval THEN Result("approval_required", {}, {})
                     ELSE IF config.mode = "learn_only"
                       THEN Result("planned_only", {}, {})
                     ELSE NoExecution)
    /\ UNCHANGED stale

ExecutorRefuses ==
    /\ pc = "execute" /\ config.mode \in RepairModes /\ NeedsApproval
    /\ LeaveExecutor(Result("approval_required", {}, {}))
    /\ UNCHANGED stale

ExecutorRuns ==
    pc = "execute" /\ config.mode \in RepairModes /\ ~NeedsApproval

(* Edits of a file may change the lines a proposal for it was made for.    *)
ExecutorCompletes(A) ==
    /\ ExecutorRuns
    /\ A \subseteq Plan.targeted_findings /\ A # {}
    /\ LeaveExecutor(Result("completed", A, {}))
    /\ stale' \in SUBSET {p \in proposals : \E f \in A : f.file = p.file}

NothingApplicable ==
    /\ ExecutorRuns
    /\ LeaveExecutor(Result("no_applicable_instructions", {}, {}))
    /\ UNCHANGED stale

ExecutorRollsBack ==
    /\ ExecutorRuns
    /\ LeaveExecutor(Result("rolled_back_verification_failed", {},
                            RuleIds(Plan.targeted_findings)))
    /\ UNCHANGED stale

(* The lane's execution has an artifact of its own, written at once.       *)
LeaveLLM(result) ==
    /\ pc' = "report" /\ llm' = result
    /\ artifacts' = {result} \ {NoExecution}
    /\ UNCHANGED <<findings, config, proposals, stale, execution,
                   telemetry, runtime>>

Applicable(P) == {f \in P : IsApplyEligible(f, config)}

LLMEnabled ==
    /\ config.llm_apply /\ config.mode \in RepairModes
    /\ Applicable(proposals) # {}

SkipLLM == pc = "llm" /\ ~LLMEnabled /\ LeaveLLM(NoExecution)

LLMRuns ==
    pc = "llm" /\ LLMEnabled /\ Applicable(proposals) \cap stale = {}

(* apply_patch_instructions raises when a line is not the expected one;    *)
(* the lane restores the checkout and lets the exception through.          *)
LLMRaisesOnStale ==
    /\ pc = "llm" /\ LLMEnabled /\ Applicable(proposals) \cap stale # {}
    /\ pc' = "over"
    /\ UNCHANGED <<findings, config, proposals, stale, execution, llm,
                   artifacts, telemetry, runtime>>

LLMCompletes ==
    /\ LLMRuns
    /\ LeaveLLM(Result("completed", Applicable(proposals), {}))

Mutant_RetryUnchecked(P) ==
    /\ LLMRuns
    /\ P \subseteq {f \in SentToModel(Manual) : f.file # NoFile}
    /\ LeaveLLM(Result("completed", P, {}))

(* The first attempt failed verification; the retry's proposals are new.   *)
LLMRetryCompletes(P) ==
    /\ LLMRuns
    /\ P \subseteq {f \in SentToModel(Manual) : f.file # NoFile}
    /\ Applicable(P) # {}
    /\ LeaveLLM(Result("completed", Applicable(P), {}))

LLMRollsBack ==
    /\ LLMRuns
    /\ \E s \in {"rolled_back_verification_failed",
                 "rolled_back_no_retry_patch"} : LeaveLLM(Result(s, {}, {}))

Report ==
    /\ pc = "report" /\ pc' = "telemetry"
    /\ artifacts' = {execution, llm} \ {NoExecution}
    /\ UNCHANGED <<findings, config, proposals, stale, execution, llm,
                   telemetry, runtime>>

(* exec_by_pr: a later execution of the pull request replaces an earlier.  *)
LastExecution == IF llm # NoExecution THEN llm ELSE execution

Mutant_StatusSuffices(f) ==
    /\ f.rule \notin LastExecution.false_positive_rules
    /\ LastExecution.status = "completed"

Verified(f) ==
    /\ f.rule \notin LastExecution.false_positive_rules
    /\ LastExecution.status = "completed" /\ f \in LastExecution.applied

Promotable(r) == \A f \in Autofix : f.rule = r => Verified(f)

(* build_autofix_telemetry                                                 *)
EmitTelemetry ==
    /\ pc = "telemetry" /\ pc' = "complete"
    /\ telemetry' =
         [promoted |-> {r \in RuleIds(findings) : Promotable(r)},
          false_positive |->
              RuleIds(findings) \cap LastExecution.false_positive_rules]
    /\ UNCHANGED <<findings, config, proposals, stale, execution, llm,
                   artifacts, runtime>>

Complete ==
    /\ pc = "complete" /\ pc' = "over" /\ runtime' = "completed"
    /\ UNCHANGED <<findings, config, proposals, stale, execution, llm,
                   artifacts, telemetry>>

(* Another exception passes through run_pipeline, or the process dies.     *)
Raise ==
    /\ pc # "over" /\ pc' = "over"
    /\ UNCHANGED <<findings, config, proposals, stale, execution, llm,
                   artifacts, telemetry, runtime>>

Proceed ==
    \/ Parse \/ ParseFails
    \/ \E P \in SUBSET Manual : Propose(P) \/ LLMRetryCompletes(P)
    \/ PlanOnly \/ ExecutorRefuses
    \/ \E A \in SUBSET Autofix : ExecutorCompletes(A)
    \/ NothingApplicable \/ ExecutorRollsBack
    \/ SkipLLM \/ LLMRaisesOnStale \/ LLMCompletes \/ LLMRollsBack
    \/ Report \/ EmitTelemetry \/ Complete

Next == Proceed \/ Raise

Spec == Init /\ [][Next]_vars

-----------------------------------------------------------------------------
(* Properties.                                                             *)

Statuses == {"none", "planned_only", "approval_required", "completed",
             "no_applicable_instructions", "rolled_back_verification_failed",
             "rolled_back_no_retry_patch"}

Execution == [status: Statuses, applied: SUBSET findings,
              false_positive_rules: SUBSET Rules]

(* Types; in particular artifacts are written only after both lanes ended, *)
(* and a runtime status other than running only when the run is over.      *)
TypeOK ==
    /\ findings \subseteq Finding /\ config \in Config
    /\ pc \in {"parse", "propose", "execute", "llm", "report", "telemetry",
               "complete", "over"}
    /\ proposals \subseteq Manual
    /\ stale \subseteq proposals
    /\ pc \in {"parse", "propose", "execute"} => stale = {}
    /\ execution \in Execution /\ llm \in Execution
    /\ artifacts \subseteq {execution, llm}
    /\ artifacts # {} => pc \in {"report", "telemetry", "complete", "over"}
    /\ telemetry \in [promoted: SUBSET Rules, false_positive: SUBSET Rules]
    /\ runtime \in {"running", "completed", "failed"}
    /\ runtime # "running" => pc = "over"

(* A keyword of its message, or the checks it is from, had a finding taken *)
(* for something else than what it was reported as.                        *)
Reread(f) == f.says # {} \/ f.source = "github_checks"

(* "if ANY finding (autofix OR manual) touches a protected path, the plan  *)
(* must require approval" (run_pipeline.py), and the gate's other limits:  *)
(* what the deterministic lane keeps is within the ceiling and T2, and no  *)
(* autofix next to it was severe, of a gated category, or reported as a    *)
(* secret and not taken for something else.                                *)
AutofixWithinBounds ==
    execution.applied # {} =>
        /\ \A f \in findings : ~Protected(f)
        /\ \A f \in execution.applied :
               TierImpact(f) <= 2 /\ WithinCeiling(TierImpact(f), config)
        /\ \A f \in Autofix : /\ f.severity \in {"low", "medium"}
                              /\ Category(f) \notin ApprovalGated
                              /\ f.category = "security_issue" => Reread(f)

(* Proposals on protected paths, above the ceiling, in never-auto-repair   *)
(* categories or for a secret stay proposals, also those of the retry.     *)
LLMWithinBounds ==
    \A f \in llm.applied : /\ ~Protected(f) /\ Category(f) \notin NeverAuto
                           /\ WithinCeiling(TierImpact(f), config)
                           /\ f.category = "security_issue" => Reread(f)

(* "A rule that autofixes cleanly every time is safe to promote"           *)
(* (telemetry/autofix.py): every finding of a promoted rule was repaired,  *)
(* whatever the other lane's execution says.                               *)
PromotesOnlyVerified ==
    \A f \in Autofix : f.rule \in telemetry.promoted => f \in execution.applied

(* A further finding never opens the gate, whatever it is: some findings   *)
(* whose targets are gated stay gated in any larger plan.                  *)
FindingsNeverOpenGate ==
    pc = "execute" => \A F \in SUBSET findings :
        Gated(F, config) /\ BuildPlan(F, config).target_tier > 0
            => Gated(findings, config)

(* GOVERNANCE.md: "Approval-required status MUST stop mutation."           *)
ApprovalStopsMutation ==
    execution.status = "approval_required" => llm.applied = {}
=============================================================================
