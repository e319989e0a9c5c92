----------------------------- MODULE MCPipeline -----------------------------
(***************************************************************************)
(* Instances of Pipeline for TLC.                                          *)
(***************************************************************************)
EXTENDS Pipeline

At(area, nested) == [area |-> area, nested |-> nested, name |-> "plain"]

MCPathOf == [src      |-> At("other", FALSE),
             test     |-> At("tests", FALSE),
             app      |-> At("app", FALSE),
             kb       |-> At("kb", FALSE),
             kbdeep   |-> At("kb", TRUE)]

MCFiles == DOMAIN MCPathOf

Report1(n, file, says, category, severity) ==
    [id |-> n, thread |-> 0, file |-> file, says |-> says, category |-> category,
     severity |-> severity, source |-> "agent_review", autofix |-> FALSE,
     rule |-> NoRule]

Fix(finding, rule) == [finding EXCEPT !.autofix = TRUE, !.rule = rule]

(* One finding for each way the rules can go.                              *)
Menu == {
    Fix(Report1(1, "src",  {"lint"}, "lint_failure", "low"), "r1"),
    Fix(Report1(2, "src",  {}, "bug_risk", "medium"), "r1"),
    Fix(Report1(3, "test", {}, "bug_risk", "low"), "r2"),
    Fix(Report1(4, "app",  {"lint"}, "lint_failure", "low"), "r2"),
    Fix(Report1(5, "src",  {}, "bug_risk", "high"), NoRule),
    Fix(Report1(6, "src",  {"secret", "typing"}, "security_issue", "low"),
        NoRule),
    Fix(Report1(7, "src",  {"yaml"}, "unknown", "low"), NoRule),
    Report1(8,  "src",    {}, "bug_risk", "high"),
    Report1(9,  "src",    {"secret"}, "security_issue", "low"),
    Report1(10, "kb",     {}, "docs_consistency_failure", "low"),
    Report1(11, "kbdeep", {}, "docs_consistency_failure", "low"),
    Report1(12, NoFile,   {"coverage"}, "ambiguous_comment", "low")}

CONSTANT MaxFindings   \* bound: findings of a payload

MCPayloads == UNION {kSubset(k, Menu) : k \in 0..MaxFindings}

MCConfigs == [mode: {"dry_run", "learn_only", "repair_and_verify",
                     "repair_verify_and_push"},
              allow_push: BOOLEAN, write_ceiling: {1, 5}, llm_apply: BOOLEAN]

(* Runs that may push, of payloads with something for the executor to do,  *)
(* so that it is not for want of targets if the plan needs approval.       *)
PushingConfigs ==
    {c \in MCConfigs : c.mode = "repair_verify_and_push" /\ c.allow_push}
RepairPayloads ==
    {F \in MCPayloads : \E f \in F : f.autofix /\ Repairable(f)}

(* No interrupts: what goes wrong is the code's doing.                     *)
SmoothSpec == Init /\ [][Proceed]_vars
=============================================================================
