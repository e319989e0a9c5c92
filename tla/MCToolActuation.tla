-------------------------- MODULE MCToolActuation --------------------------
(***************************************************************************)
(* Instances of ToolActuation for TLC.                                     *)
(***************************************************************************)
EXTENDS ToolActuation, TLC

At(area) == [area |-> area, nested |-> FALSE, name |-> "plain"]

MCPathOf == [src |-> At("other"), app |-> At("app"), kb |-> At("kb")]
MCFiles  == DOMAIN MCPathOf

Thread1(opener, others, says, suggests, file) ==
    [opener |-> opener, others |-> others, says |-> says, blank |-> FALSE,
     suggests |-> suggests, numbered |-> TRUE, file |-> file,
     anchored |-> TRUE, rule |-> NoRule]

Unnumbered(thread) == [thread EXCEPT !.numbered = FALSE]

Fixable(opener, others, file) ==
    Thread1(opener, others, {"lint"}, TRUE, file)

Asked(opener, says, file) == Thread1(opener, {}, says, FALSE, file)

(* Two threads each: fixes together, a fix and a question, a fix that      *)
(* closes the gate, others' threads the tool wrote in, a blank comment;    *)
(* comments without a number, of the tool that tells such threads apart    *)
(* and of one that does not.                                               *)
MCConversations == {
    <<Fixable("copilot", {"human"}, "src"), Fixable("copilot", {}, "src")>>,
    <<Fixable("copilot", {}, "src"), Asked("copilot", {"typing"}, "kb")>>,
    <<Fixable("copilot", {}, "src"), Fixable("copilot", {}, "app")>>,
    <<Fixable("human", {"copilot"}, "src"), Asked("human", {}, "src")>>,
    <<Asked("copilot", {"security"}, "src"), Asked("sonar", {"bug"}, "src")>>,
    <<Thread1("copilot", {}, {"secret", "typing"}, TRUE, "src"),
      Asked("gitguardian", {"secret"}, "src")>>,
    <<Thread1("copilot", {}, {"security"}, TRUE, "src"),
      [Asked("copilot", {}, "src") EXCEPT !.blank = TRUE]>>,
    <<Unnumbered(Fixable("copilot", {}, "src")),
      Unnumbered(Asked("copilot", {"typing"}, "src"))>>,
    <<Unnumbered(Fixable("coderabbit", {}, "src")),
      Unnumbered(Fixable("coderabbit", {}, "src"))>>}

MCConfigs == {
    [mode |-> "repair_verify_and_push", allow_push |-> TRUE,
     write_ceiling |-> 5, post_comment |-> TRUE],
    [mode |-> "repair_and_verify", allow_push |-> FALSE,
     write_ceiling |-> 2, post_comment |-> TRUE],
    [mode |-> "repair_and_verify", allow_push |-> TRUE,
     write_ceiling |-> 5, post_comment |-> FALSE],
    [mode |-> "propose_only", allow_push |-> FALSE,
     write_ceiling |-> 2, post_comment |-> TRUE]}

Rule(match, kind, tier) ==
    [match |-> match, strategy |-> [kind |-> kind, tier |-> tier,
                                    depth |-> "none"]]

(* A matrix whose rules pull against each other.                           *)
MCMatrices == {
    <<Rule("*" :> TRUE, "llm", "haiku"),
      Rule("tool" :> "copilot" @@ "complexity" :> "medium", "llm", "none"),
      Rule("category" :> "lint_failure", "deterministic", "none"),
      Rule("category" :> "typing_failure" @@ "tool" :> "copilot"
           @@ "complexity" :> "medium", "llm", "opus"),
      Rule("complexity" :> "critical", "llm", "opus-deep")>>}
=============================================================================
