---------------------------- MODULE ToolAdapters ----------------------------
(***************************************************************************)
(* What the adapters of the four review tools (tools/) make of the review   *)
(* threads of a pull request: which threads a tool's adapter takes for its  *)
(* own, and the canonical finding each becomes.                             *)
(***************************************************************************)
EXTENDS Governance

CONSTANT PageSize   \* bound: threads the connector reads, 100 in the code

ASSUME ToolAdaptersAssumption == PageSize \in Nat \ {0}

(* Parts of the author logins by which adapters know their tool.           *)
Markers == [copilot     |-> {"copilot"},
            coderabbit  |-> {"coderabbit"},
            sonarcloud  |-> {"sonar"},
            gitguardian |-> {"gitguardian", "ggshield"}]

Tools  == DOMAIN Markers
Logins == UNION {Markers[t] : t \in Tools} \cup {"human"}

(* Words of a comment: those of Governance's hints, and the adapters' own. *)
Words == {Hints[i].says : i \in DOMAIN Hints}
         \cup {"security", "layering", "bug", "secret_rule"}

(* A review thread: who opened it and who else wrote in it, what its first *)
(* comment says, whether that carries a suggestion block and has a         *)
(* databaseId (null is a value GitHub may give it), and whether the thread *)
(* still has a line.                                                       *)
Thread == [opener: Logins, others: SUBSET Logins,
           says: SUBSET Words, blank: BOOLEAN, suggests: BOOLEAN,
           numbered: BOOLEAN, file: Files, anchored: BOOLEAN,
           rule: Rules \cup {NoRule}]

-----------------------------------------------------------------------------
(* read_findings                                                           *)

(* Any comment of the tool makes the thread the tool's.                    *)
Authors(thread) == {thread.opener} \cup thread.others

Mutant_Owns(tool, thread) == tool \in Tools

Owns(tool, thread) == Authors(thread) \cap Markers[tool] # {}

(* Positions of the threads the adapter reads: unresolved, its own, on the *)
(* first page.                                                             *)
ReadFindings(tool, threads, resolved) ==
    {i \in DOMAIN threads :
        i <= PageSize /\ ~resolved[i] /\ Owns(tool, threads[i])}

-----------------------------------------------------------------------------
(* to_payload_findings                                                     *)

(* Words of the first comment in the order a tool's adapter looks for      *)
(* them, and the category they mean.                                       *)
CategoryOf ==
    [copilot |->
        <<[says |-> {"typing"}, means |-> "typing_failure"],
          [says |-> {"lint"}, means |-> "lint_failure"],
          [says |-> {"security", "secret"}, means |-> "security_issue"],
          [says |-> {"layering"},
           means |-> "architecture_boundary_violation"]>>,
     coderabbit |->
        <<[says |-> {"security", "secret"}, means |-> "security_issue"],
          [says |-> {"typing"}, means |-> "typing_failure"],
          [says |-> {"lint"}, means |-> "lint_failure"],
          [says |-> {"layering"},
           means |-> "architecture_boundary_violation"]>>,
     sonarcloud |->
        <<[says |-> {"secret_rule", "security"}, means |-> "security_issue"],
          [says |-> {"bug"}, means |-> "bug_risk"]>>,
     gitguardian |-> <<>>]

Otherwise == [copilot |-> "unknown", coderabbit |-> "unknown",
              sonarcloud |-> "lint_failure", gitguardian |-> "security_issue"]

ToolCategory(tool, says) ==
    LET heard == {i \in DOMAIN CategoryOf[tool] :
                    CategoryOf[tool][i].says \cap says # {}}
    IN IF heard = {} THEN Otherwise[tool]
       ELSE CategoryOf[tool][Min(heard)].means

(* A suggestion block of a thread that has a line is an exact fix, for the *)
(* two tools that write them.                                              *)
Exact(tool, thread) ==
    /\ tool \in {"copilot", "coderabbit"}
    /\ thread.suggests /\ thread.anchored

Tags == [copilot |-> {"copilot"}, coderabbit |-> {"coderabbit"},
         sonarcloud |-> {"sonar"}, gitguardian |-> {"gitguardian", "secret"}]

(* The id three of the adapters make of a databaseId that is null, whatever *)
(* the thread: coderabbit-None, sonar-None, gitguardian-None.              *)
NoneId == 0

(* Any other finding goes by the number of its comment, or by its thread,  *)
(* which tell threads apart as their positions do.                         *)
FindingId(tool, i, thread) ==
    IF thread.numbered \/ tool = "copilot" THEN i ELSE NoneId

(* The payload item of thread i.                                           *)
Item(tool, i, thread) ==
    [file |-> thread.file,
     says |-> thread.says \cap {Hints[k].says : k \in DOMAIN Hints},
     category |-> ToolCategory(tool, thread.says),
     severity |-> IF tool = "gitguardian" THEN "critical" ELSE "medium",
     autofix |-> Exact(tool, thread),
     rule |-> IF tool = "sonarcloud" THEN thread.rule ELSE NoRule,
     id |-> FindingId(tool, i, thread),
     thread |-> i]

(* Threads with a blank first comment are dropped.                         *)
ToPayloadFindings(tool, threads, positions) ==
    {Item(tool, i, threads[i]) : i \in {j \in positions : ~threads[j].blank}}

-----------------------------------------------------------------------------
(* registry.py: an adapter only for a known, enabled tool.                 *)
HasAdapter(tool, enabled) == tool \in Tools /\ tool \in enabled
=============================================================================
