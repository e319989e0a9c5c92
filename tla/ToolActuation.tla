--------------------------- MODULE ToolActuation ----------------------------
(***************************************************************************)
(* Acting on a review tool's threads (orchestration/tool_dispatcher.py):    *)
(* read the tool's unresolved threads, repair those with an exact fix,      *)
(* answer each thread (tools/responder.py) and write a report of it, then   *)
(* ask the model about the others and answer those.  GitHub is reached one  *)
(* call at a time, and any call may fail, before or after its effect.       *)
(* People resolve and reopen threads meanwhile, and the process may die;    *)
(* nothing is undone, and a later run starts from what GitHub then says.    *)
(* The executor appears as its outcomes, those RepairLane allows.           *)
(***************************************************************************)
EXTENDS ToolAdapters, Routing

CONSTANTS Conversations,  \* sequences of threads the pull request may have
          Configs,        \* configurations
          Matrices,       \* fix matrices
          Enabled,        \* tools the configuration enables
          MaxRuns         \* bound: runs on one pull request

ASSUME ToolActuationAssumption ==
    /\ Conversations \subseteq Seq(Thread)
    /\ \A c \in Configs : {"mode", "allow_push", "write_ceiling",
                           "post_comment"} \subseteq DOMAIN c
    /\ \A m \in Matrices : m \in Seq(Range(m))
    /\ MaxRuns \in Nat /\ Enabled \subseteq Tools

VARIABLES threads,    \* review threads at GitHub
          resolved,   \* who resolved each: nobody ("open"), bot or person
          landed,     \* threads whose fix is in a commit at origin
          tool, config, matrix,
          runs,       \* runs begun
          pc,         \* what the run does next
          found,      \* findings made of the threads it read
          execution,  \* of the deterministic lane
          proposals,  \* ids of findings the model made an instruction for
          lane,       \* the lane whose findings are being answered
          waiting,    \* those of them not yet answered
          replies,    \* history: what this run replied in each thread
          reports,    \* fix reports on disk, by finding id
          vouched     \* history: findings whose verified fix was kept

github == <<threads, resolved>>
given  == <<tool, config, matrix, runs>>
local  == <<found, execution, proposals, lane, waiting>>
vars   == <<github, landed, given, pc, local, replies, reports, vouched>>

Positions == DOMAIN threads
Ids       == Positions \cup {NoneId}
IdOf(i)   == FindingId(tool, i, threads[i])

RepairModes == {"repair_and_verify", "repair_verify_and_push"}
Pushes == config.allow_push /\ config.mode = "repair_verify_and_push"

NoExecution == [status |-> "none", applied |-> {}]
NoReport    == [outcome |-> "none", strategy |-> ProposeOnly, tier |-> "none"]

(* At the end of a run: it returned, or it raised, or it was killed.       *)
Rest == {"handled", "raised", "killed"}

Init ==
    /\ threads \in Conversations
    /\ tool \in Tools /\ HasAdapter(tool, Enabled)
    /\ config \in Configs /\ matrix \in Matrices
    /\ resolved = [i \in Positions |-> "open"] /\ landed = {}
    /\ runs = 0 /\ pc = "handled" /\ found = {}
    /\ execution = NoExecution /\ proposals = {}
    /\ lane = "autofix" /\ waiting = {}
    /\ replies = [i \in Positions |-> <<>>]
    /\ reports = [n \in Ids |-> NoReport] /\ vouched = {}

Autofix == {f \in found : f.autofix}
Manual  == found \ Autofix

(* Findings are answered in the order of their threads.                    *)
Current == CHOOSE f \in waiting : \A g \in waiting : f.thread <= g.thread

-----------------------------------------------------------------------------
(* Other people                                                            *)

PersonResolves(i) ==
    /\ resolved' = [resolved EXCEPT ![i] = "person"]
    /\ UNCHANGED <<threads, landed, given, pc, local, replies, reports,
                   vouched>>

PersonReopens(i) ==
    /\ resolved' = [resolved EXCEPT ![i] = "open"]
    /\ UNCHANGED <<threads, landed, given, pc, local, replies, reports,
                   vouched>>

(* A push, the bot's included, took the thread's line away.  A run reads   *)
(* it once, so between runs is soon enough.                                *)
Outdates(i) ==
    /\ pc \in Rest
    /\ threads' = [threads EXCEPT ![i].anchored = FALSE]
    /\ UNCHANGED <<resolved, landed, given, pc, local, replies, reports,
                   vouched>>

-----------------------------------------------------------------------------
(* The run                                                                 *)

(* In a fresh checkout.                                                    *)
Begin ==
    /\ pc \in Rest /\ runs < MaxRuns
    /\ runs' = runs + 1 /\ pc' = "read"
    /\ found' = {} /\ execution' = NoExecution /\ proposals' = {}
    /\ waiting' = {} /\ replies' = [i \in Positions |-> <<>>]
    /\ UNCHANGED <<github, landed, tool, config, matrix, lane, reports,
                   vouched>>

Raise ==
    /\ pc' = "raised"
    /\ UNCHANGED <<threads, given, local, reports>>

(* _to_finding: the item, as a finding of the agent review.                *)
ToFinding(item) ==
    [d \in DOMAIN item \cup {"source"} |->
       IF d = "source" THEN "agent_review" ELSE item[d]]

Read ==
    /\ pc = "read"
    /\ LET mine == ReadFindings(tool, threads,
                               [i \in Positions |-> resolved[i] # "open"])
       IN found' = {ToFinding(item) :
                      item \in ToPayloadFindings(tool, threads, mine)}
    /\ pc' = IF found' = {} THEN "handled"
             ELSE IF Autofix' # {} THEN "execute" ELSE "propose"
    /\ UNCHANGED <<github, landed, given, execution, proposals, lane,
                   waiting, replies, reports, vouched>>

ReadRaises ==
    /\ pc = "read" /\ Raise
    /\ UNCHANGED <<resolved, landed, replies, vouched>>

Plan == BuildPlan(Autofix, config)

Executed(status, applied) ==
    /\ pc = "execute" /\ pc' = "reply"
    /\ execution' = [status |-> status, applied |-> {f.id : f \in applied}]
    /\ lane' = "autofix" /\ waiting' = Autofix
    /\ vouched' = vouched \cup applied
    /\ UNCHANGED <<github, given, found, proposals, replies, reports>>

Mutant_GateSkipped == config.mode \in RepairModes

ExecutorRuns ==
    config.mode \in RepairModes /\ ~RequiresHumanApproval(Plan, config)

ExecutorDoesNotRun ==
    /\ ~ExecutorRuns
    /\ Executed(IF config.mode \in RepairModes
                  THEN "approval_required" ELSE "none", {})
    /\ UNCHANGED landed

ExecutorKeepsNothing(status) ==
    /\ ExecutorRuns
    /\ status \in {"no_applicable_instructions",
                   "rolled_back_verification_failed"}
    /\ Executed(status, {})
    /\ UNCHANGED landed

(* A commit needs something that has not landed before.  What was applied  *)
(* is told by id.                                                          *)
ExecutorCompletes(A) ==
    /\ ExecutorRuns
    /\ A \subseteq Plan.targeted_findings /\ A # {}
    /\ Pushes => ~ ({f.thread : f \in A} \subseteq landed)
    /\ Executed("completed", A)
    /\ landed' = IF Pushes THEN landed \cup {f.thread : f \in A} ELSE landed

(* Any command may fail; a push may have landed nevertheless.              *)
ExecutorRaises(A) ==
    /\ pc = "execute" /\ ExecutorRuns
    /\ A \subseteq Plan.targeted_findings /\ (~Pushes => A = {})
    /\ landed' = landed \cup {f.thread : f \in A}
    /\ vouched' = vouched \cup A
    /\ Raise
    /\ UNCHANGED <<resolved, replies>>

(* propose_repairs; the router's garbage and other exceptions raise.  Of    *)
(* several answers of one id the last counts, which may be any of P.       *)
Propose(P) ==
    /\ pc = "propose" /\ pc' = "reply"
    /\ P \subseteq SentToModel(Manual)
    /\ proposals' = {f.id : f \in P}
    /\ lane' = "manual" /\ waiting' = Manual
    /\ UNCHANGED <<github, landed, given, found, execution, replies, reports,
                   vouched>>

ProposeRaises ==
    /\ pc = "propose" /\ SentToModel(Manual) # {} /\ Raise
    /\ UNCHANGED <<resolved, landed, replies, vouched>>

-----------------------------------------------------------------------------
(* Answering one thread                                                    *)

Mutant_Outcome(f) ==
    IF f.autofix /\ execution.status = "completed" THEN "fixed"
    ELSE IF ~f.autofix /\ f.id \in proposals THEN "proposed"
    ELSE "justified_skip"

Outcome(f) ==
    IF f.autofix /\ execution.status = "completed" /\ f.id \in execution.applied
      THEN "fixed"
    ELSE IF ~f.autofix /\ f.id \in proposals THEN "proposed"
    ELSE "justified_skip"

Replied(i) == replies' = [replies EXCEPT ![i] = Append(@, Outcome(Current))]

(* A reply needs the number of the comment it answers, the resolution      *)
(* below only the thread.                                                  *)
Answerable(f) == config.post_comment /\ threads[f.thread].numbered

Reply ==
    /\ pc = "reply" /\ waiting # {}
    /\ IF Answerable(Current)
         THEN Replied(Current.thread) ELSE UNCHANGED replies
    /\ pc' = IF config.post_comment /\ Outcome(Current) = "fixed"
               THEN "resolve" ELSE "report"
    /\ UNCHANGED <<github, landed, given, local, reports, vouched>>

ReplyRaises ==
    /\ pc = "reply" /\ waiting # {} /\ Answerable(Current)
    /\ Replied(Current.thread) \/ UNCHANGED replies
    /\ Raise
    /\ UNCHANGED <<resolved, landed, vouched>>

Closed == resolved' = [resolved EXCEPT ![Current.thread] =
                         IF @ = "open" THEN "bot" ELSE @]

ResolveThread ==
    /\ pc = "resolve" /\ pc' = "report"
    /\ Closed
    /\ UNCHANGED <<threads, landed, given, local, replies, reports, vouched>>

ResolveRaises ==
    /\ pc = "resolve"
    /\ Closed \/ UNCHANGED resolved
    /\ Raise
    /\ UNCHANGED <<landed, replies, vouched>>

Subject(f) == [tool |-> tool, complexity |-> f.severity, rule_id |-> f.rule,
               tags |-> Tags[tool], category |-> Category(f)]

(* Strategies and models are looked up by id: of several findings of one   *)
(* id, the last.                                                           *)
Namesake(f, F) == CHOOSE g \in F : /\ g.id = f.id
                                   /\ \A h \in F : h.id = f.id
                                                  => h.thread <= g.thread

Strategy(f) == Resolve(matrix, Subject(Namesake(f, found)))

(* The outcome in the report is whether the thread was resolved, and else  *)
(* read off the text of the reply, posted or not.                          *)
Report(f) ==
    [outcome  |-> IF Outcome(f) = "fixed" /\ config.post_comment THEN "fixed"
                  ELSE IF Outcome(f) = "proposed" THEN "proposed"
                  ELSE "justified_skip",
     strategy |-> Strategy(f),
     tier     |-> IF f.autofix THEN "none"
                  ELSE ResolveForFinding(Subject(Namesake(f, Manual)),
                                         Strategy(f), 0).tier]

WriteReport ==
    /\ pc = "report"
    /\ reports' = [reports EXCEPT ![Current.id] = Report(Current)]
    /\ waiting' = waiting \ {Current}
    /\ pc' = "reply"
    /\ UNCHANGED <<github, landed, given, found, execution, proposals, lane,
                   replies, vouched>>

WriteRaises ==
    /\ pc = "report" /\ Raise
    /\ UNCHANGED <<resolved, landed, replies, vouched>>

(* The first lane is answered: on to the second, or all is.                *)
LaneAnswered ==
    /\ pc = "reply" /\ waiting = {}
    /\ pc' = IF lane = "autofix" /\ Manual # {} THEN "propose" ELSE "handled"
    /\ UNCHANGED <<github, landed, given, local, replies, reports, vouched>>

Die ==
    /\ pc \notin Rest /\ pc' = "killed"
    /\ UNCHANGED <<github, landed, given, local, replies, reports, vouched>>

Next ==
    \/ \E i \in Positions : PersonResolves(i) \/ PersonReopens(i) \/ Outdates(i)
    \/ Begin \/ Read \/ ReadRaises
    \/ ExecutorDoesNotRun
    \/ \E status \in {"no_applicable_instructions",
                     "rolled_back_verification_failed"} :
          ExecutorKeepsNothing(status)
    \/ \E A \in SUBSET Autofix : ExecutorCompletes(A) \/ ExecutorRaises(A)
    \/ \E P \in SUBSET Manual : Propose(P)
    \/ ProposeRaises
    \/ Reply \/ ReplyRaises \/ ResolveThread \/ ResolveRaises
    \/ WriteReport \/ WriteRaises
    \/ LaneAnswered \/ Die

Spec == Init /\ [][Next]_vars

-----------------------------------------------------------------------------
(* Properties.                                                             *)

Outcomes == {"fixed", "proposed", "justified_skip"}

(* Types; and whatever waits for an answer is a finding of this run.       *)
TypeOK ==
    /\ threads \in Conversations \cup Seq(Thread)
    /\ resolved \in [Positions -> {"open", "bot", "person"}]
    /\ landed \subseteq Positions
    /\ tool \in Tools /\ config \in Configs /\ matrix \in Matrices
    /\ runs \in 0..MaxRuns
    /\ pc \in Rest \cup {"read", "execute", "propose", "reply", "resolve",
                       "report"}
    /\ \A f \in found : f \in Finding /\ f.thread \in Positions /\ f.id \in Ids
    /\ execution.applied \subseteq {f.id : f \in Autofix}
    /\ proposals \subseteq {f.id : f \in Manual}
    /\ lane \in {"autofix", "manual"}
    /\ waiting \subseteq IF lane = "autofix" THEN Autofix ELSE Manual
    /\ pc \in {"resolve", "report"} => waiting # {}
    /\ replies \in [Positions -> Seq(Outcomes)]
    /\ \A n \in Ids : reports[n].outcome \in Outcomes \cup {"none"}
    /\ \A f \in vouched : f \in Finding /\ f.thread \in Positions

(* The dispatcher cannot tell these threads apart: their findings go by one *)
(* id.  A thread whose first comment has a databaseId is one only with     *)
(* itself.                                                                 *)
Alike(i, j) == IdOf(i) = IdOf(j)

(* A thread the bot resolved had a fix that was verified, and that was     *)
(* within what the gate lets through: no protected path, no gated          *)
(* category, no severe finding, nothing above T2.  So it is after any      *)
(* number of runs, failures, and other people's doings, and although the   *)
(* dispatcher hands the gate its autofix findings only, without the        *)
(* protected manual ones that run_pipeline adds.  Where several threads    *)
(* are alike, the fix may have been another's.                             *)
ResolvedIsRepaired ==
    \A i \in Positions : resolved[i] = "bot" =>
        \E f \in vouched :
            /\ Alike(f.thread, i) /\ ~Protected(f) /\ TierImpact(f) <= 2
            /\ Category(f) \notin ApprovalGated
            /\ f.severity \notin {"high", "critical"}

(* Every thread is answered at most once in a run, and only if it is one   *)
(* of the tool's; a run that returns has answered all it read whose first  *)
(* comment has a number, each for what became of it, and left a report of  *)
(* each that is not alike to another, which tells the same.                *)
AnsweredOnce ==
    /\ \A i \in Positions : replies[i] # <<>> =>
          /\ Len(replies[i]) = 1
          /\ \E f \in found : f.thread = i
          /\ Authors(threads[i]) \cap Markers[tool] # {}
    /\ pc = "handled" => \A f \in found :
          /\ replies[f.thread] =
               IF Answerable(f) THEN <<Outcome(f)>> ELSE <<>>
          /\ f.id # NoneId =>
               (reports[f.id].outcome = "fixed")
                  = (config.post_comment /\ Outcome(f) = "fixed")

(* The bot resolves an open thread only for an edit that this run kept,    *)
(* and that is at origin if the run pushes, and only after it has said so  *)
(* in the thread, if the first comment has a number.  The edit is the      *)
(* thread's own, or that of a thread alike.                                *)
ResolvesHonestly ==
    [][\A i \in Positions :
         resolved[i] = "open" /\ resolved'[i] = "bot" =>
            /\ threads[i].numbered => replies[i] = <<"fixed">>
            /\ IdOf(i) \in execution.applied
            /\ Pushes => \E j \in landed : Alike(i, j)]_vars

(* No finding gets the strategy of a rule less specific than another that  *)
(* matches it, whatever the matrix.                                        *)
StrategiesMostSpecific ==
    \A f \in found : MostSpecificWins(matrix, Subject(f))
=============================================================================
