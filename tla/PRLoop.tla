------------------------------- MODULE PRLoop -------------------------------
(***************************************************************************)
(* The GitHub PR repair loop of one pull request: the orchestrator          *)
(* (orchestration/pr_loop.py) together with the file-backed state store it  *)
(* reads and writes (runtime/pr_state_store.py).                            *)
(*                                                                         *)
(* A handler is one call of on_pr_event / on_signals_completed.  Between    *)
(* two calls that leave the process (a write of the state file, a provider, *)
(* the executor) a handler only works on its own copy of the state, st[h],  *)
(* so those calls are where it can be interleaved with another handler or   *)
(* where the process can die.  The repair executor is represented by its    *)
(* outcomes; RepairExecutor refines it.                                     *)
(*                                                                         *)
(* disk and file are the PR's JSON file: path.write_text truncates and then *)
(* writes, so a process that dies inside save, or a reader that looks while *)
(* another handler is inside save, meets text that does not parse ("torn"). *)
(***************************************************************************)
EXTENDS Naturals

CONSTANTS
    Handlers,        \* event handlers that may run
    Failures,        \* fingerprints of non-empty sets of findings
    Gated,           \* those whose plan requires human approval
    NoFailure,       \* last_failure_fingerprint is None
    CIStatuses,      \* values signal_provider may return for CI ...
    ReviewStatuses,  \* ... and for the review
    MaxAttempts,     \* PRLoopConfig.max_repair_attempts
    AllowPush,       \* config.allow_push with mode repair_verify_and_push
    Serial,          \* one handler at a time (workflow concurrency group)
    InOrder,         \* an event is never handled after one of a newer head
    MaxHead,         \* bound: head commits the branch goes through
    MaxCrashes       \* bound: process deaths

ASSUME ConstantsAssumption ==
    /\ Gated \subseteq Failures /\ NoFailure \notin Failures
    /\ MaxAttempts \in Nat /\ MaxCrashes \in Nat
    /\ MaxHead \in Nat \ {0}
    /\ CIStatuses \subseteq {"unknown", "pending", "success", "failure"}
    /\ ReviewStatuses \subseteq
           {"unknown", "pending", "approved", "changes_requested"}
    /\ "pending" \in CIStatuses
    /\ {AllowPush, Serial, InOrder} \subseteq BOOLEAN

Heads == 1..MaxHead

TerminalReasons ==
    {"clean", "approval_gate_denied", "fork_pr_detected",
     "failed_tests_after_max_attempts", "max_attempts_reached",
     "protected_branch_direct_mutation", "repeated_same_failure"}

(* The persisted record.  last_repair_commit 0 stands for None; the names   *)
(* of repository and branches never change for one PR and are left out.     *)
PRRepairState ==
    [head_sha: Heads, attempt: 0..MaxAttempts,
     ci_status: CIStatuses \cup {"unknown"},
     review_status: ReviewStatuses \cup {"unknown"},
     last_failure_fingerprint: Failures \cup {NoFailure},
     last_repair_commit: 0..MaxHead,
     terminal_state: BOOLEAN,
     terminal_reason: TerminalReasons \cup {"none"}]

VARIABLES
    \* the pull request and the signals the providers read
    pr,          \* [fork, same_branch]: head in another repo, head = base
    head,        \* the newest head commit
    ci, review,  \* signals of that head
    \* the state store
    disk,        \* "absent", "whole" or "torn"
    file,        \* contents of the last complete write
    \* the handlers
    pc,          \* where each handler is
    cont,        \* where it goes after the save it is in
    ev,          \* [sha, repo]: the event it handles
    st,          \* its in-memory PRRepairState
    failure,     \* fingerprint of the findings it plans for
    \* history
    delivered,   \* newest head an event was handled for
    runs,        \* executor runs started for each head
    lastRun,     \* failure last run on a head, if none other was seen since
    crashes      \* process deaths so far

storeVars   == <<disk, file>>
handlerVars == <<pc, cont, ev, st, failure>>
envVars     == <<pr, head, ci, review>>
historyVars == <<delivered, runs, lastRun, crashes>>
vars == <<envVars, storeVars, handlerVars, historyVars>>

NewState(sha) ==
    [head_sha |-> sha, attempt |-> 0,
     ci_status |-> "unknown", review_status |-> "unknown",
     last_failure_fingerprint |-> NoFailure, last_repair_commit |-> 0,
     terminal_state |-> FALSE, terminal_reason |-> "none"]

NoEvent == [sha |-> 1, repo |-> "same"]

Init ==
    /\ pr \in [fork: BOOLEAN, same_branch: BOOLEAN]
    /\ head = 1
    /\ ci \in CIStatuses /\ review \in ReviewStatuses
    /\ disk = "absent" /\ file = NewState(1)
    /\ pc = [h \in Handlers |-> "idle"]
    /\ cont = [h \in Handlers |-> "idle"]
    /\ ev = [h \in Handlers |-> NoEvent]
    /\ st = [h \in Handlers |-> NewState(1)]
    /\ failure = [h \in Handlers |-> NoFailure]
    /\ delivered = 1
    /\ runs = [s \in Heads |-> 0]
    /\ lastRun = [s \in Heads |-> NoFailure]
    /\ crashes = 0

-----------------------------------------------------------------------------
(* The pull request: its author pushes, CI and reviewers report.           *)

AuthorPushes ==
    /\ head < MaxHead
    /\ head' = head + 1
    /\ ci' = "pending"
    /\ UNCHANGED <<pr, review, storeVars, handlerVars, historyVars>>

SignalsChange ==
    /\ ci' \in CIStatuses /\ review' \in ReviewStatuses
    /\ <<ci', review'>> # <<ci, review>>
    /\ UNCHANGED <<pr, head, storeVars, handlerVars, historyVars>>

-----------------------------------------------------------------------------
(* How a handler moves.                                                    *)

(* The call returned, raised, or its process died: its memory is gone.     *)
Return(h) ==
    /\ pc' = [pc EXCEPT ![h] = "idle"]
    /\ cont' = [cont EXCEPT ![h] = "idle"]
    /\ ev' = [ev EXCEPT ![h] = NoEvent]
    /\ st' = [st EXCEPT ![h] = NewState(1)]
    /\ failure' = [failure EXCEPT ![h] = NoFailure]

(* state_store.save(s), after which the handler continues at k.            *)
SaveThen(h, s, k) ==
    /\ pc' = [pc EXCEPT ![h] = "save"]
    /\ cont' = [cont EXCEPT ![h] = k]
    /\ st' = [st EXCEPT ![h] = s]
    /\ UNCHANGED <<ev, failure>>

Mutant_TerminalForgetsFlag(s, reason) == [s EXCEPT !.terminal_reason = reason]

Terminal(s, reason) ==
    [s EXCEPT !.terminal_state = TRUE, !.terminal_reason = reason]

(* mark_terminal, save, return a PRLoopResult.                             *)
Block(h, s, reason) == SaveThen(h, Terminal(s, reason), "idle")

(* Another handler is inside write_text: the file may look truncated.      *)
OtherSaving(h) == \E g \in Handlers \ {h} : pc[g] = "save"

(* The write completed.                                                    *)
Save(h) ==
    /\ pc[h] = "save"
    /\ disk' = "whole" /\ file' = st[h]
    /\ IF cont[h] = "idle"
         THEN Return(h)
         ELSE /\ pc' = [pc EXCEPT ![h] = cont[h]]
              /\ UNCHANGED <<cont, ev, st, failure>>
    /\ UNCHANGED <<envVars, historyVars>>

(* Two handlers opened the file at once and the longer text's tail stays   *)
(* behind the shorter one.                                                 *)
SaveOverlaps(h) ==
    /\ pc[h] = "save" /\ OtherSaving(h)
    /\ disk' = "torn"
    /\ IF cont[h] = "idle"
         THEN Return(h)
         ELSE /\ pc' = [pc EXCEPT ![h] = cont[h]]
              /\ UNCHANGED <<cont, ev, st, failure>>
    /\ UNCHANGED <<file, envVars, historyVars>>

(* The process dies; inside write_text the file may be left truncated.     *)
Crash(h) ==
    /\ pc[h] # "idle" /\ crashes < MaxCrashes
    /\ crashes' = crashes + 1
    /\ \/ UNCHANGED disk
       \/ pc[h] = "save" /\ disk' = "torn"
    /\ Return(h)
    /\ UNCHANGED <<file, envVars, delivered, runs, lastRun>>

-----------------------------------------------------------------------------
(* on_pr_event.                                                            *)

(* An event for any head the branch has had is delivered, perhaps late or  *)
(* for a second time.  The caller may omit head_repo_full_name ("none");   *)
(* that it does not do so for a pull request from a fork is assumed.       *)
Receive(h, s) ==
    /\ pc[h] = "idle"
    /\ Serial => \A g \in Handlers : pc[g] = "idle"
    /\ s \in 1..head
    /\ InOrder => s >= delivered
    /\ \E repo \in (IF pr.fork THEN {"fork"} ELSE {"same", "none"}) :
           ev' = [ev EXCEPT ![h] = [sha |-> s, repo |-> repo]]
    /\ pc' = [pc EXCEPT ![h] = "load"]
    /\ delivered' = IF s > delivered THEN s ELSE delivered
    /\ UNCHANGED <<cont, st, failure, envVars, storeVars,
                   runs, lastRun, crashes>>

Mutant_AlwaysResets(sha) ==
    IF disk = "absent" THEN NewState(sha)
    ELSE [file EXCEPT !.head_sha = sha, !.attempt = 0,
                      !.last_failure_fingerprint = NoFailure]

Mutant_TerminalCleared(sha) ==
    IF disk = "absent" THEN NewState(sha)
    ELSE [file EXCEPT !.head_sha = sha, !.terminal_state = FALSE,
                      !.terminal_reason = "none"]

(* get_or_create: a head the record does not name clears the attempt, the  *)
(* fingerprint and the terminal mark, and nothing else.                    *)
GetOrCreate(sha) ==
    IF disk = "absent" THEN NewState(sha)
    ELSE IF file.head_sha = sha THEN file
    ELSE [file EXCEPT !.head_sha = sha, !.attempt = 0,
                      !.last_failure_fingerprint = NoFailure,
                      !.terminal_state = FALSE, !.terminal_reason = "none"]

Load(h) ==
    /\ pc[h] = "load" /\ disk # "torn"
    /\ SaveThen(h, GetOrCreate(ev[h].sha), "guards")
    /\ UNCHANGED <<envVars, storeVars, historyVars>>

(* model_validate_json raises on a torn file; nothing catches it.          *)
LoadRaises(h) ==
    /\ pc[h] = "load" /\ (disk = "torn" \/ OtherSaving(h))
    /\ Return(h)
    /\ UNCHANGED <<envVars, storeVars, historyVars>>

IsForkPR(h) == ev[h].repo \notin {"none", "same"}

BlockFork(h) ==
    /\ pc[h] = "guards" /\ IsForkPR(h)
    /\ Block(h, st[h], "fork_pr_detected")
    /\ UNCHANGED <<envVars, storeVars, historyVars>>

BlockProtected(h) ==
    /\ pc[h] = "guards" /\ ~IsForkPR(h) /\ pr.same_branch
    /\ Block(h, st[h], "protected_branch_direct_mutation")
    /\ UNCHANGED <<envVars, storeVars, historyVars>>

(* The record with the signals the provider returned.                      *)
Signalled(h) == [st[h] EXCEPT !.ci_status = ci, !.review_status = review]

SignalsClean == ci = "success" /\ review \in {"approved", "unknown"}
SignalsOpen  == ci \in {"unknown", "pending"} \/ review = "pending"

ReadSignals(h) == pc[h] = "guards" /\ ~IsForkPR(h) /\ ~pr.same_branch

FinishClean(h) ==
    /\ ReadSignals(h) /\ SignalsClean
    /\ Block(h, Signalled(h), "clean")
    /\ UNCHANGED <<envVars, storeVars, historyVars>>

WaitForSignals(h) ==
    /\ ReadSignals(h) /\ SignalsOpen
    /\ SaveThen(h, Signalled(h), "idle")
    /\ UNCHANGED <<envVars, storeVars, historyVars>>

GoRepair(h) ==
    /\ ReadSignals(h) /\ ~SignalsClean /\ ~SignalsOpen
    /\ st' = [st EXCEPT ![h] = Signalled(h)]
    /\ pc' = [pc EXCEPT ![h] = "attempt"]
    /\ UNCHANGED <<cont, ev, failure, envVars, storeVars, historyVars>>

-----------------------------------------------------------------------------
(* _attempt_repair.                                                        *)

Mutant_OffByOne(s) == s.attempt > MaxAttempts

BudgetSpent(s) == s.attempt >= MaxAttempts

BlockExhausted(h) ==
    /\ pc[h] = "attempt" /\ BudgetSpent(st[h])
    /\ Block(h, st[h], "max_attempts_reached")
    /\ UNCHANGED <<envVars, storeVars, historyVars>>

(* finding_provider returned no finding: clean, whatever CI said.          *)
NoFindings(h) ==
    /\ pc[h] = "attempt" /\ ~BudgetSpent(st[h])
    /\ Block(h, st[h], "clean")
    /\ UNCHANGED <<envVars, storeVars, historyVars>>

Mutant_NothingRecorded(s, f) == s

(* PRRepairState.record_failure                                            *)
Recorded(s, f) == [s EXCEPT !.last_failure_fingerprint = f]

Sees(h, f) ==
    lastRun' = IF lastRun[ev[h].sha] = f THEN lastRun
               ELSE [lastRun EXCEPT ![ev[h].sha] = NoFailure]

BlockRepeated(h, f) ==
    /\ pc[h] = "attempt" /\ ~BudgetSpent(st[h])
    /\ st[h].last_failure_fingerprint = f
    /\ Block(h, st[h], "repeated_same_failure")
    /\ Sees(h, f)
    /\ UNCHANGED <<envVars, storeVars, delivered, runs, crashes>>

(* A failure not seen last time is planned for and the record is saved.    *)
PlanRepair(h, f) ==
    /\ pc[h] = "attempt" /\ ~BudgetSpent(st[h])
    /\ st[h].last_failure_fingerprint # f
    /\ pc' = [pc EXCEPT ![h] = "save"]
    /\ cont' = [cont EXCEPT ![h] = "gate"]
    /\ st' = [st EXCEPT ![h] = Recorded(@, f)]
    /\ failure' = [failure EXCEPT ![h] = f]
    /\ Sees(h, f)
    /\ UNCHANGED <<ev, envVars, storeVars, delivered, runs, crashes>>

Mutant_NoGate(f) == FALSE

(* requires_human_approval(plan).  It is true of every plan that is not    *)
(* executable, so the branch that blocks with "plan_not_executable" is     *)
(* never reached and has no action.                                        *)
NeedsApproval(f) == f \in Gated

DenyApproval(h) ==
    /\ pc[h] = "gate" /\ NeedsApproval(failure[h])
    /\ Block(h, st[h], "approval_gate_denied")
    /\ UNCHANGED <<envVars, storeVars, historyVars>>

Mutant_AttemptUnsaved(h) ==
    /\ pc[h] = "gate" /\ ~NeedsApproval(failure[h])
    /\ pc' = [pc EXCEPT ![h] = "execute"]
    /\ st' = [st EXCEPT ![h].attempt = @ + 1]
    /\ UNCHANGED <<cont, ev, failure, envVars, storeVars, historyVars>>

(* The attempt is on disk before the executor is called.                   *)
SpendAttempt(h) ==
    /\ pc[h] = "gate" /\ ~NeedsApproval(failure[h])
    /\ SaveThen(h, [st[h] EXCEPT !.attempt = @ + 1], "execute")
    /\ UNCHANGED <<envVars, storeVars, historyVars>>

-----------------------------------------------------------------------------
(* repair_executor(plan, config, root) and what follows it.                *)

(* History: one more run for this head (counted up to one over the budget, *)
(* which is enough to see the budget broken).                              *)
CountRun(h) ==
    /\ pc[h] = "execute"
    /\ runs' = [runs EXCEPT ![ev[h].sha] =
                    IF @ > MaxAttempts THEN @ ELSE @ + 1]
    /\ lastRun' = [lastRun EXCEPT ![ev[h].sha] = failure[h]]
    /\ UNCHANGED <<delivered, crashes>>

(* A pushed repair is a new head commit, for which CI starts again.        *)
PushHead == AllowPush /\ head < MaxHead /\ head' = head + 1 /\ ci' = "pending"

RepairPushed(h) ==
    /\ CountRun(h) /\ PushHead
    /\ SaveThen(h, [st[h] EXCEPT !.last_repair_commit = head + 1], "idle")
    /\ UNCHANGED <<pr, review, storeVars>>

(* "completed" without a push: push_result is None.                        *)
RepairKept(h) ==
    /\ CountRun(h) /\ ~AllowPush
    /\ SaveThen(h, [st[h] EXCEPT !.last_repair_commit = 0], "idle")
    /\ UNCHANGED <<envVars, storeVars>>

(* An injected executor may gate on its own.                               *)
RepairRefused(h) ==
    /\ CountRun(h)
    /\ Block(h, st[h], "approval_gate_denied")
    /\ UNCHANGED <<envVars, storeVars>>

(* Rolled back, or nothing applicable.                                     *)
RepairFailed(h) ==
    /\ CountRun(h)
    /\ IF BudgetSpent(st[h])
         THEN Block(h, st[h], "failed_tests_after_max_attempts")
         ELSE SaveThen(h, st[h], "idle")
    /\ UNCHANGED <<envVars, storeVars>>

(* The executor raises through the handler; its push may have landed.      *)
RepairRaises(h) ==
    /\ CountRun(h)
    /\ Return(h)
    /\ \/ UNCHANGED <<head, ci>>
       \/ PushHead
    /\ UNCHANGED <<pr, review, storeVars>>

-----------------------------------------------------------------------------
Handle(h) ==
    \/ Save(h) \/ SaveOverlaps(h) \/ Load(h) \/ LoadRaises(h)
    \/ BlockFork(h) \/ BlockProtected(h)
    \/ FinishClean(h) \/ WaitForSignals(h) \/ GoRepair(h)
    \/ BlockExhausted(h) \/ NoFindings(h)
    \/ \E f \in Failures : BlockRepeated(h, f) \/ PlanRepair(h, f)
    \/ DenyApproval(h) \/ SpendAttempt(h)
    \/ RepairPushed(h) \/ RepairKept(h) \/ RepairRefused(h)
    \/ RepairFailed(h) \/ RepairRaises(h)

Next ==
    \/ AuthorPushes
    \/ SignalsChange
    \/ \E h \in Handlers : \/ Handle(h)
                           \/ Crash(h)
                           \/ \E s \in Heads : Receive(h, s)

Spec == Init /\ [][Next]_vars

(* A started handler runs on, and the newest head's event is delivered     *)
(* again and again (GitHub sends one for every check and review).          *)
Fairness ==
    \A h \in Handlers : /\ WF_vars(Handle(h))
                        /\ WF_vars(Receive(h, head))

FairSpec == Spec /\ Fairness

-----------------------------------------------------------------------------
(* Properties.                                                             *)

Steps == {"idle", "load", "save", "guards", "attempt", "gate", "execute"}

(* Types; in particular no record, in memory or on disk, ever counts more  *)
(* attempts than max_repair_attempts.                                      *)
TypeOK ==
    /\ pr \in [fork: BOOLEAN, same_branch: BOOLEAN]
    /\ head \in Heads /\ ci \in CIStatuses /\ review \in ReviewStatuses
    /\ disk \in {"absent", "whole", "torn"} /\ file \in PRRepairState
    /\ pc \in [Handlers -> Steps]
    /\ cont \in [Handlers -> {"idle", "guards", "gate", "execute"}]
    /\ ev \in [Handlers -> [sha: Heads, repo: {"same", "fork", "none"}]]
    /\ st \in [Handlers -> PRRepairState]
    /\ failure \in [Handlers -> Failures \cup {NoFailure}]
    /\ delivered \in Heads
    /\ runs \in [Heads -> 0..(MaxAttempts + 1)]
    /\ lastRun \in [Heads -> Failures \cup {NoFailure}]
    /\ crashes \in 0..MaxCrashes

(* The executor is never started for a fork, for head = base, or for       *)
(* findings whose plan needs approval, however handlers interleave         *)
(* ("run approval gate before mutation", GOVERNANCE.md).                   *)
GuardedRuns ==
    \A s \in Heads : runs[s] > 0 => /\ ~pr.fork /\ ~pr.same_branch
                                    /\ lastRun[s] \notin Gated

(* One handler at a time and in order, the loop keeps the repair budget    *)
(* across crashes, torn writes and redelivered events: it implements       *)
(* RepairBudget for the newest head it was told of.                        *)
Budget == INSTANCE RepairBudget WITH Max <- MaxAttempts,
                                     cur <- delivered,
                                     used <- runs[delivered]
BudgetPromise == Budget!Spec

(* An attempt is persisted before its run: at rest, no run is missing from *)
(* the record, and only a crash can have spent an attempt without a run.   *)
AttemptsAccountForRuns ==
    disk = "whole" /\ (\A h \in Handlers : pc[h] = "idle") =>
        /\ runs[file.head_sha] <= file.attempt
        /\ file.attempt <= runs[file.head_sha] + crashes

(* A failure that was just tried on a head is not tried again on it before *)
(* another failure was seen there, crashes and redeliveries included       *)
(* ("stop on repeated same failure fingerprint", GOVERNANCE.md).           *)
NoFutileRetry ==
    [][\A h \in Handlers :
          CountRun(h) => lastRun[ev[h].sha] # failure[h]]_<<pc, runs>>

(* While the record names the same head, attempts never go down and a      *)
(* terminal mark never comes off.                                          *)
RecordOnlyAdvances ==
    [][disk # "absent" /\ file'.head_sha = file.head_sha =>
          /\ file'.attempt >= file.attempt
          /\ file.terminal_state => file'.terminal_state]_file

(* "The loop exits deterministically on terminal state": once CI and       *)
(* review stay decided, redelivered events drive the record into a         *)
(* terminal state for good.                                                *)
Settles ==
    <>[](~SignalsOpen) /\ [](disk # "torn")
        => <>[](disk = "whole" /\ file.terminal_state)

-----------------------------------------------------------------------------
(* Inductive invariants, for PRLoopProofs.                                 *)

(* The handler is at step k, or inside the save that leads to it.          *)
Reaches(h, k) == pc[h] = k \/ (pc[h] = "save" /\ cont[h] = k)

(* Strengthens TypeOK: a planned repair has an attempt left to spend.      *)
AttemptLeft ==
    \A h \in Handlers : Reaches(h, "gate") => st[h].attempt < MaxAttempts

(* Strengthens GuardedRuns: what the guards have ruled out at each step.   *)
GuardsPassed(h) ==
    /\ pc[h] = "load" \/ Reaches(h, "guards") =>
           ev[h].repo \in (IF pr.fork THEN {"fork"} ELSE {"same", "none"})
    /\ pc[h] = "attempt" \/ Reaches(h, "gate") \/ Reaches(h, "execute") =>
           ~pr.fork /\ ~pr.same_branch
    /\ Reaches(h, "execute") => failure[h] \notin Gated

GuardInv == GuardedRuns /\ \A h \in Handlers : GuardsPassed(h)

(* The rest holds when handlers run one at a time and in order.            *)

OneAtATime == \A g, h \in Handlers : pc[g] # "idle" /\ pc[h] # "idle" => g = h

(* What the last complete write says about the runs made so far.           *)
FileAccounts ==
    /\ disk = "absent" => file = NewState(1)
    /\ file.head_sha <= delivered
    /\ runs[file.head_sha] <= file.attempt
    /\ lastRun[file.head_sha] \in {NoFailure, file.last_failure_fingerprint}
    /\ \A t \in Heads : t > file.head_sha => runs[t] = 0 /\ lastRun[t] = NoFailure

(* An attempt is spent (1) between the decision to run and the run.        *)
Spent(h) == IF Reaches(h, "execute") THEN 1 ELSE 0

(* What a handler's copy says, from the time it has loaded it.             *)
CopyAccounts(h) ==
    /\ st[h].head_sha = delivered
    /\ runs[delivered] + Spent(h) <= st[h].attempt
    /\ st[h].attempt <= runs[delivered] + Spent(h) + crashes
    /\ lastRun[delivered] \in {NoFailure, st[h].last_failure_fingerprint}
    /\ Reaches(h, "gate") \/ Reaches(h, "execute") =>
           /\ failure[h] \in Failures /\ lastRun[delivered] = NoFailure
           /\ failure[h] = st[h].last_failure_fingerprint
    /\ pc[h] = "execute" => file = st[h] /\ disk = "whole"
    /\ file.head_sha = delivered =>
           /\ st[h].attempt >= file.attempt
           /\ file.terminal_state => st[h].terminal_state

HandlerAccounts(h) ==
    /\ pc[h] # "idle" => ev[h].sha = delivered
    /\ pc[h] \notin {"idle", "load"} => CopyAccounts(h)

RestAccounts ==
    (\A h \in Handlers : pc[h] # "execute") =>
        file.attempt <= runs[file.head_sha] + crashes

SerialInv ==
    /\ OneAtATime /\ FileAccounts /\ RestAccounts
    /\ \A h \in Handlers : HandlerAccounts(h)
=============================================================================
