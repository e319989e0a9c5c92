--------------------------- MODULE RepairExecutor ---------------------------
(***************************************************************************)
(* The deterministic repair lane: execute_repair_plan in                    *)
(* repair/repair_executor.py, one step per command that leaves the process. *)
(* Every command may fail and every point may be interrupted: both raise,   *)
(* and inside the try block the handler rolls back to the backup ref before *)
(* re-raising.  The process may also be killed, which runs no handler.      *)
(* The checkout is reused by a later run, in whatever state it was left.    *)
(***************************************************************************)
EXTENDS Checkout

CONSTANTS PlanEdits,  \* edits a plan may ask for; the others are foreign
          AllowPush,  \* config.allow_push and mode repair_verify_and_push
          MaxRuns,    \* bound: runs in this checkout
          MaxRemote   \* bound: commits at origin

ASSUME ExecutorAssumption ==
    /\ PlanEdits \subseteq Edits /\ IsFiniteSet(PlanEdits)
    /\ AllowPush \in BOOLEAN
    /\ MaxRuns \in Nat /\ MaxRemote \in Nat

VARIABLES pc,         \* the command to run next
          plan,       \* edits of the plan's instructions
          todo,       \* those not yet written
          backup,     \* the branch the backup ref points at
          outcome,    \* why the checkout is being rolled back
          status,     \* RepairExecution.status, or how else it ended
          passed,     \* history: edit sets that passed verification this run
          published,  \* history: this run's commit is at origin
          started     \* runs so far

laneVars == <<pc, plan, todo, backup, outcome, status, passed, published>>
vars == <<checkoutVars, laneVars, started>>

Init ==
    /\ CheckoutInit(Edits \ PlanEdits)
    /\ pc = "idle" /\ plan = {} /\ todo = {} /\ backup = local
    /\ outcome = "none" /\ status = "idle"
    /\ passed = {} /\ published = FALSE /\ started = 0

-----------------------------------------------------------------------------

Goto(k) == pc' = k /\ UNCHANGED <<plan, todo, backup, outcome, status,
                                  passed, published, started>>

End(s) ==
    /\ pc' = "idle" /\ status' = s
    /\ todo' = {} /\ outcome' = "none"
    /\ UNCHANGED <<plan, backup, passed, published, started>>

Mutant_OutcomeLost(why) == Goto("reset")

RollBack(why) ==
    /\ pc' = "reset" /\ outcome' = why
    /\ UNCHANGED <<plan, todo, backup, status, passed, published, started>>

Begin(p) ==
    /\ pc = "idle" /\ started < MaxRuns
    /\ pc' = "gate" /\ plan' = p /\ status' = "running"
    /\ passed' = {} /\ published' = FALSE /\ started' = started + 1
    /\ UNCHANGED <<checkoutVars, todo, backup, outcome>>

(* requires_human_approval(plan, config), whose value Governance gives.    *)
Gate ==
    /\ pc = "gate"
    /\ End("approval_required") \/ Goto("preflight")
    /\ UNCHANGED checkoutVars

(* ensure_clean_worktree                                                   *)
Mutant_NoCleanCheck == pc = "preflight"
CleanCheckPasses == pc = "preflight" /\ ~Dirty

Preflight ==
    /\ CleanCheckPasses
    /\ Goto("backup")
    /\ UNCHANGED checkoutVars

(* The tree is dirty, or git itself fails, before there is a backup ref.   *)
PreflightRaises ==
    /\ pc \in {"preflight", "backup"}
    /\ End("raised")
    /\ UNCHANGED checkoutVars

CreateBackupRef ==
    /\ pc = "backup"
    /\ pc' = "generate" /\ backup' = local
    /\ UNCHANGED <<checkoutVars, plan, todo, outcome, status, passed,
                   published, started>>

NothingApplicable ==
    /\ pc = "generate" /\ plan = {}
    /\ End("no_applicable_instructions")
    /\ UNCHANGED checkoutVars

Generate ==
    /\ pc = "generate" /\ plan # {}
    /\ pc' = "apply" /\ todo' = plan
    /\ UNCHANGED <<checkoutVars, plan, backup, outcome, status, passed,
                   published, started>>

Apply(e) ==
    /\ pc = "apply" /\ e \in todo
    /\ todo' = todo \ {e}
    /\ WriteEdit(e)
    /\ UNCHANGED <<pc, plan, backup, outcome, status, passed, published,
                   started>>

Applied ==
    /\ pc = "apply" /\ todo = {}
    /\ Goto("verify")
    /\ UNCHANGED checkoutVars

VerifyPasses ==
    /\ pc = "verify"
    /\ VerificationWrites
    /\ passed' = passed \cup {work.edits}
    /\ pc' = IF AllowPush THEN "commit" ELSE "return"
    /\ UNCHANGED <<plan, todo, backup, outcome, status, published, started>>

Mutant_FailureIgnored ==
    /\ pc = "verify"
    /\ VerificationWrites
    /\ Goto(IF AllowPush THEN "commit" ELSE "return")

VerifyFails ==
    /\ pc = "verify"
    /\ VerificationWrites
    /\ RollBack("rolled_back_verification_failed")

Commit ==
    /\ pc = "commit"
    /\ CommitAll
    /\ Goto("push")

Push ==
    /\ pc = "push"
    /\ PushBranch
    /\ pc' = "return" /\ published' = TRUE
    /\ UNCHANGED <<plan, todo, backup, outcome, status, passed, started>>

Completed ==
    /\ pc = "return"
    /\ End("completed")
    /\ UNCHANGED checkoutVars

(* rollback_to_backup, after a failed verification or an exception.        *)
Reset ==
    /\ pc = "reset"
    /\ ResetTo(backup)
    /\ Goto("clean")

Clean ==
    /\ pc = "clean"
    /\ CleanUntracked
    /\ End(outcome)

(* A command failed or was interrupted.  A push may have landed all the    *)
(* same: that is a raise at "return".  An exception in the rollback after  *)
(* a failed verification is caught too and starts it again; one in the     *)
(* handler's rollback is not.                                              *)
Guarded == {"generate", "apply", "verify", "commit", "push", "return"}

Mutant_RaiseUnguarded ==
    /\ pc \in Guarded
    /\ End("raised")
    /\ UNCHANGED checkoutVars

Mutant_RaiseRestarts ==
    /\ pc \in Guarded \cup {"reset", "clean"}
    /\ RollBack("raised")
    /\ UNCHANGED checkoutVars

Raise ==
    /\ pc \in Guarded \/ (pc \in {"reset", "clean"} /\ outcome # "raised")
    /\ RollBack("raised")
    /\ UNCHANGED checkoutVars

RollbackRaises ==
    /\ pc \in {"reset", "clean"} /\ outcome = "raised"
    /\ End("rollback_raised")
    /\ UNCHANGED checkoutVars

Kill ==
    /\ pc # "idle"
    /\ End("killed")
    /\ UNCHANGED checkoutVars

OtherPushes ==
    /\ Len(remote) < MaxRemote
    /\ \E e \in Edits \ PlanEdits : OtherPush(e)
    /\ UNCHANGED <<laneVars, started>>

Next ==
    \/ \E p \in SUBSET (PlanEdits \ Tip.edits) : Begin(p)
    \/ Gate \/ Preflight \/ PreflightRaises \/ CreateBackupRef
    \/ NothingApplicable \/ Generate
    \/ \E e \in PlanEdits : Apply(e)
    \/ Applied \/ VerifyPasses \/ VerifyFails
    \/ Commit \/ Push \/ Completed
    \/ Reset \/ Clean \/ Raise \/ RollbackRaises \/ Kill
    \/ OtherPushes

Spec == Init /\ [][Next]_vars

-----------------------------------------------------------------------------
(* Properties.                                                             *)

Statuses == {"idle", "running", "approval_required", "completed", "raised",
             "no_applicable_instructions", "rolled_back_verification_failed",
             "rollback_raised", "killed"}

(* Types; in particular the lane is running exactly when it is not idle,   *)
(* and knows why it rolls back exactly while it does.                      *)
TypeOK ==
    /\ CheckoutType
    /\ pc \in {"idle", "gate", "preflight", "backup", "reset", "clean"}
              \cup Guarded
    /\ plan \subseteq PlanEdits /\ todo \subseteq plan
    /\ pc = "idle" => todo = {}
    /\ pc \in {"reset", "clean"} <=> outcome # "none"
    /\ backup \in Seq(Tree) /\ Len(backup) > 0
    /\ outcome \in {"none", "raised", "rolled_back_verification_failed"}
    /\ status \in Statuses /\ (pc = "idle" <=> status # "running")
    /\ passed \subseteq SUBSET Edits /\ published \in BOOLEAN
    /\ started \in 0..MaxRuns

(* The executor keeps the contract of a repair lane: it publishes only a   *)
(* tree that passed verification and reports what it did ("Verification    *)
(* gates success.  Rollback handles failure.", GOVERNANCE.md).             *)
Lane == INSTANCE RepairLane WITH vouched <- work.edits \in passed
LaneContract == Lane!Spec

(* What is committed is the branch as it was plus exactly the plan's       *)
(* edits: no edit of the developer's, of a killed run or of a rolled back  *)
(* attempt travels along.                                                  *)
CommitsOnlyThePlan ==
    pc \in {"push", "return"} /\ AllowPush =>
        Last(local).edits = Last(backup).edits \cup plan

(* "Verification failure or execution exception MUST call rollback to the  *)
(* backup ref" (RUNTIME_MODEL.md): a run that ends without completing, and *)
(* whose rollback did not itself fail, leaves the branch and the working   *)
(* tree as they were, with nothing untracked.                              *)
NothingLeftBehind ==
    [][/\ pc \in Guarded \cup {"reset", "clean"} /\ pc' = "idle"
       /\ status' \notin {"completed", "killed", "rollback_raised"}
       => local' = backup /\ work' = Last(backup) /\ untracked' = {}]_vars

(* The commands a run has still before it, at the most: those of the       *)
(* straight way to the end, and two rollbacks, since one that starts after *)
(* a failed verification may raise and be started again.                   *)
Ahead ==
    [gate |-> 13, preflight |-> 12, backup |-> 11, generate |-> 10,
     apply |-> 9, verify |-> 8, commit |-> 7, push |-> 6, return |-> 5,
     reset |-> 2, clean |-> 1, idle |-> 0]

Unwritten ==
    IF pc = "apply" THEN todo
    ELSE IF pc \in {"gate", "preflight", "backup", "generate"} THEN plan
    ELSE {}

CommandsLeft ==
    Ahead[pc] + Cardinality(Unwritten)
    + (IF outcome = "rolled_back_verification_failed" THEN 2 ELSE 0)

(* A run ends within a fixed number of commands, whichever of them fail,   *)
(* those of a rollback included: no failure leads to an earlier command or *)
(* a rollback to itself.                                                   *)
EndsInTime ==
    [][pc # "idle" /\ laneVars' # laneVars
       => CommandsLeft' \in 0..(CommandsLeft - 1)]_vars

-----------------------------------------------------------------------------
(* Inductive invariants, for RepairExecutorProofs.                         *)

(* Strengthens CommitsOnlyThePlan: the clean check fixes what the edits    *)
(* are added to, and the backup ref stays where the branch was.            *)
TreeFollowsPlan ==
    /\ pc = "backup" => ~Dirty
    /\ pc = "generate" => local = backup /\ ~Dirty
    /\ pc = "apply" =>
           local = backup /\ work.edits = Tip.edits \cup (plan \ todo)
    /\ pc \in {"verify", "commit"} =>
           local = backup /\ work.edits = Tip.edits \cup plan
    /\ pc = "clean" => local = backup /\ work = Tip
    /\ CommitsOnlyThePlan

(* What the refinement of RepairLane needs: only a verified tree gets past *)
(* verification, and a published commit is never reported as rolled back.  *)
StatusFollowsPush ==
    /\ pc \in {"commit", "push", "return"} => work.edits \in passed
    /\ pc \in {"commit", "push"} => AllowPush
    /\ pc = "return" /\ AllowPush => published
    /\ published => \/ pc \in {"return", "idle"}
                    \/ pc \in {"reset", "clean"} /\ outcome = "raised"
=============================================================================
