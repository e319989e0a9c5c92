------------------------------ MODULE LLMApply ------------------------------
(***************************************************************************)
(* The LLM repair lane: apply_llm_proposals in repair/llm_apply.py.  It     *)
(* works in the checkout as it finds it, clean or not, and takes a snapshot *)
(* of the tracked changes instead of a backup ref.  A failed verification   *)
(* restores the snapshot and asks the router for other proposals, once.     *)
(*                                                                         *)
(* As in RepairExecutor a step is one command that leaves the process, any  *)
(* of which may raise.  An exception restores the snapshot and goes on.     *)
(***************************************************************************)
EXTENDS Checkout

CONSTANTS ProposalEdits,  \* edits the router may propose
          AllowPush,      \* config.allow_push and mode repair_verify_and_push
          MaxRetries,     \* MAX_RETRIES
          MaxRuns,        \* bound: runs in this checkout
          MaxRemote       \* bound: commits at origin

ASSUME LLMAssumption ==
    /\ ProposalEdits \subseteq Edits /\ IsFiniteSet(ProposalEdits)
    /\ AllowPush \in BOOLEAN
    /\ MaxRetries \in Nat /\ MaxRuns \in Nat /\ MaxRemote \in Nat

VARIABLES pc,         \* the command to run next
          plan,       \* edits of the eligible proposals of this attempt
          todo,       \* those not yet written
          snapshot,   \* the tracked changes the lane found
          attempt,    \* proposals asked for again so far
          outcome,    \* why the snapshot is being restored
          status,     \* RepairExecution.status, or how else it ended
          passed,     \* history: edit sets that passed verification this run
          published,  \* history: this run's commit is at origin
          found,      \* history: branch and tracked files when the run began
          started     \* runs so far

laneVars == <<pc, plan, todo, snapshot, attempt, outcome, status, passed,
              published, found>>
vars == <<checkoutVars, laneVars, started>>

Found == [branch |-> local, work |-> work]

Init ==
    /\ CheckoutInit(Edits \ ProposalEdits)
    /\ pc = "idle" /\ plan = {} /\ todo = {} /\ snapshot = BaseTree
    /\ attempt = 0 /\ outcome = "none" /\ status = "idle"
    /\ passed = {} /\ published = FALSE /\ found = Found /\ started = 0

-----------------------------------------------------------------------------

Goto(k) == pc' = k /\ UNCHANGED <<plan, todo, snapshot, attempt, outcome,
                                  status, passed, published, found, started>>

End(s) ==
    /\ pc' = "idle" /\ status' = s
    /\ todo' = {} /\ outcome' = "none"
    /\ UNCHANGED <<plan, snapshot, attempt, passed, published, found, started>>

(* restore_worktree(snapshot), three git commands.                         *)
RestoreSnapshot(why) ==
    /\ pc' = "reset" /\ outcome' = why
    /\ UNCHANGED <<plan, todo, snapshot, attempt, status, passed, published,
                   found, started>>

(* Without an eligible proposal the lane returns None: there is no run.    *)
Begin(p) ==
    /\ pc = "idle" /\ started < MaxRuns /\ p # {}
    /\ pc' = "snapshot" /\ plan' = p /\ status' = "running"
    /\ attempt' = 0 /\ passed' = {} /\ published' = FALSE /\ found' = Found
    /\ started' = started + 1
    /\ UNCHANGED <<checkoutVars, todo, snapshot, outcome>>

Snapshot ==
    /\ pc = "snapshot"
    /\ pc' = "apply" /\ todo' = plan /\ snapshot' = StashedChanges
    /\ UNCHANGED <<checkoutVars, plan, attempt, outcome, status, passed,
                   published, found, started>>

(* git checkout or git stash create fails: outside the try block.          *)
SnapshotRaises ==
    /\ pc = "snapshot"
    /\ End("raised")
    /\ UNCHANGED checkoutVars

Apply(e) ==
    /\ pc = "apply" /\ e \in todo
    /\ todo' = todo \ {e}
    /\ WriteEdit(e)
    /\ UNCHANGED <<pc, plan, snapshot, attempt, outcome, status, passed,
                   published, found, started>>

Applied ==
    /\ pc = "apply" /\ todo = {}
    /\ Goto("verify")
    /\ UNCHANGED checkoutVars

VerifyPasses ==
    /\ pc = "verify"
    /\ VerificationWrites
    /\ passed' = passed \cup {work.edits}
    /\ pc' = IF AllowPush THEN "commit" ELSE "return"
    /\ UNCHANGED <<plan, todo, snapshot, attempt, outcome, status, published,
                   found, started>>

Mutant_FailureIgnored ==
    /\ pc = "verify"
    /\ VerificationWrites
    /\ Goto(IF AllowPush THEN "commit" ELSE "return")

Mutant_RetryOnTop ==
    /\ pc = "verify"
    /\ VerificationWrites
    /\ Goto("retry")

VerifyFails ==
    /\ pc = "verify"
    /\ VerificationWrites
    /\ RestoreSnapshot("rolled_back_verification_failed")

Commit ==
    /\ pc = "commit"
    /\ CommitAll
    /\ Goto("push")

Push ==
    /\ pc = "push"
    /\ PushBranch
    /\ pc' = "return" /\ published' = TRUE
    /\ UNCHANGED <<plan, todo, snapshot, attempt, outcome, status, passed,
                   found, started>>

Completed ==
    /\ pc = "return"
    /\ End("completed")
    /\ UNCHANGED checkoutVars

(* git reset --hard HEAD: a commit this run made stays.                    *)
Reset ==
    /\ pc = "reset"
    /\ ResetTo(local)
    /\ Goto("clean")

Clean ==
    /\ pc = "clean"
    /\ CleanUntracked
    /\ Goto("unstash")

AfterRestore == IF outcome = "raised" THEN End("raised") ELSE Goto("retry")

Mutant_SnapshotDropped ==
    /\ pc = "unstash"
    /\ AfterRestore
    /\ UNCHANGED checkoutVars

Unstash ==
    /\ pc = "unstash"
    /\ ApplyStash(snapshot)
    /\ AfterRestore

Mutant_OneRetryMore == attempt > MaxRetries

RetriesSpent == attempt >= MaxRetries

GiveUp ==
    /\ pc = "retry" /\ RetriesSpent
    /\ End("rolled_back_verification_failed")
    /\ UNCHANGED checkoutVars

(* regenerate(stderr), filtered by is_apply_eligible again.                *)
Regenerate(p) ==
    /\ pc = "retry" /\ ~RetriesSpent
    /\ attempt' = attempt + 1 /\ plan' = p /\ outcome' = "none"
    /\ IF p = {}
         THEN pc' = "idle" /\ status' = "rolled_back_no_retry_patch"
              /\ todo' = {}
         ELSE pc' = "apply" /\ todo' = p /\ UNCHANGED status
    /\ UNCHANGED <<checkoutVars, snapshot, passed, published, found, started>>

(* A command failed or was interrupted, also when the push landed all the  *)
(* same; the handler restores the snapshot (again) and re-raises.          *)
Guarded == {"apply", "verify", "commit", "push", "return", "retry"}
Restoring == {"reset", "clean", "unstash"}

Raise ==
    /\ pc \in Guarded \/ (pc \in Restoring /\ outcome # "raised")
    /\ RestoreSnapshot("raised")
    /\ UNCHANGED checkoutVars

RestoreRaises ==
    /\ pc \in Restoring /\ outcome = "raised"
    /\ End("restore_raised")
    /\ UNCHANGED checkoutVars

Kill ==
    /\ pc # "idle"
    /\ End("killed")
    /\ UNCHANGED checkoutVars

OtherPushes ==
    /\ Len(remote) < MaxRemote
    /\ \E e \in Edits \ ProposalEdits : OtherPush(e)
    /\ UNCHANGED <<laneVars, started>>

(* Edits that the branch does not have yet.                                *)
Open == SUBSET (ProposalEdits \ Tip.edits)

Next ==
    \/ \E p \in Open : Begin(p)
    \/ Snapshot \/ SnapshotRaises
    \/ \E e \in ProposalEdits : Apply(e)
    \/ Applied \/ VerifyPasses \/ VerifyFails
    \/ Commit \/ Push \/ Completed
    \/ Reset \/ Clean \/ Unstash \/ GiveUp
    \/ \E p \in Open : Regenerate(p)
    \/ Raise \/ RestoreRaises \/ Kill
    \/ OtherPushes

Spec == Init /\ [][Next]_vars

-----------------------------------------------------------------------------
(* Properties.                                                             *)

Statuses == {"idle", "running", "completed", "raised", "restore_raised",
             "killed",
             "rolled_back_verification_failed", "rolled_back_no_retry_patch"}

(* Types; in particular proposals are asked for at most MAX_RETRIES times  *)
(* more, the lane is running exactly when it is not idle, and it knows why *)
(* it restores the snapshot exactly while it does, or has to retry.        *)
TypeOK ==
    /\ CheckoutType
    /\ pc \in {"idle", "snapshot"} \cup Guarded \cup Restoring
    /\ plan \subseteq ProposalEdits /\ todo \subseteq plan
    /\ pc = "idle" => todo = {}
    /\ pc \in Restoring \cup {"retry"} <=> outcome # "none"
    /\ outcome = "raised" => pc \in Restoring
    /\ snapshot \in Tree /\ attempt \in 0..MaxRetries
    /\ outcome \in {"none", "raised", "rolled_back_verification_failed"}
    /\ status \in Statuses /\ (pc = "idle" <=> status # "running")
    /\ passed \subseteq SUBSET Edits /\ published \in BOOLEAN
    /\ found \in [branch: Seq(Tree), work: Tree] /\ Len(found.branch) > 0
    /\ started \in 0..MaxRuns

(* "Native verification is the hard gate; the bot proposes, and only       *)
(* commits what passes": the lane keeps the same contract as the           *)
(* deterministic one.                                                      *)
Lane == INSTANCE RepairLane WITH vouched <- work.edits \in passed
LaneContract == Lane!Spec

(* What is committed is what the lane found plus the proposals of the last *)
(* attempt: nothing of a rejected attempt survives into the retry.         *)
CommitsOnlyLastAttempt ==
    pc \in {"push", "return"} /\ AllowPush =>
        Last(local).edits = found.work.edits \cup plan

(* "On verification failure the working tree is restored to its pre-apply  *)
(* snapshot (preserving any prior autofix changes)": a run that reports a  *)
(* rollback leaves the branch and the tracked files as it found them.      *)
RollbackRestores ==
    [][status = "running"
       /\ status' \in {"rolled_back_verification_failed",
                       "rolled_back_no_retry_patch"}
       => local' = found.branch /\ work' = found.work]_vars

(* The commands a run has still before it, at the most: those of this      *)
(* attempt, the restoring after it and once more if that raises, and as    *)
(* many for each retry that is left.                                       *)
Ahead ==
    [snapshot |-> 13, apply |-> 12, verify |-> 11, commit |-> 10, push |-> 9,
     return |-> 8, retry |-> 4, reset |-> 3, clean |-> 2, unstash |-> 1,
     idle |-> 0]

Unwritten == IF pc = "apply" THEN todo ELSE IF pc = "snapshot" THEN plan ELSE {}

PerRetry == 9 + Cardinality(ProposalEdits)

CommandsLeft ==
    Ahead[pc] + Cardinality(Unwritten)
    + (IF pc \in Restoring /\ outcome # "raised" THEN 4 ELSE 0)
    + (MaxRetries - attempt) * PerRetry

(* A run ends within a fixed number of commands, whichever of them fail    *)
(* and whatever the router proposes: the retry, the one way back to an     *)
(* earlier command, is not taken again, and restoring does not restart     *)
(* itself.                                                                 *)
EndsInTime ==
    [][pc # "idle" /\ laneVars' # laneVars
       => CommandsLeft' \in 0..(CommandsLeft - 1)]_vars

-----------------------------------------------------------------------------
(* Inductive invariants, for LLMApplyProofs.                               *)

(* Nothing in the lane takes away what is committed.                       *)
WorkHasTip == Tip.edits \subseteq work.edits /\ (Tip.junk => work.junk)

(* The snapshot, put back onto the branch the run found, is the tree the   *)
(* run found.                                                              *)
SnapshotSuffices ==
    found.work = [edits |-> Last(found.branch).edits \cup snapshot.edits,
                  junk  |-> Last(found.branch).junk \/ snapshot.junk]

(* Strengthens CommitsOnlyLastAttempt and RollbackRestores: how branch and *)
(* working tree relate to what was found at each command.                  *)
TreeFollowsAttempt ==
    /\ WorkHasTip
    /\ pc \notin {"idle", "snapshot"} => SnapshotSuffices
    /\ pc = "snapshot" => local = found.branch /\ work = found.work
    /\ pc = "apply" => /\ local = found.branch
                       /\ work.edits = found.work.edits \cup (plan \ todo)
    /\ pc \in {"verify", "commit"} => /\ local = found.branch
                                     /\ work.edits = found.work.edits \cup plan
    /\ outcome = "rolled_back_verification_failed" => local = found.branch
    /\ pc \in {"clean", "unstash"} => work = Tip
    /\ pc = "retry" => work = found.work
    /\ CommitsOnlyLastAttempt

(* What the refinement of RepairLane needs, as in the deterministic lane.  *)
StatusFollowsPush ==
    /\ pc \in {"commit", "push", "return"} => work.edits \in passed
    /\ pc \in {"commit", "push"} => AllowPush
    /\ pc = "return" /\ AllowPush => published
    /\ published => pc \in {"return", "idle"} \/ outcome = "raised"
=============================================================================
