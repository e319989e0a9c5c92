--------------------------- MODULE LLMApplyProofs ---------------------------
(***************************************************************************)
(* Theorems about the LLM repair lane, for any set of edits and any number  *)
(* of retries, of runs and of commits at origin.                            *)
(***************************************************************************)
EXTENDS LLMApply, FiniteSetTheorems, TLAPS

-----------------------------------------------------------------------------
(* The git commands.                                                       *)

LEMMA LastTree ==
    ASSUME NEW s \in Seq(Tree), Len(s) > 0
    PROVE  Last(s) \in Tree
  BY DEF Last

LEMMA AppendTree ==
    ASSUME NEW s \in Seq(Tree), NEW t \in Tree
    PROVE  /\ Append(s, t) \in Seq(Tree) /\ Len(Append(s, t)) > 0
           /\ Last(Append(s, t)) = t
  BY DEF Last

(* Every command of the checkout keeps its types.                          *)
LEMMA CommandTypes ==
    ASSUME CheckoutType,
           \/ UNCHANGED checkoutVars
           \/ \E b \in Seq(Tree) : Len(b) > 0 /\ ResetTo(b)
           \/ CleanUntracked
           \/ \E e \in Edits : WriteEdit(e) \/ OtherPush(e)
           \/ VerificationWrites \/ CommitAll \/ PushBranch
    PROVE  CheckoutType'
  <1> USE DEF CheckoutType
  <1>1. CASE UNCHANGED checkoutVars
    BY <1>1 DEF checkoutVars
  <1>2. CASE \E b \in Seq(Tree) : Len(b) > 0 /\ ResetTo(b)
    BY <1>2, LastTree DEF ResetTo
  <1>3. CASE CleanUntracked
    BY <1>3 DEF CleanUntracked
  <1>4. ASSUME NEW e \in Edits, WriteEdit(e) PROVE CheckoutType'
    BY <1>4 DEF WriteEdit, Tree
  <1>5. ASSUME NEW e \in Edits, OtherPush(e) PROVE CheckoutType'
    <2>1. [Last(remote) EXCEPT !.edits = @ \cup {e}] \in Tree
      BY LastTree DEF Tree
    <2> QED
      BY <1>5, <2>1, AppendTree DEF OtherPush
  <1>6. CASE VerificationWrites
    BY <1>6 DEF VerificationWrites, Tree
  <1>7. CASE CommitAll
    <2>1. Staged \in Tree
      BY DEF Staged, Tree
    <2> QED
      BY <1>7, <2>1, AppendTree DEF CommitAll
  <1>8. CASE PushBranch
    BY <1>8 DEF PushBranch
  <1> QED
    BY <1>1, <1>2, <1>3, <1>4, <1>5, <1>6, <1>7, <1>8

USE LLMAssumption DEF LLMAssumption

-----------------------------------------------------------------------------
(* Type correctness.                                                       *)

LaneType ==
    /\ pc \in {"idle", "snapshot"} \cup Guarded \cup Restoring
    /\ plan \subseteq ProposalEdits /\ todo \subseteq plan
    /\ pc = "idle" => todo = {}
    /\ pc \in Restoring \cup {"retry"} <=> outcome # "none"
    /\ outcome = "raised" => pc \in Restoring
    /\ snapshot \in Tree /\ attempt \in 0..MaxRetries
    /\ outcome \in {"none", "raised", "rolled_back_verification_failed"}
    /\ status \in Statuses /\ (pc = "idle" <=> status # "running")
    /\ passed \subseteq SUBSET Edits /\ published \in BOOLEAN
    /\ found \in [branch: Seq(Tree), work: Tree] /\ Len(found.branch) > 0
    /\ started \in 0..MaxRuns

(* Every action is a move of the lane together with one command.           *)
LEMMA CommandOfStep ==
    ASSUME TypeOK, [Next]_vars
    PROVE  CheckoutType'
  <1>1. ASSUME NEW e \in ProposalEdits, Apply(e) PROVE CheckoutType'
    <2>1. WriteEdit(e) /\ e \in Edits
      BY <1>1 DEF Apply
    <2> QED
      BY <2>1, CommandTypes DEF TypeOK
  <1>2. CASE VerifyPasses \/ VerifyFails
    BY <1>2, CommandTypes DEF VerifyPasses, VerifyFails, TypeOK
  <1>3. CASE Commit \/ Push \/ Clean
    BY <1>3, CommandTypes DEF Commit, Push, Clean, TypeOK
  <1>4. CASE Reset
    <2>1. local \in Seq(Tree) /\ Len(local) > 0
      BY DEF TypeOK, CheckoutType
    <2> QED
      BY <1>4, <2>1, CommandTypes DEF Reset, TypeOK
  <1>5. CASE Unstash
    <2>1. /\ work' = [edits |-> work.edits \cup snapshot.edits,
                      junk  |-> work.junk \/ snapshot.junk]
          /\ UNCHANGED <<local, remote, untracked>>
      BY <1>5 DEF Unstash, ApplyStash
    <2>2. work \in Tree /\ snapshot \in Tree
      BY DEF TypeOK, CheckoutType
    <2>3. work' \in Tree
      BY <2>1, <2>2 DEF Tree
    <2> QED
      BY <2>1, <2>3 DEF TypeOK, CheckoutType
  <1>6. CASE OtherPushes
    BY <1>6, CommandTypes DEF OtherPushes, TypeOK
  <1>7. CASE UNCHANGED checkoutVars
    BY <1>7, CommandTypes DEF TypeOK
  <1> QED
    BY <1>1, <1>2, <1>3, <1>4, <1>5, <1>6, <1>7 DEF Next, vars, Begin,
       Snapshot, SnapshotRaises, Applied, Completed, GiveUp, Regenerate,
       Raise, RestoreRaises, Kill

LEMMA LaneOfStep ==
    ASSUME TypeOK, [Next]_vars
    PROVE  LaneType'
  <1> USE DEF TypeOK, LaneType, Guarded, Restoring, Statuses
  <1>1. ASSUME NEW p \in Open, Begin(p) PROVE LaneType'
    <2>1. started' \in 0..MaxRuns /\ attempt' \in 0..MaxRetries
      BY <1>1 DEF Begin
    <2>2. plan' \subseteq ProposalEdits /\ todo' = {}
      BY <1>1 DEF Begin, Open
    <2>3. found' \in [branch: Seq(Tree), work: Tree] /\ Len(found'.branch) > 0
      BY <1>1 DEF Begin, Found, CheckoutType
    <2> QED
      BY <1>1, <2>1, <2>2, <2>3 DEF Begin
  <1>2. CASE Snapshot
    <2>1. snapshot' \in Tree
      <3>1. work \in Tree /\ Tip \in Tree
        BY LastTree DEF Tip, CheckoutType
      <3> QED
        BY <1>2, <3>1 DEF Snapshot, StashedChanges, Tree
    <2> QED
      BY <1>2, <2>1 DEF Snapshot
  <1>3. CASE SnapshotRaises \/ Applied \/ Completed \/ Commit \/ Reset \/ Clean
    BY <1>3 DEF SnapshotRaises, Applied, Completed, Commit, Reset, Clean, End,
                Goto
  <1>4. ASSUME NEW e \in ProposalEdits, Apply(e) PROVE LaneType'
    BY <1>4 DEF Apply
  <1>5. CASE VerifyPasses
    BY <1>5 DEF VerifyPasses, CheckoutType, Tree
  <1>6. CASE VerifyFails \/ Raise
    BY <1>6 DEF VerifyFails, Raise, RestoreSnapshot
  <1>7. CASE Push
    BY <1>7 DEF Push
  <1>8. CASE Unstash
    BY <1>8 DEF Unstash, AfterRestore, End, Goto
  <1>9. CASE GiveUp \/ RestoreRaises \/ Kill
    BY <1>9 DEF GiveUp, RestoreRaises, Kill, End
  <1>10. ASSUME NEW p \in Open, Regenerate(p) PROVE LaneType'
    <2>1. attempt' \in 0..MaxRetries
      BY <1>10 DEF Regenerate, RetriesSpent
    <2>2. plan' \subseteq ProposalEdits /\ todo' = p
      BY <1>10 DEF Regenerate, Open
    <2> QED
      BY <1>10, <2>1, <2>2 DEF Regenerate
  <1>11. CASE OtherPushes \/ UNCHANGED vars
    BY <1>11 DEF OtherPushes, vars, laneVars
  <1> QED
    BY <1>1, <1>2, <1>3, <1>4, <1>5, <1>6, <1>7, <1>8, <1>9, <1>10, <1>11
       DEF Next

(* Types hold in every reachable state.                                    *)
THEOREM TypeCorrect == Spec => []TypeOK
<1>1. Init => TypeOK
  <2> SUFFICES ASSUME Init PROVE TypeOK
    OBVIOUS
  <2>1. BaseTree \in Tree /\ <<BaseTree>> \in Seq(Tree)
        /\ Len(<<BaseTree>>) > 0
    BY DEF BaseTree, Tree
  <2>2. work \in Tree
    BY DEF Init, CheckoutInit, BaseTree, Tree
  <2>3. CheckoutType
    BY <2>1, <2>2 DEF Init, CheckoutInit, CheckoutType
  <2>4. found \in [branch: Seq(Tree), work: Tree] /\ Len(found.branch) > 0
    BY <2>3 DEF Init, Found, CheckoutType
  <2>5. started \in 0..MaxRuns /\ attempt \in 0..MaxRetries
    BY DEF Init
  <2>6. LaneType
    BY <2>1, <2>4, <2>5 DEF Init, LaneType, Guarded, Restoring, Statuses
  <2> QED
    BY <2>3, <2>6 DEF TypeOK, LaneType
<1>2. TypeOK /\ [Next]_vars => TypeOK'
  BY CommandOfStep, LaneOfStep DEF TypeOK, LaneType
<1> QED
  BY <1>1, <1>2, PTL DEF Spec
-----------------------------------------------------------------------------
(* Branch and working tree.                                                *)

(* Two trees with the same edits and the same junk are the same tree.      *)
LEMMA SameTree ==
    ASSUME NEW s \in Tree, NEW t \in Tree, s.edits = t.edits, s.junk = t.junk
    PROVE  s = t
  BY DEF Tree

LEMMA WorkHasTipStep ==
    ASSUME TypeOK, WorkHasTip, [Next]_vars
    PROVE  WorkHasTip'
  <1> USE DEF WorkHasTip, Tip
  <1>1. CASE UNCHANGED <<local, work>>
    BY <1>1
  <1>2. ASSUME NEW e \in ProposalEdits, Apply(e) PROVE WorkHasTip'
    BY <1>2 DEF Apply, WriteEdit, TypeOK, CheckoutType, Tree
  <1>3. CASE VerifyPasses \/ VerifyFails
    BY <1>3 DEF VerifyPasses, VerifyFails, VerificationWrites, TypeOK,
                CheckoutType, Tree
  <1>4. CASE Commit
    <2>1. Staged \in Tree
      BY DEF Staged, TypeOK, CheckoutType, Tree
    <2>2. Last(local') = work'
      BY <1>4, <2>1, AppendTree DEF Commit, CommitAll, TypeOK, CheckoutType
    <2> QED
      BY <2>2
  <1>5. CASE Reset
    BY <1>5 DEF Reset, ResetTo
  <1>6. CASE Unstash
    <2>1. work'.edits = work.edits \cup snapshot.edits
          /\ work'.junk = (work.junk \/ snapshot.junk) /\ local' = local
      BY <1>6 DEF Unstash, ApplyStash
    <2> QED
      BY <2>1
  <1> QED
    BY <1>1, <1>2, <1>3, <1>4, <1>5, <1>6 DEF Next, Begin, Snapshot,
       SnapshotRaises, Applied, Push, PushBranch, Completed, Clean,
       CleanUntracked, GiveUp, Regenerate, Raise, RestoreRaises, Kill,
       OtherPushes, OtherPush, vars, checkoutVars

(* Taking the snapshot makes SnapshotSuffices true, and nothing breaks it  *)
(* until the next run.                                                     *)
LEMMA SnapshotTaken ==
    ASSUME TypeOK, TreeFollowsAttempt, Snapshot
    PROVE  SnapshotSuffices'
  <1>1. /\ snapshot' = StashedChanges /\ found' = found
        /\ found.work = work /\ found.branch = local
    BY DEF Snapshot, TreeFollowsAttempt
  <1>2. work \in Tree /\ Tip \in Tree
    BY LastTree DEF Tip, TypeOK, CheckoutType
  <1> DEFINE back == [edits |-> Tip.edits \cup StashedChanges.edits,
                      junk  |-> Tip.junk \/ StashedChanges.junk]
  <1>3. back.edits = work.edits /\ back.junk = work.junk
    <2>1. back.edits = work.edits
      BY <1>2 DEF StashedChanges, TreeFollowsAttempt, WorkHasTip, Tree
    <2>2. back.junk = (Tip.junk \/ (work.junk /\ ~Tip.junk))
      BY DEF StashedChanges
    <2>3. Tip.junk \in BOOLEAN /\ work.junk \in BOOLEAN
      BY <1>2 DEF Tree
    <2>4. Tip.junk => work.junk
      BY DEF TreeFollowsAttempt, WorkHasTip
    <2>5. back.junk = work.junk
      BY <2>2, <2>3, <2>4
    <2> QED
      BY <2>1, <2>5
  <1>4. back \in Tree
    BY <1>2 DEF StashedChanges, Tree
  <1>5. back = work
    <2> HIDE DEF back
    <2> QED
      BY <1>2, <1>3, <1>4, SameTree
  <1> QED
    BY <1>1, <1>5 DEF SnapshotSuffices, Tip

LEMMA SnapshotSufficesStep ==
    ASSUME TypeOK, TreeFollowsAttempt, [Next]_vars,
           pc' \notin {"idle", "snapshot"}
    PROVE  SnapshotSuffices'
  <1>1. CASE Snapshot
    BY <1>1, SnapshotTaken
  <1>2. CASE UNCHANGED <<snapshot, found>> /\ pc \notin {"idle", "snapshot"}
    BY <1>2 DEF TreeFollowsAttempt, SnapshotSuffices
  <1>3. CASE SnapshotRaises \/ Completed \/ GiveUp \/ RestoreRaises \/ Kill
    BY <1>3 DEF SnapshotRaises, Completed, GiveUp, RestoreRaises, Kill, End
  <1>4. CASE OtherPushes \/ UNCHANGED vars
    BY <1>2, <1>4 DEF OtherPushes, vars, laneVars
  <1>5. CASE \E p \in Open : Begin(p)
    BY <1>5 DEF Begin
  <1>6. CASE Applied \/ VerifyPasses \/ VerifyFails \/ Commit \/ Push
             \/ Reset \/ Clean
    BY <1>2, <1>6 DEF Applied, VerifyPasses, VerifyFails, Commit, Push, Reset,
       Clean, Goto, RestoreSnapshot
  <1>7. CASE \/ Unstash \/ Raise
             \/ \E e \in ProposalEdits : Apply(e)
             \/ \E p \in Open : Regenerate(p)
    BY <1>2, <1>7 DEF Unstash, AfterRestore, End, Goto, Raise, Guarded,
       Restoring, RestoreSnapshot, Apply, Regenerate
  <1> QED
    BY <1>1, <1>3, <1>4, <1>5, <1>6, <1>7 DEF Next

LEMMA TreeFollowsAttemptStep ==
    ASSUME TypeOK, TreeFollowsAttempt, [Next]_vars
    PROVE  TreeFollowsAttempt'
  <1> DEFINE Rest ==
        /\ pc = "snapshot" => local = found.branch /\ work = found.work
        /\ pc = "apply" =>
               /\ local = found.branch
               /\ work.edits = found.work.edits \cup (plan \ todo)
        /\ pc \in {"verify", "commit"} =>
               /\ local = found.branch
               /\ work.edits = found.work.edits \cup plan
        /\ outcome = "rolled_back_verification_failed" =>
               local = found.branch
        /\ pc \in {"clean", "unstash"} => work = Tip
        /\ pc = "retry" => work = found.work
        /\ CommitsOnlyLastAttempt
  <1>1. WorkHasTip' /\ (pc' \notin {"idle", "snapshot"} => SnapshotSuffices')
    BY WorkHasTipStep, SnapshotSufficesStep DEF TreeFollowsAttempt
  <1>2. Rest'
    <2>1. Rest
      BY DEF TreeFollowsAttempt
    <2> USE <2>1 DEF CommitsOnlyLastAttempt, Tip
    <2>2. ASSUME NEW p \in Open, Begin(p) PROVE Rest'
      BY <2>2 DEF Begin, Found, checkoutVars, TypeOK, Restoring
    <2>3. CASE Snapshot
      BY <2>3 DEF Snapshot, checkoutVars
    <2>4. CASE SnapshotRaises \/ Completed \/ GiveUp \/ RestoreRaises \/ Kill
      BY <2>4 DEF SnapshotRaises, Completed, GiveUp, RestoreRaises, Kill, End,
                  checkoutVars
    <2>5. ASSUME NEW e \in ProposalEdits, Apply(e) PROVE Rest'
      <3>1. /\ work'.edits = work.edits \cup {e} /\ local' = local
            /\ UNCHANGED <<pc, plan, found, outcome>> /\ todo' = todo \ {e}
            /\ pc = "apply" /\ e \in plan
        BY <2>5 DEF Apply, WriteEdit, TypeOK, CheckoutType, Tree
      <3>2. work'.edits = found.work.edits \cup (plan \ todo')
        BY <3>1
      <3> QED
        BY <3>1, <3>2
    <2>6. CASE Applied
      BY <2>6 DEF Applied, Goto, checkoutVars
    <2>7. CASE VerifyPasses \/ VerifyFails
      <3>1. work'.edits = work.edits /\ local' = local
        BY <2>7 DEF VerifyPasses, VerifyFails, VerificationWrites, TypeOK,
                    CheckoutType, Tree
      <3> QED
        BY <2>7, <3>1 DEF VerifyPasses, VerifyFails, RestoreSnapshot
    <2>8. CASE Commit
      <3>1. Staged \in Tree /\ Staged.edits = work.edits
        BY DEF Staged, Tree, TypeOK, CheckoutType
      <3>2. Last(local').edits = work.edits
        BY <2>8, <3>1, AppendTree DEF Commit, CommitAll, TypeOK, CheckoutType
      <3> QED
        BY <2>8, <3>2 DEF Commit, Goto, TypeOK, Restoring
    <2>9. CASE Push
      BY <2>9 DEF Push, PushBranch
    <2>10. CASE Reset \/ Clean
      BY <2>10 DEF Reset, Clean, ResetTo, CleanUntracked, Goto
    <2>11. CASE Unstash
      <3>1. /\ local' = local /\ UNCHANGED <<found, plan>> /\ work = Tip
            /\ work' = [edits |-> work.edits \cup snapshot.edits,
                        junk  |-> work.junk \/ snapshot.junk]
        BY <2>11 DEF Unstash, ApplyStash, AfterRestore, End, Goto
      <3>2. CASE outcome = "raised"
        BY <2>11, <3>1, <3>2 DEF Unstash, AfterRestore, End
      <3>3. CASE outcome # "raised"
        <4>1. outcome = "rolled_back_verification_failed"
          BY <2>11, <3>3 DEF Unstash, TypeOK, Restoring
        <4>2. work' = found.work
          BY <2>11, <3>1, <4>1 DEF Unstash, TreeFollowsAttempt,
                                   SnapshotSuffices
        <4> QED
          BY <2>11, <3>1, <3>3, <4>1, <4>2 DEF Unstash, AfterRestore, Goto
      <3> QED
        BY <3>2, <3>3
    <2>12. ASSUME NEW p \in Open, Regenerate(p) PROVE Rest'
      <3>1. pc = "retry" /\ local = found.branch /\ work = found.work
        BY <2>12 DEF Regenerate, TypeOK, Restoring
      <3> QED
        BY <2>12, <3>1 DEF Regenerate, checkoutVars
    <2>13. CASE Raise
      BY <2>13 DEF Raise, RestoreSnapshot, checkoutVars
    <2>14. CASE OtherPushes \/ UNCHANGED vars
      BY <2>14 DEF OtherPushes, OtherPush, laneVars, vars, checkoutVars
    <2> QED
      BY <2>2, <2>3, <2>4, <2>5, <2>6, <2>7, <2>8, <2>9, <2>10, <2>11, <2>12,
         <2>13, <2>14 DEF Next
  <1> QED
    BY <1>1, <1>2 DEF TreeFollowsAttempt

LEMMA TreeFollows == Spec => []TreeFollowsAttempt
<1>1. Init => TreeFollowsAttempt
  BY DEF Init, CheckoutInit, BaseTree, TreeFollowsAttempt, WorkHasTip, Tip,
         CommitsOnlyLastAttempt, Last
<1> QED
  BY <1>1, TypeCorrect, TreeFollowsAttemptStep, PTL DEF Spec

(* What is committed is what was found plus the last attempt's proposals.  *)
THEOREM OnlyTheLastAttemptIsCommitted == Spec => []CommitsOnlyLastAttempt
<1>1. TreeFollowsAttempt => CommitsOnlyLastAttempt
  BY DEF TreeFollowsAttempt
<1> QED
  BY <1>1, TreeFollows, PTL

(* A reported rollback has restored branch and tracked files.              *)
THEOREM RollbackRestoresSnapshot == Spec => RollbackRestores
<1> DEFINE RolledBack ==
        /\ status = "running"
        /\ status' \in {"rolled_back_verification_failed",
                        "rolled_back_no_retry_patch"}
    Restored == local' = found.branch /\ work' = found.work
<1>1. TypeOK /\ TreeFollowsAttempt /\ [Next]_vars
          => [RolledBack => Restored]_vars
  <2> SUFFICES ASSUME TypeOK, TreeFollowsAttempt, Next, RolledBack
               PROVE  Restored
    BY DEF vars, laneVars
  <2>1. GiveUp \/ \E p \in Open : Regenerate(p)
    BY DEF Next, Begin, Snapshot, SnapshotRaises, Apply, Applied,
       VerifyPasses, VerifyFails, Commit, Push, Completed, Reset, Clean,
       Unstash, AfterRestore, Raise, RestoreRaises, Kill, OtherPushes, End,
       Goto, RestoreSnapshot, laneVars, TypeOK, Restoring
  <2>2. pc = "retry" /\ UNCHANGED <<local, work>>
    BY <2>1 DEF GiveUp, Regenerate, checkoutVars
  <2> QED
    BY <2>2 DEF TypeOK, TreeFollowsAttempt, Restoring
<1> QED
  BY <1>1, TypeCorrect, TreeFollows, PTL DEF Spec, RollbackRestores
-----------------------------------------------------------------------------
(* The contract of a repair lane.                                          *)

LEMMA StatusFollowsPushStep ==
    ASSUME TypeOK, StatusFollowsPush, [Next]_vars
    PROVE  StatusFollowsPush'
  <1> USE DEF TypeOK, StatusFollowsPush, Restoring
  <1>1. ASSUME NEW p \in Open, Begin(p) PROVE StatusFollowsPush'
    BY <1>1 DEF Begin
  <1>2. CASE SnapshotRaises \/ Completed \/ GiveUp \/ RestoreRaises \/ Kill
    BY <1>2 DEF SnapshotRaises, Completed, GiveUp, RestoreRaises, Kill, End
  <1>3. CASE Snapshot \/ Applied
    BY <1>3 DEF Snapshot, Applied, Goto, checkoutVars
  <1>4. CASE \E e \in ProposalEdits : Apply(e)
    BY <1>4 DEF Apply
  <1>5. CASE VerifyPasses
    <2>1. work'.edits = work.edits
      BY <1>5 DEF VerifyPasses, VerificationWrites, CheckoutType, Tree
    <2> QED
      BY <1>5, <2>1 DEF VerifyPasses
  <1>6. CASE VerifyFails \/ Raise
    BY <1>6 DEF VerifyFails, Raise, RestoreSnapshot, Guarded
  <1>7. CASE Commit
    BY <1>7 DEF Commit, CommitAll, Staged, CheckoutType, Tree, Goto
  <1>8. CASE Push
    BY <1>8 DEF Push, PushBranch
  <1>9. CASE Reset \/ Clean \/ Unstash
    BY <1>9 DEF Reset, Clean, Unstash, AfterRestore, Goto, End
  <1>10. ASSUME NEW p \in Open, Regenerate(p) PROVE StatusFollowsPush'
    BY <1>10 DEF Regenerate
  <1>11. CASE OtherPushes \/ UNCHANGED vars
    <2>1. UNCHANGED <<work, pc, outcome, passed, published>>
      BY <1>11 DEF OtherPushes, OtherPush, laneVars, vars, checkoutVars
    <2> QED
      BY <2>1
  <1> QED
    BY <1>1, <1>2, <1>3, <1>4, <1>5, <1>6, <1>7, <1>8, <1>9, <1>10, <1>11
       DEF Next

LEMMA StatusFollows == Spec => []StatusFollowsPush
<1>1. Init => StatusFollowsPush
  BY DEF Init, StatusFollowsPush
<1> QED
  BY <1>1, TypeCorrect, StatusFollowsPushStep, PTL DEF Spec

(* Every step of the lane is a step of the abstract lane, or none.         *)
THEOREM KeepsLaneContract == Spec => LaneContract
<1> DEFINE vouched == work.edits \in passed
<1>1. Init => Lane!Init
  BY DEF Init, Lane!Init
<1>2. TypeOK /\ StatusFollowsPush /\ [Next]_vars
          => [Lane!Next]_<<status, vouched, published>>
  <2> SUFFICES ASSUME TypeOK, StatusFollowsPush, Next
               PROVE  [Lane!Next]_<<status, vouched, published>>
    BY DEF vars, laneVars, checkoutVars
  <2> USE DEF TypeOK, StatusFollowsPush
  <2>1. ASSUME NEW p \in Open, Begin(p)
        PROVE  Lane!Begin
    BY <2>1 DEF Begin, Lane!Begin, Lane!Ended, Lane!Unpublished, Statuses
  <2>2. CASE pc # "idle" /\ status' = status /\ published' = published
    BY <2>2 DEF Lane!Next, Lane!Vouch
  <2>3. CASE Push
    BY <2>3 DEF Push, PushBranch, Lane!Next, Lane!Publish, Restoring
  <2>4. ASSUME NEW s \in Statuses \ {"idle", "running"}, pc # "idle",
               status' = s, published' = published,
               s \in Lane!Unpublished => ~published,
               s = "completed" =>
                   vouched /\ vouched' /\ (AllowPush => published)
        PROVE  Lane!Next
    <3>1. Lane!End(s) /\ s \in Lane!Ended \ {"idle"}
      BY <2>4 DEF Lane!End, Lane!Ended, Lane!Unpublished, Statuses
    <3> QED
      BY <3>1 DEF Lane!Next
  <2>5. CASE SnapshotRaises \/ RestoreRaises \/ Kill
    BY <2>4, <2>5 DEF SnapshotRaises, RestoreRaises, Kill, End, Statuses,
                      Lane!Unpublished, Restoring
  <2>6. CASE Unstash
    BY <2>2, <2>4, <2>6 DEF Unstash, AfterRestore, End, Goto, Statuses,
                            Lane!Unpublished
  <2>7. CASE Completed
    BY <2>4, <2>7 DEF Completed, Lane!Unpublished, Statuses, End, checkoutVars
  <2>8. CASE GiveUp
    BY <2>4, <2>8 DEF GiveUp, End, Statuses, Restoring
  <2>9. CASE \E p \in Open : Regenerate(p)
    <3>1. PICK p \in Open : Regenerate(p)
      BY <2>9
    <3>2. pc # "idle" /\ published' = published /\ ~published
      BY <3>1 DEF Regenerate, Restoring
    <3>3. CASE p = {}
      BY <2>4, <3>1, <3>2, <3>3 DEF Regenerate, Statuses
    <3>4. CASE p # {}
      BY <2>2, <3>1, <3>2, <3>4 DEF Regenerate
    <3> QED
      BY <3>3, <3>4
  <2>10. CASE OtherPushes
    BY <2>10 DEF OtherPushes, OtherPush, laneVars
  <2> QED
    BY <2>1, <2>2, <2>3, <2>5, <2>6, <2>7, <2>8, <2>9, <2>10 DEF Next,
       Snapshot, Apply, Applied, VerifyPasses, VerifyFails, Commit, Reset,
       Clean, Raise, Goto, RestoreSnapshot, Guarded, Restoring, Lane!Next
<1> QED
  BY <1>1, <1>2, TypeCorrect, StatusFollows, PTL
     DEF Spec, LaneContract, Lane!Spec

-----------------------------------------------------------------------------
(* The end of a run.                                                       *)

Restarts == IF outcome # "raised" THEN 4 ELSE 0

Retries == (MaxRetries - attempt) * PerRetry

(* What is left, as a number for each command.                             *)
Left ==
    /\ pc = "snapshot" => CommandsLeft = Cardinality(plan) + 13 + Retries
    /\ pc = "apply" => CommandsLeft = Cardinality(todo) + 12 + Retries
    /\ pc = "verify" => CommandsLeft = 11 + Retries
    /\ pc = "commit" => CommandsLeft = 10 + Retries
    /\ pc = "push" => CommandsLeft = 9 + Retries
    /\ pc = "return" => CommandsLeft = 8 + Retries
    /\ pc = "retry" => CommandsLeft = 4 + Retries
    /\ pc = "reset" => CommandsLeft = 3 + Restarts + Retries
    /\ pc = "clean" => CommandsLeft = 2 + Restarts + Retries
    /\ pc = "unstash" => CommandsLeft = 1 + Restarts + Retries
    /\ pc = "idle" => CommandsLeft = Retries
    /\ Cardinality(plan) \in Nat /\ Cardinality(todo) \in Nat
    /\ Cardinality(ProposalEdits) \in Nat
    /\ Cardinality(todo) <= Cardinality(ProposalEdits)
    /\ PerRetry \in Nat /\ PerRetry = 9 + Cardinality(ProposalEdits)
    /\ Retries \in Nat /\ Restarts \in {0, 4}

LEMMA ProductIsNat ==
    ASSUME NEW m \in Nat, NEW n \in Nat
    PROVE  m * n \in Nat
  OBVIOUS

LEMMA LeftAt == TypeOK => Left
<1> SUFFICES ASSUME TypeOK PROVE Left
  OBVIOUS
<1>1. IsFiniteSet(plan) /\ IsFiniteSet(todo)
  <2>1. plan \subseteq ProposalEdits /\ todo \subseteq ProposalEdits
    BY DEF TypeOK
  <2> QED
    BY <2>1, FS_Subset
<1>2. /\ Cardinality(plan) \in Nat /\ Cardinality(todo) \in Nat
      /\ Cardinality({}) = 0 /\ Cardinality(ProposalEdits) \in Nat
      /\ Cardinality(todo) <= Cardinality(ProposalEdits)
  <2>1. todo \subseteq ProposalEdits
    BY DEF TypeOK
  <2> QED
    BY <1>1, <2>1, FS_CardinalityType, FS_EmptySet, FS_Subset
<1>3. PerRetry \in Nat /\ PerRetry = 9 + Cardinality(ProposalEdits)
  BY <1>2 DEF PerRetry
<1>4. MaxRetries - attempt \in Nat
  BY DEF TypeOK
<1>5. Retries \in Nat
  BY <1>3, <1>4, ProductIsNat DEF Retries
<1>6. Restarts \in {0, 4}
  BY DEF Restarts
<1>7. CommandsLeft = Ahead[pc] + Cardinality(Unwritten)
                     + (IF pc \in Restoring THEN Restarts ELSE 0) + Retries
  BY DEF CommandsLeft, Restarts, Retries
<1> HIDE DEF Retries, CommandsLeft
<1>8. CASE pc \in Restoring
  <2>1. Cardinality(Unwritten) = 0
    BY <1>2, <1>8 DEF Unwritten, Restoring
  <2>2. CommandsLeft = Ahead[pc] + Restarts + Retries
    <3>1. Ahead[pc] \in Nat
      BY <1>8 DEF Ahead, Restoring
    <3> QED
      BY <1>5, <1>6, <1>7, <1>8, <2>1, <3>1
  <2>3. /\ pc = "reset" => CommandsLeft = 3 + Restarts + Retries
        /\ pc = "clean" => CommandsLeft = 2 + Restarts + Retries
        /\ pc = "unstash" => CommandsLeft = 1 + Restarts + Retries
    BY <2>2 DEF Ahead
  <2>4. /\ pc # "snapshot" /\ pc # "apply" /\ pc # "verify" /\ pc # "commit"
        /\ pc # "push" /\ pc # "return" /\ pc # "retry" /\ pc # "idle"
    BY <1>8 DEF Restoring
  <2> QED
    BY <1>2, <1>3, <1>5, <1>6, <2>3, <2>4, Zenon DEF Left
<1>9. CASE pc \notin Restoring
  <2>1. CommandsLeft = Ahead[pc] + Cardinality(Unwritten) + Retries
    <3>1. Ahead[pc] \in Nat /\ Cardinality(Unwritten) \in Nat
      BY <1>2 DEF Ahead, Unwritten, TypeOK, Guarded, Restoring
    <3> QED
      BY <1>5, <1>7, <1>9, <3>1
  <2>2. /\ pc = "snapshot" => CommandsLeft = Cardinality(plan) + 13 + Retries
        /\ pc = "apply" => CommandsLeft = Cardinality(todo) + 12 + Retries
    BY <1>2, <1>5, <2>1 DEF Ahead, Unwritten
  <2>3. /\ pc = "verify" => CommandsLeft = 11 + Retries
        /\ pc = "commit" => CommandsLeft = 10 + Retries
        /\ pc = "push" => CommandsLeft = 9 + Retries
        /\ pc = "return" => CommandsLeft = 8 + Retries
        /\ pc = "retry" => CommandsLeft = 4 + Retries
        /\ pc = "idle" => CommandsLeft = Retries
    BY <1>2, <1>5, <2>1 DEF Ahead, Unwritten
  <2> QED
    BY <1>2, <1>3, <1>5, <1>6, <1>9, <2>2, <2>3, Zenon DEF Left, Restoring
<1> QED
  BY <1>8, <1>9

LEMMA LeftAtNext == TypeOK' => Left'
  BY LeftAt, PTL

LEMMA FewerToWrite ==
    ASSUME TypeOK, NEW e \in todo
    PROVE  Cardinality(todo) = Cardinality(todo \ {e}) + 1
<1>1. IsFiniteSet(todo)
  <2>1. todo \subseteq ProposalEdits
    BY DEF TypeOK
  <2> QED
    BY <2>1, FS_Subset
<1>2. Cardinality(todo \ {e}) = Cardinality(todo) - 1
  BY <1>1, FS_RemoveElement
<1>3. Cardinality(todo) \in Nat
  BY <1>1, FS_CardinalityType
<1> QED
  BY <1>2, <1>3

(* A retry is paid for.                                                    *)
LEMMA RetryCosts ==
    ASSUME TypeOK, PerRetry \in Nat, attempt' = attempt + 1
    PROVE  Retries = Retries' + PerRetry
<1> DEFINE r == MaxRetries - attempt
<1>1. r \in Int /\ MaxRetries - attempt' = r - 1
  BY DEF TypeOK
<1>2. Retries = r * PerRetry /\ Retries' = (r - 1) * PerRetry
  BY <1>1 DEF Retries, PerRetry
<1> HIDE DEF r
<1> QED
  BY <1>1, <1>2

LEMMA FewerLeft ==
    ASSUME TypeOK, TypeOK', Next, pc # "idle", laneVars' # laneVars
    PROVE  CommandsLeft' \in 0..(CommandsLeft - 1)
<1>1. Left /\ Left'
  BY LeftAt, LeftAtNext
<1>2. ASSUME attempt' = attempt PROVE Retries' = Retries
  BY <1>2 DEF Retries, PerRetry
<1>3. CommandsLeft \in Nat /\ CommandsLeft > Retries
  <2>1. CASE pc \in {"snapshot", "apply", "verify", "commit", "push"}
    BY <1>1, <2>1 DEF Left
  <2>2. CASE pc \in {"return", "retry", "reset", "clean", "unstash"}
    BY <1>1, <2>2 DEF Left
  <2> QED
    BY <2>1, <2>2 DEF TypeOK, Guarded, Restoring
<1>4. CASE pc' = "idle" /\ attempt' = attempt
  BY <1>1, <1>2, <1>3, <1>4 DEF Left
<1>5. CASE Snapshot
  BY <1>1, <1>2, <1>5 DEF Snapshot, Left
<1>6. ASSUME NEW e \in ProposalEdits, Apply(e)
      PROVE  CommandsLeft' \in 0..(CommandsLeft - 1)
  <2>1. /\ pc = "apply" /\ pc' = "apply" /\ attempt' = attempt
        /\ e \in todo /\ todo' = todo \ {e}
    BY <1>6 DEF Apply
  <2>2. Cardinality(todo) = Cardinality(todo') + 1
    BY <2>1, FewerToWrite
  <2> QED
    BY <1>1, <1>2, <2>1, <2>2 DEF Left
<1>7. CASE Applied \/ VerifyPasses \/ Commit \/ Push
  BY <1>1, <1>2, <1>7 DEF Applied, VerifyPasses, Commit, Push, Goto, Left
<1>8. CASE VerifyFails
  BY <1>1, <1>2, <1>8 DEF VerifyFails, RestoreSnapshot, Left, Restarts
<1>9. CASE Reset \/ Clean
  BY <1>1, <1>2, <1>9 DEF Reset, Clean, Goto, Left, Restarts
<1>10. CASE Unstash
  BY <1>1, <1>2, <1>4, <1>10 DEF Unstash, AfterRestore, Goto, End, Left,
                                 Restarts
<1>11. ASSUME NEW p \in Open, Regenerate(p)
       PROVE  CommandsLeft' \in 0..(CommandsLeft - 1)
  <2>1. Retries = Retries' + PerRetry
    BY <1>1, <1>11, RetryCosts DEF Regenerate, Left
  <2>2. pc = "retry" /\ (pc' = "idle" \/ pc' = "apply")
    BY <1>11 DEF Regenerate
  <2>3. CASE pc' = "idle"
    BY <1>1, <2>1, <2>2, <2>3 DEF Left
  <2>4. CASE pc' = "apply"
    <3>1. CommandsLeft' <= 12 + Cardinality(ProposalEdits) + Retries'
      BY <1>1, <2>4 DEF Left, PerRetry
    <3>2. CommandsLeft' \in Nat
      BY <1>1, <2>4 DEF Left
    <3>3. CommandsLeft = 13 + Cardinality(ProposalEdits) + Retries'
      BY <1>1, <2>1, <2>2 DEF Left
    <3>4. Cardinality(ProposalEdits) \in Nat /\ Retries' \in Nat
      BY <1>1 DEF Left
    <3> QED
      BY <3>1, <3>2, <3>3, <3>4
  <2> QED
    BY <2>2, <2>3, <2>4
<1>12. CASE Raise
  <2>1. pc' = "reset" /\ CommandsLeft' = 3 + Retries
    BY <1>1, <1>2, <1>12 DEF Raise, RestoreSnapshot, Left, Restarts
  <2>2. CommandsLeft > 3 + Retries
    <3>1. CASE pc \in Guarded
      BY <1>1, <3>1 DEF Guarded, Left
    <3>2. CASE pc \in Restoring /\ outcome # "raised"
      BY <1>1, <3>2 DEF Left, Restarts, Restoring
    <3> QED
      BY <1>12, <3>1, <3>2 DEF Raise
  <2> QED
    BY <1>1, <1>3, <2>1, <2>2 DEF Left
<1> QED
  BY <1>4, <1>5, <1>6, <1>7, <1>8, <1>9, <1>10, <1>11, <1>12 DEF Next, Begin,
     SnapshotRaises, Completed, GiveUp, RestoreRaises, Kill, OtherPushes, End

(* A run of the lane ends within the commands of its attempts and of       *)
(* restoring after each, whatever fails and whatever is proposed.          *)
THEOREM RunsDown == Spec => EndsInTime
<1>1. TypeOK /\ TypeOK' /\ [Next]_vars
        => [pc # "idle" /\ laneVars' # laneVars
              => CommandsLeft' \in 0..(CommandsLeft - 1)]_vars
  BY FewerLeft DEF vars, laneVars
<1> QED
  BY <1>1, TypeCorrect, PTL DEF Spec, EndsInTime
=============================================================================
