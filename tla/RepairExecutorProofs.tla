------------------------ MODULE RepairExecutorProofs ------------------------
(***************************************************************************)
(* Theorems about the deterministic repair lane, for any set of edits and   *)
(* any number of runs and of commits at origin.                             *)
(***************************************************************************)
EXTENDS RepairExecutor, FiniteSetTheorems, TLAPS

-----------------------------------------------------------------------------
(* The git commands.                                                       *)

LEMMA LastTree ==
    ASSUME NEW s \in Seq(Tree), Len(s) > 0
    PROVE  Last(s) \in Tree
  BY DEF Last

LEMMA AppendTree ==
    ASSUME NEW s \in Seq(Tree), NEW t \in Tree
    PROVE  /\ Append(s, t) \in Seq(Tree) /\ Len(Append(s, t)) > 0
           /\ Last(Append(s, t)) = t
  BY DEF Last

(* Every command of the checkout keeps its types.                          *)
LEMMA CommandTypes ==
    ASSUME CheckoutType,
           \/ UNCHANGED checkoutVars
           \/ \E b \in Seq(Tree) : Len(b) > 0 /\ ResetTo(b)
           \/ CleanUntracked
           \/ \E e \in Edits : WriteEdit(e) \/ OtherPush(e)
           \/ VerificationWrites \/ CommitAll \/ PushBranch
    PROVE  CheckoutType'
  <1> USE DEF CheckoutType
  <1>1. CASE UNCHANGED checkoutVars
    BY <1>1 DEF checkoutVars
  <1>2. CASE \E b \in Seq(Tree) : Len(b) > 0 /\ ResetTo(b)
    BY <1>2, LastTree DEF ResetTo
  <1>3. CASE CleanUntracked
    BY <1>3 DEF CleanUntracked
  <1>4. ASSUME NEW e \in Edits, WriteEdit(e) PROVE CheckoutType'
    BY <1>4 DEF WriteEdit, Tree
  <1>5. ASSUME NEW e \in Edits, OtherPush(e) PROVE CheckoutType'
    <2>1. [Last(remote) EXCEPT !.edits = @ \cup {e}] \in Tree
      BY LastTree DEF Tree
    <2> QED
      BY <1>5, <2>1, AppendTree DEF OtherPush
  <1>6. CASE VerificationWrites
    BY <1>6 DEF VerificationWrites, Tree
  <1>7. CASE CommitAll
    <2>1. Staged \in Tree
      BY DEF Staged, Tree
    <2> QED
      BY <1>7, <2>1, AppendTree DEF CommitAll
  <1>8. CASE PushBranch
    BY <1>8 DEF PushBranch
  <1> QED
    BY <1>1, <1>2, <1>3, <1>4, <1>5, <1>6, <1>7, <1>8

USE ExecutorAssumption DEF ExecutorAssumption

-----------------------------------------------------------------------------
(* Type correctness.                                                       *)

LaneType ==
    /\ pc \in {"idle", "gate", "preflight", "backup", "reset", "clean"}
              \cup Guarded
    /\ plan \subseteq PlanEdits /\ todo \subseteq plan
    /\ pc = "idle" => todo = {}
    /\ pc \in {"reset", "clean"} <=> outcome # "none"
    /\ backup \in Seq(Tree) /\ Len(backup) > 0
    /\ outcome \in {"none", "raised", "rolled_back_verification_failed"}
    /\ status \in Statuses /\ (pc = "idle" <=> status # "running")
    /\ passed \subseteq SUBSET Edits /\ published \in BOOLEAN
    /\ started \in 0..MaxRuns

(* Every action is a move of the lane together with one command.           *)
LEMMA CommandOfStep ==
    ASSUME TypeOK, [Next]_vars
    PROVE  CheckoutType'
  <1>1. ASSUME NEW e \in PlanEdits, Apply(e) PROVE CheckoutType'
    <2>1. WriteEdit(e) /\ e \in Edits
      BY <1>1 DEF Apply
    <2> QED
      BY <2>1, CommandTypes DEF TypeOK
  <1>2. CASE VerifyPasses \/ VerifyFails
    BY <1>2, CommandTypes DEF VerifyPasses, VerifyFails, TypeOK
  <1>3. CASE Commit \/ Push \/ Clean
    BY <1>3, CommandTypes DEF Commit, Push, Clean, TypeOK
  <1>4. CASE Reset
    BY <1>4, CommandTypes DEF Reset, TypeOK
  <1>5. CASE OtherPushes
    BY <1>5, CommandTypes DEF OtherPushes, TypeOK
  <1>6. CASE UNCHANGED checkoutVars
    BY <1>6, CommandTypes DEF TypeOK
  <1> QED
    BY <1>1, <1>2, <1>3, <1>4, <1>5, <1>6 DEF Next, vars, Begin, Gate,
       Preflight, PreflightRaises, CreateBackupRef, NothingApplicable,
       Generate, Applied, Completed, Raise, RollbackRaises, Kill

LEMMA LaneOfStep ==
    ASSUME TypeOK, [Next]_vars
    PROVE  LaneType'
  <1> USE DEF TypeOK, LaneType, Guarded, Statuses
  <1>1. ASSUME NEW p \in SUBSET (PlanEdits \ Tip.edits), Begin(p)
        PROVE  LaneType'
    <2>1. started' \in 0..MaxRuns
      BY <1>1 DEF Begin
    <2>2. plan' \subseteq PlanEdits /\ todo' = {}
      BY <1>1 DEF Begin
    <2> QED
      BY <1>1, <2>1, <2>2 DEF Begin
  <1>2. CASE Gate \/ Preflight \/ PreflightRaises \/ NothingApplicable
             \/ Applied \/ Completed \/ Commit \/ Reset
    BY <1>2 DEF Gate, Preflight, CleanCheckPasses, PreflightRaises,
       NothingApplicable, Applied, Completed, Commit, Reset, End, Goto
  <1>3. CASE CreateBackupRef \/ Generate
    BY <1>3 DEF CreateBackupRef, Generate, CheckoutType
  <1>4. ASSUME NEW e \in PlanEdits, Apply(e) PROVE LaneType'
    BY <1>4 DEF Apply
  <1>5. CASE VerifyPasses
    BY <1>5 DEF VerifyPasses, CheckoutType, Tree
  <1>6. CASE VerifyFails \/ Raise
    BY <1>6 DEF VerifyFails, Raise, RollBack
  <1>7. CASE Push
    BY <1>7 DEF Push
  <1>8. CASE Clean \/ RollbackRaises \/ Kill
    BY <1>8 DEF Clean, RollbackRaises, Kill, End
  <1>9. CASE OtherPushes \/ UNCHANGED vars
    BY <1>9 DEF OtherPushes, vars, laneVars
  <1> QED
    BY <1>1, <1>2, <1>3, <1>4, <1>5, <1>6, <1>7, <1>8, <1>9 DEF Next

(* Types hold in every reachable state.                                    *)
THEOREM TypeCorrect == Spec => []TypeOK
<1>1. Init => TypeOK
  <2> SUFFICES ASSUME Init PROVE TypeOK
    OBVIOUS
  <2>1. BaseTree \in Tree /\ <<BaseTree>> \in Seq(Tree)
        /\ Len(<<BaseTree>>) > 0
    BY DEF BaseTree, Tree
  <2>2. work \in Tree
    BY DEF Init, CheckoutInit, BaseTree, Tree
  <2>3. CheckoutType
    BY <2>1, <2>2 DEF Init, CheckoutInit, CheckoutType
  <2>4. LaneType
    <3>1. started \in 0..MaxRuns
      BY DEF Init
    <3> QED
      BY <2>1, <3>1 DEF Init, CheckoutInit, LaneType, Guarded, Statuses
  <2> QED
    BY <2>3, <2>4 DEF TypeOK, LaneType
<1>2. TypeOK /\ [Next]_vars => TypeOK'
  BY CommandOfStep, LaneOfStep DEF TypeOK, LaneType
<1> QED
  BY <1>1, <1>2, PTL DEF Spec
-----------------------------------------------------------------------------
(* What is committed.                                                      *)

LEMMA TreeFollowsPlanStep ==
    ASSUME TypeOK, TreeFollowsPlan, [Next]_vars
    PROVE  TreeFollowsPlan'
  <1> USE DEF TypeOK, TreeFollowsPlan, CommitsOnlyThePlan, Tip, Dirty
  <1>1. ASSUME NEW p \in SUBSET (PlanEdits \ Tip.edits), Begin(p)
        PROVE  TreeFollowsPlan'
    BY <1>1 DEF Begin, checkoutVars
  <1>2. CASE Gate \/ PreflightRaises \/ NothingApplicable \/ Completed
             \/ Raise \/ RollbackRaises \/ Kill
    BY <1>2 DEF Gate, PreflightRaises, NothingApplicable, Completed, Raise,
       RollbackRaises, Kill, End, Goto, RollBack, checkoutVars
  <1>3. CASE Preflight \/ CreateBackupRef
    BY <1>3 DEF Preflight, CleanCheckPasses, CreateBackupRef, Goto,
       checkoutVars
  <1>4. CASE Generate
    BY <1>4 DEF Generate, checkoutVars
  <1>5. ASSUME NEW e \in PlanEdits, Apply(e) PROVE TreeFollowsPlan'
    <2>1. /\ work'.edits = work.edits \cup {e} /\ local' = local
          /\ UNCHANGED <<pc, plan, backup>> /\ todo' = todo \ {e}
          /\ pc = "apply" /\ e \in plan
      BY <1>5 DEF Apply, WriteEdit, CheckoutType, Tree
    <2>2. work'.edits = Tip.edits \cup (plan \ todo')
      BY <2>1
    <2> QED
      BY <2>1, <2>2
  <1>6. CASE Applied
    BY <1>6 DEF Applied, Goto, checkoutVars
  <1>7. CASE VerifyPasses \/ VerifyFails
    <2>1. work'.edits = work.edits /\ local' = local
      BY <1>7 DEF VerifyPasses, VerifyFails, VerificationWrites, CheckoutType,
                  Tree
    <2> QED
      BY <1>7, <2>1 DEF VerifyPasses, VerifyFails, RollBack
  <1>8. CASE Commit
    <2>1. Last(local').edits = work.edits
      <3>1. Staged \in Tree /\ Staged.edits = work.edits
        BY DEF Staged, Tree, CheckoutType
      <3> QED
        BY <1>8, <3>1, AppendTree DEF Commit, CommitAll, CheckoutType
    <2> QED
      BY <1>8, <2>1 DEF Commit, Goto
  <1>9. CASE Push
    BY <1>9 DEF Push, PushBranch
  <1>10. CASE Reset \/ Clean
    BY <1>10 DEF Reset, Clean, ResetTo, CleanUntracked, Goto, End
  <1>11. CASE OtherPushes \/ UNCHANGED vars
    BY <1>11 DEF OtherPushes, OtherPush, laneVars, vars, checkoutVars
  <1> QED
    BY <1>1, <1>2, <1>3, <1>4, <1>5, <1>6, <1>7, <1>8, <1>9, <1>10, <1>11
       DEF Next

LEMMA TreeFollows == Spec => []TreeFollowsPlan
<1>1. Init => TreeFollowsPlan
  BY DEF Init, TreeFollowsPlan, CommitsOnlyThePlan
<1> QED
  BY <1>1, TypeCorrect, TreeFollowsPlanStep, PTL DEF Spec

(* The branch never gains anything but the edits of the plan.              *)
THEOREM OnlyThePlanIsCommitted == Spec => []CommitsOnlyThePlan
<1>1. TreeFollowsPlan => CommitsOnlyThePlan
  BY DEF TreeFollowsPlan
<1> QED
  BY <1>1, TreeFollows, PTL

(* A run that did not complete has put the checkout back.                  *)
THEOREM RollbackIsComplete == Spec => NothingLeftBehind
<1> DEFINE Leaves ==
        /\ pc \in Guarded \cup {"reset", "clean"} /\ pc' = "idle"
        /\ status' \notin {"completed", "killed", "rollback_raised"}
    Restored == local' = backup /\ work' = Last(backup) /\ untracked' = {}
<1>1. TypeOK /\ TreeFollowsPlan /\ [Next]_vars => [Leaves => Restored]_vars
  <2> SUFFICES ASSUME TypeOK, TreeFollowsPlan, Next, Leaves PROVE Restored
    BY DEF vars, laneVars
  <2>1. Clean \/ NothingApplicable
    BY DEF Next, Begin, Gate, Preflight, CleanCheckPasses, PreflightRaises,
       CreateBackupRef, Generate, Apply, Applied, VerifyPasses, VerifyFails,
       Commit, Push, Completed, Reset, Raise, RollbackRaises, Kill,
       OtherPushes, End, Goto, RollBack, Guarded, laneVars
  <2>2. CASE Clean
    BY <2>2 DEF Clean, CleanUntracked, TreeFollowsPlan, Tip
  <2>3. CASE NothingApplicable
    BY <2>3 DEF NothingApplicable, TreeFollowsPlan, Dirty, Tip, checkoutVars
  <2> QED
    BY <2>1, <2>2, <2>3
<1> QED
  BY <1>1, TypeCorrect, TreeFollows, PTL DEF Spec, NothingLeftBehind

-----------------------------------------------------------------------------
(* The contract of a repair lane.                                          *)

LEMMA StatusFollowsPushStep ==
    ASSUME TypeOK, StatusFollowsPush, [Next]_vars
    PROVE  StatusFollowsPush'
  <1> USE DEF TypeOK, StatusFollowsPush
  <1>1. ASSUME NEW p \in SUBSET (PlanEdits \ Tip.edits), Begin(p)
        PROVE  StatusFollowsPush'
    BY <1>1 DEF Begin
  <1>2. CASE Gate \/ PreflightRaises \/ NothingApplicable \/ Completed
             \/ RollbackRaises \/ Kill
    BY <1>2 DEF Gate, PreflightRaises, NothingApplicable, Completed,
       RollbackRaises, Kill, End, Goto
  <1>3. CASE Preflight \/ CreateBackupRef \/ Generate \/ Applied
    BY <1>3 DEF Preflight, CleanCheckPasses, CreateBackupRef, Generate,
       Applied, Goto
  <1>4. CASE \E e \in PlanEdits : Apply(e)
    BY <1>4 DEF Apply
  <1>5. CASE VerifyPasses
    <2>1. work'.edits = work.edits
      BY <1>5 DEF VerifyPasses, VerificationWrites, CheckoutType, Tree
    <2> QED
      BY <1>5, <2>1 DEF VerifyPasses
  <1>6. CASE VerifyFails \/ Raise
    BY <1>6 DEF VerifyFails, Raise, RollBack, Guarded
  <1>7. CASE Commit
    BY <1>7 DEF Commit, CommitAll, Staged, CheckoutType, Tree, Goto
  <1>8. CASE Push
    BY <1>8 DEF Push, PushBranch
  <1>9. CASE Reset \/ Clean
    BY <1>9 DEF Reset, Clean, Goto, End
  <1>10. CASE OtherPushes \/ UNCHANGED vars
    <2>1. UNCHANGED <<work, pc, outcome, passed, published>>
      BY <1>10 DEF OtherPushes, OtherPush, laneVars, vars, checkoutVars
    <2> QED
      BY <2>1
  <1> QED
    BY <1>1, <1>2, <1>3, <1>4, <1>5, <1>6, <1>7, <1>8, <1>9, <1>10 DEF Next

LEMMA StatusFollows == Spec => []StatusFollowsPush
<1>1. Init => StatusFollowsPush
  BY DEF Init, StatusFollowsPush
<1> QED
  BY <1>1, TypeCorrect, StatusFollowsPushStep, PTL DEF Spec

(* Every step of the executor is a step of the abstract lane, or none.     *)
THEOREM KeepsLaneContract == Spec => LaneContract
<1> DEFINE vouched == work.edits \in passed
<1>1. Init => Lane!Init
  BY DEF Init, Lane!Init
<1>2. TypeOK /\ StatusFollowsPush /\ [Next]_vars
          => [Lane!Next]_<<status, vouched, published>>
  <2> SUFFICES ASSUME TypeOK, StatusFollowsPush, Next
               PROVE  [Lane!Next]_<<status, vouched, published>>
    BY DEF vars, laneVars, checkoutVars
  <2> USE DEF TypeOK, StatusFollowsPush
  <2>1. ASSUME NEW p \in SUBSET (PlanEdits \ Tip.edits), Begin(p)
        PROVE  Lane!Begin
    BY <2>1 DEF Begin, Lane!Begin, Lane!Ended, Lane!Unpublished, Statuses
  <2>2. CASE pc # "idle" /\ status' = status /\ published' = published
    BY <2>2 DEF Lane!Next, Lane!Vouch
  <2>3. CASE Push
    BY <2>3 DEF Push, PushBranch, Lane!Next, Lane!Publish
  <2>4. ASSUME NEW s \in Statuses \ {"idle", "running"}, End(s), pc # "idle",
               s \in Lane!Unpublished => ~published,
               s = "completed" =>
                   vouched /\ vouched' /\ (AllowPush => published)
        PROVE  Lane!End(s) /\ s \in Lane!Ended \ {"idle"}
    BY <2>4 DEF End, Lane!End, Lane!Ended, Lane!Unpublished, Statuses
  <2>5. ASSUME \E s \in {"raised", "rollback_raised", "killed"} : End(s),
               pc # "idle"
        PROVE  Lane!Next
    BY <2>4, <2>5 DEF Lane!Next, Lane!Unpublished, Statuses
  <2>6. CASE Gate \/ NothingApplicable
    BY <2>2, <2>4, <2>6 DEF Gate, NothingApplicable, Goto, Lane!Next, Statuses
  <2>7. CASE Completed
    BY <2>4, <2>7 DEF Completed, Lane!Next, Lane!Unpublished, Statuses, End,
                      checkoutVars
  <2>8. CASE Clean
    BY <2>4, <2>5, <2>8 DEF Clean, Lane!Next, Statuses
  <2>9. CASE OtherPushes
    BY <2>9 DEF OtherPushes, OtherPush, laneVars
  <2> QED
    BY <2>1, <2>2, <2>3, <2>5, <2>6, <2>7, <2>8, <2>9 DEF Next, Preflight,
       CleanCheckPasses, PreflightRaises, CreateBackupRef, Generate, Apply,
       Applied, VerifyPasses, VerifyFails, Commit, Reset, Raise,
       RollbackRaises, Kill, Goto, RollBack, Guarded, Lane!Next
<1> QED
  BY <1>1, <1>2, TypeCorrect, StatusFollows, PTL
     DEF Spec, LaneContract, Lane!Spec
-----------------------------------------------------------------------------
(* The end of a run.                                                       *)

Rolling == IF outcome = "rolled_back_verification_failed" THEN 2 ELSE 0

(* What is left, as a number for each command.                             *)
Left ==
    /\ pc = "gate" => CommandsLeft = Cardinality(plan) + 13
    /\ pc = "preflight" => CommandsLeft = Cardinality(plan) + 12
    /\ pc = "backup" => CommandsLeft = Cardinality(plan) + 11
    /\ pc = "generate" => CommandsLeft = Cardinality(plan) + 10
    /\ pc = "apply" => CommandsLeft = Cardinality(todo) + 9
    /\ pc = "verify" => CommandsLeft = 8
    /\ pc = "commit" => CommandsLeft = 7
    /\ pc = "push" => CommandsLeft = 6
    /\ pc = "return" => CommandsLeft = 5
    /\ pc = "reset" => CommandsLeft = 2 + Rolling
    /\ pc = "clean" => CommandsLeft = 1 + Rolling
    /\ pc = "idle" => CommandsLeft = 0
    /\ Cardinality(plan) \in Nat /\ Cardinality(todo) \in Nat
    /\ Rolling \in {0, 2}

LEMMA LeftAt == TypeOK => Left
<1> SUFFICES ASSUME TypeOK PROVE Left
  OBVIOUS
<1>1. IsFiniteSet(plan)
  BY FS_Subset DEF TypeOK
<1>2. IsFiniteSet(todo)
  BY <1>1, FS_Subset DEF TypeOK
<1>3. /\ Cardinality(plan) \in Nat /\ Cardinality(todo) \in Nat
      /\ Cardinality({}) = 0
  BY <1>1, <1>2, FS_CardinalityType, FS_EmptySet
<1> QED
  BY <1>3 DEF TypeOK, Left, CommandsLeft, Ahead, Unwritten, Rolling, Guarded

LEMMA LeftAtNext == TypeOK' => Left'
  BY LeftAt, PTL

LEMMA FewerToWrite ==
    ASSUME TypeOK, NEW e \in todo
    PROVE  Cardinality(todo) = Cardinality(todo \ {e}) + 1
<1>1. IsFiniteSet(todo)
  <2>1. IsFiniteSet(plan)
    BY FS_Subset DEF TypeOK
  <2> QED
    BY <2>1, FS_Subset DEF TypeOK
<1>2. Cardinality(todo \ {e}) = Cardinality(todo) - 1
  BY <1>1, FS_RemoveElement
<1>3. Cardinality(todo) \in Nat
  BY <1>1, FS_CardinalityType
<1> QED
  BY <1>2, <1>3

LEMMA FewerLeft ==
    ASSUME TypeOK, TypeOK', Next, pc # "idle", laneVars' # laneVars
    PROVE  CommandsLeft' \in 0..(CommandsLeft - 1)
<1>1. Left /\ Left'
  BY LeftAt, LeftAtNext
<1>2. CASE pc' = "idle"
  <2>1. CommandsLeft' = 0
    BY <1>1, <1>2 DEF Left
  <2>2. CommandsLeft \in Nat /\ CommandsLeft > 0
    <3>1. CASE pc \in {"gate", "preflight", "backup", "generate", "apply"}
      BY <1>1, <3>1 DEF Left
    <3>2. CASE pc \in {"verify", "commit", "push", "return"}
      BY <1>1, <3>2 DEF Left
    <3>3. CASE pc \in {"reset", "clean"}
      BY <1>1, <3>3 DEF Left
    <3> QED
      BY <3>1, <3>2, <3>3 DEF TypeOK, Guarded
  <2> QED
    BY <2>1, <2>2
<1>3. CASE Gate \/ Preflight \/ CreateBackupRef \/ Generate
  BY <1>1, <1>2, <1>3 DEF Gate, Preflight, CleanCheckPasses, CreateBackupRef,
     Generate, Goto, End, Left
<1>4. ASSUME NEW e \in PlanEdits, Apply(e)
      PROVE  CommandsLeft' \in 0..(CommandsLeft - 1)
  <2>1. /\ pc = "apply" /\ pc' = "apply" /\ e \in todo /\ todo' = todo \ {e}
    BY <1>4 DEF Apply
  <2>2. Cardinality(todo) = Cardinality(todo') + 1
    BY <2>1, FewerToWrite
  <2> QED
    BY <1>1, <2>1, <2>2 DEF Left
<1>5. CASE Applied \/ VerifyPasses \/ Commit \/ Push
  BY <1>1, <1>5 DEF Applied, VerifyPasses, Commit, Push, Goto, Left
<1>6. CASE VerifyFails
  BY <1>1, <1>6 DEF VerifyFails, RollBack, Left, Rolling
<1>7. CASE Reset
  BY <1>1, <1>7 DEF Reset, Goto, Left, Rolling
<1>8. CASE Raise
  <2>1. pc' = "reset" /\ CommandsLeft' = 2
    BY <1>1, <1>8 DEF Raise, RollBack, Left, Rolling
  <2>2. CommandsLeft \in Nat /\ CommandsLeft > 2
    <3>1. CASE pc \in Guarded
      BY <1>1, <3>1 DEF Guarded, Left
    <3>2. CASE pc \in {"reset", "clean"} /\ outcome # "raised"
      BY <1>1, <3>2 DEF Left, Rolling, TypeOK
    <3> QED
      BY <1>8, <3>1, <3>2 DEF Raise
  <2> QED
    BY <2>1, <2>2
<1> QED
  BY <1>2, <1>3, <1>4, <1>5, <1>6, <1>7, <1>8 DEF Next, Begin,
     PreflightRaises, NothingApplicable, Completed, Clean, RollbackRaises,
     Kill, OtherPushes, End

(* A run of the lane ends within the commands of its plan and two          *)
(* rollbacks, whatever fails.                                              *)
THEOREM RunsDown == Spec => EndsInTime
<1>1. TypeOK /\ TypeOK' /\ [Next]_vars
        => [pc # "idle" /\ laneVars' # laneVars
              => CommandsLeft' \in 0..(CommandsLeft - 1)]_vars
  BY FewerLeft DEF vars, laneVars
<1> QED
  BY <1>1, TypeCorrect, PTL DEF Spec, EndsInTime
=============================================================================
