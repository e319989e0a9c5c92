---------------------------- MODULE PRLoopProofs ----------------------------
(***************************************************************************)
(* Theorems about the PR loop, for any number of handlers, any attempt     *)
(* limit and any number of head commits, failures and crashes.             *)
(***************************************************************************)
EXTENDS PRLoopProgress, TLAPS

USE ConstantsAssumption DEF ConstantsAssumption

-----------------------------------------------------------------------------
(* Type correctness.                                                       *)

HandlerType ==
    /\ pc \in [Handlers -> Steps]
    /\ cont \in [Handlers -> {"idle", "guards", "gate", "execute"}]
    /\ ev \in [Handlers -> [sha: Heads, repo: {"same", "fork", "none"}]]
    /\ st \in [Handlers -> PRRepairState]
    /\ failure \in [Handlers -> Failures \cup {NoFailure}]

LEMMA NewStateType == ASSUME NEW s \in Heads PROVE NewState(s) \in PRRepairState
  BY DEF NewState, PRRepairState, Heads

LEMMA TerminalType ==
    ASSUME NEW s \in PRRepairState, NEW r \in TerminalReasons
    PROVE  Terminal(s, r) \in PRRepairState
  BY DEF Terminal, PRRepairState

LEMMA AttemptType ==
    ASSUME NEW s \in PRRepairState, s.attempt < MaxAttempts
    PROVE  [s EXCEPT !.attempt = @ + 1] \in PRRepairState
  BY DEF PRRepairState

LEMMA RecordedType ==
    ASSUME NEW s \in PRRepairState, NEW f \in Failures
    PROVE  Recorded(s, f) \in PRRepairState
  BY DEF PRRepairState, Recorded

LEMMA CommitType ==
    ASSUME NEW s \in PRRepairState, NEW c \in 0..MaxHead
    PROVE  [s EXCEPT !.last_repair_commit = c] \in PRRepairState
  BY DEF PRRepairState

LEMMA SignalsType ==
    ASSUME NEW s \in PRRepairState, NEW c \in CIStatuses,
           NEW r \in ReviewStatuses
    PROVE  [s EXCEPT !.ci_status = c, !.review_status = r] \in PRRepairState
  BY DEF PRRepairState

LEMMA ResetType ==
    ASSUME NEW s \in PRRepairState, NEW n \in Heads
    PROVE  [s EXCEPT !.head_sha = n, !.attempt = 0,
                     !.last_failure_fingerprint = NoFailure,
                     !.terminal_state = FALSE, !.terminal_reason = "none"]
               \in PRRepairState
  <1> DEFINE a == [s EXCEPT !.head_sha = n, !.attempt = 0]
             b == [a EXCEPT !.last_failure_fingerprint = NoFailure]
             c == [b EXCEPT !.terminal_state = FALSE,
                            !.terminal_reason = "none"]
  <1>1. a \in PRRepairState
    <2>1. 0 \in 0..MaxAttempts
      OBVIOUS
    <2> QED
      BY <2>1 DEF PRRepairState
  <1>2. b \in PRRepairState
    <2> HIDE DEF a
    <2> QED
      BY <1>1 DEF PRRepairState
  <1>3. c \in PRRepairState
    <2> HIDE DEF b
    <2> QED
      BY <1>2 DEF PRRepairState
  <1> QED
    BY <1>3

LEMMA ReturnType ==
    ASSUME HandlerType, NEW h \in Handlers, Return(h)
    PROVE  HandlerType'
  <1>1. 1 \in Heads
    BY DEF Heads
  <1>2. NewState(1) \in PRRepairState
    BY <1>1, NewStateType
  <1>3. NoEvent \in [sha: Heads, repo: {"same", "fork", "none"}]
    BY <1>1 DEF NoEvent
  <1> QED
    BY <1>2, <1>3 DEF HandlerType, Return, Steps

LEMMA SaveThenType ==
    ASSUME HandlerType, NEW h \in Handlers, NEW s \in PRRepairState,
           NEW k \in {"idle", "guards", "gate", "execute"}, SaveThen(h, s, k)
    PROVE  HandlerType'
  BY DEF HandlerType, SaveThen, Steps

LEMMA BlockType ==
    ASSUME HandlerType, NEW h \in Handlers, NEW s \in PRRepairState,
           NEW r \in TerminalReasons, Block(h, s, r)
    PROVE  HandlerType'
  BY TerminalType, SaveThenType DEF Block

LEMMA SignalledType ==
    ASSUME TypeOK, NEW h \in Handlers
    PROVE  Signalled(h) \in PRRepairState
  BY SignalsType DEF TypeOK, Signalled

LEMMA GetOrCreateType ==
    ASSUME TypeOK, NEW s \in Heads
    PROVE  GetOrCreate(s) \in PRRepairState
  BY NewStateType, ResetType DEF TypeOK, GetOrCreate

LEMMA RunsType ==
    ASSUME TypeOK, NEW h \in Handlers, CountRun(h)
    PROVE  /\ runs' \in [Heads -> 0..(MaxAttempts + 1)]
           /\ lastRun' \in [Heads -> Failures \cup {NoFailure}]
           /\ UNCHANGED <<delivered, crashes>>
  BY DEF TypeOK, CountRun

LEMMA SeesType ==
    ASSUME TypeOK, NEW h \in Handlers, NEW f \in Failures, Sees(h, f)
    PROVE  lastRun' \in [Heads -> Failures \cup {NoFailure}]
  BY DEF TypeOK, Sees

LEMMA TypeStep == TypeOK /\ AttemptLeft /\ [Next]_vars => TypeOK'
<1> SUFFICES ASSUME TypeOK, AttemptLeft, [Next]_vars PROVE TypeOK'
  OBVIOUS
<1> HandlerType
  BY DEF TypeOK, HandlerType
<1> USE DEF storeVars, envVars, historyVars
<1>1. CASE AuthorPushes
  BY <1>1 DEF AuthorPushes, TypeOK, handlerVars, Heads
<1>2. CASE SignalsChange
  BY <1>2 DEF SignalsChange, TypeOK, handlerVars
<1>3. ASSUME NEW h \in Handlers, Save(h) PROVE TypeOK'
  <2>1. HandlerType'
    BY <1>3, ReturnType DEF Save, HandlerType, Steps
  <2> QED
    BY <1>3, <2>1 DEF Save, TypeOK, HandlerType
<1>4. ASSUME NEW h \in Handlers, SaveOverlaps(h) PROVE TypeOK'
  <2>1. HandlerType'
    BY <1>4, ReturnType DEF SaveOverlaps, HandlerType, Steps
  <2> QED
    BY <1>4, <2>1 DEF SaveOverlaps, TypeOK, HandlerType
<1>5. ASSUME NEW h \in Handlers, Crash(h) PROVE TypeOK'
  <2>1. HandlerType'
    BY <1>5, ReturnType DEF Crash
  <2> QED
    BY <1>5, <2>1 DEF Crash, TypeOK, HandlerType
<1>6. ASSUME NEW h \in Handlers, NEW s \in Heads, Receive(h, s)
      PROVE  TypeOK'
  BY <1>6 DEF Receive, TypeOK, Steps
<1>7. ASSUME NEW h \in Handlers, Load(h) \/ LoadRaises(h) PROVE TypeOK'
  <2>1. GetOrCreate(ev[h].sha) \in PRRepairState
    BY GetOrCreateType DEF TypeOK
  <2>2. HandlerType'
    BY <1>7, <2>1, SaveThenType, ReturnType DEF Load, LoadRaises
  <2> QED
    BY <1>7, <2>2 DEF Load, LoadRaises, TypeOK, HandlerType
<1>8. ASSUME NEW h \in Handlers, BlockFork(h) \/ BlockProtected(h)
      PROVE  TypeOK'
  <2>1. HandlerType'
    BY <1>8, BlockType DEF BlockFork, BlockProtected, TypeOK, TerminalReasons
  <2> QED
    BY <1>8, <2>1 DEF BlockFork, BlockProtected, TypeOK, HandlerType
<1>9. ASSUME NEW h \in Handlers,
             FinishClean(h) \/ WaitForSignals(h) \/ GoRepair(h)
      PROVE  TypeOK'
  <2>1. Signalled(h) \in PRRepairState
    BY SignalledType
  <2>2. HandlerType'
    <3>1. CASE FinishClean(h)
      BY <3>1, <2>1, BlockType DEF FinishClean, TerminalReasons
    <3>2. CASE WaitForSignals(h)
      BY <3>2, <2>1, SaveThenType DEF WaitForSignals
    <3>3. CASE GoRepair(h)
      BY <3>3, <2>1 DEF GoRepair, HandlerType, Steps
    <3> QED
      BY <1>9, <3>1, <3>2, <3>3
  <2> QED
    BY <1>9, <2>2
       DEF FinishClean, WaitForSignals, GoRepair, TypeOK, HandlerType
<1>10. ASSUME NEW h \in Handlers, BlockExhausted(h) \/ NoFindings(h)
       PROVE  TypeOK'
  <2>1. HandlerType'
    BY <1>10, BlockType
       DEF BlockExhausted, NoFindings, TypeOK, TerminalReasons
  <2> QED
    BY <1>10, <2>1 DEF BlockExhausted, NoFindings, TypeOK, HandlerType
<1>11. ASSUME NEW h \in Handlers, NEW f \in Failures, BlockRepeated(h, f)
       PROVE  TypeOK'
  <2>1. HandlerType'
    BY <1>11, BlockType DEF BlockRepeated, TypeOK, TerminalReasons
  <2> QED
    BY <1>11, <2>1, SeesType DEF BlockRepeated, TypeOK, HandlerType
<1>12. ASSUME NEW h \in Handlers, NEW f \in Failures, PlanRepair(h, f)
       PROVE  TypeOK'
  <2>1. Recorded(st[h], f) \in PRRepairState
    BY RecordedType DEF TypeOK
  <2>2. HandlerType'
    BY <1>12, <2>1 DEF PlanRepair, HandlerType, Steps
  <2> QED
    BY <1>12, <2>2, SeesType DEF PlanRepair, TypeOK, HandlerType
<1>13. ASSUME NEW h \in Handlers, DenyApproval(h) PROVE TypeOK'
  <2>1. HandlerType'
    BY <1>13, BlockType DEF DenyApproval, TypeOK, TerminalReasons
  <2> QED
    BY <1>13, <2>1 DEF DenyApproval, TypeOK, HandlerType
<1>14. ASSUME NEW h \in Handlers, SpendAttempt(h) PROVE TypeOK'
  <2>1. [st[h] EXCEPT !.attempt = @ + 1] \in PRRepairState
    BY <1>14, AttemptType DEF SpendAttempt, AttemptLeft, Reaches, TypeOK
  <2>2. HandlerType'
    BY <1>14, <2>1, SaveThenType DEF SpendAttempt
  <2> QED
    BY <1>14, <2>2 DEF SpendAttempt, TypeOK, HandlerType
<1>15. ASSUME NEW h \in Handlers,
              RepairPushed(h) \/ RepairKept(h) \/ RepairRefused(h)
              \/ RepairFailed(h) \/ RepairRaises(h)
       PROVE  TypeOK'
  <2>1. CountRun(h)
    BY <1>15 DEF RepairPushed, RepairKept, RepairRefused, RepairFailed,
                 RepairRaises
  <2>2. /\ head' \in Heads /\ ci' \in CIStatuses
        /\ UNCHANGED <<pr, review, disk, file>>
    BY <1>15 DEF RepairPushed, RepairKept, RepairRefused, RepairFailed,
                 RepairRaises, PushHead, TypeOK, Heads
  <2>3. HandlerType'
    <3>1. CASE RepairPushed(h)
      <4>1. [st[h] EXCEPT !.last_repair_commit = head + 1] \in PRRepairState
        <5>1. head + 1 \in 0..MaxHead /\ st[h] \in PRRepairState
          BY <3>1 DEF RepairPushed, PushHead, TypeOK, Heads
        <5> QED
          BY <5>1, CommitType
      <4> QED
        BY <3>1, <4>1, SaveThenType DEF RepairPushed
    <3>2. CASE RepairKept(h)
      <4>1. [st[h] EXCEPT !.last_repair_commit = 0] \in PRRepairState
        BY CommitType DEF TypeOK
      <4> QED
        BY <3>2, <4>1, SaveThenType DEF RepairKept
    <3>3. CASE RepairRefused(h) \/ RepairFailed(h)
      BY <3>3, BlockType, SaveThenType
         DEF RepairRefused, RepairFailed, TypeOK, TerminalReasons
    <3>4. CASE RepairRaises(h)
      BY <3>4, ReturnType DEF RepairRaises
    <3> QED
      BY <1>15, <3>1, <3>2, <3>3, <3>4
  <2> QED
    BY <2>1, <2>2, <2>3, RunsType DEF TypeOK, HandlerType
<1>16. CASE UNCHANGED vars
  BY <1>16 DEF vars, handlerVars, TypeOK
<1> QED
  BY <1>1, <1>2, <1>3, <1>4, <1>5, <1>6, <1>7, <1>8, <1>9, <1>10, <1>11,
     <1>12, <1>13, <1>14, <1>15, <1>16 DEF Next, Handle

(* Every spent attempt was available: the guard attempt < max, passed when *)
(* the repair was planned, still holds when the attempt is counted.        *)
LEMMA AttemptLeftStep ==
    TypeOK /\ AttemptLeft /\ [Next]_vars => AttemptLeft'
<1> SUFFICES ASSUME TypeOK, AttemptLeft, [Next]_vars PROVE AttemptLeft'
  OBVIOUS
<1> USE DEF AttemptLeft, Reaches, TypeOK
<1>1. CASE UNCHANGED handlerVars
  BY <1>1 DEF handlerVars
<1>2. ASSUME NEW h \in Handlers, Return(h) PROVE AttemptLeft'
  BY <1>2 DEF Return
<1>3. ASSUME NEW h \in Handlers, NEW s, NEW k \in {"idle", "guards", "execute"},
             SaveThen(h, s, k)
      PROVE  AttemptLeft'
  BY <1>3 DEF SaveThen
<1>4. ASSUME NEW h \in Handlers, Save(h) \/ SaveOverlaps(h)
      PROVE  AttemptLeft'
  BY <1>4, <1>2 DEF Save, SaveOverlaps
<1>5. ASSUME NEW h \in Handlers, NEW s \in Heads, Receive(h, s)
      PROVE  AttemptLeft'
  BY <1>5 DEF Receive
<1>6. ASSUME NEW h \in Handlers, GoRepair(h) PROVE AttemptLeft'
  BY <1>6 DEF GoRepair
<1>7. ASSUME NEW h \in Handlers, NEW f \in Failures, PlanRepair(h, f)
      PROVE  AttemptLeft'
  BY <1>7 DEF PlanRepair, Recorded, BudgetSpent, PRRepairState
<1>8. ASSUME NEW h \in Handlers, Crash(h) \/ LoadRaises(h) \/ RepairRaises(h)
      PROVE  AttemptLeft'
  BY <1>8, <1>2 DEF Crash, LoadRaises, RepairRaises
<1>9. ASSUME NEW h \in Handlers,
             \/ Load(h) \/ BlockFork(h) \/ BlockProtected(h) \/ FinishClean(h)
             \/ WaitForSignals(h) \/ BlockExhausted(h) \/ NoFindings(h)
             \/ \E f \in Failures : BlockRepeated(h, f)
             \/ DenyApproval(h) \/ SpendAttempt(h) \/ RepairPushed(h)
             \/ RepairKept(h) \/ RepairRefused(h) \/ RepairFailed(h)
      PROVE  AttemptLeft'
  BY <1>9, <1>3 DEF Load, BlockFork, BlockProtected, FinishClean,
     WaitForSignals, BlockExhausted, NoFindings, BlockRepeated, DenyApproval,
     SpendAttempt, RepairPushed, RepairKept, RepairRefused, RepairFailed, Block
<1> QED
  BY <1>1, <1>4, <1>5, <1>6, <1>7, <1>8, <1>9
     DEF Next, Handle, AuthorPushes, SignalsChange, vars

(* No record, in memory or on disk, leaves its types; in particular none   *)
(* counts more attempts than max_repair_attempts.                          *)
THEOREM TypeCorrect == Spec => [](TypeOK /\ AttemptLeft)
<1>1. Init => TypeOK
  <2> SUFFICES ASSUME Init PROVE TypeOK
    OBVIOUS
  <2>1. 1 \in Heads
    BY DEF Heads
  <2>2. NewState(1) \in PRRepairState
    BY <2>1, NewStateType
  <2> QED
    BY <2>1, <2>2 DEF Init, TypeOK, NoEvent, Steps
<1>2. Init => AttemptLeft
  BY DEF Init, AttemptLeft, Reaches
<1> QED
  BY <1>1, <1>2, TypeStep, AttemptLeftStep, PTL DEF Spec

-----------------------------------------------------------------------------
(* The guards: however handlers interleave, the executor only runs past    *)
(* all of them.                                                            *)

LEMMA GuardStep ==
    TypeOK /\ TypeOK' /\ GuardInv /\ [Next]_vars => GuardInv'
<1> SUFFICES ASSUME TypeOK, TypeOK', GuardInv, [Next]_vars PROVE GuardInv'
  OBVIOUS
<1> USE DEF GuardInv, GuardsPassed, Reaches
<1> DEFINE Same == UNCHANGED <<pr, runs, lastRun>>
<1>1. GuardedRuns /\ \A g \in Handlers : GuardsPassed(g)
  OBVIOUS
<1>2. Same => GuardedRuns'
  BY <1>1 DEF GuardedRuns
<1>3. ASSUME NEW h \in Handlers, Return(h), UNCHANGED pr
      PROVE  \A g \in Handlers : GuardsPassed(g)'
  BY <1>1, <1>3 DEF Return, TypeOK
<1>4. ASSUME NEW h \in Handlers, NEW s, SaveThen(h, s, "idle"), UNCHANGED pr
      PROVE  \A g \in Handlers : GuardsPassed(g)'
  BY <1>1, <1>4 DEF SaveThen, TypeOK
<1>5. CASE AuthorPushes \/ SignalsChange \/ UNCHANGED vars
  BY <1>1, <1>2, <1>5
     DEF AuthorPushes, SignalsChange, vars, envVars, handlerVars, historyVars
<1>6. ASSUME NEW h \in Handlers, Save(h) \/ SaveOverlaps(h) PROVE GuardInv'
  <2>1. Same
    BY <1>6 DEF Save, SaveOverlaps, envVars, historyVars
  <2>2. CASE cont[h] = "idle"
    BY <1>2, <1>3, <1>6, <2>1, <2>2 DEF Save, SaveOverlaps
  <2>3. CASE cont[h] # "idle"
    BY <1>1, <1>2, <1>6, <2>1, <2>3 DEF Save, SaveOverlaps, TypeOK
  <2> QED
    BY <2>2, <2>3
<1>7. ASSUME NEW h \in Handlers, Crash(h) \/ LoadRaises(h) PROVE GuardInv'
  BY <1>2, <1>3, <1>7 DEF Crash, LoadRaises, envVars, historyVars
<1>8. ASSUME NEW h \in Handlers, NEW s \in Heads, Receive(h, s)
      PROVE  GuardInv'
  <2>1. Same
    BY <1>8 DEF Receive, envVars
  <2>2. ASSUME NEW g \in Handlers PROVE GuardsPassed(g)'
    <3>1. CASE g = h
      BY <1>8, <2>1, <3>1 DEF Receive, TypeOK
    <3>2. CASE g # h
      BY <1>1, <1>8, <2>1, <3>2 DEF Receive, TypeOK
    <3> QED
      BY <3>1, <3>2
  <2> QED
    BY <1>2, <2>1, <2>2
<1>9. ASSUME NEW h \in Handlers, Load(h) PROVE GuardInv'
  BY <1>1, <1>2, <1>9 DEF Load, SaveThen, envVars, historyVars, TypeOK
<1>10. ASSUME NEW h \in Handlers,
              \/ BlockFork(h) \/ BlockProtected(h) \/ FinishClean(h)
              \/ WaitForSignals(h) \/ BlockExhausted(h) \/ NoFindings(h)
              \/ DenyApproval(h)
       PROVE  GuardInv'
  BY <1>2, <1>4, <1>10 DEF BlockFork, BlockProtected, FinishClean,
     WaitForSignals, BlockExhausted, NoFindings, DenyApproval, Block,
     envVars, historyVars
<1>11. ASSUME NEW h \in Handlers, GoRepair(h) PROVE GuardInv'
  BY <1>1, <1>2, <1>11
     DEF GoRepair, ReadSignals, IsForkPR, envVars, historyVars, TypeOK
<1>12. ASSUME NEW h \in Handlers, NEW f \in Failures, Sees(h, f),
              UNCHANGED <<pr, runs>>
       PROVE  GuardedRuns'
  BY <1>1, <1>12 DEF Sees, GuardedRuns, TypeOK
<1>13. ASSUME NEW h \in Handlers, NEW f \in Failures, BlockRepeated(h, f)
       PROVE  GuardInv'
  BY <1>4, <1>12, <1>13 DEF BlockRepeated, Block, envVars
<1>14. ASSUME NEW h \in Handlers, NEW f \in Failures, PlanRepair(h, f)
       PROVE  GuardInv'
  <2>1. GuardedRuns'
    BY <1>12, <1>14 DEF PlanRepair, envVars
  <2>2. \A g \in Handlers : GuardsPassed(g)'
    BY <1>1, <1>14 DEF PlanRepair, envVars, TypeOK
  <2> QED
    BY <2>1, <2>2
<1>15. ASSUME NEW h \in Handlers, SpendAttempt(h) PROVE GuardInv'
  BY <1>1, <1>2, <1>15 DEF SpendAttempt, NeedsApproval, SaveThen, envVars,
     historyVars, TypeOK
<1>16. ASSUME NEW h \in Handlers,
              RepairPushed(h) \/ RepairKept(h) \/ RepairRefused(h)
              \/ RepairFailed(h) \/ RepairRaises(h)
       PROVE  GuardInv'
  <2>1. CountRun(h) /\ UNCHANGED pr
    BY <1>16 DEF RepairPushed, RepairKept, RepairRefused, RepairFailed,
                 RepairRaises, envVars
  <2>2. GuardedRuns'
    BY <1>1, <2>1 DEF CountRun, GuardedRuns, TypeOK
  <2>3. \A g \in Handlers : GuardsPassed(g)'
    BY <1>3, <1>4, <1>16, <2>1 DEF RepairPushed, RepairKept, RepairRefused,
       RepairFailed, RepairRaises, Block
  <2> QED
    BY <2>2, <2>3
<1> QED
  BY <1>5, <1>6, <1>7, <1>8, <1>9, <1>10, <1>11, <1>13, <1>14, <1>15, <1>16
     DEF Next, Handle

(* The executor is never started for a fork, for head = base, or without   *)
(* the approval gate, under any interleaving of handlers.                  *)
THEOREM RunsAreGuarded == Spec => []GuardedRuns
<1>1. Init => GuardInv
  BY DEF Init, GuardInv, GuardedRuns, GuardsPassed, Reaches
<1>2. GuardInv => GuardedRuns
  BY DEF GuardInv
<1> QED
  BY <1>1, <1>2, GuardStep, TypeCorrect, PTL DEF Spec

-----------------------------------------------------------------------------
(* One handler at a time, events in order: the record on disk accounts for *)
(* every run, whatever crashes.                                            *)

(* The facts of TypeOK that the accounting needs, about handler h.         *)
LEMMA AccountTypes ==
    ASSUME TypeOK, NEW h \in Handlers
    PROVE  /\ file.attempt \in 0..MaxAttempts /\ st[h].attempt \in 0..MaxAttempts
           /\ file.head_sha \in Heads /\ st[h].head_sha \in Heads
           /\ Heads \subseteq Nat /\ crashes \in Nat /\ delivered \in Heads
           /\ \A t \in Heads : runs[t] \in Nat
           /\ DOMAIN runs = Heads /\ DOMAIN lastRun = Heads
           /\ DOMAIN pc = Handlers /\ DOMAIN cont = Handlers
           /\ DOMAIN st = Handlers /\ DOMAIN ev = Handlers
           /\ DOMAIN failure = Handlers
  BY DEF TypeOK, PRRepairState, Heads

(* A handler that is not idle is the only one.                             *)
LEMMA Alone ==
    ASSUME SerialInv, NEW h \in Handlers, pc[h] # "idle"
    PROVE  \A g \in Handlers : g # h => pc[g] = "idle"
  BY DEF SerialInv, OneAtATime

(* The only busy handler returns: what is on disk has to account alone.    *)
LEMMA ReturnKeepsAccounts ==
    ASSUME TypeOK, SerialInv, NEW h \in Handlers, pc[h] # "idle", Return(h),
           FileAccounts', (file.attempt <= runs[file.head_sha] + crashes)'
    PROVE  SerialInv'
  <1>1. \A g \in Handlers : pc'[g] = "idle"
    BY Alone, AccountTypes DEF Return
  <1> QED
    BY <1>1 DEF SerialInv, OneAtATime, RestAccounts, HandlerAccounts

(* It enters a save with a copy that accounts for the runs.                *)
LEMMA SaveKeepsAccounts ==
    ASSUME TypeOK, SerialInv, NEW h \in Handlers, pc[h] # "idle",
           NEW s, NEW k, SaveThen(h, s, k), CopyAccounts(h)',
           FileAccounts', RestAccounts', UNCHANGED delivered
    PROVE  SerialInv'
  <1>1. \A g \in Handlers \ {h} : pc'[g] = "idle"
    BY Alone, AccountTypes DEF SaveThen
  <1>2. pc'[h] = "save" /\ ev'[h].sha = delivered'
    BY AccountTypes DEF SaveThen, SerialInv, HandlerAccounts
  <1> QED
    BY <1>1, <1>2 DEF SerialInv, OneAtATime, HandlerAccounts

LEMMA TerminalKeeps ==
    ASSUME NEW s \in PRRepairState, NEW r
    PROVE  LET t == Terminal(s, r)
           IN  /\ t.head_sha = s.head_sha /\ t.attempt = s.attempt
               /\ t.last_failure_fingerprint = s.last_failure_fingerprint
               /\ t.terminal_state = TRUE
  BY DEF Terminal, PRRepairState

(* A save entered away from the executor, with no other change: it is      *)
(* enough that the new copy still accounts for the runs.                   *)
LEMMA QuietSaveKeepsAccounts ==
    ASSUME TypeOK, SerialInv, NEW h \in Handlers, pc[h] \notin {"idle", "execute"},
           NEW s, NEW k, SaveThen(h, s, k), CopyAccounts(h)',
           UNCHANGED <<disk, file, delivered, runs, lastRun, crashes>>
    PROVE  SerialInv'
  <1>1. FileAccounts'
    BY DEF SerialInv, FileAccounts
  <1>2. file.attempt <= runs[file.head_sha] + crashes
    BY Alone DEF SerialInv, RestAccounts
  <1>3. RestAccounts'
    BY <1>2 DEF RestAccounts
  <1> QED
    BY <1>1, <1>3, SaveKeepsAccounts

(* Such a save whose copy differs from the old one at most in the signals, *)
(* the terminal mark or the commit, and returns or goes on to the guards.  *)
LEMMA PlainSaveKeepsAccounts ==
    ASSUME TypeOK, SerialInv, NEW h \in Handlers,
           pc[h] \in {"guards", "attempt", "gate"}, ~Reaches(h, "execute"),
           NEW s, SaveThen(h, s, "idle"),
           s.head_sha = st[h].head_sha, s.attempt = st[h].attempt,
           s.last_failure_fingerprint = st[h].last_failure_fingerprint,
           st[h].terminal_state => s.terminal_state,
           UNCHANGED <<disk, file, delivered, runs, lastRun, crashes>>
    PROVE  SerialInv'
  <1>1. CopyAccounts(h)
    BY DEF SerialInv, HandlerAccounts
  <1>2. st'[h] = s /\ pc'[h] = "save" /\ cont'[h] = "idle"
    BY AccountTypes DEF SaveThen
  <1>3. CopyAccounts(h)'
    BY <1>1, <1>2 DEF CopyAccounts, Spent, Reaches
  <1> QED
    BY <1>3, QuietSaveKeepsAccounts

LEMMA SerialStep ==
    ASSUME Serial, InOrder
    PROVE  TypeOK /\ AttemptLeft /\ SerialInv /\ [Next]_vars => SerialInv'
<1> SUFFICES ASSUME TypeOK, AttemptLeft, SerialInv, [Next]_vars
             PROVE  SerialInv'
  OBVIOUS
<1> USE DEF storeVars, envVars, historyVars
<1>1. CASE AuthorPushes \/ SignalsChange \/ UNCHANGED vars
  <2>1. UNCHANGED <<storeVars, handlerVars, historyVars>>
    BY <1>1 DEF AuthorPushes, SignalsChange, vars
  <2> QED
    BY <2>1 DEF handlerVars, SerialInv, OneAtATime, FileAccounts,
       RestAccounts, HandlerAccounts, CopyAccounts, Spent, Reaches
<1>2. ASSUME NEW h \in Handlers, Save(h) PROVE SerialInv'
  <2>1. CopyAccounts(h) /\ ev[h].sha = delivered /\ pc[h] = "save"
    BY <1>2 DEF SerialInv, HandlerAccounts, Save
  <2>2. FileAccounts'
    BY <1>2, <2>1, AccountTypes
       DEF Save, CopyAccounts, Spent, FileAccounts, SerialInv
  <2>3. CASE cont[h] = "idle"
    <3>1. (file.attempt <= runs[file.head_sha] + crashes)'
      BY <1>2, <2>1, <2>3, AccountTypes DEF Save, CopyAccounts, Spent, Reaches
    <3> QED
      BY <1>2, <2>1, <2>2, <2>3, <3>1, ReturnKeepsAccounts DEF Save
  <2>4. CASE cont[h] # "idle"
    <3>1. /\ pc' = [pc EXCEPT ![h] = cont[h]]
          /\ UNCHANGED <<cont, ev, st, failure, historyVars>>
          /\ disk' = "whole" /\ file' = st[h]
      BY <1>2, <2>4 DEF Save
    <3>2. pc'[h] = cont[h] /\ cont[h] \in {"guards", "gate", "execute"}
      BY <3>1, <2>4, AccountTypes DEF TypeOK
    <3>3. \A g \in Handlers \ {h} : pc'[g] = "idle"
      BY <3>1, <2>1, Alone, AccountTypes
    <3>4. CopyAccounts(h)'
      BY <2>1, <3>1, <3>2, AccountTypes DEF CopyAccounts, Spent, Reaches
    <3>5. RestAccounts'
      BY <2>1, <3>1, <3>2, AccountTypes
         DEF RestAccounts, CopyAccounts, Spent, Reaches
    <3> QED
      BY <2>1, <2>2, <3>1, <3>2, <3>3, <3>4, <3>5
         DEF SerialInv, OneAtATime, HandlerAccounts
  <2> QED
    BY <2>3, <2>4
<1>3. ASSUME NEW h \in Handlers, SaveOverlaps(h) PROVE SerialInv'
  BY <1>3, Alone DEF SaveOverlaps, OtherSaving
<1>4. ASSUME NEW h \in Handlers, Crash(h) PROVE SerialInv'
  <2>1. UNCHANGED <<file, delivered, runs, lastRun>> /\ crashes' = crashes + 1
    BY <1>4 DEF Crash
  <2>2. disk' = "absent" => disk = "absent"
    BY <1>4 DEF Crash
  <2>3. FileAccounts'
    BY <2>1, <2>2 DEF FileAccounts, SerialInv
  <2>4. file.attempt <= runs[file.head_sha] + crashes + 1
    <3>1. CASE pc[h] = "execute"
      BY <3>1, AccountTypes
         DEF SerialInv, HandlerAccounts, CopyAccounts, Spent, Reaches
    <3>2. CASE pc[h] # "execute"
      <4>1. \A g \in Handlers : pc[g] # "execute"
        BY <1>4, <3>2, Alone DEF Crash
      <4> QED
        BY <4>1, AccountTypes DEF SerialInv, RestAccounts
    <3> QED
      BY <3>1, <3>2
  <2> QED
    BY <1>4, <2>1, <2>3, <2>4, AccountTypes, ReturnKeepsAccounts DEF Crash
<1>5. ASSUME NEW h \in Handlers, LoadRaises(h) PROVE SerialInv'
  <2>1. FileAccounts'
    BY <1>5 DEF LoadRaises, SerialInv, FileAccounts
  <2>2. file.attempt <= runs[file.head_sha] + crashes
    BY <1>5, Alone DEF LoadRaises, SerialInv, RestAccounts
  <2> QED
    BY <1>5, <2>1, <2>2, ReturnKeepsAccounts DEF LoadRaises
<1>6. ASSUME NEW h \in Handlers, NEW s \in Heads, Receive(h, s)
      PROVE  SerialInv'
  <2>1. /\ \A g \in Handlers : pc[g] = "idle"
        /\ s >= delivered /\ delivered' = s
        /\ pc' = [pc EXCEPT ![h] = "load"] /\ ev'[h].sha = s
        /\ UNCHANGED <<storeVars, runs, lastRun, crashes>>
    BY <1>6, AccountTypes DEF Receive, Heads
  <2>2. FileAccounts'
    BY <2>1, AccountTypes DEF SerialInv, FileAccounts
  <2>3. RestAccounts'
    BY <2>1 DEF SerialInv, RestAccounts
  <2>4. OneAtATime' /\ \A g \in Handlers : HandlerAccounts(g)'
    BY <2>1, AccountTypes DEF OneAtATime, HandlerAccounts
  <2> QED
    BY <2>2, <2>3, <2>4 DEF SerialInv
<1>7. ASSUME NEW h \in Handlers, Load(h) PROVE SerialInv'
  <2> DEFINE s == GetOrCreate(ev[h].sha)
  <2>1. /\ pc[h] = "load" /\ ev[h].sha = delivered
        /\ SaveThen(h, s, "guards")
        /\ UNCHANGED <<disk, file, delivered, runs, lastRun, crashes>>
    BY <1>7 DEF Load, SerialInv, HandlerAccounts
  <2>2. /\ FileAccounts /\ file \in PRRepairState
        /\ file.attempt <= runs[file.head_sha] + crashes
    BY <2>1, Alone DEF SerialInv, RestAccounts, TypeOK
  <2>3. st'[h] = s /\ pc'[h] = "save" /\ cont'[h] = "guards"
    BY <2>1, AccountTypes DEF SaveThen
  <2>4. CASE file.head_sha = delivered /\ disk # "absent"
    <3>1. s = file
      BY <2>1, <2>4 DEF GetOrCreate
    <3>2. CopyAccounts(h)'
      BY <2>1, <2>2, <2>3, <2>4, <3>1, AccountTypes
         DEF CopyAccounts, FileAccounts, Spent, Reaches
    <3> QED
      BY <2>1, <3>2, QuietSaveKeepsAccounts
  <2>5. CASE ~(file.head_sha = delivered /\ disk # "absent")
    <3>1. /\ s.head_sha = delivered /\ s.attempt = 0
          /\ s.last_failure_fingerprint = NoFailure
      BY <2>1, <2>2, <2>5 DEF GetOrCreate, NewState, PRRepairState
    <3>2. runs[delivered] = 0 /\ lastRun[delivered] = NoFailure
      BY <2>2, <2>5, AccountTypes DEF FileAccounts, NewState
    <3>3. file.head_sha = delivered =>
              file.attempt = 0 /\ file.terminal_state = FALSE
      BY <2>2, <2>5 DEF FileAccounts, NewState
    <3>4. CopyAccounts(h)'
      BY <2>1, <2>3, <3>1, <3>2, <3>3, AccountTypes
         DEF CopyAccounts, Spent, Reaches
    <3> QED
      BY <2>1, <3>4, QuietSaveKeepsAccounts
  <2> QED
    BY <2>4, <2>5
<1>8. ASSUME NEW h \in Handlers,
             \/ BlockFork(h) \/ BlockProtected(h) \/ BlockExhausted(h)
             \/ NoFindings(h) \/ DenyApproval(h)
      PROVE  SerialInv'
  <2>1. PICK r : Block(h, st[h], r)
    BY <1>8 DEF BlockFork, BlockProtected, BlockExhausted, NoFindings,
                DenyApproval
  <2>2. pc[h] \in {"guards", "attempt", "gate"} /\ UNCHANGED <<storeVars, historyVars>>
    BY <1>8 DEF BlockFork, BlockProtected, BlockExhausted, NoFindings,
                DenyApproval
  <2>3. ~Reaches(h, "execute") /\ st[h] \in PRRepairState
    BY <2>2 DEF Reaches, TypeOK
  <2> QED
    BY <2>1, <2>2, <2>3, TerminalKeeps, PlainSaveKeepsAccounts DEF Block
<1>9. ASSUME NEW h \in Handlers, FinishClean(h) \/ WaitForSignals(h)
      PROVE  SerialInv'
  <2>1. /\ pc[h] = "guards" /\ UNCHANGED <<storeVars, historyVars>>
        /\ ~Reaches(h, "execute") /\ Signalled(h) \in PRRepairState
    BY <1>9, SignalledType DEF FinishClean, WaitForSignals, ReadSignals, Reaches
  <2>2. /\ Signalled(h).head_sha = st[h].head_sha
        /\ Signalled(h).attempt = st[h].attempt
        /\ Signalled(h).last_failure_fingerprint =
               st[h].last_failure_fingerprint
        /\ Signalled(h).terminal_state = st[h].terminal_state
    BY DEF Signalled, TypeOK, PRRepairState
  <2> QED
    BY <1>9, <2>1, <2>2, TerminalKeeps, PlainSaveKeepsAccounts
       DEF FinishClean, WaitForSignals, Block
<1>10. ASSUME NEW h \in Handlers, GoRepair(h) PROVE SerialInv'
  <2>1. /\ pc[h] = "guards" /\ pc' = [pc EXCEPT ![h] = "attempt"]
        /\ st' = [st EXCEPT ![h] = Signalled(h)]
        /\ UNCHANGED <<cont, ev, failure, storeVars, historyVars>>
    BY <1>10 DEF GoRepair, ReadSignals
  <2>2. /\ Signalled(h).head_sha = st[h].head_sha
        /\ Signalled(h).attempt = st[h].attempt
        /\ Signalled(h).last_failure_fingerprint =
               st[h].last_failure_fingerprint
        /\ Signalled(h).terminal_state = st[h].terminal_state
    BY DEF Signalled, TypeOK, PRRepairState
  <2>3. \A g \in Handlers \ {h} : pc'[g] = "idle" /\ pc[g] = "idle"
    BY <2>1, Alone, AccountTypes
  <2>4. pc'[h] = "attempt" /\ st'[h] = Signalled(h)
    BY <2>1, AccountTypes
  <2>5. CopyAccounts(h) /\ ev[h].sha = delivered
    BY <2>1 DEF SerialInv, HandlerAccounts
  <2>6. CopyAccounts(h)'
    BY <2>1, <2>2, <2>4, <2>5 DEF CopyAccounts, Spent, Reaches
  <2>7. FileAccounts' /\ RestAccounts'
    BY <2>1, <2>3 DEF SerialInv, FileAccounts, RestAccounts
  <2> QED
    BY <2>1, <2>3, <2>4, <2>5, <2>6, <2>7
       DEF SerialInv, OneAtATime, HandlerAccounts
<1>11. ASSUME NEW h \in Handlers, NEW f \in Failures, BlockRepeated(h, f)
       PROVE  SerialInv'
  <2>1. /\ pc[h] = "attempt" /\ ~Reaches(h, "execute") /\ Sees(h, f)
        /\ st[h] \in PRRepairState /\ st[h].last_failure_fingerprint = f
        /\ UNCHANGED <<disk, file, delivered, runs, crashes>>
    BY <1>11 DEF BlockRepeated, Reaches, TypeOK
  <2>2. CopyAccounts(h) /\ ev[h].sha = delivered
    BY <2>1 DEF SerialInv, HandlerAccounts
  <2>3. UNCHANGED lastRun
    BY <2>1, <2>2 DEF CopyAccounts, Sees, TypeOK
  <2> QED
    BY <1>11, <2>1, <2>3, TerminalKeeps, PlainSaveKeepsAccounts
       DEF BlockRepeated, Block
<1>12. ASSUME NEW h \in Handlers, NEW f \in Failures, PlanRepair(h, f)
       PROVE  SerialInv'
  <2>1. /\ pc[h] = "attempt" /\ st[h].last_failure_fingerprint # f
        /\ pc' = [pc EXCEPT ![h] = "save"] /\ cont' = [cont EXCEPT ![h] = "gate"]
        /\ st' = [st EXCEPT ![h] = Recorded(@, f)]
        /\ failure' = [failure EXCEPT ![h] = f] /\ Sees(h, f)
        /\ UNCHANGED <<disk, file, ev, delivered, runs, crashes>>
    BY <1>12 DEF PlanRepair
  <2>2. CopyAccounts(h) /\ ev[h].sha = delivered
    BY <2>1 DEF SerialInv, HandlerAccounts
  <2>3. lastRun' = [lastRun EXCEPT ![delivered] = NoFailure]
    BY <2>1, <2>2 DEF CopyAccounts, Sees
  <2>4. FileAccounts'
    BY <2>1, <2>3, AccountTypes DEF SerialInv, FileAccounts
  <2>5. \A g \in Handlers \ {h} : pc'[g] = "idle" /\ pc[g] = "idle"
    BY <2>1, Alone, AccountTypes
  <2>6. RestAccounts'
    BY <2>1, <2>5 DEF SerialInv, RestAccounts
  <2>7. /\ pc'[h] = "save" /\ cont'[h] = "gate" /\ failure'[h] = f
        /\ st'[h].head_sha = st[h].head_sha /\ st'[h].attempt = st[h].attempt
        /\ st'[h].terminal_state = st[h].terminal_state
        /\ st'[h].last_failure_fingerprint = f
    BY <2>1, AccountTypes DEF Recorded, TypeOK, PRRepairState
  <2>8. CopyAccounts(h)'
    BY <2>1, <2>2, <2>3, <2>7, AccountTypes DEF CopyAccounts, Spent, Reaches
  <2> QED
    BY <2>1, <2>2, <2>4, <2>5, <2>6, <2>7, <2>8
       DEF SerialInv, OneAtATime, HandlerAccounts
<1>13. ASSUME NEW h \in Handlers, SpendAttempt(h) PROVE SerialInv'
  <2> DEFINE s == [st[h] EXCEPT !.attempt = @ + 1]
  <2>1. /\ pc[h] = "gate" /\ SaveThen(h, s, "execute")
        /\ UNCHANGED <<disk, file, delivered, runs, lastRun, crashes>>
    BY <1>13 DEF SpendAttempt
  <2>2. CopyAccounts(h)
    BY <2>1 DEF SerialInv, HandlerAccounts
  <2>3. /\ s.head_sha = st[h].head_sha /\ s.attempt = st[h].attempt + 1
        /\ s.terminal_state = st[h].terminal_state
        /\ s.last_failure_fingerprint = st[h].last_failure_fingerprint
    BY DEF TypeOK, PRRepairState
  <2>4. /\ pc'[h] = "save" /\ cont'[h] = "execute" /\ st'[h] = s
        /\ failure'[h] = failure[h]
    BY <2>1, AccountTypes DEF SaveThen
  <2> HIDE DEF s
  <2>5. CopyAccounts(h)'
    BY <2>1, <2>2, <2>3, <2>4, AccountTypes DEF CopyAccounts, Spent, Reaches
  <2> QED
    BY <2>1, <2>5, QuietSaveKeepsAccounts
<1>14. ASSUME NEW h \in Handlers,
              RepairPushed(h) \/ RepairKept(h) \/ RepairRefused(h)
              \/ RepairFailed(h) \/ RepairRaises(h)
       PROVE  SerialInv'
  <2>1. CountRun(h) /\ UNCHANGED <<disk, file, delivered, crashes>>
    BY <1>14 DEF RepairPushed, RepairKept, RepairRefused, RepairFailed,
                 RepairRaises, CountRun
  <2>2. /\ pc[h] = "execute" /\ CopyAccounts(h) /\ ev[h].sha = delivered
        /\ file = st[h] /\ disk = "whole" /\ st[h].head_sha = delivered
    BY <2>1 DEF CountRun, SerialInv, HandlerAccounts, CopyAccounts
  <2>3. /\ runs' = [runs EXCEPT ![delivered] = @ + 1]
        /\ lastRun' = [lastRun EXCEPT ![delivered] = failure[h]]
    <3>1. ~(runs[delivered] > MaxAttempts)
      BY <2>2, AccountTypes DEF CopyAccounts, Spent, Reaches
    <3> QED
      BY <2>1, <2>2, <3>1, AccountTypes DEF CountRun
  <2>4. /\ runs'[delivered] \in Nat /\ runs'[delivered] <= st[h].attempt
        /\ st[h].attempt <= runs'[delivered] + crashes
        /\ lastRun'[delivered] = st[h].last_failure_fingerprint
    BY <2>2, <2>3, AccountTypes DEF CopyAccounts, Spent, Reaches
  <2>5. FileAccounts' /\ (file.attempt <= runs[file.head_sha] + crashes)'
    BY <2>1, <2>2, <2>3, <2>4, AccountTypes DEF SerialInv, FileAccounts
  <2>6. CASE RepairRaises(h)
    BY <2>2, <2>5, <2>6, ReturnKeepsAccounts DEF RepairRaises
  <2>7. ASSUME NEW s, SaveThen(h, s, "idle"),
               s.head_sha = st[h].head_sha, s.attempt = st[h].attempt,
               s.last_failure_fingerprint = st[h].last_failure_fingerprint,
               st[h].terminal_state => s.terminal_state
        PROVE  SerialInv'
    <3>1. st'[h] = s /\ pc'[h] = "save" /\ cont'[h] = "idle"
      BY <2>7, AccountTypes DEF SaveThen
    <3>2. CopyAccounts(h)'
      BY <2>1, <2>2, <2>4, <2>7, <3>1, AccountTypes
         DEF CopyAccounts, Spent, Reaches
    <3>3. RestAccounts'
      BY <2>5 DEF RestAccounts
    <3> QED
      BY <2>1, <2>2, <2>5, <2>7, <3>2, <3>3, SaveKeepsAccounts
  <2>8. st[h] \in PRRepairState
    BY DEF TypeOK
  <2>9. CASE RepairPushed(h) \/ RepairKept(h)
    <3>1. PICK c : SaveThen(h, [st[h] EXCEPT !.last_repair_commit = c], "idle")
      BY <2>9 DEF RepairPushed, RepairKept
    <3> DEFINE s == [st[h] EXCEPT !.last_repair_commit = c]
    <3>2. /\ s.head_sha = st[h].head_sha /\ s.attempt = st[h].attempt
          /\ s.last_failure_fingerprint = st[h].last_failure_fingerprint
          /\ s.terminal_state = st[h].terminal_state
      BY <2>8 DEF PRRepairState
    <3> QED
      BY <2>7, <3>1, <3>2
  <2>10. CASE RepairRefused(h) \/ RepairFailed(h)
    BY <2>7, <2>8, <2>10, TerminalKeeps DEF RepairRefused, RepairFailed, Block
  <2> QED
    BY <1>14, <2>6, <2>9, <2>10
<1> QED
  BY <1>1, <1>2, <1>3, <1>4, <1>5, <1>6, <1>7, <1>8, <1>9, <1>10, <1>11,
     <1>12, <1>13, <1>14 DEF Next, Handle

(* The accounting holds in every reachable state.                          *)
THEOREM SerialCorrect ==
    ASSUME Serial, InOrder
    PROVE  Spec => [](TypeOK /\ SerialInv)
<1>1. Init => SerialInv
  <2> SUFFICES ASSUME Init PROVE SerialInv
    OBVIOUS
  <2>1. 1 \in Heads
    BY DEF Heads
  <2> QED
    BY <2>1 DEF Init, SerialInv, OneAtATime, FileAccounts, RestAccounts,
       HandlerAccounts, NewState, Heads
<1> QED
  BY <1>1, SerialStep, TypeCorrect, PTL DEF Spec

(* At rest every run is on the record, and only a crash can have spent an  *)
(* attempt without one.                                                    *)
THEOREM RestingRecordAccounts ==
    ASSUME Serial, InOrder
    PROVE  Spec => []AttemptsAccountForRuns
<1>1. SerialInv => AttemptsAccountForRuns
  BY DEF SerialInv, FileAccounts, RestAccounts, AttemptsAccountForRuns
<1> QED
  BY <1>1, SerialCorrect, PTL

(* What a run of the executor does to the history, under the accounting.   *)
LEMMA RunFacts ==
    ASSUME Serial, InOrder, TypeOK, SerialInv, NEW h \in Handlers, CountRun(h)
    PROVE  /\ ev[h].sha = delivered /\ UNCHANGED delivered
           /\ runs[delivered] < MaxAttempts
           /\ runs' = [runs EXCEPT ![delivered] = @ + 1]
           /\ lastRun[delivered] # failure[h]
  <1>1. /\ pc[h] = "execute" /\ CopyAccounts(h) /\ ev[h].sha = delivered
    BY DEF CountRun, SerialInv, HandlerAccounts
  <1>2. runs[delivered] < MaxAttempts
    BY <1>1, AccountTypes DEF CopyAccounts, Spent, Reaches
  <1>3. ~(runs[delivered] > MaxAttempts)
    BY <1>2, AccountTypes
  <1>4. lastRun[delivered] # failure[h]
    BY <1>1 DEF CopyAccounts, Reaches
  <1> QED
    BY <1>1, <1>2, <1>3, <1>4 DEF CountRun

(* Steps other than a run or a delivery leave runs and delivered alone.    *)
LEMMA OtherSteps ==
    ASSUME [Next]_vars
    PROVE  \/ \E h \in Handlers : CountRun(h)
           \/ \E h \in Handlers, s \in Heads : Receive(h, s)
           \/ UNCHANGED <<delivered, runs>>
  <1> USE DEF historyVars
  <1>1. CASE AuthorPushes \/ SignalsChange \/ UNCHANGED vars
    BY <1>1 DEF AuthorPushes, SignalsChange, vars
  <1>2. ASSUME NEW h \in Handlers, Crash(h) PROVE UNCHANGED <<delivered, runs>>
    BY <1>2 DEF Crash
  <1>3. ASSUME NEW h \in Handlers, Handle(h)
        PROVE  CountRun(h) \/ UNCHANGED <<delivered, runs>>
    BY <1>3 DEF Handle, Save, SaveOverlaps, Load, LoadRaises, BlockFork,
       BlockProtected, FinishClean, WaitForSignals, GoRepair, BlockExhausted,
       NoFindings, BlockRepeated, PlanRepair, DenyApproval, SpendAttempt,
       RepairPushed, RepairKept, RepairRefused, RepairFailed, RepairRaises
  <1> QED
    BY <1>1, <1>2, <1>3 DEF Next

(* The loop implements RepairBudget.                                       *)
THEOREM KeepsBudget ==
    ASSUME Serial, InOrder
    PROVE  Spec => BudgetPromise
<1>1. Init => Budget!Init
  BY DEF Init, Budget!Init, Heads
<1>2. TypeOK /\ SerialInv /\ [Next]_vars
          => [Budget!Next]_<<delivered, runs[delivered]>>
  <2> SUFFICES ASSUME TypeOK, SerialInv, [Next]_vars
               PROVE  [Budget!Next]_<<delivered, runs[delivered]>>
    OBVIOUS
  <2>1. ASSUME NEW h \in Handlers, CountRun(h)
        PROVE  Budget!Repair
    BY <2>1, RunFacts, AccountTypes DEF Budget!Repair
  <2>2. ASSUME NEW h \in Handlers, NEW s \in Heads, Receive(h, s)
        PROVE  Budget!MoveOn(s) \/ UNCHANGED <<delivered, runs[delivered]>>
    <3>1. /\ s >= delivered /\ delivered' = s /\ UNCHANGED runs
      BY <2>2, AccountTypes DEF Receive, Heads
    <3>2. s > delivered => runs[s] = 0
      BY AccountTypes, <2>2 DEF SerialInv, FileAccounts, Heads
    <3> QED
      BY <3>1, <3>2, AccountTypes, <2>2 DEF Budget!MoveOn, Heads
  <2> QED
    BY <2>1, <2>2, OtherSteps DEF Budget!Next
<1> QED
  BY <1>1, <1>2, SerialCorrect, PTL DEF Spec, BudgetPromise, Budget!Spec

(* A failure just tried is not tried again.                                *)
THEOREM NeverRetriesInVain ==
    ASSUME Serial, InOrder
    PROVE  Spec => NoFutileRetry
<1>1. TypeOK /\ SerialInv =>
          [\A h \in Handlers :
             CountRun(h) => lastRun[ev[h].sha] # failure[h]]_<<pc, runs>>
  BY RunFacts
<1> QED
  BY <1>1, SerialCorrect, PTL DEF NoFutileRetry

(* While the record names one head, it only advances.                      *)
THEOREM RecordAdvances ==
    ASSUME Serial, InOrder
    PROVE  Spec => RecordOnlyAdvances
<1> DEFINE A == disk # "absent" /\ file'.head_sha = file.head_sha =>
                    /\ file'.attempt >= file.attempt
                    /\ file.terminal_state => file'.terminal_state
<1>1. TypeOK /\ SerialInv /\ [Next]_vars => [A]_file
  <2> SUFFICES ASSUME TypeOK, SerialInv, [Next]_vars, file' # file PROVE A
    OBVIOUS
  <2>1. PICK h \in Handlers : Save(h)
    <3>1. CASE \E h \in Handlers : Handle(h)
      BY <3>1 DEF storeVars, Handle, SaveOverlaps, Load, LoadRaises, BlockFork,
         BlockProtected, FinishClean, WaitForSignals, GoRepair, BlockExhausted,
         NoFindings, BlockRepeated, PlanRepair, DenyApproval, SpendAttempt,
         RepairPushed, RepairKept, RepairRefused, RepairFailed, RepairRaises
    <3> QED
      BY <3>1 DEF Next, vars, storeVars, AuthorPushes, SignalsChange, Crash,
                  Receive
  <2>2. CopyAccounts(h) /\ file' = st[h]
    BY <2>1 DEF Save, SerialInv, HandlerAccounts
  <2> QED
    BY <2>2 DEF CopyAccounts
<1> QED
  BY <1>1, SerialCorrect, PTL DEF Spec, RecordOnlyAdvances

-----------------------------------------------------------------------------
(* How soon the loop settles.                                              *)

LEMMA Implements == PSpec => Spec
<1>1. PInit => Init
  BY DEF PInit
<1>2. [PNext]_pvars => [Next]_vars
  BY DEF PNext, pvars
<1> QED
  BY <1>1, <1>2, PTL DEF PSpec, Spec

(* A new head opens the signals.                                           *)
LEMMA HeadStays ==
    ASSUME [Next]_vars, ~SignalsOpen'
    PROVE  head' = head
  <1> USE DEF envVars
  <1>1. CASE AuthorPushes \/ SignalsChange \/ UNCHANGED vars
    BY <1>1 DEF AuthorPushes, SignalsChange, vars, SignalsOpen
  <1>2. ASSUME NEW h \in Handlers, Crash(h) PROVE head' = head
    BY <1>2 DEF Crash
  <1>3. ASSUME NEW h \in Handlers, NEW s \in Heads, Receive(h, s)
        PROVE  head' = head
    BY <1>3 DEF Receive
  <1>4. ASSUME NEW h \in Handlers, Handle(h) PROVE head' = head
    <2>1. CASE RepairPushed(h) \/ RepairRaises(h)
      BY <2>1 DEF RepairPushed, RepairRaises, PushHead, SignalsOpen
    <2>2. CASE RepairKept(h) \/ RepairRefused(h) \/ RepairFailed(h)
      BY <2>2 DEF RepairKept, RepairRefused, RepairFailed
    <2>3. ASSUME NEW f \in Failures, BlockRepeated(h, f) \/ PlanRepair(h, f)
          PROVE  head' = head
      BY <2>3 DEF BlockRepeated, PlanRepair
    <2> QED
      BY <1>4, <2>1, <2>2, <2>3
         DEF Handle, Save, SaveOverlaps, Load, LoadRaises, BlockFork,
         BlockProtected, FinishClean, WaitForSignals, GoRepair,
         BlockExhausted, NoFindings, DenyApproval, SpendAttempt
  <1> QED
    BY <1>1, <1>2, <1>3, <1>4 DEF Next

(* While the signals stay decided, the only busy handler stays fresh until *)
(* it returns, and counts if it completes.                                 *)
LEMMA BusyTracks ==
    ASSUME TypeOK, SerialInv, ProgressInv, Track, ~SignalsOpen',
           NEW h \in Handlers, pc[h] # "idle",
           \A g \in Handlers : g # h => pc'[g] = pc[g]
    PROVE  /\ \A g \in Handlers : g # h => pc[g] = "idle" /\ pc'[g] = "idle"
           /\ fresh' = IF pc'[h] = "idle" THEN {} ELSE fresh
           /\ fresh \subseteq {h}
           /\ handled' = IF handled <= MaxAttempts /\ h \in fresh /\ Completes(h)
                           THEN handled + 1 ELSE handled
<1>1. \A g \in Handlers : g # h => pc[g] = "idle" /\ pc'[g] = "idle"
  BY Alone
<1>2. fresh \subseteq {h}
  BY <1>1 DEF ProgressInv, FreshPays
<1>3. fresh' = IF pc'[h] = "idle" THEN {} ELSE fresh
  BY <1>1, <1>2 DEF Track
<1>4. handled' = IF handled <= MaxAttempts /\ h \in fresh /\ Completes(h)
                   THEN handled + 1 ELSE handled
  BY <1>2 DEF Track
<1> QED
  BY <1>1, <1>2, <1>3, <1>4

(* A step of that handler that does not touch the file and goes on.        *)
LEMMA QuietProgress ==
    ASSUME TypeOK, SerialInv, ProgressInv, Track, ~SignalsOpen',
           NEW h \in Handlers, pc[h] # "idle", pc'[h] # "idle",
           \A g \in Handlers : g # h => pc'[g] = pc[g],
           ev' = ev, UNCHANGED <<head, disk, file, delivered>>,
           h \in fresh /\ ~SignalsOpen /\ pc'[h] # "load"
               => PaysFor(st'[h], handled + Due(h)')
    PROVE  ProgressInv'
<1>1. fresh' = fresh /\ fresh \subseteq {h} /\ handled' = handled
  BY BusyTracks DEF Completes
<1>2. ASSUME handled' > 0
      PROVE  \A g \in Handlers : pc'[g] # "idle" => g \in fresh'
  BY <1>1, <1>2, BusyTracks DEF ProgressInv
<1>3. ASSUME h \in fresh PROVE FreshPays(h)'
  BY <1>1, <1>3 DEF ProgressInv, FreshPays
<1>4. PaysFor(file, handled)' = PaysFor(file, handled)
  BY <1>1 DEF PaysFor
<1> QED
  BY <1>1, <1>2, <1>3, <1>4 DEF ProgressInv

(* It returns: what is on disk has to pay.                                 *)
LEMMA ReturnProgress ==
    ASSUME TypeOK, SerialInv, ProgressInv, Track, ~SignalsOpen',
           NEW h \in Handlers, pc[h] # "idle", Return(h),
           UNCHANGED <<head, delivered>>,
           handled' > 0 => /\ disk' # "absent" /\ file'.head_sha = head
                           /\ PaysFor(file', handled')
    PROVE  ProgressInv'
<1>1. pc'[h] = "idle" /\ \A g \in Handlers : g # h => pc'[g] = pc[g]
  BY AccountTypes DEF Return
<1>2. /\ fresh' = {} /\ \A g \in Handlers : pc'[g] = "idle"
      /\ handled' = handled \/ (h \in fresh /\ handled' = handled + 1
                                /\ handled <= MaxAttempts)
  BY <1>1, BusyTracks
<1>3. handled' > 0 => delivered = head
  BY <1>2 DEF ProgressInv, FreshPays, SerialInv, HandlerAccounts
<1>4. handled' \in 0..(MaxAttempts + 1)
  BY <1>2 DEF ProgressInv
<1>5. PaysFor(file, handled)' = PaysFor(file', handled')
  BY DEF PaysFor
<1> QED
  BY <1>2, <1>3, <1>4, <1>5 DEF ProgressInv

(* SaveThen away from the executor: the new copy has to pay.               *)
LEMMA SaveProgress ==
    ASSUME TypeOK, SerialInv, ProgressInv, Track, ~SignalsOpen',
           NEW h \in Handlers, pc[h] \notin {"idle", "load"},
           NEW s \in PRRepairState, NEW k, SaveThen(h, s, k),
           UNCHANGED <<head, disk, file, delivered>>,
           \/ s.terminal_state
           \/ s.attempt >= st[h].attempt + (IF k \in {"idle", "execute"}
                                            THEN 1 ELSE 0) - Due(h)
              /\ (st[h].terminal_state => s.terminal_state)
    PROVE  ProgressInv'
<1>1. /\ pc'[h] = "save" /\ cont'[h] = k /\ st'[h] = s /\ ev' = ev
      /\ \A g \in Handlers : g # h => pc'[g] = pc[g]
  BY AccountTypes DEF SaveThen
<1>2. Due(h)' = IF k \in {"idle", "execute"} THEN 1 ELSE 0
  BY <1>1 DEF Due, Reaches
<1>3. ASSUME h \in fresh PROVE PaysFor(s, handled + Due(h)')
  <2>1. PaysFor(st[h], handled + Due(h))
    BY <1>3 DEF ProgressInv, FreshPays
  <2>2. /\ s.attempt \in Nat /\ st[h].attempt \in Nat /\ handled \in Nat
        /\ Due(h) \in 0..1
    BY DEF TypeOK, PRRepairState, ProgressInv, Due
  <2> QED
    BY <1>2, <2>1, <2>2 DEF PaysFor
<1> QED
  BY <1>1, <1>3, QuietProgress

(* A write of the file: what is written pays for what it completes.        *)
LEMMA WriteProgress ==
    ASSUME Serial, InOrder, TypeOK, SerialInv, ProgressInv, Track, ~SignalsOpen',
           NEW h \in Handlers, Save(h)
    PROVE  ProgressInv'
<1> USE DEF envVars, historyVars
<1>1. /\ pc[h] = "save" /\ disk' = "whole" /\ file' = st[h]
      /\ UNCHANGED <<head, delivered>>
  BY DEF Save
<1>2. st[h].head_sha = delivered /\ ev[h].sha = delivered
  BY <1>1 DEF SerialInv, HandlerAccounts, CopyAccounts
<1>3. ASSUME h \in fresh
      PROVE  delivered = head /\ PaysFor(st[h], handled + Due(h))
  BY <1>1, <1>2, <1>3 DEF ProgressInv, FreshPays
<1>4. /\ st[h].attempt \in Nat /\ handled \in Nat /\ Due(h) \in 0..1
  BY DEF TypeOK, PRRepairState, ProgressInv, Due
<1>5. CASE cont[h] = "idle"
  <2>1. Return(h)
    BY <1>5 DEF Save
  <2>2. /\ \A g \in Handlers : g # h => pc'[g] = pc[g]
        /\ pc'[h] = "idle" /\ UNCHANGED crashes
    BY <2>1, AccountTypes DEF Return, Save
  <2>3. ASSUME handled' > 0
        PROVE  /\ disk' # "absent" /\ file'.head_sha = head
               /\ PaysFor(file', handled')
    <3>1. h \in fresh
      BY <1>1, <2>2, <2>3, BusyTracks DEF ProgressInv
    <3>2. handled' <= handled + 1 /\ handled' \in Nat
      BY <1>1, <1>4, <2>2, BusyTracks
    <3>3. Due(h) = 1
      BY <1>1, <1>5 DEF Due
    <3>4. PaysFor(st[h], handled')
      BY <1>3, <1>4, <3>1, <3>2, <3>3 DEF PaysFor
    <3> QED
      BY <1>1, <1>2, <1>3, <3>1, <3>4
  <2> QED
    BY <1>1, <2>1, <2>3, ReturnProgress
<1>6. CASE cont[h] # "idle"
  <2>1. /\ pc' = [pc EXCEPT ![h] = cont[h]]
        /\ UNCHANGED <<cont, ev, st, crashes>>
    BY <1>6 DEF Save
  <2>2. /\ pc'[h] = cont[h] /\ cont[h] \in {"guards", "gate", "execute"}
        /\ \A g \in Handlers : g # h => pc'[g] = pc[g]
    BY <1>6, <2>1, AccountTypes DEF TypeOK
  <2>3. /\ fresh' = fresh /\ fresh \subseteq {h} /\ handled' = handled
        /\ \A g \in Handlers : g # h => pc'[g] = "idle"
    BY <1>1, <2>2, BusyTracks DEF Completes
  <2>4. Due(h)' = Due(h)
    BY <1>1, <2>1, <2>2 DEF Due, Reaches
  <2>5. ASSUME h \in fresh
        PROVE  FreshPays(h)' /\ PaysFor(file, handled)'
    <3>1. PaysFor(st[h], handled + Due(h))
      BY <1>3, <2>5
    <3>2. PaysFor(st[h], handled)
      BY <1>4, <3>1 DEF PaysFor
    <3>3. ev[h].sha = head
      BY <2>5 DEF ProgressInv, FreshPays
    <3> QED
      BY <1>1, <2>1, <2>2, <2>3, <2>4, <3>1, <3>2, <3>3 DEF FreshPays, PaysFor
  <2>6. handled > 0 => h \in fresh
    BY <1>1 DEF ProgressInv
  <2> QED
    BY <1>1, <1>2, <1>3, <2>2, <2>3, <2>5, <2>6 DEF ProgressInv
<1> QED
  BY <1>5, <1>6

LEMMA ProgressStep ==
    ASSUME Serial, InOrder
    PROVE  TypeOK /\ AttemptLeft /\ SerialInv /\ ProgressInv /\ [PNext]_pvars
               => ProgressInv'
<1> SUFFICES ASSUME TypeOK, AttemptLeft, SerialInv, ProgressInv, [PNext]_pvars
             PROVE  ProgressInv'
  OBVIOUS
<1> USE DEF storeVars, envVars, historyVars
<1>1. CASE UNCHANGED pvars
  BY <1>1 DEF pvars, vars, handlerVars, ProgressInv, FreshPays, PaysFor, Due,
              Reaches, SignalsOpen
<1>2. CASE Track /\ SignalsOpen'
  BY <1>2 DEF Track, ProgressInv
<1>3. CASE Next /\ Track /\ ~SignalsOpen'
  <2>1. head' = head
    BY <1>3, HeadStays
  <2>2. head \in Nat
    BY DEF TypeOK, Heads
  <2>3. CASE SignalsChange
    <3>1. UNCHANGED <<head, disk, file, pc, cont, ev, st, delivered>>
      BY <2>3 DEF SignalsChange, handlerVars
    <3>2. fresh' = fresh /\ handled' = handled
      BY <1>3, <3>1 DEF Track, Completes, ProgressInv, FreshPays
    <3> QED
      BY <1>3, <3>1, <3>2 DEF ProgressInv, FreshPays, PaysFor, Due, Reaches
  <2>4. ASSUME NEW h \in Handlers, NEW s \in Heads, Receive(h, s)
        PROVE  ProgressInv'
    <3>1. /\ \A g \in Handlers : pc[g] = "idle"
          /\ pc' = [pc EXCEPT ![h] = "load"] /\ ev'[h].sha = s
          /\ s \in 1..head /\ s >= delivered
          /\ delivered' = IF s > delivered THEN s ELSE delivered
          /\ UNCHANGED <<disk, file>>
      BY <2>4, AccountTypes DEF Receive
    <3>2. fresh = {} /\ handled' = handled
      BY <1>3, <3>1 DEF Track, ProgressInv, FreshPays
    <3>3. /\ pc'[h] = "load" /\ \A g \in Handlers : g # h => pc'[g] = "idle"
      BY <3>1, AccountTypes
    <3>4. fresh' = IF s = head THEN {h} ELSE {}
      BY <1>3, <3>1, <3>2, <3>3 DEF Track
    <3>5. h \in fresh' => FreshPays(h)'
      BY <1>3, <2>1, <3>1, <3>3, <3>4 DEF FreshPays
    <3>6. handled > 0 => s = head /\ delivered' = head
      BY <2>2, <3>1, AccountTypes DEF ProgressInv
    <3> QED
      BY <1>3, <2>1, <3>1, <3>2, <3>3, <3>4, <3>5, <3>6
         DEF ProgressInv, PaysFor
  <2>5. ASSUME NEW h \in Handlers, Crash(h) PROVE ProgressInv'
    <3>1. /\ Return(h) /\ pc[h] # "idle" /\ crashes' # crashes
          /\ UNCHANGED <<file, delivered>>
          /\ disk' = "absent" => disk = "absent"
      BY <2>5, AccountTypes DEF Crash
    <3>2. handled' = handled
      BY <1>3, <3>1 DEF Track, Completes
    <3> QED
      BY <1>3, <2>1, <3>1, <3>2, ReturnProgress DEF ProgressInv
  <2>6. ASSUME NEW h \in Handlers, LoadRaises(h) PROVE ProgressInv'
    <3>1. /\ Return(h) /\ pc[h] = "load"
          /\ UNCHANGED <<disk, file, delivered>>
          /\ \A g \in Handlers : g # h => pc'[g] = pc[g]
      BY <2>6, AccountTypes DEF LoadRaises, Return
    <3>2. handled' = handled
      BY <1>3, <3>1, BusyTracks DEF Completes
    <3> QED
      BY <1>3, <2>1, <3>1, <3>2, ReturnProgress DEF ProgressInv
  <2>7. ASSUME NEW h \in Handlers, Load(h) PROVE ProgressInv'
    <3>1. /\ pc[h] = "load" /\ ev' = ev /\ pc'[h] = "save" /\ cont'[h] = "guards"
          /\ \A g \in Handlers : g # h => pc'[g] = pc[g]
          /\ st'[h] = GetOrCreate(ev[h].sha)
          /\ UNCHANGED <<disk, file, delivered>>
      BY <2>7, AccountTypes DEF Load, SaveThen
    <3>2. Due(h)' = 0
      BY <3>1 DEF Due, Reaches
    <3>3. ASSUME h \in fresh PROVE PaysFor(st'[h], handled + Due(h)')
      <4>1. ev[h].sha = head
        BY <3>3 DEF ProgressInv, FreshPays
      <4>2. handled > 0 => GetOrCreate(head) = file /\ PaysFor(file, handled)
        BY DEF ProgressInv, GetOrCreate
      <4>3. GetOrCreate(head) \in PRRepairState
        BY GetOrCreateType DEF TypeOK
      <4>4. handled \in Nat
        BY DEF ProgressInv
      <4> QED
        BY <3>1, <3>2, <4>1, <4>2, <4>3, <4>4 DEF PaysFor, PRRepairState
    <3> QED
      BY <1>3, <2>1, <3>1, <3>3, QuietProgress
  <2>8. ASSUME NEW h \in Handlers, GoRepair(h) PROVE ProgressInv'
    <3>1. /\ pc[h] = "guards" /\ pc'[h] = "attempt" /\ ev' = ev
          /\ \A g \in Handlers : g # h => pc'[g] = pc[g]
          /\ st'[h] = Signalled(h) /\ UNCHANGED <<disk, file, delivered>>
      BY <2>8, AccountTypes DEF GoRepair, ReadSignals
    <3>2. Due(h)' = 0 /\ Due(h) = 0
      BY <3>1 DEF Due, Reaches
    <3>3. /\ Signalled(h).attempt = st[h].attempt
          /\ Signalled(h).terminal_state = st[h].terminal_state
      BY DEF Signalled, TypeOK, PRRepairState
    <3> QED
      BY <1>3, <2>1, <3>1, <3>2, <3>3, QuietProgress
         DEF ProgressInv, FreshPays, PaysFor
  <2>9. ASSUME NEW h \in Handlers, NEW f \in Failures, PlanRepair(h, f)
        PROVE  ProgressInv'
    <3>1. /\ pc[h] = "attempt" /\ pc'[h] = "save" /\ cont'[h] = "gate" /\ ev' = ev
          /\ \A g \in Handlers : g # h => pc'[g] = pc[g]
          /\ st'[h] = Recorded(st[h], f) /\ UNCHANGED <<disk, file, delivered>>
      BY <2>9, AccountTypes DEF PlanRepair
    <3>2. Due(h)' = 0 /\ Due(h) = 0
      BY <3>1 DEF Due, Reaches
    <3>3. /\ Recorded(st[h], f).attempt = st[h].attempt
          /\ Recorded(st[h], f).terminal_state = st[h].terminal_state
      BY DEF Recorded, TypeOK, PRRepairState
    <3> QED
      BY <1>3, <2>1, <3>1, <3>2, <3>3, QuietProgress
         DEF ProgressInv, FreshPays, PaysFor
  <2>10. ASSUME NEW h \in Handlers, WaitForSignals(h) PROVE ProgressInv'
    <3>1. /\ pc[h] = "guards" /\ pc'[h] = "save" /\ ev' = ev /\ SignalsOpen
          /\ \A g \in Handlers : g # h => pc'[g] = pc[g]
          /\ UNCHANGED <<disk, file, delivered>>
      BY <2>10, AccountTypes DEF WaitForSignals, ReadSignals, SaveThen
    <3> QED
      BY <1>3, <2>1, <3>1, QuietProgress
  <2>11. ASSUME NEW h \in Handlers, NEW s \in PRRepairState,
                NEW r \in TerminalReasons, Block(h, s, r),
                pc[h] \notin {"idle", "load"},
                UNCHANGED <<disk, file, delivered>>
         PROVE  ProgressInv'
    <3>1. Terminal(s, r) \in PRRepairState /\ Terminal(s, r).terminal_state
      BY TerminalType, TerminalKeeps
    <3> QED
      BY <1>3, <2>1, <2>11, <3>1, SaveProgress DEF Block
  <2>12. ASSUME NEW h \in Handlers,
                \/ BlockFork(h) \/ BlockProtected(h) \/ FinishClean(h)
                \/ BlockExhausted(h) \/ NoFindings(h) \/ DenyApproval(h)
                \/ RepairRefused(h) \/ \E f \in Failures : BlockRepeated(h, f)
         PROVE  ProgressInv'
    <3>1. st[h] \in PRRepairState /\ Signalled(h) \in PRRepairState
      BY SignalledType DEF TypeOK
    <3>2. /\ pc[h] \notin {"idle", "load"} /\ UNCHANGED <<disk, file, delivered>>
          /\ \E s \in PRRepairState : \E r \in TerminalReasons : Block(h, s, r)
      BY <2>12, <3>1 DEF BlockFork, BlockProtected, FinishClean,
         BlockExhausted, NoFindings, DenyApproval, RepairRefused,
         BlockRepeated, CountRun, ReadSignals, TerminalReasons
    <3> QED
      BY <2>11, <3>2
  <2>13. ASSUME NEW h \in Handlers, SpendAttempt(h) PROVE ProgressInv'
    <3> DEFINE s == [st[h] EXCEPT !.attempt = @ + 1]
    <3>1. pc[h] = "gate" /\ SaveThen(h, s, "execute")
          /\ UNCHANGED <<disk, file, delivered>>
      BY <2>13 DEF SpendAttempt
    <3>2. st[h] \in PRRepairState /\ st[h].attempt < MaxAttempts
      BY <3>1 DEF TypeOK, AttemptLeft, Reaches
    <3>3. /\ s \in PRRepairState /\ s.attempt = st[h].attempt + 1
          /\ s.terminal_state = st[h].terminal_state
      BY <3>2, AttemptType DEF PRRepairState
    <3>4. s.attempt >= st[h].attempt + 1 - Due(h)
      BY <3>1, <3>2, <3>3 DEF Due, Reaches, PRRepairState
    <3> HIDE DEF s
    <3> QED
      BY <1>3, <2>1, <3>1, <3>3, <3>4, SaveProgress
  <2>14. ASSUME NEW h \in Handlers, NEW s \in PRRepairState,
                pc[h] = "execute", SaveThen(h, s, "idle"),
                s.attempt = st[h].attempt,
                s.terminal_state = st[h].terminal_state,
                UNCHANGED <<disk, file, delivered>>
         PROVE  ProgressInv'
    <3>1. Due(h) = 1 /\ st[h].attempt \in Nat
      BY <2>14 DEF Due, Reaches, TypeOK, PRRepairState
    <3>2. s.attempt >= st[h].attempt + 1 - Due(h)
      BY <2>14, <3>1
    <3> QED
      BY <1>3, <2>1, <2>14, <3>2, SaveProgress
  <2>15. ASSUME NEW h \in Handlers, RepairKept(h) PROVE ProgressInv'
    <3> DEFINE s == [st[h] EXCEPT !.last_repair_commit = 0]
    <3>1. /\ pc[h] = "execute" /\ SaveThen(h, s, "idle")
          /\ UNCHANGED <<disk, file, delivered>>
      BY <2>15 DEF RepairKept, CountRun
    <3>2. /\ s \in PRRepairState /\ s.attempt = st[h].attempt
          /\ s.terminal_state = st[h].terminal_state
      <4>1. st[h] \in PRRepairState
        BY DEF TypeOK
      <4>2. s \in PRRepairState
        BY <4>1, CommitType
      <4> QED
        BY ONLY <4>1, <4>2 DEF PRRepairState
    <3> HIDE DEF s
    <3> QED
      BY <2>14, <3>1, <3>2
  <2>16. ASSUME NEW h \in Handlers, RepairFailed(h) PROVE ProgressInv'
    <3>1. /\ pc[h] = "execute" /\ UNCHANGED <<disk, file, delivered>>
          /\ st[h] \in PRRepairState
      BY <2>16 DEF RepairFailed, CountRun, TypeOK
    <3>2. CASE BudgetSpent(st[h])
      BY <2>11, <2>16, <3>1, <3>2 DEF RepairFailed, TerminalReasons
    <3>3. CASE ~BudgetSpent(st[h])
      BY <2>14, <2>16, <3>1, <3>3 DEF RepairFailed
    <3> QED
      BY <3>2, <3>3
  <2>17. ASSUME NEW h \in Handlers, RepairRaises(h) PROVE ProgressInv'
    <3>1. /\ pc[h] = "execute" /\ Return(h)
          /\ UNCHANGED <<disk, file, delivered, crashes>>
          /\ \A g \in Handlers : g # h => pc'[g] = pc[g]
      BY <2>17, AccountTypes DEF RepairRaises, CountRun, Return
    <3>2. /\ file = st[h] /\ disk = "whole" /\ file.head_sha = delivered
          /\ ev[h].sha = delivered
      BY <3>1 DEF SerialInv, HandlerAccounts, CopyAccounts
    <3>3. ASSUME handled' > 0
          PROVE  file.head_sha = head /\ PaysFor(file, handled')
      <4>1. h \in fresh
        BY <1>3, <3>1, <3>3, BusyTracks DEF ProgressInv
      <4>2. PaysFor(file, handled + 1) /\ ev[h].sha = head
        BY <3>1, <3>2, <4>1 DEF ProgressInv, FreshPays, Due, Reaches
      <4>3. handled \in Nat /\ handled' \in Nat /\ handled' <= handled + 1
        BY <1>3, <3>1, BusyTracks DEF ProgressInv
      <4>4. file.attempt \in Nat
        BY DEF TypeOK, PRRepairState
      <4> QED
        BY <3>2, <4>2, <4>3, <4>4 DEF PaysFor
    <3> QED
      BY <1>3, <2>1, <3>1, <3>2, <3>3, ReturnProgress
  <2>18. ASSUME NEW h \in Handlers PROVE ~RepairPushed(h) /\ ~SaveOverlaps(h)
    BY <2>1, <2>2, Alone DEF RepairPushed, PushHead, SaveOverlaps, OtherSaving
  <2>19. ~AuthorPushes
    BY <2>1, <2>2 DEF AuthorPushes
  <2>20. ASSUME NEW h \in Handlers, Save(h) PROVE ProgressInv'
    BY <1>3, <2>20, WriteProgress
  <2> QED
    BY <1>3, <2>3, <2>4, <2>5, <2>6, <2>7, <2>8, <2>9, <2>10, <2>12, <2>13,
       <2>15, <2>16, <2>17, <2>18, <2>19, <2>20 DEF Next, Handle
<1> QED
  BY <1>1, <1>2, <1>3 DEF PNext

(* Serial and in order, one event more than max_repair_attempts settles    *)
(* the record: for any attempt limit, failures, heads and crashes.         *)
THEOREM SettlesByTheLimit ==
    ASSUME Serial, InOrder
    PROVE  PSpec => []SettlesInTime
<1>1. PInit => ProgressInv
  BY DEF PInit, ProgressInv
<1>2. TypeOK /\ ProgressInv => SettlesInTime
  BY DEF ProgressInv, SettlesInTime, PaysFor, TypeOK, PRRepairState
<1> QED
  BY <1>1, <1>2, ProgressStep, Implements, TypeCorrect, SerialCorrect, PTL
     DEF PSpec
=============================================================================
