------------------------ MODULE ToolActuationProofs -------------------------
(***************************************************************************)
(* What acting on a tool's threads guarantees, for any threads, any fix    *)
(* matrix and any number of runs, however they end.                        *)
(***************************************************************************)
EXTENDS ToolActuation, WellFoundedInduction, TLAPS

USE GovernanceAssumption, ToolActuationAssumption

-----------------------------------------------------------------------------
(* Routing                                                                 *)

LEMMA MinIsLeast ==
    ASSUME NEW S \in SUBSET Nat, S # {}
    PROVE  Min(S) \in S /\ \A n \in S : Min(S) <= n
<1>1. PICK m \in S : \A n \in S : <<n, m>> \notin OpToRel(<, Nat)
  BY NatLessThanWellFounded, WFMin
<1>2. ASSUME NEW n \in S PROVE m <= n
  <2>1. n \in Nat /\ m \in Nat /\ <<n, m>> \in Nat \X Nat
        /\ <<n, m>>[1] = n /\ <<n, m>>[2] = m
    OBVIOUS
  <2>2. ~(n < m)
    BY <1>1, <2>1, Zenon DEF OpToRel
  <2> QED
    BY <2>1, <2>2
<1> QED
  BY <1>1, <1>2 DEF Min

(* The scores of two levels never meet.                                    *)
LEMMA LevelsApart ==
    ASSUME NEW r
    PROVE  /\ Level(r) \in Nat /\ Score(r) \in Nat /\ Score(r) <= 121
           /\ \/ Level(r) = 0 /\ Score(r) = 1
              \/ Level(r) = 1 /\ Score(r) < 5 /\ (Score(r) > 0 => Score(r) > 1)
              \/ Level(r) = 2 /\ 5 <= Score(r) /\ Score(r) < 10
              \/ Level(r) = 3 /\ 10 <= Score(r) /\ Score(r) < 20
              \/ Level(r) = 4 /\ 100 <= Score(r)
<1> DEFINE t == Weight(r, "tool", 2)
           c == Weight(r, "complexity", 2)
           tag == Weight(r, "tag", 10)
           category == Weight(r, "category", 5)
           rule == Weight(r, "rule_id", 100)
<1>1. /\ t = 0 \/ t = 2
      /\ c = 0 \/ c = 2
      /\ IF Names(r, "tag") THEN tag = 10 ELSE tag = 0
      /\ IF Names(r, "category") THEN category = 5 ELSE category = 0
      /\ IF Names(r, "rule_id") THEN rule = 100 ELSE rule = 0
  BY DEF Weight
<1>9. /\ t = 0 \/ t = 2
      /\ c = 0 \/ c = 2
      /\ tag = 0 \/ tag = 10
      /\ category = 0 \/ category = 5
  BY <1>1
<1>2. Score(r) = IF Names(r, "*") THEN 1 ELSE t + c + rule + tag + category
  BY DEF Score
<1> HIDE DEF t, c, tag, category, rule
<1>3. CASE Names(r, "*")
  <2>1. Level(r) = 0 /\ Score(r) = 1
    BY <1>2, <1>3 DEF Level
  <2> QED
    BY <2>1
<1>4. CASE ~Names(r, "*") /\ Names(r, "rule_id")
  <2>1. rule = 100
    BY <1>1, <1>4
  <2>2. /\ t + c + rule + tag + category \in Nat
        /\ 100 <= t + c + rule + tag + category
        /\ t + c + rule + tag + category <= 121
    BY <1>9, <2>1
  <2>3. Level(r) = 4 /\ Score(r) = t + c + rule + tag + category
    BY <1>2, <1>4 DEF Level
  <2> QED
    BY <2>2, <2>3
<1>5. CASE ~Names(r, "*") /\ ~Names(r, "rule_id") /\ Names(r, "tag")
  <2>1. rule = 0 /\ tag = 10
    BY <1>1, <1>5
  <2>2. /\ t + c + rule + tag + category \in Nat
        /\ 10 <= t + c + rule + tag + category
        /\ t + c + rule + tag + category < 20
    BY <1>9, <2>1
  <2>3. Level(r) = 3 /\ Score(r) = t + c + rule + tag + category
    BY <1>2, <1>5 DEF Level
  <2> QED
    BY <2>2, <2>3
<1>6. CASE ~Names(r, "*") /\ ~Names(r, "rule_id") /\ ~Names(r, "tag")
  <2>1. rule = 0 /\ tag = 0
    BY <1>1, <1>6
  <2>2. CASE Names(r, "category")
    <3>1. /\ t + c + rule + tag + category \in Nat
          /\ 5 <= t + c + rule + tag + category
          /\ t + c + rule + tag + category < 10
      <4>1. category = 5
        BY <1>1, <2>2
      <4> QED
        BY <1>9, <2>1, <4>1
    <3>2. Level(r) = 2 /\ Score(r) = t + c + rule + tag + category
      BY <1>2, <1>6, <2>2 DEF Level
    <3> QED
      BY <3>1, <3>2
  <2>3. CASE ~Names(r, "category")
    <3>1. /\ t + c + rule + tag + category \in Nat
          /\ t + c + rule + tag + category < 5
          /\ t + c + rule + tag + category # 1
      <4>1. category = 0
        BY <1>1, <2>3
      <4> QED
        BY <1>9, <2>1, <4>1
    <3>2. Level(r) = 1 /\ Score(r) = t + c + rule + tag + category
      BY <1>2, <1>6, <2>3 DEF Level
    <3> QED
      BY <3>1, <3>2
  <2> QED
    BY <2>2, <2>3
<1> QED
  BY <1>3, <1>4, <1>5, <1>6

(* The rule with the highest score, and among those the first.             *)
LEMMA BestExists ==
    ASSUME NEW m, NEW fits \in SUBSET Nat, fits # {}
    PROVE  \E i \in fits : \A j \in fits :
              \/ Score(m[j]) < Score(m[i])
              \/ Score(m[j]) = Score(m[i]) /\ i <= j
<1> DEFINE Short(i) == 121 - Score(m[i])
           shorts == {Short(i) : i \in fits}
           best == {i \in fits : Short(i) = Min(shorts)}
<1>1. \A i \in fits : /\ Score(m[i]) \in Nat /\ Score(m[i]) <= 121
                       /\ Short(i) \in Nat
  BY LevelsApart
<1>2. shorts \in SUBSET Nat /\ shorts # {}
  BY <1>1
<1>3. Min(shorts) \in shorts /\ \A n \in shorts : Min(shorts) <= n
  BY <1>2, MinIsLeast
<1>4. best \in SUBSET Nat /\ best # {}
  BY <1>3
<1>5. Min(best) \in best /\ \A n \in best : Min(best) <= n
  BY <1>4, MinIsLeast
<1>6. ASSUME NEW j \in fits
      PROVE  \/ Score(m[j]) < Score(m[Min(best)])
             \/ Score(m[j]) = Score(m[Min(best)]) /\ Min(best) <= j
  <2> DEFINE p == Score(m[Min(best)])
             q == Score(m[j])
  <2>1. Min(best) \in fits /\ Short(Min(best)) <= Short(j)
    BY <1>3, <1>5
  <2>2. p \in Nat /\ q \in Nat /\ 121 - p <= 121 - q
    BY <1>1, <2>1
  <2>3. 121 - p = 121 - q => Min(best) <= j
    BY <1>5, <2>1
  <2> HIDE DEF p, q
  <2>4. q < p \/ (q = p /\ Min(best) <= j)
    BY <2>2, <2>3
  <2> QED
    BY <2>4 DEF p, q
<1> QED
  BY <1>5, <1>6

(* Whatever the matrix and the finding, no matching rule is more specific  *)
(* than the one whose strategy is taken.                                   *)
LEMMA SpecificRuleWins ==
    ASSUME NEW m \in Matrices, NEW finding
    PROVE  MostSpecificWins(m, finding)
<1> DEFINE fits == {i \in DOMAIN m : Matches(m[i], finding)}
           Best(i) == \A j \in fits :
                         \/ Score(m[j]) < Score(m[i])
                         \/ Score(m[j]) = Score(m[i]) /\ i <= j
           best == CHOOSE i \in fits : Best(i)
<1>1. SUFFICES ASSUME NEW k \in fits
               PROVE  /\ Resolve(m, finding).rule # 0
                      /\ Level(m[k])
                            <= Level(m[Resolve(m, finding).rule])
  BY DEF MostSpecificWins
<1>2. m \in Seq(Range(m))
  BY DEF ToolActuationAssumption
<1>3. DOMAIN m = 1..Len(m) /\ Len(m) \in Nat
  BY <1>2
<1>4. \E i \in fits : Best(i)
  <2>1. fits \in SUBSET Nat /\ fits # {}
    BY <1>3
  <2> HIDE DEF fits
  <2> QED
    BY <2>1, BestExists
<1>5. best \in fits /\ Best(best)
  BY <1>4
<1>6. Resolve(m, finding).rule = best
  BY DEF Resolve
<1>7. /\ Score(m[k]) > 0 /\ Score(m[best]) > 0
      /\ Score(m[k]) <= Score(m[best])
  <2>1. Score(m[k]) \in Nat /\ Score(m[best]) \in Nat
    BY LevelsApart
  <2>2. Score(m[k]) > 0 /\ Score(m[best]) > 0
    BY <1>5 DEF Matches
  <2>3. \/ Score(m[k]) < Score(m[best])
        \/ Score(m[k]) = Score(m[best])
    BY <1>5
  <2> QED
    BY <2>1, <2>2, <2>3
<1>8. best # 0
  BY <1>3, <1>5
<1> HIDE DEF best
<1>9. Level(m[k]) <= Level(m[best])
  BY <1>7, LevelsApart
<1> QED
  BY <1>6, <1>8, <1>9

-----------------------------------------------------------------------------
(* The gate, for the findings the dispatcher makes of a tool's threads.    *)

LEMMA TierType ==
    ASSUME NEW f \in Finding
    PROVE  TierImpact(f) \in Tiers
<1>1. CASE f.file = NoFile
  BY <1>1 DEF TierImpact, Tiers
<1>2. CASE f.file # NoFile
  <2>1. PathOf[f.file] \in PathClass
    BY <1>2 DEF Finding, GovernanceAssumption
  <2>2. AreaTier[PathOf[f.file].area] \in Tiers
    BY <2>1 DEF PathClass, AreaTier, Tiers
  <2> QED
    BY <1>2, <2>2 DEF TierImpact, PathTier, Tiers
<1> QED
  BY <1>1, <1>2

(* Below T3 the highest tier of a plan is a bound of the others.           *)
LEMMA LowMaxBounds ==
    ASSUME NEW S \in SUBSET Tiers, 0 \in S, Max(S) \notin {3, 4, 5}
    PROVE  \A n \in S : n <= 2
<1>1. {5 - n : n \in S} \in SUBSET Nat /\ {5 - n : n \in S} # {}
  <2>1. \A n \in S : 5 - n \in Nat
    <3> SUFFICES ASSUME NEW n \in S PROVE 5 - n \in Nat
      OBVIOUS
    <3>1. n \in 0..5
      BY DEF Tiers
    <3> QED
      BY <3>1
  <2>2. {5 - n : n \in S} \subseteq Nat
    BY <2>1
  <2>3. 5 - 0 \in {5 - n : n \in S}
    OBVIOUS
  <2> QED
    BY <2>2, <2>3
<1>2. PICK l \in {5 - n : n \in S} : \A k \in {5 - n : n \in S} : l <= k
  BY <1>1, MinIsLeast
<1>3. PICK x \in S : l = 5 - x
  BY <1>2
<1>4. ASSUME NEW n \in S PROVE x >= n
  <2>1. l <= 5 - n
    BY <1>2
  <2>2. n \in 0..5 /\ x \in 0..5
    BY DEF Tiers
  <2> QED
    BY <1>3, <2>1, <2>2
<1>5. Max(S) \in S /\ \A n \in S : Max(S) >= n
  BY <1>4 DEF Max
<1>6. ASSUME NEW n \in S PROVE n <= 2
  <2>1. Max(S) \in 0..2
    <3>1. Max(S) \in 0..5
      BY <1>5 DEF Tiers
    <3> QED
      BY <3>1
  <2>2. n \in 0..5 /\ Max(S) >= n
    BY <1>5 DEF Tiers
  <2> QED
    BY <2>1, <2>2
<1> QED
  BY <1>6

(* What may be done to a finding without anyone's approval.                *)
Bounded(f) ==
    /\ ~Protected(f) /\ TierImpact(f) <= 2
    /\ Category(f) \notin ApprovalGated
    /\ f.severity \notin {"high", "critical"}

LEMMA OpenGateBounds ==
    ASSUME NEW F \in SUBSET Finding, NEW c, ~Gated(F, c)
    PROVE  \A f \in BuildPlan(F, c).targeted_findings : f \in F /\ Bounded(f)
<1> DEFINE targets == {f \in F : Repairable(f)}
           tier == MaxTier(targets)
           protected == \E f \in F : Protected(f)
           tiers == {0} \cup {TierImpact(f) : f \in targets}
<1>1. BuildPlan(F, c).targeted_findings = targets
  BY DEF BuildPlan
<1>2. /\ ~protected /\ tier \notin {3, 4, 5}
      /\ RiskLevel(F, protected, tier) = "low" /\ ~HasGatedCategory(F)
  BY DEF Gated, RequiresHumanApproval, BuildPlan, IsExecutable
<1>3. ~HasSeverity(F, "critical") /\ ~HasSeverity(F, "high")
  BY <1>2 DEF RiskLevel
<1>4. tiers \in SUBSET Tiers /\ 0 \in tiers /\ tier = Max(tiers)
  BY TierType DEF Tiers, MaxTier
<1>5. \A n \in tiers : n <= 2
  BY <1>2, <1>4, LowMaxBounds
<1> QED
  BY <1>1, <1>2, <1>3, <1>5 DEF HasGatedCategory, HasSeverity, Bounded

LEMMA ToolCategoryType ==
    ASSUME NEW t \in Tools, NEW says
    PROVE  ToolCategory(t, says) \in Categories \cup {"unknown"}
<1> DEFINE rows == CategoryOf[t]
           heard == {i \in DOMAIN rows : rows[i].says \cap says # {}}
<1>1. /\ DOMAIN rows \subseteq Nat
      /\ \A i \in DOMAIN rows : rows[i].means \in Categories
  BY DEF Tools, Markers, CategoryOf, Categories
<1>2. Otherwise[t] \in Categories \cup {"unknown"}
  BY DEF Tools, Markers, Otherwise, Categories
<1>3. ToolCategory(t, says) = IF heard = {} THEN Otherwise[t]
                              ELSE rows[Min(heard)].means
  BY DEF ToolCategory
<1> HIDE DEF rows
<1>4. heard # {} => Min(heard) \in DOMAIN rows
  BY <1>1, MinIsLeast
<1> QED
  BY <1>1, <1>2, <1>3, <1>4

LEMMA FindingOfItem ==
    ASSUME NEW t \in Tools, NEW i \in Nat, NEW thread \in Thread
    PROVE  /\ ToFinding(Item(t, i, thread)) \in Finding
           /\ ToFinding(Item(t, i, thread)).thread = i
           /\ ToFinding(Item(t, i, thread)).id = FindingId(t, i, thread)
<1> DEFINE item == Item(t, i, thread)
           finding == ToFinding(item)
<1>1. ToolCategory(t, thread.says) \in Categories \cup {"unknown"}
  BY ToolCategoryType
<1>2. /\ item.file \in Files
      /\ item.says \in SUBSET {Hints[k].says : k \in DOMAIN Hints}
      /\ item.category \in Categories \cup {"unknown"}
      /\ item.severity \in {"low", "medium", "high", "critical"}
      /\ item.autofix \in BOOLEAN
      /\ item.rule \in Rules \cup {NoRule}
      /\ item.thread = i /\ item.id = FindingId(t, i, thread)
      /\ DOMAIN item = {"file", "says", "category", "severity", "autofix",
                        "rule", "id", "thread"}
  BY <1>1 DEF Item, Thread, Exact
<1> HIDE DEF item
<1>3. finding = [file |-> item.file, says |-> item.says,
                 category |-> item.category, severity |-> item.severity,
                 source |-> "agent_review", autofix |-> item.autofix,
                 rule |-> item.rule, id |-> item.id, thread |-> item.thread]
  BY <1>2 DEF ToFinding
<1> HIDE DEF finding
<1>4. item.id \in Nat /\ item.thread \in Nat
  BY <1>2 DEF FindingId, NoneId
<1>5. finding \in Finding /\ finding.id = item.id /\ finding.thread = item.thread
  BY <1>2, <1>3, <1>4 DEF Finding
<1> QED
  BY <1>2, <1>5 DEF finding, item

-----------------------------------------------------------------------------
(* Types.                                                                  *)

IdsIn(F)     == {f.id : f \in F}
ThreadsIn(F) == {f.thread : f \in F}

(* TypeOK, and that a run that has not read the threads yet has nothing.   *)
TypeInv ==
    /\ threads \in Seq(Thread)
    /\ resolved \in [Positions -> {"open", "bot", "person"}]
    /\ landed \subseteq Positions
    /\ tool \in Tools /\ config \in Configs /\ matrix \in Matrices
    /\ runs \in 0..MaxRuns
    /\ pc \in Rest \cup {"read", "execute", "propose", "reply", "resolve",
                       "report"}
    /\ found \subseteq Finding /\ ThreadsIn(found) \subseteq Positions
    /\ execution.applied \subseteq IdsIn(Autofix)
    /\ proposals \subseteq IdsIn(Manual)
    /\ lane \in {"autofix", "manual"}
    /\ waiting \subseteq IF lane = "autofix" THEN Autofix ELSE Manual
    /\ pc \in {"resolve", "report"} => waiting # {}
    /\ replies \in [Positions -> Seq(Outcomes)]
    /\ DOMAIN reports = Ids
    /\ \A n \in Ids : reports[n].outcome \in Outcomes \cup {"none"}
    /\ vouched \subseteq Finding /\ ThreadsIn(vouched) \subseteq Positions
    /\ pc = "read" => /\ found = {} /\ waiting = {} /\ proposals = {}
                     /\ execution.applied = {}

LEMMA CurrentWaits ==
    ASSUME TypeInv, waiting # {}
    PROVE  /\ Current \in waiting /\ Current \in found
           /\ Current.thread \in Positions
           /\ Current \in IF lane = "autofix" THEN Autofix ELSE Manual
<1>1. waiting \subseteq found
  BY DEF TypeInv, Autofix, Manual
<1>2. /\ waiting \subseteq Finding /\ ThreadsIn(waiting) \in SUBSET Nat
      /\ ThreadsIn(waiting) # {} /\ ThreadsIn(waiting) \subseteq Positions
  BY <1>1 DEF TypeInv, ThreadsIn, Finding
<1>3. PICK f \in waiting : \A g \in waiting : f.thread <= g.thread
  <2>1. /\ Min(ThreadsIn(waiting)) \in ThreadsIn(waiting)
        /\ \A n \in ThreadsIn(waiting) : Min(ThreadsIn(waiting)) <= n
    BY <1>2, MinIsLeast
  <2>2. PICK f \in waiting : f.thread = Min(ThreadsIn(waiting))
    BY <2>1 DEF ThreadsIn
  <2>3. \A g \in waiting : f.thread <= g.thread
    BY <2>1, <2>2 DEF ThreadsIn
  <2> QED
    BY <2>3
<1>4. Current \in waiting
  BY <1>3 DEF Current
<1> QED
  BY <1>1, <1>2, <1>4 DEF TypeInv, ThreadsIn

LEMMA InitTypes == Init => TypeInv
<1> SUFFICES ASSUME Init PROVE TypeInv
  OBVIOUS
<1>1. threads \in Seq(Thread)
  BY DEF Init, ToolActuationAssumption
<1>2. replies \in [Positions -> Seq(Outcomes)]
  BY DEF Init
<1> QED
  BY <1>1, <1>2 DEF Init, TypeInv, HasAdapter, Autofix, Manual, Ids, IdsIn,
                    ThreadsIn, Rest,
                    NoExecution, NoReport, ToolActuationAssumption

(* The findings a run makes of the threads it reads, one of each.          *)
LEMMA ReadMakesFindings ==
    ASSUME TypeInv, Read
    PROVE  /\ found' \subseteq Finding
           /\ \A f \in found' : /\ f.thread \in Positions
                               /\ f.id = IdOf(f.thread)
                               /\ Owns(tool, threads[f.thread])
           /\ \A f, g \in found' : f.thread = g.thread => f = g
<1> DEFINE mine == ReadFindings(tool, threads,
                               [i \in Positions |-> resolved[i] # "open"])
           Of(i) == ToFinding(Item(tool, i, threads[i]))
<1>1. found' = {ToFinding(item) : item \in ToPayloadFindings(tool, threads, mine)}
  BY DEF Read
<1>2. \A i \in mine : i \in Positions /\ Owns(tool, threads[i])
  BY DEF ReadFindings, Positions
<1>3. \A i \in Positions : i \in Nat /\ threads[i] \in Thread
  BY DEF TypeInv, Positions
<1> HIDE DEF mine
<1>4. found' = {Of(i) : i \in {j \in mine : ~threads[j].blank}}
  BY <1>1 DEF ToPayloadFindings
<1>5. \A i \in mine : /\ Of(i) \in Finding /\ Of(i).thread = i
                      /\ Of(i).id = IdOf(i)
  BY <1>2, <1>3, FindingOfItem DEF TypeInv, IdOf
<1> HIDE DEF Of
<1> QED
  BY <1>2, <1>4, <1>5

LEMMA PlanTargets ==
    ASSUME TypeInv
    PROVE  Plan.targeted_findings \subseteq Autofix
  BY DEF Plan, BuildPlan

LEMMA NextTypes ==
    ASSUME TypeInv, [Next]_vars
    PROVE  TypeInv'
<1> USE DEF TypeInv
<1>1. CASE UNCHANGED vars
  BY <1>1 DEF vars, github, given, local, Positions, Ids, Autofix, Manual
<1>2. ASSUME NEW i \in Positions,
             PersonResolves(i) \/ PersonReopens(i) \/ Outdates(i)
      PROVE  TypeInv'
  <2>1. CASE PersonResolves(i) \/ PersonReopens(i)
    BY <2>1 DEF PersonResolves, PersonReopens, given, local, Positions, Ids,
                Autofix, Manual
  <2>2. CASE Outdates(i)
    <3>1. /\ threads[i] \in Thread
          /\ threads' = [threads EXCEPT ![i].anchored = FALSE]
      BY <2>2 DEF Outdates, Positions
    <3>2. [threads[i] EXCEPT !.anchored = FALSE] \in Thread
      BY <3>1 DEF Thread
    <3>3. threads' \in Seq(Thread) /\ DOMAIN threads' = DOMAIN threads
      BY <3>1, <3>2 DEF Positions
    <3> QED
      BY <2>2, <3>3 DEF Outdates, given, local, Positions, Ids, Autofix, Manual
  <2> QED
    BY <1>2, <2>1, <2>2
<1>3. CASE Begin
  <2>1. /\ found' = {} /\ execution'.applied = {} /\ Positions' = Positions
        /\ replies' \in [Positions -> Seq(Outcomes)]
    BY <1>3 DEF Begin, github, Positions, NoExecution
  <2> QED
    BY <1>3, <2>1 DEF Begin, github, Ids, ThreadsIn
<1>4. CASE Read
  <2>1. found' \subseteq Finding /\ ThreadsIn(found') \subseteq Positions
    BY <1>4, ReadMakesFindings DEF ThreadsIn
  <2> QED
    BY <1>4, <2>1 DEF Read, github, given, Positions, Ids, Autofix, Manual,
                       IdsIn, Rest
<1>5. ASSUME NEW status, NEW A \in SUBSET Autofix, Executed(status, A),
             landed' \subseteq Positions
      PROVE  TypeInv'
  <2>1. /\ execution'.applied \subseteq IdsIn(Autofix') /\ found' = found
        /\ vouched' \subseteq Finding /\ ThreadsIn(vouched') \subseteq Positions
    BY <1>5 DEF Executed, IdsIn, ThreadsIn, Autofix
  <2> QED
    BY <1>5, <2>1 DEF Executed, github, given, Positions, Ids, Autofix, Manual
<1>6. ASSUME NEW A \in SUBSET Autofix
      PROVE  ThreadsIn(A) \subseteq Positions
  BY <1>6 DEF ThreadsIn, Autofix
<1>7. CASE \/ ExecutorDoesNotRun
           \/ \E status \in {"no_applicable_instructions",
                            "rolled_back_verification_failed"} :
                 ExecutorKeepsNothing(status)
           \/ \E A \in SUBSET Autofix : ExecutorCompletes(A)
  <2>1. CASE ExecutorDoesNotRun
    BY <1>5, <2>1 DEF ExecutorDoesNotRun
  <2>2. ASSUME NEW status, ExecutorKeepsNothing(status) PROVE TypeInv'
    BY <1>5, <2>2 DEF ExecutorKeepsNothing
  <2>3. ASSUME NEW A \in SUBSET Autofix, ExecutorCompletes(A) PROVE TypeInv'
    <3>1. landed' \subseteq Positions
      BY <1>6, <2>3 DEF ExecutorCompletes, ThreadsIn
    <3> QED
      BY <1>5, <2>3, <3>1 DEF ExecutorCompletes
  <2> QED
    BY <1>7, <2>1, <2>2, <2>3
<1>8. ASSUME NEW A \in SUBSET Autofix, ExecutorRaises(A)
      PROVE  TypeInv'
  <2>1. /\ landed' \subseteq Positions
        /\ vouched' \subseteq Finding /\ ThreadsIn(vouched') \subseteq Positions
    BY <1>6, <1>8 DEF ExecutorRaises, ThreadsIn, Autofix
  <2> QED
    BY <1>8, <2>1 DEF ExecutorRaises, Raise, given, local, Positions, Ids,
                      Autofix, Manual, Rest
<1>9. ASSUME NEW P \in SUBSET Manual, Propose(P)
      PROVE  TypeInv'
  BY <1>9 DEF Propose, github, given, Positions, Ids, Autofix, Manual, IdsIn
<1>10. ASSUME replies' \in [Positions -> Seq(Outcomes)],
              resolved' \in [Positions -> {"open", "bot", "person"}],
              UNCHANGED <<threads, landed, given, local, reports, vouched>>,
              pc' \in Rest \cup {"reply", "resolve", "report"},
              pc' \in {"resolve", "report"} => waiting # {}
       PROVE  TypeInv'
  BY <1>10 DEF given, local, Positions, Ids, Autofix, Manual, Rest
<1>11. ASSUME waiting # {}, Replied(Current.thread)
       PROVE  replies' \in [Positions -> Seq(Outcomes)]
  <2>1. Outcome(Current) \in Outcomes
    BY DEF Outcome, Outcomes
  <2>2. replies[Current.thread] \in Seq(Outcomes) /\ Current.thread \in Positions
    BY <1>11, CurrentWaits
  <2>3. Append(replies[Current.thread], Outcome(Current)) \in Seq(Outcomes)
    BY <2>1, <2>2
  <2> QED
    BY <1>11, <2>3 DEF Replied
<1>12. ASSUME waiting # {}, Closed
       PROVE  resolved' \in [Positions -> {"open", "bot", "person"}]
  BY <1>12, CurrentWaits DEF Closed
<1>13. CASE Reply \/ ReplyRaises
  <2>1. /\ waiting # {} /\ (replies' = replies \/ Replied(Current.thread))
        /\ resolved' = resolved
        /\ UNCHANGED <<threads, landed, given, local, reports, vouched>>
        /\ pc' \in Rest \cup {"resolve", "report"}
    BY <1>13 DEF Reply, ReplyRaises, Raise, github, Rest
  <2> QED
    BY <1>10, <1>11, <2>1
<1>14. CASE ResolveThread \/ ResolveRaises
  <2>1. /\ waiting # {} /\ (resolved' = resolved \/ Closed)
        /\ replies' = replies
        /\ UNCHANGED <<threads, landed, given, local, reports, vouched>>
        /\ pc' \in Rest \cup {"report"}
    BY <1>14 DEF ResolveThread, ResolveRaises, Raise, Rest
  <2> QED
    BY <1>10, <1>12, <2>1
<1>15. CASE WriteReport
  <2>1. Report(Current).outcome \in Outcomes
    BY DEF Report, Outcomes
  <2>2. /\ DOMAIN reports' = Ids
        /\ \A n \in Ids : reports'[n].outcome \in Outcomes \cup {"none"}
    BY <1>15, <2>1 DEF WriteReport
  <2> QED
    BY <1>15, <2>2 DEF WriteReport, github, given, Positions, Ids, Autofix,
                       Manual
<1>16. CASE ReadRaises \/ ProposeRaises \/ WriteRaises \/ LaneAnswered \/ Die
  BY <1>16 DEF ReadRaises, ProposeRaises, WriteRaises, LaneAnswered, Die, Raise,
               github, given, local, Positions, Ids, Autofix, Manual, Rest
<1> QED
  BY <1>1, <1>2, <1>3, <1>4, <1>7, <1>8, <1>9, <1>13, <1>14, <1>15, <1>16
     DEF Next

LEMMA TypesHold == Spec => []TypeInv
  BY InitTypes, NextTypes, PTL DEF Spec

-----------------------------------------------------------------------------
(* Findings are told apart by their threads, which are the tool's and name *)
(* them.                                                                   *)

FoundInv ==
    /\ \A f, g \in found : f.thread = g.thread => f = g
    /\ \A f \in found \cup vouched : f.id = IdOf(f.thread)
    /\ \A f \in found : Authors(threads[f.thread]) \cap Markers[tool] # {}

(* No step takes a thread's number or its authors, or adds a thread.       *)
LEMMA SameNames ==
    ASSUME TypeInv, [Next]_vars
    PROVE  /\ tool' = tool /\ config' = config /\ Positions' = Positions
           /\ \A i \in Positions :
                 /\ threads'[i].numbered = threads[i].numbered
                 /\ IdOf(i)' = IdOf(i)
                 /\ Authors(threads'[i]) = Authors(threads[i])
<1>1. CASE UNCHANGED <<threads, tool, config>>
  BY <1>1 DEF Positions, IdOf
<1>2. ASSUME NEW i \in Positions, Outdates(i)
      PROVE  /\ tool' = tool /\ config' = config /\ Positions' = Positions
             /\ \A j \in Positions :
                   /\ threads'[j].numbered = threads[j].numbered
                   /\ IdOf(j)' = IdOf(j)
                   /\ Authors(threads'[j]) = Authors(threads[j])
  <2>1. /\ threads' = [threads EXCEPT ![i].anchored = FALSE]
        /\ UNCHANGED <<tool, config>>
    BY <1>2 DEF Outdates, given
  <2>2. \A j \in Positions : /\ threads[j] \in Thread
                            /\ threads'[j] = IF j = i
                                   THEN [threads[i] EXCEPT !.anchored = FALSE]
                                   ELSE threads[j]
    BY <2>1 DEF TypeInv, Positions
  <2>3. \A j \in Positions : /\ threads'[j].numbered = threads[j].numbered
                            /\ Authors(threads'[j]) = Authors(threads[j])
    BY <2>2 DEF Thread, Authors
  <2>4. \A j \in Positions : IdOf(j)' = IdOf(j)
    BY <2>1, <2>3 DEF IdOf, FindingId
  <2>5. Positions' = Positions
    BY <2>1 DEF Positions
  <2> QED
    BY <2>1, <2>3, <2>4, <2>5
<1>3. CASE \/ \E i \in Positions : PersonResolves(i) \/ PersonReopens(i)
           \/ Begin \/ Read \/ ReadRaises \/ ProposeRaises \/ Reply \/ ReplyRaises
           \/ ResolveThread \/ ResolveRaises \/ WriteReport \/ WriteRaises
           \/ LaneAnswered \/ Die \/ UNCHANGED vars
  <2>1. UNCHANGED <<threads, tool, config>>
    BY <1>3 DEF PersonResolves, PersonReopens, Begin, Read, ReadRaises,
                ProposeRaises, Reply, ReplyRaises, ResolveThread, ResolveRaises,
                WriteReport, WriteRaises, LaneAnswered, Die, Raise, github,
                given, vars
  <2> QED
    BY <1>1, <2>1
<1>4. CASE \/ ExecutorDoesNotRun
           \/ \E status \in {"no_applicable_instructions",
                            "rolled_back_verification_failed"} :
                 ExecutorKeepsNothing(status)
           \/ \E A \in SUBSET Autofix : ExecutorCompletes(A) \/ ExecutorRaises(A)
           \/ \E P \in SUBSET Manual : Propose(P)
  <2>1. UNCHANGED <<threads, tool, config>>
    BY <1>4 DEF ExecutorDoesNotRun, ExecutorKeepsNothing, ExecutorCompletes,
                ExecutorRaises, Executed, Propose, Raise, github, given
  <2> QED
    BY <1>1, <2>1
<1> QED
  BY <1>2, <1>3, <1>4 DEF Next

LEMMA NextFound ==
    ASSUME TypeInv, FoundInv, [Next]_vars
    PROVE  FoundInv'
<1>1. /\ tool' = tool
      /\ \A i \in Positions : /\ IdOf(i)' = IdOf(i)
                             /\ Authors(threads'[i]) = Authors(threads[i])
  BY SameNames
<1>2. \A f \in found \cup vouched : f.thread \in Positions
  BY DEF TypeInv, ThreadsIn
<1>3. ASSUME found' \subseteq found, vouched' \subseteq vouched \cup found
      PROVE  FoundInv'
  <2>1. \A f \in found' \cup vouched' : f.id = IdOf(f.thread)'
    BY <1>1, <1>2, <1>3 DEF FoundInv
  <2> QED
    BY <1>1, <1>2, <1>3, <2>1 DEF FoundInv
<1>4. CASE Read
  <2>1. vouched' = vouched
    BY <1>4 DEF Read
  <2>2. \A f \in found' \cup vouched' :
          f.id = IdOf(f.thread) /\ f.thread \in Positions
    BY <1>2, <1>4, <2>1, ReadMakesFindings DEF FoundInv
  <2>3. \A f \in found' \cup vouched' : f.id = IdOf(f.thread)'
    BY <1>1, <2>2
  <2>4. \A f \in found' : Authors(threads'[f.thread]) \cap Markers[tool'] # {}
    BY <1>1, <1>4, ReadMakesFindings DEF Owns
  <2> QED
    BY <1>4, <2>3, <2>4, ReadMakesFindings DEF FoundInv
<1>5. CASE \/ \E i \in Positions :
                 PersonResolves(i) \/ PersonReopens(i) \/ Outdates(i)
           \/ Begin \/ ReadRaises \/ ProposeRaises \/ Reply \/ ReplyRaises
           \/ ResolveThread \/ ResolveRaises \/ WriteReport \/ WriteRaises
           \/ LaneAnswered \/ Die \/ UNCHANGED vars
  <2>1. found' \subseteq found /\ vouched' = vouched
    BY <1>5 DEF PersonResolves, PersonReopens, Outdates, Begin, ReadRaises,
                ProposeRaises, Reply, ReplyRaises, ResolveThread, ResolveRaises,
                WriteReport, WriteRaises, LaneAnswered, Die, Raise, local, vars
  <2> QED
    BY <1>3, <2>1
<1>6. ASSUME NEW status, NEW A \in SUBSET Autofix, Executed(status, A)
      PROVE  FoundInv'
  <2>1. found' = found /\ vouched' \subseteq vouched \cup found
    BY <1>6 DEF Executed, Autofix
  <2> QED
    BY <1>3, <2>1
<1>7. CASE ExecutorDoesNotRun
  BY <1>6, <1>7 DEF ExecutorDoesNotRun
<1>8. ASSUME NEW status, ExecutorKeepsNothing(status)
      PROVE  FoundInv'
  BY <1>6, <1>8 DEF ExecutorKeepsNothing
<1>9. ASSUME NEW A \in SUBSET Autofix, ExecutorCompletes(A)
      PROVE  FoundInv'
  BY <1>6, <1>9 DEF ExecutorCompletes
<1>10. ASSUME NEW A \in SUBSET Autofix, ExecutorRaises(A)
       PROVE  FoundInv'
  <2>1. found' = found /\ vouched' \subseteq vouched \cup found
    BY <1>10 DEF ExecutorRaises, Raise, local, Autofix
  <2> QED
    BY <1>3, <2>1
<1>11. ASSUME NEW P \in SUBSET Manual, Propose(P)
       PROVE  FoundInv'
  BY <1>3, <1>11 DEF Propose
<1> QED
  BY <1>4, <1>5, <1>7, <1>8, <1>9, <1>10, <1>11 DEF Next

LEMMA FoundHolds == Spec => []FoundInv
<1>1. Init => FoundInv
  BY DEF Init, FoundInv
<1> QED
  BY <1>1, TypesHold, NextFound, PTL DEF Spec

(* Types hold in every reachable state.                                    *)
THEOREM TypeCorrect == Spec => []TypeOK
<1>1. TypeInv /\ FoundInv => TypeOK
  <2> SUFFICES ASSUME TypeInv, FoundInv PROVE TypeOK
    OBVIOUS
  <2>1. \A f \in found : f \in Finding /\ f.thread \in Positions /\ f.id \in Ids
    BY DEF TypeInv, FoundInv, ThreadsIn, Ids, IdOf, FindingId
  <2> QED
    BY <2>1 DEF TypeInv, TypeOK, IdsIn, ThreadsIn
<1> QED
  BY <1>1, TypesHold, FoundHolds, PTL

(* An id other than NoneId is one finding's.                               *)
LEMMA IdsApart ==
    ASSUME FoundInv, NEW f \in found, NEW g \in found, f # g, f.id # NoneId
    PROVE  f.id # g.id
  BY DEF FoundInv, IdOf, FindingId

-----------------------------------------------------------------------------
(* What is answered, and how.                                              *)

Running == {"execute", "propose", "reply", "resolve", "report"}

(* The findings of this run that still wait for an answer, in this lane    *)
(* or the next.                                                            *)
Unanswered ==
    IF pc = "execute" THEN found
    ELSE IF pc = "propose" THEN Manual
    ELSE IF pc = "handled" THEN {}
    ELSE IF lane = "autofix" THEN waiting \cup Manual
    ELSE waiting

(* The thread of f has its one reply, if any can be posted.                *)
Told(f) == replies[f.thread] = IF Answerable(f) THEN <<Outcome(f)>> ELSE <<>>

Reported(f) ==
    f.id # NoneId => (reports[f.id].outcome = "fixed")
                        = (config.post_comment /\ Outcome(f) = "fixed")

AnswerInv ==
    /\ \A i \in Positions : replies[i] # <<>> =>
          Len(replies[i]) = 1 /\ i \in ThreadsIn(found)
    /\ pc = "read" => \A i \in Positions : replies[i] = <<>>
    /\ pc \in {"execute", "propose", "reply"} =>
          \A f \in Unanswered : replies[f.thread] = <<>>
    /\ pc \in {"resolve", "report"} =>
          /\ \A f \in Unanswered \ {Current} : replies[f.thread] = <<>>
          /\ Told(Current)
    /\ pc = "resolve" => config.post_comment /\ Outcome(Current) = "fixed"
    /\ pc \in Running \cup {"handled"} =>
          \A f \in found \ Unanswered : Told(f) /\ Reported(f)

LEMMA UnansweredFound ==
    ASSUME TypeInv, pc # "read"
    PROVE  Unanswered \subseteq found
  BY DEF TypeInv, Unanswered, Autofix, Manual

LEMMA SameAnswers ==
    ASSUME TypeInv, TypeInv', AnswerInv,
           UNCHANGED <<config, found, execution, proposals, lane, waiting,
                       replies, reports, pc>>,
           \A i \in Positions : threads'[i].numbered = threads[i].numbered
    PROVE  AnswerInv'
<1>1. Positions' = Positions
  BY DEF TypeInv
<1>2. \A f : Outcome(f)' = Outcome(f)
  BY DEF Outcome
<1>3. Current' = Current /\ Outcome(Current)' = Outcome(Current)
  BY DEF Current, Outcome
<1>4. Unanswered' = Unanswered
  BY DEF Unanswered, Manual, Autofix
<1>5. \A f \in found : Told(f)' = Told(f) /\ Reported(f)' = Reported(f)
  BY <1>2 DEF Told, Answerable, Reported, TypeInv, ThreadsIn
<1>6. waiting # {} => Told(Current)' = Told(Current)
  BY <1>3, CurrentWaits DEF Told, Answerable
<1>7. pc \in {"resolve", "report"} => waiting # {}
  BY DEF TypeInv
<1> QED
  BY <1>1, <1>3, <1>4, <1>5, <1>6, <1>7 DEF AnswerInv

(* A run that ends early leaves what it has replied.                       *)
LEMMA EndedAnswers ==
    ASSUME TypeInv, TypeInv', AnswerInv, pc' \in {"raised", "killed"},
           UNCHANGED <<threads, found, waiting>>,
           \/ replies' = replies
           \/ pc = "reply" /\ waiting # {} /\ Replied(Current.thread)
    PROVE  AnswerInv'
<1>1. \A i \in Positions : replies'[i] # <<>> =>
        Len(replies'[i]) = 1 /\ i \in ThreadsIn(found)
  <2>1. CASE replies' = replies
    BY <2>1 DEF AnswerInv
  <2>2. CASE pc = "reply" /\ waiting # {} /\ Replied(Current.thread)
    <3>1. /\ Current \in waiting /\ Current \in found
          /\ Current.thread \in Positions
      BY <2>2, CurrentWaits
    <3>2. replies[Current.thread] = <<>>
      BY <2>2, <3>1 DEF AnswerInv, Unanswered
    <3>3. \A i \in Positions :
            replies'[i] = IF i = Current.thread THEN <<Outcome(Current)>>
                                            ELSE replies[i]
      BY <2>2, <3>1, <3>2 DEF Replied, TypeInv
    <3> QED
      BY <3>1, <3>3 DEF AnswerInv, ThreadsIn
  <2> QED
    BY <2>1, <2>2
<1> QED
  BY <1>1 DEF AnswerInv, Running, Positions, ThreadsIn

LEMMA NextAnswer ==
    ASSUME TypeInv, TypeInv', FoundInv, AnswerInv, [Next]_vars
    PROVE  AnswerInv'
<1>1. CASE UNCHANGED vars
  BY <1>1, SameAnswers, SameNames DEF vars, given, local
<1>2. ASSUME NEW i \in Positions,
             PersonResolves(i) \/ PersonReopens(i) \/ Outdates(i)
      PROVE  AnswerInv'
  BY <1>2, SameAnswers, SameNames DEF PersonResolves, PersonReopens, Outdates,
                                      given, local
<1>3. CASE Begin
  BY <1>3 DEF Begin, AnswerInv, Running, github, Positions
<1>4. CASE Read
  <2>1. /\ pc = "read" /\ replies' = replies /\ threads' = threads
        /\ \A i \in Positions : replies[i] = <<>>
    BY <1>4 DEF Read, github, AnswerInv
  <2>2. /\ pc' \in {"handled", "execute", "propose"}
        /\ pc' = "handled" => found' = {}
        /\ pc' = "propose" => Autofix' = {}
    BY <1>4 DEF Read
  <2>3. Unanswered' = found'
    BY <2>2 DEF Unanswered, Manual
  <2>4. \A f \in found' : replies'[f.thread] = <<>>
    BY <2>1 DEF TypeInv, ThreadsIn, Positions
  <2> QED
    BY <2>1, <2>2, <2>3, <2>4 DEF AnswerInv, Positions
<1>5. ASSUME NEW status, NEW A, Executed(status, A)
      PROVE  AnswerInv'
  <2>1. /\ pc = "execute" /\ pc' = "reply" /\ lane' = "autofix"
        /\ waiting' = Autofix
        /\ UNCHANGED <<threads, found, replies>>
    BY <1>5 DEF Executed, github
  <2>2. Unanswered' = found /\ Unanswered = found
    BY <2>1 DEF Unanswered, Manual, Autofix
  <2> QED
    BY <2>1, <2>2 DEF AnswerInv, Positions, ThreadsIn
<1>6. CASE \/ ExecutorDoesNotRun
           \/ \E status \in {"no_applicable_instructions",
                            "rolled_back_verification_failed"} :
                 ExecutorKeepsNothing(status)
           \/ \E A \in SUBSET Autofix : ExecutorCompletes(A)
  BY <1>5, <1>6 DEF ExecutorDoesNotRun, ExecutorKeepsNothing, ExecutorCompletes
<1>7. ASSUME NEW P \in SUBSET Manual, Propose(P)
      PROVE  AnswerInv'
  <2>1. /\ pc = "propose" /\ pc' = "reply" /\ lane' = "manual"
        /\ waiting' = Manual /\ proposals' = {f.id : f \in P}
        /\ UNCHANGED <<threads, config, found, execution, replies, reports>>
    BY <1>7 DEF Propose, github, given
  <2>2. Unanswered' = Manual /\ Unanswered = Manual
    BY <2>1 DEF Unanswered
  <2>3. ASSUME NEW f \in found \ Manual
        PROVE  Told(f)' /\ Reported(f)'
    <3>1. Told(f) /\ Reported(f)
      BY <2>1, <2>2 DEF AnswerInv, Running
    <3>2. f.autofix
      BY DEF Manual, Autofix
    <3>3. Outcome(f)' = Outcome(f)
      BY <2>1, <3>2 DEF Outcome
    <3> QED
      BY <2>1, <3>1, <3>3 DEF Told, Answerable, Reported
  <2> QED
    BY <2>1, <2>2, <2>3 DEF AnswerInv, Positions, ThreadsIn
<1>8. CASE Reply
  <2>1. /\ pc = "reply" /\ waiting # {} /\ pc' \in {"resolve", "report"}
        /\ pc' = "resolve" => config.post_comment /\ Outcome(Current) = "fixed"
        /\ IF Answerable(Current) THEN Replied(Current.thread)
                                 ELSE replies' = replies
        /\ UNCHANGED <<threads, config, found, execution, proposals, lane,
                       waiting, reports>>
    BY <1>8 DEF Reply, github, given, local
  <2>2. /\ Current \in waiting /\ Current \in found /\ Current.thread \in Positions
        /\ Current \in Unanswered /\ replies[Current.thread] = <<>>
    BY <2>1, CurrentWaits DEF Unanswered, AnswerInv
  <2>3. \A i \in Positions :
          replies'[i] = IF i = Current.thread /\ Answerable(Current)
                          THEN <<Outcome(Current)>> ELSE replies[i]
    <3>1. CASE Answerable(Current)
      <4>1. replies' = [replies EXCEPT ![Current.thread] =
                          Append(@, Outcome(Current))]
        BY <2>1, <3>1 DEF Replied
      <4>2. Append(<<>>, Outcome(Current)) = <<Outcome(Current)>>
        OBVIOUS
      <4> QED
        BY <2>2, <3>1, <4>1, <4>2 DEF TypeInv
    <3>2. CASE ~Answerable(Current)
      BY <2>1, <3>2
    <3> QED
      BY <3>1, <3>2
  <2>4. Current' = Current /\ Outcome(Current)' = Outcome(Current)
    BY <2>1 DEF Current, Outcome
  <2>5. Unanswered' = Unanswered /\ Unanswered \subseteq found
    BY <2>1, UnansweredFound DEF Unanswered, Manual, Autofix
  <2>6. \A f \in found \ {Current} :
          f.thread \in Positions /\ replies'[f.thread] = replies[f.thread]
    BY <2>2, <2>3 DEF FoundInv, TypeInv, ThreadsIn
  <2>7. \A f : Outcome(f)' = Outcome(f)
    BY <2>1 DEF Outcome
  <2>8. ASSUME NEW f \in found \ Unanswered PROVE Told(f)' /\ Reported(f)'
    <3>1. Told(f) /\ Reported(f) /\ f # Current
      BY <2>1, <2>2 DEF AnswerInv, Running
    <3> QED
      BY <2>1, <2>6, <2>7, <3>1 DEF Told, Answerable, Reported
  <2>9. \A f \in Unanswered \ {Current} : replies'[f.thread] = <<>>
    BY <2>1, <2>5, <2>6 DEF AnswerInv
  <2>10. Told(Current)'
    BY <2>1, <2>2, <2>3, <2>4 DEF Told, Answerable
  <2>11. \A i \in Positions : replies'[i] # <<>> =>
           Len(replies'[i]) = 1 /\ i \in ThreadsIn(found)
    BY <2>2, <2>3 DEF AnswerInv, ThreadsIn
  <2> QED
    BY <2>1, <2>4, <2>5, <2>8, <2>9, <2>10, <2>11
       DEF AnswerInv, Positions, ThreadsIn
<1>9. CASE ResolveThread
  <2>1. /\ pc = "resolve" /\ pc' = "report" /\ waiting # {}
        /\ UNCHANGED <<threads, config, found, execution, proposals, lane,
                       waiting, replies, reports>>
    BY <1>9 DEF ResolveThread, given, local, TypeInv
  <2>2. Current' = Current /\ Outcome(Current)' = Outcome(Current)
    BY <2>1 DEF Current, Outcome
  <2>3. Unanswered' = Unanswered
    BY <2>1 DEF Unanswered, Manual, Autofix
  <2>4. \A f : Outcome(f)' = Outcome(f)
    BY <2>1 DEF Outcome
  <2>5. \A f : Told(f)' = Told(f) /\ Reported(f)' = Reported(f)
    BY <2>1, <2>4 DEF Told, Answerable, Reported
  <2>6. Told(Current)' = Told(Current)
    BY <2>1, <2>2 DEF Told, Answerable
  <2> QED
    BY <2>1, <2>2, <2>3, <2>5, <2>6 DEF AnswerInv, Running, Positions, ThreadsIn
<1>10. CASE WriteReport
  <2>1. /\ pc = "report" /\ pc' = "reply" /\ waiting # {}
        /\ reports' = [reports EXCEPT ![Current.id] = Report(Current)]
        /\ waiting' = waiting \ {Current}
        /\ UNCHANGED <<threads, config, found, execution, proposals, lane,
                       replies>>
    BY <1>10 DEF WriteReport, github, given, TypeInv
  <2>2. /\ Current \in waiting /\ Current \in found /\ Current.thread \in Positions
        /\ Current \in IF lane = "autofix" THEN Autofix ELSE Manual
    BY <2>1, CurrentWaits
  <2>3. Unanswered' = Unanswered \ {Current} /\ Unanswered \subseteq found
    BY <2>1, <2>2, UnansweredFound DEF Unanswered, Manual, Autofix
  <2>4. \A f : Outcome(f)' = Outcome(f)
    BY <2>1 DEF Outcome
  <2>5. ASSUME NEW f \in found \ Unanswered, f # Current
        PROVE  Told(f)' /\ Reported(f)'
    <3>1. Told(f) /\ Reported(f)
      BY <2>1, <2>5 DEF AnswerInv, Running
    <3>2. f.id # NoneId => f.id # Current.id
      <4>1. f \in found /\ Current \in found /\ f # Current
        BY <2>2, <2>5
      <4> QED
        BY <4>1, IdsApart
    <3>3. f.id # NoneId => reports'[f.id] = reports[f.id]
      BY <2>1, <3>2 DEF TypeInv
    <3> QED
      BY <2>1, <2>4, <3>1, <3>3 DEF Told, Answerable, Reported
  <2>6. ASSUME NEW f, f = Current PROVE Told(f)' /\ Reported(f)'
    <3>1. Told(f)
      BY <2>1, <2>6 DEF AnswerInv
    <3>2. f.id \in Ids
      BY <2>2, <2>6 DEF FoundInv, TypeInv, ThreadsIn, Ids, IdOf, FindingId
    <3>3. reports'[f.id].outcome = Report(f).outcome
      BY <2>1, <2>6, <3>2 DEF TypeInv
    <3>4. (Report(f).outcome = "fixed")
            = (config.post_comment /\ Outcome(f) = "fixed")
      BY DEF Report
    <3> QED
      BY <2>1, <2>4, <3>1, <3>3, <3>4 DEF Told, Answerable, Reported
  <2>7. \A f \in found \ Unanswered' : Told(f)' /\ Reported(f)'
    BY <2>3, <2>5, <2>6
  <2> QED
    BY <2>1, <2>3, <2>7 DEF AnswerInv, Positions, ThreadsIn
<1>11. CASE LaneAnswered
  <2>1. /\ pc = "reply" /\ waiting = {} /\ pc' \in {"propose", "handled"}
        /\ pc' = IF lane = "autofix" /\ Manual # {} THEN "propose" ELSE "handled"
        /\ UNCHANGED <<threads, config, found, execution, proposals, lane,
                       waiting, replies, reports>>
    BY <1>11 DEF LaneAnswered, github, given, local
  <2>2. Unanswered' = Unanswered
    BY <2>1 DEF Unanswered, Manual, Autofix
  <2>3. \A f : Outcome(f)' = Outcome(f)
    BY <2>1 DEF Outcome
  <2>4. \A f : Told(f)' = Told(f) /\ Reported(f)' = Reported(f)
    BY <2>1, <2>3 DEF Told, Answerable, Reported
  <2> QED
    BY <2>1, <2>2, <2>4 DEF AnswerInv, Running, Positions, ThreadsIn
<1>12. CASE \/ ReadRaises \/ ProposeRaises \/ ReplyRaises \/ ResolveRaises
            \/ WriteRaises \/ Die \/ \E A \in SUBSET Autofix : ExecutorRaises(A)
  <2>1. /\ pc' \in {"raised", "killed"} /\ UNCHANGED <<threads, found, waiting>>
        /\ \/ replies' = replies
           \/ pc = "reply" /\ waiting # {} /\ Replied(Current.thread)
    BY <1>12 DEF ReadRaises, ProposeRaises, ReplyRaises, ResolveRaises,
                 WriteRaises, Die, ExecutorRaises, Raise, github, local
  <2> QED
    BY <2>1, EndedAnswers
<1> QED
  BY <1>1, <1>2, <1>3, <1>4, <1>6, <1>7, <1>8, <1>9, <1>10, <1>11, <1>12
     DEF Next

LEMMA AnswersHold == Spec => []AnswerInv
<1>1. Init => AnswerInv
  BY DEF Init, AnswerInv, Unanswered, Running, Positions
<1> QED
  BY <1>1, TypesHold, FoundHolds, NextAnswer, PTL DEF Spec

(* In a run each thread of the tool is answered at most once, and one that *)
(* returns has answered all it read whose comment has a number, and left a *)
(* report of each with an id of its own, which tells the same.             *)
THEOREM AnswersOnce == Spec => []AnsweredOnce
<1>1. TypeInv /\ FoundInv /\ AnswerInv => AnsweredOnce
  <2> SUFFICES ASSUME TypeInv, FoundInv, AnswerInv PROVE AnsweredOnce
    OBVIOUS
  <2>1. ASSUME NEW i \in Positions, replies[i] # <<>>
        PROVE  /\ Len(replies[i]) = 1 /\ \E f \in found : f.thread = i
               /\ Authors(threads[i]) \cap Markers[tool] # {}
    BY <2>1 DEF AnswerInv, FoundInv, ThreadsIn
  <2>2. pc = "handled" => \A f \in found : Told(f) /\ Reported(f)
    BY DEF AnswerInv, Unanswered, Running
  <2> QED
    BY <2>1, <2>2 DEF AnsweredOnce, Told, Reported
<1> QED
  BY <1>1, TypesHold, FoundHolds, AnswersHold, PTL

-----------------------------------------------------------------------------
(* What a resolved thread vouches for.                                     *)

KeptInv ==
    /\ Pushes => \A n \in execution.applied : \E j \in landed : IdOf(j) = n
    /\ execution.applied \subseteq IdsIn(vouched)
    /\ \A f \in vouched : Bounded(f)
    /\ \A i \in Positions : resolved[i] = "bot" => IdOf(i) \in IdsIn(vouched)

(* A thread is closed for an edit that was kept.                           *)
LEMMA ClosesFixed ==
    ASSUME TypeInv, FoundInv, AnswerInv, KeptInv, pc = "resolve"
    PROVE  LET i == Current.thread
           IN  /\ i \in Positions /\ IdOf(i) \in execution.applied
               /\ threads[i].numbered => replies[i] = <<"fixed">>
<1>1. /\ waiting # {} /\ config.post_comment /\ Outcome(Current) = "fixed"
      /\ Told(Current)
  BY DEF AnswerInv, TypeInv
<1>2. Current.thread \in Positions
  BY <1>1, CurrentWaits
<1>3. threads[Current.thread].numbered => replies[Current.thread] = <<"fixed">>
  BY <1>1 DEF Told, Answerable
<1>4. IdOf(Current.thread) \in execution.applied
  BY <1>1, CurrentWaits DEF Outcome, FoundInv
<1> QED
  BY <1>2, <1>3, <1>4

LEMMA NextKept ==
    ASSUME TypeInv, TypeInv', FoundInv, AnswerInv, KeptInv, [Next]_vars
    PROVE  KeptInv'
<1>0. /\ config' = config /\ Positions' = Positions /\ landed \subseteq Positions
      /\ \A i \in Positions : IdOf(i)' = IdOf(i)
  BY SameNames DEF TypeInv
<1>1. ASSUME UNCHANGED <<config, landed, execution, vouched>>,
             \A i \in Positions : resolved'[i] = "bot" =>
                resolved[i] = "bot" \/ IdOf(i) \in execution.applied
      PROVE  KeptInv'
  BY <1>0, <1>1 DEF KeptInv, Pushes
<1>2. CASE UNCHANGED vars
  BY <1>1, <1>2 DEF vars, github, given, local
<1>3. ASSUME NEW i \in Positions,
             PersonResolves(i) \/ PersonReopens(i) \/ Outdates(i)
      PROVE  KeptInv'
  <2>1. /\ UNCHANGED <<config, landed, execution, vouched>>
        /\ \A j \in Positions : resolved'[j] = "bot" => resolved[j] = "bot"
    BY <1>3 DEF PersonResolves, PersonReopens, Outdates, given, local, TypeInv
  <2> QED
    BY <1>1, <2>1
<1>4. CASE Begin
  BY <1>0, <1>4 DEF Begin, github, KeptInv, NoExecution
<1>5. CASE \/ Read \/ ReadRaises \/ ProposeRaises \/ Reply \/ ReplyRaises
           \/ WriteReport \/ WriteRaises \/ LaneAnswered \/ Die
           \/ \E P \in SUBSET Manual : Propose(P)
  <2>1. UNCHANGED <<threads, resolved, config, landed, execution, vouched>>
    BY <1>5 DEF Read, ReadRaises, ProposeRaises, Reply, ReplyRaises, WriteReport,
                WriteRaises, LaneAnswered, Die, Propose, Raise, github, given,
                local
  <2> QED
    BY <1>1, <2>1
<1>6. CASE ResolveThread \/ ResolveRaises
  <2>1. /\ pc = "resolve" /\ (resolved' = resolved \/ Closed)
        /\ UNCHANGED <<threads, config, landed, execution, vouched>>
    BY <1>6 DEF ResolveThread, ResolveRaises, Raise, given, local
  <2>2. \A i \in Positions : resolved'[i] = "bot" =>
          resolved[i] = "bot" \/ IdOf(i) \in execution.applied
    BY <2>1, ClosesFixed DEF Closed, TypeInv
  <2> QED
    BY <1>1, <2>1, <2>2
<1>7. ASSUME ExecutorRuns, NEW A \in SUBSET Plan.targeted_findings
      PROVE  \A f \in A : Bounded(f)
  <2>1. Autofix \in SUBSET Finding
    BY DEF TypeInv, Autofix
  <2>2. ~Gated(Autofix, config)
    BY <1>7 DEF ExecutorRuns, Plan, Gated
  <2> QED
    BY <1>7, <2>1, <2>2, OpenGateBounds DEF Plan
<1>8. ASSUME NEW status, NEW A \in SUBSET Autofix, Executed(status, A),
             \A f \in A : Bounded(f), landed \subseteq landed',
             Pushes => ThreadsIn(A) \subseteq landed'
      PROVE  KeptInv'
  <2>1. /\ execution'.applied = IdsIn(A) /\ vouched' = vouched \cup A
        /\ resolved' = resolved
    BY <1>8 DEF Executed, github, IdsIn
  <2>2. \A f \in A : f.thread \in Positions /\ f.thread \in ThreadsIn(A)
    BY DEF TypeInv, Autofix, ThreadsIn
  <2>3. Pushes => \A n \in IdsIn(A) : \E j \in landed' : IdOf(j)' = n
    <3> SUFFICES ASSUME Pushes, NEW f \in A
                 PROVE  \E j \in landed' : IdOf(j)' = f.id
      BY DEF IdsIn
    <3>1. f.thread \in Positions /\ f.thread \in landed'
      BY <1>8, <2>2
    <3>2. IdOf(f.thread)' = f.id
      BY <1>0, <3>1 DEF FoundInv, Autofix
    <3> QED
      BY <3>1, <3>2, Zenon
  <2>4. \A i \in Positions : resolved'[i] = "bot" => IdOf(i)' \in IdsIn(vouched')
    BY <1>0, <2>1 DEF KeptInv, IdsIn
  <2>5. Pushes' = Pushes
    BY <1>0 DEF Pushes
  <2>6. /\ execution'.applied \subseteq IdsIn(vouched')
        /\ \A f \in vouched' : Bounded(f)
    BY <1>8, <2>1 DEF KeptInv, IdsIn
  <2> QED
    BY <1>0, <2>1, <2>3, <2>4, <2>5, <2>6 DEF KeptInv
<1>9. CASE ExecutorDoesNotRun
  BY <1>8, <1>9 DEF ExecutorDoesNotRun, ThreadsIn
<1>10. ASSUME NEW status, ExecutorKeepsNothing(status) PROVE KeptInv'
  BY <1>8, <1>10 DEF ExecutorKeepsNothing, ThreadsIn
<1>11. ASSUME NEW A \in SUBSET Autofix, ExecutorCompletes(A) PROVE KeptInv'
  <2>1. /\ Executed("completed", A) /\ \A f \in A : Bounded(f)
        /\ landed' = IF Pushes THEN landed \cup ThreadsIn(A) ELSE landed
    BY <1>7, <1>11 DEF ExecutorCompletes, ThreadsIn
  <2> QED
    BY <1>8, <2>1
<1>12. ASSUME NEW A \in SUBSET Autofix, ExecutorRaises(A) PROVE KeptInv'
  <2>1. /\ landed \subseteq landed' /\ vouched' = vouched \cup A
        /\ \A f \in A : Bounded(f)
        /\ UNCHANGED <<resolved, execution>>
    BY <1>7, <1>12 DEF ExecutorRaises, Raise, local
  <2>2. Pushes' => \A n \in execution.applied : \E j \in landed' : IdOf(j)' = n
    BY <1>0, <2>1 DEF KeptInv, Pushes
  <2>3. \A i \in Positions : resolved'[i] = "bot" => IdOf(i)' \in IdsIn(vouched')
    BY <1>0, <2>1 DEF KeptInv, IdsIn
  <2>4. /\ execution'.applied \subseteq IdsIn(vouched')
        /\ \A f \in vouched' : Bounded(f)
    BY <2>1 DEF KeptInv, IdsIn
  <2> QED
    BY <1>0, <2>1, <2>2, <2>3, <2>4 DEF KeptInv
<1> QED
  BY <1>2, <1>3, <1>4, <1>5, <1>6, <1>9, <1>10, <1>11, <1>12 DEF Next

LEMMA KeptHolds == Spec => []KeptInv
<1>1. Init => KeptInv
  BY DEF Init, KeptInv, NoExecution, Positions
<1> QED
  BY <1>1, TypesHold, FoundHolds, AnswersHold, NextKept, PTL DEF Spec

(* A thread the bot resolved, or one alike, had a verified fix within the  *)
(* gate's bounds, after any number of runs, failures and other people's    *)
(* doings.                                                                 *)
THEOREM ResolvedHadRepair == Spec => []ResolvedIsRepaired
<1>1. FoundInv /\ KeptInv => ResolvedIsRepaired
  BY DEF FoundInv, KeptInv, ResolvedIsRepaired, Alike, IdsIn, Bounded
<1> QED
  BY <1>1, FoundHolds, KeptHolds, PTL

(* The bot resolves a thread only for an edit of this run to it or to one  *)
(* alike, that is at origin if the run pushes, and only after it has said  *)
(* so in the thread, if the first comment has a number.                    *)
THEOREM ResolvesOnlyHonestly == Spec => ResolvesHonestly
<1> DEFINE honest == \A i \in Positions :
                        resolved[i] = "open" /\ resolved'[i] = "bot" =>
                           /\ threads[i].numbered => replies[i] = <<"fixed">>
                           /\ IdOf(i) \in execution.applied
                           /\ Pushes => \E j \in landed : Alike(i, j)
<1>1. TypeInv /\ FoundInv /\ AnswerInv /\ KeptInv /\ [Next]_vars => [honest]_vars
  <2> SUFFICES ASSUME TypeInv, FoundInv, AnswerInv, KeptInv, [Next]_vars,
                      NEW i \in Positions,
                      resolved[i] = "open", resolved'[i] = "bot"
               PROVE  /\ threads[i].numbered => replies[i] = <<"fixed">>
                      /\ IdOf(i) \in execution.applied
                      /\ Pushes => \E j \in landed : Alike(i, j)
    OBVIOUS
  <2>1. resolved' # resolved
    OBVIOUS
  <2>2. pc = "resolve" /\ Closed
    <3>1. CASE \E j \in Positions : \/ PersonResolves(j) \/ PersonReopens(j)
                                   \/ Outdates(j)
      BY <3>1 DEF PersonResolves, PersonReopens, Outdates, TypeInv
    <3>2. CASE ResolveThread \/ ResolveRaises
      BY <2>1, <3>2 DEF ResolveThread, ResolveRaises
    <3>3. CASE \/ Begin \/ Read \/ ReadRaises \/ ProposeRaises \/ Reply
               \/ ReplyRaises \/ WriteReport \/ WriteRaises \/ LaneAnswered
               \/ Die \/ \E P \in SUBSET Manual : Propose(P)
      BY <2>1, <3>3 DEF Begin, Read, ReadRaises, ProposeRaises, Reply,
                ReplyRaises, WriteReport, WriteRaises, LaneAnswered, Die, Propose,
                github
    <3>4. CASE \/ ExecutorDoesNotRun
               \/ \E status \in {"no_applicable_instructions",
                                "rolled_back_verification_failed"} :
                     ExecutorKeepsNothing(status)
               \/ \E A \in SUBSET Autofix :
                     ExecutorCompletes(A) \/ ExecutorRaises(A)
      BY <2>1, <3>4 DEF ExecutorDoesNotRun, ExecutorKeepsNothing,
                ExecutorCompletes, ExecutorRaises, Executed, github
    <3>5. CASE UNCHANGED vars
      BY <2>1, <3>5 DEF vars, github
    <3> QED
      BY <3>1, <3>2, <3>3, <3>4, <3>5 DEF Next
  <2>3. i = Current.thread
    BY <2>2, ClosesFixed DEF Closed, TypeInv
  <2> QED
    BY <2>2, <2>3, ClosesFixed DEF KeptInv, Alike
<1> QED
  BY <1>1, TypesHold, FoundHolds, AnswersHold, KeptHolds, PTL
     DEF Spec, ResolvesHonestly

(* Strategies are the most specific matching rule's, for any matrix.       *)
THEOREM StrategiesAreMostSpecific == Spec => []StrategiesMostSpecific
<1>1. TypeInv => StrategiesMostSpecific
  BY SpecificRuleWins DEF TypeInv, StrategiesMostSpecific
<1> QED
  BY <1>1, TypesHold, PTL
=============================================================================
