--------------------------- MODULE PatchingProofs ---------------------------
(***************************************************************************)
(* What the guard on expected lines buys, for any file, any findings and    *)
(* any answers of the model.                                               *)
(***************************************************************************)
EXTENDS Patching, SequenceTheorems, TLAPS

USE PatchingAssumption DEF PatchingAssumption

-----------------------------------------------------------------------------
(* Sequences of lines and instructions.                                    *)

LEMMA SameLength ==
    ASSUME NEW a \in Nat, NEW b \in Nat, 1..a = 1..b
    PROVE  a = b
<1>1. CASE a = 0
  <2>1. 1 \notin 1..b
    BY <1>1
  <2> QED
    BY <1>1, <2>1
<1>2. CASE b = 0
  <2>1. 1 \notin 1..a
    BY <1>2
  <2> QED
    BY <1>2, <2>1
<1>3. CASE a # 0 /\ b # 0
  <2>1. a \in 1..b /\ b \in 1..a
    BY <1>3
  <2> QED
    BY <2>1
<1> QED
  BY <1>1, <1>2, <1>3

LEMMA Shifted ==
    ASSUME NEW start \in Nat \ {0}, NEW size \in Nat \ {0},
           NEW n \in Nat \ {0}, NEW length \in Nat, NEW k \in Nat,
           start + n <= k, k <= length + n - size
    PROVE  k + size - n \in 1..length
  OBVIOUS

LEMMA Marked ==
    ASSUME NEW texts \in Seq(Texts)
    PROVE  /\ Numbered(texts) \in Seq(Line) /\ Len(Numbered(texts)) = Len(texts)
           /\ Written(texts) \in Seq(Line) /\ Len(Written(texts)) = Len(texts)
<1>1. Len(texts) \in Nat /\ DOMAIN texts = 1..Len(texts)
      /\ texts \in [1..Len(texts) -> Texts]
  BY LenProperties
<1>2. Numbered(texts) \in [1..Len(texts) -> Line]
  BY <1>1 DEF Numbered, Line
<1>3. Written(texts) \in [1..Len(texts) -> Line]
  BY <1>1 DEF Written, Line
<1>4. Numbered(texts) \in Seq(Line) /\ Written(texts) \in Seq(Line)
  <2>1. Seq(Line) = UNION {[1..n -> Line] : n \in Nat}
    BY SeqDef
  <2>2. [1..Len(texts) -> Line] \subseteq Seq(Line)
    BY <1>1, <2>1, Zenon
  <2> QED
    BY <1>2, <1>3, <2>2, Zenon
<1>5. Len(Numbered(texts)) \in Nat /\ Len(Written(texts)) \in Nat
      /\ DOMAIN Numbered(texts) = 1..Len(Numbered(texts))
      /\ DOMAIN Written(texts) = 1..Len(Written(texts))
  BY <1>4, LenProperties
<1>6. DOMAIN Numbered(texts) = 1..Len(texts)
      /\ DOMAIN Written(texts) = 1..Len(texts)
  BY <1>1 DEF Numbered, Written
<1>7. Len(Numbered(texts)) = Len(texts) /\ Len(Written(texts)) = Len(texts)
  BY <1>1, <1>5, <1>6, SameLength
<1> QED
  BY <1>4, <1>7

LEMMA BoundIsTyped ==
    ASSUME TypeOK, NEW f \in Finding \cup Instruction, f.end <= Len(file)
    PROVE  Bound(f) \in Instruction /\ LinesAt(f) \in SUBSET Nat
<1>1. /\ f.start \in Nat \ {0} /\ f.end \in Nat \ {0} /\ f.start <= f.end
      /\ f.replacement \in Blocks
  BY DEF Finding, Instruction
<1>2. file \in [1..Len(file) -> Line] /\ Len(file) \in Nat
  BY LenProperties DEF TypeOK
<1>3. \A k \in f.start..f.end : k \in 1..Len(file)
  BY <1>1, <1>2
<1>4. LinesAt(f) \in SUBSET Nat
  BY <1>2, <1>3 DEF LinesAt, Line
<1>5. \A k \in 1..(f.end - f.start + 1) : f.start + k - 1 \in 1..Len(file)
  BY <1>1, <1>2
<1>6. Bound(f).expected \in [1..(f.end - f.start + 1) -> Texts]
  BY <1>2, <1>5 DEF Bound, Line
<1>7. f.end - f.start + 1 \in Nat
  BY <1>1
<1>8. Bound(f).expected \in Seq(Texts)
  BY <1>6, <1>7, SeqDef
<1> QED
  BY <1>1, <1>4, <1>8 DEF Bound, Instruction

(* What a splice leaves above the range, in it, and under it.              *)
LEMMA SpliceIs ==
    ASSUME TypeOK, NEW i \in Instruction, i.end <= Len(file)
    PROVE  LET new == Splice(i)
               size == i.end - i.start + 1
               n == Len(i.replacement)
           IN /\ new \in Seq(Line) /\ n \in Nat \ {0}
              /\ Len(new) = Len(file) + n - size
              /\ \A k \in 1..Len(new) :
                   /\ k < i.start => k \in 1..Len(file) /\ new[k] = file[k]
                   /\ i.start <= k /\ k < i.start + n =>
                        /\ new[k].was = 0
                        /\ \E j \in DOMAIN i.replacement :
                             new[k].text = i.replacement[j]
                   /\ i.start + n <= k =>
                        /\ k + size - n \in 1..Len(file)
                        /\ new[k] = file[k + size - n]
<1> DEFINE new == Splice(i)
           size == i.end - i.start + 1
           n == Len(i.replacement)
           last == Len(file) + n - size
<1>1. /\ i.start \in Nat \ {0} /\ i.end \in Nat \ {0} /\ i.start <= i.end
      /\ i.replacement \in Seq(Texts) /\ i.replacement # <<>>
  BY DEF Instruction, Blocks
<1>2. n \in Nat \ {0} /\ DOMAIN i.replacement = 1..n
      /\ i.replacement \in [1..n -> Texts]
  BY <1>1, LenProperties, EmptySeq
<1>3. file \in [1..Len(file) -> Line] /\ Len(file) \in Nat
  BY LenProperties DEF TypeOK
<1>4. last \in Nat
  BY <1>1, <1>2, <1>3
<1>5. \A k \in 1..last :
         /\ k < i.start => k \in 1..Len(file)
         /\ i.start <= k /\ k < i.start + n => k - i.start + 1 \in 1..n
         /\ i.start + n <= k => k + size - n \in 1..Len(file)
  <2> SUFFICES ASSUME NEW k \in 1..last
               PROVE  /\ k < i.start => k \in 1..Len(file)
                      /\ i.start <= k /\ k < i.start + n =>
                           k - i.start + 1 \in 1..n
                      /\ i.start + n <= k => k + size - n \in 1..Len(file)
    OBVIOUS
  <2>1. k \in Nat /\ 1 <= k /\ k <= last
    BY <1>4
  <2>2. k < i.start => k \in 1..Len(file)
    BY <1>1, <1>3, <2>1
  <2>3. i.start <= k /\ k < i.start + n => k - i.start + 1 \in 1..n
    BY <1>1, <1>2, <2>1
  <2>4. i.start + n <= k => k + size - n \in 1..Len(file)
    <3>1. size \in Nat \ {0} /\ size = i.end - i.start + 1
      BY <1>1
    <3>2. last = Len(file) + n - size
      OBVIOUS
    <3> HIDE DEF size, n, last
    <3> QED
      BY <1>1, <1>2, <1>3, <2>1, <3>1, <3>2, Shifted
  <2> QED
    BY <2>2, <2>3, <2>4
<1>6. \A k \in 1..last :
         new[k] = IF k < i.start THEN file[k]
                  ELSE IF k < i.start + n
                    THEN Written(i.replacement)[k - i.start + 1]
                  ELSE file[k + size - n]
  BY DEF Splice
<1>7. \A j \in 1..n : Written(i.replacement)[j] = [text |-> i.replacement[j], was |-> 0]
  BY <1>2 DEF Written
<1>8. \A j \in 1..n : Written(i.replacement)[j] \in Line
  <2>1. \A j \in 1..n : [text |-> i.replacement[j], was |-> 0] \in Line
    BY <1>2 DEF Line
  <2> QED
    BY <1>7, <2>1
<1>9. \A k \in 1..last : new[k] \in Line
  <2> SUFFICES ASSUME NEW k \in 1..last
               PROVE  new[k] \in Line
    OBVIOUS
  <2>1. CASE k < i.start
    BY <1>3, <1>5, <1>6, <2>1
  <2>2. CASE i.start <= k /\ k < i.start + n
    <3>1. new[k] = Written(i.replacement)[k - i.start + 1]
      BY <1>1, <1>2, <1>6, <2>2
    <3> QED
      BY <1>5, <1>8, <2>2, <3>1
  <2>3. CASE i.start + n <= k
    <3>1. new[k] = file[k + size - n]
      BY <1>1, <1>2, <1>6, <2>3
    <3> QED
      BY <1>3, <1>5, <2>3, <3>1
  <2> QED
    BY <1>1, <1>2, <2>1, <2>2, <2>3
<1>10. DOMAIN new = 1..last /\ new = [k \in 1..last |-> new[k]]
  BY DEF Splice
<1>11. new \in [1..last -> Line]
  BY <1>9, <1>10
<1>12. new \in Seq(Line)
  BY <1>4, <1>11, SeqDef
<1>13. Len(new) \in Nat /\ DOMAIN new = 1..Len(new)
  BY <1>12, LenProperties
<1>14. Len(new) = last
  BY <1>4, <1>10, <1>13
<1>15. ASSUME NEW k \in 1..last
       PROVE  /\ k < i.start => k \in 1..Len(file) /\ new[k] = file[k]
              /\ i.start <= k /\ k < i.start + n =>
                   /\ new[k].was = 0
                   /\ \E j \in DOMAIN i.replacement :
                        new[k].text = i.replacement[j]
              /\ i.start + n <= k =>
                   /\ k + size - n \in 1..Len(file)
                   /\ new[k] = file[k + size - n]
  <2>1. k < i.start => k \in 1..Len(file) /\ new[k] = file[k]
    BY <1>5, <1>6
  <2>2. ASSUME i.start <= k, k < i.start + n
        PROVE  /\ new[k].was = 0
               /\ \E j \in DOMAIN i.replacement :
                    new[k].text = i.replacement[j]
    <3> DEFINE j == k - i.start + 1
    <3>1. j \in 1..n
      BY <1>5, <2>2
    <3>2. new[k] = Written(i.replacement)[j]
      <4>1. k \in 1..last /\ ~(k < i.start)
        BY <1>1, <1>4, <2>2
      <4> HIDE DEF new, last, n, size
      <4> QED
        BY <1>6, <2>2, <4>1
    <3>3. new[k] = [text |-> i.replacement[j], was |-> 0]
      BY <1>7, <3>1, <3>2
    <3> QED
      BY <1>2, <3>1, <3>3
  <2>3. ASSUME i.start + n <= k
        PROVE  k + size - n \in 1..Len(file) /\ new[k] = file[k + size - n]
    BY <1>1, <1>2, <1>5, <1>6, <2>3
  <2> QED
    BY <2>1, <2>2, <2>3
<1> HIDE DEF new, size, n, last
<1> QED
  BY <1>2, <1>12, <1>14, <1>15 DEF new, size, n, last

-----------------------------------------------------------------------------
(* Types.                                                                  *)

(* What an instruction leaves behind, as a history entry.                  *)
Applied(i) == [start |-> i.start, end |-> i.end, size |-> Len(i.replacement),
               meant |-> i.meant, found |-> LinesAt(i)]

LEMMA ApplyIs ==
    ASSUME TypeOK, Apply
    PROVE  LET i == Head(todo)
           IN /\ i \in Instruction /\ exists /\ i.end <= Len(file)
              /\ i.expected = Bound(i).expected
              /\ file' = Splice(i) /\ Applied(i) \in Entry
              /\ done' = Append(done, Applied(i)) /\ done' \in Seq(Entry)
              /\ Len(done') = Len(done) + 1
              /\ \A j \in 1..Len(done) : done'[j] = done[j]
              /\ done'[Len(done) + 1] = Applied(i)
<1> DEFINE i == Head(todo)
<1>1. i \in Instruction
  BY HeadTailProperties DEF Apply, TypeOK
<1>2. exists /\ i.end <= Len(file) /\ i.expected = Bound(i).expected
  BY DEF Apply, Matches, InFile
<1>3. LinesAt(i) \in SUBSET Nat
  BY <1>1, <1>2, BoundIsTyped
<1>4. Len(i.replacement) \in Nat \ {0}
  BY <1>1, EmptySeq DEF Instruction, Blocks
<1>5. /\ i.start \in Nat \ {0} /\ i.end \in Nat \ {0} /\ i.start <= i.end
      /\ i.meant \in SUBSET Nat
  BY <1>1 DEF Instruction
<1>6. Applied(i) \in Entry
  BY <1>3, <1>4, <1>5 DEF Applied, Entry
<1>7. file' = Splice(i) /\ done' = Append(done, Applied(i))
  BY DEF Apply, Applied
<1>8. done \in Seq(Entry)
  BY DEF TypeOK
<1> HIDE DEF i
<1>9. /\ done' \in Seq(Entry) /\ Len(done') = Len(done) + 1
      /\ \A j \in 1..Len(done) : done'[j] = done[j]
      /\ done'[Len(done) + 1] = Applied(i)
  BY <1>6, <1>7, <1>8, AppendProperties
<1> QED
  BY <1>1, <1>2, <1>6, <1>7, <1>9 DEF i

LEMMA TypeInit == Init => TypeOK
<1> SUFFICES ASSUME Init
             PROVE  TypeOK
  OBVIOUS
<1>1. original \in Seq(Texts) /\ payload \in Seq(Finding)
  BY DEF Init
<1>2. file \in Seq(Line)
  BY <1>1, Marked DEF Init
<1>3. /\ <<>> \in Seq(Instruction) /\ <<>> \in Seq(Entry)
  BY EmptySeq
<1> QED
  BY <1>1, <1>2, <1>3 DEF Init, TypeOK

LEMMA TypeNext == TypeOK /\ [Next]_vars => TypeOK'
<1> SUFFICES ASSUME TypeOK, [Next]_vars
             PROVE  TypeOK'
  OBVIOUS
<1>1. /\ exists \in BOOLEAN /\ retried \in BOOLEAN /\ original \in Contents
      /\ file \in Seq(Line) /\ payload \in Payloads /\ payload \in Seq(Finding)
      /\ pc \in {"propose", "generate", "rollback", "over"} \cup Lanes
      /\ queue \in Seq(Finding)
      /\ proposals \in Seq(Instruction) /\ todo \in Seq(Instruction)
      /\ done \in Seq(Entry)
      /\ before \in [file: Seq(Line), done: Seq(Entry)]
      /\ before.file \in Seq(Line) /\ before.done \in Seq(Entry)
  BY DEF TypeOK
<1>2. /\ <<>> \in Seq(Instruction) /\ <<>> \in Seq(Finding)
      /\ queue # <<>> => Head(queue) \in Finding /\ Tail(queue) \in Seq(Finding)
      /\ todo # <<>> => Tail(todo) \in Seq(Instruction)
  BY <1>1, EmptySeq, HeadTailProperties
<1>3. ASSUME ProposeNext
      PROVE  TypeOK'
  <2>1. proposals' \in Seq(Instruction)
    <3>1. CASE UNCHANGED proposals
      BY <1>1, <3>1
    <3>2. CASE InFile(Head(queue))
               /\ proposals' = Append(proposals, Bound(Head(queue)))
      <4>1. Bound(Head(queue)) \in Instruction
        BY <1>2, <1>3, <3>2, BoundIsTyped DEF ProposeNext, InFile
      <4> QED
        BY <1>1, <3>2, <4>1, AppendProperties
    <3> QED
      BY <1>3, <3>1, <3>2 DEF ProposeNext
  <2> QED
    BY <1>1, <1>2, <1>3, <2>1 DEF ProposeNext, TypeOK, given
<1>4. ASSUME RouterUnavailable
      PROVE  TypeOK'
  BY <1>1, <1>2, <1>4 DEF RouterUnavailable, TypeOK, given
<1>5. ASSUME RouterGarbage
      PROVE  TypeOK'
  BY <1>1, <1>2, <1>5 DEF RouterGarbage, TypeOK, given
<1>6. ASSUME Proposed
      PROVE  TypeOK'
  <2>1. CASE retried
    BY <1>1, <1>6, <2>1 DEF Proposed, StartLane, TypeOK, given, Lanes
  <2>2. CASE ~retried
    BY <1>1, <1>6, <2>2 DEF Proposed, StartLane, TypeOK, given
  <2> QED
    BY <2>1, <2>2
<1>7. ASSUME GenerateNext
      PROVE  TypeOK'
  <2>1. InstructionFor(Head(queue)) \in Seq(Instruction)
    <3> DEFINE f == Head(queue)
               guard == [start |-> f.start, end |-> f.end, expected |-> <<>>,
                         replacement |-> f.replacement, meant |-> {}]
    <3>1. f \in Finding
      BY <1>2, <1>7 DEF GenerateNext
    <3>2. InFile(f) => Bound(f) \in Instruction
      BY <3>1, BoundIsTyped DEF InFile
    <3>3. <<>> \in Seq(Texts)
      BY EmptySeq
    <3>4. guard \in Instruction
      BY <3>1, <3>3 DEF Finding, Instruction
    <3>5. \A i \in Instruction : <<i>> \in Seq(Instruction)
      OBVIOUS
    <3> HIDE DEF f
    <3>6. InstructionFor(f) \in Seq(Instruction)
      BY <1>2, <3>2, <3>4, <3>5 DEF InstructionFor
    <3> QED
      BY <3>6 DEF f
  <2>2. todo' \in Seq(Instruction)
    BY <1>1, <1>7, <2>1, ConcatProperties DEF GenerateNext
  <2> QED
    BY <1>1, <1>2, <1>7, <2>2 DEF GenerateNext, TypeOK, given
<1>8. ASSUME Generated
      PROVE  TypeOK'
  BY <1>1, <1>8 DEF Generated, StartLane, TypeOK, given, Lanes
<1>9. ASSUME Apply
      PROVE  TypeOK'
  <2>1. done' \in Seq(Entry) /\ file' \in Seq(Line)
    BY <1>9, ApplyIs, SpliceIs
  <2> QED
    BY <1>1, <1>2, <1>9, <2>1 DEF Apply, TypeOK, given
<1>10. ASSUME Mismatch
       PROVE  TypeOK'
  BY <1>1, <1>10 DEF Mismatch, TypeOK, given
<1>11. ASSUME RollBack
       PROVE  TypeOK'
  BY <1>1, <1>2, <1>11 DEF RollBack, Restored, TypeOK, given
<1>12. ASSUME AutofixEnds
       PROVE  TypeOK'
  <2>1. file' \in Seq(Line) /\ done' \in Seq(Entry)
    BY <1>1, <1>12 DEF AutofixEnds, Restored
  <2> QED
    BY <1>1, <1>12, <2>1 DEF AutofixEnds, StartLane, TypeOK, given, Lanes
<1>13. ASSUME LLMVerified
       PROVE  TypeOK'
  BY <1>1, <1>13 DEF LLMVerified, TypeOK, given
<1>14. ASSUME LLMRetries
       PROVE  TypeOK'
  BY <1>1, <1>2, <1>14 DEF LLMRetries, Restored, TypeOK, given
<1>15. ASSUME LLMGivesUp
       PROVE  TypeOK'
  BY <1>1, <1>15 DEF LLMGivesUp, Restored, TypeOK, given
<1>16. CASE UNCHANGED vars
  BY <1>1, <1>16 DEF vars, TypeOK, given
<1> QED
  BY <1>3, <1>4, <1>5, <1>6, <1>7, <1>8, <1>9, <1>10, <1>11, <1>12, <1>13,
     <1>14, <1>15, <1>16 DEF Next

(* What the lanes hold stays well typed: every instruction made of a       *)
(* finding or of the model's answer has a range of lines and a replacement *)
(* of one line or more, and every file they leave is a sequence of lines.  *)
THEOREM TypeCorrect == Spec => []TypeOK
<1>1. Init => TypeOK
  BY TypeInit
<1>2. TypeOK /\ [Next]_vars => TypeOK'
  BY TypeNext
<1> QED
  BY <1>1, <1>2, PTL DEF Spec

-----------------------------------------------------------------------------
(* Where the lines are.                                                    *)

(* Except for Apply, a step leaves the file and its history alone, or puts *)
(* back those the lane found; the next lane starts from what is left.      *)
LEMMA Otherwise ==
    ASSUME Next, ~Apply
    PROVE  /\ \/ file' = file /\ done' = done
              \/ file' = before.file /\ done' = before.done
           /\ \/ before' = before
              \/ before'.file = file' /\ before'.done = done'
<1>1. CASE ProposeNext \/ RouterUnavailable \/ RouterGarbage \/ GenerateNext
  BY <1>1 DEF ProposeNext, RouterUnavailable, RouterGarbage, GenerateNext
<1>2. CASE Proposed \/ Generated \/ AutofixEnds
  BY <1>2 DEF Proposed, Generated, AutofixEnds, StartLane, Restored
<1>3. CASE Mismatch \/ RollBack \/ LLMVerified \/ LLMRetries \/ LLMGivesUp
  BY <1>3 DEF Mismatch, RollBack, LLMVerified, LLMRetries, LLMGivesUp, Restored
<1> QED
  BY <1>1, <1>2, <1>3 DEF Next

(* A line no edit has shifted is the line its number says, or written.     *)
Tracks(F, D) ==
    \A k \in 1..Len(F) :
        (\A j \in 1..Len(D) : KeepsLength(D[j]) \/ k < D[j].start)
        => F[k].was \in {0, k}

LinesOf(F, D) == Above(F, D) /\ Tracks(F, D) /\ Exact(D)

(* AboveUntouched and ExactUnlessShifted are inductive with Tracks, of the *)
(* file and of what a rollback would put back.                             *)
LinesInv == LinesOf(file, done) /\ LinesOf(before.file, before.done)

LEMMA LinesInit == Init => TypeOK /\ LinesInv
<1> SUFFICES ASSUME Init
             PROVE  LinesInv
  BY TypeInit
<1>1. original \in Seq(Texts)
  BY DEF Init
<1>2. file = Numbered(original) /\ done = <<>>
      /\ before.file = file /\ before.done = done
  BY DEF Init
<1>3. /\ Len(file) = Len(original) /\ DOMAIN original = 1..Len(original)
      /\ DOMAIN file = 1..Len(file)
  BY <1>1, <1>2, Marked, LenProperties
<1>4. \A k \in 1..Len(file) : file[k].was = k
  BY <1>2, <1>3 DEF Numbered
<1>5. DOMAIN done = {}
  BY <1>2
<1>6. LinesOf(file, done)
  BY <1>3, <1>4, <1>5 DEF LinesOf, Above, Tracks, Exact
<1> QED
  BY <1>2, <1>6 DEF LinesInv

LEMMA ApplyTracks ==
    ASSUME TypeOK, Apply, LinesOf(file, done)
    PROVE  Above(file', done') /\ Tracks(file', done')
<1> DEFINE i == Head(todo)
           e == Applied(i)
           size == i.end - i.start + 1
           n == Len(i.replacement)
<1>1. /\ i \in Instruction /\ i.end <= Len(file) /\ file' = Splice(i)
      /\ done' \in Seq(Entry) /\ Len(done') = Len(done) + 1
      /\ \A j \in 1..Len(done) : done'[j] = done[j]
      /\ done'[Len(done) + 1] = e
  BY ApplyIs
<1>2. /\ file' \in Seq(Line) /\ n \in Nat \ {0}
      /\ \A k \in 1..Len(file') :
           /\ k < i.start => k \in 1..Len(file) /\ file'[k] = file[k]
           /\ i.start <= k /\ k < i.start + n => file'[k].was = 0
           /\ i.start + n <= k => file'[k] = file[k + size - n]
  BY <1>1, SpliceIs
<1>3. /\ i.start \in Nat \ {0} /\ i.end \in Nat \ {0} /\ i.start <= i.end
      /\ e.start = i.start /\ e.end = i.end /\ e.size = n
  BY <1>1 DEF Instruction, Applied
<1>4. /\ Len(done) \in Nat /\ DOMAIN done = 1..Len(done)
      /\ DOMAIN done' = 1..Len(done) + 1
      /\ DOMAIN file' = 1..Len(file') /\ DOMAIN file = 1..Len(file)
      /\ Len(file) \in Nat /\ Len(file') \in Nat
  BY <1>1, <1>2, LenProperties DEF TypeOK
<1> HIDE DEF i, e, n
<1>5. Above(file', done')
  <2> SUFFICES ASSUME NEW k \in 1..Len(file'),
                      \A j \in 1..Len(done) + 1 : k < done'[j].start
               PROVE  file'[k].was = k
    BY <1>4 DEF Above
  <2>1. k < i.start
    BY <1>1, <1>3, <1>4
  <2>2. k \in 1..Len(file) /\ file'[k] = file[k]
    BY <1>2, <2>1
  <2>3. \A j \in 1..Len(done) : k < done[j].start
    <3> TAKE j \in 1..Len(done)
    <3>1. j \in 1..Len(done) + 1 /\ done'[j] = done[j]
      BY <1>1, <1>4
    <3> QED
      BY <3>1
  <2> QED
    BY <1>4, <2>2, <2>3 DEF LinesOf, Above
<1>6. Tracks(file', done')
  <2> SUFFICES ASSUME NEW k \in 1..Len(file'),
                      \A j \in 1..Len(done') :
                        KeepsLength(done'[j]) \/ k < done'[j].start
               PROVE  file'[k].was \in {0, k}
    BY DEF Tracks
  <2>1. Len(done) + 1 \in 1..Len(done')
    BY <1>1, <1>4
  <2>2. KeepsLength(e) \/ k < i.start
    BY <1>1, <1>3, <2>1
  <2>3. \A j \in 1..Len(done) : KeepsLength(done[j]) \/ k < done[j].start
    <3> TAKE j \in 1..Len(done)
    <3>1. j \in 1..Len(done') /\ done'[j] = done[j]
      BY <1>1, <1>4
    <3> QED
      BY <3>1
  <2>4. k \in Nat
    BY <1>4
  <2>5. CASE i.start <= k /\ k < i.start + n
    BY <1>2, <2>5
  <2>6. CASE k < i.start
    <3>1. k \in 1..Len(file) /\ file'[k] = file[k]
      BY <1>2, <2>6
    <3> QED
      BY <2>3, <3>1 DEF LinesOf, Tracks
  <2>7. CASE i.start + n <= k
    <3>1. KeepsLength(e)
      BY <1>2, <1>3, <2>2, <2>4, <2>7
    <3>2. n = size
      BY <1>3, <3>1 DEF KeepsLength
    <3>3. k + size - n = k
      BY <1>2, <2>4, <3>2
    <3>4. i.start + n <= k => k + size - n \in 1..Len(file)
      BY <1>1, SpliceIs DEF i, n
    <3>5. k \in 1..Len(file) /\ file'[k] = file[k]
      BY <1>2, <2>7, <3>3, <3>4
    <3> QED
      BY <2>3, <3>5 DEF LinesOf, Tracks
  <2> QED
    BY <1>2, <1>3, <2>4, <2>5, <2>6, <2>7
<1> QED
  BY <1>5, <1>6

LEMMA ApplyExact ==
    ASSUME TypeOK, Apply, LinesOf(file, done)
    PROVE  Exact(done')
<1> DEFINE i == Head(todo)
           e == Applied(i)
           last == Len(done) + 1
<1>1. /\ i \in Instruction /\ i.end <= Len(file)
      /\ done' \in Seq(Entry) /\ Len(done') = last
      /\ \A j \in 1..Len(done) : done'[j] = done[j]
      /\ done'[last] = e
  BY ApplyIs
<1>2. /\ i.start \in Nat \ {0} /\ i.end \in Nat \ {0} /\ i.start <= i.end
      /\ e.start = i.start /\ e.end = i.end /\ e.found = LinesAt(i)
  BY <1>1 DEF Instruction, Applied
<1>3. /\ Len(done) \in Nat /\ Len(file) \in Nat
      /\ DOMAIN done = 1..Len(done) /\ DOMAIN done' = 1..last
  BY <1>1, LenProperties DEF TypeOK
<1> HIDE DEF i, e
<1> SUFFICES ASSUME NEW j \in 1..last,
                    \A h \in 1..(j - 1) :
                      KeepsLength(done'[h]) \/ done'[j].end < done'[h].start
             PROVE  done'[j].found \subseteq {0} \cup done'[j].start..done'[j].end
  BY <1>3 DEF Exact
<1>4. CASE j \in 1..Len(done)
  <2>1. \A h \in 1..(j - 1) : h \in 1..Len(done)
    BY <1>3, <1>4
  <2>2. done'[j] = done[j] /\ \A h \in 1..(j - 1) : done'[h] = done[h]
    BY <1>1, <1>4, <2>1
  <2>3. \A h \in 1..(j - 1) : KeepsLength(done[h]) \/ done[j].end < done[h].start
    BY <2>2
  <2>4. Exact(done) /\ j \in DOMAIN done
    BY <1>3, <1>4 DEF LinesOf
  <2>5. done[j].found \subseteq {0} \cup done[j].start..done[j].end
    BY <2>3, <2>4 DEF Exact
  <2> QED
    BY <2>2, <2>5
<1>5. CASE j = last
  <2>1. \A h \in 1..Len(done) : KeepsLength(done[h]) \/ i.end < done[h].start
    <3> TAKE h \in 1..Len(done)
    <3>1. h \in 1..(j - 1) /\ done'[h] = done[h] /\ done'[j].end = i.end
      BY <1>1, <1>2, <1>3, <1>5
    <3> QED
      BY <3>1
  <2>2. \A k \in i.start..i.end : file[k].was \in {0, k}
    <3> SUFFICES ASSUME NEW k \in i.start..i.end
                 PROVE  file[k].was \in {0, k}
      OBVIOUS
    <3>1. k \in 1..Len(file) /\ k <= i.end /\ k \in Nat
      BY <1>1, <1>2, <1>3
    <3>2. \A h \in 1..Len(done) : done[h].start \in Nat
      BY <1>3, ElementOfSeq DEF TypeOK, Entry
    <3>3. \A h \in 1..Len(done) : KeepsLength(done[h]) \/ k < done[h].start
      BY <1>2, <2>1, <3>1, <3>2
    <3> QED
      BY <3>1, <3>3 DEF LinesOf, Tracks
  <2>3. LinesAt(i) \subseteq {0} \cup i.start..i.end
    BY <2>2 DEF LinesAt
  <2> QED
    BY <1>1, <1>2, <1>5, <2>3
<1> QED
  BY <1>3, <1>4, <1>5

LEMMA LinesNext == TypeOK /\ LinesInv /\ [Next]_vars => LinesInv'
<1> SUFFICES ASSUME TypeOK, LinesInv, [Next]_vars
             PROVE  LinesInv'
  OBVIOUS
<1>1. CASE Apply
  <2>1. LinesOf(file', done')
    BY <1>1, ApplyTracks, ApplyExact DEF LinesInv, LinesOf
  <2>2. before' = before
    BY <1>1 DEF Apply
  <2> QED
    BY <2>1, <2>2 DEF LinesInv
<1>2. CASE Next /\ ~Apply
  BY <1>2, Otherwise DEF LinesInv
<1>3. CASE UNCHANGED vars
  BY <1>3 DEF vars, LinesInv
<1> QED
  BY <1>1, <1>2, <1>3

(* Whatever the model proposes, however findings overlap or shift, and     *)
(* whatever is retried or rolled back: the lines above the first line any  *)
(* kept instruction names are the file's own, unmoved.                     *)
THEOREM TouchesOnlyBelow == Spec => []AboveUntouched
<1>1. TypeOK /\ LinesInv => AboveUntouched
  BY DEF LinesInv, LinesOf, AboveUntouched
<1> QED
  BY <1>1, LinesInit, LinesNext, TypeNext, PTL DEF Spec

(* While no earlier replacement changed the number of lines at or above    *)
(* it, an instruction replaces lines its finding names, or text another    *)
(* one wrote in their place, for any file and any findings.                *)
THEOREM ReplacesNamedLines == Spec => []ExactUnlessShifted
<1>1. TypeOK /\ LinesInv => ExactUnlessShifted
  BY DEF LinesInv, LinesOf, ExactUnlessShifted
<1> QED
  BY <1>1, LinesInit, LinesNext, TypeNext, PTL DEF Spec

-----------------------------------------------------------------------------
(* What is not replaced stays.                                             *)

KeptInv == OthersKept(original, file, done) /\ OthersKept(original, before.file, before.done)

LEMMA KeptInit == Init => KeptInv
<1> SUFFICES ASSUME Init
             PROVE  KeptInv
  OBVIOUS
<1>1. original \in Seq(Texts)
  BY DEF Init
<1>2. file = Numbered(original) /\ done = <<>>
      /\ before.file = file /\ before.done = done
  BY DEF Init
<1>3. DOMAIN original = 1..Len(original) /\ Len(original) \in Nat
  BY <1>1, LenProperties
<1>4. /\ DOMAIN file = DOMAIN original
      /\ \A k \in DOMAIN file : file[k].was = k /\ file[k].text = original[k]
  BY <1>2 DEF Numbered
<1>5. DOMAIN done = {}
  BY <1>2
<1>6. UNION {done[j].found : j \in DOMAIN done} = {}
  BY <1>5
<1>7. {file[k].was : k \in DOMAIN file} = DOMAIN original
  BY <1>4
<1>8. \A k \in DOMAIN file : k # 0 /\ k \in Nat
  BY <1>3, <1>4
<1>9. OthersKept(original, file, done)
  <2>1. ({} \cup DOMAIN original) \ {0} = DOMAIN original
    BY <1>4, <1>8
  <2>2. \A k, l \in DOMAIN file :
           k < l /\ file[k].was # 0 /\ file[l].was # 0 =>
               file[k].was < file[l].was
    BY <1>4
  <2> QED
    BY <1>4, <1>6, <1>7, <2>1, <2>2 DEF OthersKept
<1> QED
  BY <1>2, <1>9 DEF KeptInv

(* The lines a splice keeps come from outside the range, in order, and all *)
(* lines outside the range are kept.                                       *)
LEMMA SpliceKeeps ==
    ASSUME TypeOK, NEW i \in Instruction, i.end <= Len(file),
           file' = Splice(i)
    PROVE  /\ \A k \in 1..Len(file') : file'[k].was # 0 =>
                 \E m \in 1..Len(file) :
                   /\ m \notin i.start..i.end /\ file'[k] = file[m]
                   /\ \A l \in 1..Len(file') : l < k /\ file'[l].was # 0 =>
                        \E h \in 1..Len(file) : h < m /\ file'[l] = file[h]
           /\ \A m \in 1..Len(file) : m \notin i.start..i.end =>
                 \E k \in 1..Len(file') : file'[k] = file[m]
<1> DEFINE new == file'
           size == i.end - i.start + 1
           n == Len(i.replacement)
           Source(k) == IF k < i.start THEN k ELSE k + size - n
<1>1. /\ n \in Nat \ {0} /\ Len(new) = Len(file) + n - size
      /\ new \in Seq(Line) /\ Len(new) \in Nat /\ Len(file) \in Nat
      /\ \A k \in 1..Len(new) :
           /\ k < i.start => k \in 1..Len(file) /\ new[k] = file[k]
           /\ i.start <= k /\ k < i.start + n => new[k].was = 0
           /\ i.start + n <= k => /\ k + size - n \in 1..Len(file)
                                  /\ new[k] = file[k + size - n]
  BY SpliceIs, LenProperties DEF TypeOK
<1>2. i.start \in Nat \ {0} /\ i.end \in Nat \ {0} /\ i.start <= i.end
  BY DEF Instruction
<1> HIDE DEF n, new
<1>3. ASSUME NEW k \in 1..Len(new), new[k].was # 0
      PROVE  /\ Source(k) \in 1..Len(file) /\ new[k] = file[Source(k)]
             /\ Source(k) \notin i.start..i.end
             /\ k < i.start \/ i.start + n <= k
  <2>0. k \in Nat
    BY <1>1
  <2>1. CASE k < i.start
    BY <1>1, <1>2, <2>0, <2>1
  <2>2. CASE i.start + n <= k
    <3>1. ~(k < i.start)
      BY <1>1, <1>2, <2>0, <2>2
    <3>2. k + size - n > i.end
      BY <1>1, <1>2, <2>0, <2>2
    <3> QED
      BY <1>1, <1>2, <2>0, <2>2, <3>1, <3>2
  <2>3. k < i.start \/ i.start + n <= k
    <3> SUFFICES ASSUME ~(k < i.start), ~(i.start + n <= k)
                 PROVE  FALSE
      OBVIOUS
    <3>1. i.start <= k /\ k < i.start + n
      BY <1>1, <1>2, <2>0
    <3> QED
      BY <1>1, <1>3, <3>1
  <2> QED
    BY <2>1, <2>2, <2>3
<1>4. ASSUME NEW k \in 1..Len(new), new[k].was # 0,
             NEW l \in 1..Len(new), l < k, new[l].was # 0
      PROVE  Source(l) < Source(k)
  <2>1. k \in Nat /\ l \in Nat
    BY <1>1
  <2>2. CASE k < i.start
    BY <1>2, <1>4, <2>1, <2>2
  <2>3. CASE l < i.start /\ i.start + n <= k
    BY <1>1, <1>2, <1>4, <2>1, <2>3
  <2>4. CASE i.start + n <= l
    BY <1>1, <1>2, <1>4, <2>1, <2>4
  <2> QED
    BY <1>2, <1>3, <1>4, <2>1, <2>2, <2>3, <2>4
<1>5. ASSUME NEW m \in 1..Len(file), m \notin i.start..i.end
      PROVE  \E k \in 1..Len(new) : new[k] = file[m]
  <2>0. m \in Nat
    BY <1>1
  <2>1. CASE m < i.start
    <3>1. m \in 1..Len(new)
      BY <1>1, <1>2, <2>0, <2>1
    <3> QED
      BY <1>1, <2>1, <3>1
  <2>2. CASE m > i.end
    <3> DEFINE k == m + n - size
    <3>0. /\ size \in Nat \ {0} /\ size = i.end - i.start + 1
          /\ m <= Len(file) /\ Len(new) = Len(file) + n - size
      BY <1>1, <1>2
    <3> HIDE DEF size
    <3>4. i.start + n <= k
      <4>1. n \in Nat /\ m - size >= i.start
        BY ONLY <1>1, <1>2, <2>0, <2>2, <3>0
      <4> QED
        BY ONLY <1>2, <2>0, <3>0, <4>1
    <3>5. k <= Len(new) /\ k + size - n = m
      BY <1>1, <2>0, <3>0
    <3>6. k \in Int
      BY <1>1, <2>0, <3>0
    <3> HIDE DEF k
    <3>1. /\ k \in Nat /\ 1 <= k /\ k <= Len(new) /\ i.start + n <= k
          /\ k + size - n = m
      BY <1>1, <1>2, <3>4, <3>5, <3>6
    <3>2. k \in 1..Len(new)
      BY <1>1, <3>1
    <3>3. new[k] = file[k + size - n]
      BY <1>1, <3>1, <3>2
    <3> QED
      BY <3>1, <3>2, <3>3
  <2> QED
    BY <1>2, <1>5, <2>0, <2>1, <2>2
<1> HIDE DEF Source
<1>6. ASSUME NEW k \in 1..Len(new), new[k].was # 0
      PROVE  \E m \in 1..Len(file) :
               /\ m \notin i.start..i.end /\ new[k] = file[m]
               /\ \A l \in 1..Len(new) : l < k /\ new[l].was # 0 =>
                    \E h \in 1..Len(file) : h < m /\ new[l] = file[h]
  BY <1>3, <1>4, <1>6
<1> QED
  BY <1>5, <1>6 DEF new

LEMMA ApplyKeeps ==
    ASSUME TypeOK, Apply, OthersKept(original, file, done)
    PROVE  OthersKept(original', file', done')
<1> DEFINE i == Head(todo)
           kept == {file[k].was : k \in DOMAIN file}
           gone == UNION {done[j].found : j \in DOMAIN done}
           keptNow == {file'[k].was : k \in DOMAIN file'}
           goneNow == UNION {done'[j].found : j \in DOMAIN done'}
<1>1. /\ i \in Instruction /\ i.end <= Len(file) /\ file' = Splice(i)
      /\ done' \in Seq(Entry) /\ Len(done') = Len(done) + 1
      /\ \A j \in 1..Len(done) : done'[j] = done[j]
      /\ done'[Len(done) + 1].found = LinesAt(i)
  BY ApplyIs DEF Applied
<1> HIDE DEF i
<1>2. /\ \A k \in 1..Len(file') : file'[k].was # 0 =>
            \E m \in 1..Len(file) :
              /\ m \notin i.start..i.end /\ file'[k] = file[m]
              /\ \A l \in 1..Len(file') : l < k /\ file'[l].was # 0 =>
                   \E h \in 1..Len(file) : h < m /\ file'[l] = file[h]
      /\ \A m \in 1..Len(file) : m \notin i.start..i.end =>
            \E k \in 1..Len(file') : file'[k] = file[m]
  BY <1>1, SpliceKeeps
<1>3. /\ file' \in Seq(Line) /\ file \in Seq(Line) /\ original' = original
  <2>1. file' \in Seq(Line)
    BY <1>1, SpliceIs
  <2> QED
    BY <2>1 DEF TypeOK, Apply, given
<1>4. /\ DOMAIN file = 1..Len(file) /\ DOMAIN file' = 1..Len(file')
      /\ DOMAIN done = 1..Len(done) /\ DOMAIN done' = 1..(Len(done) + 1)
      /\ Len(file) \in Nat /\ Len(file') \in Nat /\ Len(done) \in Nat
      /\ \A k \in 1..Len(file) : file[k].was \in Nat
      /\ i.start \in Nat \ {0} /\ i.end \in Nat
  <2>1. DOMAIN file = 1..Len(file) /\ DOMAIN file' = 1..Len(file')
        /\ Len(file) \in Nat /\ Len(file') \in Nat
    BY <1>3, LenProperties
  <2>2. DOMAIN done = 1..Len(done) /\ DOMAIN done' = 1..(Len(done) + 1)
        /\ Len(done) \in Nat
    <3>1. done \in Seq(Entry)
      BY DEF TypeOK
    <3> QED
      BY <1>1, <3>1, LenProperties
  <2>3. \A k \in 1..Len(file) : file[k].was \in Nat
    <3>1. \A k \in 1..Len(file) : file[k] \in Line
      BY <1>3, ElementOfSeq
    <3> QED
      BY <3>1 DEF Line
  <2>4. i.start \in Nat \ {0} /\ i.end \in Nat
    BY <1>1 DEF Instruction
  <2> QED
    BY <2>1, <2>2, <2>3, <2>4
<1>5. /\ kept \cap gone \subseteq {0} /\ (kept \cup gone) \ {0} = DOMAIN original
      /\ \A k \in 1..Len(file) :
           file[k].was # 0 => file[k].text = original[file[k].was]
      /\ \A k, l \in 1..Len(file) :
           k < l /\ file[k].was # 0 /\ file[l].was # 0 =>
               file[k].was < file[l].was
  BY <1>4 DEF OthersKept
<1>6. \A k, l \in 1..Len(file) :
         file[k].was = file[l].was /\ file[k].was # 0 => k = l
  <2> SUFFICES ASSUME NEW k \in 1..Len(file), NEW l \in 1..Len(file),
                      file[k].was = file[l].was, file[k].was # 0
               PROVE  k = l
    OBVIOUS
  <2>1. file[k].was \in Nat /\ ~(file[k].was < file[l].was)
        /\ ~(file[l].was < file[k].was)
    BY <1>4
  <2>2. ~(k < l) /\ ~(l < k)
    BY <1>5, <2>1
  <2> QED
    BY <1>4, <2>2
<1>7. goneNow = gone \cup LinesAt(i)
  <2>1. goneNow \subseteq gone \cup LinesAt(i)
    <3> SUFFICES ASSUME NEW j \in 1..(Len(done) + 1)
                 PROVE  done'[j].found \subseteq gone \cup LinesAt(i)
      BY <1>4
    <3>1. CASE j \in 1..Len(done)
      BY <1>1, <1>4, <3>1
    <3>2. CASE j = Len(done) + 1
      BY <1>1, <3>2
    <3> QED
      BY <1>4, <3>1, <3>2
  <2>2. gone \subseteq goneNow
    <3> SUFFICES ASSUME NEW j \in 1..Len(done)
                 PROVE  done[j].found \subseteq goneNow
      BY <1>4
    <3>1. j \in DOMAIN done' /\ done'[j] = done[j]
      BY <1>1, <1>4
    <3> QED
      BY <3>1
  <2>3. LinesAt(i) \subseteq goneNow
    <3>1. Len(done) + 1 \in DOMAIN done'
      BY <1>4
    <3> QED
      BY <1>1, <3>1
  <2> QED
    BY <2>1, <2>2, <2>3
<1>8. /\ \A w \in LinesAt(i) : \E m \in i.start..i.end :
            m \in 1..Len(file) /\ file[m].was = w
      /\ \A m \in i.start..i.end : file[m].was \in LinesAt(i)
  BY <1>1, <1>4 DEF LinesAt
<1>9. \A w \in keptNow : w # 0 => w \in kept /\ w \notin LinesAt(i)
  <2> SUFFICES ASSUME NEW k \in 1..Len(file'), file'[k].was # 0
               PROVE  file'[k].was \in kept /\ file'[k].was \notin LinesAt(i)
    BY <1>4
  <2>1. PICK m \in 1..Len(file) : m \notin i.start..i.end /\ file'[k] = file[m]
    BY <1>2
  <2>2. file[m].was \in kept
    BY <1>4
  <2>3. file[m].was \notin LinesAt(i)
    <3> SUFFICES ASSUME file[m].was \in LinesAt(i)
                 PROVE  FALSE
      OBVIOUS
    <3>1. PICK h \in i.start..i.end : h \in 1..Len(file) /\ file[h].was = file[m].was
      BY <1>8
    <3> QED
      BY <1>6, <2>1, <3>1
  <2> QED
    BY <2>1, <2>2, <2>3
<1>10. \A w \in kept : w \in keptNow \/ w \in LinesAt(i)
  <2> SUFFICES ASSUME NEW m \in 1..Len(file)
               PROVE  file[m].was \in keptNow \/ file[m].was \in LinesAt(i)
    BY <1>4
  <2> QED
    BY <1>2, <1>4, <1>8
<1>11. LinesAt(i) \subseteq kept
  BY <1>4, <1>8
<1>12. keptNow \cap goneNow \subseteq {0}
  BY <1>5, <1>7, <1>9
<1>13. (keptNow \cup goneNow) \ {0} = DOMAIN original
  BY <1>5, <1>7, <1>9, <1>10, <1>11
<1>14. \A k \in 1..Len(file') :
          file'[k].was # 0 => file'[k].text = original[file'[k].was]
  <2> SUFFICES ASSUME NEW k \in 1..Len(file'), file'[k].was # 0
               PROVE  file'[k].text = original[file'[k].was]
    OBVIOUS
  <2>1. PICK m \in 1..Len(file) : file'[k] = file[m]
    BY <1>2
  <2> QED
    BY <1>5, <2>1
<1>15. \A k, l \in 1..Len(file') :
          k < l /\ file'[k].was # 0 /\ file'[l].was # 0 =>
              file'[k].was < file'[l].was
  <2> SUFFICES ASSUME NEW l \in 1..Len(file'), NEW k \in 1..Len(file'),
                      k < l, file'[k].was # 0, file'[l].was # 0
               PROVE  file'[k].was < file'[l].was
    OBVIOUS
  <2>1. PICK m \in 1..Len(file) :
          /\ file'[l] = file[m]
          /\ \A j \in 1..Len(file') : j < l /\ file'[j].was # 0 =>
               \E h \in 1..Len(file) : h < m /\ file'[j] = file[h]
    BY <1>2
  <2>2. PICK h \in 1..Len(file) : h < m /\ file'[k] = file[h]
    BY <2>1
  <2> QED
    BY <1>5, <2>1, <2>2
<1> QED
  BY <1>3, <1>4, <1>12, <1>13, <1>14, <1>15 DEF OthersKept, keptNow, goneNow

LEMMA KeptNext == TypeOK /\ KeptInv /\ [Next]_vars => KeptInv'
<1> SUFFICES ASSUME TypeOK, KeptInv, [Next]_vars
             PROVE  KeptInv'
  OBVIOUS
<1>1. CASE Apply
  <2>1. OthersKept(original', file', done')
    BY <1>1, ApplyKeeps DEF KeptInv
  <2>2. before' = before /\ original' = original
    BY <1>1 DEF Apply, given
  <2> QED
    BY <2>1, <2>2 DEF KeptInv
<1>2. CASE Next /\ ~Apply
  <2>1. original' = original
    <3>1. UNCHANGED given
      BY <1>2 DEF Next, ProposeNext, RouterUnavailable, RouterGarbage,
         Proposed, GenerateNext, Generated, Mismatch, RollBack, AutofixEnds,
         LLMVerified, LLMRetries, LLMGivesUp
    <3> QED
      BY <3>1 DEF given
  <2> QED
    BY <1>2, <2>1, Otherwise DEF KeptInv
<1>3. CASE UNCHANGED vars
  BY <1>3 DEF vars, given, KeptInv
<1> QED
  BY <1>1, <1>2, <1>3

(* However instructions shift each other's lines: no line but the replaced *)
(* ones is lost, doubled, reworded or moved past another, for any file and *)
(* any findings.                                                           *)
THEOREM KeepsOtherLines == Spec => []TakesOnlyItsLines
<1>1. KeptInv => TakesOnlyItsLines
  BY DEF KeptInv, TakesOnlyItsLines
<1> QED
  BY <1>1, TypeInit, TypeNext, KeptInit, KeptNext, PTL DEF Spec

-----------------------------------------------------------------------------
(* When the guard raises.                                                  *)

TextsAt(F, i) == [k \in 1..(i.end - i.start + 1) |-> F[i.start + k - 1].text]

(* Instructions that still fit the file, or conflict with what was applied *)
(* since they were made.                                                   *)
Fresh(F, D) ==
    {i \in Instruction :
       \/ Conflicts(D, i)
       \/ i.end <= Len(F) /\ i.expected = TextsAt(F, i)}

FreshIn(F, D) == proposals \in Seq(Fresh(F, D)) /\ todo \in Seq(Fresh(F, D))

(* What the model answered must also fit the file a rollback would leave.  *)
FreshInv ==
    /\ exists => FreshIn(file, done) /\ FreshIn(before.file, before.done)
    /\ pc \in {"propose", "generate"} =>
         before.file = file /\ before.done = done
    /\ pc = "rollback" => todo # <<>> /\ ~Matches(Head(todo))

LEMMA ApplyFresh ==
    ASSUME TypeOK, Apply
    PROVE  Fresh(file, done) \subseteq Fresh(file', done')
<1> DEFINE i == Head(todo)
           e == Applied(i)
           size == i.end - i.start + 1
           n == Len(i.replacement)
<1>1. /\ i \in Instruction /\ i.end <= Len(file) /\ file' = Splice(i)
      /\ done' \in Seq(Entry) /\ Len(done') = Len(done) + 1
      /\ \A j \in 1..Len(done) : done'[j] = done[j]
      /\ done'[Len(done) + 1] = e
  BY ApplyIs
<1>2. /\ n \in Nat \ {0} /\ Len(file') = Len(file) + n - size
      /\ \A k \in 1..Len(file') :
           /\ k < i.start => file'[k] = file[k]
           /\ i.start + n <= k => file'[k] = file[k + size - n]
  BY <1>1, SpliceIs
<1>3. /\ i.start \in Nat \ {0} /\ i.end \in Nat \ {0} /\ i.start <= i.end
      /\ e.start = i.start /\ e.end = i.end /\ e.size = n
  BY <1>1 DEF Instruction, Applied
<1>4. /\ Len(done) \in Nat /\ Len(file) \in Nat
      /\ DOMAIN done = 1..Len(done) /\ DOMAIN done' = 1..Len(done) + 1
  BY <1>1, LenProperties DEF TypeOK
<1> HIDE DEF i, e, n
<1> SUFFICES ASSUME NEW a \in Fresh(file, done), ~Conflicts(done', a)
             PROVE  a.end <= Len(file') /\ a.expected = TextsAt(file', a)
  BY DEF Fresh
<1>5. /\ a.start \in Nat \ {0} /\ a.end \in Nat \ {0} /\ a.start <= a.end
  BY DEF Fresh, Instruction
<1>6. ~Conflicts(done, a)
  <2> SUFFICES ASSUME NEW j \in 1..Len(done), done[j].start <= a.end,
                      ~KeepsLength(done[j]) \/ a.start <= done[j].end
               PROVE  FALSE
    BY <1>4 DEF Conflicts
  <2>1. j \in DOMAIN done' /\ done'[j] = done[j]
    BY <1>1, <1>4
  <2> QED
    BY <2>1 DEF Conflicts
<1>7. a.end <= Len(file) /\ a.expected = TextsAt(file, a)
  BY <1>6 DEF Fresh
<1>8. ~(i.start <= a.end /\ (~KeepsLength(e) \/ a.start <= i.end))
  <2>1. Len(done) + 1 \in DOMAIN done'
    BY <1>4
  <2> QED
    BY <1>1, <1>3, <2>1 DEF Conflicts
<1>9. ASSUME \A k \in a.start..a.end : file'[k] = file[k]
      PROVE  TextsAt(file', a) = TextsAt(file, a)
  <2>1. \A k \in 1..(a.end - a.start + 1) : a.start + k - 1 \in a.start..a.end
    BY <1>5
  <2> QED
    BY <1>9, <2>1 DEF TextsAt
<1>10. CASE a.end < i.start
  <2>1. a.end <= Len(file')
    BY <1>1, <1>2, <1>3, <1>4, <1>5, <1>10
  <2>2. \A k \in a.start..a.end : k \in 1..Len(file') /\ k < i.start
    BY <1>2, <1>3, <1>4, <1>5, <1>10, <2>1
  <2>3. \A k \in a.start..a.end : file'[k] = file[k]
    BY <1>2, <2>2
  <2> QED
    BY <1>7, <1>9, <2>1, <2>3
<1>11. CASE KeepsLength(e) /\ i.end < a.start
  <2>1. n = size
    BY <1>3, <1>11 DEF KeepsLength
  <2>2. Len(file') = Len(file)
    BY <1>2, <1>3, <1>4, <2>1
  <2>3. ASSUME NEW k \in a.start..a.end
        PROVE  file'[k] = file[k]
    <3>1. k \in 1..Len(file') /\ i.start + n <= k
      BY <1>3, <1>4, <1>5, <1>7, <1>11, <2>1, <2>2
    <3>2. k + size - n = k
      BY <1>2, <1>3, <2>1, <2>3
    <3> QED
      BY <1>2, <3>1, <3>2
  <2> QED
    BY <1>7, <1>9, <2>2, <2>3
<1> QED
  BY <1>3, <1>5, <1>8, <1>10, <1>11

LEMMA BoundIsFresh ==
    ASSUME TypeOK, NEW f \in Finding, InFile(f)
    PROVE  Bound(f) \in Fresh(file, done)
<1>1. Bound(f) \in Instruction
  BY BoundIsTyped DEF InFile
<1> QED
  BY <1>1 DEF Fresh, TextsAt, Bound, InFile

LEMMA FreshInit == Init => FreshInv
<1> SUFFICES ASSUME Init
             PROVE  FreshInv
  OBVIOUS
<1>1. \A F, D : <<>> \in Seq(Fresh(F, D))
  BY EmptySeq
<1> QED
  BY <1>1 DEF Init, FreshInv, FreshIn

LEMMA FreshNext == TypeOK /\ FreshInv /\ [Next]_vars => FreshInv'
<1> SUFFICES ASSUME TypeOK, FreshInv, [Next]_vars
             PROVE  FreshInv'
  OBVIOUS
<1> DEFINE Now == Fresh(file, done)
           Then == Fresh(before.file, before.done)
<1>1. \A F, D : <<>> \in Seq(Fresh(F, D))
  BY EmptySeq
<1>2. exists => /\ proposals \in Seq(Now) /\ todo \in Seq(Now)
                /\ proposals \in Seq(Then) /\ todo \in Seq(Then)
  BY DEF FreshInv, FreshIn
<1>3. pc \in {"propose", "generate"} => before.file = file /\ before.done = done
  BY DEF FreshInv
<1>4. queue \in Seq(Finding)
  BY DEF TypeOK
<1>5. queue # <<>> => Head(queue) \in Finding
  BY <1>4, HeadTailProperties
<1> HIDE DEF Now, Then
<1>6. ASSUME ProposeNext
      PROVE  FreshInv'
  <2>1. ASSUME exists
        PROVE  proposals' \in Seq(Now)
    <3>1. CASE UNCHANGED proposals
      BY <1>2, <2>1, <3>1
    <3>2. CASE InFile(Head(queue))
               /\ proposals' = Append(proposals, Bound(Head(queue)))
      <4>1. Bound(Head(queue)) \in Now
        BY <1>5, <1>6, <3>2, BoundIsFresh DEF ProposeNext, Now
      <4> QED
        BY <1>2, <2>1, <3>2, <4>1, AppendProperties
    <3> QED
      BY <1>6, <3>1, <3>2 DEF ProposeNext
  <2>2. /\ file' = file /\ done' = done /\ before' = before /\ todo' = todo
        /\ pc' = pc /\ exists' = exists /\ pc = "propose"
    BY <1>6 DEF ProposeNext, given
  <2>3. before.file = file /\ before.done = done
    BY <1>3, <2>2
  <2>4. exists' => FreshIn(file, done)'
    BY <1>2, <2>1, <2>2 DEF FreshIn, Now
  <2> QED
    BY <2>2, <2>3, <2>4 DEF FreshInv, FreshIn
<1>7. ASSUME RouterUnavailable
      PROVE  FreshInv'
  BY <1>1, <1>2, <1>3, <1>7
     DEF RouterUnavailable, given, FreshInv, FreshIn, Now, Then
<1>8. ASSUME RouterGarbage
      PROVE  FreshInv'
  BY <1>2, <1>8 DEF RouterGarbage, given, FreshInv, FreshIn, Now, Then
<1>9. ASSUME Proposed
      PROVE  FreshInv'
  <2>1. CASE retried
    BY <1>2, <1>9, <2>1
       DEF Proposed, StartLane, given, FreshInv, FreshIn, Now
  <2>2. CASE ~retried
    BY <1>2, <1>3, <1>9, <2>2
       DEF Proposed, given, FreshInv, FreshIn, Now, Then
  <2> QED
    BY <2>1, <2>2
<1>10. ASSUME GenerateNext
       PROVE  FreshInv'
  <2>1. ASSUME exists
        PROVE  todo' \in Seq(Now)
    <3>1. InstructionFor(Head(queue)) \in Seq(Now)
      <4> DEFINE f == Head(queue)
      <4>1. InFile(f) => Bound(f) \in Now
        BY <1>5, <1>10, BoundIsFresh DEF GenerateNext, Now
      <4>2. \A i \in Now : <<i>> \in Seq(Now)
        OBVIOUS
      <4>3. <<>> \in Seq(Now)
        BY EmptySeq
      <4> HIDE DEF f
      <4>4. InstructionFor(f) \in Seq(Now)
        BY <2>1, <4>1, <4>2, <4>3 DEF InstructionFor
      <4> QED
        BY <4>4 DEF f
    <3> QED
      BY <1>2, <1>10, <2>1, <3>1, ConcatProperties DEF GenerateNext
  <2>2. /\ file' = file /\ done' = done /\ before' = before
        /\ proposals' = proposals
        /\ pc' = pc /\ exists' = exists /\ pc = "generate"
    BY <1>10 DEF GenerateNext, given
  <2>3. before.file = file /\ before.done = done
    BY <1>3, <2>2
  <2>4. exists' => FreshIn(file, done)'
    BY <1>2, <2>1, <2>2 DEF FreshIn, Now
  <2> QED
    BY <2>2, <2>3, <2>4 DEF FreshInv, FreshIn
<1>11. ASSUME Generated
       PROVE  FreshInv'
  BY <1>2, <1>11 DEF Generated, StartLane, given, FreshInv, FreshIn, Now
<1>12. ASSUME Apply
       PROVE  FreshInv'
  <2>1. todo # <<>> /\ todo' = Tail(todo) /\ proposals' = proposals
        /\ before' = before /\ pc' = pc /\ pc \in Lanes /\ exists' = exists
    BY <1>12 DEF Apply, given
  <2>2. \A S : todo \in Seq(S) => todo' \in Seq(S)
    BY <2>1, HeadTailProperties
  <2>3. Fresh(file, done) \subseteq Fresh(file', done')
    BY <1>12, ApplyFresh
  <2>4. exists => proposals' \in Seq(Fresh(file', done'))
                  /\ todo' \in Seq(Fresh(file', done'))
    BY <1>2, <2>1, <2>2, <2>3, SeqMonotonic DEF Now
  <2> QED
    BY <1>2, <2>1, <2>2, <2>4 DEF FreshInv, FreshIn, Lanes, Then
<1>13. ASSUME Mismatch
       PROVE  FreshInv'
  <2>1. Matches(Head(todo))' <=> Matches(Head(todo))
    BY <1>13 DEF Mismatch, given, Matches, InFile, Bound
  <2> QED
    BY <1>2, <1>13, <2>1 DEF Mismatch, given, FreshInv, FreshIn, Now, Then
<1>14. ASSUME RollBack
       PROVE  FreshInv'
  BY <1>1, <1>2, <1>14 DEF RollBack, Restored, given, FreshInv, FreshIn, Then
<1>15. ASSUME AutofixEnds
       PROVE  FreshInv'
  <2>1. /\ todo' = proposals /\ proposals' = proposals /\ exists' = exists
        /\ pc' = "llm" /\ before'.file = file' /\ before'.done = done'
        /\ \/ file' = file /\ done' = done
           \/ file' = before.file /\ done' = before.done
    BY <1>15 DEF AutofixEnds, StartLane, Restored, given
  <2>2. exists => proposals \in Seq(Fresh(file', done'))
    BY <1>2, <2>1 DEF Now, Then
  <2> QED
    BY <2>1, <2>2 DEF FreshInv, FreshIn
<1>16. ASSUME LLMVerified
       PROVE  FreshInv'
  BY <1>2, <1>16 DEF LLMVerified, given, FreshInv, FreshIn, Now, Then
<1>17. ASSUME LLMRetries
       PROVE  FreshInv'
  BY <1>1, <1>2, <1>17 DEF LLMRetries, Restored, given, FreshInv, FreshIn, Then
<1>18. ASSUME LLMGivesUp
       PROVE  FreshInv'
  BY <1>2, <1>18 DEF LLMGivesUp, Restored, given, FreshInv, FreshIn, Then
<1>19. CASE UNCHANGED vars
  <2>1. Matches(Head(todo))' <=> Matches(Head(todo))
    BY <1>19 DEF vars, given, Matches, InFile, Bound
  <2> QED
    BY <1>19, <2>1 DEF vars, given, FreshInv, FreshIn
<1> QED
  BY <1>6, <1>7, <1>8, <1>9, <1>10, <1>11, <1>12, <1>13, <1>14, <1>15, <1>16,
     <1>17, <1>18, <1>19 DEF Next

(* A finding is refused only when the file is missing or an instruction    *)
(* applied before conflicts with it: findings apart from each other, each  *)
(* keeping its number of lines, are all applied.                           *)
THEOREM RefusesOnlyConflicts == Spec => []RaisesOnlyOnConflict
<1>1. TypeOK /\ FreshInv => RaisesOnlyOnConflict
  <2> SUFFICES ASSUME TypeOK, FreshInv, pc = "rollback", exists
               PROVE  Conflicts(done, Head(todo))
    BY DEF RaisesOnlyOnConflict
  <2>1. todo \in Seq(Fresh(file, done)) /\ todo # <<>> /\ ~Matches(Head(todo))
    BY DEF FreshInv, FreshIn
  <2>2. Head(todo) \in Fresh(file, done)
    BY <2>1, HeadTailProperties
  <2> QED
    BY <2>1, <2>2 DEF Fresh, TextsAt, Matches, InFile, Bound
<1> QED
  BY <1>1, TypeInit, TypeNext, FreshInit, FreshNext, PTL DEF Spec

-----------------------------------------------------------------------------
(* When texts tell lines apart, a line's text says where it was, and so    *)
(* does an instruction's expected text.                                    *)

WasOf(texts, t) ==
    IF t \in Range(texts) THEN CHOOSE k \in DOMAIN texts : texts[k] = t ELSE 0

Tells(texts, F) == \A k \in 1..Len(F) : F[k].was = WasOf(texts, F[k].text)

Foreign(texts) == {b \in Blocks : Range(b) \cap Range(texts) = {}}

MeantBy(texts, expected) ==
    {WasOf(texts, expected[k]) : k \in DOMAIN expected}

Named(texts) ==
    {i \in Instruction : /\ i.replacement \in Foreign(texts)
                         /\ i.meant = MeantBy(texts, i.expected)}

Asked(texts) == {f \in Finding : f.replacement \in Foreign(texts)}

AsMeant == {d \in Entry : d.found = d.meant}

TellInv ==
    TextsTell =>
      /\ Tells(original, file) /\ Tells(original, before.file)
      /\ queue \in Seq(Asked(original)) /\ payload \in Seq(Asked(original))
      /\ proposals \in Seq(Named(original)) /\ todo \in Seq(Named(original))
      /\ done \in Seq(AsMeant) /\ before.done \in Seq(AsMeant)

LEMMA BoundTells ==
    ASSUME TypeOK, Tells(original, file),
           NEW f \in Finding \cup Instruction, f.end <= Len(file)
    PROVE  LinesAt(f) = MeantBy(original, Bound(f).expected)
<1> DEFINE size == f.end - f.start + 1
           expected == Bound(f).expected
<1>1. f.start \in Nat \ {0} /\ f.end \in Nat \ {0} /\ f.start <= f.end
  BY DEF Finding, Instruction
<1>2. Len(file) \in Nat
  BY LenProperties DEF TypeOK
<1>3. /\ DOMAIN expected = 1..size
      /\ \A k \in 1..size : expected[k] = file[f.start + k - 1].text
  BY DEF Bound
<1>4. \A k \in 1..size : f.start + k - 1 \in f.start..f.end
  BY <1>1
<1>5. \A k \in f.start..f.end : /\ k \in 1..Len(file)
                                /\ k - f.start + 1 \in 1..size
                                /\ f.start + (k - f.start + 1) - 1 = k
  BY <1>1, <1>2
<1> HIDE DEF size, expected
<1>6. ASSUME NEW k \in f.start..f.end
      PROVE  file[k].was \in MeantBy(original, expected)
  <2>1. expected[k - f.start + 1] = file[k].text
    BY <1>3, <1>5
  <2>2. file[k].was = WasOf(original, expected[k - f.start + 1])
    BY <1>5, <2>1 DEF Tells
  <2> QED
    BY <1>3, <1>5, <2>2 DEF MeantBy
<1>7. ASSUME NEW k \in 1..size
      PROVE  WasOf(original, expected[k]) \in LinesAt(f)
  <2>1. f.start + k - 1 \in 1..Len(file)
    BY <1>4, <1>5
  <2>2. file[f.start + k - 1].was = WasOf(original, expected[k])
    BY <1>3, <2>1 DEF Tells
  <2> QED
    BY <1>4, <2>2 DEF LinesAt
<1>8. LinesAt(f) \subseteq MeantBy(original, expected)
  BY <1>6 DEF LinesAt
<1>9. MeantBy(original, expected) \subseteq LinesAt(f)
  BY <1>3, <1>7 DEF MeantBy
<1> QED
  BY <1>8, <1>9 DEF expected

LEMMA BoundIsNamed ==
    ASSUME TypeOK, Tells(original, file), NEW f \in Asked(original), InFile(f)
    PROVE  Bound(f) \in Named(original)
<1>1. f \in Finding /\ f.end <= Len(file)
  BY DEF Asked, InFile
<1>2. Bound(f) \in Instruction
  BY <1>1, BoundIsTyped
<1>3. Bound(f).meant = LinesAt(f) /\ Bound(f).replacement = f.replacement
  BY DEF Bound
<1>4. LinesAt(f) = MeantBy(original, Bound(f).expected)
  BY <1>1, BoundTells
<1> QED
  BY <1>2, <1>3, <1>4 DEF Named, Asked

LEMMA ApplyTells ==
    ASSUME TypeOK, Apply, Tells(original, file), Head(todo) \in Named(original)
    PROVE  Tells(original, file') /\ Applied(Head(todo)) \in AsMeant
<1> DEFINE i == Head(todo)
           size == i.end - i.start + 1
           n == Len(i.replacement)
<1>1. /\ i \in Instruction /\ i.end <= Len(file) /\ file' = Splice(i)
      /\ i.expected = Bound(i).expected /\ Applied(i) \in Entry
  BY ApplyIs
<1>2. LinesAt(i) = MeantBy(original, i.expected)
  BY <1>1, BoundTells
<1>3. Applied(i) \in AsMeant
  BY <1>1, <1>2 DEF Applied, Named, AsMeant
<1>4. /\ n \in Nat \ {0} /\ file' \in Seq(Line)
      /\ \A k \in 1..Len(file') :
           /\ k < i.start => k \in 1..Len(file) /\ file'[k] = file[k]
           /\ i.start <= k /\ k < i.start + n =>
                /\ file'[k].was = 0
                /\ \E j \in DOMAIN i.replacement :
                     file'[k].text = i.replacement[j]
           /\ i.start + n <= k => /\ k + size - n \in 1..Len(file)
                                  /\ file'[k] = file[k + size - n]
  BY <1>1, SpliceIs
<1>5. i.start \in Nat /\ Len(file') \in Nat
  BY <1>1, <1>4, LenProperties DEF Instruction
<1>6. \A j \in DOMAIN i.replacement : WasOf(original, i.replacement[j]) = 0
  <2> TAKE j \in DOMAIN i.replacement
  <2>1. i.replacement[j] \notin Range(original)
    BY DEF Named, Foreign, Range
  <2> QED
    BY <2>1 DEF WasOf
<1> HIDE DEF i, n, size
<1>7. ASSUME NEW k \in 1..Len(file')
      PROVE  file'[k].was = WasOf(original, file'[k].text)
  <2>1. CASE k < i.start
    BY <1>4, <2>1 DEF Tells
  <2>2. CASE i.start <= k /\ k < i.start + n
    BY <1>4, <1>6, <2>2
  <2>3. CASE i.start + n <= k
    BY <1>4, <2>3 DEF Tells
  <2>4. k \in Nat
    BY <1>5
  <2> QED
    BY <1>4, <1>5, <2>1, <2>2, <2>3, <2>4
<1> QED
  BY <1>3, <1>7 DEF Tells, i

LEMMA TellInit == Init => TellInv
<1> SUFFICES ASSUME Init, TextsTell
             PROVE  TellInv
  BY DEF TellInv
<1>1. original \in Seq(Texts) /\ payload \in Seq(Finding) /\ queue = payload
  BY DEF Init
<1>2. /\ file = Numbered(original) /\ before.file = file
      /\ proposals = <<>> /\ todo = <<>> /\ done = <<>> /\ before.done = <<>>
  BY DEF Init
<1>3. /\ Len(file) = Len(original) /\ DOMAIN original = 1..Len(original)
  BY <1>1, <1>2, Marked, LenProperties
<1>4. Tells(original, file)
  <2> SUFFICES ASSUME NEW k \in 1..Len(original)
               PROVE  file[k].was = WasOf(original, file[k].text)
    BY <1>3 DEF Tells
  <2>1. file[k] = [text |-> original[k], was |-> k]
    BY <1>2, <1>3 DEF Numbered
  <2>2. original[k] \in Range(original)
    BY <1>3 DEF Range
  <2>3. \A j \in DOMAIN original : original[j] = original[k] => j = k
    BY <1>3 DEF TextsTell, IsInjective
  <2>4. WasOf(original, original[k]) = k
    BY <1>3, <2>2, <2>3 DEF WasOf
  <2> QED
    BY <2>1, <2>4
<1>5. payload \in Seq(Asked(original))
  <2>1. payload \in [1..Len(payload) -> Finding] /\ Len(payload) \in Nat
        /\ DOMAIN payload = 1..Len(payload)
    BY <1>1, LenProperties
  <2>2. \A n \in 1..Len(payload) : payload[n] \in Asked(original)
    BY <2>1 DEF TextsTell, Asked, Foreign, Finding
  <2>3. payload \in [1..Len(payload) -> Asked(original)]
    BY <2>1, <2>2
  <2> QED
    BY <2>1, <2>3, SeqDef
<1>6. \A S : <<>> \in Seq(S)
  BY EmptySeq
<1> QED
  BY <1>1, <1>2, <1>4, <1>5, <1>6 DEF TellInv

LEMMA TellNext == TypeOK /\ TellInv /\ [Next]_vars => TellInv'
<1>1. ASSUME [Next]_vars
      PROVE  original' = original /\ payload' = payload /\ exists' = exists
  BY <1>1 DEF Next, vars, given, ProposeNext, RouterUnavailable, RouterGarbage,
       Proposed, GenerateNext, Generated, Apply, Mismatch, RollBack,
       AutofixEnds, LLMVerified, LLMRetries, LLMGivesUp
<1>2. ASSUME [Next]_vars
      PROVE  TextsTell' <=> TextsTell
  BY <1>1, <1>2 DEF TextsTell
<1> SUFFICES ASSUME TypeOK, TellInv, [Next]_vars, TextsTell
             PROVE  /\ Tells(original, file') /\ Tells(original, before'.file)
                    /\ queue' \in Seq(Asked(original))
                    /\ proposals' \in Seq(Named(original))
                    /\ todo' \in Seq(Named(original))
                    /\ done' \in Seq(AsMeant) /\ before'.done \in Seq(AsMeant)
  BY <1>1, <1>2 DEF TellInv
<1>3. /\ Tells(original, file) /\ Tells(original, before.file)
      /\ queue \in Seq(Asked(original)) /\ payload \in Seq(Asked(original))
      /\ proposals \in Seq(Named(original)) /\ todo \in Seq(Named(original))
      /\ done \in Seq(AsMeant) /\ before.done \in Seq(AsMeant)
  BY DEF TellInv
<1>4. \A S : <<>> \in Seq(S)
  BY EmptySeq
<1>5. /\ queue # <<>> => /\ Head(queue) \in Asked(original)
                         /\ Tail(queue) \in Seq(Asked(original))
      /\ todo # <<>> => /\ Head(todo) \in Named(original)
                        /\ Tail(todo) \in Seq(Named(original))
  BY <1>3, HeadTailProperties
<1>6. CASE Apply
  <2>1. Tells(original, file') /\ Applied(Head(todo)) \in AsMeant
    BY <1>3, <1>5, <1>6, ApplyTells DEF Apply
  <2>2. done' = Append(done, Applied(Head(todo)))
    BY <1>6, ApplyIs
  <2>3. done' \in Seq(AsMeant)
    BY <1>3, <2>1, <2>2, AppendProperties
  <2>4. /\ queue' = queue /\ proposals' = proposals /\ before' = before
        /\ todo # <<>> /\ todo' = Tail(todo)
    BY <1>6 DEF Apply
  <2> QED
    BY <1>3, <1>5, <2>1, <2>3, <2>4
<1>7. CASE ProposeNext
  <2>1. proposals' \in Seq(Named(original))
    <3>1. CASE UNCHANGED proposals
      BY <1>3, <3>1
    <3>2. CASE InFile(Head(queue))
               /\ proposals' = Append(proposals, Bound(Head(queue)))
      <4>1. Bound(Head(queue)) \in Named(original)
        BY <1>3, <1>5, <1>7, <3>2, BoundIsNamed DEF ProposeNext
      <4> QED
        BY <1>3, <3>2, <4>1, AppendProperties
    <3> QED
      BY <1>7, <3>1, <3>2 DEF ProposeNext
  <2> QED
    BY <1>3, <1>5, <1>7, <2>1 DEF ProposeNext
<1>8. CASE GenerateNext
  <2> DEFINE f == Head(queue)
             guard == [start |-> f.start, end |-> f.end, expected |-> <<>>,
                       replacement |-> f.replacement, meant |-> {}]
  <2>1. f \in Asked(original)
    BY <1>5, <1>8 DEF GenerateNext
  <2>2. InFile(f) => Bound(f) \in Named(original)
    BY <1>3, <2>1, BoundIsNamed
  <2>3. guard \in Named(original)
    <3>1. guard \in Instruction
      BY <1>4, <2>1 DEF Asked, Finding, Instruction
    <3>2. MeantBy(original, <<>>) = {}
      BY DEF MeantBy
    <3> QED
      BY <2>1, <3>1, <3>2 DEF Named, Asked
  <2>4. \A i \in Named(original) : <<i>> \in Seq(Named(original))
    OBVIOUS
  <2> HIDE DEF f
  <2>5. InstructionFor(f) \in Seq(Named(original))
    BY <1>4, <2>2, <2>3, <2>4 DEF InstructionFor
  <2>6. todo' = todo \o InstructionFor(f) /\ queue # <<>> /\ queue' = Tail(queue)
        /\ file' = file /\ proposals' = proposals /\ done' = done
        /\ before' = before
    BY <1>8 DEF GenerateNext, f
  <2>7. todo' \in Seq(Named(original))
    BY <1>3, <2>5, <2>6, ConcatProperties
  <2> QED
    BY <1>3, <1>5, <2>6, <2>7
<1>9. CASE Next /\ ~Apply /\ ~ProposeNext /\ ~GenerateNext
  <2>1. /\ \/ file' = file /\ done' = done
           \/ file' = before.file /\ done' = before.done
        /\ \/ before' = before
           \/ before'.file = file' /\ before'.done = done'
    BY <1>9, Otherwise
  <2>2. /\ Tells(original, file') /\ Tells(original, before'.file)
        /\ done' \in Seq(AsMeant) /\ before'.done \in Seq(AsMeant)
    BY <1>3, <2>1
  <2>3. /\ queue' \in {queue, payload, <<>>}
        /\ proposals' \in {proposals, <<>>}
        /\ todo' \in {todo, proposals, <<>>}
    BY <1>9 DEF Next, RouterUnavailable, RouterGarbage, Proposed, Generated,
         Mismatch, RollBack, AutofixEnds, LLMVerified, LLMRetries, LLMGivesUp,
         StartLane
  <2> QED
    BY <1>3, <1>4, <2>2, <2>3
<1>10. CASE UNCHANGED vars
  BY <1>3, <1>10 DEF vars
<1> QED
  BY <1>6, <1>7, <1>8, <1>9, <1>10

(* In a file whose lines differ from each other and from all that is       *)
(* written, an instruction replaces exactly the lines it was bound to,     *)
(* however far replacements before it have moved them, or is refused.      *)
THEOREM ReplacesBoundLines == Spec => []ExactUnlessRepeated
<1>1. TypeOK /\ TellInv => ExactUnlessRepeated
  <2> SUFFICES ASSUME TypeOK, TellInv, TextsTell, NEW j \in DOMAIN done
               PROVE  done[j].found = done[j].meant
    BY DEF ExactUnlessRepeated
  <2>1. done \in Seq(AsMeant) /\ DOMAIN done = 1..Len(done)
    BY LenProperties DEF TellInv, TypeOK
  <2>2. done[j] \in AsMeant
    BY <2>1, ElementOfSeq
  <2> QED
    BY <2>2 DEF AsMeant
<1> QED
  BY <1>1, TypeInit, TypeNext, TellInit, TellNext, PTL DEF Spec
=============================================================================
