------------------------------ MODULE Patching ------------------------------
(***************************************************************************)
(* The line arithmetic of repairs, on one file of one pipeline run: the     *)
(* proposer binds the model's answers to the lines it reads                 *)
(* (planning/llm_proposer.py, llm/client.py), then the deterministic lane   *)
(* generates its instructions (repair/patch_generator.py) and applies them  *)
(* in order (repair/patch_applier.py), then the LLM lane applies the        *)
(* proposals.  A replacement may have more or fewer lines than the range it *)
(* replaces, and nothing renumbers the instructions that follow.            *)
(*                                                                         *)
(* A line carries its text, which is all the code compares, and the number  *)
(* it had when the run began, 0 if an instruction wrote it.                 *)
(***************************************************************************)
EXTENDS Naturals, Sequences, Functions

CONSTANTS Texts,     \* texts of lines
          Contents,  \* sequences of texts the file may hold
          Payloads   \* sequences of findings on that file

Blocks == Seq(Texts) \ {<<>>}

(* Where a finding is, and what is to stand there: an exact replacement,   *)
(* a suggested fix, or a range and replacement only the model will choose. *)
(* A replacement split at its newlines has at least one line.              *)
Finding == {f \in [kind: {"autofix", "suggested", "manual"},
                   start: Nat \ {0}, end: Nat \ {0}, replacement: Blocks] :
              f.start <= f.end}

ASSUME PatchingAssumption ==
    /\ Contents \subseteq Seq(Texts)
    /\ Payloads \subseteq Seq(Finding)

VARIABLES exists,    \* the file is there
          original,  \* the texts it held when the run began
          file,      \* its lines
          payload,   \* the findings, in the order of the payload
          pc,        \* what the pipeline does next
          queue,     \* findings still to make instructions of
          proposals, \* instructions made of the model's answers
          todo,      \* instructions the lane still has to apply
          done,      \* history: what was applied where, and what it replaced
          before,    \* file and done as the lane found them
          retried    \* the LLM lane is at its second attempt

given == <<exists, original, payload>>
vars == <<given, file, pc, queue, proposals, todo, done, before, retried>>

Line == [text: Texts, was: Nat]

Numbered(texts) == [k \in DOMAIN texts |-> [text |-> texts[k], was |-> k]]
Written(texts)  == [k \in DOMAIN texts |-> [text |-> texts[k], was |-> 0]]

(* The code's instruction, and which lines it was bound to (history).      *)
Instruction == {i \in [start: Nat \ {0}, end: Nat \ {0},
                       expected: Seq(Texts), replacement: Blocks,
                       meant: SUBSET Nat] : i.start <= i.end}

Init ==
    /\ exists \in BOOLEAN /\ payload \in Payloads
    /\ original \in Contents /\ (~exists => original = <<>>)
    /\ file = Numbered(original)
    /\ pc = "propose" /\ queue = payload
    /\ proposals = <<>> /\ todo = <<>> /\ done = <<>>
    /\ before = [file |-> file, done |-> <<>>] /\ retried = FALSE

-----------------------------------------------------------------------------
(* Making instructions                                                     *)

LinesAt(f) == {file[k].was : k \in f.start..f.end}

(* Bound to the texts at these line numbers now.                           *)
Bound(f) ==
    [start |-> f.start, end |-> f.end, replacement |-> f.replacement,
     expected |-> [k \in 1..(f.end - f.start + 1) |->
                     file[f.start + k - 1].text],
     meant |-> LinesAt(f)]

InFile(f) == exists /\ f.end <= Len(file)

(* A usable answer to a finding of its lane, in whatever range the model   *)
(* likes; or none: no result for it, an error, an abstention, no JSON,     *)
(* another shape, lines the file does not have.                            *)
ProposeNext ==
    /\ pc = "propose" /\ queue # <<>>
    /\ queue' = Tail(queue)
    /\ \/ UNCHANGED proposals
       \/ Head(queue).kind = "manual" /\ InFile(Head(queue))
          /\ proposals' = Append(proposals, Bound(Head(queue)))
    /\ UNCHANGED <<given, file, pc, todo, done, before, retried>>

(* An unreachable router makes every finding abstain; an answer that is a  *)
(* list but not of results raises, and nothing catches it.                 *)
RouterUnavailable ==
    /\ pc = "propose" /\ queue = payload
    /\ proposals' = <<>> /\ queue' = <<>>
    /\ UNCHANGED <<given, file, pc, todo, done, before, retried>>

RouterGarbage ==
    /\ pc = "propose" /\ queue = payload
    /\ \E n \in DOMAIN payload : payload[n].kind = "manual"
    /\ pc' = "over" /\ queue' = <<>>
    /\ UNCHANGED <<given, file, proposals, todo, done, before, retried>>

StartLane(lane, instructions) ==
    /\ pc' = lane /\ todo' = instructions
    /\ before' = [file |-> file', done |-> done']

Proposed ==
    /\ pc = "propose" /\ queue = <<>>
    /\ IF retried
         THEN /\ UNCHANGED <<queue, file, done>>
              /\ StartLane("llm", proposals)
         ELSE /\ pc' = "generate" /\ queue' = payload
              /\ UNCHANGED <<file, todo, done, before>>
    /\ UNCHANGED <<given, proposals, retried>>

(* generate_patch_instructions, for the findings of its lane: an exact     *)
(* replacement is skipped without its lines; a suggested fix for a missing *)
(* file gets a guard that cannot match, and one for a missing line is      *)
(* skipped.                                                                *)
InstructionFor(f) ==
    IF f.kind = "manual" THEN <<>>
    ELSE IF InFile(f) THEN <<Bound(f)>>
    ELSE IF f.kind = "suggested" /\ ~exists
      THEN <<[start |-> f.start, end |-> f.end, expected |-> <<>>,
              replacement |-> f.replacement, meant |-> {}]>>
    ELSE <<>>

GenerateNext ==
    /\ pc = "generate" /\ queue # <<>>
    /\ queue' = Tail(queue) /\ todo' = todo \o InstructionFor(Head(queue))
    /\ UNCHANGED <<given, file, pc, proposals, done, before, retried>>

Generated ==
    /\ pc = "generate" /\ queue = <<>>
    /\ UNCHANGED <<given, file, queue, proposals, done, retried>>
    /\ StartLane("autofix", todo)

-----------------------------------------------------------------------------
(* Applying them                                                           *)

Lanes == {"autofix", "llm"}

Mutant_FirstLineOnly(i) ==
    InFile(i) /\ file[i.start].text = i.expected[1]

Mutant_LastLineRefused(i) ==
    InFile(i) /\ i.end < Len(file) /\ Bound(i).expected = i.expected

Matches(i) == InFile(i) /\ Bound(i).expected = i.expected

Mutant_Splice(i) ==
    [k \in 1..(Len(file) + Len(i.replacement) - (i.end - i.start)) |->
       IF k <= i.start THEN file[k]
       ELSE IF k <= i.start + Len(i.replacement)
         THEN Written(i.replacement)[k - i.start]
       ELSE file[k + (i.end - i.start) - Len(i.replacement)]]

(* lines[line_start - 1 : line_end] = replacement.split("\n")              *)
Splice(i) ==
    [k \in 1..(Len(file) + Len(i.replacement) - (i.end - i.start + 1)) |->
       IF k < i.start THEN file[k]
       ELSE IF k < i.start + Len(i.replacement)
         THEN Written(i.replacement)[k - i.start + 1]
       ELSE file[k + (i.end - i.start + 1) - Len(i.replacement)]]

Apply ==
    /\ pc \in Lanes /\ todo # <<>> /\ Matches(Head(todo))
    /\ LET i == Head(todo)
       IN /\ file' = Splice(i)
          /\ done' = Append(done,
                       [start |-> i.start, end |-> i.end,
                        size |-> Len(i.replacement),
                        meant |-> i.meant, found |-> LinesAt(i)])
    /\ todo' = Tail(todo)
    /\ UNCHANGED <<given, pc, queue, proposals, before, retried>>

(* The guard raises; the lane's handler puts back what it found.           *)
Mismatch ==
    /\ pc \in Lanes /\ todo # <<>> /\ ~Matches(Head(todo))
    /\ pc' = "rollback"
    /\ UNCHANGED <<given, file, queue, proposals, todo, done, before, retried>>

Mutant_Restored == file' = file /\ done' = before.done

Restored == file' = before.file /\ done' = before.done

RollBack ==
    /\ pc = "rollback" /\ pc' = "over" /\ todo' = <<>>
    /\ Restored
    /\ UNCHANGED <<given, queue, proposals, before, retried>>

AutofixEnds ==
    /\ pc = "autofix" /\ todo = <<>>
    /\ UNCHANGED <<file, done>> \/ Restored     \* verified or not
    /\ StartLane("llm", proposals)
    /\ UNCHANGED <<given, queue, proposals, retried>>

LLMVerified ==
    /\ pc = "llm" /\ todo = <<>> /\ pc' = "over"
    /\ UNCHANGED <<given, file, queue, proposals, todo, done, before, retried>>

(* One retry: the model is asked again about the restored file.            *)
LLMRetries ==
    /\ pc = "llm" /\ todo = <<>> /\ proposals # <<>> /\ ~retried
    /\ Restored
    /\ pc' = "propose" /\ queue' = payload /\ proposals' = <<>> /\ retried' = TRUE
    /\ UNCHANGED <<given, todo, before>>

LLMGivesUp ==
    /\ pc = "llm" /\ todo = <<>> /\ retried
    /\ Restored
    /\ pc' = "over"
    /\ UNCHANGED <<given, queue, proposals, todo, before, retried>>

Next ==
    \/ ProposeNext \/ RouterUnavailable \/ RouterGarbage \/ Proposed
    \/ GenerateNext \/ Generated
    \/ Apply \/ Mismatch \/ RollBack
    \/ AutofixEnds \/ LLMVerified \/ LLMRetries \/ LLMGivesUp

Spec == Init /\ [][Next]_vars

-----------------------------------------------------------------------------
(* Properties.                                                             *)

Entry == {d \in [start: Nat \ {0}, end: Nat \ {0}, size: Nat \ {0},
                 meant: SUBSET Nat, found: SUBSET Nat] : d.start <= d.end}

(* Types; in particular whatever was applied was one line or more, and the *)
(* file never shrinks to a length that is not a number.                    *)
TypeOK ==
    /\ exists \in BOOLEAN /\ retried \in BOOLEAN /\ original \in Contents
    /\ file \in Seq(Line) /\ payload \in Payloads
    /\ pc \in {"propose", "generate", "rollback", "over"} \cup Lanes
    /\ queue \in Seq(Finding)
    /\ proposals \in Seq(Instruction) /\ todo \in Seq(Instruction)
    /\ done \in Seq(Entry)
    /\ before \in [file: Seq(Line), done: Seq(Entry)]

KeepsLength(d) == d.size = d.end - d.start + 1

(* Above the first line any kept instruction names, the file is as it was, *)
(* line by line, whatever was proposed, shifted, retried or rolled back.   *)
Above(F, D) ==
    \A k \in DOMAIN F :
        (\A j \in DOMAIN D : k < D[j].start) => F[k].was = k

AboveUntouched == Above(file, done)

(* "Binding the instruction to the bytes actually present means the        *)
(* applier aborts on drift" (llm_proposer.py): as long as nothing applied  *)
(* earlier changed the number of lines at or above it, an instruction      *)
(* replaces lines it names, or what another one wrote there.               *)
Exact(D) ==
    \A j \in DOMAIN D :
        (\A i \in 1..(j - 1) : KeepsLength(D[i]) \/ D[j].end < D[i].start)
        => D[j].found \subseteq {0} \cup D[j].start..D[j].end

ExactUnlessShifted == Exact(done)

(* The same comment for files whose lines all differ, from each other and  *)
(* from whatever is to be written: there the guard on the texts is enough, *)
(* and an instruction replaces exactly the lines it was bound to, however  *)
(* the file has moved in between.                                          *)
TextsTell ==
    /\ IsInjective(original)
    /\ \A n \in DOMAIN payload :
          Range(payload[n].replacement) \cap Range(original) = {}

ExactUnlessRepeated ==
    TextsTell => \A j \in DOMAIN done : done[j].found = done[j].meant

(* Whatever has shifted, an instruction takes nothing but the lines it     *)
(* replaces: every other line of the file is still there once, with its    *)
(* text and in its place among the others, and no replaced line is left.   *)
OthersKept(texts, F, D) ==
    LET kept == {F[k].was : k \in DOMAIN F}
        gone == UNION {D[j].found : j \in DOMAIN D}
    IN /\ kept \cap gone \subseteq {0}
       /\ (kept \cup gone) \ {0} = DOMAIN texts
       /\ \A k \in DOMAIN F : F[k].was # 0 => F[k].text = texts[F[k].was]
       /\ \A k, l \in DOMAIN F :
              k < l /\ F[k].was # 0 /\ F[l].was # 0 => F[k].was < F[l].was

TakesOnlyItsLines == OthersKept(original, file, done)

(* Something applied wrote into the range, or changed the number of lines  *)
(* above its end.                                                          *)
Conflicts(D, i) ==
    \E j \in DOMAIN D :
        /\ D[j].start <= i.end
        /\ ~KeepsLength(D[j]) \/ i.start <= D[j].end

(* The guard raises only for a reason: the file is missing, or what was    *)
(* applied earlier conflicts.  Findings apart from each other are never    *)
(* refused.                                                                *)
RaisesOnlyOnConflict ==
    pc = "rollback" /\ exists => Conflicts(done, Head(todo))

=============================================================================
