------------------------- MODULE ReviewIngestProofs -------------------------
(***************************************************************************)
(* What the workflow and its ingest step guarantee, for any reviews, any   *)
(* threads and any number of pushes.                                       *)
(***************************************************************************)
EXTENDS ReviewIngest, SequenceTheorems, TLAPS

USE ReviewIngestAssumption DEF ReviewIngestAssumption

Event == [login: Logins, state: {"commented", "changes_requested"},
          author: BOOLEAN, sha: Nat]
Fates == {"queued", "running", "replaced", "unarmed", "skipped", "failed",
          "ran"}
Steps == {"idle", "checkout", "detect", "read", "validate", "write",
          "written", "status", "run"}

(* Everything has its type, and parallel sequences their common length.    *)
TypeInv ==
    /\ head \in 1..(MaxPushes + 1)
    /\ threads \in Seq(Thread)
    /\ resolved \in Seq(BOOLEAN) /\ Len(resolved) = Len(threads)
    /\ since \in Seq(Nat) /\ Len(since) = Len(threads)
    /\ \A i \in 1..Len(threads) : since[i] <= head
    /\ events \in Seq(Event) /\ Len(events) <= MaxReviews
    /\ fate \in Seq(Fates) /\ Len(fate) = Len(events)
    /\ pc \in Steps
    /\ job \in 0..Len(events) /\ (pc # "idle" \/ bot # "none" => job > 0)
    /\ file \in {"absent", "committed", "torn", "whole"}
    /\ rc \in {-1, 0, 1, 3} /\ bot \in {"none", "whole", "committed"}

(* The concurrency group: only the last event waits, only the latest       *)
(* started one runs, and a fate is what the job found.                     *)
GroupInv ==
    \A n \in 1..Len(events) :
        /\ fate[n] = "queued" => n = Len(events)
        /\ fate[n] = "replaced" => n < Len(events)
        /\ fate[n] = "running" <=> (pc # "idle" /\ n = job)
        /\ n > job => fate[n] # "ran"
        /\ fate[n] = "ran" /\ n = job => bot = "whole"
        /\ fate[n] = "unarmed" => ~Armed(n)
        /\ fate[n] = "skipped" => ToolOf(n) \notin Enabled

(* A payload has been read for this job.                                   *)
Loaded == \/ pc \in {"validate", "write", "written", "run"}
          \/ pc = "status" /\ rc = 0
          \/ bot # "none"

(* The payload of the last review has all that its tool has still open.    *)
Covers ==
    job = Len(events) =>
        \A i \in 1..Len(threads) :
            /\ i <= PageSize /\ ~resolved[i] /\ ~threads[i].blank
            /\ Owns(ToolOf(job), threads[i])
            => i \in payload.autofix \cup payload.manual

(* How far the job is, and what it therefore has.                          *)
JobInv ==
    /\ pc # "idle" => bot = "none"
    /\ pc \in {"checkout", "detect", "read"} => payload = NoPayload
    /\ pc \notin {"idle", "checkout"} => workspace = events[job].sha
    /\ pc = "read" => ToolOf(job) \in Enabled
    /\ pc = "status" /\ rc = 3 => ToolOf(job) \notin Enabled
    /\ pc = "run" => file = "whole"
    /\ pc = "status" /\ rc = 0 => file = "whole"
    /\ bot # "none" => bot = "whole"
    /\ Loaded => /\ payload.tool = ToolOf(job) /\ ToolOf(job) \in Enabled
                 /\ Covers

Inv == TypeInv /\ GroupInv /\ JobInv /\ LinesFitUnlessPushed

-----------------------------------------------------------------------------
(* Sequences, tools and payloads.                                          *)

LEMMA MapSeq ==
    ASSUME NEW S, NEW n \in Nat, NEW f \in [1..n -> S]
    PROVE  f \in Seq(S) /\ Len(f) = n
<1>1. f \in Seq(S)
  BY SeqDef
<1>2. DOMAIN f = 1..n
  OBVIOUS
<1> QED
  BY <1>1, <1>2

(* An event's tool stays what it is as long as the event does.             *)
LEMMA SameTool ==
    ASSUME NEW n, events'[n] = events[n]
    PROVE  ToolOf(n)' = ToolOf(n) /\ Armed(n)' = Armed(n)
  BY DEF ToolOf, Armed

LEMMA ToolsOfPayload ==
    ASSUME NEW tool, NEW P \in SUBSET (1..Len(threads))
    PROVE  /\ BuildPayload(tool, P).tool = tool
           /\ BuildPayload(tool, P).head_sha = events[job].sha
           /\ BuildPayload(tool, P).read_at = head
           /\ BuildPayload(tool, P).autofix \subseteq P
           /\ \A i \in P : ~threads[i].blank =>
                 i \in BuildPayload(tool, P).autofix
                       \cup BuildPayload(tool, P).manual
           /\ \A i \in BuildPayload(tool, P).autofix :
                 BuildPayload(tool, P).lines[i] = since[i]
<1> DEFINE findings == ToPayloadFindings(tool, threads, P)
           payloadOf == BuildPayload(tool, P)
<1>1. findings = {Item(tool, i, threads[i]) : i \in {j \in P : ~threads[j].blank}}
  BY DEF ToPayloadFindings
<1>2. \A i : Item(tool, i, threads[i]).thread = i
  BY DEF Item
<1>3. \A f \in findings : f.thread \in P
  BY <1>1, <1>2
<1>4. \A i \in P : ~threads[i].blank => \E f \in findings : f.thread = i
  BY <1>1, <1>2
<1>5. /\ payloadOf.tool = tool /\ payloadOf.read_at = head
      /\ payloadOf.head_sha = events[job].sha
      /\ payloadOf.autofix = {f.thread : f \in {g \in findings : g.autofix}}
      /\ payloadOf.manual  = {f.thread : f \in {g \in findings : ~g.autofix}}
      /\ payloadOf.lines   = [i \in {f.thread : f \in findings} |-> since[i]]
  BY DEF BuildPayload
<1> HIDE DEF findings, payloadOf
<1>6. payloadOf.autofix \subseteq P
  BY <1>3, <1>5
<1>7. \A i \in P : ~threads[i].blank => i \in payloadOf.autofix \cup payloadOf.manual
  BY <1>4, <1>5
<1>8. \A i \in payloadOf.autofix : payloadOf.lines[i] = since[i]
  BY <1>5
<1> QED
  BY <1>5, <1>6, <1>7, <1>8 DEF payloadOf

-----------------------------------------------------------------------------
(* Every step keeps the invariant: first those of the pull request.        *)

LEMMA InitInv == Init => Inv
<1> SUFFICES ASSUME Init PROVE Inv
  OBVIOUS
<1>1. TypeInv
  BY DEF Init, TypeInv, Steps
<1>2. GroupInv /\ JobInv /\ LinesFitUnlessPushed
  BY DEF Init, GroupInv, JobInv, Loaded, LinesFitUnlessPushed, NoPayload
<1> QED
  BY <1>1, <1>2 DEF Inv

LEMMA SubmitInv ==
    ASSUME Inv, NEW r \in Reviews, Submit(r)
    PROVE  Inv'
<1> DEFINE event == [login |-> r.login, state |-> r.state,
                     author |-> r.author, sha |-> head]
           spared == [n \in DOMAIN events |->
                        IF n \in Queued THEN "replaced" ELSE fate[n]]
           open == [i \in DOMAIN r.threads |-> FALSE]
           fresh == [i \in DOMAIN r.threads |-> head]
           N == Len(events)
           M == Len(threads)
<1> USE DEF Inv
<1>1. /\ TypeInv /\ GroupInv /\ JobInv
      /\ threads' = threads \o r.threads /\ resolved' = resolved \o open
      /\ since' = since \o fresh
      /\ events' = Append(events, event) /\ fate' = Append(spared, "queued")
      /\ UNCHANGED <<head, pc, job, workspace, file, payload, rc, bot>>
      /\ N < MaxReviews
  BY DEF Submit, runner
<1>2. /\ head \in Nat /\ M \in Nat /\ N \in Nat /\ job \in 0..N
      /\ r.threads \in Seq(Thread) /\ Len(r.threads) \in Nat
      /\ DOMAIN r.threads = 1..Len(r.threads) /\ DOMAIN events = 1..N
  BY <1>1, LenProperties DEF TypeInv
<1>3. event \in Event
  BY <1>2 DEF Event
<1>4. /\ open \in Seq(BOOLEAN) /\ Len(open) = Len(r.threads)
      /\ fresh \in Seq(Nat) /\ Len(fresh) = Len(r.threads)
  <2>1. open \in [1..Len(r.threads) -> BOOLEAN]
    BY <1>2
  <2>2. fresh \in [1..Len(r.threads) -> Nat]
    BY <1>2
  <2> QED
    BY <1>2, <2>1, <2>2, MapSeq
<1>5. /\ spared \in Seq(Fates) /\ Len(spared) = N
      /\ \A n \in 1..N : spared[n] = IF n \in Queued THEN "replaced" ELSE fate[n]
  <2>1. \A n \in 1..N : fate[n] \in Fates
    BY <1>1, <1>2, ElementOfSeq DEF TypeInv
  <2>2. spared \in [1..N -> Fates]
    BY <1>2, <2>1 DEF Fates
  <2> QED
    BY <1>2, <2>2, MapSeq
<1>6. /\ events' \in Seq(Event) /\ Len(events') = N + 1
      /\ \A n \in 1..N : events'[n] = events[n]
  <2>1. events \in Seq(Event)
    BY <1>1 DEF TypeInv
  <2> QED
    BY <1>1, <1>3, <2>1, AppendProperties
<1>7. /\ fate' \in Seq(Fates) /\ Len(fate') = N + 1
      /\ \A n \in 1..N : fate'[n] = IF n \in Queued THEN "replaced" ELSE fate[n]
      /\ fate'[N + 1] = "queued"
  <2>1. "queued" \in Fates
    BY DEF Fates
  <2> HIDE DEF spared
  <2> QED
    BY <1>1, <1>5, <2>1, AppendProperties
<1> HIDE DEF event, spared, open, fresh
<1>8. threads' \in Seq(Thread) /\ Len(threads') = M + Len(r.threads)
  <2>1. threads \in Seq(Thread)
    BY <1>1 DEF TypeInv
  <2> QED
    BY <1>1, <1>2, <2>1, ConcatProperties
<1>9. resolved' \in Seq(BOOLEAN) /\ Len(resolved') = M + Len(r.threads)
  <2>1. resolved \in Seq(BOOLEAN) /\ Len(resolved) = M
    BY <1>1 DEF TypeInv
  <2>2. /\ resolved \o open \in Seq(BOOLEAN)
        /\ Len(resolved \o open) = Len(resolved) + Len(open)
    <3>1. ASSUME NEW S, S = BOOLEAN
          PROVE  /\ resolved \o open \in Seq(S)
                 /\ Len(resolved \o open) = Len(resolved) + Len(open)
      <4>1. resolved \in Seq(S) /\ open \in Seq(S)
        BY <1>4, <2>1, <3>1
      <4> QED
        BY <4>1, ConcatProperties
    <3> QED
      BY <3>1
  <2>3. resolved' = resolved \o open
    BY <1>1
  <2> HIDE DEF M
  <2> QED
    BY <1>4, <2>1, <2>2, <2>3, Zenon
<1>10. /\ since' \in Seq(Nat) /\ Len(since') = M + Len(r.threads)
       /\ \A i \in 1..Len(since') : since'[i] <= head
  <2>1. /\ since' \in Seq(Nat) /\ Len(since') = M + Len(r.threads)
        /\ \A i \in 1..(M + Len(r.threads)) :
              since'[i] = IF i <= M THEN since[i] ELSE fresh[i - M]
    <3>1. since \in Seq(Nat) /\ Len(since) = M
      BY <1>1 DEF TypeInv
    <3>2. /\ since \o fresh \in Seq(Nat)
          /\ Len(since \o fresh) = Len(since) + Len(fresh)
          /\ \A i \in 1..(Len(since) + Len(fresh)) :
                (since \o fresh)[i] = IF i <= Len(since) THEN since[i]
                                      ELSE fresh[i - Len(since)]
      <4>1. ASSUME NEW S, S = Nat
            PROVE  /\ since \o fresh \in Seq(S)
                   /\ Len(since \o fresh) = Len(since) + Len(fresh)
                   /\ \A i \in 1..(Len(since) + Len(fresh)) :
                         (since \o fresh)[i] =
                            IF i <= Len(since) THEN since[i]
                                               ELSE fresh[i - Len(since)]
        <5>1. since \in Seq(S) /\ fresh \in Seq(S)
          BY <1>4, <3>1, <4>1
        <5> QED
          BY <5>1, ConcatProperties
      <4> QED
        BY <4>1
    <3>3. since' = since \o fresh
      BY <1>1
    <3> QED
      BY <1>4, <3>1, <3>2, <3>3
  <2>2. \A i \in 1..Len(r.threads) : fresh[i] = head
    BY <1>2 DEF fresh
  <2>3. \A i \in 1..M : since[i] <= head
    BY <1>1 DEF TypeInv
  <2> HIDE DEF M
  <2>4. ASSUME NEW i \in 1..Len(since') PROVE since'[i] <= head
    <3>1. CASE i <= M
      <4>1. i \in 1..M /\ i \in 1..(M + Len(r.threads))
        BY <1>2, <2>1, <3>1
      <4>2. since'[i] = since[i]
        BY <2>1, <3>1, <4>1
      <4> QED
        BY <2>3, <4>1, <4>2
    <3>2. CASE ~(i <= M)
      <4>1. i - M \in 1..Len(r.threads)
        BY <1>2, <2>1, <3>2
      <4>2. since'[i] = head
        BY <2>1, <2>2, <3>2, <4>1
      <4> QED
        BY <1>2, <4>2
    <3> QED
      BY <3>1, <3>2
  <2> QED
    BY <2>1, <2>4
<1>11. TypeInv'
  BY <1>1, <1>2, <1>6, <1>7, <1>8, <1>9, <1>10 DEF TypeInv
<1>12. \A n \in 1..N : ToolOf(n)' = ToolOf(n) /\ Armed(n)' = Armed(n)
  BY <1>6, SameTool
<1>13. GroupInv'
  <2>1. ASSUME NEW n \in 1..N PROVE n # N + 1 /\ n < N + 1
    BY <1>2
  <2>2. \A n \in 1..N : n \in Queued <=> fate[n] = "queued"
    BY <1>2 DEF Queued
  <2>3. ASSUME NEW n \in 1..N
        PROVE  /\ fate'[n] = "queued" => n = Len(events')
               /\ fate'[n] = "replaced" => n < Len(events')
               /\ fate'[n] = "running" <=> (pc' # "idle" /\ n = job')
               /\ n > job' => fate'[n] # "ran"
               /\ fate'[n] = "ran" /\ n = job' => bot' = "whole"
               /\ fate'[n] = "unarmed" => ~Armed(n)'
               /\ fate'[n] = "skipped" => ToolOf(n)' \notin Enabled
    BY <1>1, <1>6, <1>7, <1>12, <2>1, <2>2 DEF GroupInv
  <2>4. N + 1 > job /\ N + 1 # job /\ N + 1 \notin 1..N
    BY <1>2
  <2>5. 1..Len(events') = 1..N \cup {N + 1}
    BY <1>2, <1>6
  <2> QED
    BY <1>1, <1>6, <1>7, <2>3, <2>4, <2>5 DEF GroupInv
<1>14. JobInv'
  <2>1. job # Len(events')
    BY <1>2, <1>6
  <2>2. Covers'
    BY <1>1, <2>1 DEF Covers
  <2>3. pc # "idle" \/ bot # "none" => job \in 1..N
    BY <1>1, <1>2 DEF TypeInv
  <2> QED
    BY <1>1, <1>6, <1>12, <2>2, <2>3 DEF JobInv, Loaded
<1>15. LinesFitUnlessPushed'
  BY <1>1 DEF LinesFitUnlessPushed
<1> QED
  BY <1>11, <1>13, <1>14, <1>15

(* A thread that a push outdates stays a thread, and keeps its authors.    *)
LEMMA LoseAnchor ==
    ASSUME NEW t \in Thread
    PROVE  /\ [t EXCEPT !.anchored = FALSE] \in Thread
           /\ [t EXCEPT !.anchored = FALSE].opener = t.opener
           /\ [t EXCEPT !.anchored = FALSE].others = t.others
           /\ [t EXCEPT !.anchored = FALSE].blank = t.blank
BY DEF Thread

(* As long as events and runner stay, so do the group and the job.         *)
LEMMA SameJob ==
    ASSUME GroupInv, JobInv,
           UNCHANGED <<events, fate, pc, job, workspace, file, payload, rc, bot>>,
           Covers => Covers'
    PROVE  GroupInv' /\ JobInv'
<1>1. \A n : ToolOf(n)' = ToolOf(n) /\ Armed(n)' = Armed(n)
  BY SameTool
<1>2. GroupInv'
  BY <1>1 DEF GroupInv
<1> QED
  BY <1>1, <1>2 DEF JobInv, Loaded

LEMMA PushInv ==
    ASSUME Inv, NEW moved \in SUBSET Positions, NEW outdated \in SUBSET moved,
           Push(moved, outdated)
    PROVE  Inv'
<1> DEFINE M == Len(threads)
<1> USE DEF Inv
<1>1. /\ TypeInv /\ GroupInv /\ JobInv /\ LinesFitUnlessPushed
      /\ head <= MaxPushes /\ head' = head + 1
      /\ UNCHANGED <<resolved, events, fate, pc, job, workspace, file,
                     payload, rc, bot>>
  BY DEF Push, runner
<1>2. /\ M \in Nat /\ Positions = 1..M /\ head \in Nat
      /\ threads \in [1..M -> Thread] /\ since \in [1..M -> Nat]
  BY <1>1, LenProperties DEF TypeInv, Positions
<1>3. /\ since' \in [1..M -> Nat]
      /\ \A i \in 1..M : since'[i] = IF i \in moved THEN head + 1 ELSE since[i]
  BY <1>1, <1>2 DEF Push
<1>4. /\ threads' \in [1..M -> Thread]
      /\ \A i \in 1..M : /\ threads'[i].opener = threads[i].opener
                         /\ threads'[i].others = threads[i].others
                         /\ threads'[i].blank = threads[i].blank
  <2>1. \A i \in 1..M : threads'[i] = IF i \in outdated
                                     THEN [threads[i] EXCEPT !.anchored = FALSE]
                                     ELSE threads[i]
    BY <1>2 DEF Push
  <2>2. \A i \in 1..M : threads[i] \in Thread
    BY <1>2
  <2>3. ASSUME NEW i \in 1..M
        PROVE  /\ threads'[i] \in Thread
               /\ threads'[i].opener = threads[i].opener
               /\ threads'[i].others = threads[i].others
               /\ threads'[i].blank = threads[i].blank
    <3>1. threads[i] \in Thread
      BY <2>2
    <3>2. CASE i \in outdated
      <4>1. threads'[i] = [threads[i] EXCEPT !.anchored = FALSE]
        BY <2>1, <3>2
      <4> QED
        BY <3>1, <4>1, LoseAnchor
    <3>3. CASE i \notin outdated
      <4>1. threads'[i] = threads[i]
        BY <2>1, <3>3
      <4> QED
        BY <3>1, <4>1
    <3> QED
      BY <3>2, <3>3
  <2>4. threads' = [i \in 1..M |-> threads'[i]]
    BY <1>2 DEF Push
  <2> QED
    BY <2>3, <2>4
<1>5. /\ threads' \in Seq(Thread) /\ Len(threads') = M
      /\ since' \in Seq(Nat) /\ Len(since') = M
  BY <1>2, <1>3, <1>4, MapSeq
<1>6. \A i \in 1..M : since'[i] <= head'
  BY <1>1, <1>2, <1>3 DEF TypeInv
<1>7. TypeInv'
  BY <1>1, <1>5, <1>6 DEF TypeInv
<1>8. Covers => Covers'
  <2>1. \A tool : \A i \in 1..M : Owns(tool, threads[i])' = Owns(tool, threads[i])
    BY <1>4 DEF Owns, Authors
  <2>2. ToolOf(job)' = ToolOf(job)
    BY <1>1, SameTool
  <2> QED
    BY <1>1, <1>4, <1>5, <2>1, <2>2 DEF Covers, Owns, Authors
<1>9. GroupInv' /\ JobInv'
  BY <1>1, <1>8, SameJob
<1>10. LinesFitUnlessPushed'
  BY <1>1 DEF LinesFitUnlessPushed
<1> QED
  BY <1>7, <1>9, <1>10

LEMMA PersonResolvesInv ==
    ASSUME Inv, NEW i \in Positions, PersonResolves(i)
    PROVE  Inv'
<1> USE DEF Inv
<1>1. /\ TypeInv /\ GroupInv /\ JobInv /\ LinesFitUnlessPushed
      /\ resolved' = [resolved EXCEPT ![i] = TRUE]
      /\ UNCHANGED <<head, threads, since, events, fate, pc, job, workspace,
                     file, payload, rc, bot>>
  BY DEF PersonResolves, runner
<1>2. i \in 1..Len(resolved) /\ Positions = 1..Len(threads)
  BY <1>1, LenProperties DEF TypeInv, Positions
<1>3. /\ resolved' \in Seq(BOOLEAN) /\ Len(resolved') = Len(resolved)
      /\ \A j \in 1..Len(threads) : ~resolved'[j] => ~resolved[j]
  BY <1>1, <1>2 DEF TypeInv
<1>4. TypeInv'
  BY <1>1, <1>3 DEF TypeInv
<1>5. Covers => Covers'
  <2>1. ToolOf(job)' = ToolOf(job)
    BY <1>1, SameTool
  <2> QED
    BY <1>1, <1>3, <2>1 DEF Covers
<1>6. GroupInv' /\ JobInv'
  BY <1>1, <1>5, SameJob
<1>7. LinesFitUnlessPushed'
  BY <1>1 DEF LinesFitUnlessPushed
<1> QED
  BY <1>4, <1>6, <1>7

-----------------------------------------------------------------------------
(* The steps of the job.                                                   *)

LEMMA FailInv ==
    ASSUME Inv, NEW f \in {"skipped", "failed"}, pc # "idle", Fail(f),
           f = "skipped" => ToolOf(job) \notin Enabled
    PROVE  Inv'
<1> USE DEF Inv
<1>1. /\ TypeInv /\ GroupInv /\ JobInv
      /\ pc' = "idle" /\ fate' = [fate EXCEPT ![job] = f]
      /\ file' = "absent" /\ rc' = -1 /\ payload' = NoPayload
      /\ UNCHANGED <<head, threads, resolved, since, events, job, bot>>
  BY DEF Fail, End, Discard, github
<1>2. job \in 1..Len(fate) /\ 1..Len(fate) = 1..Len(events) /\ bot = "none"
  BY <1>1 DEF TypeInv, JobInv
<1>3. /\ fate' \in Seq(Fates) /\ Len(fate') = Len(fate)
      /\ \A n \in 1..Len(fate) : fate'[n] = IF n = job THEN f ELSE fate[n]
  BY <1>1, <1>2 DEF TypeInv, Fates
<1>4. TypeInv'
  BY <1>1, <1>2, <1>3 DEF TypeInv, Steps
<1>5. \A n : ToolOf(n)' = ToolOf(n) /\ Armed(n)' = Armed(n)
  BY <1>1, SameTool
<1>6. GroupInv'
  BY <1>1, <1>2, <1>3, <1>5 DEF GroupInv
<1>7. JobInv'
  BY <1>1, <1>2 DEF JobInv, Loaded
<1>8. LinesFitUnlessPushed'
  BY <1>1 DEF LinesFitUnlessPushed, NoPayload
<1> QED
  BY <1>4, <1>6, <1>7, <1>8

LEMMA UnarmedInv ==
    ASSUME Inv, NEW n \in Queued, Unarmed(n)
    PROVE  Inv'
<1> USE DEF Inv
<1>1. /\ TypeInv /\ GroupInv /\ JobInv /\ LinesFitUnlessPushed
      /\ pc = "idle" /\ fate[n] = "queued" /\ ~Armed(n)
      /\ fate' = [fate EXCEPT ![n] = "unarmed"]
      /\ UNCHANGED <<head, threads, resolved, since, events, pc, job,
                     workspace, file, payload, rc, bot>>
  BY DEF Unarmed, github, runner
<1>2. n \in 1..Len(fate) /\ 1..Len(fate) = 1..Len(events)
  BY <1>1 DEF TypeInv, Queued
<1>3. /\ fate' \in Seq(Fates) /\ Len(fate') = Len(fate)
      /\ \A m \in 1..Len(fate) :
            fate'[m] = IF m = n THEN "unarmed" ELSE fate[m]
  BY <1>1, <1>2 DEF TypeInv, Fates
<1>4. TypeInv'
  BY <1>1, <1>3 DEF TypeInv
<1>5. \A m : ToolOf(m)' = ToolOf(m) /\ Armed(m)' = Armed(m)
  BY <1>1, SameTool
<1>6. GroupInv'
  BY <1>1, <1>2, <1>3, <1>5 DEF GroupInv
<1>7. JobInv'
  <2>1. Covers' <=> Covers
    BY <1>1, <1>5 DEF Covers
  <2> QED
    BY <1>1, <1>5, <2>1 DEF JobInv, Loaded
<1>8. LinesFitUnlessPushed'
  BY <1>1 DEF LinesFitUnlessPushed
<1> QED
  BY <1>4, <1>6, <1>7, <1>8

LEMMA StartInv ==
    ASSUME Inv, NEW n \in Queued, Start(n)
    PROVE  Inv'
<1> USE DEF Inv
<1>1. /\ TypeInv /\ GroupInv /\ JobInv
      /\ pc = "idle" /\ fate[n] = "queued"
      /\ fate' = [fate EXCEPT ![n] = "running"] /\ job' = n /\ pc' = "checkout"
      /\ file' = "absent" /\ rc' = -1 /\ payload' = NoPayload /\ bot' = "none"
      /\ UNCHANGED <<head, threads, resolved, since, events>>
  BY DEF Start, Discard, github
<1>2. /\ n \in 1..Len(fate) /\ 1..Len(fate) = 1..Len(events)
      /\ Len(events) \in Nat
  BY <1>1 DEF TypeInv, Queued
<1>3. /\ fate' \in Seq(Fates) /\ Len(fate') = Len(fate)
      /\ \A m \in 1..Len(fate) :
            fate'[m] = IF m = n THEN "running" ELSE fate[m]
  BY <1>1, <1>2 DEF TypeInv, Fates
<1>4. TypeInv'
  BY <1>1, <1>2, <1>3 DEF TypeInv, Steps
<1>5. \A m : ToolOf(m)' = ToolOf(m) /\ Armed(m)' = Armed(m)
  BY <1>1, SameTool
<1>6. n = Len(events)
  BY <1>1, <1>2 DEF GroupInv
<1>7. GroupInv'
  BY <1>1, <1>2, <1>3, <1>5, <1>6 DEF GroupInv
<1>8. JobInv'
  BY <1>1 DEF JobInv, Loaded
<1>9. LinesFitUnlessPushed'
  BY <1>1 DEF LinesFitUnlessPushed, NoPayload
<1> QED
  BY <1>4, <1>7, <1>8, <1>9

(* A step within a job leaves the pull request and the fates alone.        *)
LEMMA WithinJob ==
    ASSUME TypeInv, GroupInv, UNCHANGED <<github, fate, job, bot>>,
           pc # "idle", pc' \in Steps \ {"idle"},
           file' \in {"absent", "committed", "torn", "whole"},
           rc' \in {-1, 0, 1, 3}
    PROVE  /\ TypeInv' /\ GroupInv'
           /\ ToolOf(job)' = ToolOf(job)
           /\ payload' = payload => (Covers' <=> Covers)
<1>1. UNCHANGED <<head, threads, resolved, since, events, fate, job, bot>>
  BY DEF github
<1>2. \A n : ToolOf(n)' = ToolOf(n) /\ Armed(n)' = Armed(n)
  BY <1>1, SameTool
<1>3. TypeInv'
  BY <1>1 DEF TypeInv
<1>4. GroupInv'
  BY <1>1, <1>2 DEF GroupInv
<1>5. payload' = payload => (Covers' <=> Covers)
  BY <1>1, <1>2 DEF Covers
<1>6. ToolOf(job)' = ToolOf(job)
  BY <1>1, SameTool
<1> QED
  BY <1>3, <1>4, <1>5, <1>6

LEMMA ReadThreadsInv ==
    ASSUME Inv, ReadThreads
    PROVE  Inv'
<1> DEFINE P == ReadFindings(ToolOf(job), threads, resolved)
           read == BuildPayload(ToolOf(job), P)
<1> USE DEF Inv
<1>1. /\ TypeInv /\ GroupInv /\ JobInv
      /\ pc = "read" /\ pc' = "validate" /\ payload' = read
      /\ UNCHANGED <<github, fate, job, workspace, file, rc, bot>>
  BY DEF ReadThreads
<1>2. /\ UNCHANGED <<head, threads, resolved, since, events>>
      /\ job \in 1..Len(events) /\ bot = "none"
      /\ workspace = events[job].sha /\ ToolOf(job) \in Enabled
  BY <1>1 DEF github, TypeInv, JobInv
<1>3. DOMAIN threads = 1..Len(threads)
  BY <1>1, LenProperties DEF TypeInv
<1>4. /\ P \subseteq 1..Len(threads)
      /\ \A i \in 1..Len(threads) :
            i <= PageSize /\ ~resolved[i] /\ Owns(ToolOf(job), threads[i]) => i \in P
  BY <1>3 DEF ReadFindings
<1> HIDE DEF P
<1>5. /\ read.tool = ToolOf(job) /\ read.head_sha = events[job].sha
      /\ read.read_at = head /\ read.autofix \subseteq P
      /\ \A i \in P : ~threads[i].blank => i \in read.autofix \cup read.manual
      /\ \A i \in read.autofix : read.lines[i] = since[i]
  BY <1>4, ToolsOfPayload
<1> HIDE DEF read
<1>6. TypeInv' /\ GroupInv' /\ ToolOf(job)' = ToolOf(job)
  BY <1>1, WithinJob DEF TypeInv, Steps
<1>7. Covers'
  BY <1>1, <1>2, <1>4, <1>5, <1>6 DEF Covers
<1>8. JobInv'
  BY <1>1, <1>2, <1>5, <1>6, <1>7 DEF JobInv
<1>9. LinesFitUnlessPushed'
  BY <1>1, <1>2, <1>4, <1>5 DEF LinesFitUnlessPushed, TypeInv
<1> QED
  BY <1>6, <1>8, <1>9

LEMMA RunBotInv ==
    ASSUME Inv, RunBot
    PROVE  Inv'
<1> USE DEF Inv
<1>1. /\ TypeInv /\ GroupInv /\ JobInv /\ LinesFitUnlessPushed
      /\ pc = "run" /\ pc' = "idle" /\ fate' = [fate EXCEPT ![job] = "ran"]
      /\ bot' = file /\ file' = "absent" /\ rc' = -1
      /\ UNCHANGED <<head, threads, resolved, since, events, job, workspace,
                     payload>>
  BY DEF RunBot, End, github
<1>2. /\ job \in 1..Len(fate) /\ 1..Len(fate) = 1..Len(events)
      /\ bot' = "whole" /\ Loaded
  BY <1>1 DEF TypeInv, JobInv, Loaded
<1>3. /\ fate' \in Seq(Fates) /\ Len(fate') = Len(fate)
      /\ \A n \in 1..Len(fate) : fate'[n] = IF n = job THEN "ran" ELSE fate[n]
  BY <1>1, <1>2 DEF TypeInv, Fates
<1>4. TypeInv'
  BY <1>1, <1>2, <1>3 DEF TypeInv, Steps
<1>5. \A n : ToolOf(n)' = ToolOf(n) /\ Armed(n)' = Armed(n)
  BY <1>1, SameTool
<1>6. ToolOf(job)' = ToolOf(job)
  BY <1>1, SameTool
<1>7. GroupInv'
  <2>1. \A n \in 1..Len(events) : n > job => n # job
    BY <1>2
  <2> QED
    BY <1>1, <1>2, <1>3, <1>5, <2>1 DEF GroupInv
<1>8. JobInv'
  <2>1. Covers'
    BY <1>1, <1>2, <1>6 DEF Covers, JobInv
  <2> QED
    BY <1>1, <1>2, <1>6, <2>1 DEF JobInv, Loaded
<1>9. LinesFitUnlessPushed'
  BY <1>1 DEF LinesFitUnlessPushed
<1> QED
  BY <1>4, <1>7, <1>8, <1>9

LEMMA CheckoutInv ==
    ASSUME Inv, Checkout
    PROVE  Inv'
<1> USE DEF Inv
<1>1. /\ TypeInv /\ GroupInv /\ JobInv
      /\ pc = "checkout" /\ pc' = "detect" /\ workspace' = events[job].sha
      /\ file' \in {"absent", "committed"} /\ payload = NoPayload
      /\ UNCHANGED <<github, fate, job, payload, rc, bot>>
  BY DEF Checkout, JobInv
<1>2. TypeInv' /\ GroupInv'
  BY <1>1, WithinJob DEF TypeInv, Steps
<1>3. JobInv'
  BY <1>1 DEF JobInv, Loaded, github
<1>4. LinesFitUnlessPushed'
  BY <1>1 DEF LinesFitUnlessPushed, NoPayload
<1> QED
  BY <1>2, <1>3, <1>4

(* The steps that leave the checkout and the payload as they are.          *)
LEMMA HandOnInv ==
    ASSUME Inv,
           \/ Detect \/ Skip \/ ReadRaises \/ Validate \/ Invalid
           \/ Truncate \/ WriteRaises \/ Write \/ Proceed
    PROVE  Inv'
<1> USE DEF Inv
<1>1. /\ TypeInv /\ GroupInv /\ JobInv /\ LinesFitUnlessPushed
      /\ UNCHANGED <<github, fate, job, workspace, payload, bot>>
      /\ pc # "idle" /\ pc' \in Steps \ {"idle"}
      /\ file' \in {"absent", "committed", "torn", "whole"}
      /\ rc' \in {-1, 0, 1, 3}
  BY DEF Detect, Skip, ReadRaises, Validate, Invalid, Truncate, WriteRaises,
         Write, Proceed, Produced, Exit, runner, Steps, TypeInv
<1>2. /\ TypeInv' /\ GroupInv' /\ ToolOf(job)' = ToolOf(job)
      /\ Covers' <=> Covers
  BY <1>1, WithinJob
<1>3. UNCHANGED <<events, job>> /\ bot = "none"
  BY <1>1 DEF github, JobInv
<1>4. JobInv'
  <2> USE DEF JobInv, Loaded
  <2>1. CASE Detect
    BY <1>1, <1>2, <1>3, <2>1 DEF Detect, HasAdapter, runner
  <2>2. CASE Skip
    BY <1>1, <1>2, <1>3, <2>2 DEF Skip, Exit, HasAdapter
  <2>3. CASE ReadRaises \/ Invalid \/ WriteRaises
    BY <1>1, <1>2, <1>3, <2>3 DEF ReadRaises, Invalid, WriteRaises, Exit
  <2>4. CASE Validate \/ Truncate
    BY <1>1, <1>2, <1>3, <2>4 DEF Validate, Truncate, runner
  <2>5. CASE Write
    BY <1>1, <1>2, <1>3, <2>5 DEF Write, Exit
  <2>6. CASE Proceed
    BY <1>1, <1>2, <1>3, <2>6 DEF Proceed, Produced, runner
  <2> QED
    BY <2>1, <2>2, <2>3, <2>4, <2>5, <2>6
<1>5. LinesFitUnlessPushed'
  BY <1>1 DEF LinesFitUnlessPushed
<1> QED
  BY <1>2, <1>4, <1>5

LEMMA StutterInv ==
    ASSUME Inv, UNCHANGED vars
    PROVE  Inv'
<1> USE DEF Inv
<1>1. UNCHANGED <<head, threads, resolved, since, events, fate, pc, job,
                  workspace, file, payload, rc, bot>>
  BY DEF vars
<1>2. Covers => Covers'
  BY <1>1, SameTool DEF Covers
<1>3. GroupInv' /\ JobInv'
  BY <1>1, <1>2, SameJob
<1> QED
  BY <1>1, <1>3 DEF TypeInv, LinesFitUnlessPushed

LEMMA InvHolds == Spec => []Inv
<1>1. ASSUME Inv, [Next]_vars PROVE Inv'
  <2> USE <1>1
  <2>1. CASE UNCHANGED vars
    BY <2>1, StutterInv
  <2>2. ASSUME NEW r \in Reviews, Submit(r) PROVE Inv'
    BY <2>2, SubmitInv
  <2>3. ASSUME NEW moved \in SUBSET Positions, NEW outdated \in SUBSET moved,
               Push(moved, outdated)
        PROVE  Inv'
    BY <2>3, PushInv
  <2>4. ASSUME NEW i \in Positions, PersonResolves(i) PROVE Inv'
    BY <2>4, PersonResolvesInv
  <2>5. ASSUME NEW n \in Queued, Start(n) \/ Unarmed(n) PROVE Inv'
    BY <2>5, StartInv, UnarmedInv
  <2>6. CASE Checkout
    BY <2>6, CheckoutInv
  <2>7. CASE Ingest \/ Proceed
    BY <2>7, HandOnInv, ReadThreadsInv DEF Ingest
  <2>8. CASE Stop \/ RunFails \/ Die
    <3>1. PICK f \in {"skipped", "failed"} :
            Fail(f) /\ (f = "skipped" => pc = "status" /\ rc = 3)
      BY <2>8 DEF Stop, RunFails, Die
    <3>2. pc # "idle"
      BY <2>8 DEF Stop, RunFails, Die
    <3>3. f = "skipped" => ToolOf(job) \notin Enabled
      BY <3>1 DEF Inv, JobInv
    <3> QED
      BY <3>1, <3>2, <3>3, FailInv
  <2>9. CASE RunBot
    BY <2>9, RunBotInv
  <2> QED
    BY <2>1, <2>2, <2>3, <2>4, <2>5, <2>6, <2>7, <2>8, <2>9 DEF Next
<1> QED
  BY <1>1, InitInv, PTL DEF Spec

-----------------------------------------------------------------------------
(* What follows of it.                                                     *)

(* Types, and at most one job runs, the latest that was started.           *)
THEOREM TypeCorrect == Spec => []TypeOK
<1>1. Inv => TypeOK
  <2> SUFFICES ASSUME Inv PROVE TypeOK
    OBVIOUS
  <2>1. /\ DOMAIN threads = 1..Len(threads) /\ DOMAIN resolved = 1..Len(threads)
        /\ DOMAIN since = 1..Len(threads) /\ DOMAIN events = 1..Len(events)
        /\ DOMAIN fate = 1..Len(events)
    BY LenProperties DEF Inv, TypeInv
  <2> QED
    BY <2>1 DEF Inv, TypeInv, GroupInv, TypeOK, Positions, Steps
<1> QED
  BY <1>1, InvHolds, PTL

(* The bot reads a payload only if this job's ingest step has written it   *)
(* whole, for an enabled tool.                                             *)
THEOREM BotRunsOnOwnPayload == Spec => []BotReadsOwnPayload
<1>1. Inv => BotReadsOwnPayload
  BY DEF Inv, JobInv, Loaded, BotReadsOwnPayload
<1> QED
  BY <1>1, InvHolds, PTL

(* A review of an enabled tool never ends as a clean skip, whatever GitHub *)
(* answers and wherever the job dies.                                      *)
THEOREM NoToolIsSkipped == Spec => []SkipsOnlyAbsentSources
<1>1. Inv => SkipsOnlyAbsentSources
  BY LenProperties DEF Inv, TypeInv, GroupInv, SkipsOnlyAbsentSources
<1> QED
  BY <1>1, InvHolds, PTL

(* However reviews replace each other, the bot gets what the tool that     *)
(* reviewed last has still open, or its job has failed.                    *)
THEOREM LastReviewReachesBot == Spec => []LastReviewIsRead
<1>1. Inv => LastReviewIsRead
  <2> SUFFICES ASSUME Inv, pc = "idle", Queued = {}, Len(events) > 0,
                      Armed(Len(events)), ToolOf(Len(events)) \in Enabled,
                      fate[Len(events)] # "failed"
               PROVE  /\ job = Len(events) /\ bot = "whole"
                      /\ \A i \in Positions :
                            /\ i <= PageSize /\ ~resolved[i] /\ ~threads[i].blank
                            /\ Owns(ToolOf(Len(events)), threads[i])
                            => i \in payload.autofix \cup payload.manual
    BY DEF LastReviewIsRead
  <2> DEFINE n == Len(events)
  <2>1. /\ TypeInv /\ GroupInv /\ JobInv
        /\ Positions = 1..Len(threads) /\ DOMAIN events = 1..n
        /\ n \in 1..n /\ job \in 0..n /\ n \in Nat
    BY LenProperties DEF Inv, TypeInv, Positions
  <2>2. fate[n] \in Fates
    BY <2>1, ElementOfSeq DEF TypeInv
  <2>3. fate[n] # "queued"
    BY <2>1 DEF Queued
  <2>4. /\ fate[n] = "replaced" => n < n
        /\ fate[n] # "running"
        /\ n > job => fate[n] # "ran"
        /\ fate[n] = "ran" /\ n = job => bot = "whole"
        /\ fate[n] # "unarmed" /\ fate[n] # "skipped"
    BY <2>1 DEF GroupInv
  <2> HIDE DEF n
  <2>5. fate[n] = "ran"
    <3>1. fate[n] # "failed"
      BY DEF n
    <3>2. fate[n] # "replaced"
      BY <2>1, <2>4
    <3> QED
      BY <2>2, <2>3, <2>4, <3>1, <3>2 DEF Fates
  <2>6. job = n /\ bot = "whole"
    BY <2>1, <2>4, <2>5
  <2> QED
    BY <2>1, <2>6 DEF JobInv, Loaded, Covers, n
<1> QED
  BY <1>1, InvHolds, PTL

(* Without a push between review and reading, exact fixes name lines of    *)
(* the checkout.                                                           *)
THEOREM LinesFit == Spec => []LinesFitUnlessPushed
<1>1. Inv => LinesFitUnlessPushed
  BY DEF Inv
<1> QED
  BY <1>1, InvHolds, PTL
=============================================================================
