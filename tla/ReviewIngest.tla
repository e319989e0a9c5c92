---------------------------- MODULE ReviewIngest ----------------------------
(***************************************************************************)
(* From a submitted review to a run of the bot: the workflow                *)
(* (.github/workflows/pr-repair.yml), its ingest step (review_ingest.py),    *)
(* the payload file, and what the run step makes of it                      *)
(* (ingestion/payload_parser.py), while the author pushes, people resolve    *)
(* threads and further reviews come in.  A thread is its position.          *)
(***************************************************************************)
EXTENDS ToolAdapters, SequencesExt

CONSTANTS Reviews,      \* reviews that may be submitted
          Enabled,      \* tools switched on (PR_FIX_TOOL_*)
          MaxReviews, MaxPushes   \* bounds

(* An event names the author of the pull request unless the account is     *)
(* gone.                                                                   *)
ReviewIngestAssumption ==
    /\ Enabled \subseteq Tools /\ MaxReviews \in Nat /\ MaxPushes \in Nat
    /\ \A r \in Reviews : /\ DOMAIN r = {"login", "state", "author", "threads"}
                          /\ r.login \in Logins
                          /\ r.state \in {"commented", "changes_requested"}
                          /\ r.author \in BOOLEAN
                          /\ r.threads \in Seq(Thread)
ASSUME ReviewIngestAssumption

VARIABLES head,      \* number of pushes to the branch
          threads,   \* review threads of the pull request
          resolved,  \* which of them are resolved
          since,     \* the head from which on a thread's line is what it is
          events,    \* pull_request_review events, with the head they name
          fate,      \* what became of the workflow run of each event
          pc,        \* what the running job does next
          job,       \* the event of the latest job
          workspace, \* the head its runner has checked out
          file,      \* artifacts/agent_review_payload.json on the runner
          payload,   \* the payload in the ingest process
          rc,        \* exit code of the ingest step
          bot        \* what the run step has read

github == <<head, threads, resolved, since, events>>
runner == <<job, workspace, file, payload, rc, bot>>
vars   == <<head, threads, resolved, since, events, fate, pc, job, workspace,
            file, payload, rc, bot>>

Positions == DOMAIN threads
Queued    == {n \in DOMAIN events : fate[n] = "queued"}

(* A payload: the head it names, the head its threads were read at, its    *)
(* findings by disposition, and the head each one's line stems from.       *)
NoPayload == [head_sha |-> 0, read_at |-> 0, tool |-> "none",
              autofix |-> {}, manual |-> {}, lines |-> <<>>]

Init ==
    /\ head = 1 /\ threads = <<>> /\ resolved = <<>> /\ since = <<>>
    /\ events = <<>> /\ fate = <<>> /\ pc = "idle"
    /\ job = 0 /\ workspace = 0 /\ file = "absent" /\ payload = NoPayload
    /\ rc = -1 /\ bot = "none"

-----------------------------------------------------------------------------
(* The pull request.                                                       *)

Mutant_Submit(r) ==
    /\ Len(events) < MaxReviews
    /\ threads' = threads \o r.threads
    /\ resolved' = resolved \o [i \in DOMAIN r.threads |-> FALSE]
    /\ since' = since \o [i \in DOMAIN r.threads |-> head]
    /\ events' = Append(events, [login |-> r.login, state |-> r.state,
                                 author |-> r.author, sha |-> head])
    /\ fate' = Append(fate, IF Queued = {} THEN "queued" ELSE "replaced")
    /\ UNCHANGED <<head, pc, runner>>

(* A review enters the pull request's concurrency group.  The group runs   *)
(* one job and keeps one waiting: a new one takes the place of the waiting *)
(* one (cancel-in-progress: false spares only the running one).            *)
Submit(r) ==
    /\ Len(events) < MaxReviews
    /\ threads' = threads \o r.threads
    /\ resolved' = resolved \o [i \in DOMAIN r.threads |-> FALSE]
    /\ since' = since \o [i \in DOMAIN r.threads |-> head]
    /\ events' = Append(events, [login |-> r.login, state |-> r.state,
                                 author |-> r.author, sha |-> head])
    /\ fate' = Append([n \in DOMAIN events |->
                         IF n \in Queued THEN "replaced" ELSE fate[n]],
                      "queued")
    /\ UNCHANGED <<head, pc, runner>>

(* Lines of some threads move with a push, or get lost.                    *)
Push(moved, outdated) ==
    /\ head <= MaxPushes
    /\ head' = head + 1
    /\ since' = [i \in Positions |-> IF i \in moved THEN head' ELSE since[i]]
    /\ threads' = [i \in Positions |->
                     IF i \in outdated THEN [threads[i] EXCEPT !.anchored = FALSE]
                     ELSE threads[i]]
    /\ UNCHANGED <<resolved, events, fate, pc, runner>>

PersonResolves(i) ==
    /\ ~resolved[i] /\ resolved' = [resolved EXCEPT ![i] = TRUE]
    /\ UNCHANGED <<head, threads, since, events, fate, pc, runner>>

-----------------------------------------------------------------------------
(* The workflow's job, one at a time.                                      *)

End(f) == pc' = "idle" /\ fate' = [fate EXCEPT ![job] = f]

(* Nothing but what the bot has read outlives the runner.                  *)
Discard == workspace' = 0 /\ file' = "absent" /\ rc' = -1

Fail(f) ==
    /\ End(f) /\ Discard /\ payload' = NoPayload
    /\ UNCHANGED <<github, job, bot>>

(* The job's `if`: not for a bare comment.                                 *)
Armed(n) == events[n].state # "commented"

Unarmed(n) ==
    /\ pc = "idle" /\ fate[n] = "queued" /\ ~Armed(n)
    /\ fate' = [fate EXCEPT ![n] = "unarmed"]
    /\ UNCHANGED <<github, pc, runner>>

Mutant_Start(n) ==
    /\ fate[n] = "queued" /\ Armed(n)
    /\ fate' = [fate EXCEPT ![n] = "running"] /\ job' = n /\ pc' = "checkout"
    /\ Discard /\ payload' = NoPayload /\ bot' = "none"
    /\ UNCHANGED github

Start(n) ==
    /\ pc = "idle" /\ fate[n] = "queued" /\ Armed(n)
    /\ fate' = [fate EXCEPT ![n] = "running"] /\ job' = n /\ pc' = "checkout"
    /\ Discard /\ payload' = NoPayload /\ bot' = "none"
    /\ UNCHANGED github

Mutant_Checkout ==
    /\ pc = "checkout" /\ pc' = "detect"
    /\ workspace' = 0 /\ file' \in {"absent", "committed"}
    /\ UNCHANGED <<github, fate, job, payload, rc, bot>>

(* The head the event names, which may itself carry a file of that name.   *)
Checkout ==
    /\ pc = "checkout" /\ pc' = "detect"
    /\ workspace' = events[job].sha /\ file' \in {"absent", "committed"}
    /\ UNCHANGED <<github, fate, job, payload, rc, bot>>

(* The tool is known by the login of the review's author.                  *)
ToolOf(n) ==
    LET known == {t \in Tools : events[n].login \in Markers[t]}
    IN IF known = {} THEN "none" ELSE CHOOSE t \in known : TRUE

Exit(code) == rc' = code /\ pc' = "status"

(* collect_payload up to the first call to GitHub: ReviewSkipped.          *)
Detect ==
    /\ pc = "detect" /\ HasAdapter(ToolOf(job), Enabled) /\ pc' = "read"
    /\ UNCHANGED <<github, fate, runner>>

Skip ==
    /\ pc = "detect" /\ ~HasAdapter(ToolOf(job), Enabled) /\ Exit(3)
    /\ UNCHANGED <<github, fate, job, workspace, file, payload, bot>>

(* Threads are read as they are now, and partitioned.                      *)
BuildPayload(tool, positions) ==
    LET findings == ToPayloadFindings(tool, threads, positions)
    IN [head_sha |-> events[job].sha, read_at |-> head, tool |-> tool,
        autofix |-> {f.thread : f \in {g \in findings : g.autofix}},
        manual  |-> {f.thread : f \in {g \in findings : ~g.autofix}},
        lines   |-> [i \in {f.thread : f \in findings} |-> since[i]]]

ReadThreads ==
    /\ pc = "read" /\ pc' = "validate"
    /\ payload' = BuildPayload(ToolOf(job), ReadFindings(ToolOf(job), threads,
                                                         resolved))
    /\ UNCHANGED <<github, fate, job, workspace, file, rc, bot>>

Mutant_ReadRaises ==
    /\ pc = "read" /\ Exit(3)
    /\ UNCHANGED <<github, fate, job, workspace, file, payload, bot>>

(* An error of the threads' API, or an answer of another shape to the      *)
(* changed files' (an error of that one is swallowed), passes through run. *)
ReadRaises ==
    /\ pc = "read" /\ Exit(1)
    /\ UNCHANGED <<github, fate, job, workspace, file, payload, bot>>

(* The payload is whole, if the event names each field of the PR.          *)
Validate ==
    /\ pc = "validate" /\ events[job].author /\ pc' = "write"
    /\ UNCHANGED <<github, fate, runner>>

Invalid ==
    /\ pc = "validate" /\ ~events[job].author /\ Exit(1)
    /\ UNCHANGED <<github, fate, job, workspace, file, payload, bot>>

(* write_text truncates, then writes.                                      *)
Truncate ==
    /\ pc = "write" /\ pc' = "written" /\ file' = "torn"
    /\ UNCHANGED <<github, fate, job, workspace, payload, rc, bot>>

WriteRaises ==
    /\ pc \in {"write", "written"} /\ Exit(1)
    /\ UNCHANGED <<github, fate, job, workspace, file, payload, bot>>

Write ==
    /\ pc = "written" /\ file' = "whole" /\ Exit(0)
    /\ UNCHANGED <<github, fate, job, workspace, payload, bot>>

(* steps.ingest.outputs.status                                             *)
Mutant_Produced == pc = "status" /\ rc \in {0, 3}

Produced == pc = "status" /\ rc = 0

Proceed ==
    /\ Produced /\ pc' = "run"
    /\ UNCHANGED <<github, fate, runner>>

Stop ==
    /\ pc = "status" /\ ~Produced
    /\ Fail(IF rc = 3 THEN "skipped" ELSE "failed")

-----------------------------------------------------------------------------
(* The run step.                                                           *)

(* test -s, or load_config on the repository's variables, or a parser to   *)
(* which the file is not a whole payload.                                  *)
RunFails == pc = "run" /\ Fail("failed")

(* PayloadParser.parse takes any whole payload, also the branch's own.     *)
RunBot ==
    /\ pc = "run" /\ file \in {"whole", "committed"}
    /\ bot' = file /\ End("ran") /\ file' = "absent" /\ rc' = -1
    /\ UNCHANGED <<github, job, workspace, payload>>

(* Setup fails, or the runner dies.                                        *)
Die == pc # "idle" /\ Fail("failed")

Ingest == \/ Detect \/ Skip \/ ReadThreads \/ ReadRaises
          \/ Validate \/ Invalid \/ Truncate \/ WriteRaises \/ Write

Next ==
    \/ \E r \in Reviews : Submit(r)
    \/ \E moved \in SUBSET Positions :
           \E outdated \in SUBSET moved : Push(moved, outdated)
    \/ \E i \in Positions : PersonResolves(i)
    \/ \E n \in Queued : Start(n) \/ Unarmed(n)
    \/ Checkout \/ Ingest \/ Proceed \/ Stop
    \/ RunFails \/ RunBot \/ Die

Spec == Init /\ [][Next]_vars

-----------------------------------------------------------------------------
(* Properties.                                                             *)

(* Types; one job runs, and it is the latest that was started.             *)
TypeOK ==
    /\ head \in 1..(MaxPushes + 1) /\ Len(events) <= MaxReviews
    /\ DOMAIN resolved = Positions /\ DOMAIN since = Positions
    /\ DOMAIN fate = DOMAIN events
    /\ \A i \in Positions : since[i] <= head
    /\ pc \in {"idle", "checkout", "detect", "read", "validate", "write",
               "written", "status", "run"}
    /\ \A n \in DOMAIN fate : /\ fate[n] = "running" <=> (pc # "idle" /\ n = job)
                              /\ n > job => fate[n] # "ran"
    /\ file \in {"absent", "committed", "torn", "whole"}
    /\ rc \in {-1, 0, 1, 3} /\ bot \in {"none", "whole", "committed"}

(* "the bot never runs on a missing payload", and "There is no dependency  *)
(* on a pre-existing upstream payload" (docs/actuation/review_ingest.md):  *)
(* the bot reads a file only if this job's ingest step has written it      *)
(* whole, for an enabled tool, and never one that came with the branch or  *)
(* a torn one.                                                             *)
BotReadsOwnPayload ==
    bot # "none" => bot = "whole" /\ payload.tool \in Enabled

(* Exit code 3 says "genuinely no actionable review source"                *)
(* (review_ingest.py): a review of an enabled tool never ends as a clean   *)
(* skip, whatever GitHub answers.                                          *)
SkipsOnlyAbsentSources ==
    \A n \in DOMAIN events : fate[n] = "skipped" => ToolOf(n) \notin Enabled

(* Replaced, repeated and late jobs lose nothing of the tool that reviewed *)
(* last: when no job runs or waits and the last review was an enabled      *)
(* tool's and armed, either its job failed or the bot was given every      *)
(* thread the tool wrote in and nobody has resolved since, those of        *)
(* replaced jobs too (blank ones and those past the first page apart).     *)
LastReviewIsRead ==
    LET n == Len(events) IN
    pc = "idle" /\ Queued = {} /\ n > 0
        => \/ ~Armed(n) \/ ToolOf(n) \notin Enabled \/ fate[n] = "failed"
           \/ /\ job = n /\ bot = "whole"
              /\ \A i \in Positions :
                    /\ i <= PageSize /\ ~resolved[i] /\ ~threads[i].blank
                    /\ Owns(ToolOf(n), threads[i])
                    => i \in payload.autofix \cup payload.manual

(* The lines of exact fixes are lines of the runner's checkout, unless the *)
(* author pushed between the review and the reading of the threads.        *)
LinesFitUnlessPushed ==
    payload.read_at = payload.head_sha
        => \A i \in payload.autofix : payload.lines[i] <= workspace
=============================================================================
