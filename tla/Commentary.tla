----------------------------- MODULE Commentary -----------------------------
(***************************************************************************)
(* The bot's status comment on a pull request: update or create              *)
(* (upsert_implementer_comment, output/pr_commentary.py), by several runs of *)
(* the pipeline, next to people's comments.  Every call to GitHub may fail,  *)
(* before or after it took effect; run_pipeline catches that and goes on     *)
(* without a comment.                                                        *)
(***************************************************************************)
EXTENDS Naturals, FiniteSets, FiniteSetsExt

CONSTANTS Runs,        \* runs of the pipeline; also the bodies they write
          NoRun,       \* none, or a person
          PageSize,    \* comments the connector reads: GitHub's default, 30
          MaxComments  \* bound

ASSUME CommentaryAssumption ==
    /\ NoRun \notin Runs /\ PageSize \in Nat \ {0} /\ MaxComments \in Nat

VARIABLES comments,  \* of the pull request
          newest,    \* the last id given
          pc,        \* what a run does next
          found,     \* marked comments a run has listed and not yet handled
          last,      \* the last run that listed the comments
          view,      \* what it saw of them, undisturbed by another run
          byHand     \* a person has deleted a marked comment

vars == <<comments, newest, pc, found, last, view, byHand>>
upserting == <<pc, found, last, view>>

(* A body leads with the marker, contains it, or neither.                  *)
Kinds == {"marked", "quoting", "plain"}

Ids(C) == {c.id : c \in C}

Mutant_Marked(C) == {c \in C : c.kind # "plain"}

Marked(C) == {c \in C : c.kind = "marked"}

(* GitHub lists the oldest first, and one page of them.                    *)
Page == {c \in comments : Cardinality({d \in comments : d.id < c.id}) < PageSize}

Busy(r) == pc[r] = "upsert"

Init ==
    /\ comments = {} /\ newest = 0
    /\ pc = [r \in Runs |-> "start"] /\ found = [r \in Runs |-> {}]
    /\ last = NoRun /\ view = "disturbed" /\ byHand = FALSE

-----------------------------------------------------------------------------
(* People.                                                                 *)

Comment(kind) ==
    /\ newest < MaxComments /\ newest' = newest + 1
    /\ comments' = comments \cup {[id |-> newest', kind |-> kind, by |-> NoRun]}
    /\ UNCHANGED <<upserting, byHand>>

Remove(c) ==
    /\ comments' = comments \ {c}
    /\ byHand' = (byHand \/ c.kind = "marked")
    /\ UNCHANGED <<upserting, newest>>

-----------------------------------------------------------------------------
(* A run.                                                                  *)

List(r) ==
    /\ pc[r] = "start" /\ pc' = [pc EXCEPT ![r] = "upsert"]
    /\ found' = [found EXCEPT ![r] = Ids(Marked(Page))]
    /\ last' = r
    /\ view' = IF \E q \in Runs : Busy(q) THEN "disturbed"
               ELSE IF Page = comments THEN "all" ELSE "page"
    /\ UNCHANGED <<comments, newest, byHand>>

ListRaises(r) ==
    /\ pc[r] = "start" /\ pc' = [pc EXCEPT ![r] = "failed"]
    /\ UNCHANGED <<comments, newest, found, last, view, byHand>>

(* The run is over, as it thinks or because the answer was lost.           *)
Over(r) ==
    /\ \E k \in {"done", "failed"} : pc' = [pc EXCEPT ![r] = k]
    /\ found' = [found EXCEPT ![r] = {}]
    /\ UNCHANGED <<last, view, byHand>>

Create(r) ==
    /\ Busy(r) /\ found[r] = {}
    /\ newest < MaxComments /\ newest' = newest + 1
    /\ comments' = comments \cup {[id |-> newest', kind |-> "marked", by |-> r]}
    /\ Over(r)

Mutant_Primary(r) == Max(found[r])

Primary(r) == Min(found[r])

Mutant_Duplicates(r) == {}

Duplicates(r) == {d \in found[r] : d # Primary(r)}

(* The duplicates in turn; one that is gone is an error.                   *)
Delete(r) ==
    /\ Busy(r) /\ Duplicates(r) # {}
    /\ LET d == Min(Duplicates(r)) IN
        /\ d \in Ids(comments)
        /\ comments' = {c \in comments : c.id # d}
        /\ \/ found' = [found EXCEPT ![r] = @ \ {d}] /\ pc' = pc
           \/ found' = [found EXCEPT ![r] = {}]
              /\ pc' = [pc EXCEPT ![r] = "failed"]
    /\ UNCHANGED <<newest, last, view, byHand>>

Update(r) ==
    /\ Busy(r) /\ found[r] # {} /\ Duplicates(r) = {}
    /\ Primary(r) \in Ids(comments)
    /\ comments' = {IF c.id = Primary(r) THEN [c EXCEPT !.by = r] ELSE c :
                      c \in comments}
    /\ Over(r) /\ UNCHANGED newest

(* A call that fails without effect, also for a comment that is gone.      *)
Raise(r) ==
    /\ Busy(r) /\ pc' = [pc EXCEPT ![r] = "failed"]
    /\ found' = [found EXCEPT ![r] = {}]
    /\ UNCHANGED <<comments, newest, last, view, byHand>>

Upsert(r) == List(r) \/ ListRaises(r) \/ Create(r) \/ Delete(r) \/ Update(r)
             \/ Raise(r)

Next ==
    \/ \E kind \in Kinds \ {"marked"} : Comment(kind)
    \/ \E c \in comments : Remove(c)
    \/ \E r \in Runs : Upsert(r)

Spec == Init /\ [][Next]_vars

-----------------------------------------------------------------------------
(* Properties.                                                             *)

(* Types; a run works on ids that were given, only while it is at it, and  *)
(* what it writes is a marked comment.                                     *)
TypeOK ==
    /\ newest \in 0..MaxComments
    /\ comments \subseteq [id : 1..newest, kind : Kinds, by : Runs \cup {NoRun}]
    /\ pc \in [Runs -> {"start", "upsert", "done", "failed"}]
    /\ found \in [Runs -> SUBSET (1..newest)]
    /\ \A r \in Runs : found[r] # {} => Busy(r)
    /\ \A c \in comments : (c.by # NoRun) => c.kind = "marked"
    /\ last \in Runs \cup {NoRun} /\ view \in {"disturbed", "page", "all"}
    /\ byHand \in BOOLEAN

(* "never collide": the bot neither rewrites nor deletes a comment that    *)
(* does not lead with its marker, also one that quotes it, whatever        *)
(* interleaves between its listing and its writing.                        *)
OthersUntouched ==
    [][pc' # pc \/ found' # found => 
        \A c \in comments : c.kind # "marked" => c \in comments']_vars

(* Runs that list and delete side by side never leave the pull request     *)
(* without a comment: as long as no person deletes one, the oldest marked  *)
(* comment survives each step of each run.                                 *)
OldestSurvives ==
    [][~byHand' /\ Marked(comments) # {}
        => Min(Ids(Marked(comments))) \in Ids(comments')]_vars

(* "Converge to exactly one": a run that nothing interfered with and that  *)
(* read all comments leaves one marked comment, with its body, whatever    *)
(* duplicates concurrent or failed runs had left.                          *)
Converges ==
    last # NoRun /\ view = "all" /\ pc[last] = "done" /\ ~byHand
    => \E c \in comments : c.by = last /\ Marked(comments) = {c}

(* "The bot maintains exactly ONE comment per PR via update-or-create"     *)
(* (output/pr_commentary.py): a run that nothing interfered with leaves    *)
(* one marked comment.                                                     *)
OneComment ==
    last # NoRun /\ view # "disturbed" /\ pc[last] = "done" /\ ~byHand
    => Cardinality(Marked(comments)) = 1

-----------------------------------------------------------------------------
(* Inductive invariants, for CommentaryProofs.                             *)

UniqueIds == \A c, d \in comments : c.id = d.id => c = d

(* Whatever a run has listed is marked, or gone.                           *)
FoundIsMarked ==
    \A r \in Runs : \A c \in comments : c.id \in found[r] => c.kind = "marked"

(* Each run that has listed any has the oldest, and takes it for its own.  *)
FoundHasOldest ==
    ~byHand => \A r \in Runs : found[r] # {} =>
        \E c \in Marked(comments) : /\ c.id \in found[r]
                                    /\ \A i \in found[r] : c.id <= i
                                    /\ \A d \in Marked(comments) : c.id <= d.id

(* The last run that listed the comments, if it was alone and saw all:     *)
(* what it still has to handle are all the marked ones, up to the end.     *)
LastSawAll ==
    last # NoRun /\ view = "all" /\ ~byHand =>
        /\ \A r \in Runs : Busy(r) => r = last
        /\ Busy(last) => found[last] = Ids(Marked(comments))
        /\ pc[last] = "done" =>
               \E c \in comments : c.by = last /\ Marked(comments) = {c}
=============================================================================
