------------------------------ MODULE Checkout ------------------------------
(***************************************************************************)
(* The git checkout the repair lanes work in, and what the commands of      *)
(* workspace/git_ops.py and workspace/worktree.py do to it.                 *)
(*                                                                         *)
(* A tree is the set of edits its tracked files hold, relative to the       *)
(* commit the pull request had when the run started, and whether they also  *)
(* hold something no patch instruction wrote (junk: files rewritten by the  *)
(* verification command).  The branch is the sequence of its commits'       *)
(* trees.                                                                   *)
(***************************************************************************)
EXTENDS Naturals, SequencesExt

CONSTANTS Edits      \* single patch instructions, and foreign modifications

VARIABLES local,     \* the checked-out branch
          remote,    \* the same branch at origin
          work,      \* tracked files in the working tree
          untracked  \* kinds of untracked, not ignored files

checkoutVars == <<local, remote, work, untracked>>

Tree == [edits: SUBSET Edits, junk: BOOLEAN]

BaseTree == [edits |-> {}, junk |-> FALSE]

CheckoutType ==
    /\ local \in Seq(Tree) /\ Len(local) > 0
    /\ remote \in Seq(Tree) /\ Len(remote) > 0
    /\ work \in Tree
    /\ untracked \subseteq {"user", "debris"}

(* A fresh clone, in which a developer may have left work behind.          *)
CheckoutInit(foreign) ==
    /\ local = <<BaseTree>> /\ remote = <<BaseTree>>
    /\ \E e \in SUBSET foreign : work = [BaseTree EXCEPT !.edits = e]
    /\ untracked \in SUBSET {"user"}

Tip == Last(local)

(* ensure_clean_worktree: git status --porcelain prints something.         *)
Dirty == work # Tip \/ untracked # {}

(* git reset --hard: the branch and the tracked files go to that commit.   *)
ResetTo(branch) ==
    /\ local' = branch /\ work' = Last(branch)
    /\ UNCHANGED <<remote, untracked>>

(* git clean -fd                                                           *)
CleanUntracked ==
    /\ untracked' = {}
    /\ UNCHANGED <<local, remote, work>>

(* apply_patch_instructions writes one more edit.                          *)
WriteEdit(e) ==
    /\ work' = [work EXCEPT !.edits = @ \cup {e}]
    /\ UNCHANGED <<local, remote, untracked>>

(* The verification command may leave files behind, tracked or not.        *)
VerificationWrites ==
    /\ \/ UNCHANGED work
       \/ work' = [work EXCEPT !.junk = TRUE]
    /\ \/ UNCHANGED untracked
       \/ untracked' = untracked \cup {"debris"}
    /\ UNCHANGED <<local, remote>>

(* commit_changes: git add -A stages whatever is there.                    *)
Staged == [work EXCEPT !.junk = @ \/ untracked # {}]

CommitAll ==
    /\ Dirty
    /\ local' = Append(local, Staged) /\ work' = Staged
    /\ untracked' = {}
    /\ UNCHANGED remote

(* push_changes: without force, origin only takes a descendant.            *)
Pushable == IsPrefix(remote, local)

PushBranch ==
    /\ Pushable
    /\ remote' = local
    /\ UNCHANGED <<local, work, untracked>>

(* git stash create: what the tracked files hold beyond the branch's tip.   *)
StashedChanges == [edits |-> work.edits \ Tip.edits,
                   junk  |-> work.junk /\ ~Tip.junk]

(* git stash apply, onto tracked files that are at the tip.                *)
ApplyStash(changes) ==
    /\ work' = [edits |-> work.edits \cup changes.edits,
                junk  |-> work.junk \/ changes.junk]
    /\ UNCHANGED <<local, remote, untracked>>

(* Somebody else pushes to the branch.                                     *)
OtherPush(e) ==
    /\ remote' = Append(remote, [Last(remote) EXCEPT !.edits = @ \cup {e}])
    /\ UNCHANGED <<local, work, untracked>>
=============================================================================
