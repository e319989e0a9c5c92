----------------------------- MODULE RepairLane -----------------------------
(***************************************************************************)
(* What a repair lane promises the pipeline, whichever lane it is: it       *)
(* publishes at most one commit a run, only a tree that passed              *)
(* verification, and the status it returns tells whether it did.  Only a    *)
(* run that raised or was killed leaves that open.  This is the contract    *)
(* PRLoop's repair outcomes rely on.                                        *)
(***************************************************************************)
CONSTANTS AllowPush   \* the lane's configuration lets it push

VARIABLES status,     \* of the current or last run
          vouched,    \* the tree to publish has passed verification
          published   \* this run's commit is at origin

(* Statuses of a run that published nothing, and of any run that is over.  *)
Unpublished == {"approval_required", "no_applicable_instructions",
                "rolled_back_verification_failed",
                "rolled_back_no_retry_patch"}
Ended == Unpublished \cup {"idle", "completed", "raised", "killed",
                          "rollback_raised", "restore_raised"}

Init == status = "idle" /\ ~vouched /\ ~published

Begin ==
    /\ status \in Ended
    /\ status' = "running" /\ ~vouched' /\ ~published'

(* The tree changes, or passes verification, or is given up.               *)
Vouch ==
    /\ status = "running"
    /\ vouched' \in BOOLEAN
    /\ UNCHANGED <<status, published>>

Publish ==
    /\ status = "running" /\ vouched /\ ~published /\ AllowPush
    /\ published' = TRUE
    /\ UNCHANGED <<status, vouched>>

End(s) ==
    /\ status = "running"
    /\ s \in Unpublished => ~published
    /\ s = "completed" => vouched /\ (AllowPush => published)
    /\ status' = s
    /\ vouched' \in BOOLEAN /\ (s = "completed" => vouched')
    /\ UNCHANGED published

Next == Begin \/ Vouch \/ Publish \/ \E s \in Ended \ {"idle"} : End(s)

Spec == Init /\ [][Next]_<<status, vouched, published>>
=============================================================================
