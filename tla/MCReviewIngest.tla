--------------------------- MODULE MCReviewIngest ---------------------------
(***************************************************************************)
(* Instances of ReviewIngest for TLC.                                      *)
(***************************************************************************)
EXTENDS ReviewIngest

MCFiles  == {"src"}
MCPathOf == [f \in MCFiles |-> [area |-> "other", nested |-> FALSE,
                                name |-> "plain"]]

MCThread(opener, others, suggests) ==
    [opener |-> opener, others |-> others, says |-> {"lint"}, blank |-> FALSE,
     suggests |-> suggests, numbered |-> TRUE, file |-> "src", anchored |-> TRUE,
     rule |-> NoRule]

Review(login, state, opened) ==
    [login |-> login, state |-> state, author |-> TRUE, threads |-> opened]

(* Reviews of the enabled tool: with a fix, with a bare comment in a       *)
(* person's thread, blank and of a pull request whose author is gone; and  *)
(* one of a tool switched off.                                             *)
MCReviews ==
    {Review("copilot", "changes_requested", <<MCThread("copilot", {}, TRUE)>>),
     Review("copilot", "commented", <<MCThread("human", {"copilot"}, TRUE)>>),
     [Review("copilot", "changes_requested",
             <<[MCThread("copilot", {}, FALSE) EXCEPT !.blank = TRUE]>>)
        EXCEPT !.author = FALSE],
     Review("coderabbit", "changes_requested",
            <<MCThread("coderabbit", {}, FALSE)>>)}
=============================================================================
