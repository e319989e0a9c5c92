----------------------------- MODULE MCPatching -----------------------------
(***************************************************************************)
(* Instances of Patching for TLC: files in which two lines may read the     *)
(* same, and findings whose replacements keep, add or remove lines.         *)
(***************************************************************************)
EXTENDS Patching

CONSTANT MaxFindings   \* bound: findings of the payload

(* Bound: three lines.  What the lines are matters only up to renaming.    *)
MCContents == {<<"a", "a", "a">>, <<"a", "a", "b">>, <<"a", "b", "a">>,
               <<"a", "b", "b">>, <<"a", "b", "c">>, <<>>}

MCFindings ==
    {f \in [kind: {"autofix", "suggested", "manual"},
            start: 1..3, end: 1..3,
            replacement: {<<"b">>, <<"n">>, <<"n", "n">>}] :
       /\ f.start <= f.end
       /\ IF f.kind = "suggested"
            THEN f.start = f.end /\ f.replacement = <<"n">>
            ELSE f.replacement # <<"n">>}

MCPayloads == UNION {[1..n -> MCFindings] : n \in 0..MaxFindings}
=============================================================================
