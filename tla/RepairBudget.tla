---------------------------- MODULE RepairBudget ----------------------------
(***************************************************************************)
(* What the PR loop promises about repair attempts, without its mechanism: *)
(* the loop works on one head commit at a time, never goes back to an      *)
(* earlier one, and starts the repair executor at most Max times for each  *)
(* ("stop after max repair attempts", GOVERNANCE.md; "resets attempts when *)
(* the PR head SHA changes", RUNTIME_MODEL.md).  No state file, no crash,  *)
(* no handler appears here.                                                *)
(***************************************************************************)
EXTENDS Naturals

CONSTANTS Heads,   \* the head commits of the PR, numbered in order
          Max      \* repair runs allowed for one head

VARIABLES cur,     \* the head commit being worked on
          used     \* executor runs started for it

Init == cur = 1 /\ used = 0

(* The PR head changed: the budget starts again for the newer commit.      *)
MoveOn(s) == s > cur /\ cur' = s /\ used' = 0

(* One run of the repair executor.                                         *)
Repair == used < Max /\ used' = used + 1 /\ UNCHANGED cur

Next == Repair \/ \E s \in Heads : MoveOn(s)

Spec == Init /\ [][Next]_<<cur, used>>
=============================================================================
