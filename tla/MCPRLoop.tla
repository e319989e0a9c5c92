------------------------------ MODULE MCPRLoop ------------------------------
(***************************************************************************)
(* Instances of PRLoop for TLC.                                            *)
(***************************************************************************)
EXTENDS PRLoop, TLC

(* Handlers are interchangeable.                                           *)
HandlerSymmetry == Permutations(Handlers)
=============================================================================
