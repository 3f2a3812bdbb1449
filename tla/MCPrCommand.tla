------------------------------- MODULE MCPrCommand -------------------------------
(* Two runs for a branch with a pull request upstream and one of the same   *)
(* number in a fork.                                                        *)
EXTENDS PrCommand, TLC

CONSTANTS r1, r2, up, fork, A, B

MCRepoOf == up :> A @@ fork :> B
MCNumberOf == up :> 1 @@ fork :> 1
All == [post |-> TRUE, artifact |-> TRUE, share |-> TRUE, store |-> TRUE]
(* Everything, where a failing step also stands for a flag left out; the  *)
(* pre-push hook's flags; a plain --post; and flags that are refused.     *)
MCOptions ==
    {All,
     [All EXCEPT !.post = FALSE, !.artifact = FALSE, !.share = FALSE],
     [All EXCEPT !.artifact = FALSE, !.share = FALSE, !.store = FALSE],
     [All EXCEPT !.artifact = FALSE]}
Symmetry == Permutations(Runs)
================================================================================
