------------------------- MODULE MCRunOrchestrator -------------------------
(***************************************************************************)
(* Small instances of RunOrchestrator for TLC.  The sets are model values   *)
(* given in the .cfg files; chains are interchangeable, and so are the      *)
(* calls of one kind.                                                       *)
(***************************************************************************)
EXTENDS RunOrchestrator, TLC

Symmetry == Permutations(Chains) \cup Permutations(RequiresApproval)
              \cup Permutations(Calls \ RequiresApproval)
=============================================================================
