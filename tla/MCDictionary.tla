---------------------------- MODULE MCDictionary ----------------------------
(***************************************************************************)
(* An instance of Dictionary for TLC, and the statements of the documents  *)
(* that the code does not keep.                                            *)
(***************************************************************************)
EXTENDS Dictionary, TLC

CONSTANTS safe, injured

TwoCategories == (safe :> "SAFE") @@ (injured :> "INJURED")

HandlerSymmetry == Permutations(Handlers)

-----------------------------------------------------------------------------

(* design.md: with the snapshot of each version the state of the dictionary  *)
(* at the start of a cycle can be reproduced completely.  A cycle that found *)
(* keywords is therefore never judged by none.                               *)
CycleHasItsWords ==
  \A c \in settled : {} \notin judgedBy[c]

=============================================================================
