--------------------------- MODULE MCImageStorage ---------------------------
(***************************************************************************)
(* Instances of ImageStorage for TLC.                                      *)
(***************************************************************************)
EXTENDS ImageStorage, TLC

Symmetry == Permutations(Workers) \cup Permutations(Keys)

=============================================================================
