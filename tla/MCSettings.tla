----------------------------- MODULE MCSettings -----------------------------
(***************************************************************************)
(* Instances of Settings for TLC.                                          *)
(***************************************************************************)
EXTENDS Settings, TLC

MCDefault == [c \in Columns |-> CHOOSE v \in Values : TRUE]

Symmetry == Permutations(Workers) \cup Permutations(Columns)

=============================================================================
