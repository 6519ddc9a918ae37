----------------------------- MODULE MCAccounts -----------------------------
(***************************************************************************)
(* Instances of Accounts for TLC.                                          *)
(***************************************************************************)
EXTENDS Accounts, TLC

Symmetry ==
  Permutations(Workers) \cup Permutations(Users) \cup Permutations(Identities)
    \cup Permutations(Addresses)

=============================================================================
