----------------------------- MODULE MCAccounts -----------------------------
(***************************************************************************)
(* Symmetry for the instances of Accounts.                                 *)
(***************************************************************************)
EXTENDS Accounts, TLC

Symmetry ==
    Permutations(Ids) \cup Permutations(Tokens) \cup Permutations(Logins) \cup Permutations(Calls)
=============================================================================
