----------------------------- MODULE MCAccounts -----------------------------
(* Symmetry for checking Accounts with TLC. *)
EXTENDS Accounts, TLC

HandlerSymmetry == Permutations(Requests) \cup Permutations(Operators)
=============================================================================
