---------------------------- MODULE MCLoginGate -----------------------------
(* Symmetry for checking LoginGate with TLC. *)
EXTENDS LoginGate, TLC

Symmetry == Permutations(Handlers) \cup Permutations(Salts)
=============================================================================
