--------------------------- MODULE MCProvisioning ---------------------------
(* Symmetry for checking Provisioning with TLC. *)
EXTENDS Provisioning, TLC

Symmetry == Permutations(UserIds) \cup Permutations(Writers) \cup Permutations(Logins)
            \cup Permutations(Names)
=============================================================================
