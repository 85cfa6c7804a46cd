---------------------------- MODULE MCScimGroups ----------------------------
(* Symmetry for checking ScimGroups with TLC. *)
EXTENDS ScimGroups, TLC

Symmetry == Permutations(UserIds) \cup Permutations(Names) \cup Permutations(Writers)
            \cup Permutations(GroupIds)
=============================================================================
