---------------------------- MODULE MCSsoLogout -----------------------------
(* Model values and symmetry for checking SsoLogout with TLC. *)
EXTENDS SsoLogout, TLC

HandlerSymmetry == Permutations(Logins) \cup Permutations(Logouts)
=============================================================================
