----------------------------- MODULE MCStartup ------------------------------
(* Startup for TLC; no symmetry, since a liveness property is checked. *)
EXTENDS Startup
=============================================================================
