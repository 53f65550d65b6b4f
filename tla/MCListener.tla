----------------------------- MODULE MCListener -----------------------------
(* Listener with small sets of clients, for TLC. *)
EXTENDS Listener
==============================================================================
