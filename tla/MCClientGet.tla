----------------------------- MODULE MCClientGet -----------------------------
(* ClientGet with small buffers and responses, for TLC. *)
EXTENDS ClientGet
==============================================================================
