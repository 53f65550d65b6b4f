--------------------------- MODULE MCRequestWorker ---------------------------
(* RequestWorker with a small bound on bodies and files, for TLC. *)
EXTENDS RequestWorker
==============================================================================
