------------------------------- MODULE MCUpload -------------------------------
(* Upload with small files, buffers and windows, for TLC. *)
EXTENDS Upload

OneClient == {c}
==============================================================================
