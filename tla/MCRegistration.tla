--------------------------- MODULE MCRegistration ---------------------------
(* Registration with the three attempts of the code, for TLC. *)
EXTENDS Registration
==============================================================================
