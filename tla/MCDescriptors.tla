----------------------------- MODULE MCDescriptors -----------------------------
(* Descriptors with a few workers that share few numbers, for TLC. *)
EXTENDS Descriptors, TLC

\* Workers are interchangeable.
Symmetry == Permutations(Workers)
==============================================================================
