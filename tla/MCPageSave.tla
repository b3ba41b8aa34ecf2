----------------------------- MODULE MCPageSave -----------------------------
(* Instances of PageSave for TLC. *)
EXTENDS PageSave, TLC

\* Requests are interchangeable, and nothing names one of them.
RequestSymmetry == Permutations(Request)
=============================================================================
