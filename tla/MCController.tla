---------------------------- MODULE MCController ----------------------------
(* Small instances of Controller for TLC. *)
EXTENDS Controller, TLC

\* Objects are interchangeable, and so are workers.  Used by safety runs only.
Symmetry == Permutations(Keys) \cup Permutations(Workers)
=============================================================================
