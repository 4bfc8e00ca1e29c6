--------------------------- MODULE MCStatusStream ---------------------------
(***************************************************************************)
(* Small instances of StatusStream: two solves of a few statuses each.     *)
(***************************************************************************)
EXTENDS StatusStream, TLC

\* Which of the two solves is which does not matter to a safety property.
SolveSymmetry == Permutations(Solves)

=============================================================================
