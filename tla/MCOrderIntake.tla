--------------------------- MODULE MCOrderIntake ---------------------------
(***************************************************************************)
(* Values of the constants of OrderIntake for TLC.                         *)
(***************************************************************************)
EXTENDS OrderIntake, TLC

CONSTANTS t1, t2, t3, tea, jam, few, many

Symmetry == Permutations(Requests) \cup Permutations(Products)

=============================================================================
