-------------------------- MODULE MCIngestionRuns --------------------------
(***************************************************************************)
(* Values of the constants of IngestionRuns for TLC.                       *)
(***************************************************************************)
EXTENDS IngestionRuns

CONSTANTS a, b, j1, j2

=============================================================================
