--------------------------- MODULE MCTokenRefresh ---------------------------
(***************************************************************************)
(* Values of the constants of TokenRefresh for TLC.                        *)
(***************************************************************************)
EXTENDS TokenRefresh

CONSTANTS p1, p2

=============================================================================
