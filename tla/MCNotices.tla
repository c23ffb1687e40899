---------------------------- MODULE MCNotices ----------------------------
(***************************************************************************)
(* Values of the constants of Notices for TLC.                             *)
(***************************************************************************)
EXTENDS Notices

CONSTANTS shop, buyer \* the distributor's and the customer's address

=============================================================================
