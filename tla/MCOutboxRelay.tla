---------------------------- MODULE MCOutboxRelay ----------------------------
(***************************************************************************)
(* Values of the constants of OutboxRelay for TLC.                         *)
(***************************************************************************)
EXTENDS OutboxRelay, TLC

CONSTANTS q1, q2, q3

\* An order's acceptance, two more events with overlapping routes, and one
\* that is routed nowhere.
MCRoutes ==
  (1 :> <<q1, q2, q3>>) @@ (2 :> <<q1, q2>>) @@ (3 :> <<q2>>) @@ (4 :> <<>>)

=============================================================================
