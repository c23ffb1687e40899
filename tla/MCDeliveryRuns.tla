--------------------------- MODULE MCDeliveryRuns ---------------------------
(***************************************************************************)
(* Values of the constants of DeliveryRuns for TLC.                        *)
(***************************************************************************)
EXTENDS DeliveryRuns, TLC

CONSTANTS o1, o2, r1, r2, d1, d2, c1, c2, w1, w2

\* Every order was requested for the first date.
MCRequested == [o \in Orders |-> d1]

\* Every customer is on the route r1; a second route serves moves between runs.
MCRouteOf == [o \in Orders |-> r1]

\* One customer is on no active route: its order is placed by hand only.
MCPartlyRouted == [o \in Orders |-> IF o = o1 THEN r1 ELSE NoRoute]

\* Both customers have the drop position 1, so the worker's numbers collide.
MCDropPosition == [o \in Orders |-> 1]

\* The only customer on a route is to be dropped second: on a run that a stop
\* leaves meanwhile, the worker's number leaves a gap.
MCSecondDrop == [o \in Orders |-> 2]

Symmetry ==
  Permutations(Clients) \cup Permutations(Orders) \cup Permutations(Workers)

\* With one customer off the routes, orders are not alike.
PartySymmetry == Permutations(Clients) \cup Permutations(Workers)

=============================================================================
