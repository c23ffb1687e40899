---------------------------- MODULE EventFanOut ----------------------------
(***************************************************************************)
(* What the outbox promises to the consumers of domain events: each queue  *)
(* an event is routed to gets one job for it, only after the event has     *)
(* been committed, and in the end.  Nothing is promised about order.       *)
(* (docs/adrs/ADR-034, docs/adrs/ADR-047)                                  *)
(***************************************************************************)
EXTENDS Naturals

CONSTANTS Events, Queues,
          Targets  \* the queues each event is routed to

VARIABLES written, \* events committed with the change they tell of
          copies   \* copies[e][q]: jobs queue q has been given for event e

Init ==
  /\ written = {}
  /\ copies = [e \in Events |-> [q \in Queues |-> 0]]

Write(e) ==
  /\ e \notin written
  /\ written' = written \cup {e}
  /\ UNCHANGED copies

Enqueue(e, q) ==
  /\ e \in written /\ q \in Targets[e]
  /\ copies[e][q] = 0
  /\ copies' = [copies EXCEPT ![e][q] = 1]
  /\ UNCHANGED written

Next ==
  \E e \in Events : Write(e) \/ \E q \in Queues : Enqueue(e, q)

Safety == Init /\ [][Next]_<<written, copies>>

Spec ==
  /\ Safety
  /\ \A e \in Events, q \in Queues : WF_<<written, copies>>(Enqueue(e, q))

=============================================================================
