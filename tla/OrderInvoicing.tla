--------------------------- MODULE OrderInvoicing ---------------------------
(***************************************************************************)
(* What the export of an order promises the distributor's book-keeping:    *)
(* an invoice is raised only where none is live, and the export is said to *)
(* be completed once, of an organisation that has raised one.              *)
(* (docs/adrs/ADR-073)                                                     *)
(*                                                                         *)
(* What people do is not promised away: they void invoices, and a row may  *)
(* be lost, after which the order may be exported again.                   *)
(***************************************************************************)
EXTENDS Naturals

CONSTANT Organisations

VARIABLES
  live,   \* live[o]: the order's invoices of organisation o that are not voided
  raised, \* raised[o]: how many there ever were
  done    \* the organisations whose export is completed

promised == <<live, raised, done>>

Init ==
  /\ live = [o \in Organisations |-> {}]
  /\ raised = [o \in Organisations |-> 0]
  /\ done = {}

Raise(o) ==
  /\ live[o] = {}
  /\ raised' = [raised EXCEPT ![o] = @ + 1]
  /\ live' = [live EXCEPT ![o] = {raised[o] + 1}]
  /\ UNCHANGED done

Void(o) ==
  /\ \E i \in live[o] : live' = [live EXCEPT ![o] = @ \ {i}]
  /\ UNCHANGED <<raised, done>>

Complete(o) ==
  /\ done = {} /\ raised[o] > 0
  /\ done' = {o}
  /\ UNCHANGED <<live, raised>>

Lose(o) ==
  /\ o \in done
  /\ done' = done \ {o}
  /\ UNCHANGED <<live, raised>>

Next == \E o \in Organisations : Raise(o) \/ Void(o) \/ Complete(o) \/ Lose(o)

Safety == Init /\ [][Next]_promised

=============================================================================
