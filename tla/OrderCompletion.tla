-------------------------- MODULE OrderCompletion --------------------------
(***************************************************************************)
(* What the requests for one order amount to once their transactions,      *)
(* locks, retries and stale reads are taken away: each takes effect in one *)
(* step or not at all, and the step is right for the state it meets.       *)
(* (docs/adrs/ADR-072)                                                     *)
(*                                                                         *)
(* A decision of the distributor is the exception.  It is checked in one   *)
(* step and written in another, and the order may have moved on between.   *)
(***************************************************************************)
EXTENDS Naturals, Sequences

CONSTANTS Admins, PaymentStatuses, None

VARIABLES
  status,    \* the order's status
  accepted,  \* it has been accepted
  outcome,   \* the recorded delivery outcome, or None
  payment,   \* the payment status of its invoice
  payEvents, \* the changes of payment status told to others
  asked      \* asked[a]: the decision a may still write, or None

promised == <<status, accepted, outcome, payment, payEvents, asked>>

Init ==
  /\ \/ status = "SUBMITTED" /\ accepted = FALSE
     \/ status = "ACCEPTED" /\ accepted = TRUE
  /\ outcome = None /\ payment = "NOT_SYNCED" /\ payEvents = <<>>
  /\ asked = [a \in Admins |-> None]

\* A delivered order is completed while its invoice is paid.
Settled(s, p) ==
  CASE s = "DELIVERED" /\ p = "PAID" -> "COMPLETED"
    [] s = "COMPLETED" /\ p # "PAID" -> "DELIVERED"
    [] OTHER -> s

Ask(a) ==
  /\ asked[a] = None
  /\ \E target \in {"ACCEPTED", "REJECTED", "CANCELLED"} :
       /\ status = "SUBMITTED" \/ (status = "ACCEPTED" /\ target = "CANCELLED")
       /\ asked' = [asked EXCEPT ![a] = target]
  /\ UNCHANGED <<status, accepted, outcome, payment, payEvents>>

Decide(a) ==
  /\ asked[a] # None
  /\ status' = asked[a]
  /\ accepted' = (accepted \/ asked[a] = "ACCEPTED")
  /\ asked' = [asked EXCEPT ![a] = None]
  /\ UNCHANGED <<outcome, payment, payEvents>>

\* One outcome, for good, of an order that was accepted.
Deliver ==
  /\ accepted /\ outcome = None
  /\ \/ outcome' = "DELIVERED" /\ status' = Settled("DELIVERED", payment)
     \/ outcome' = "UNABLE_TO_DELIVER" /\ status' = "DELIVERY_FAILED"
  /\ UNCHANGED <<accepted, payment, payEvents, asked>>

\* A change of payment status, its event and its effect on the order.
Pay(p) ==
  /\ p # payment
  /\ payment' = p
  /\ payEvents' = Append(payEvents, [from |-> payment, to |-> p])
  /\ status' = Settled(status, p)
  /\ UNCHANGED <<accepted, outcome, asked>>

Next ==
  \/ \E a \in Admins : Ask(a) \/ Decide(a)
  \/ Deliver
  \/ \E p \in PaymentStatuses : Pay(p)

Safety == Init /\ [][Next]_promised

=============================================================================
