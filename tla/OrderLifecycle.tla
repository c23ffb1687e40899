--------------------------- MODULE OrderLifecycle ---------------------------
(***************************************************************************)
(* One order from submission to completion: the distributor accepts,       *)
(* rejects or cancels it, a driver records its delivery, the accounting    *)
(* system reports whether its invoice is paid, and whichever of delivery   *)
(* and payment comes second completes it.                                  *)
(*                                                                         *)
(* apps/api/src/admin-orders, delivery-links, accounting-invoice-sync,     *)
(* accounting/invoice-payment-*.ts, orders/order-completion.service.ts     *)
(*                                                                         *)
(* Every request reads before its transaction.  Transactions run under     *)
(* READ COMMITTED: their writes show when they commit, their reads see     *)
(* what others have committed, and updating the order's row holds its lock *)
(* until the end.                                                          *)
(*                                                                         *)
(* Abstractions.  Orders do not meet here, so there is one.  A decision of *)
(* the distributor writes nothing before the order's row and reads nothing *)
(* others write, so its transaction is one step taken while the lock is    *)
(* free.  The outcome's unique index and the row lock are taken together.  *)
(* An invoice's facts are its state and amounts.                           *)
(***************************************************************************)
EXTENDS Naturals, Sequences

CONSTANTS
  Admins,       \* requests of the distributor's users
  Drivers,      \* requests through the order's delivery link
  Syncs,        \* pulls of invoice statuses, which may overlap
  InvoiceFacts, \* what the accounting system may report: [state, total, settled, due]
  MaxChanges,   \* bound: versions of the invoice in the accounting system
  MaxFaults,    \* bound: transactions rolled back
  NoOne

Parties == Admins \cup Drivers \cup Syncs

InvoiceStates == {"DRAFT", "AWAITING_PAYMENT", "PAID", "VOIDED"}
Unsynced == [state |-> "none", total |-> 0, settled |-> 0, due |-> 0]

ASSUME OrderLifecycleAssumption ==
  /\ Admins \cap Drivers = {} /\ Admins \cap Syncs = {} /\ Drivers \cap Syncs = {}
  /\ NoOne \notin Parties
  /\ MaxChanges \in Nat /\ MaxFaults \in Nat
  /\ InvoiceFacts \subseteq [state : InvoiceStates, total : Nat, settled : Nat, due : Nat]

VARIABLES
  status,    \* Order.status
  accepted,  \* an OrderAccepted event exists: runs, links and invoices follow it
  outcome,   \* the OrderDeliveryOutcome row, or "none"
  provider,  \* the accounting system's invoice: [facts, at], at = 0 before it exists
  exported,  \* the export row is COMPLETED
  row,       \* the payment columns of the export row, [facts, at]
  payEvents, \* the InvoicePaymentStatusChanged events, [from, to]
  lock,      \* the transaction holding the order's row
  pc,        \* pc[p]: where request p is
  want,      \* want[p]: the status or outcome it asks for
  snap,      \* snap[s]: the [facts, at] pull s fetched
  decided,   \* decided[p]: the order status its transaction will commit, or "none"
  from,      \* from[s]: the payment status pull s found in the row it read last
  faults

orderVars   == <<status, accepted, outcome>>
invoiceVars == <<provider, exported, row, payEvents>>
localVars   == <<pc, want, snap, decided, from>>
vars == <<orderVars, invoiceVars, lock, localVars, faults>>

Statuses == {"SUBMITTED", "ACCEPTED", "REJECTED", "CANCELLED",
             "DELIVERED", "DELIVERY_FAILED", "COMPLETED"}
Outcomes == {"DELIVERED", "UNABLE_TO_DELIVER"}
PaymentStatuses == {"NOT_SYNCED", "UNPAID", "PART_PAID", "PAID", "VOID"}
Steps == {"idle", "read", "loaded", "locked", "decided", "ok"}
Versions == [facts : InvoiceFacts \cup {Unsynced}, at : 0..MaxChanges]
Never == [facts |-> Unsynced, at |-> 0]

TypeOK ==
  /\ status \in Statuses /\ accepted \in BOOLEAN
  /\ outcome \in Outcomes \cup {"none"}
  /\ provider \in Versions /\ row \in Versions /\ exported \in BOOLEAN
  /\ payEvents \in Seq([from : PaymentStatuses, to : PaymentStatuses])
  /\ lock \in Drivers \cup Syncs \cup {NoOne}
  /\ pc \in [Parties -> Steps]
  /\ want \in [Admins \cup Drivers -> Statuses \cup Outcomes \cup {"none"}]
  /\ snap \in [Syncs -> Versions]
  /\ decided \in [Drivers \cup Syncs -> Statuses \cup {"none"}]
  /\ from \in [Syncs -> PaymentStatuses]
  /\ faults \in 0..MaxFaults

\* submitOrder: an order is created SUBMITTED, or ACCEPTED at once.
Init ==
  /\ \E auto \in BOOLEAN :
       /\ accepted = auto
       /\ status = IF auto THEN "ACCEPTED" ELSE "SUBMITTED"
  /\ outcome = "none"
  /\ provider = Never /\ row = Never /\ exported = FALSE /\ payEvents = <<>>
  /\ lock = NoOne
  /\ pc = [p \in Parties |-> "idle"]
  /\ want = [p \in Admins \cup Drivers |-> "none"]
  /\ snap = [s \in Syncs |-> Never]
  /\ decided = [p \in Drivers \cup Syncs |-> "none"]
  /\ from = [s \in Syncs |-> "NOT_SYNCED"]
  /\ faults = 0

-----------------------------------------------------------------------------
(* The rules the requests share.                                           *)

\* derivePaymentStatus: how paid an invoice is.
PaymentStatus(f) ==
  CASE f.state = "none" -> "NOT_SYNCED"
    [] f.state = "VOIDED" -> "VOID"
    [] f.state = "PAID" -> "PAID"
    [] f.state = "AWAITING_PAYMENT" /\ f.due = 0 /\ f.total > 0 -> "PAID"
    [] f.state \in {"DRAFT", "AWAITING_PAYMENT"} /\ f.settled > 0 /\ f.due > 0 -> "PART_PAID"
    [] OTHER -> "UNPAID"

\* What the completion service reads: the latest export, once it is completed.
InvoicePaid(facts) == exported /\ PaymentStatus(facts) = "PAID"

ReconciledOrNull(s, paid) == \* mutant: no change is written as no status
  CASE s = "DELIVERED" /\ paid -> "COMPLETED"
    [] s = "COMPLETED" /\ ~paid -> "DELIVERED"
    [] OTHER -> "none"

\* resolveCompletion, applied: the status reconcile leaves behind.
Reconciled(s, paid) ==
  CASE s = "DELIVERED" /\ paid -> "COMPLETED"
    [] s = "COMPLETED" /\ ~paid -> "DELIVERED"
    [] OTHER -> s

\* lockOrder: the first update of the order's row waits for the row's lock.
LockOrder(p) == lock = NoOne /\ lock' = p

Unlock(p) == lock' = IF lock = p THEN NoOne ELSE lock

\* A pull that is over leaves nothing behind.
Forget(s) ==
  /\ snap' = [snap EXCEPT ![s] = Never]
  /\ decided' = [decided EXCEPT ![s] = "none"]
  /\ from' = [from EXCEPT ![s] = "NOT_SYNCED"]

Goto(p, step) == pc' = [pc EXCEPT ![p] = step]

-----------------------------------------------------------------------------
(* The distributor: acceptOrder, rejectOrder, cancelOrder.                 *)

\* The statuses from which a decision may be asked for.
MayBecome(target) ==
  CASE target \in {"ACCEPTED", "REJECTED"} -> {"SUBMITTED"}
    [] target = "CANCELLED" -> {"SUBMITTED", "ACCEPTED"}

\* The status check, on a row read outside the transaction.
Decide(a) ==
  /\ pc[a] = "idle"
  /\ \E target \in {"ACCEPTED", "REJECTED", "CANCELLED"} :
       /\ status \in MayBecome(target)
       /\ want' = [want EXCEPT ![a] = target]
  /\ Goto(a, "read")
  /\ UNCHANGED <<orderVars, invoiceVars, lock, snap, decided, from, faults>>

\* The transaction: the order's status, whatever it is by now, and its event.
CommitDecision(a) ==
  /\ pc[a] = "read" /\ lock = NoOne
  /\ status' = want[a]
  /\ accepted' = (accepted \/ want[a] = "ACCEPTED")
  /\ want' = [want EXCEPT ![a] = "none"]
  /\ Goto(a, "idle")
  /\ UNCHANGED <<outcome, invoiceVars, lock, snap, decided, from, faults>>

-----------------------------------------------------------------------------
(* The driver: resolveOrder, then submitOutcome.                           *)

\* The link's guard: a cancelled or rejected order is gone.
OpenLink(d) ==
  /\ pc[d] = "idle" /\ accepted
  /\ status \notin {"CANCELLED", "REJECTED"}
  /\ \E o \in Outcomes : want' = [want EXCEPT ![d] = o]
  /\ Goto(d, "read")
  /\ UNCHANGED <<orderVars, invoiceVars, lock, snap, decided, from, faults>>

\* The unique index lets the outcome in.
Insert(d) == outcome = "none"

\* The transaction's writes: outcome row, audit row, order status, event.
RecordOutcome(d) ==
  /\ pc[d] = "read" /\ Insert(d)
  /\ LockOrder(d)
  /\ Goto(d, "locked")
  /\ UNCHANGED <<orderVars, invoiceVars, want, snap, decided, from, faults>>

\* reconcile sees the status written above and the committed invoice.
ReconcileOutcome(d) ==
  /\ pc[d] = "locked"
  /\ decided' = [decided EXCEPT ![d] =
       IF want[d] = "DELIVERED"
       THEN Reconciled("DELIVERED", InvoicePaid(row.facts)) ELSE "DELIVERY_FAILED"]
  /\ Goto(d, "decided")
  /\ UNCHANGED <<orderVars, invoiceVars, lock, want, snap, from, faults>>

CommitOutcome(d) ==
  /\ pc[d] = "decided"
  /\ outcome' = want[d] /\ status' = decided[d]
  /\ decided' = [decided EXCEPT ![d] = "none"]
  /\ Unlock(d) /\ Goto(d, "ok")
  /\ UNCHANGED <<accepted, invoiceVars, want, snap, from, faults>>

AnyRepeat(d) == TRUE \* mutant: any repeat is taken for the same submission

\* matchesExisting: a repeat of the submission that was recorded.
SameSubmission(d) == outcome = want[d]

\* A unique violation: the recorded outcome is answered, or the conflict is.
RefuseOutcome(d) ==
  /\ pc[d] = "read" /\ outcome # "none"
  /\ \/ SameSubmission(d) /\ Goto(d, "ok") /\ UNCHANGED want
     \/ ~SameSubmission(d) /\ Goto(d, "idle") /\ want' = [want EXCEPT ![d] = "none"]
  /\ UNCHANGED <<orderVars, invoiceVars, lock, snap, decided, from, faults>>

-----------------------------------------------------------------------------
(* The accounting system and the export of the invoice to it.              *)

\* The export's job follows the acceptance and reads the order then: what has
\* become of the order since does not stop it.
ExportInvoice ==
  /\ accepted /\ ~exported /\ MaxChanges > 0
  /\ exported' = TRUE
  /\ \E f \in InvoiceFacts :
       /\ f.settled = 0 /\ f.state \in {"DRAFT", "AWAITING_PAYMENT"}
       /\ provider' = [facts |-> f, at |-> 1]
  /\ UNCHANGED <<orderVars, row, payEvents, lock, localVars, faults>>

\* The distributor's book-keeping: a voided invoice stays voided.
ChangeInvoice ==
  /\ exported /\ provider.at < MaxChanges /\ provider.facts.state # "VOIDED"
  /\ \E f \in InvoiceFacts \ {provider.facts} :
       provider' = [facts |-> f, at |-> provider.at + 1]
  /\ UNCHANGED <<orderVars, exported, row, payEvents, lock, localVars, faults>>

-----------------------------------------------------------------------------
(* The pull of invoice statuses: applyStatuses, then apply.                *)

\* listInvoiceStatuses answers with the invoice as it is now.
Fetch(s) ==
  /\ pc[s] = "idle" /\ exported
  /\ snap' = [snap EXCEPT ![s] = provider]
  /\ Goto(s, "read")
  /\ UNCHANGED <<orderVars, invoiceVars, lock, want, decided, from, faults>>

\* Mutant: a comparison that a row without a state does not pass.
FetchSeen(s) == row.facts.state \notin {"none", "PAID", "VOIDED"} /\ Fetch(s)

\* The scheduler pulls while the export row is not known to be settled.
ScheduledFetch(s) == row.facts.state \notin {"PAID", "VOIDED"} /\ Fetch(s)

\* The row is loaded; a version older than it, or one it has, is passed over.
Load(s) ==
  /\ pc[s] = "read"
  /\ IF snap[s].at < row.at \/ snap[s].facts = row.facts
     THEN Forget(s) /\ Goto(s, "idle")
     ELSE /\ from' = [from EXCEPT ![s] = PaymentStatus(row.facts)]
          /\ Goto(s, "loaded") /\ UNCHANGED <<snap, decided>>
  /\ UNCHANGED <<orderVars, invoiceVars, lock, want, faults>>

ApplyUnlocked(s) == \* mutant: lockOrder is not called
  /\ pc[s] = "loaded" /\ Goto(s, "locked")
  /\ UNCHANGED <<orderVars, invoiceVars, lock, want, snap, decided, from, faults>>

BeginApply(s) ==
  /\ pc[s] = "loaded" /\ LockOrder(s)
  /\ Goto(s, "locked")
  /\ UNCHANGED <<orderVars, invoiceVars, want, snap, decided, from, faults>>

FromAsLoaded(s) == from[s] \* mutant: the status is not read again

\* The row's payment status, read again under the lock.
FromStatus(s) == PaymentStatus(row.facts)

\* apply, when another writer has brought the same facts: nothing is written.
ApplyNothing(s) ==
  /\ pc[s] = "locked" /\ row.facts = snap[s].facts
  /\ Forget(s) /\ Unlock(s) /\ Goto(s, "idle")
  /\ UNCHANGED <<orderVars, invoiceVars, want, faults>>

\* apply: a change of payment status has the order reconciled.
Apply(s) ==
  LET next == Reconciled(status, InvoicePaid(snap[s].facts))
  IN /\ pc[s] = "locked" /\ row.facts # snap[s].facts
     /\ from' = [from EXCEPT ![s] = FromStatus(s)]
     /\ decided' = [decided EXCEPT ![s] =
          IF FromStatus(s) = PaymentStatus(snap[s].facts) \/ next = status
          THEN "none" ELSE next]
     /\ Goto(s, "decided")
     /\ UNCHANGED <<orderVars, invoiceVars, lock, want, snap, faults>>

CommitApply(s) ==
  LET after == PaymentStatus(snap[s].facts)
  IN /\ pc[s] = "decided"
     /\ row' = snap[s]
     /\ payEvents' = IF from[s] = after THEN payEvents
                     ELSE Append(payEvents, [from |-> from[s], to |-> after])
     /\ status' = IF decided[s] = "none" THEN status ELSE decided[s]
     /\ Forget(s) /\ Unlock(s) /\ Goto(s, "idle")
     /\ UNCHANGED <<accepted, outcome, provider, exported, want, faults>>

-----------------------------------------------------------------------------

\* A transaction fails or its process dies; the request may be made again.
RollBack(p) ==
  /\ pc[p] \in {"locked", "decided"} /\ faults < MaxFaults
  /\ faults' = faults + 1
  /\ \/ p \in Syncs /\ Forget(p) /\ UNCHANGED want
     \/ /\ p \in Drivers /\ want' = [want EXCEPT ![p] = "none"]
        /\ decided' = [decided EXCEPT ![p] = "none"] /\ UNCHANGED <<snap, from>>
  /\ Unlock(p) /\ Goto(p, "idle")
  /\ UNCHANGED <<orderVars, invoiceVars>>

DriverStep(d) ==
  RecordOutcome(d) \/ ReconcileOutcome(d) \/ CommitOutcome(d) \/ RefuseOutcome(d)

SyncStep(s) ==
  Load(s) \/ BeginApply(s) \/ ApplyNothing(s) \/ Apply(s) \/ CommitApply(s)

\* Nobody asks for anything.
Rest ==
  /\ \A p \in Parties : pc[p] \in {"idle", "ok"}
  /\ UNCHANGED vars

Next ==
  \/ \E a \in Admins : Decide(a) \/ CommitDecision(a)
  \/ \E d \in Drivers : OpenLink(d) \/ DriverStep(d)
  \/ \E s \in Syncs : Fetch(s) \/ SyncStep(s)
  \/ \E p \in Drivers \cup Syncs : RollBack(p)
  \/ ExportInvoice \/ ChangeInvoice
  \/ Rest

\* A request the server has taken runs to its end, an accepted order's invoice
\* is exported, and the scheduler pulls: who asks for what is up to the users.
Fairness ==
  /\ \A a \in Admins : WF_vars(CommitDecision(a))
  /\ \A d \in Drivers : WF_vars(DriverStep(d))
  /\ \A s \in Syncs : WF_vars(SyncStep(s)) /\ WF_vars(ScheduledFetch(s))
  /\ WF_vars(ExportInvoice)

Spec == Init /\ [][Next]_vars /\ Fairness

-----------------------------------------------------------------------------
(* Properties.                                                             *)

\* No committed state has the order delivered and its invoice paid without the
\* order being completed, or completed without the invoice being paid: delivery
\* and payment sync each read what the other writes (lockOrder, reconcile).
CompletionAgrees ==
  /\ status = "DELIVERED" => ~InvoicePaid(row.facts)
  /\ status = "COMPLETED" => InvoicePaid(row.facts)

\* A driver who was told that the outcome is recorded sent the outcome that is
\* on record, through retries and races with another device (submitOutcome).
RecordedAsTold ==
  \A d \in Drivers : pc[d] = "ok" => outcome = want[d]

\* The payment status events tell one story: each starts where the last ended,
\* each is a change, and the last one ends at the row's status. Overlapping
\* pulls must neither repeat an event nor skip one (apply).
PaymentEventsChain ==
  LET n == Len(payEvents)
  IN /\ \A i \in 1..n :
          /\ payEvents[i].from # payEvents[i].to
          /\ payEvents[i].from = IF i = 1 THEN "NOT_SYNCED" ELSE payEvents[i - 1].to
     /\ PaymentStatus(row.facts) = IF n = 0 THEN "NOT_SYNCED" ELSE payEvents[n].to

\* Requests take effect one at a time: what committed transactions leave behind
\* could have been left by requests that each acted in a single step, on the
\* state they found, although every one of them reads before it writes, and
\* delivery and payment plan a status before they commit it (lockOrder).
Completion == INSTANCE OrderCompletion WITH
  None <- "none", payment <- PaymentStatus(row.facts),
  asked <- [a \in Admins |-> want[a]]
OneAtATime == Completion!Safety

\* A delivery recorded for good and an invoice paid for good do not leave the
\* order DELIVERED: the pulls notice the payment, whatever was in flight.
PaidDeliveryCompletes ==
  <>[](outcome = "DELIVERED" /\ PaymentStatus(provider.facts) = "PAID")
    => <>[](status # "DELIVERED")

=============================================================================
