------------------------ MODULE OrderLifecycleProofs ------------------------
(***************************************************************************)
(* Theorems about the life of an order, for any requests, drivers, pulls,  *)
(* invoice facts and bounds.                                               *)
(*                                                                         *)
(* What keeps delivery and payment from missing each other is that a       *)
(* transaction which has read what the other side wrote holds the order's  *)
(* row: its plan is still right when it commits.  OrderInv says so for the *)
(* plan of a driver (DriverPlan) and of a pull (SyncPlan).                 *)
(*                                                                         *)
(* The same holds in full: the plan is what would be planned at the commit *)
(* (PlanInv), so that requests which read, wait and write act as though    *)
(* each were one step (OrderCompletion).                                   *)
(***************************************************************************)
EXTENDS OrderLifecycle, TLAPS

-----------------------------------------------------------------------------
(* The inductive invariant *)

\* A delivered order's invoice is not paid, a completed order's is.
Agree(s, paid) == (s = "DELIVERED" => ~paid) /\ (s = "COMPLETED" => paid)

InTransaction(p) == pc[p] \in {"locked", "decided"}

\* A request under way asks for something it may ask for.
Asked ==
  /\ \A a \in Admins : pc[a] = "read" => want[a] \in {"ACCEPTED", "REJECTED", "CANCELLED"}
  /\ \A d \in Drivers : pc[d] \in {"read", "locked", "decided", "ok"} => want[d] \in Outcomes

\* A transaction under way holds the order's row.
Held == \A p \in Drivers \cup Syncs : InTransaction(p) => lock = p

\* While an outcome is being recorded none is on record.
Open == \A d \in Drivers : InTransaction(d) => outcome = "none"

\* What a driver's transaction will commit agrees with the invoice.
DriverPlan ==
  \A d \in Drivers : pc[d] = "decided" =>
    decided[d] \in Statuses /\ Agree(decided[d], InvoicePaid(row.facts))

\* What a pull's transaction will commit agrees with the facts it brings.
SyncPlan ==
  \A s \in Syncs : pc[s] = "decided" =>
    /\ from[s] = PaymentStatus(row.facts)
    /\ Agree(IF decided[s] = "none" THEN status ELSE decided[s], InvoicePaid(snap[s].facts))

\* Nothing is pulled for an invoice that is not exported.
ExportedFirst ==
  /\ \A s \in Syncs : pc[s] # "idle" => exported
  /\ ~exported => row = Never

OrderInv ==
  /\ TypeOK
  /\ Asked /\ Held /\ Open /\ DriverPlan /\ SyncPlan /\ ExportedFirst
  /\ CompletionAgrees /\ RecordedAsTold

-----------------------------------------------------------------------------
(* The rules *)

\* The payment status of an invoice is one of five.
LEMMA PaymentStatusType == \A f : PaymentStatus(f) \in PaymentStatuses
  BY DEF PaymentStatus, PaymentStatuses

\* Reconciling a status makes it agree with the invoice, whatever it was.
LEMMA ReconciledAgrees ==
  ASSUME NEW s \in Statuses, NEW paid \in BOOLEAN
  PROVE  Reconciled(s, paid) \in Statuses /\ Agree(Reconciled(s, paid), paid)
<1>1. CASE paid
  BY <1>1 DEF Reconciled, Agree, Statuses
<1>2. CASE ~paid
  BY <1>2 DEF Reconciled, Agree, Statuses
<1>. QED
  BY <1>1, <1>2

-----------------------------------------------------------------------------
(* Invariance *)

\* The order is new: nothing is delivered, exported or asked for.
LEMMA OrderInit == Init => OrderInv
<1>. SUFFICES ASSUME Init
              PROVE  OrderInv
  OBVIOUS
<1>1. status \in {"SUBMITTED", "ACCEPTED"} /\ accepted \in BOOLEAN
  BY DEF Init
<1>2. TypeOK
  <2>1. Never \in Versions /\ faults \in 0..MaxFaults
    BY OrderLifecycleAssumption DEF OrderLifecycleAssumption, Init, Never, Versions
  <2>2. payEvents \in Seq([from : PaymentStatuses, to : PaymentStatuses])
    BY DEF Init
  <2>3. /\ status \in Statuses /\ accepted \in BOOLEAN /\ exported \in BOOLEAN
        /\ outcome \in Outcomes \cup {"none"} /\ provider \in Versions /\ row \in Versions
        /\ lock \in Drivers \cup Syncs \cup {NoOne}
    BY <1>1, <2>1 DEF Init, Statuses
  <2>4. /\ pc \in [Parties -> Steps]
        /\ want \in [Admins \cup Drivers -> Statuses \cup Outcomes \cup {"none"}]
        /\ snap \in [Syncs -> Versions]
        /\ decided \in [Drivers \cup Syncs -> Statuses \cup {"none"}]
        /\ from \in [Syncs -> PaymentStatuses]
    BY <2>1 DEF Init, Steps, PaymentStatuses
  <2>. QED
    BY <2>1, <2>2, <2>3, <2>4 DEF TypeOK
<1>3. Asked /\ Held /\ Open /\ DriverPlan /\ SyncPlan /\ ExportedFirst
  BY OrderLifecycleAssumption
  DEF OrderLifecycleAssumption, Init, Asked, Held, Open, DriverPlan, SyncPlan,
      ExportedFirst, InTransaction, Parties
<1>4. CompletionAgrees /\ RecordedAsTold
  BY <1>1 DEF Init, CompletionAgrees, RecordedAsTold, Parties
<1>. QED
  BY <1>2, <1>3, <1>4 DEF OrderInv

\* A decision of the distributor, asked for or carried out: it never makes the
\* order delivered, and never overtakes a transaction.
LEMMA DecisionKeepsInv ==
  ASSUME OrderInv, NEW a \in Admins, Decide(a) \/ CommitDecision(a)
  PROVE  OrderInv'
<1>. USE OrderLifecycleAssumption DEF OrderLifecycleAssumption, Parties
<1>1. CASE Decide(a)
  <2>1. PICK target \in {"ACCEPTED", "REJECTED", "CANCELLED"} :
          want' = [want EXCEPT ![a] = target]
    BY <1>1 DEF Decide
  <2>2. /\ UNCHANGED <<orderVars, invoiceVars, lock, snap, decided, from, faults>>
        /\ pc' = [pc EXCEPT ![a] = "read"]
    BY <1>1 DEF Decide, Goto
  <2>3. TypeOK'
    BY <2>1, <2>2
    DEF OrderInv, TypeOK, orderVars, invoiceVars, Statuses, Steps
  <2>4. Asked' /\ Held' /\ Open' /\ RecordedAsTold'
    BY <2>1, <2>2
    DEF OrderInv, TypeOK, Asked, Held, Open, InTransaction, RecordedAsTold, orderVars
  <2>5. DriverPlan' /\ SyncPlan' /\ ExportedFirst' /\ CompletionAgrees'
    BY <2>2
    DEF OrderInv, TypeOK, DriverPlan, SyncPlan, ExportedFirst, CompletionAgrees,
        InvoicePaid, orderVars, invoiceVars
  <2>. QED
    BY <2>3, <2>4, <2>5 DEF OrderInv
<1>2. CASE CommitDecision(a)
  <2>1. /\ pc[a] = "read" /\ lock = NoOne /\ status' = want[a]
        /\ want' = [want EXCEPT ![a] = "none"]
        /\ accepted' = (accepted \/ want[a] = "ACCEPTED")
        /\ UNCHANGED <<outcome, invoiceVars, lock, snap, decided, from, faults>>
        /\ pc' = [pc EXCEPT ![a] = "idle"]
    BY <1>2 DEF CommitDecision, Goto
  <2>2. status' \in {"ACCEPTED", "REJECTED", "CANCELLED"}
    BY <2>1 DEF OrderInv, Asked
  <2>3. TypeOK'
    BY <2>1, <2>2 DEF OrderInv, TypeOK, invoiceVars, Statuses, Steps
  <2>4. Asked' /\ Held' /\ Open' /\ RecordedAsTold'
    BY <2>1
    DEF OrderInv, TypeOK, Asked, Held, Open, InTransaction, RecordedAsTold
  <2>5. \A p \in Drivers \cup Syncs : ~InTransaction(p)'
    BY <2>1 DEF OrderInv, TypeOK, Held, InTransaction
  <2>6. DriverPlan' /\ SyncPlan' /\ ExportedFirst' /\ CompletionAgrees'
    BY <2>1, <2>2, <2>5
    DEF OrderInv, TypeOK, DriverPlan, SyncPlan, ExportedFirst, CompletionAgrees,
        InTransaction, invoiceVars
  <2>. QED
    BY <2>3, <2>4, <2>6 DEF OrderInv
<1>. QED
  BY <1>1, <1>2

\* A request through the delivery link, up to its answer.
LEMMA DriverKeepsInv ==
  ASSUME OrderInv, NEW d \in Drivers, OpenLink(d) \/ DriverStep(d)
  PROVE  OrderInv'
<1>. USE OrderLifecycleAssumption DEF OrderLifecycleAssumption, Parties
<1>1. CASE OpenLink(d)
  <2>1. PICK o \in Outcomes : want' = [want EXCEPT ![d] = o]
    BY <1>1 DEF OpenLink
  <2>2. /\ pc[d] = "idle"
        /\ UNCHANGED <<orderVars, invoiceVars, lock, snap, decided, from, faults>>
        /\ pc' = [pc EXCEPT ![d] = "read"]
    BY <1>1 DEF OpenLink, Goto
  <2>3. TypeOK'
    BY <2>1, <2>2 DEF OrderInv, TypeOK, orderVars, invoiceVars, Steps
  <2>4. Asked' /\ Held' /\ Open' /\ RecordedAsTold'
    BY <2>1, <2>2
    DEF OrderInv, TypeOK, Asked, Held, Open, InTransaction, RecordedAsTold, orderVars
  <2>5. DriverPlan' /\ SyncPlan' /\ ExportedFirst' /\ CompletionAgrees'
    BY <2>2
    DEF OrderInv, TypeOK, DriverPlan, SyncPlan, ExportedFirst, CompletionAgrees,
        InvoicePaid, orderVars, invoiceVars
  <2>. QED
    BY <2>3, <2>4, <2>5 DEF OrderInv
<1>2. CASE RecordOutcome(d)
  <2>1. /\ pc[d] = "read" /\ outcome = "none" /\ lock = NoOne /\ lock' = d
        /\ UNCHANGED <<orderVars, invoiceVars, want, snap, decided, from, faults>>
        /\ pc' = [pc EXCEPT ![d] = "locked"]
    BY <1>2 DEF RecordOutcome, Insert, LockOrder, Goto
  <2>2. TypeOK'
    BY <2>1 DEF OrderInv, TypeOK, orderVars, invoiceVars, Steps
  <2>3. Asked' /\ Held' /\ Open' /\ RecordedAsTold'
    BY <2>1
    DEF OrderInv, TypeOK, Asked, Held, Open, InTransaction, RecordedAsTold, orderVars
  <2>4. DriverPlan' /\ SyncPlan' /\ ExportedFirst' /\ CompletionAgrees'
    BY <2>1
    DEF OrderInv, TypeOK, DriverPlan, SyncPlan, ExportedFirst, CompletionAgrees,
        InvoicePaid, orderVars, invoiceVars
  <2>. QED
    BY <2>2, <2>3, <2>4 DEF OrderInv
<1>3. CASE ReconcileOutcome(d)
  <2>. DEFINE plan == IF want[d] = "DELIVERED"
                      THEN Reconciled("DELIVERED", InvoicePaid(row.facts))
                      ELSE "DELIVERY_FAILED"
  <2>1. /\ pc[d] = "locked" /\ decided' = [decided EXCEPT ![d] = plan]
        /\ UNCHANGED <<orderVars, invoiceVars, lock, want, snap, from, faults>>
        /\ pc' = [pc EXCEPT ![d] = "decided"]
    BY <1>3 DEF ReconcileOutcome, Goto
  <2>2. plan \in Statuses /\ Agree(plan, InvoicePaid(row.facts))
    <3>1. InvoicePaid(row.facts) \in BOOLEAN /\ "DELIVERED" \in Statuses
      BY DEF InvoicePaid, Statuses, OrderInv, TypeOK
    <3>2. CASE want[d] = "DELIVERED"
      BY <3>1, <3>2, ReconciledAgrees
    <3>3. CASE want[d] # "DELIVERED"
      BY <3>3 DEF Agree, Statuses
    <3>. QED
      BY <3>2, <3>3
  <2>. HIDE DEF plan
  <2>3. TypeOK'
    BY <2>1, <2>2 DEF OrderInv, TypeOK, orderVars, invoiceVars, Steps
  <2>4. Asked' /\ Held' /\ Open' /\ RecordedAsTold'
    BY <2>1
    DEF OrderInv, TypeOK, Asked, Held, Open, InTransaction, RecordedAsTold, orderVars
  <2>5. InvoicePaid(row.facts)' = InvoicePaid(row.facts)
    BY <2>1 DEF InvoicePaid, invoiceVars
  <2>6. DriverPlan'
    BY <2>1, <2>2, <2>5 DEF OrderInv, TypeOK, DriverPlan, Agree
  <2>7. SyncPlan' /\ ExportedFirst' /\ CompletionAgrees'
    BY <2>1
    DEF OrderInv, TypeOK, SyncPlan, ExportedFirst, CompletionAgrees,
        InvoicePaid, orderVars, invoiceVars
  <2>. QED
    BY <2>3, <2>4, <2>6, <2>7 DEF OrderInv
<1>4. CASE CommitOutcome(d)
  <2>1. /\ pc[d] = "decided" /\ outcome' = want[d] /\ status' = decided[d]
        /\ decided' = [decided EXCEPT ![d] = "none"]
        /\ UNCHANGED <<accepted, invoiceVars, want, snap, from, faults>>
        /\ pc' = [pc EXCEPT ![d] = "ok"]
    BY <1>4 DEF CommitOutcome, Goto
  <2>2. lock = d /\ lock' = NoOne
    BY <1>4, <2>1 DEF CommitOutcome, Unlock, OrderInv, Held, InTransaction
  <2>3. want[d] \in Outcomes /\ outcome = "none" /\ decided[d] \in Statuses
    BY <2>1 DEF OrderInv, Asked, Open, DriverPlan, InTransaction
  <2>4. TypeOK'
    BY <2>1, <2>2, <2>3 DEF OrderInv, TypeOK, invoiceVars, Steps
  <2>5. \A p \in Drivers \cup Syncs : ~InTransaction(p)'
    BY <2>1, <2>2 DEF OrderInv, TypeOK, Held, InTransaction
  <2>6. Asked' /\ Held' /\ Open' /\ DriverPlan' /\ SyncPlan'
    BY <2>1, <2>5
    DEF OrderInv, TypeOK, Asked, Held, Open, InTransaction, DriverPlan, SyncPlan
  <2>7. RecordedAsTold'
    <3>1. \A e \in Drivers : pc[e] = "ok" => FALSE
      BY <2>3 DEF OrderInv, RecordedAsTold, Asked, Outcomes
    <3>. QED
      BY <2>1, <3>1 DEF OrderInv, TypeOK, RecordedAsTold
  <2>8. ExportedFirst'
    BY <2>1 DEF OrderInv, TypeOK, ExportedFirst, invoiceVars
  <2>9. CompletionAgrees'
    BY <2>1 DEF OrderInv, DriverPlan, Agree, CompletionAgrees, InvoicePaid, invoiceVars
  <2>. QED
    BY <2>4, <2>6, <2>7, <2>8, <2>9 DEF OrderInv
<1>5. CASE RefuseOutcome(d)
  <2>1. /\ pc[d] = "read" /\ outcome # "none"
        /\ UNCHANGED <<orderVars, invoiceVars, lock, snap, decided, from, faults>>
        /\ \/ pc' = [pc EXCEPT ![d] = "ok"] /\ want' = want /\ outcome = want[d]
           \/ pc' = [pc EXCEPT ![d] = "idle"] /\ want' = [want EXCEPT ![d] = "none"]
    BY <1>5 DEF RefuseOutcome, SameSubmission, Goto
  <2>2. TypeOK'
    BY <2>1 DEF OrderInv, TypeOK, orderVars, invoiceVars, Steps
  <2>3. Asked' /\ Held' /\ Open' /\ RecordedAsTold'
    BY <2>1
    DEF OrderInv, TypeOK, Asked, Held, Open, InTransaction, RecordedAsTold, orderVars
  <2>4. DriverPlan' /\ SyncPlan' /\ ExportedFirst' /\ CompletionAgrees'
    BY <2>1
    DEF OrderInv, TypeOK, DriverPlan, SyncPlan, ExportedFirst, CompletionAgrees,
        InvoicePaid, orderVars, invoiceVars
  <2>. QED
    BY <2>2, <2>3, <2>4 DEF OrderInv
<1>. QED
  BY <1>1, <1>2, <1>3, <1>4, <1>5 DEF DriverStep

\* The accounting system: exporting the invoice and changing it there touch
\* nothing a transaction has read.
LEMMA InvoiceKeepsInv ==
  ASSUME OrderInv, ExportInvoice \/ ChangeInvoice
  PROVE  OrderInv'
<1>. USE OrderLifecycleAssumption DEF OrderLifecycleAssumption, Parties
<1>1. /\ UNCHANGED <<orderVars, row, payEvents, lock, localVars, faults>>
      /\ exported' \in BOOLEAN /\ (exported => exported') /\ provider' \in Versions
      /\ exported' # exported => ~exported
  <2>1. CASE ExportInvoice
    <3>1. PICK f \in InvoiceFacts : provider' = [facts |-> f, at |-> 1]
      BY <2>1 DEF ExportInvoice
    <3>2. 1 \in 0..MaxChanges
      BY <2>1 DEF ExportInvoice
    <3>3. provider' \in Versions
      BY <3>1, <3>2 DEF Versions
    <3>. QED
      BY <2>1, <3>3 DEF ExportInvoice
  <2>2. CASE ChangeInvoice
    <3>1. provider.at + 1 \in 0..MaxChanges
      BY <2>2 DEF ChangeInvoice, OrderInv, TypeOK, Versions
    <3>. QED
      BY <2>2, <3>1 DEF ChangeInvoice, Versions, OrderInv, TypeOK
  <2>. QED
    BY <2>1, <2>2
<1>2. TypeOK'
  BY <1>1 DEF OrderInv, TypeOK, orderVars, localVars
<1>3. Asked' /\ Held' /\ Open' /\ RecordedAsTold'
  BY <1>1
  DEF OrderInv, Asked, Held, Open, InTransaction, RecordedAsTold, orderVars, localVars
<1>4. InvoicePaid(row.facts)' = InvoicePaid(row.facts)
  <2>1. CASE exported' = exported
    BY <1>1, <2>1 DEF InvoicePaid
  <2>2. CASE ~exported
    <3>1. PaymentStatus(row.facts) = "NOT_SYNCED"
      BY <2>2 DEF OrderInv, ExportedFirst, Never, Unsynced, PaymentStatus
    <3>. QED
      BY <1>1, <3>1 DEF InvoicePaid
  <2>. QED
    BY <1>1, <2>1, <2>2
<1>5. DriverPlan' /\ CompletionAgrees'
  BY <1>1, <1>4 DEF OrderInv, DriverPlan, CompletionAgrees, Agree, orderVars, localVars
<1>6. SyncPlan'
  <2>. SUFFICES ASSUME NEW s \in Syncs, pc[s] = "decided"
                PROVE  /\ from[s] = PaymentStatus(row.facts)
                       /\ Agree(IF decided[s] = "none" THEN status ELSE decided[s],
                                InvoicePaid(snap[s].facts)')
    BY <1>1 DEF SyncPlan, orderVars, localVars
  <2>1. exported
    BY DEF OrderInv, ExportedFirst
  <2>. QED
    BY <1>1, <2>1 DEF OrderInv, SyncPlan, InvoicePaid, Agree, localVars
<1>7. ExportedFirst'
  BY <1>1 DEF OrderInv, ExportedFirst, localVars
<1>. QED
  BY <1>2, <1>3, <1>5, <1>6, <1>7 DEF OrderInv

\* A pull until its transaction has read the order: it changes nothing others
\* can see but the lock, and what it plans agrees with what it brings.
LEMMA PullKeepsInv ==
  ASSUME OrderInv, NEW s \in Syncs,
         Fetch(s) \/ Load(s) \/ BeginApply(s) \/ ApplyNothing(s) \/ Apply(s)
  PROVE  OrderInv'
<1>. USE OrderLifecycleAssumption DEF OrderLifecycleAssumption, Parties
<1>1. /\ UNCHANGED <<orderVars, invoiceVars, want, faults>>
      /\ \A p \in Parties : p # s => pc'[p] = pc[p]
      /\ \A p \in Drivers \cup Syncs : p # s => decided'[p] = decided[p]
      /\ \A p \in Syncs : p # s => snap'[p] = snap[p] /\ from'[p] = from[p]
  BY DEF OrderInv, TypeOK, Fetch, Load, BeginApply, ApplyNothing, Apply, Forget, Goto
<1>2. /\ pc' \in [Parties -> Steps] /\ snap' \in [Syncs -> Versions]
      /\ decided' \in [Drivers \cup Syncs -> Statuses \cup {"none"}]
      /\ from' \in [Syncs -> PaymentStatuses]
      /\ lock' \in Drivers \cup Syncs \cup {NoOne}
  <2>1. Never \in Versions
    BY DEF Never, Versions
  <2>2. PaymentStatus(row.facts) \in PaymentStatuses /\ "NOT_SYNCED" \in PaymentStatuses
    BY PaymentStatusType DEF PaymentStatuses
  <2>3. CASE Fetch(s) \/ BeginApply(s)
    BY <2>3 DEF OrderInv, TypeOK, Fetch, BeginApply, LockOrder, Goto, Steps
  <2>4. CASE Load(s) \/ ApplyNothing(s)
    BY <2>1, <2>2, <2>4 DEF OrderInv, TypeOK, Load, ApplyNothing, Forget, Unlock, Goto, Steps
  <2>5. CASE Apply(s)
    <3>1. Reconciled(status, InvoicePaid(snap[s].facts)) \in Statuses
      BY ReconciledAgrees DEF OrderInv, TypeOK, InvoicePaid
    <3>. QED
      BY <2>2, <2>5, <3>1 DEF OrderInv, TypeOK, Apply, FromStatus, Goto, Steps
  <2>. QED
    BY <2>3, <2>4, <2>5
<1>3. TypeOK'
  BY <1>1, <1>2 DEF OrderInv, TypeOK, orderVars, invoiceVars
<1>4. Held'
  BY <1>2
  DEF OrderInv, TypeOK, Held, InTransaction, Fetch, Load, BeginApply, ApplyNothing, Apply,
      LockOrder, Unlock, Goto
<1>5. Asked' /\ Open' /\ RecordedAsTold'
  BY <1>1 DEF OrderInv, Asked, Open, InTransaction, RecordedAsTold, orderVars
<1>6. DriverPlan' /\ CompletionAgrees'
  BY <1>1
  DEF OrderInv, DriverPlan, CompletionAgrees, InvoicePaid, orderVars, invoiceVars
<1>7. ExportedFirst'
  BY <1>1 DEF OrderInv, ExportedFirst, Fetch, Load, BeginApply, ApplyNothing, Apply, invoiceVars
<1>8. SyncPlan'
  <2>. SUFFICES ASSUME NEW p \in Syncs, pc'[p] = "decided"
                PROVE  /\ from'[p] = PaymentStatus(row.facts)
                       /\ Agree(IF decided'[p] = "none" THEN status ELSE decided'[p],
                                InvoicePaid(snap'[p].facts))
    BY <1>1 DEF SyncPlan, InvoicePaid, orderVars, invoiceVars
  <2>1. CASE p # s
    BY <1>1, <2>1 DEF OrderInv, SyncPlan
  <2>2. CASE p = s
    <3>. DEFINE before == PaymentStatus(row.facts)
                after  == PaymentStatus(snap[s].facts)
                next   == Reconciled(status, InvoicePaid(snap[s].facts))
    <3>1. Apply(s)
      BY <2>2 DEF OrderInv, TypeOK, Fetch, Load, BeginApply, ApplyNothing, Goto
    <3>2. /\ from'[s] = before /\ snap' = snap
          /\ decided'[s] = IF before = after \/ next = status THEN "none" ELSE next
      BY <3>1 DEF OrderInv, TypeOK, Apply, FromStatus
    <3>3. next \in Statuses /\ Agree(next, InvoicePaid(snap[s].facts))
      BY ReconciledAgrees DEF OrderInv, TypeOK, InvoicePaid
    <3>4. CASE before = after
      <4>1. Agree(status, InvoicePaid(snap[s].facts))
        BY <3>4 DEF OrderInv, CompletionAgrees, InvoicePaid, Agree
      <4>. QED
        BY <2>2, <3>2, <3>4, <4>1
    <3>5. CASE before # after /\ next = status
      BY <2>2, <3>2, <3>3, <3>5
    <3>6. CASE before # after /\ next # status
      <4>1. next # "none"
        BY <3>3 DEF Statuses
      <4>. QED
        BY <2>2, <3>2, <3>3, <3>6, <4>1
    <3>. QED
      BY <3>4, <3>5, <3>6
  <2>. QED
    BY <2>1, <2>2
<1>. QED
  BY <1>3, <1>4, <1>5, <1>6, <1>7, <1>8 DEF OrderInv

\* What a pull commits: the columns and the status agree once more.
LEMMA CommitApplyKeepsInv ==
  ASSUME OrderInv, NEW s \in Syncs, CommitApply(s)
  PROVE  OrderInv'
<1>. USE OrderLifecycleAssumption DEF OrderLifecycleAssumption, Parties
<1>. DEFINE next == IF decided[s] = "none" THEN status ELSE decided[s]
<1>1. /\ pc[s] = "decided" /\ lock = s /\ lock' = NoOne
      /\ row' = snap[s] /\ status' = next
      /\ UNCHANGED <<accepted, outcome, provider, exported, want, faults>>
      /\ pc' = [pc EXCEPT ![s] = "idle"]
      /\ snap' = [snap EXCEPT ![s] = Never]
      /\ decided' = [decided EXCEPT ![s] = "none"]
      /\ from' = [from EXCEPT ![s] = "NOT_SYNCED"]
  BY DEF CommitApply, Forget, Unlock, Goto, OrderInv, Held, InTransaction
<1>2. \A p \in Drivers \cup Syncs : ~InTransaction(p)'
  BY <1>1 DEF OrderInv, TypeOK, Held, InTransaction
<1>3. TypeOK'
  <2>1. payEvents' \in Seq([from : PaymentStatuses, to : PaymentStatuses])
    <3>1. from[s] \in PaymentStatuses /\ PaymentStatus(snap[s].facts) \in PaymentStatuses
      BY PaymentStatusType DEF OrderInv, TypeOK
    <3>. DEFINE e == [from |-> from[s], to |-> PaymentStatus(snap[s].facts)]
    <3>2. e \in [from : PaymentStatuses, to : PaymentStatuses]
      BY <3>1
    <3>3. payEvents' \in {payEvents, Append(payEvents, e)}
      BY DEF CommitApply
    <3>4. payEvents \in Seq([from : PaymentStatuses, to : PaymentStatuses])
      BY DEF OrderInv, TypeOK
    <3>. HIDE DEF e
    <3>5. Append(payEvents, e) \in Seq([from : PaymentStatuses, to : PaymentStatuses])
      BY <3>2, <3>4
    <3>. QED
      BY <3>3, <3>4, <3>5
  <2>2. Never \in Versions /\ "NOT_SYNCED" \in PaymentStatuses
    BY DEF Never, Versions, PaymentStatuses
  <2>. QED
    BY <1>1, <2>1, <2>2 DEF OrderInv, TypeOK, Steps
<1>4. Asked' /\ Held' /\ Open' /\ DriverPlan' /\ SyncPlan'
  BY <1>1, <1>2
  DEF OrderInv, TypeOK, Asked, Held, Open, InTransaction, DriverPlan, SyncPlan
<1>5. RecordedAsTold' /\ ExportedFirst'
  BY <1>1 DEF OrderInv, TypeOK, RecordedAsTold, ExportedFirst
<1>6. CompletionAgrees'
  BY <1>1 DEF OrderInv, SyncPlan, Agree, CompletionAgrees, InvoicePaid
<1>. QED
  BY <1>3, <1>4, <1>5, <1>6 DEF OrderInv

\* A transaction rolled back leaves the lock and nothing else behind.
LEMMA RollBackKeepsInv ==
  ASSUME OrderInv, NEW p \in Drivers \cup Syncs, RollBack(p)
  PROVE  OrderInv'
<1>. USE OrderLifecycleAssumption DEF OrderLifecycleAssumption, Parties
<1>1. /\ UNCHANGED <<orderVars, invoiceVars>> /\ faults' = faults + 1 /\ faults < MaxFaults
      /\ InTransaction(p) /\ pc' = [pc EXCEPT ![p] = "idle"]
      /\ lock = p /\ lock' = NoOne
      /\ decided' = [decided EXCEPT ![p] = "none"]
  BY DEF RollBack, Forget, Unlock, Goto, OrderInv, Held, InTransaction
<1>2. \/ /\ p \in Syncs /\ want' = want
         /\ snap' = [snap EXCEPT ![p] = Never]
         /\ from' = [from EXCEPT ![p] = "NOT_SYNCED"]
      \/ /\ p \in Drivers /\ want' = [want EXCEPT ![p] = "none"]
         /\ UNCHANGED <<snap, from>>
  BY DEF RollBack, Forget
<1>3. \A q \in Drivers \cup Syncs : ~InTransaction(q)'
  BY <1>1 DEF OrderInv, TypeOK, Held, InTransaction
<1>4. TypeOK'
  <2>1. Never \in Versions /\ "NOT_SYNCED" \in PaymentStatuses
    BY DEF Never, Versions, PaymentStatuses
  <2>2. /\ want' \in [Admins \cup Drivers -> Statuses \cup Outcomes \cup {"none"}]
        /\ snap' \in [Syncs -> Versions] /\ from' \in [Syncs -> PaymentStatuses]
    BY <1>2, <2>1 DEF OrderInv, TypeOK
  <2>. QED
    BY <1>1, <2>2 DEF OrderInv, TypeOK, orderVars, invoiceVars, Steps
<1>5. Asked' /\ RecordedAsTold'
  BY <1>1, <1>2 DEF OrderInv, TypeOK, Asked, RecordedAsTold, orderVars
<1>6. Held' /\ Open' /\ DriverPlan' /\ SyncPlan'
  BY <1>3 DEF Held, Open, InTransaction, DriverPlan, SyncPlan
<1>7. ExportedFirst' /\ CompletionAgrees'
  BY <1>1
  DEF OrderInv, TypeOK, ExportedFirst, CompletionAgrees, InvoicePaid, orderVars, invoiceVars
<1>. QED
  BY <1>4, <1>5, <1>6, <1>7 DEF OrderInv

\* Every step keeps the invariant.
LEMMA OrderNext == OrderInv /\ [Next]_vars => OrderInv'
<1>. SUFFICES ASSUME OrderInv, [Next]_vars
              PROVE  OrderInv'
  OBVIOUS
<1>1. CASE \E a \in Admins : Decide(a) \/ CommitDecision(a)
  BY <1>1, DecisionKeepsInv
<1>2. CASE \E d \in Drivers : OpenLink(d) \/ DriverStep(d)
  BY <1>2, DriverKeepsInv
<1>3. CASE \E s \in Syncs : Fetch(s) \/ SyncStep(s)
  BY <1>3, PullKeepsInv, CommitApplyKeepsInv DEF SyncStep
<1>4. CASE \E p \in Drivers \cup Syncs : RollBack(p)
  BY <1>4, RollBackKeepsInv
<1>5. CASE ExportInvoice \/ ChangeInvoice
  BY <1>5, InvoiceKeepsInv
<1>6. CASE UNCHANGED vars
  BY <1>6
  DEF vars, orderVars, invoiceVars, localVars, OrderInv, TypeOK, Asked, Held, Open,
      InTransaction, DriverPlan, SyncPlan, ExportedFirst, CompletionAgrees,
      RecordedAsTold, InvoicePaid
<1>. QED
  BY <1>1, <1>2, <1>3, <1>4, <1>5, <1>6 DEF Next, Rest

LEMMA OrderInvariance == Spec => []OrderInv
<1>. QED
  BY OrderInit, OrderNext, PTL DEF Spec

-----------------------------------------------------------------------------
(* Theorems *)

\* Order, outcome, invoice and requests keep their types: a reconciliation that
\* finds nothing to do never writes a status that is none.
THEOREM OrderTypeCorrect == Spec => []TypeOK
<1>. QED
  BY OrderInvariance, PTL DEF OrderInv

\* Delivery and payment never miss each other, however many drivers and pulls
\* are at work: no committed state is delivered and paid yet not completed.
THEOREM CompletionIsRight == Spec => []CompletionAgrees
<1>. QED
  BY OrderInvariance, PTL DEF OrderInv

\* A driver told that an outcome is recorded sent the outcome on record.
THEOREM DriversAreToldRight == Spec => []RecordedAsTold
<1>. QED
  BY OrderInvariance, PTL DEF OrderInv

\* However pulls overlap, the payment events form one chain from NOT_SYNCED to
\* the status of the row.
THEOREM PaymentEventsAreAChain == Spec => []PaymentEventsChain
<1>1. Init => PaymentEventsChain
  BY DEF Init, PaymentEventsChain, PaymentStatus, Never, Unsynced
<1>2. OrderInv /\ PaymentEventsChain /\ [Next]_vars => PaymentEventsChain'
  <2>. SUFFICES ASSUME OrderInv, PaymentEventsChain, [Next]_vars
                PROVE  PaymentEventsChain'
    OBVIOUS
  <2>1. CASE UNCHANGED <<row, payEvents>>
    BY <2>1 DEF PaymentEventsChain
  <2>2. CASE \E s \in Syncs : CommitApply(s)
    <3>1. PICK s \in Syncs : CommitApply(s)
      BY <2>2
    <3>. DEFINE after == PaymentStatus(snap[s].facts)
    <3>2. /\ from[s] = PaymentStatus(row.facts) /\ PaymentStatus(row.facts)' = after
          /\ payEvents' = IF from[s] = after THEN payEvents
                          ELSE Append(payEvents, [from |-> from[s], to |-> after])
          /\ payEvents \in Seq([from : PaymentStatuses, to : PaymentStatuses])
      BY <3>1 DEF CommitApply, OrderInv, SyncPlan, TypeOK
    <3>. HIDE DEF after
    <3>3. CASE from[s] = after
      BY <3>2, <3>3 DEF PaymentEventsChain
    <3>4. CASE from[s] # after
      <4>. DEFINE e == [from |-> from[s], to |-> after]
                  n == Len(payEvents)
      <4>1. /\ Len(payEvents') = n + 1 /\ payEvents'[n + 1] = e
            /\ \A i \in 1..n : payEvents'[i] = payEvents[i]
            /\ n \in Nat
        BY <3>2, <3>4
      <4>2. /\ \A i \in 1..n :
                 /\ payEvents[i].from # payEvents[i].to
                 /\ payEvents[i].from = IF i = 1 THEN "NOT_SYNCED" ELSE payEvents[i - 1].to
            /\ from[s] = IF n = 0 THEN "NOT_SYNCED" ELSE payEvents[n].to
        BY <3>2 DEF PaymentEventsChain
      <4>3. ASSUME NEW i \in 1..(n + 1)
            PROVE  /\ payEvents'[i].from # payEvents'[i].to
                   /\ payEvents'[i].from =
                        IF i = 1 THEN "NOT_SYNCED" ELSE payEvents'[i - 1].to
        <5>1. CASE i \in 1..n
          <6>1. i = 1 \/ i - 1 \in 1..n
            BY <4>1, <5>1
          <6>. QED
            BY <4>1, <4>2, <5>1, <6>1
        <5>2. CASE i = n + 1
          <6>1. n = 0 \/ n \in 1..n
            BY <4>1
          <6>. QED
            BY <3>4, <4>1, <4>2, <5>2, <6>1
        <5>. QED
          BY <4>1, <5>1, <5>2
      <4>. QED
        BY <3>2, <4>1, <4>3 DEF PaymentEventsChain
    <3>. QED
      BY <3>3, <3>4
  <2>. QED
    BY <2>1, <2>2
    DEF Next, Decide, CommitDecision, OpenLink, DriverStep, RecordOutcome, ReconcileOutcome,
        CommitOutcome, RefuseOutcome, Fetch, SyncStep, Load, BeginApply, ApplyNothing, Apply,
        RollBack, ExportInvoice, ChangeInvoice, Rest, vars, invoiceVars
<1>. QED
  BY <1>1, <1>2, OrderInvariance, PTL DEF Spec

-----------------------------------------------------------------------------
(* Requests act one at a time *)

\* An invoice counts as paid.
Paid(facts) == PaymentStatus(facts) = "PAID"

\* What a driver's transaction plans is what it would plan now.
DriverPlansNow ==
  \A d \in Drivers : pc[d] = "decided" =>
    decided[d] = IF want[d] = "DELIVERED"
                 THEN Reconciled("DELIVERED", Paid(row.facts)) ELSE "DELIVERY_FAILED"

\* So is what a pull's transaction plans.
SyncPlansNow ==
  \A s \in Syncs : pc[s] = "decided" =>
    LET next == Reconciled(status, Paid(snap[s].facts))
    IN decided[s] =
         IF PaymentStatus(row.facts) = PaymentStatus(snap[s].facts) \/ next = status
         THEN "none" ELSE next

\* An outcome is recorded only of an order that was accepted.
DeliveredAccepted ==
  \A d \in Drivers : pc[d] = "read" \/ InTransaction(d) => accepted

\* Only a decision that is checked waits to be written.
AskedOnly == \A a \in Admins : want[a] # "none" => pc[a] = "read"

\* The inductive invariant of the plans, beside OrderInv.
PlanInv == DriverPlansNow /\ SyncPlansNow /\ DeliveredAccepted /\ AskedOnly

\* The completion service's reading of the invoice comes down to its status.
LEMMA PaidIsStatus ==
  ASSUME OrderInv
  PROVE  /\ InvoicePaid(row.facts) <=> Paid(row.facts)
         /\ exported => \A f : InvoicePaid(f) <=> Paid(f)
<1>1. ~exported => PaymentStatus(row.facts) = "NOT_SYNCED"
  BY DEF OrderInv, ExportedFirst, Never, Unsynced, PaymentStatus
<1>. QED
  BY <1>1 DEF InvoicePaid, Paid

\* Nothing is planned at the start.
LEMMA PlanStart == Init => PlanInv
  BY DEF Init, PlanInv, DriverPlansNow, SyncPlansNow, DeliveredAccepted, AskedOnly,
     InTransaction, Parties

\* A decision is written only while nobody holds the row, so no plan is open.
LEMMA DecisionKeepsPlans ==
  ASSUME OrderInv, PlanInv, NEW a \in Admins, Decide(a) \/ CommitDecision(a)
  PROVE  PlanInv'
<1>. USE OrderLifecycleAssumption DEF OrderLifecycleAssumption, Parties
<1>1. /\ pc' \in {[pc EXCEPT ![a] = "read"], [pc EXCEPT ![a] = "idle"]}
      /\ UNCHANGED <<outcome, invoiceVars, lock, snap, decided, from>>
      /\ accepted => accepted'
      /\ \E w : want' = [want EXCEPT ![a] = w]
      /\ \A b \in Admins : want'[b] # "none" => pc'[b] = "read"
  BY DEF Decide, CommitDecision, Goto, orderVars, PlanInv, AskedOnly, OrderInv, TypeOK
<1>2. \A p \in Drivers \cup Syncs : pc'[p] = pc[p]
  BY <1>1 DEF OrderInv, TypeOK
<1>3. \A d \in Drivers : want'[d] = want[d]
  BY <1>1 DEF OrderInv, TypeOK
<1>4. DriverPlansNow'
  BY <1>1, <1>2, <1>3 DEF PlanInv, DriverPlansNow, invoiceVars
<1>5. SyncPlansNow'
  <2>1. CASE Decide(a)
    BY <1>1, <1>2, <2>1 DEF Decide, PlanInv, SyncPlansNow, invoiceVars, orderVars
  <2>2. CASE CommitDecision(a)
    <3>1. \A s \in Syncs : pc'[s] # "decided"
      BY <1>2, <2>2 DEF CommitDecision, OrderInv, Held, InTransaction
    <3>. QED
      BY <3>1 DEF SyncPlansNow
  <2>. QED
    BY <2>1, <2>2
<1>6. DeliveredAccepted' /\ AskedOnly'
  BY <1>1, <1>2 DEF PlanInv, DeliveredAccepted, AskedOnly, InTransaction
<1>. QED
  BY <1>4, <1>5, <1>6 DEF PlanInv

\* A driver who commits held the row, so no pull's plan is open.
LEMMA DriverKeepsPlans ==
  ASSUME OrderInv, PlanInv, NEW d \in Drivers, OpenLink(d) \/ DriverStep(d)
  PROVE  PlanInv'
<1>. USE OrderLifecycleAssumption DEF OrderLifecycleAssumption, Parties
<1>1. /\ \E step \in Steps : pc' = [pc EXCEPT ![d] = step]
      /\ \E w : want' = [want EXCEPT ![d] = w]
      /\ \E plan : decided' = [decided EXCEPT ![d] = plan]
      /\ UNCHANGED <<accepted, invoiceVars, snap, from>>
  <2>1. want = [want EXCEPT ![d] = want[d]] /\ decided = [decided EXCEPT ![d] = decided[d]]
    BY DEF OrderInv, TypeOK
  <2>. QED
    BY <2>1 DEF OpenLink, DriverStep, RecordOutcome, ReconcileOutcome, CommitOutcome, RefuseOutcome,
     Goto, Steps, orderVars
<1>2. \A p \in Parties \ {d} : pc'[p] = pc[p]
  BY <1>1 DEF OrderInv, TypeOK
<1>3. /\ \A a \in Admins : want'[a] = want[a]
      /\ \A e \in Drivers \ {d} : want'[e] = want[e]
      /\ \A p \in (Drivers \cup Syncs) \ {d} : decided'[p] = decided[p]
  BY <1>1 DEF OrderInv, TypeOK
<1>4. DriverPlansNow'
  <2>1. pc'[d] = "decided" => ReconcileOutcome(d)
    BY DEF OpenLink, DriverStep, RecordOutcome, CommitOutcome, RefuseOutcome, Goto,
       OrderInv, TypeOK
  <2>2. ReconcileOutcome(d) =>
          /\ decided'[d] = IF want[d] = "DELIVERED"
               THEN Reconciled("DELIVERED", InvoicePaid(row.facts)) ELSE "DELIVERY_FAILED"
          /\ want' = want
    BY DEF ReconcileOutcome, OrderInv, TypeOK
  <2>3. InvoicePaid(row.facts) = Paid(row.facts)
    BY PaidIsStatus DEF InvoicePaid, Paid
  <2>. QED
    BY <1>1, <1>2, <1>3, <2>1, <2>2, <2>3 DEF PlanInv, DriverPlansNow, invoiceVars, Paid
<1>5. SyncPlansNow'
  <2>1. CASE status' = status
    BY <1>1, <1>2, <1>3, <2>1 DEF PlanInv, SyncPlansNow, invoiceVars, Paid
  <2>2. CASE CommitOutcome(d)
    <3>1. \A s \in Syncs : pc[s] # "decided"
      BY <2>2 DEF CommitOutcome, OrderInv, Held, InTransaction
    <3>. QED
      BY <1>2, <3>1 DEF SyncPlansNow
  <2>. QED
    BY <2>1, <2>2
    DEF OpenLink, DriverStep, RecordOutcome, ReconcileOutcome, RefuseOutcome, orderVars
<1>6. DeliveredAccepted'
  <2>1. pc'[d] = "read" \/ pc'[d] \in {"locked", "decided"} => accepted
    BY DEF OpenLink, DriverStep, RecordOutcome, ReconcileOutcome, CommitOutcome, RefuseOutcome,
       Goto, OrderInv, TypeOK, PlanInv, DeliveredAccepted, InTransaction
  <2>. QED
    BY <1>1, <1>2, <2>1 DEF PlanInv, DeliveredAccepted, InTransaction
<1>7. AskedOnly'
  BY <1>2, <1>3 DEF PlanInv, AskedOnly
<1>. QED
  BY <1>4, <1>5, <1>6, <1>7 DEF PlanInv

\* A pull that commits held the row, so nobody else's plan is open.
LEMMA PullKeepsPlans ==
  ASSUME OrderInv, PlanInv, NEW s \in Syncs, Fetch(s) \/ SyncStep(s)
  PROVE  PlanInv'
<1>. USE OrderLifecycleAssumption DEF OrderLifecycleAssumption, Parties
<1>1. /\ \E step \in Steps : pc' = [pc EXCEPT ![s] = step]
      /\ \E f : snap' = [snap EXCEPT ![s] = f]
      /\ \E plan : decided' = [decided EXCEPT ![s] = plan]
      /\ UNCHANGED <<accepted, exported, want>>
  <2>1. snap = [snap EXCEPT ![s] = snap[s]] /\ decided = [decided EXCEPT ![s] = decided[s]]
    BY DEF OrderInv, TypeOK
  <2>. QED
    BY <2>1 DEF Fetch, SyncStep, Load, BeginApply, ApplyNothing, Apply, CommitApply, Forget,
     Goto, Steps, orderVars, invoiceVars
<1>2. \A p \in Parties \ {s} : pc'[p] = pc[p]
  BY <1>1 DEF OrderInv, TypeOK
<1>3. /\ \A p \in (Drivers \cup Syncs) \ {s} : decided'[p] = decided[p]
      /\ \A r \in Syncs \ {s} : snap'[r] = snap[r]
  BY <1>1 DEF OrderInv, TypeOK
<1>4. DeliveredAccepted' /\ AskedOnly'
  BY <1>1, <1>2 DEF PlanInv, DeliveredAccepted, AskedOnly, InTransaction
<1>5. CASE UNCHANGED <<status, row>>
  <2>1. DriverPlansNow'
    BY <1>1, <1>2, <1>3, <1>5 DEF PlanInv, DriverPlansNow, Paid
  <2>2. pc'[s] = "decided" => Apply(s)
    BY DEF Fetch, SyncStep, Load, BeginApply, ApplyNothing, CommitApply, Goto, OrderInv, TypeOK
  <2>3. Apply(s) =>
          LET next == Reconciled(status, InvoicePaid(snap[s].facts))
          IN /\ decided'[s] = IF PaymentStatus(row.facts) = PaymentStatus(snap[s].facts) \/ next = status
                              THEN "none" ELSE next
             /\ snap' = snap
    BY DEF Apply, FromStatus, OrderInv, TypeOK
  <2>4. Apply(s) => (InvoicePaid(snap[s].facts) = Paid(snap[s].facts))
    BY DEF Apply, OrderInv, ExportedFirst, InvoicePaid, Paid
  <2>5. SyncPlansNow'
    BY <1>2, <1>3, <1>5, <2>2, <2>3, <2>4 DEF PlanInv, SyncPlansNow, Paid
  <2>. QED
    BY <1>4, <2>1, <2>5 DEF PlanInv
<1>6. CASE CommitApply(s)
  <2>1. \A p \in (Drivers \cup Syncs) \ {s} : pc[p] # "decided"
    BY <1>6 DEF CommitApply, OrderInv, Held, InTransaction
  <2>2. pc'[s] # "decided"
    BY <1>6 DEF CommitApply, Goto, OrderInv, TypeOK
  <2>. QED
    BY <1>2, <1>4, <2>1, <2>2 DEF PlanInv, DriverPlansNow, SyncPlansNow
<1>. QED
  BY <1>5, <1>6
  DEF Fetch, SyncStep, Load, BeginApply, ApplyNothing, Apply, orderVars, invoiceVars

\* A plan rolled back was the only one.
LEMMA RollBackKeepsPlans ==
  ASSUME OrderInv, PlanInv, NEW p \in Drivers \cup Syncs, RollBack(p)
  PROVE  PlanInv'
<1>. USE OrderLifecycleAssumption DEF OrderLifecycleAssumption, Parties
<1>1. /\ UNCHANGED <<orderVars, invoiceVars>> /\ InTransaction(p)
      /\ pc' = [pc EXCEPT ![p] = "idle"]
      /\ \A a \in Admins : want'[a] = want[a]
  BY DEF RollBack, Forget, Goto, InTransaction, OrderInv, TypeOK
<1>2. \A q \in Drivers \cup Syncs : ~InTransaction(q)'
  BY <1>1 DEF OrderInv, TypeOK, Held, InTransaction
<1>3. DriverPlansNow' /\ SyncPlansNow'
  BY <1>2 DEF DriverPlansNow, SyncPlansNow, InTransaction
<1>4. DeliveredAccepted' /\ AskedOnly'
  BY <1>1, <1>2 DEF PlanInv, DeliveredAccepted, AskedOnly, orderVars, OrderInv, TypeOK
<1>. QED
  BY <1>3, <1>4 DEF PlanInv

\* Every step keeps the plans; an export under way does not change a reading,
\* for an invoice that is not exported has no status yet.
LEMMA PlanNext == OrderInv /\ PlanInv /\ [Next]_vars => PlanInv'
<1>. SUFFICES ASSUME OrderInv, PlanInv, [Next]_vars
              PROVE  PlanInv'
  OBVIOUS
<1>1. CASE ExportInvoice \/ ChangeInvoice \/ UNCHANGED vars
  BY <1>1 DEF ExportInvoice, ChangeInvoice, vars, orderVars, invoiceVars, localVars,
     PlanInv, DriverPlansNow, SyncPlansNow, DeliveredAccepted, AskedOnly, InTransaction, Paid
<1>. QED
  BY <1>1, DecisionKeepsPlans, DriverKeepsPlans, PullKeepsPlans, RollBackKeepsPlans
  DEF Next, Rest

\* Both invariants hold.
LEMMA PlanInvariance == Spec => [](OrderInv /\ PlanInv)
  BY OrderInit, OrderNext, PlanStart, PlanNext, PTL DEF Spec

\* Reconciling is what the promise calls settling.
LEMMA ReconciledIsSettled ==
  \A f : Reconciled(status, Paid(f)) = Completion!Settled(status, PaymentStatus(f))
  BY DEF Reconciled, Paid, Completion!Settled

\* A new order has no invoice yet.
LEMMA CompletionInit == Init => Completion!Init
  BY DEF Init, Completion!Init, Never, Unsynced, PaymentStatus, Parties

\* The distributor's check and write are the promise's.
LEMMA DecisionIsAsked ==
  ASSUME OrderInv, PlanInv, NEW a \in Admins, Decide(a) \/ CommitDecision(a)
  PROVE  Completion!Ask(a) \/ Completion!Decide(a)
<1>. USE OrderLifecycleAssumption DEF OrderLifecycleAssumption, Parties
<1>. DEFINE asked == [b \in Admins |-> want[b]]
<1>1. UNCHANGED <<outcome, payEvents, PaymentStatus(row.facts)>>
  BY DEF Decide, CommitDecision, invoiceVars, orderVars
<1>2. CASE Decide(a)
  <2>1. PICK target \in {"ACCEPTED", "REJECTED", "CANCELLED"} :
          /\ status \in MayBecome(target)
          /\ want' = [want EXCEPT ![a] = target]
    BY <1>2 DEF Decide
  <2>2. asked[a] = "none"
    BY <1>2 DEF Decide, PlanInv, AskedOnly
  <2>3. asked' = [asked EXCEPT ![a] = target]
    BY <2>1 DEF OrderInv, TypeOK
  <2>4. status = "SUBMITTED" \/ (status = "ACCEPTED" /\ target = "CANCELLED")
    BY <2>1 DEF MayBecome
  <2>. QED
    BY <1>1, <1>2, <2>1, <2>2, <2>3, <2>4 DEF Decide, orderVars, Completion!Ask
<1>3. CASE CommitDecision(a)
  <2>1. want[a] # "none" /\ asked[a] = want[a]
    BY <1>3 DEF CommitDecision, OrderInv, Asked
  <2>2. asked' = [asked EXCEPT ![a] = "none"]
    <3>1. want' = [want EXCEPT ![a] = "none"]
      BY <1>3 DEF CommitDecision
    <3>. QED
      BY <3>1 DEF OrderInv, TypeOK
  <2>. QED
    BY <1>1, <1>3, <2>1, <2>2 DEF CommitDecision, Completion!Decide
<1>. QED
  BY <1>2, <1>3

\* An outcome takes effect when its transaction commits.
LEMMA OutcomeIsDelivered ==
  ASSUME OrderInv, PlanInv, NEW d \in Drivers, CommitOutcome(d)
  PROVE  Completion!Deliver
<1>. USE OrderLifecycleAssumption DEF OrderLifecycleAssumption
<1>1. /\ accepted /\ outcome = "none" /\ outcome' = want[d] /\ want[d] \in Outcomes
      /\ status' = decided[d] /\ want' = want
      /\ UNCHANGED <<accepted, row, payEvents>>
  BY DEF CommitOutcome, PlanInv, DeliveredAccepted, OrderInv, Open, Asked, InTransaction,
     invoiceVars
<1>2. decided[d] = IF want[d] = "DELIVERED"
                   THEN Completion!Settled("DELIVERED", PaymentStatus(row.facts))
                   ELSE "DELIVERY_FAILED"
  BY DEF CommitOutcome, PlanInv, DriverPlansNow, Reconciled, Paid, Completion!Settled
<1>. QED
  BY <1>1, <1>2 DEF Completion!Deliver, Outcomes

\* A pull takes effect when its transaction commits, if it changes how paid the
\* invoice is.
LEMMA PullIsPayment ==
  ASSUME OrderInv, PlanInv, NEW s \in Syncs, CommitApply(s)
  PROVE  [Completion!Next]_(Completion!promised)
<1>. DEFINE p == PaymentStatus(row.facts)
            after == PaymentStatus(snap[s].facts)
<1>1. /\ pc[s] = "decided" /\ from[s] = p /\ p' = after
      /\ payEvents' = IF p = after THEN payEvents
                      ELSE Append(payEvents, [from |-> p, to |-> after])
      /\ status' = IF decided[s] = "none" THEN status ELSE decided[s]
      /\ UNCHANGED <<accepted, outcome, want>>
  BY DEF CommitApply, OrderInv, SyncPlan
<1>2. decided[s] = LET next == Completion!Settled(status, after)
                   IN IF p = after \/ next = status THEN "none" ELSE next
  BY <1>1, ReconciledIsSettled DEF PlanInv, SyncPlansNow
<1>3. after \in PaymentStatuses
  BY PaymentStatusType
<1>4. CASE p = after
  BY <1>1, <1>2, <1>4 DEF Completion!promised
<1>5. CASE p # after
  <2>1. Completion!Settled(status, after) # "none"
    BY DEF Completion!Settled, OrderInv, TypeOK, Statuses
  <2>2. status' = Completion!Settled(status, after)
    BY <1>1, <1>2, <1>5, <2>1
  <2>3. Completion!Pay(after)
    BY <1>1, <1>5, <2>2 DEF Completion!Pay
  <2>. QED
    BY <1>3, <2>3 DEF Completion!Next
<1>. QED
  BY <1>4, <1>5

\* Every other step leaves what is promised alone.
LEMMA CompletionStep ==
  OrderInv /\ PlanInv /\ [Next]_vars => [Completion!Next]_(Completion!promised)
<1>. SUFFICES ASSUME OrderInv, PlanInv, [Next]_vars
              PROVE  [Completion!Next]_(Completion!promised)
  OBVIOUS
<1>. USE OrderLifecycleAssumption DEF OrderLifecycleAssumption, Parties
<1>1. ASSUME UNCHANGED <<orderVars, payEvents, row>>, \A a \in Admins : want'[a] = want[a]
      PROVE  UNCHANGED Completion!promised
  BY <1>1 DEF orderVars, Completion!promised
<1>2. CASE \E a \in Admins : Decide(a) \/ CommitDecision(a)
  BY <1>2, DecisionIsAsked DEF Completion!Next
<1>3. CASE \E d \in Drivers : CommitOutcome(d)
  BY <1>3, OutcomeIsDelivered DEF Completion!Next
<1>4. CASE \E s \in Syncs : CommitApply(s)
  BY <1>4, PullIsPayment
<1>5. ASSUME NEW d \in Drivers,
             OpenLink(d) \/ RecordOutcome(d) \/ ReconcileOutcome(d) \/ RefuseOutcome(d)
      PROVE  UNCHANGED Completion!promised
  <2>1. UNCHANGED <<orderVars, payEvents, row>> /\ \A a \in Admins : want'[a] = want[a]
    BY <1>5 DEF OpenLink, RecordOutcome, ReconcileOutcome, RefuseOutcome, invoiceVars,
       OrderInv, TypeOK
  <2>. QED
    BY <1>1, <2>1
<1>6. ASSUME NEW s \in Syncs,
             Fetch(s) \/ Load(s) \/ BeginApply(s) \/ ApplyNothing(s) \/ Apply(s)
      PROVE  UNCHANGED Completion!promised
  <2>1. UNCHANGED <<orderVars, payEvents, row, want>>
    BY <1>6 DEF Fetch, Load, BeginApply, ApplyNothing, Apply, invoiceVars
  <2>. QED
    BY <1>1, <2>1
<1>7. ASSUME NEW q \in Drivers \cup Syncs, RollBack(q)
      PROVE  UNCHANGED Completion!promised
  <2>1. UNCHANGED <<orderVars, payEvents, row>> /\ \A a \in Admins : want'[a] = want[a]
    BY <1>7 DEF RollBack, invoiceVars, OrderInv, TypeOK
  <2>. QED
    BY <1>1, <2>1
<1>8. CASE ExportInvoice \/ ChangeInvoice \/ UNCHANGED vars
  BY <1>1, <1>8 DEF ExportInvoice, ChangeInvoice, vars, localVars, invoiceVars
<1>. QED
  BY <1>2, <1>3, <1>4, <1>5, <1>6, <1>7, <1>8 DEF Next, DriverStep, SyncStep, Rest

\* Requests act one at a time: each decision, delivery and pull takes effect in
\* the single step that commits it, as the promise has it for the state of that
\* moment, whatever was read before and however the transactions overlapped.
THEOREM RequestsActOneAtATime == Spec => OneAtATime
  BY PlanInvariance, CompletionInit, CompletionStep, PTL
  DEF Spec, OneAtATime, Completion!Safety

=============================================================================
