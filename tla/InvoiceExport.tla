---------------------------- MODULE InvoiceExport ----------------------------
(***************************************************************************)
(* The export of one accepted order as an invoice: the jobs, the export    *)
(* row of each accounting organisation, and what the organisations hold.   *)
(*                                                                         *)
(* apps/api/src/accounting-invoice-export, and retryExport of              *)
(* accounting/accounting-invoice-export.service.ts                         *)
(*                                                                         *)
(* The worker is one process that runs one of these jobs at a time         *)
(* (replicaCount 1, no concurrency set), so attempts do not overlap.  What *)
(* overlaps is the accounting system: a create request that was abandoned  *)
(* after its timeout, or by a worker that died, may still be carried out.  *)
(*                                                                         *)
(* Abstractions.  A request's contents are its idempotency key, a number:  *)
(* what changes the one changes the other.  What the worker reads before   *)
(* its claim is one step with it, for nobody else claims.                  *)
(***************************************************************************)
EXTENDS Naturals

CONSTANTS
  Organisations, \* the accounting organisations the distributor connects
  Jobs,          \* the job of the acceptance, and one for each retry asked for
  First,         \* the job of the acceptance
  MaxAttempts,   \* attempts of a job (5 in worker.module.ts)
  MaxKeys,       \* bound: keys of one organisation
  MaxFaults,     \* bound: crashes and failed writes
  MaxVoids,      \* bound: of an organisation's invoices the first may be voided
  EditsWait,     \* whether mappings and rows are left alone while a request is under way
  None

ASSUME InvoiceExportAssumption ==
  /\ First \in Jobs
  /\ MaxAttempts \in Nat \ {0} /\ MaxKeys \in Nat \ {0} /\ MaxFaults \in Nat /\ MaxVoids \in Nat
  /\ EditsWait \in BOOLEAN
  /\ None \notin Organisations \cup Jobs

VARIABLES
  cancelled, \* Order.status is CANCELLED or REJECTED
  connected, \* the organisation of the CONNECTED connection, or None
  rows,      \* rows[o]: status of the AccountingInvoiceExport row, or "none"
  stale,     \* rows[o] has not been written for PROCESSING_STALE_MS
  key,       \* key[o]: the key of the request as it would be built now
  jobs,      \* where a job is
  made,      \* made[j]: failed attempts, attemptsMade
  stalled,   \* jobs that were taken back from a worker that died
  job,       \* the job in hand, or None
  org,       \* the organisation it exports to, or None
  step,      \* how far its attempt is
  sent,      \* the key of the request it has sent
  live,      \* live[o]: the invoices of the order that are not voided
  raised,    \* raised[o]: how many there ever were
  memory,    \* memory[o][k]: the invoice remembered under a key, or 0
  underway,  \* underway[o]: keys of requests sent and not yet carried out
  faults

books   == <<live, raised, memory, underway>>
attempt == <<job, org, step, sent>>
queue   == <<jobs, made, stalled>>
records == <<rows, stale>>
users   == <<cancelled, connected, key>>
vars == <<books, attempt, queue, records, users, faults>>

Keys == 1..MaxKeys
RowStates == {"none", "PENDING", "PROCESSING", "FAILED", "COMPLETED"}
JobStates == {"none", "waiting", "active", "backoff", "settling", "done"}

TypeOK ==
  /\ cancelled \in BOOLEAN /\ connected \in Organisations \cup {None}
  /\ rows \in [Organisations -> RowStates] /\ stale \in [Organisations -> BOOLEAN]
  /\ key \in [Organisations -> Keys]
  /\ jobs \in [Jobs -> JobStates] /\ made \in [Jobs -> 0..MaxAttempts]
  /\ stalled \subseteq Jobs
  /\ job \in Jobs \cup {None} /\ org \in Organisations \cup {None}
  /\ step \in {"idle", "claimed", "sent", "found"} /\ sent \in Keys
  /\ step = "idle" <=> org = None
  /\ step = "idle" <=> job = None
  /\ \A j \in Jobs : jobs[j] = "active" <=> j = job
  /\ \A j \in Jobs : jobs[j] # "done" => made[j] < MaxAttempts
  /\ raised \in [Organisations -> Nat]
  /\ memory \in [Organisations -> [Keys -> Nat]]
  /\ underway \in [Organisations -> SUBSET Keys]
  /\ live \in [Organisations -> SUBSET Nat]
  /\ \A o \in Organisations : live[o] \subseteq 1..raised[o]
  /\ faults \in 0..MaxFaults

Init ==
  /\ cancelled = FALSE /\ connected \in Organisations \cup {None}
  /\ rows = [o \in Organisations |-> "none"] /\ stale = [o \in Organisations |-> FALSE]
  /\ key = [o \in Organisations |-> 1]
  /\ jobs = [j \in Jobs |-> IF j = First THEN "waiting" ELSE "none"]
  /\ made = [j \in Jobs |-> 0] /\ stalled = {}
  /\ job = None /\ org = None /\ step = "idle" /\ sent = 1
  /\ live = [o \in Organisations |-> {}] /\ raised = [o \in Organisations |-> 0]
  /\ memory = [o \in Organisations |-> [k \in Keys |-> 0]]
  /\ underway = [o \in Organisations |-> {}]
  /\ faults = 0

-----------------------------------------------------------------------------
(* How an attempt ends.                                                    *)

Leave == job' = None /\ org' = None /\ step' = "idle" /\ sent' = 1

LastAttemptLate == made[job] >= MaxAttempts \* mutant: one attempt too many

\* isLastAttempt.
LastAttempt == made[job] + 1 >= MaxAttempts

\* process returns: the job is done.
Return == /\ jobs' = [jobs EXCEPT ![job] = "done"]
          /\ Leave /\ UNCHANGED <<made, stalled>>

\* process throws: the job is kept for another attempt while it has any.
Throw(kept) ==
  /\ made' = [made EXCEPT ![job] = made[job] + 1]
  /\ jobs' = [jobs EXCEPT ![job] = IF LastAttempt THEN "done" ELSE kept]
  /\ Leave /\ UNCHANGED stalled

\* Every write of the row renews its updatedAt.
Write(o, status) ==
  /\ rows' = [rows EXCEPT ![o] = status]
  /\ stale' = [stale EXCEPT ![o] = FALSE]

Fault == faults < MaxFaults /\ faults' = faults + 1

-----------------------------------------------------------------------------
(* process: the checks and the claim.                                      *)

\* A job that waits after an outcome nobody knows gives the accounting system
\* two minutes, which are taken to be enough for what it was still doing.
Ready(j) ==
  /\ job = None
  /\ \/ jobs[j] \in {"waiting", "backoff"}
     \/ jobs[j] = "settling" /\ \A o \in Organisations : underway[o] = {}

CompletedHere == connected # None /\ rows[connected] = "COMPLETED" \* mutant

\* A completed export, of any organisation, ends the job.
Exported == \E o \in Organisations : rows[o] = "COMPLETED"

\* claimExport: a claim younger than PROCESSING_STALE_MS is somebody's.
Claimable(o) == rows[o] = "PROCESSING" => stale[o]

ToExport == ~cancelled /\ connected # None /\ ~Exported /\ Claimable(connected)

Skip(j) ==
  /\ Ready(j) /\ ~ToExport
  /\ jobs' = [jobs EXCEPT ![j] = "done"]
  /\ UNCHANGED <<made, stalled, attempt, records, users, books, faults>>

\* The row is created, taken over, or claimed again, whatever it was.
Claim(j) ==
  /\ Ready(j) /\ ToExport
  /\ jobs' = [jobs EXCEPT ![j] = "active"]
  /\ job' = j /\ org' = connected /\ step' = "claimed"
  /\ Write(connected, "PROCESSING")
  /\ UNCHANGED <<made, stalled, sent, users, books, faults>>

-----------------------------------------------------------------------------
(* runExport: the calls of the accounting system.                          *)

\* findInvoiceByReference finds a live invoice, which is adopted.
Adopt ==
  /\ step = "claimed" /\ live[org] # {}
  /\ step' = "found"
  /\ UNCHANGED <<job, org, sent, queue, records, users, books, faults>>

CreateUnasked == \* mutant: the invoice is not looked for
  /\ step = "claimed"
  /\ step' = "sent" /\ sent' = key[org]
  /\ underway' = [underway EXCEPT ![org] = @ \cup {key[org]}]
  /\ UNCHANGED <<job, org, queue, records, users, live, raised, memory, faults>>

\* It finds none, and createInvoice sends the request.
Create ==
  /\ step = "claimed" /\ live[org] = {}
  /\ step' = "sent" /\ sent' = key[org]
  /\ underway' = [underway EXCEPT ![org] = @ \cup {key[org]}]
  /\ UNCHANGED <<job, org, queue, records, users, live, raised, memory, faults>>

\* The answer: the invoice the request raised, or had raised before.
Answer ==
  /\ step = "sent" /\ sent \notin underway[org] /\ memory[org][sent] # 0
  /\ step' = "found"
  /\ UNCHANGED <<job, org, sent, queue, records, users, books, faults>>

\* A guard of runExport fails, or a call is refused for good: markFailed.
Refuse ==
  /\ step = "claimed"
  /\ Write(org, "FAILED") /\ Return
  /\ UNCHANGED <<users, books, faults>>

\* A call fails and may be made again: markFailed, and the error is thrown.
FailTransiently ==
  /\ step = "claimed"
  /\ Write(org, "FAILED") /\ Throw("backoff")
  /\ UNCHANGED <<users, books, faults>>

DeferAlways == \* mutant: the last attempt is put off as well
  /\ step = "claimed"
  /\ Write(org, "PENDING") /\ Throw("backoff")
  /\ UNCHANGED <<users, books, faults>>

\* The call budget is used up: the row waits, and only the last attempt fails.
Defer ==
  /\ step = "claimed" /\ ~LastAttempt
  /\ Write(org, "PENDING") /\ Throw("backoff")
  /\ UNCHANGED <<users, books, faults>>

\* No usable answer to the create request: markFailed, whatever became of it.
\* An error without a response is thrown; a response without an invoice is
\* permanent.
NoAnswer ==
  /\ step = "sent"
  /\ Write(org, "FAILED")
  /\ Throw("settling") \/ Return
  /\ UNCHANGED <<users, books, faults>>

\* recordCompleted.
Record ==
  /\ step = "found"
  /\ Write(org, "COMPLETED") /\ Return
  /\ UNCHANGED <<users, books, faults>>

-----------------------------------------------------------------------------
(* What goes wrong on our side.                                            *)

\* recordCompleted cannot save: the claim is released, or that fails as well.
RecordFails ==
  /\ step = "found" /\ Fault
  /\ Write(org, "PENDING") \/ UNCHANGED records
  /\ Throw("backoff")
  /\ UNCHANGED <<users, books>>

\* markFailed throws an error of its own, before its transaction commits or
\* after it, from the notification.
MarkFailedFails ==
  /\ step \in {"claimed", "sent"} /\ Fault
  /\ Write(org, "FAILED") \/ UNCHANGED records
  /\ Throw("backoff")
  /\ UNCHANGED <<users, books>>

\* The worker dies.  Its job is run again once; a second time it is given up.
Crash ==
  /\ job # None /\ Fault
  /\ jobs' = [jobs EXCEPT ![job] = IF job \in stalled THEN "done" ELSE "waiting"]
  /\ stalled' = stalled \cup {job}
  /\ Leave
  /\ UNCHANGED <<made, records, users, books>>

\* The claim of an attempt that is gone grows old.
Age(o) ==
  /\ rows[o] = "PROCESSING" /\ ~stale[o] /\ org # o
  /\ stale' = [stale EXCEPT ![o] = TRUE]
  /\ UNCHANGED <<rows, users, queue, attempt, books, faults>>

-----------------------------------------------------------------------------
(* The accounting systems.                                                 *)

\* A request is carried out: a key that is remembered raises nothing.
CarryOut(o, k) ==
  /\ k \in underway[o]
  /\ underway' = [underway EXCEPT ![o] = @ \ {k}]
  /\ IF memory[o][k] # 0
     THEN UNCHANGED <<live, raised, memory>>
     ELSE LET new == raised[o] + 1
          IN /\ raised' = [raised EXCEPT ![o] = new]
             /\ live' = [live EXCEPT ![o] = @ \cup {new}]
             /\ memory' = [memory EXCEPT ![o][k] = new]
  /\ UNCHANGED <<attempt, queue, records, users, faults>>

\* It never gets there.
Lose(o, k) ==
  /\ k \in underway[o]
  /\ underway' = [underway EXCEPT ![o] = @ \ {k}]
  /\ UNCHANGED <<live, raised, memory, attempt, queue, records, users, faults>>

\* Keys are remembered for minutes, longer than a call is under way.
ForgetKeys(o) ==
  /\ underway[o] = {} /\ ~(step = "sent" /\ org = o)
  /\ \E k \in Keys : memory[o][k] # 0
  /\ memory' = [memory EXCEPT ![o] = [k \in Keys |-> 0]]
  /\ UNCHANGED <<live, raised, underway, attempt, queue, records, users, faults>>

\* The distributor voids an invoice there.
Void(o) ==
  /\ \E i \in live[o] : i <= MaxVoids /\ live' = [live EXCEPT ![o] = @ \ {i}]
  /\ UNCHANGED <<raised, memory, underway, attempt, queue, records, users, faults>>

-----------------------------------------------------------------------------
(* The distributor's users.                                                *)

CancelOrder ==
  /\ ~cancelled /\ cancelled' = TRUE
  /\ UNCHANGED <<connected, key, records, queue, attempt, books, faults>>

\* Connect, disconnect, or switch to another organisation.
Connect ==
  /\ connected' \in (Organisations \cup {None}) \ {connected}
  /\ UNCHANGED <<cancelled, key, records, queue, attempt, books, faults>>

\* retryExport: for a failed export only.
RetryExport(j) ==
  /\ jobs[j] = "none" /\ \E o \in Organisations : rows[o] = "FAILED"
  /\ jobs' = [jobs EXCEPT ![j] = "waiting"]
  /\ UNCHANGED <<made, stalled, records, users, attempt, books, faults>>

\* Nothing of the organisation's is under way, or nobody waits for that.
MayEdit(o) ==
  /\ key[o] < MaxKeys
  /\ EditsWait => underway[o] = {} /\ ~(step = "sent" /\ org = o)

\* A mapping, an account or the target status is changed: the request changes.
EditMapping(o) ==
  /\ MayEdit(o)
  /\ key' = [key EXCEPT ![o] = @ + 1]
  /\ UNCHANGED <<cancelled, connected, records, queue, attempt, books, faults>>

\* A restored backup or a manual fix loses the row, and its id is in the key.
LoseRow(o) ==
  /\ MayEdit(o) /\ rows[o] # "none" /\ org # o
  /\ Write(o, "none")
  /\ key' = [key EXCEPT ![o] = @ + 1]
  /\ UNCHANGED <<cancelled, connected, queue, attempt, books, faults>>

-----------------------------------------------------------------------------

AttemptStep ==
  \/ Adopt \/ Create \/ Answer \/ Record
  \/ Refuse \/ FailTransiently \/ Defer \/ NoAnswer

ProviderStep(o) == \E k \in Keys : CarryOut(o, k) \/ Lose(o, k)

Next ==
  \/ \E j \in Jobs : Skip(j) \/ Claim(j) \/ RetryExport(j)
  \/ AttemptStep \/ RecordFails \/ MarkFailedFails \/ Crash
  \/ \E o \in Organisations :
       \/ ProviderStep(o) \/ Age(o) \/ ForgetKeys(o) \/ Void(o)
       \/ EditMapping(o) \/ LoseRow(o)
  \/ CancelOrder \/ Connect

\* The worker takes jobs and finishes what it took, calls end, claims grow old.
Fairness ==
  /\ WF_vars(\E j \in Jobs : Skip(j) \/ Claim(j)) /\ WF_vars(AttemptStep)
  /\ \A o \in Organisations : WF_vars(ProviderStep(o)) /\ WF_vars(Age(o))

Spec == Init /\ [][Next]_vars /\ Fairness

-----------------------------------------------------------------------------
(* Properties.                                                             *)

\* No organisation's books ever hold two live invoices for the order, through
\* lost answers, retries, lost rows and forgotten keys (ADR-073, runExport).
OneLiveInvoice ==
  \A o \in Organisations : \A i, j \in live[o] : i = j

\* At most one export of the order is ever completed, although connections are
\* switched between the attempts of different jobs (process, completedElsewhere).
OneExportCompleted ==
  \A o, p \in Organisations :
    rows[o] = "COMPLETED" /\ rows[p] = "COMPLETED" => o = p

\* The export does for the books what it promises: it raises an invoice only
\* where none is live, and completes once, where one was raised, although it
\* reads the rows and asks for the invoice long before either is written.
Invoicing == INSTANCE OrderInvoicing WITH
  done <- {o \in Organisations : rows[o] = "COMPLETED"}
InvoicedAsPromised == Invoicing!Safety

\* An attempt that is its job's last leaves its row COMPLETED or FAILED, where
\* the user sees it and may retry it, unless something of ours failed (runExport).
AttemptsEndOpenly ==
  [][\A j \in Jobs : jobs[j] = "active" /\ jobs'[j] = "done" /\ faults' = faults
       => rows'[org] \in {"COMPLETED", "FAILED"}]_vars

=============================================================================
