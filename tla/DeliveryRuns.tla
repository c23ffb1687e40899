---------------------------- MODULE DeliveryRuns ----------------------------
(***************************************************************************)
(* The delivery board: dated delivery runs, the orders planned on them,    *)
(* the people who edit them and the worker that allocates accepted orders. *)
(*                                                                         *)
(* apps/api/src/delivery-runs/delivery-runs.service.ts                     *)
(* apps/api/src/delivery-run-allocation/*.ts                               *)
(*                                                                         *)
(* A request is two or more steps.  Its first step is everything it reads  *)
(* and checks outside a transaction; the last is its database transaction. *)
(* Between the two, other requests and the worker commit.  A transaction   *)
(* that locks the run row in its first statement (the compare-and-swap on  *)
(* DeliveryRun.version) is one step.  The reschedule transaction does not: *)
(* it reads the stops it leaves before it locks their run, and the run it  *)
(* goes to without locking it, so it is three steps.  The rows it has      *)
(* written so far are locked (LockedOrders, HeldBy, LockedRuns).           *)
(*                                                                         *)
(* Abstractions.  A run is its unique key (route, date).  An order's       *)
(* active allocation row is the pair onRun, seq: the unique index on       *)
(* activeOrderId lets an order have one, and the actions that create one   *)
(* have its violation (P2002) as their refusal.  A stop that leaves a run  *)
(* and comes back while a reschedule that has read it is open counts as    *)
(* the same row.  Driver names, outbox events and audit rows are left out. *)
(* Ties of deliverySequence, which the code breaks by assignedAt, are      *)
(* broken arbitrarily.                                                     *)
(***************************************************************************)
EXTENDS Naturals, FiniteSets

CONSTANTS
  Orders,        \* orders of one distributor
  Routes, Dates, \* its delivery routes, and delivery dates
  Clients,       \* board users, each with one request in flight at a time
  Workers,       \* consumers of the delivery-run-allocation queue
  NoRun, NoDate, NoRoute, NoOrder,  \* null
  Requested,     \* Order.requestedDeliveryDate
  RouteOf,       \* the customer's route, when it has an active one
  DropPosition,  \* DeliveryRouteCustomer.defaultDropPosition, 0 for null
  MaxRequests,   \* bound: requests the clients make between them
  MaxAttempts    \* attempts of an allocation job (5 in worker.module.ts)

Run == Routes \X Dates

ASSUME DeliveryRunsAssumption ==
  /\ IsFiniteSet(Orders)
  /\ NoRun \notin Run /\ NoDate \notin Dates
  /\ NoRoute \notin Routes /\ NoOrder \notin Orders
  /\ Requested \in [Orders -> Dates \cup {NoDate}]
  /\ RouteOf \in [Orders -> Routes \cup {NoRoute}]
  /\ DropPosition \in [Orders -> Nat]
  /\ MaxRequests \in Nat /\ MaxAttempts \in Nat \ {0}

VARIABLES
  status,   \* status[r]: "none" until the run's row exists, then OPEN or READY
  version,  \* version[r]: DeliveryRun.version
  onRun,    \* onRun[o]: the run of the order's active allocation, or NoRun
  seq,      \* seq[o]: that allocation's deliverySequence, 0 for null
  sched,    \* sched[o]: Order.scheduledDeliveryDate
  accepted, \* accepted[o]: Order.status is ACCEPTED
  req,      \* req[c]: the request client c has in flight
  left,     \* requests the clients may still make
  queue,    \* orders whose allocation job waits in the queue
  tries,    \* tries[o]: attempts of the order's job so far
  job       \* job[w]: the job worker w is processing

runVars    == <<status, version>>
stopVars   == <<onRun, seq>>
orderVars  == <<sched, accepted>>
clientVars == <<req, left>>
workVars   == <<queue, tries, job>>
vars == <<status, version, onRun, seq, sched, accepted, req, left, queue,
          tries, job>>

-----------------------------------------------------------------------------
(* The board *)

Stops(r) == {o \in Orders : onRun[o] = r}

EffectiveDate(o) == IF sched[o] # NoDate THEN sched[o] ELSE Requested[o]

\* What a reader of the board knows of a run.
View(r) == [status |-> status[r], stops |-> {<<o, seq[o]>> : o \in Stops(r)}]

\* orderBy deliverySequence asc: nulls sort last.
SortsBefore(s, t) == s # 0 /\ (t = 0 \/ s < t)

KeptNumbers(S) == {[o \in S |-> seq[o]]} \* mutant: the stops left are not renumbered

\* The dense 1..n numberings of the stops in S in the order of their numbers n.
NumberingsBy(n, S) ==
  {f \in [S -> 1..Cardinality(S)] :
     \A a, b \in S : /\ f[a] = f[b] => a = b
                     /\ SortsBefore(n[a], n[b]) => f[a] < f[b]}

Numberings(S) == NumberingsBy(seq, S)

\* The numbering f with order o spliced in as stop k.
Splice(f, o, k) ==
  [x \in DOMAIN f \cup {o} |->
     IF x = o THEN k ELSE IF f[x] < k THEN f[x] ELSE f[x] + 1]

\* A numbering as a function on all orders, 0 for those it does not list.
NumbersOf(f) == [x \in Orders |-> IF x \in DOMAIN f THEN f[x] ELSE 0]

Renumber(f) == [x \in Orders |-> IF x \in DOMAIN f THEN f[x] ELSE seq[x]]

\* The unique index on activeOrderId: the order may get an active allocation.
Unplaced(o) == onRun[o] = NoRun

Bump(S) == [r \in Run |-> IF r \in S THEN version[r] + 1 ELSE version[r]]

-----------------------------------------------------------------------------
(* Requests in flight *)

EditOps == {"assign", "unassign", "reorder", "ready", "reopen", "driver"}

Idle == [op |-> "idle"]

Views == [status : {"none", "OPEN", "READY"}, stops : SUBSET (Orders \X Nat)]

EditReq ==
  {q \in [op : EditOps, run : Run, order : Orders \cup {NoOrder},
          source : Run \cup {NoRun}, ver : Nat, view : Views] :
     q.op \in {"assign", "unassign"} => q.order # NoOrder}

TxPhases == {"begun", "removed", "locked"}

\* ver: the version of prev when its stops were read, a history for the
\* properties; leaving, behind: the numbers given to the stops read there and at
\* the destination, 0 for the orders that were not among them.
ReschedReq ==
  [op : {"reschedule"}, phase : TxPhases, order : Orders,
   expected : Dates \cup {NoDate}, date : Dates,
   prev : Run \cup {NoRun}, dest : Run \cup {NoRun},
   ver : Nat, leaving : [Orders -> Nat], behind : [Orders -> Nat]]

\* Stops of run r that a transaction has read there and given the numbers n.
ReadOn(r, n) == {x \in Orders : r # NoRun /\ onRun[x] = r /\ n[x] # 0}

\* Rows an open reschedule transaction has written: the order's, then the stop
\* it removes, then the other stops of that run and the run itself.
OpenTx == {c \in Clients : req[c].op = "reschedule" /\ req[c].phase # "begun"}
LockedTx == {c \in Clients : req[c].op = "reschedule" /\ req[c].phase = "locked"}
LockedOrders == {req[c].order : c \in OpenTx}
HeldBy(c) ==
  LET q == req[c]
      others == IF q.phase = "locked" THEN ReadOn(q.prev, q.leaving) ELSE {}
  IN IF q.prev = NoRun THEN {} ELSE {q.order} \cup others
LockedRuns == {req[c].prev : c \in LockedTx} \ {NoRun}

\* None of the stops in S is held by a transaction of the clients in C.
Free(S, C) == \A c \in C : S \cap HeldBy(c) = {}

\* Mutant: the stops left behind are not renumbered.
NotRenumbered(q) == seq

\* The numbers as the transaction of request q has them once it has renumbered
\* the stops it read; a row that has left the run since is not on the board.
Renumbered(q) ==
  [x \in Orders |->
     IF x \in ReadOn(q.prev, q.leaving) THEN q.leaving[x] ELSE seq[x]]

NoJob == [phase |-> "none"]
JobPhases == {"setDate", "resolve", "insert", "settled"}
Job == [phase : JobPhases, order : Orders, date : Dates \cup {NoDate},
        run : Run \cup {NoRun}]

TypeOK ==
  /\ status \in [Run -> {"none", "OPEN", "READY"}]
  /\ version \in [Run -> Nat]
  /\ onRun \in [Orders -> Run \cup {NoRun}]
  /\ seq \in [Orders -> Nat]
  /\ sched \in [Orders -> Dates \cup {NoDate}]
  /\ accepted \in [Orders -> BOOLEAN]
  /\ req \in [Clients -> EditReq \cup ReschedReq \cup {Idle}]
  /\ left \in 0..MaxRequests
  /\ tries \in [Orders -> 0..MaxAttempts]
  /\ queue \in SUBSET {o \in Orders : tries[o] < MaxAttempts}
  /\ job \in [Workers -> Job \cup {NoJob}]

\* The orders have just been accepted: each has an allocation job (OrderAccepted
\* through the outbox), and no run exists yet for the dates.
Init ==
  /\ status = [r \in Run |-> "none"]
  /\ version = [r \in Run |-> 0]
  /\ onRun = [o \in Orders |-> NoRun]
  /\ seq = [o \in Orders |-> 0]
  /\ sched = [o \in Orders |-> NoDate]
  /\ accepted = [o \in Orders |-> TRUE]
  /\ req = [c \in Clients |-> Idle]
  /\ left = MaxRequests
  /\ queue = Orders
  /\ tries = [o \in Orders |-> 0]
  /\ job = [w \in Workers |-> NoJob]

-----------------------------------------------------------------------------
(* Board requests: first step *)

MayBegin(c) == left > 0 /\ req[c] = Idle

Begin(c, r) ==
  /\ req' = [req EXCEPT ![c] = r]
  /\ left' = left - 1

Edit(op, r, o, source) ==
  [op |-> op, run |-> r, order |-> o, source |-> source,
   ver |-> version[r], view |-> View(r)]

\* createRun: one transaction, settled by the unique (distributor, route, date).
CreateRun(c, r) ==
  /\ MayBegin(c)
  /\ status[r] = "none"
  /\ status' = [status EXCEPT ![r] = "OPEN"]
  /\ left' = left - 1
  /\ UNCHANGED <<version, req, stopVars, orderVars, workVars>>

\* assignOrderToRun up to its transaction.
StartAssign(c, r, o, source) ==
  /\ MayBegin(c)
  /\ status[r] = "OPEN"
  /\ EffectiveDate(o) = r[2]
  /\ onRun[o] # r
  /\ source # NoRun => status[source] # "READY"
  /\ Begin(c, Edit("assign", r, o, source))
  /\ UNCHANGED <<runVars, stopVars, orderVars, workVars>>

StartUnassign(c, r, o) ==
  /\ MayBegin(c)
  /\ status[r] = "OPEN"
  /\ Begin(c, Edit("unassign", r, o, NoRun))
  /\ UNCHANGED <<runVars, stopVars, orderVars, workVars>>

\* reorderRunOrders compares the given set with the run's stops here, outside
\* the transaction: Edit's view is the set, CommitReorder orders exactly it.
StartReorder(c, r) ==
  /\ MayBegin(c)
  /\ status[r] = "OPEN"
  /\ Begin(c, Edit("reorder", r, NoOrder, NoRun))
  /\ UNCHANGED <<runVars, stopVars, orderVars, workVars>>

ExpectedStatus(op) == IF op = "reopen" THEN "READY" ELSE "OPEN"

\* updateRun up to its transaction: mark ready, reopen, or override the driver.
StartUpdate(c, r, op) ==
  /\ MayBegin(c)
  /\ op \in {"ready", "reopen", "driver"}
  /\ status[r] = ExpectedStatus(op)
  /\ Begin(c, Edit(op, r, NoOrder, NoRun))
  /\ UNCHANGED <<runVars, stopVars, orderVars, workVars>>

\* findOrCreateRun: an existing run is returned, a missing one is created OPEN
\* (a lost race on the constraint re-reads the winner's).
FoundOrCreated(r) ==
  IF status[r] = "none" THEN [status EXCEPT ![r] = "OPEN"] ELSE status

\* changeScheduledDeliveryDate up to its transaction.
StartReschedule(c, o, d) ==
  LET dest == IF RouteOf[o] = NoRoute THEN NoRun ELSE <<RouteOf[o], d>>
  IN /\ MayBegin(c)
     /\ accepted[o]
     /\ d # sched[o]
     /\ onRun[o] # NoRun => status[onRun[o]] # "READY"
     /\ dest # NoRun => status[dest] # "READY"
     /\ status' = IF dest = NoRun THEN status ELSE FoundOrCreated(dest)
     /\ Begin(c, [op |-> "reschedule", phase |-> "begun", order |-> o,
                  expected |-> sched[o], date |-> d,
                  prev |-> onRun[o], dest |-> dest, ver |-> 0,
                  leaving |-> [x \in Orders |-> 0],
                  behind |-> [x \in Orders |-> 0]])
     /\ UNCHANGED <<version, stopVars, orderVars, workVars>>

-----------------------------------------------------------------------------
(* Board requests: the transaction *)

Finish(c) == req' = [req EXCEPT ![c] = Idle] /\ UNCHANGED left

\* Mutant: the edit is settled by the status alone.
CasOnStatus(q) ==
  q.run \notin LockedRuns /\ status[q.run] = ExpectedStatus(q.op)

\* The compare-and-swap every edit opens its transaction with.  It waits for a
\* transaction that holds the row, as the edit then waits for the stops it writes.
Cas(q) ==
  /\ version[q.run] = q.ver
  /\ status[q.run] = ExpectedStatus(q.op)
  /\ q.run \notin LockedRuns

\* The source row is matched on (activeOrderId, runId), not on its run's
\* version; without a source the unique activeOrderId refuses a second stop.
CommitAssign(c) ==
  LET q == req[c] IN
  /\ q.op = "assign"
  /\ Cas(q)
  /\ onRun[q.order] = q.source
  /\ Free(Stops(q.run) \cup {q.order}, OpenTx) /\ q.source \notin LockedRuns
  /\ \E f \in Numberings(Stops(q.run) \ {q.order}) :
       \E k \in 1..(Cardinality(DOMAIN f) + 1) :
         seq' = Renumber(Splice(f, q.order, k))
  /\ onRun' = [onRun EXCEPT ![q.order] = q.run]
  /\ version' = Bump({q.run, q.source} \ {NoRun})
  /\ Finish(c)
  /\ UNCHANGED <<status, orderVars, workVars>>

\* Mutant: the stops left behind keep their numbers.
UnassignLeavingGap(c) ==
  LET q == req[c] IN
  /\ q.op = "unassign" /\ Cas(q)
  /\ onRun[q.order] = q.run /\ Free(Stops(q.run), OpenTx)
  /\ onRun' = [onRun EXCEPT ![q.order] = NoRun]
  /\ seq' = [seq EXCEPT ![q.order] = 0]
  /\ version' = Bump({q.run})
  /\ Finish(c)
  /\ UNCHANGED <<status, orderVars, workVars>>

CommitUnassign(c) ==
  LET q == req[c] IN
  /\ q.op = "unassign"
  /\ Cas(q)
  /\ onRun[q.order] = q.run
  /\ Free(Stops(q.run), OpenTx)
  /\ onRun' = [onRun EXCEPT ![q.order] = NoRun]
  /\ \E f \in Numberings(Stops(q.run) \ {q.order}) :
       seq' = [Renumber(f) EXCEPT ![q.order] = 0]
  /\ version' = Bump({q.run})
  /\ Finish(c)
  /\ UNCHANGED <<status, orderVars, workVars>>

\* The rows renumbered are the ones read before the transaction.
CommitReorder(c) ==
  LET q == req[c]
      listed == {s[1] : s \in q.view.stops}
  IN /\ q.op = "reorder"
     /\ Cas(q) /\ Free(listed, OpenTx)
     /\ \E f \in [listed -> 1..Cardinality(listed)] :
          /\ \A a, b \in listed : f[a] = f[b] => a = b
          /\ seq' = Renumber(f)
     /\ version' = Bump({q.run})
     /\ Finish(c)
     /\ UNCHANGED <<status, onRun, orderVars, workVars>>

CommitUpdate(c) ==
  LET q == req[c] IN
  /\ q.op \in {"ready", "reopen", "driver"}
  /\ Cas(q)
  /\ status' = [status EXCEPT ![q.run] =
                  IF q.op = "ready" THEN "READY" ELSE "OPEN"]
  /\ version' = Bump({q.run})
  /\ Finish(c)
  /\ UNCHANGED <<stopVars, orderVars, workVars>>

\* The reschedule transaction opens with a compare-and-swap on the order's date.
DateUnchanged(q) == q.order \notin LockedOrders /\ sched[q.order] = q.expected

\* Its first part, for an order on a run: the stop is removed, and those that
\* remain are read, their run not yet locked.
RemoveStop(c) ==
  LET q == req[c] IN
  /\ q.op = "reschedule" /\ q.phase = "begun" /\ q.prev # NoRun
  /\ DateUnchanged(q)
  /\ onRun[q.order] = q.prev /\ Free({q.order}, OpenTx)
  /\ \E f \in Numberings(Stops(q.prev) \ {q.order}) :
       req' = [req EXCEPT ![c] = [q EXCEPT !.phase = "removed",
                                           !.ver = version[q.prev],
                                           !.leaving = NumbersOf(f)]]
  /\ UNCHANGED <<runVars, stopVars, orderVars, left, workVars>>

\* The stops read are renumbered and their run's version incremented, which locks
\* it; then, with a stop removed or none to remove, the destination's status and
\* stops are read without a lock.
ReadDestination(c) ==
  LET q == req[c]
      siblings == IF q.dest = NoRun THEN {} ELSE Stops(q.dest) \ {q.order}
  IN /\ q.op = "reschedule"
     /\ \/ /\ q.phase = "begun" /\ q.prev = NoRun
           /\ DateUnchanged(q)
        \/ /\ q.phase = "removed" /\ q.prev \notin LockedRuns
           /\ Free(ReadOn(q.prev, q.leaving), OpenTx)
     /\ q.dest # NoRun => status[q.dest] # "READY"
     /\ \E f \in NumberingsBy(Renumbered(q), siblings) :
          req' = [req EXCEPT ![c] = [q EXCEPT !.phase = "locked",
                                              !.behind = NumbersOf(f)]]
     /\ UNCHANGED <<runVars, stopVars, orderVars, left, workVars>>

\* The rest of it.  The stops it renumbers are the ones it read, on either run; a
\* row that has since left its run is renumbered without effect on the board.
CommitReschedule(c) ==
  LET q == req[c]
      listed == Cardinality({o \in Orders : q.behind[o] # 0})
  IN /\ q.op = "reschedule" /\ q.phase = "locked"
     /\ q.prev # NoRun \/ q.dest # NoRun
     /\ q.prev = NoRun => Unplaced(q.order)
     /\ q.dest \notin LockedRuns \ {q.prev}
     /\ Free(ReadOn(q.dest, q.behind), OpenTx \ {c})
     /\ sched' = [sched EXCEPT ![q.order] = q.date]
     /\ onRun' = [onRun EXCEPT ![q.order] = q.dest]
     /\ seq' = [o \in Orders |->
                  CASE o = q.order -> IF q.dest = NoRun THEN 0 ELSE listed + 1
                    [] o # q.order /\ o \in ReadOn(q.dest, q.behind) -> q.behind[o]
                    [] OTHER -> Renumbered(q)[o]]
     /\ version' = [r \in Run |->
                      version[r] + (IF r = q.prev THEN 1 ELSE 0)
                                 + (IF r = q.dest THEN 1 ELSE 0)]
     /\ Finish(c)
     /\ UNCHANGED <<status, accepted, workVars>>

\* The same with no allocation to remove and no route to allocate to.
CommitNewDate(c) ==
  LET q == req[c] IN
  /\ q.op = "reschedule" /\ q.phase = "locked"
  /\ q.prev = NoRun /\ q.dest = NoRun
  /\ sched' = [sched EXCEPT ![q.order] = q.date]
  /\ Finish(c)
  /\ UNCHANGED <<runVars, stopVars, accepted, workVars>>

\* A conflict (409), a violated constraint, a failed or timed-out transaction,
\* or the death of the API process: nothing the request wrote remains.
RollBack(c) ==
  /\ req[c] # Idle
  /\ Finish(c)
  /\ UNCHANGED <<runVars, stopVars, orderVars, workVars>>

-----------------------------------------------------------------------------
(* The allocation worker *)

\* Nothing is left of the job but to complete it.
Settled(o) == [phase |-> "settled", order |-> o, date |-> NoDate, run |-> NoRun]

\* DeliveryRunAllocationProcessor.process and the start of allocateOrder: the
\* order is read once, and the date is fixed from that read.
TakeJob(w, o) ==
  LET date == EffectiveDate(o)
      phase == IF sched[o] = NoDate THEN "setDate" ELSE "resolve"
  IN /\ job[w] = NoJob /\ o \in queue
     /\ job' = [job EXCEPT ![w] =
                  IF ~accepted[o] \/ date = NoDate THEN Settled(o)
                  ELSE [phase |-> phase, order |-> o, date |-> date, run |-> NoRun]]
     /\ queue' = queue \ {o}
     /\ tries' = [tries EXCEPT ![o] = @ + 1]
     /\ UNCHANGED <<runVars, stopVars, orderVars, clientVars>>

\* An update by id: it does not look at the date the order has now.
SetScheduledDate(w) ==
  LET j == job[w] IN
  /\ j.phase = "setDate"
  /\ j.order \notin LockedOrders
  /\ sched' = [sched EXCEPT ![j.order] = j.date]
  /\ job' = [job EXCEPT ![w].phase = "resolve"]
  /\ UNCHANGED <<runVars, stopVars, accepted, clientVars, queue, tries>>

\* The route, the run (found or created), the check that it is not READY and
\* that the order has no allocation yet.
ResolveRun(w) ==
  LET j == job[w]
      r == <<RouteOf[j.order], j.date>>
  IN /\ j.phase = "resolve"
     /\ IF RouteOf[j.order] = NoRoute
        THEN /\ job' = [job EXCEPT ![w] = Settled(j.order)]
             /\ UNCHANGED status
        ELSE /\ status' = FoundOrCreated(r)
             /\ job' = [job EXCEPT ![w] =
                          IF status[r] = "READY" \/ ~Unplaced(j.order)
                          THEN Settled(j.order)
                          ELSE [j EXCEPT !.phase = "insert", !.run = r]]
     /\ UNCHANGED <<version, stopVars, orderVars, clientVars, queue, tries>>

\* Mutant: the worker leaves the version to the people who edit.
InsertUnversioned(w) ==
  LET j == job[w] IN
  /\ j.phase = "insert" /\ Unplaced(j.order) /\ j.run \notin LockedRuns
  /\ onRun' = [onRun EXCEPT ![j.order] = j.run]
  /\ seq' = [seq EXCEPT ![j.order] = DropPosition[j.order]]
  /\ job' = [job EXCEPT ![w] = Settled(j.order)]
  /\ UNCHANGED <<runVars, orderVars, clientVars, queue, tries>>

\* The transaction: the row is created and the run's version incremented, with
\* neither the version nor the status of the run in the predicate.
InsertAllocation(w) ==
  LET j == job[w] IN
  /\ j.phase = "insert"
  /\ Unplaced(j.order)
  /\ j.run \notin LockedRuns
  /\ onRun' = [onRun EXCEPT ![j.order] = j.run]
  /\ seq' = [seq EXCEPT ![j.order] = DropPosition[j.order]]
  /\ version' = Bump({j.run})
  /\ job' = [job EXCEPT ![w] = Settled(j.order)]
  /\ UNCHANGED <<status, orderVars, clientVars, queue, tries>>

CompleteJob(w) ==
  /\ job[w] # NoJob /\ job[w].phase = "settled"
  /\ job' = [job EXCEPT ![w] = NoJob]
  /\ UNCHANGED <<runVars, stopVars, orderVars, clientVars, queue, tries>>

\* Mutant: a failed job is always delivered again.
FailJobForever(w) ==
  /\ job[w] # NoJob
  /\ job' = [job EXCEPT ![w] = NoJob]
  /\ queue' = queue \cup {job[w].order}
  /\ UNCHANGED <<runVars, stopVars, orderVars, clientVars, tries>>

\* The job throws (P2002 included) or its worker dies, at any point, the moment
\* between its commit and its acknowledgement included: it is delivered again
\* until its attempts are used up.
FailJob(w) ==
  /\ job[w] # NoJob
  /\ job' = [job EXCEPT ![w] = NoJob]
  /\ queue' = IF tries[job[w].order] < MaxAttempts
              THEN queue \cup {job[w].order} ELSE queue
  /\ UNCHANGED <<runVars, stopVars, orderVars, clientVars, tries>>

\* A stall: the queue gives the job to another worker though this one, whose
\* lock has lapsed, goes on with it.
StallJob(w) ==
  /\ job[w] # NoJob /\ tries[job[w].order] < MaxAttempts
  /\ job[w].order \notin queue
  /\ queue' = queue \cup {job[w].order}
  /\ UNCHANGED <<runVars, stopVars, orderVars, clientVars, tries, job>>

-----------------------------------------------------------------------------

\* The order is cancelled or delivered.  Neither takes it off its run.
LeaveAccepted(o) ==
  /\ accepted[o] /\ o \notin LockedOrders
  /\ accepted' = [accepted EXCEPT ![o] = FALSE]
  /\ UNCHANGED <<runVars, stopVars, sched, clientVars, workVars>>

\* The end of a bounded behaviour.
Quiescent ==
  /\ \A c \in Clients : req[c] = Idle
  /\ \A w \in Workers : job[w] = NoJob
  /\ queue = {} /\ left = 0
  /\ UNCHANGED vars

ClientStep(c) ==
  \/ \E r \in Run : CreateRun(c, r) \/ StartReorder(c, r)
  \/ \E r \in Run, op \in EditOps : StartUpdate(c, r, op)
  \/ \E r \in Run, o \in Orders : StartUnassign(c, r, o)
  \/ \E r \in Run, o \in Orders, s \in Run \cup {NoRun} : StartAssign(c, r, o, s)
  \/ \E o \in Orders, d \in Dates : StartReschedule(c, o, d)
  \/ CommitAssign(c) \/ CommitUnassign(c) \/ CommitReorder(c)
  \/ CommitUpdate(c) \/ RemoveStop(c) \/ ReadDestination(c)
  \/ CommitReschedule(c) \/ CommitNewDate(c) \/ RollBack(c)

WorkerStep(w) ==
  \/ \E o \in Orders : TakeJob(w, o)
  \/ SetScheduledDate(w) \/ ResolveRun(w) \/ InsertAllocation(w)
  \/ CompleteJob(w) \/ FailJob(w) \/ StallJob(w)

Next ==
  \/ \E c \in Clients : ClientStep(c)
  \/ \E w \in Workers : WorkerStep(w)
  \/ \E o \in Orders : LeaveAccepted(o)
  \/ Quiescent

Spec == Init /\ [][Next]_vars

-----------------------------------------------------------------------------
(* Properties *)

\* A request whose version is still the run's has a current view of the run:
\* whatever changes a run's status, stops or numbers increments its version in
\* the same transaction.
FreshViewIsCurrent ==
  \A c \in Clients :
    /\ req[c].op \in EditOps
    /\ req[c].ver = version[req[c].run]
    => req[c].view = View(req[c].run)

\* An open reschedule transaction keeps the order it moves: until it ends, the
\* order stays where the transaction found it and no other reschedule of the
\* same order is open, so a commit moves the order off the run it was found on.
OpenReschedulesHoldTheirOrder ==
  \A c \in OpenTx :
    /\ req[c].prev # NoRun => onRun[req[c].order] = req[c].prev
    /\ \A d \in OpenTx : req[d].order = req[c].order => d = c

\* Client c's edit of the board commits in this step.
EditCommits(c) ==
  /\ req[c].op \in EditOps /\ req'[c] = Idle
  /\ version'[req[c].run] # version[req[c].run]

\* No edit of the board - a move, a reorder, marking a run ready - is applied to
\* a run that is not, stop for stop, the one its author was looking at, whatever
\* the worker and the other users did meanwhile (ADR-057).
EditsApplyToTheBoardSeen ==
  [][\A c \in Clients : EditCommits(c) => req[c].view = View(req[c].run)]_vars

\* After a move, a removal or a reorder the run is numbered 1..n with no gap and
\* no repeat, though a reorder's set of stops was read before its transaction
\* and the worker seeds numbers of its own.
EditsLeaveRunDense ==
  [][\A c \in Clients :
       EditCommits(c) /\ req[c].op \in {"assign", "unassign", "reorder"}
       => LET stops == {o \in Orders : onRun'[o] = req[c].run}
          IN {seq'[o] : o \in stops} = 1..Cardinality(stops)]_vars

\* Client c's reschedule commits in this step and takes the order off a run.
RescheduleCommits(c) ==
  /\ req'[c] = Idle /\ c \in LockedTx /\ req[c].prev # NoRun
  /\ version'[req[c].prev] # version[req[c].prev]

\* The run a rescheduled order leaves is numbered 1..n in the order it had, though
\* its stops are read before its row is locked - unless the run itself changed in
\* between, when a stop that came stays as the worker numbered it and one that
\* went leaves its gap.
ReschedulesCloseUp ==
  [][\A c \in Clients :
       RescheduleCommits(c) /\ req[c].ver = version[req[c].prev]
       => LET stops == {o \in Orders : onRun'[o] = req[c].prev}
          IN /\ {seq'[o] : o \in stops} = 1..Cardinality(stops)
             /\ \A a, b \in stops \ {req[c].order} :
                  SortsBefore(seq[a], seq[b]) => seq'[a] < seq'[b]]_vars

\* The requests, versions and jobs come to one change of the board at a time
\* (DeliveryBoard): every edit, reschedule and allocation takes effect whole, on
\* the board as it is then, and renumbers no run but its own.
Board == INSTANCE DeliveryBoard WITH Runs <- Run
ChangesOneAtATime == Board!Safety

=============================================================================
