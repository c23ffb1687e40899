------------------------ MODULE DeliveryRunsProofs ------------------------
(***************************************************************************)
(* Theorems about the delivery board, for any number of orders, routes,    *)
(* dates, users and workers.                                               *)
(*                                                                         *)
(* The argument for EditsApplyToTheBoardSeen is the usual one for          *)
(* optimistic concurrency: every step that changes what a reader sees of a *)
(* run increments the run's version (the CHANGE lemmas), so a request      *)
(* whose version is still the run's has a current view.  The invariant     *)
(* that carries it is BoardInv: versions in requests never exceed the      *)
(* run's, and the order an open reschedule moves stays where it was found. *)
(* The same argument tells when the stops a reschedule has read are still  *)
(* the ones it leaves behind.                                              *)
(***************************************************************************)
EXTENDS DeliveryRuns, FiniteSetTheorems, FunctionTheorems, TLAPS

-----------------------------------------------------------------------------
(* Operators *)

\* The stops of any run can be counted.
LEMMA StopsCounted ==
  ASSUME NEW S \in SUBSET Orders
  PROVE  Cardinality(S) \in Nat /\ IsFiniteSet(S)
  BY FS_Subset, FS_CardinalityType, DeliveryRunsAssumption
     DEF DeliveryRunsAssumption

\* A numbering gives each of the orders it lists a number, at least 1.
LEMMA NumberingsByType ==
  ASSUME NEW S \in SUBSET Orders, NEW n, NEW f \in NumberingsBy(n, S)
  PROVE  /\ f \in [S -> Nat]
         /\ DOMAIN f = S
  BY StopsCounted DEF NumberingsBy

\* The same of the numberings by the stored numbers.
LEMMA NumberingsType ==
  ASSUME NEW S \in SUBSET Orders, NEW f \in Numberings(S)
  PROVE  /\ f \in [S -> Nat]
         /\ DOMAIN f = S
  BY NumberingsByType DEF Numberings

\* Renumbering by a function on some orders leaves the others as they are.
LEMMA RenumberType ==
  ASSUME seq \in [Orders -> Nat],
         NEW S \in SUBSET Orders, NEW f \in [S -> Nat]
  PROVE  /\ Renumber(f) \in [Orders -> Nat]
         /\ \A o \in Orders \ S : Renumber(f)[o] = seq[o]
  BY DEF Renumber

\* Splicing an order into a numbering adds it to the orders listed.
LEMMA SpliceType ==
  ASSUME NEW S \in SUBSET Orders, NEW f \in [S -> Nat],
         NEW o \in Orders, NEW k \in Nat
  PROVE  Splice(f, o, k) \in [S \cup {o} -> Nat]
  BY DEF Splice

\* The function on all orders that a numbering stands for numbers each of them.
LEMMA NumbersOfType ==
  ASSUME NEW S \in SUBSET Orders, NEW f \in [S -> Nat]
  PROVE  NumbersOf(f) \in [Orders -> Nat]
  BY DEF NumbersOf

\* Bump increments the version of the runs in S and no other.
LEMMA BumpType ==
  ASSUME version \in [Run -> Nat], NEW S
  PROVE  /\ Bump(S) \in [Run -> Nat]
         /\ \A r \in Run : Bump(S)[r] = IF r \in S THEN version[r] + 1
                                                  ELSE version[r]
  BY DEF Bump

\* What a reader sees of a run is a status and numbered stops.
LEMMA ViewType ==
  ASSUME TypeOK, NEW r \in Run
  PROVE  View(r) \in Views
  BY DEF TypeOK, View, Views, Stops

\* The request an edit's first step makes is well formed.
LEMMA EditType ==
  ASSUME TypeOK, NEW op \in EditOps, NEW r \in Run,
         NEW o \in Orders \cup {NoOrder}, NEW source \in Run \cup {NoRun},
         op \in {"assign", "unassign"} => o # NoOrder
  PROVE  Edit(op, r, o, source) \in EditReq
<1>1. version[r] \in Nat
  BY DEF TypeOK
<1>. QED
  BY <1>1, ViewType DEF Edit, EditReq

\* The request in flight is of one of three kinds, told apart by its operation.
LEMMA ReqType ==
  ASSUME TypeOK, NEW c \in Clients
  PROVE  /\ req[c].op \in EditOps => req[c] \in EditReq
         /\ req[c].op = "reschedule" => req[c] \in ReschedReq
  BY DEF TypeOK, EditReq, ReschedReq, Idle, EditOps

-----------------------------------------------------------------------------
(* Type correctness *)

\* The board is well formed when the orders have just been accepted.
LEMMA TypeInit == Init => TypeOK
  BY DeliveryRunsAssumption DEF DeliveryRunsAssumption, Init, TypeOK

\* The steps of a request before its transaction.
LEMMA TypeStart ==
  ASSUME TypeOK, NEW c \in Clients
  PROVE  /\ \A r \in Run : CreateRun(c, r) => TypeOK'
         /\ \A r \in Run : StartReorder(c, r) => TypeOK'
         /\ \A r \in Run, op \in EditOps : StartUpdate(c, r, op) => TypeOK'
         /\ \A r \in Run, o \in Orders : StartUnassign(c, r, o) => TypeOK'
         /\ \A r \in Run, o \in Orders, s \in Run \cup {NoRun} :
              StartAssign(c, r, o, s) => TypeOK'
         /\ \A o \in Orders, d \in Dates : StartReschedule(c, o, d) => TypeOK'
<1>1. \A q \in EditReq \cup ReschedReq :
        MayBegin(c) /\ Begin(c, q)
          => /\ req' \in [Clients -> EditReq \cup ReschedReq \cup {Idle}]
             /\ left' \in 0..MaxRequests
  BY DeliveryRunsAssumption DEF DeliveryRunsAssumption, TypeOK, Begin, MayBegin
<1>2. ASSUME NEW r \in Run, CreateRun(c, r)
      PROVE  TypeOK'
  BY <1>2, DeliveryRunsAssumption
     DEF DeliveryRunsAssumption, TypeOK, CreateRun, MayBegin, stopVars, orderVars, workVars
<1>3. ASSUME NEW r \in Run, StartReorder(c, r)
      PROVE  TypeOK'
  <2>1. Edit("reorder", r, NoOrder, NoRun) \in EditReq
    BY EditType DEF EditOps
  <2>. QED
    BY <1>1, <1>3, <2>1
       DEF TypeOK, StartReorder, runVars, stopVars, orderVars, workVars
<1>4. ASSUME NEW r \in Run, NEW op \in EditOps, StartUpdate(c, r, op)
      PROVE  TypeOK'
  <2>1. Edit(op, r, NoOrder, NoRun) \in EditReq
    BY <1>4, EditType DEF StartUpdate
  <2>. QED
    BY <1>1, <1>4, <2>1
       DEF TypeOK, StartUpdate, runVars, stopVars, orderVars, workVars
<1>5. ASSUME NEW r \in Run, NEW o \in Orders, StartUnassign(c, r, o)
      PROVE  TypeOK'
  <2>1. Edit("unassign", r, o, NoRun) \in EditReq
    BY EditType, DeliveryRunsAssumption DEF EditOps, DeliveryRunsAssumption
  <2>. QED
    BY <1>1, <1>5, <2>1
       DEF TypeOK, StartUnassign, runVars, stopVars, orderVars, workVars
<1>6. ASSUME NEW r \in Run, NEW o \in Orders, NEW s \in Run \cup {NoRun},
             StartAssign(c, r, o, s)
      PROVE  TypeOK'
  <2>1. Edit("assign", r, o, s) \in EditReq
    BY EditType, DeliveryRunsAssumption DEF EditOps, DeliveryRunsAssumption
  <2>. QED
    BY <1>1, <1>6, <2>1
       DEF TypeOK, StartAssign, runVars, stopVars, orderVars, workVars
<1>7. ASSUME NEW o \in Orders, NEW d \in Dates, StartReschedule(c, o, d)
      PROVE  TypeOK'
  <2>. DEFINE dest == IF RouteOf[o] = NoRoute THEN NoRun ELSE <<RouteOf[o], d>>
              q == [op |-> "reschedule", phase |-> "begun", order |-> o,
                    expected |-> sched[o], date |-> d,
                    prev |-> onRun[o], dest |-> dest, ver |-> 0,
                    leaving |-> [x \in Orders |-> 0],
                    behind |-> [x \in Orders |-> 0]]
  <2>1. dest \in Run \cup {NoRun}
    BY DeliveryRunsAssumption DEF DeliveryRunsAssumption, Run
  <2>2. q \in ReschedReq
    BY <2>1 DEF TypeOK, ReschedReq, TxPhases
  <2>3. status' = (IF dest = NoRun THEN status ELSE FoundOrCreated(dest))
        /\ MayBegin(c) /\ Begin(c, q)
        /\ UNCHANGED <<version, stopVars, orderVars, workVars>>
    BY <1>7 DEF StartReschedule
  <2>. HIDE DEF q, dest
  <2>4. status' \in [Run -> {"none", "OPEN", "READY"}]
    BY <2>1, <2>3 DEF TypeOK, FoundOrCreated
  <2>. QED
    BY <1>1, <2>2, <2>3, <2>4 DEF TypeOK, stopVars, orderVars, workVars
<1>. QED
  BY <1>2, <1>3, <1>4, <1>5, <1>6, <1>7

\* Ending a request leaves the client idle and the others as they were.
LEMMA FinishType ==
  ASSUME TypeOK, NEW c \in Clients, Finish(c)
  PROVE  /\ req' \in [Clients -> EditReq \cup ReschedReq \cup {Idle}]
         /\ left' \in 0..MaxRequests
  BY DEF TypeOK, Finish

\* The transactions of requests.
LEMMA TypeCommit ==
  ASSUME TypeOK, NEW c \in Clients,
         \/ CommitAssign(c) \/ CommitUnassign(c) \/ CommitReorder(c)
         \/ CommitUpdate(c) \/ RollBack(c)
  PROVE  TypeOK'
<1>. USE DEF runVars, stopVars, orderVars, workVars
<1>. DEFINE q == req[c]
<1>1. CASE CommitAssign(c)
  <2>1. q \in EditReq /\ q.order \in Orders /\ q.run \in Run
    BY <1>1, ReqType DEF CommitAssign, EditOps, EditReq
  <2>2. seq' \in [Orders -> Nat]
    <3>1. PICK f \in Numberings(Stops(q.run) \ {q.order}) :
            \E k \in 1..(Cardinality(DOMAIN f) + 1) :
              seq' = Renumber(Splice(f, q.order, k))
      BY <1>1 DEF CommitAssign
    <3>. DEFINE S == Stops(q.run) \ {q.order}
    <3>2. S \in SUBSET Orders
      BY DEF Stops
    <3>3. f \in [S -> Nat] /\ DOMAIN f = S
      BY <3>2, NumberingsType
    <3>4. PICK k \in Nat : seq' = Renumber(Splice(f, q.order, k))
      BY <3>1, <3>2, <3>3, StopsCounted
    <3>. HIDE DEF S
    <3>5. Splice(f, q.order, k) \in [S \cup {q.order} -> Nat]
      BY <2>1, <3>2, <3>3, SpliceType
    <3>6. S \cup {q.order} \in SUBSET Orders
      BY <2>1, <3>2
    <3>. QED
      BY <3>4, <3>5, <3>6, RenumberType DEF TypeOK
  <2>. QED
    BY <1>1, <2>1, <2>2, FinishType, BumpType DEF TypeOK, CommitAssign
<1>2. CASE CommitUnassign(c)
  <2>1. q \in EditReq /\ q.order \in Orders /\ q.run \in Run
    BY <1>2, ReqType DEF CommitUnassign, EditOps, EditReq
  <2>2. seq' \in [Orders -> Nat]
    <3>1. PICK f \in Numberings(Stops(q.run) \ {q.order}) :
            seq' = [Renumber(f) EXCEPT ![q.order] = 0]
      BY <1>2 DEF CommitUnassign
    <3>2. Stops(q.run) \ {q.order} \in SUBSET Orders
      BY DEF Stops
    <3>. QED
      BY <2>1, <3>1, <3>2, NumberingsType, RenumberType DEF TypeOK
  <2>. QED
    BY <1>2, <2>1, <2>2, FinishType, BumpType DEF TypeOK, CommitUnassign
<1>3. CASE CommitReorder(c)
  <2>. DEFINE listed == {s[1] : s \in q.view.stops}
  <2>1. q \in EditReq /\ q.run \in Run
    BY <1>3, ReqType DEF CommitReorder, EditOps, EditReq
  <2>2. listed \in SUBSET Orders
    BY <2>1 DEF EditReq, Views
  <2>3. seq' \in [Orders -> Nat]
    <3>1. PICK f \in [listed -> 1..Cardinality(listed)] : seq' = Renumber(f)
      BY <1>3 DEF CommitReorder
    <3>. HIDE DEF listed
    <3>2. f \in [listed -> Nat]
      BY <2>2, <3>1, StopsCounted
    <3>. QED
      BY <2>2, <3>1, <3>2, RenumberType DEF TypeOK
  <2>. QED
    BY <1>3, <2>1, <2>3, FinishType, BumpType DEF TypeOK, CommitReorder
<1>4. CASE CommitUpdate(c)
  <2>1. q.run \in Run
    BY <1>4, ReqType DEF CommitUpdate, EditOps, EditReq
  <2>. QED
    BY <1>4, <2>1, FinishType, BumpType DEF TypeOK, CommitUpdate
<1>5. CASE RollBack(c)
  BY <1>5, FinishType DEF TypeOK, RollBack
<1>. QED
  BY <1>1, <1>2, <1>3, <1>4, <1>5

\* The reschedule transaction.
LEMMA TypeReschedule ==
  ASSUME TypeOK, NEW c \in Clients,
         \/ RemoveStop(c) \/ ReadDestination(c)
         \/ CommitReschedule(c) \/ CommitNewDate(c)
  PROVE  TypeOK'
<1>. USE DEF runVars, stopVars, orderVars, workVars
<1>. DEFINE q == req[c]
<1>0. q \in ReschedReq
  BY ReqType DEF RemoveStop, ReadDestination, CommitReschedule, CommitNewDate
<1>1. CASE RemoveStop(c)
  <2>. DEFINE S == Stops(q.prev) \ {q.order}
  <2>1. PICK f \in Numberings(S) :
          req' = [req EXCEPT ![c] = [q EXCEPT !.phase = "removed",
                                              !.ver = version[q.prev],
                                              !.leaving = NumbersOf(f)]]
    BY <1>1 DEF RemoveStop
  <2>2. S \in SUBSET Orders
    BY DEF Stops
  <2>. HIDE DEF S
  <2>3. NumbersOf(f) \in [Orders -> Nat]
    BY <2>2, NumberingsType, NumbersOfType
  <2>4. version[q.prev] \in Nat
    BY <1>0, <1>1 DEF RemoveStop, ReschedReq, TypeOK
  <2>5. [q EXCEPT !.phase = "removed", !.ver = version[q.prev],
                  !.leaving = NumbersOf(f)] \in ReschedReq
    BY <1>0, <2>3, <2>4 DEF ReschedReq, TxPhases
  <2>. QED
    BY <1>1, <2>1, <2>5 DEF TypeOK, RemoveStop
<1>2. CASE ReadDestination(c)
  <2>. DEFINE siblings == IF q.dest = NoRun THEN {} ELSE Stops(q.dest) \ {q.order}
  <2>1. PICK f \in NumberingsBy(Renumbered(q), siblings) :
          req' = [req EXCEPT ![c] = [q EXCEPT !.phase = "locked",
                                              !.behind = NumbersOf(f)]]
    BY <1>2 DEF ReadDestination
  <2>2. siblings \in SUBSET Orders
    BY DEF Stops
  <2>. HIDE DEF siblings
  <2>3. NumbersOf(f) \in [Orders -> Nat]
    BY <2>2, NumberingsByType, NumbersOfType
  <2>4. [q EXCEPT !.phase = "locked", !.behind = NumbersOf(f)] \in ReschedReq
    BY <1>0, <2>3 DEF ReschedReq, TxPhases
  <2>. QED
    BY <1>2, <2>1, <2>4 DEF TypeOK, ReadDestination
<1>3. CASE CommitReschedule(c)
  <2>. DEFINE listed == Cardinality({o \in Orders : q.behind[o] # 0})
              last == IF q.dest = NoRun THEN 0 ELSE listed + 1
  <2>1. last \in Nat
    BY StopsCounted
  <2>2. seq' = [o \in Orders |->
                  CASE o = q.order -> last
                    [] o # q.order /\ o \in ReadOn(q.dest, q.behind) -> q.behind[o]
                    [] OTHER -> Renumbered(q)[o]]
    BY <1>3 DEF CommitReschedule
  <2>. HIDE DEF last
  <2>3. \A o \in Orders : Renumbered(q)[o] \in Nat
    BY <1>0 DEF Renumbered, ReschedReq, TypeOK
  <2>4. seq' \in [Orders -> Nat]
    BY <1>0, <2>1, <2>2, <2>3 DEF ReschedReq
  <2>5. version' \in [Run -> Nat]
    BY <1>3 DEF CommitReschedule, TypeOK
  <2>. QED
    BY <1>0, <1>3, <2>4, <2>5, FinishType DEF TypeOK, CommitReschedule, ReschedReq
<1>4. CASE CommitNewDate(c)
  BY <1>0, <1>4, FinishType DEF TypeOK, CommitNewDate, ReschedReq
<1>. QED
  BY <1>1, <1>2, <1>3, <1>4

\* A job past its first look has a date, and past its second a run.
JobsPlanned ==
  \A w \in Workers :
    /\ job[w].phase \in {"setDate", "resolve"} => job[w].date \in Dates
    /\ job[w].phase = "insert" => job[w].run \in Run

\* No job goes on without the date or the run its next step needs.
LEMMA JobsPlannedStep ==
  ASSUME TypeOK, JobsPlanned, [Next]_vars
  PROVE  JobsPlanned'
<1>. SUFFICES ASSUME NEW w \in Workers
              PROVE  /\ job'[w].phase \in {"setDate", "resolve"} => job'[w].date \in Dates
                     /\ job'[w].phase = "insert" => job'[w].run \in Run
  BY DEF JobsPlanned
<1>0. job \in [Workers -> Job \cup {NoJob}] /\ NoJob.phase = "none"
  BY DEF TypeOK, NoJob
<1>1. CASE job'[w] = job[w]
  BY <1>1 DEF JobsPlanned
<1>2. CASE job'[w] = NoJob
  BY <1>0, <1>2
<1>3. ASSUME NEW o \in Orders, TakeJob(w, o)
      PROVE  /\ job'[w].phase \in {"setDate", "resolve"} => job'[w].date \in Dates
             /\ job'[w].phase = "insert" => job'[w].run \in Run
  <2>1. EffectiveDate(o) \in Dates \cup {NoDate}
    BY DeliveryRunsAssumption DEF DeliveryRunsAssumption, TypeOK, EffectiveDate
  <2>. QED
    BY <1>0, <1>3, <2>1 DEF TakeJob, Settled
<1>4. CASE SetScheduledDate(w)
  <2>1. job[w] \in Job /\ job[w].phase = "setDate"
    BY <1>0, <1>4 DEF SetScheduledDate
  <2>2. job'[w].phase = "resolve" /\ job'[w].date = job[w].date
    BY <1>0, <1>4, <2>1 DEF SetScheduledDate, Job
  <2>. QED
    BY <2>1, <2>2 DEF JobsPlanned
<1>5. CASE ResolveRun(w)
  <2>1. job[w] \in Job /\ job[w].phase = "resolve" /\ job[w].date \in Dates
    BY <1>0, <1>5 DEF ResolveRun, JobsPlanned
  <2>2. job[w].order \in Orders
    BY <2>1 DEF Job
  <2>3. RouteOf[job[w].order] # NoRoute => <<RouteOf[job[w].order], job[w].date>> \in Run
    BY <2>1, <2>2, DeliveryRunsAssumption DEF DeliveryRunsAssumption, Run
  <2>4. CASE job'[w].phase = "settled"
    BY <2>4
  <2>5. CASE job'[w].phase # "settled"
    <3>1. PICK r : r = <<RouteOf[job[w].order], job[w].date>>
      OBVIOUS
    <3>2. /\ RouteOf[job[w].order] # NoRoute
          /\ job' = [job EXCEPT ![w] = [job[w] EXCEPT !.phase = "insert", !.run = r]]
      BY <1>0, <1>5, <2>5, <3>1 DEF ResolveRun, Settled
    <3>3. job'[w].phase = "insert" /\ job'[w].run = r
      BY <1>0, <2>1, <3>2 DEF Job
    <3>. QED
      BY <2>3, <3>1, <3>2, <3>3
  <2>. QED
    BY <2>4, <2>5
<1>6. CASE InsertAllocation(w)
  <2>1. job[w] \in Job
    BY <1>0, <1>6 DEF InsertAllocation
  <2>2. job'[w].phase = "settled"
    BY <1>0, <1>6, <2>1 DEF InsertAllocation, Settled
  <2>. QED
    BY <2>2
<1>7. ASSUME NEW v \in Workers, WorkerStep(v), v # w
      PROVE  job'[w] = job[w]
  BY <1>0, <1>7 DEF WorkerStep, TakeJob, SetScheduledDate, ResolveRun, InsertAllocation,
     CompleteJob, FailJob, StallJob, workVars
<1>8. ASSUME WorkerStep(w)
      PROVE  \/ \E o \in Orders : TakeJob(w, o)
             \/ SetScheduledDate(w) \/ ResolveRun(w) \/ InsertAllocation(w)
             \/ job'[w] = job[w] \/ job'[w] = NoJob
  BY <1>0, <1>8 DEF WorkerStep, CompleteJob, FailJob, StallJob
<1>9. ASSUME NEW d \in Clients, ClientStep(d)
      PROVE  job' = job
  <2>1. UNCHANGED workVars
    BY <1>9 DEF ClientStep, CreateRun, StartReorder, StartUpdate, StartUnassign,
       StartAssign, StartReschedule, CommitAssign, CommitUnassign, CommitReorder,
       CommitUpdate, RemoveStop, ReadDestination, CommitReschedule, CommitNewDate, RollBack
  <2>. QED
    BY <2>1 DEF workVars
<1>10. CASE UNCHANGED vars \/ \E x \in Orders : LeaveAccepted(x)
  BY <1>1, <1>10 DEF vars, LeaveAccepted, workVars
<1>. QED
  BY <1>1, <1>2, <1>3, <1>4, <1>5, <1>6, <1>7, <1>8, <1>9, <1>10 DEF Next, Quiescent

\* The steps of the worker.
LEMMA TypeWorker ==
  ASSUME TypeOK, JobsPlanned, NEW w \in Workers, WorkerStep(w)
  PROVE  TypeOK'
<1>. USE DEF runVars, stopVars, orderVars, clientVars
<1>0. job[w] # NoJob => job[w] \in Job
  BY DEF TypeOK
<1>1. ASSUME NEW o \in Orders, TakeJob(w, o)
      PROVE  TypeOK'
  <2>1. EffectiveDate(o) \in Dates \cup {NoDate}
    BY DeliveryRunsAssumption DEF DeliveryRunsAssumption, TypeOK, EffectiveDate
  <2>2. job' \in [Workers -> Job \cup {NoJob}]
    BY <1>1, <2>1 DEF TypeOK, TakeJob, Settled, Job, JobPhases
  <2>3. /\ tries' \in [Orders -> 0..MaxAttempts]
        /\ queue' \in SUBSET {x \in Orders : tries'[x] < MaxAttempts}
    BY <1>1, DeliveryRunsAssumption DEF DeliveryRunsAssumption, TypeOK, TakeJob
  <2>. QED
    BY <1>1, <2>2, <2>3 DEF TypeOK, TakeJob
<1>2. CASE SetScheduledDate(w)
  BY <1>0, <1>2 DEF TypeOK, SetScheduledDate, Job, JobPhases, NoJob
<1>3. CASE ResolveRun(w)
  <2>1. job[w] \in Job /\ job[w].phase = "resolve"
    BY <1>0, <1>3 DEF ResolveRun, NoJob
  <2>2. job[w].order \in Orders /\ job[w].date \in Dates
    BY <2>1 DEF Job, JobsPlanned
  <2>3. RouteOf[job[w].order] # NoRoute
          => <<RouteOf[job[w].order], job[w].date>> \in Run
    BY <2>2, DeliveryRunsAssumption DEF DeliveryRunsAssumption, Run
  <2>4. job' \in [Workers -> Job \cup {NoJob}]
    <3>1. PICK r : r = <<RouteOf[job[w].order], job[w].date>>
      OBVIOUS
    <3>2. Settled(job[w].order) \in Job
      BY <2>2 DEF Settled, Job, JobPhases
    <3>3. RouteOf[job[w].order] # NoRoute
            => [job[w] EXCEPT !.phase = "insert", !.run = r] \in Job
      BY <2>1, <2>3, <3>1 DEF Job, JobPhases
    <3>4. \/ job' = [job EXCEPT ![w] = Settled(job[w].order)]
          \/ /\ RouteOf[job[w].order] # NoRoute
             /\ job' = [job EXCEPT ![w] = [job[w] EXCEPT !.phase = "insert", !.run = r]]
      BY <1>3, <3>1 DEF ResolveRun
    <3>. QED
      BY <3>2, <3>3, <3>4 DEF TypeOK
  <2>5. status' \in [Run -> {"none", "OPEN", "READY"}]
    BY <1>3 DEF TypeOK, ResolveRun, FoundOrCreated
  <2>. QED
    BY <1>3, <2>4, <2>5 DEF TypeOK, ResolveRun
<1>4. CASE InsertAllocation(w)
  <2>1. seq' \in [Orders -> Nat]
    BY <1>4, DeliveryRunsAssumption
       DEF DeliveryRunsAssumption, TypeOK, InsertAllocation
  <2>. QED
    BY <1>0, <1>4, <2>1, BumpType
       DEF TypeOK, InsertAllocation, Settled, Job, JobPhases, NoJob
<1>5. CASE CompleteJob(w)
  BY <1>5 DEF TypeOK, CompleteJob
<1>6. CASE FailJob(w)
  BY <1>0, <1>6 DEF TypeOK, FailJob, Job
<1>7. CASE StallJob(w)
  BY <1>0, <1>7 DEF TypeOK, StallJob, Job
<1>. QED
  BY <1>1, <1>2, <1>3, <1>4, <1>5, <1>6, <1>7 DEF WorkerStep

\* No step of a user or the worker breaks the types, in particular a job is
\* queued again only while it has attempts left.
LEMMA TypeStep == TypeOK /\ JobsPlanned /\ [Next]_vars => TypeOK'
<1>. SUFFICES ASSUME TypeOK, JobsPlanned, [Next]_vars
              PROVE  TypeOK'
  OBVIOUS
<1>1. ASSUME NEW c \in Clients, ClientStep(c)
      PROVE  TypeOK'
  BY <1>1, TypeStart, TypeCommit, TypeReschedule DEF ClientStep
<1>2. ASSUME NEW w \in Workers, WorkerStep(w)
      PROVE  TypeOK'
  BY <1>2, TypeWorker
<1>3. ASSUME NEW o \in Orders, LeaveAccepted(o)
      PROVE  TypeOK'
  BY <1>3 DEF TypeOK, LeaveAccepted, runVars, stopVars, clientVars, workVars
<1>4. CASE UNCHANGED vars
  BY <1>4 DEF TypeOK, vars
<1>. QED
  BY <1>1, <1>2, <1>3, <1>4 DEF Next, Quiescent

\* A job on its way has the date or the run its next step needs.
LEMMA JobsPlannedInit == Init => JobsPlanned
  BY DEF Init, JobsPlanned, NoJob

\* Every state of the board has the types its tables and queue have.
THEOREM TypeCorrect == Spec => []TypeOK
<1>1. TypeOK /\ JobsPlanned /\ [Next]_vars => TypeOK' /\ JobsPlanned'
  BY TypeStep, JobsPlannedStep
<1>. QED
  BY TypeInit, JobsPlannedInit, <1>1, PTL DEF Spec

-----------------------------------------------------------------------------
(* What changes a run increments its version *)

\* An edit in flight names a run that exists, at a version it has had; while the
\* run is still at that version, the view the edit was made from is current.
FreshViews ==
  \A c \in Clients : req[c].op \in EditOps =>
    /\ status[req[c].run] # "none"
    /\ req[c].ver <= version[req[c].run]
    /\ req[c].ver = version[req[c].run] => req[c].view = View(req[c].run)

\* The inductive invariant.
BoardInv == TypeOK /\ JobsPlanned /\ FreshViews /\ OpenReschedulesHoldTheirOrder

\* A step keeps the stops of run r and their numbers.
KeepsStops(r) ==
  \A o \in Orders : /\ onRun'[o] = r <=> onRun[o] = r
                    /\ onRun[o] = r => seq'[o] = seq[o]

\* A step increments the version of run r or keeps what a reader sees of it.
TracksRun(r) ==
  /\ status[r] # "none" => status'[r] # "none"
  /\ \/ version'[r] > version[r]
     \/ /\ version'[r] = version[r] /\ KeepsStops(r)
        /\ status[r] # "none" => status'[r] = status[r]

Tracks == \A r \in Run : TracksRun(r)

\* What a reader sees of the run after the step.
NextView(r) ==
  [status |-> status'[r],
   stops |-> {<<o, seq'[o]>> : o \in {x \in Orders : onRun'[x] = r}}]

\* A step that tracks changes leaves the view of a run whose version stays.
LEMMA TracksKeepsView ==
  ASSUME NEW r \in Run, TracksRun(r), version'[r] = version[r],
         version[r] \in Nat, status[r] # "none"
  PROVE  NextView(r) = View(r)
<1>1. status'[r] = status[r] /\ KeepsStops(r)
  BY DEF TracksRun
<1>2. {x \in Orders : onRun'[x] = r} = Stops(r)
  BY <1>1 DEF Stops, KeepsStops
<1>3. \A o \in Stops(r) : seq'[o] = seq[o]
  BY <1>1 DEF Stops, KeepsStops
<1>. QED
  BY <1>1, <1>2, <1>3 DEF View, NextView

\* Every client step but a commit: it may create a run, never touches a stop.
LEMMA StartTracks ==
  ASSUME TypeOK, NEW c \in Clients,
         \/ \E r \in Run : CreateRun(c, r) \/ StartReorder(c, r)
         \/ \E r \in Run, op \in EditOps : StartUpdate(c, r, op)
         \/ \E r \in Run, o \in Orders : StartUnassign(c, r, o)
         \/ \E r \in Run, o \in Orders, s \in Run \cup {NoRun} :
              StartAssign(c, r, o, s)
         \/ \E o \in Orders, d \in Dates : StartReschedule(c, o, d)
         \/ RemoveStop(c) \/ ReadDestination(c) \/ CommitNewDate(c) \/ RollBack(c)
  PROVE  Tracks
<1>1. version' = version /\ onRun' = onRun /\ seq' = seq
  BY DEF CreateRun, StartReorder, StartUpdate, StartUnassign, StartAssign,
         StartReschedule, RemoveStop, ReadDestination, CommitNewDate, RollBack,
         runVars, stopVars
<1>2. \A r \in Run : status[r] # "none" => status'[r] = status[r]
  BY DEF TypeOK, CreateRun, StartReorder, StartUpdate, StartUnassign,
         StartAssign, StartReschedule, FoundOrCreated, RemoveStop,
         ReadDestination, CommitNewDate, RollBack, runVars
<1>. QED
  BY <1>1, <1>2 DEF Tracks, TracksRun, KeepsStops

\* A move changes the stops of its run and its source only, and bumps both.
LEMMA AssignTracks ==
  ASSUME TypeOK, NEW c \in Clients, CommitAssign(c)
  PROVE  Tracks
<1>. DEFINE q == req[c]
            S == Stops(q.run) \ {q.order}
<1>1. q \in EditReq /\ q.order \in Orders /\ q.run \in Run
  BY ReqType DEF CommitAssign, EditOps, EditReq
<1>2. PICK f \in Numberings(S) :
        \E k \in 1..(Cardinality(DOMAIN f) + 1) :
          seq' = Renumber(Splice(f, q.order, k))
  BY DEF CommitAssign
<1>3. S \in SUBSET Orders
  BY DEF Stops
<1>4. f \in [S -> Nat] /\ DOMAIN f = S
  BY <1>3, NumberingsType
<1>5. PICK k \in Nat : seq' = Renumber(Splice(f, q.order, k))
  BY <1>2, <1>3, <1>4, StopsCounted
<1>6. \A o \in Orders : onRun[o] # q.run /\ o # q.order => seq'[o] = seq[o]
  <2>1. q.order \in Orders /\ \A o \in S : onRun[o] = q.run
    BY <1>1 DEF Stops
  <2>. HIDE DEF S, q
  <2>2. Splice(f, q.order, k) \in [S \cup {q.order} -> Nat]
    BY <1>3, <1>4, <2>1, SpliceType
  <2>3. S \cup {q.order} \in SUBSET Orders
    BY <1>3, <2>1
  <2>4. \A o \in Orders \ (S \cup {q.order}) : seq'[o] = seq[o]
    BY <1>5, <2>2, <2>3, RenumberType DEF TypeOK
  <2>. QED
    BY <2>1, <2>4
<1>7. /\ status' = status /\ version' = Bump({q.run, q.source} \ {NoRun})
      /\ onRun[q.order] = q.source
      /\ onRun' = [onRun EXCEPT ![q.order] = q.run]
  BY DEF CommitAssign
<1>8. ASSUME NEW r \in Run, r \in {q.run, q.source}
      PROVE  TracksRun(r)
  BY <1>7, <1>8, BumpType, DeliveryRunsAssumption
     DEF TypeOK, TracksRun, DeliveryRunsAssumption
<1>9. ASSUME NEW r \in Run, r \notin {q.run, q.source}
      PROVE  TracksRun(r)
  BY <1>1, <1>6, <1>7, <1>9, BumpType DEF TypeOK, TracksRun, KeepsStops
<1>. QED
  BY <1>8, <1>9 DEF Tracks

\* A removal changes the stops of its run only, and bumps it.
LEMMA UnassignTracks ==
  ASSUME TypeOK, NEW c \in Clients, CommitUnassign(c)
  PROVE  Tracks
<1>. DEFINE q == req[c]
            S == Stops(q.run) \ {q.order}
<1>1. q \in EditReq /\ q.order \in Orders /\ q.run \in Run
  BY ReqType DEF CommitUnassign, EditOps, EditReq
<1>2. PICK f \in Numberings(S) : seq' = [Renumber(f) EXCEPT ![q.order] = 0]
  BY DEF CommitUnassign
<1>3. \A o \in Orders : onRun[o] # q.run /\ o # q.order => seq'[o] = seq[o]
  <2>1. S \in SUBSET Orders /\ \A o \in S : onRun[o] = q.run
    BY DEF Stops
  <2>. HIDE DEF S
  <2>. QED
    BY <1>2, <2>1, NumberingsType, RenumberType DEF TypeOK
<1>4. /\ status' = status /\ version' = Bump({q.run})
      /\ onRun[q.order] = q.run
      /\ onRun' = [onRun EXCEPT ![q.order] = NoRun]
  BY DEF CommitUnassign
<1>5. ASSUME NEW r \in Run
      PROVE  TracksRun(r)
  <2>1. CASE r = q.run
    BY <1>4, <1>5, <2>1, BumpType DEF TypeOK, TracksRun
  <2>2. CASE r # q.run
    BY <1>1, <1>3, <1>4, <2>2, BumpType, DeliveryRunsAssumption
       DEF TypeOK, TracksRun, KeepsStops, DeliveryRunsAssumption
  <2>. QED
    BY <2>1, <2>2
<1>. QED
  BY <1>5 DEF Tracks

\* The reorder's rows are the ones its author read; the swap on the version makes
\* them the run's own stops.
LEMMA ReorderedStops ==
  ASSUME TypeOK, FreshViews, NEW c \in Clients, CommitReorder(c)
  PROVE  {s[1] : s \in req[c].view.stops} = Stops(req[c].run)
<1>. DEFINE q == req[c]
            listed == {s[1] : s \in q.view.stops}
<1>1. q.view = View(q.run)
  BY DEF FreshViews, CommitReorder, Cas, EditOps
<1>2. q.view.stops = {<<o, seq[o]>> : o \in Stops(q.run)}
  BY <1>1 DEF View
<1>3. ASSUME NEW o \in Stops(q.run)
      PROVE  o \in listed
  <2>1. <<o, seq[o]>> \in q.view.stops /\ <<o, seq[o]>>[1] = o
    BY <1>2
  <2>. QED
    BY <2>1
<1>4. ASSUME NEW s \in q.view.stops
      PROVE  s[1] \in Stops(q.run)
  BY <1>2
<1>. QED
  BY <1>3, <1>4

\* So no other run is renumbered.
LEMMA ReorderTracks ==
  ASSUME TypeOK, FreshViews, NEW c \in Clients, CommitReorder(c)
  PROVE  Tracks
<1>. DEFINE q == req[c]
            listed == {s[1] : s \in q.view.stops}
<1>1. q \in EditReq /\ q.run \in Run /\ q.op \in EditOps
  BY ReqType DEF CommitReorder, EditOps, EditReq
<1>3. listed = Stops(q.run)
  BY ReorderedStops
<1>4. PICK f \in [listed -> 1..Cardinality(listed)] : seq' = Renumber(f)
  BY DEF CommitReorder
<1>5. \A o \in Orders : onRun[o] # q.run => seq'[o] = seq[o]
  <2>1. listed \in SUBSET Orders /\ \A o \in listed : onRun[o] = q.run
    BY <1>3 DEF Stops
  <2>. HIDE DEF listed
  <2>2. f \in [listed -> Nat]
    BY <1>4, <2>1, StopsCounted
  <2>3. \A o \in Orders \ listed : Renumber(f)[o] = seq[o]
    BY <2>1, <2>2, RenumberType DEF TypeOK
  <2>. QED
    BY <1>4, <2>1, <2>3
<1>6. status' = status /\ version' = Bump({q.run}) /\ onRun' = onRun
  BY DEF CommitReorder
<1>7. ASSUME NEW r \in Run
      PROVE  TracksRun(r)
  BY <1>1, <1>5, <1>6, <1>7, BumpType DEF TypeOK, TracksRun, KeepsStops
<1>. QED
  BY <1>7 DEF Tracks

\* Marking ready and reopening change their run's status only, and bump it.
LEMMA UpdateTracks ==
  ASSUME TypeOK, NEW c \in Clients, CommitUpdate(c)
  PROVE  Tracks
<1>. DEFINE q == req[c]
<1>1. q.run \in Run
  BY ReqType DEF CommitUpdate, EditOps, EditReq
<1>2. /\ status' = [status EXCEPT ![q.run] =
                      IF q.op = "ready" THEN "READY" ELSE "OPEN"]
      /\ version' = Bump({q.run}) /\ UNCHANGED stopVars
  BY DEF CommitUpdate
<1>. HIDE DEF q
<1>3. ASSUME NEW r \in Run
      PROVE  TracksRun(r)
  <2>1. CASE r = q.run
    BY <1>2, <1>3, <2>1, BumpType DEF TypeOK, TracksRun
  <2>2. CASE r # q.run
    BY <1>1, <1>2, <2>2, BumpType DEF TypeOK, TracksRun, KeepsStops, stopVars
  <2>. QED
    BY <2>1, <2>2
<1>. QED
  BY <1>3 DEF Tracks

\* The order leaves the run the transaction found it on, which it locked; a stop
\* it has read and that has gone elsewhere is not on either run.
LEMMA RescheduleTracks ==
  ASSUME TypeOK, OpenReschedulesHoldTheirOrder,
         NEW c \in Clients, CommitReschedule(c)
  PROVE  Tracks
<1>. DEFINE q == req[c]
<1>1. q \in ReschedReq
  BY ReqType DEF CommitReschedule
<1>2. onRun[q.order] = q.prev
  BY DEF OpenReschedulesHoldTheirOrder, OpenTx, CommitReschedule, Unplaced
<1>3. /\ status' = status
      /\ onRun' = [onRun EXCEPT ![q.order] = q.dest]
      /\ version' = [r \in Run |->
                       version[r] + (IF r = q.prev THEN 1 ELSE 0)
                                  + (IF r = q.dest THEN 1 ELSE 0)]
  BY DEF CommitReschedule
<1>4. ASSUME NEW o \in Orders, onRun[o] \notin {q.prev, q.dest}
      PROVE  seq'[o] = seq[o]
  <2>1. o # q.order /\ o \notin ReadOn(q.dest, q.behind)
        /\ o \notin ReadOn(q.prev, q.leaving)
    BY <1>2, <1>4 DEF ReadOn
  <2>2. seq'[o] = Renumbered(q)[o]
    BY <2>1 DEF CommitReschedule
  <2>. QED
    BY <2>1, <2>2 DEF Renumbered
<1>5. ASSUME NEW r \in Run
      PROVE  TracksRun(r)
  <2>. HIDE DEF q
  <2>1. CASE r \in {q.prev, q.dest}
    BY <1>3, <1>5, <2>1 DEF TypeOK, TracksRun
  <2>2. CASE r \notin {q.prev, q.dest}
    BY <1>1, <1>2, <1>3, <1>4, <2>2 DEF TypeOK, TracksRun, KeepsStops, ReschedReq
  <2>. QED
    BY <2>1, <2>2
<1>. QED
  BY <1>5 DEF Tracks

\* The worker adds an order that is on no run, and bumps the run it adds it to.
LEMMA WorkerTracks ==
  ASSUME TypeOK, NEW w \in Workers, WorkerStep(w)
  PROVE  Tracks
<1>1. CASE InsertAllocation(w)
  <2>. DEFINE j == job[w]
  <2>1. /\ status' = status /\ version' = Bump({j.run})
        /\ onRun[j.order] = NoRun
        /\ onRun' = [onRun EXCEPT ![j.order] = j.run]
        /\ seq' = [seq EXCEPT ![j.order] = DropPosition[j.order]]
    BY <1>1 DEF InsertAllocation, Unplaced
  <2>. HIDE DEF j
  <2>2. ASSUME NEW r \in Run
        PROVE  TracksRun(r)
    <3>1. CASE r = j.run
      BY <2>1, <2>2, <3>1, BumpType DEF TypeOK, TracksRun
    <3>2. CASE r # j.run
      BY <2>1, <2>2, <3>2, BumpType, DeliveryRunsAssumption
         DEF TypeOK, TracksRun, KeepsStops, DeliveryRunsAssumption
    <3>. QED
      BY <3>1, <3>2
  <2>. QED
    BY <2>2 DEF Tracks
<1>2. CASE ~InsertAllocation(w)
  <2>1. UNCHANGED <<version, stopVars>>
    BY <1>2 DEF WorkerStep, TakeJob, SetScheduledDate, ResolveRun, CompleteJob,
                FailJob, StallJob, runVars, stopVars
  <2>2. \A r \in Run : status[r] # "none" => status'[r] = status[r]
    BY <1>2 DEF TypeOK, WorkerStep, TakeJob, SetScheduledDate, ResolveRun,
                FoundOrCreated, CompleteJob, FailJob, StallJob, runVars
  <2>. QED
    BY <2>1, <2>2 DEF Tracks, TracksRun, KeepsStops, stopVars
<1>. QED
  BY <1>1, <1>2

\* Every step that changes a run's status, stops or numbers bumps its version.
LEMMA NextTracks == BoardInv /\ [Next]_vars => Tracks
<1>. SUFFICES ASSUME BoardInv, [Next]_vars
              PROVE  Tracks
  OBVIOUS
<1>. USE DEF BoardInv
<1>1. ASSUME NEW c \in Clients, ClientStep(c)
      PROVE  Tracks
  BY <1>1, StartTracks, AssignTracks, UnassignTracks, ReorderTracks,
     UpdateTracks, RescheduleTracks DEF ClientStep
<1>2. ASSUME NEW w \in Workers, WorkerStep(w)
      PROVE  Tracks
  BY <1>2, WorkerTracks
<1>3. ASSUME NEW o \in Orders, LeaveAccepted(o)
      PROVE  Tracks
  BY <1>3 DEF LeaveAccepted, runVars, stopVars, Tracks, TracksRun, KeepsStops
<1>4. CASE UNCHANGED vars
  BY <1>4 DEF vars, Tracks, TracksRun, KeepsStops
<1>. QED
  BY <1>1, <1>2, <1>3, <1>4 DEF Next, Quiescent

-----------------------------------------------------------------------------
(* The invariant *)

\* With no request in flight the inductive invariant holds.
LEMMA BoardInit == Init => BoardInv
<1>. SUFFICES ASSUME Init
              PROVE  BoardInv
  OBVIOUS
<1>1. TypeOK /\ JobsPlanned
  BY TypeInit, JobsPlannedInit
<1>2. \A c \in Clients : req[c].op = "idle"
  BY DEF Init, Idle
<1>. QED
  BY <1>1, <1>2 DEF BoardInv, FreshViews, OpenReschedulesHoldTheirOrder, OpenTx,
                    EditOps

\* A request changes hands of nobody but its client.
LEMMA OthersKeepTheirRequests ==
  ASSUME TypeOK, NEW c \in Clients, NEW d \in Clients \ {c}, ClientStep(d)
  PROVE  req'[c] = req[c]
  BY DEF TypeOK, ClientStep, CreateRun, StartReorder, StartUpdate, StartUnassign,
         StartAssign, StartReschedule, Begin, CommitAssign, CommitUnassign,
         CommitReorder, CommitUpdate, RemoveStop, ReadDestination,
         CommitReschedule, CommitNewDate, RollBack, Finish

\* The reschedule transaction's first part reads the stops it leaves behind, at
\* the version their run has.
LEMMA Removal ==
  ASSUME TypeOK, NEW c \in Clients, RemoveStop(c),
         NEW o, o = req[c].order, NEW r, r = req[c].prev
  PROVE  /\ o \in Orders /\ r \in Run
         /\ req'[c] \in ReschedReq
         /\ req'[c].phase = "removed" /\ req'[c].ver = version[r]
         /\ req'[c].order = o /\ req'[c].prev = r /\ req'[c].dest = req[c].dest
         /\ req'[c].date = req[c].date /\ req'[c].expected = req[c].expected
         /\ \E f \in Numberings(Stops(r) \ {o}) : req'[c].leaving = NumbersOf(f)
<1>. DEFINE S == Stops(r) \ {o}
<1>0. req[c] \in ReschedReq /\ r # NoRun
  BY ReqType DEF RemoveStop
<1>1. PICK f \in Numberings(S) :
        req' = [req EXCEPT ![c] = [req[c] EXCEPT !.phase = "removed",
                                                 !.ver = version[r],
                                                 !.leaving = NumbersOf(f)]]
  BY DEF RemoveStop
<1>2. S \in SUBSET Orders
  BY DEF Stops
<1>. HIDE DEF S
<1>3. NumbersOf(f) \in [Orders -> Nat]
  BY <1>1, <1>2, NumberingsType, NumbersOfType
<1>4. o \in Orders /\ r \in Run
  BY <1>0 DEF ReschedReq
<1>5. version[r] \in Nat
  BY <1>4 DEF TypeOK
<1>6. PICK q : q = [req[c] EXCEPT !.phase = "removed", !.ver = version[r],
                                  !.leaving = NumbersOf(f)]
  OBVIOUS
<1>7. /\ q \in ReschedReq
      /\ q.phase = "removed" /\ q.ver = version[r] /\ q.leaving = NumbersOf(f)
      /\ q.order = o /\ q.prev = r /\ q.dest = req[c].dest
      /\ q.date = req[c].date /\ q.expected = req[c].expected
  BY <1>0, <1>3, <1>4, <1>5, <1>6 DEF ReschedReq, TxPhases
<1>8. req'[c] = q
  BY <1>1, <1>6 DEF TypeOK
<1>. QED
  BY <1>1, <1>4, <1>7, <1>8 DEF S

\* Its second part reads the stops at the destination, if there is one.
LEMMA Reading ==
  ASSUME TypeOK, NEW c \in Clients, ReadDestination(c),
         NEW o, o = req[c].order, NEW r, r = req[c].dest
  PROVE  /\ req'[c] \in ReschedReq
         /\ req'[c].phase = "locked"
         /\ req'[c].ver = req[c].ver /\ req'[c].leaving = req[c].leaving
         /\ req'[c].order = o /\ req'[c].prev = req[c].prev /\ req'[c].dest = r
         /\ req'[c].date = req[c].date /\ req'[c].expected = req[c].expected
         /\ r # NoRun => \E f \in NumberingsBy(Renumbered(req[c]), Stops(r) \ {o}) :
                            req'[c].behind = NumbersOf(f)
<1>. DEFINE S == IF r = NoRun THEN {} ELSE Stops(r) \ {o}
<1>0. req[c] \in ReschedReq
  BY ReqType DEF ReadDestination
<1>1. PICK f \in NumberingsBy(Renumbered(req[c]), S) :
        req' = [req EXCEPT ![c] = [req[c] EXCEPT !.phase = "locked",
                                                 !.behind = NumbersOf(f)]]
  BY DEF ReadDestination
<1>2. S \in SUBSET Orders
  BY DEF Stops
<1>. HIDE DEF S
<1>3. NumbersOf(f) \in [Orders -> Nat]
  BY <1>1, <1>2, NumberingsByType, NumbersOfType
<1>4. PICK q : q = [req[c] EXCEPT !.phase = "locked", !.behind = NumbersOf(f)]
  OBVIOUS
<1>5. /\ q \in ReschedReq
      /\ q.phase = "locked" /\ q.behind = NumbersOf(f)
      /\ q.ver = req[c].ver /\ q.leaving = req[c].leaving
      /\ q.order = o /\ q.prev = req[c].prev /\ q.dest = r
      /\ q.date = req[c].date /\ q.expected = req[c].expected
  BY <1>0, <1>3, <1>4 DEF ReschedReq, TxPhases
<1>6. req'[c] = q
  BY <1>1, <1>4 DEF TypeOK
<1>7. r # NoRun => S = Stops(r) \ {o}
  BY DEF S
<1>. QED
  BY <1>1, <1>5, <1>6, <1>7

\* An edit that appears in a step was made from the run as it is.
LEMMA NewEdit ==
  ASSUME TypeOK, NEW c \in Clients, ClientStep(c),
         req'[c] # req[c], req'[c].op \in EditOps
  PROVE  /\ UNCHANGED <<runVars, stopVars>>
         /\ \E op \in EditOps, r \in Run,
              o \in Orders \cup {NoOrder}, s \in Run \cup {NoRun} :
                status[r] # "none" /\ req'[c] = Edit(op, r, o, s)
<1>1. Idle.op \notin EditOps
  BY DEF Idle, EditOps
<1>2. ASSUME Finish(c)
      PROVE  FALSE
  BY <1>1, <1>2 DEF Finish, TypeOK
<1>3. ~RemoveStop(c) /\ ~ReadDestination(c)
  <2>1. RemoveStop(c) \/ ReadDestination(c) => req'[c] \in ReschedReq
    BY Removal, Reading
  <2>. QED
    BY <2>1 DEF ReschedReq, EditOps
<1>4. ASSUME NEW o \in Orders, NEW d \in Dates, StartReschedule(c, o, d)
      PROVE  FALSE
  <2>1. PICK q : Begin(c, q) /\ q.op = "reschedule"
    BY <1>4 DEF StartReschedule
  <2>2. req'[c].op = "reschedule"
    BY <2>1 DEF Begin, TypeOK
  <2>. QED
    BY <2>2 DEF EditOps
<1>5. ~\E r \in Run : CreateRun(c, r)
  BY DEF CreateRun
<1>6. ~(\/ CommitAssign(c) \/ CommitUnassign(c) \/ CommitReorder(c)
        \/ CommitUpdate(c) \/ CommitReschedule(c) \/ CommitNewDate(c)
        \/ RollBack(c))
  BY <1>2 DEF CommitAssign, CommitUnassign, CommitReorder, CommitUpdate,
              CommitReschedule, CommitNewDate, RollBack
<1>7. ASSUME NEW q, Begin(c, q)
      PROVE  req'[c] = q
  BY <1>7 DEF Begin, TypeOK
<1>8. ASSUME NEW r \in Run, StartReorder(c, r)
      PROVE  /\ UNCHANGED <<runVars, stopVars>> /\ status[r] # "none"
             /\ req'[c] = Edit("reorder", r, NoOrder, NoRun)
  BY <1>7, <1>8 DEF StartReorder
<1>9. ASSUME NEW r \in Run, NEW op \in EditOps, StartUpdate(c, r, op)
      PROVE  /\ UNCHANGED <<runVars, stopVars>> /\ status[r] # "none"
             /\ req'[c] = Edit(op, r, NoOrder, NoRun)
  BY <1>7, <1>9 DEF StartUpdate, ExpectedStatus
<1>10. ASSUME NEW r \in Run, NEW o \in Orders, StartUnassign(c, r, o)
       PROVE  /\ UNCHANGED <<runVars, stopVars>> /\ status[r] # "none"
              /\ req'[c] = Edit("unassign", r, o, NoRun)
  BY <1>7, <1>10 DEF StartUnassign
<1>11. ASSUME NEW r \in Run, NEW o \in Orders, NEW s \in Run \cup {NoRun},
              StartAssign(c, r, o, s)
       PROVE  /\ UNCHANGED <<runVars, stopVars>> /\ status[r] # "none"
              /\ req'[c] = Edit("assign", r, o, s)
  BY <1>7, <1>11 DEF StartAssign
<1>12. {"assign", "unassign", "reorder"} \subseteq EditOps
  BY DEF EditOps
<1>. QED
  BY <1>3, <1>4, <1>5, <1>6, <1>8, <1>9, <1>10, <1>11, <1>12 DEF ClientStep

\* No step leaves a request a current version and an outdated view.
LEMMA FreshStep == BoardInv /\ [Next]_vars => FreshViews'
<1>. SUFFICES ASSUME BoardInv, [Next]_vars,
                     NEW c \in Clients, req'[c].op \in EditOps
              PROVE  /\ status'[req'[c].run] # "none"
                     /\ req'[c].ver <= version'[req'[c].run]
                     /\ req'[c].ver = version'[req'[c].run]
                          => req'[c].view = NextView(req'[c].run)
  BY DEF FreshViews, View, Stops, NextView
<1>1. TypeOK /\ TypeOK' /\ Tracks
  BY TypeStep, NextTracks DEF BoardInv
<1>2. CASE req'[c] = req[c]
  <2>. DEFINE r == req[c].run
  <2>1. req[c] \in EditReq /\ r \in Run /\ req[c].ver \in Nat
    BY <1>1, <1>2, ReqType DEF EditReq
  <2>2. /\ status[r] # "none" /\ req[c].ver <= version[r]
        /\ req[c].ver = version[r] => req[c].view = View(r)
    BY <1>2 DEF BoardInv, FreshViews
  <2>3. TracksRun(r) /\ version[r] \in Nat /\ version'[r] \in Nat
    BY <1>1, <2>1, <2>2 DEF Tracks, TypeOK
  <2>4. /\ status'[r] # "none" /\ version[r] <= version'[r]
        /\ version'[r] = version[r] => NextView(r) = View(r)
    <3>. HIDE DEF r
    <3>. QED
      BY <2>1, <2>2, <2>3, TracksKeepsView DEF TracksRun
  <2>5. req'[c].run = r /\ req'[c].ver = req[c].ver /\ req'[c].view = req[c].view
    BY <1>2
  <2>. HIDE DEF r
  <2>. QED
    BY <2>1, <2>2, <2>3, <2>4, <2>5
<1>3. CASE req'[c] # req[c]
  <2>1. ClientStep(c)
    BY <1>1, <1>3, OthersKeepTheirRequests
       DEF Next, WorkerStep, TakeJob, SetScheduledDate, ResolveRun,
           InsertAllocation, CompleteJob, FailJob, StallJob, LeaveAccepted,
           Quiescent, clientVars, vars
  <2>2. /\ UNCHANGED <<runVars, stopVars>>
        /\ \E op \in EditOps, r \in Run,
             o \in Orders \cup {NoOrder}, s \in Run \cup {NoRun} :
               status[r] # "none" /\ req'[c] = Edit(op, r, o, s)
    BY <1>1, <1>3, <2>1, NewEdit
  <2>3. PICK r \in Run : /\ status[r] # "none" /\ req'[c].run = r
                         /\ req'[c].ver = version[r] /\ req'[c].view = View(r)
    BY <2>2 DEF Edit
  <2>4. status'[r] = status[r] /\ version'[r] = version[r] /\ NextView(r) = View(r)
    BY <2>2 DEF runVars, stopVars, NextView, View, Stops
  <2>5. version[r] \in Nat
    BY <1>1 DEF TypeOK
  <2>. QED
    BY <2>3, <2>4, <2>5
<1>. QED
  BY <1>2, <1>3

\* What an open transaction has written, no other step takes from it.
LEMMA HeldOrdersStay ==
  ASSUME BoardInv, [Next]_vars, NEW c \in OpenTx, c \in Clients,
         req'[c] = req[c], req[c].prev # NoRun
  PROVE  onRun'[req[c].order] = req[c].prev
<1>. DEFINE o == req[c].order
<1>0. TypeOK /\ onRun[o] = req[c].prev /\ o \in HeldBy(c)
  BY DEF BoardInv, OpenReschedulesHoldTheirOrder, HeldBy
<1>1. req[c] \in ReschedReq /\ o \in Orders
  BY <1>0, ReqType DEF OpenTx, ReschedReq
<1>2. ASSUME NEW d \in Clients, ClientStep(d)
      PROVE  onRun'[o] = onRun[o]
  <2>1. CASE CommitAssign(d) \/ CommitUnassign(d)
    <3>1. req[d].order # o
      BY <1>0, <1>1, <2>1 DEF CommitAssign, CommitUnassign, Free, Stops
    <3>. QED
      BY <1>0, <1>1, <2>1, <3>1 DEF CommitAssign, CommitUnassign, TypeOK
  <2>2. CASE CommitReschedule(d)
    <3>1. d \in OpenTx /\ d # c
      <4>1. req'[d] = Idle
        BY <1>0, <2>2 DEF CommitReschedule, Finish, TypeOK
      <4>2. req[d].op = "reschedule" /\ Idle.op = "idle"
        BY <2>2 DEF CommitReschedule, Idle
      <4>. QED
        BY <2>2, <4>1, <4>2 DEF OpenTx, CommitReschedule
    <3>2. req[d].order # o
      BY <3>1 DEF BoardInv, OpenReschedulesHoldTheirOrder
    <3>3. onRun' = [onRun EXCEPT ![req[d].order] = req[d].dest]
      BY <2>2 DEF CommitReschedule
    <3>. QED
      BY <1>0, <1>1, <3>2, <3>3 DEF TypeOK
  <2>3. CASE ~(CommitAssign(d) \/ CommitUnassign(d) \/ CommitReschedule(d))
    BY <1>2, <2>3
       DEF ClientStep, CreateRun, StartReorder, StartUpdate, StartUnassign,
           StartAssign, StartReschedule, CommitReorder, CommitUpdate,
           RemoveStop, ReadDestination, CommitNewDate, RollBack, stopVars
  <2>. QED
    BY <2>1, <2>2, <2>3
<1>3. ASSUME NEW w \in Workers, WorkerStep(w)
      PROVE  onRun'[o] = onRun[o]
  <2>1. CASE InsertAllocation(w)
    <3>1. onRun[job[w].order] = NoRun
          /\ onRun' = [onRun EXCEPT ![job[w].order] = job[w].run]
      BY <2>1 DEF InsertAllocation, Unplaced
    <3>. QED
      BY <1>0, <1>1, <3>1 DEF TypeOK
  <2>2. CASE ~InsertAllocation(w)
    BY <1>3, <2>2 DEF WorkerStep, TakeJob, SetScheduledDate, ResolveRun,
                      CompleteJob, FailJob, StallJob, stopVars
  <2>. QED
    BY <2>1, <2>2
<1>4. CASE UNCHANGED vars \/ \E x \in Orders : LeaveAccepted(x)
  BY <1>0, <1>4 DEF vars, LeaveAccepted, stopVars
<1>. QED
  BY <1>0, <1>2, <1>3, <1>4 DEF Next, Quiescent

\* A request that is a reschedule after a step has begun, or is going on.
LEMMA RescheduleSteps ==
  ASSUME BoardInv, NEW c \in Clients, ClientStep(c), req'[c] # req[c],
         req'[c].op = "reschedule"
  PROVE  \/ RemoveStop(c) \/ ReadDestination(c)
         \/ \E o \in Orders, d \in Dates :
              /\ StartReschedule(c, o, d)
              /\ req'[c].phase = "begun"
              /\ req'[c].date = d /\ req'[c].expected = sched[o]
<1>. USE DEF BoardInv
<1>1. Idle.op = "idle"
  BY DEF Idle
<1>2. ASSUME Finish(c)
      PROVE  FALSE
  BY <1>1, <1>2 DEF Finish, TypeOK
<1>3. ASSUME NEW q, Begin(c, q)
      PROVE  req'[c] = q
  BY <1>3 DEF Begin, TypeOK
<1>4. ASSUME NEW op \in EditOps, NEW r, NEW o, NEW s
      PROVE  Edit(op, r, o, s).op # "reschedule"
  BY DEF Edit, EditOps
<1>5. ASSUME NEW o \in Orders, NEW d \in Dates, StartReschedule(c, o, d)
      PROVE  req'[c].phase = "begun" /\ req'[c].date = d /\ req'[c].expected = sched[o]
  <2>1. PICK q : Begin(c, q) /\ q.phase = "begun" /\ q.date = d /\ q.expected = sched[o]
    BY <1>5 DEF StartReschedule
  <2>. QED
    BY <1>3, <2>1
<1>6. {"assign", "unassign", "reorder"} \subseteq EditOps
  BY DEF EditOps
<1>7. \/ RemoveStop(c) \/ ReadDestination(c)
      \/ \E o \in Orders, d \in Dates : StartReschedule(c, o, d)
  BY <1>2, <1>3, <1>4, <1>6
     DEF ClientStep, CreateRun, StartReorder, StartUpdate, StartUnassign,
         StartAssign, CommitAssign, CommitUnassign, CommitReorder, CommitUpdate,
         CommitReschedule, CommitNewDate, RollBack
<1>. QED
  BY <1>5, <1>7

\* A reschedule transaction opens on an order that is where the request found
\* it and that no other open transaction holds.
LEMMA NewTransaction ==
  ASSUME BoardInv, NEW c \in Clients, ClientStep(c), req'[c] # req[c],
         req'[c].op = "reschedule", req'[c].phase # "begun"
  PROVE  /\ RemoveStop(c) \/ ReadDestination(c)
         /\ req'[c].phase = "locked" => ReadDestination(c)
         /\ req'[c].order = req[c].order /\ req'[c].prev = req[c].prev
         /\ req'[c].dest = req[c].dest
         /\ c \in OpenTx \/ req[c].order \notin LockedOrders
         /\ req[c].prev # NoRun => onRun[req[c].order] = req[c].prev
         /\ onRun' = onRun
<1>. USE DEF BoardInv
<1>1. CASE RemoveStop(c)
  BY <1>1, Removal DEF RemoveStop, DateUnchanged, stopVars
<1>2. CASE ReadDestination(c)
  <2>1. \/ req[c].prev = NoRun /\ req[c].order \notin LockedOrders
        \/ c \in OpenTx
    BY <1>2 DEF ReadDestination, DateUnchanged, OpenTx
  <2>2. req[c].prev # NoRun => onRun[req[c].order] = req[c].prev
    BY <2>1 DEF OpenReschedulesHoldTheirOrder
  <2>. QED
    BY <1>2, <2>1, <2>2, Reading DEF ReadDestination, stopVars
<1>. QED
  BY <1>1, <1>2, RescheduleSteps

\* A request changes in a step of its own client only.
LEMMA OwnSteps ==
  ASSUME TypeOK, [Next]_vars, NEW c \in Clients, req'[c] # req[c]
  PROVE  ClientStep(c) /\ \A d \in Clients \ {c} : req'[d] = req[d]
<1>1. ClientStep(c)
  BY OthersKeepTheirRequests
     DEF Next, WorkerStep, TakeJob, SetScheduledDate, ResolveRun,
         InsertAllocation, CompleteJob, FailJob, StallJob, LeaveAccepted,
         Quiescent, clientVars, vars
<1>. QED
  BY <1>1, OthersKeepTheirRequests

\* Between two states an open transaction is as it was, or takes one of its steps.
LEMMA OpenedOrKept ==
  ASSUME BoardInv, [Next]_vars, NEW c \in Clients, c \in OpenTx'
  PROVE  \/ req'[c] = req[c] /\ c \in OpenTx
         \/ /\ RemoveStop(c) \/ ReadDestination(c)
            /\ ClientStep(c) /\ req'[c] # req[c]
            /\ req'[c].op = "reschedule" /\ req'[c].phase # "begun"
            /\ \A d \in Clients \ {c} : req'[d] = req[d]
<1>1. req'[c].op = "reschedule" /\ req'[c].phase # "begun"
  BY DEF OpenTx
<1>2. CASE req'[c] = req[c]
  BY <1>1, <1>2 DEF OpenTx
<1>3. CASE req'[c] # req[c]
  BY <1>1, <1>3, OwnSteps, NewTransaction DEF BoardInv
<1>. QED
  BY <1>2, <1>3

\* No step moves an order that an open reschedule transaction has locked.
LEMMA HoldStep == BoardInv /\ [Next]_vars => OpenReschedulesHoldTheirOrder'
<1>. SUFFICES ASSUME BoardInv, [Next]_vars
              PROVE  OpenReschedulesHoldTheirOrder'
  OBVIOUS
<1>1. ASSUME NEW c \in Clients, c \in OpenTx', req'[c].prev # NoRun
      PROVE  onRun'[req'[c].order] = req'[c].prev
  <2>1. CASE req'[c] = req[c] /\ c \in OpenTx
    BY <1>1, <2>1, HeldOrdersStay
  <2>2. CASE ~(req'[c] = req[c] /\ c \in OpenTx)
    BY <1>1, <2>2, OpenedOrKept, NewTransaction
  <2>. QED
    BY <2>1, <2>2
<1>2. ASSUME NEW x \in Clients, NEW y \in Clients, x # y, x \in OpenTx', y \in OpenTx',
             ~(req'[x] = req[x] /\ x \in OpenTx), req'[x].order = req'[y].order
      PROVE  FALSE
  <2>1. /\ req'[y] = req[y]
        /\ x \in OpenTx \/ req[x].order \notin LockedOrders
        /\ req'[x].order = req[x].order
    BY <1>2, OpenedOrKept, NewTransaction
  <2>2. y \in OpenTx
    BY <1>2, <2>1 DEF OpenTx
  <2>3. req[x].order = req[y].order
    BY <1>2, <2>1
  <2>. QED
    BY <1>2, <2>1, <2>2, <2>3
       DEF BoardInv, OpenReschedulesHoldTheirOrder, LockedOrders
<1>3. ASSUME NEW c \in Clients, c \in OpenTx', NEW d \in Clients, d \in OpenTx',
             req'[d].order = req'[c].order
      PROVE  d = c
  <2>1. CASE req'[c] = req[c] /\ c \in OpenTx /\ req'[d] = req[d] /\ d \in OpenTx
    BY <1>3, <2>1 DEF BoardInv, OpenReschedulesHoldTheirOrder
  <2>. QED
    BY <1>2, <1>3, <2>1
<1>4. \A c \in OpenTx' : c \in Clients
  BY DEF OpenTx
<1>. QED
  BY <1>1, <1>3, <1>4 DEF OpenReschedulesHoldTheirOrder

\* BoardInv is inductive.
LEMMA BoardStep == BoardInv /\ [Next]_vars => BoardInv'
  BY TypeStep, JobsPlannedStep, FreshStep, HoldStep DEF BoardInv

-----------------------------------------------------------------------------
(* Theorems *)

\* BoardInv is an invariant.
LEMMA BoardInvariant == Spec => []BoardInv
  BY BoardInit, BoardStep, PTL DEF Spec

\* A request whose version is still its run's has a current view of the run.
THEOREM Freshness == Spec => []FreshViewIsCurrent
<1>1. BoardInv => FreshViewIsCurrent
  BY DEF BoardInv, FreshViews, FreshViewIsCurrent
<1>. QED
  BY BoardInvariant, <1>1, PTL

\* An open reschedule transaction keeps the order it moves.
THEOREM Holding == Spec => []OpenReschedulesHoldTheirOrder
  BY BoardInvariant, PTL DEF BoardInv

\* An edit commits in a transaction of its own.
LEMMA EditCommitsByItsTransaction ==
  ASSUME BoardInv, [Next]_vars, NEW c \in Clients, EditCommits(c)
  PROVE  CommitAssign(c) \/ CommitUnassign(c) \/ CommitReorder(c) \/ CommitUpdate(c)
<1>1. TypeOK /\ req[c].op \in EditOps /\ req[c] # Idle /\ req'[c] = Idle
      /\ version' # version
  BY DEF BoardInv, EditCommits, EditOps, Idle
<1>2. ClientStep(c)
  BY <1>1, OthersKeepTheirRequests
     DEF Next, WorkerStep, TakeJob, SetScheduledDate, ResolveRun,
         InsertAllocation, CompleteJob, FailJob, StallJob, LeaveAccepted,
         Quiescent, clientVars, vars
<1>. QED
  BY <1>1, <1>2
     DEF ClientStep, CreateRun, StartReorder, StartUpdate, StartUnassign,
         StartAssign, StartReschedule, RemoveStop, ReadDestination,
         CommitReschedule, CommitNewDate, RollBack, EditOps, runVars

\* No edit is applied to a board other than the one its author saw.
THEOREM NoStaleEdits == Spec => EditsApplyToTheBoardSeen
<1>1. ASSUME BoardInv, [Next]_vars, NEW c \in Clients, EditCommits(c)
      PROVE  req[c].view = View(req[c].run)
  <2>1. CommitAssign(c) \/ CommitUnassign(c) \/ CommitReorder(c) \/ CommitUpdate(c)
    BY <1>1, EditCommitsByItsTransaction
  <2>2. version[req[c].run] = req[c].ver
    BY <2>1 DEF CommitAssign, CommitUnassign, CommitReorder, CommitUpdate, Cas
  <2>. QED
    BY <1>1, <2>2 DEF BoardInv, FreshViews, EditCommits
<1>2. BoardInv /\ [Next]_vars
        => \A c \in Clients : EditCommits(c) => req[c].view = View(req[c].run)
  BY <1>1
<1>. QED
  BY BoardInvariant, <1>2, PTL DEF Spec, EditsApplyToTheBoardSeen

-----------------------------------------------------------------------------
(* What a transaction does to the numbers *)

\* After the step the stops of r are numbered 1..n.
DenseAfter(r) ==
  {seq'[o] : o \in {x \in Orders : onRun'[x] = r}}
    = 1..Cardinality({x \in Orders : onRun'[x] = r})

\* Stops of S that were in some order are in that order still.
OrderKept(S) == \A a, b \in S : SortsBefore(seq[a], seq[b]) => seq'[a] < seq'[b]

\* No number outside S changes.
OnlyIn(S) == \A o \in Orders \ S : seq'[o] = seq[o]

\* n different numbers out of 1..n are all of them.
LEMMA DistinctNumbersAreDense ==
  ASSUME NEW S \in SUBSET Orders, NEW f \in [S -> 1..Cardinality(S)],
         \A a, b \in S : f[a] = f[b] => a = b
  PROVE  {f[x] : x \in S} = 1..Cardinality(S)
<1>. DEFINE n == Cardinality(S)
<1>1. n \in Nat /\ IsFiniteSet(S)
  BY StopsCounted
<1>. HIDE DEF n
<1>2. IsFiniteSet(1..n) /\ Cardinality(1..n) = n
  BY <1>1, FS_Interval
<1>3. f \in Injection(S, 1..n)
  BY DEF n, Injection, IsInjective
<1>4. f \in Surjection(S, 1..n)
  BY <1>2, <1>3, FS_Injection DEF n
<1>. QED
  BY <1>4 DEF Surjection, n

\* A numbering numbers its stops 1..n, each differently, in the order they had.
LEMMA NumberingsByAreDense ==
  ASSUME NEW S \in SUBSET Orders, NEW n, NEW f \in NumberingsBy(n, S)
  PROVE  /\ f \in [S -> 1..Cardinality(S)] /\ DOMAIN f = S
         /\ \A a, b \in S : f[a] = f[b] => a = b
         /\ \A a, b \in S : SortsBefore(n[a], n[b]) => f[a] < f[b]
         /\ {f[x] : x \in S} = 1..Cardinality(S)
<1>1. /\ f \in [S -> 1..Cardinality(S)] /\ DOMAIN f = S
      /\ \A a, b \in S : f[a] = f[b] => a = b
      /\ \A a, b \in S : SortsBefore(n[a], n[b]) => f[a] < f[b]
  BY DEF NumberingsBy
<1>. QED
  BY <1>1, DistinctNumbersAreDense

\* The same of the numberings by the stored numbers.
LEMMA NumberingsAreDense ==
  ASSUME NEW S \in SUBSET Orders, NEW f \in Numberings(S)
  PROVE  /\ f \in [S -> 1..Cardinality(S)] /\ DOMAIN f = S
         /\ \A a, b \in S : f[a] = f[b] => a = b
         /\ \A a, b \in S : SortsBefore(seq[a], seq[b]) => f[a] < f[b]
         /\ {f[x] : x \in S} = 1..Cardinality(S)
<1>1. f \in NumberingsBy(seq, S)
  BY DEF Numberings
<1>. QED
  BY <1>1, NumberingsByAreDense

\* The numbers n list the stops in S, densely, and no others.
Lists(n, S) ==
  /\ {x \in Orders : n[x] # 0} = S
  /\ {n[x] : x \in S} = 1..Cardinality(S)

\* As a function on all orders a numbering lists its stops in the order they had.
LEMMA NumberingsList ==
  ASSUME NEW S \in SUBSET Orders, NEW n, NEW f \in NumberingsBy(n, S),
         NEW g, g = NumbersOf(f)
  PROVE  /\ Lists(g, S)
         /\ \A a, b \in S : SortsBefore(n[a], n[b]) => g[a] < g[b]
<1>1. /\ f \in [S -> 1..Cardinality(S)] /\ DOMAIN f = S /\ Cardinality(S) \in Nat
      /\ \A a, b \in S : SortsBefore(n[a], n[b]) => f[a] < f[b]
      /\ {f[x] : x \in S} = 1..Cardinality(S)
  BY NumberingsByAreDense, StopsCounted
<1>2. \A x \in Orders : g[x] = IF x \in S THEN f[x] ELSE 0
  BY <1>1 DEF NumbersOf
<1>3. \A x \in S : f[x] # 0
  BY <1>1
<1>4. {g[x] : x \in S} = {f[x] : x \in S}
  BY <1>2
<1>5. {x \in Orders : g[x] # 0} = S
  BY <1>2, <1>3
<1>. QED
  BY <1>1, <1>2, <1>4, <1>5 DEF Lists

\* A stop spliced into a dense numbering leaves it dense, and the others in order.
LEMMA SplicedNumbersAreDense ==
  ASSUME NEW S \in SUBSET Orders, NEW f \in [S -> 1..Cardinality(S)],
         \A a, b \in S : f[a] = f[b] => a = b,
         NEW o \in Orders, o \notin S, NEW k \in 1..(Cardinality(S) + 1),
         NEW g, g = Splice(f, o, k)
  PROVE  /\ \A x \in S \cup {o} : g[x] \in 1..Cardinality(S \cup {o})
         /\ \A i \in 1..Cardinality(S \cup {o}) : \E x \in S \cup {o} : g[x] = i
         /\ \A a, b \in S : f[a] < f[b] => g[a] < g[b]
<1>. DEFINE n == Cardinality(S)
<1>1. n \in Nat /\ Cardinality(S \cup {o}) = n + 1
  BY StopsCounted, FS_AddElement
<1>2. {f[x] : x \in S} = 1..n
  BY DistinctNumbersAreDense
<1>3. /\ g[o] = k
      /\ \A x \in S : g[x] = IF f[x] < k THEN f[x] ELSE f[x] + 1
  BY DEF Splice
<1>. HIDE DEF n
<1>4. f \in [S -> 1..n] /\ k \in 1..(n + 1)
  BY DEF n
<1>5. ASSUME NEW x \in S \cup {o}
      PROVE  g[x] \in 1..(n + 1)
  BY <1>1, <1>3, <1>4
<1>6. ASSUME NEW i \in 1..(n + 1)
      PROVE  \E x \in S \cup {o} : g[x] = i
  <2>1. CASE i = k
    BY <1>3, <2>1
  <2>2. CASE i < k
    <3>1. i \in 1..n
      BY <1>1, <1>4, <2>2
    <3>2. PICK x \in S : f[x] = i
      BY <1>2, <3>1
    <3>. QED
      BY <1>3, <2>2, <3>2
  <2>3. CASE i > k
    <3>1. i - 1 \in 1..n
      BY <1>1, <1>4, <2>3
    <3>2. PICK x \in S : f[x] = i - 1
      BY <1>2, <3>1
    <3>3. ~(f[x] < k) /\ f[x] + 1 = i
      BY <1>4, <2>3, <3>2
    <3>. QED
      BY <1>3, <3>3
  <2>. QED
    BY <1>4, <2>1, <2>2, <2>3
<1>7. \A a, b \in S : f[a] < f[b] => g[a] < g[b]
  BY <1>1, <1>3, <1>4
<1>. QED
  BY <1>1, <1>5, <1>6, <1>7

\* An assignment numbers the run it is to, and nothing else.
LEMMA AssignNumbers ==
  ASSUME TypeOK, NEW c \in Clients, CommitAssign(c),
         NEW o, o = req[c].order, NEW r, r = req[c].run
  PROVE  /\ o \in Orders /\ r \in Run
         /\ DenseAfter(r) /\ OrderKept(Stops(r) \ {o}) /\ OnlyIn(Stops(r) \cup {o})
<1>. DEFINE S == Stops(r) \ {o}
<1>1. o \in Orders /\ r \in Run
  BY ReqType DEF CommitAssign, EditOps, EditReq
<1>2. PICK f \in Numberings(S) :
        \E k \in 1..(Cardinality(DOMAIN f) + 1) : seq' = Renumber(Splice(f, o, k))
  BY DEF CommitAssign
<1>3. S \in SUBSET Orders /\ o \notin S
  BY DEF Stops
<1>4. /\ f \in [S -> 1..Cardinality(S)] /\ DOMAIN f = S
      /\ \A a, b \in S : f[a] = f[b] => a = b
      /\ \A a, b \in S : SortsBefore(seq[a], seq[b]) => f[a] < f[b]
  BY <1>2, <1>3, NumberingsAreDense
<1>5. PICK k \in 1..(Cardinality(S) + 1) : seq' = Renumber(Splice(f, o, k))
  BY <1>2, <1>4
<1>6. {x \in Orders : onRun'[x] = r} = S \cup {o}
  BY <1>1 DEF TypeOK, CommitAssign, Stops
<1>. HIDE DEF S
<1>. DEFINE g == Splice(f, o, k)
<1>7. g = Splice(f, o, k)
  OBVIOUS
<1>. HIDE DEF g
<1>8. DOMAIN g = S \cup {o}
  BY <1>4, <1>7 DEF Splice
<1>9. \A x \in Orders : seq'[x] = IF x \in S \cup {o} THEN g[x] ELSE seq[x]
  BY <1>5, <1>7, <1>8 DEF Renumber
<1>10. /\ \A x \in S \cup {o} : g[x] \in 1..Cardinality(S \cup {o})
       /\ \A i \in 1..Cardinality(S \cup {o}) : \E x \in S \cup {o} : g[x] = i
       /\ \A a, b \in S : f[a] < f[b] => g[a] < g[b]
  <2>1. o \in Orders /\ S \in SUBSET Orders /\ o \notin S
    BY <1>1, <1>3
  <2>2. f \in [S -> 1..Cardinality(S)] /\ \A a, b \in S : f[a] = f[b] => a = b
    BY <1>4
  <2>3. \A x \in S \cup {o} : g[x] \in 1..Cardinality(S \cup {o})
    BY <1>7, <2>1, <2>2, SplicedNumbersAreDense
  <2>4. \A i \in 1..Cardinality(S \cup {o}) : \E x \in S \cup {o} : g[x] = i
    BY <1>7, <2>1, <2>2, SplicedNumbersAreDense
  <2>5. \A a, b \in S : f[a] < f[b] => g[a] < g[b]
    BY <1>7, <2>1, <2>2, SplicedNumbersAreDense
  <2>. QED
    BY <2>3, <2>4, <2>5
<1>11. DenseAfter(r)
  <2>1. \A x \in S \cup {o} : seq'[x] = g[x]
    BY <1>1, <1>3, <1>9
  <2>2. \A x \in S \cup {o} : seq'[x] \in 1..Cardinality(S \cup {o})
    BY <1>10, <2>1
  <2>3. \A i \in 1..Cardinality(S \cup {o}) : \E x \in S \cup {o} : seq'[x] = i
    BY <1>10, <2>1
  <2>. QED
    BY <1>6, <2>2, <2>3 DEF DenseAfter
<1>12. OrderKept(S)
  BY <1>3, <1>4, <1>9, <1>10 DEF OrderKept
<1>13. OnlyIn(S \cup {o})
  BY <1>9 DEF OnlyIn
<1>. QED
  BY <1>1, <1>11, <1>12, <1>13 DEF S, OnlyIn

\* A removal closes the gap it leaves.
LEMMA UnassignNumbers ==
  ASSUME TypeOK, NEW c \in Clients, CommitUnassign(c),
         NEW o, o = req[c].order, NEW r, r = req[c].run
  PROVE  /\ o \in Orders /\ r \in Run
         /\ DenseAfter(r) /\ OrderKept(Stops(r) \ {o}) /\ OnlyIn(Stops(r))
         /\ seq'[o] = 0
<1>. DEFINE S == Stops(r) \ {o}
<1>1. o \in Orders /\ r \in Run
  BY ReqType DEF CommitUnassign, EditOps, EditReq
<1>2. PICK f \in Numberings(S) : seq' = [Renumber(f) EXCEPT ![o] = 0]
  BY DEF CommitUnassign
<1>3. S \in SUBSET Orders /\ o \notin S /\ S \cup {o} = Stops(r)
  BY <1>1 DEF Stops, CommitUnassign
<1>4. {x \in Orders : onRun'[x] = r} = S
  BY <1>1, DeliveryRunsAssumption
     DEF TypeOK, CommitUnassign, Stops, DeliveryRunsAssumption
<1>. HIDE DEF S
<1>5. /\ f \in [S -> 1..Cardinality(S)] /\ DOMAIN f = S
      /\ \A a, b \in S : SortsBefore(seq[a], seq[b]) => f[a] < f[b]
      /\ {f[x] : x \in S} = 1..Cardinality(S)
  BY <1>2, <1>3, NumberingsAreDense
<1>6. \A x \in Orders : seq'[x] = IF x = o THEN 0 ELSE IF x \in S THEN f[x] ELSE seq[x]
  BY <1>1, <1>2, <1>5 DEF Renumber
<1>7. DenseAfter(r)
  <2>1. {seq'[x] : x \in S} = {f[x] : x \in S}
    BY <1>3, <1>6
  <2>. QED
    BY <1>4, <1>5, <2>1 DEF DenseAfter
<1>8. OrderKept(S)
  BY <1>3, <1>5, <1>6 DEF OrderKept
<1>9. OnlyIn(S \cup {o})
  BY <1>6 DEF OnlyIn
<1>. QED
  BY <1>1, <1>3, <1>6, <1>7, <1>8, <1>9 DEF S

\* A reorder numbers the stops of its run and no others.
LEMMA ReorderNumbers ==
  ASSUME BoardInv, NEW c \in Clients, CommitReorder(c), NEW r, r = req[c].run
  PROVE  r \in Run /\ DenseAfter(r) /\ OnlyIn(Stops(r))
<1>. DEFINE listed == {s[1] : s \in req[c].view.stops}
<1>1. listed = Stops(r)
  BY ReorderedStops DEF BoardInv
<1>2. PICK f \in [listed -> 1..Cardinality(listed)] :
        /\ \A a, b \in listed : f[a] = f[b] => a = b
        /\ seq' = Renumber(f)
  BY DEF CommitReorder
<1>3. {o \in Orders : onRun'[o] = r} = listed
  BY <1>1 DEF CommitReorder, Stops
<1>4. listed \in SUBSET Orders
  BY <1>1 DEF Stops
<1>5. r \in Run
  BY ReqType DEF BoardInv, CommitReorder, EditOps, EditReq
<1>. HIDE DEF listed
<1>6. \A x \in Orders : seq'[x] = IF x \in listed THEN f[x] ELSE seq[x]
  BY <1>2, <1>4 DEF Renumber
<1>7. {f[x] : x \in listed} = 1..Cardinality(listed)
  BY <1>2, <1>4, DistinctNumbersAreDense
<1>8. {seq'[x] : x \in listed} = {f[x] : x \in listed}
  BY <1>4, <1>6
<1>. QED
  BY <1>1, <1>3, <1>5, <1>6, <1>7, <1>8 DEF DenseAfter, OnlyIn

\* Whatever set of stops an edit was computed from, the run it leaves is 1..n.
THEOREM EditsKeepDensity == Spec => EditsLeaveRunDense
<1>1. BoardInv /\ [Next]_vars
        => \A c \in Clients :
             EditCommits(c) /\ req[c].op \in {"assign", "unassign", "reorder"}
             => LET stops == {o \in Orders : onRun'[o] = req[c].run}
                IN {seq'[o] : o \in stops} = 1..Cardinality(stops)
  <2>. SUFFICES ASSUME BoardInv, [Next]_vars, NEW c \in Clients, EditCommits(c),
                       req[c].op \in {"assign", "unassign", "reorder"}
                PROVE  LET stops == {o \in Orders : onRun'[o] = req[c].run}
                       IN {seq'[o] : o \in stops} = 1..Cardinality(stops)
    OBVIOUS
  <2>1. CommitAssign(c) \/ CommitUnassign(c) \/ CommitReorder(c) \/ CommitUpdate(c)
    BY EditCommitsByItsTransaction
  <2>2. PICK r, o : r = req[c].run /\ o = req[c].order
    OBVIOUS
  <2>3. DenseAfter(r)
    BY <2>1, <2>2, AssignNumbers, UnassignNumbers, ReorderNumbers DEF BoardInv, CommitUpdate
  <2>. QED
    BY <2>2, <2>3 DEF DenseAfter
<1>. QED
  BY BoardInvariant, <1>1, PTL DEF Spec, EditsLeaveRunDense

-----------------------------------------------------------------------------
(* Reschedules and the rows they hold *)

\* No two open reschedule transactions have locked the same run.
OneHolder ==
  \A c, d \in LockedTx : req[c].prev = req[d].prev /\ req[c].prev # NoRun => c = d

\* The number the transaction of request q has given a stop it leaves behind.
NumberNow(q, x) == IF q.leaving[x] # 0 THEN q.leaving[x] ELSE seq[x]

\* A reschedule back to the run the order is on has read that run for itself.
OwnReading ==
  \A c \in LockedTx, S \in SUBSET Orders :
    /\ req[c].prev # NoRun /\ req[c].dest = req[c].prev
    /\ S = Stops(req[c].prev) \ {req[c].order}
    => /\ Lists(req[c].behind, S)
       /\ \A a, b \in S : SortsBefore(NumberNow(req[c], a), NumberNow(req[c], b))
                            => req[c].behind[a] < req[c].behind[b]

\* While the run it leaves is at the version it was read at, the stops read are
\* the ones that remain, in their order.
FreshReading ==
  \A c \in OpenTx, S \in SUBSET Orders :
    /\ req[c].prev # NoRun
    /\ S = Stops(req[c].prev) \ {req[c].order}
    => /\ req[c].ver <= version[req[c].prev]
       /\ req[c].ver = version[req[c].prev]
            => /\ Lists(req[c].leaving, S)
               /\ \A a, b \in S : SortsBefore(seq[a], seq[b])
                                    => req[c].leaving[a] < req[c].leaving[b]

\* A reschedule is to another date than its order has.
NewDates ==
  /\ \A c \in Clients : req[c].op = "reschedule" => req[c].date # req[c].expected
  /\ \A c \in OpenTx : sched[req[c].order] = req[c].expected

\* The inductive invariant of the refinement.
MoveInv == BoardInv /\ OneHolder /\ OwnReading /\ FreshReading /\ NewDates

\* An open reschedule moves an order from the run it found it on.
LEMMA RescheduleMoves ==
  ASSUME BoardInv, NEW c \in Clients, CommitReschedule(c),
         NEW o, o = req[c].order, NEW r, r = req[c].prev, NEW d, d = req[c].dest
  PROVE  /\ o \in Orders /\ r \in Run \cup {NoRun} /\ d \in Run \cup {NoRun}
         /\ r # NoRun \/ d # NoRun
         /\ onRun[o] = r /\ onRun' = [onRun EXCEPT ![o] = d]
<1>1. req[c] \in ReschedReq
  BY ReqType DEF BoardInv, CommitReschedule
<1>2. onRun[o] = r
  BY DEF BoardInv, OpenReschedulesHoldTheirOrder, OpenTx, CommitReschedule, Unplaced
<1>. QED
  BY <1>1, <1>2 DEF ReschedReq, CommitReschedule

\* It numbers nothing but the two runs.
LEMMA RescheduleNumbers ==
  ASSUME BoardInv, NEW c \in Clients, CommitReschedule(c),
         NEW o, o = req[c].order, NEW r, r = req[c].prev, NEW d, d = req[c].dest
  PROVE  /\ d = NoRun => seq'[o] = 0
         /\ OnlyIn({o} \cup UNION {Stops(x) : x \in Run \cap {r, d}})
<1>0. o \in Orders /\ r \in Run \cup {NoRun} /\ d \in Run \cup {NoRun}
  BY RescheduleMoves
<1>1. d = NoRun => seq'[o] = 0
  BY <1>0 DEF CommitReschedule
<1>2. ASSUME NEW x \in Orders, x # o, \A y \in Run \cap {r, d} : x \notin Stops(y)
      PROVE  seq'[x] = seq[x]
  <2>1. x \notin ReadOn(d, req[c].behind) /\ x \notin ReadOn(r, req[c].leaving)
    BY <1>0, <1>2 DEF ReadOn, Stops
  <2>2. seq'[x] = Renumbered(req[c])[x]
    BY <1>2, <2>1 DEF CommitReschedule
  <2>. QED
    BY <2>1, <2>2 DEF Renumbered
<1>. QED
  BY <1>1, <1>2 DEF OnlyIn

\* A stop added behind a dense numbering leaves it dense.
LEMMA AppendedNumbersAreDense ==
  ASSUME NEW S \in SUBSET Orders, NEW f, {f[x] : x \in S} = 1..Cardinality(S),
         NEW o \in Orders, o \notin S,
         NEW g, g[o] = Cardinality(S) + 1, \A x \in S : g[x] = f[x]
  PROVE  {g[x] : x \in S \cup {o}} = 1..Cardinality(S \cup {o})
<1>. DEFINE n == Cardinality(S)
<1>1. n \in Nat /\ Cardinality(S \cup {o}) = n + 1
  BY StopsCounted, FS_AddElement
<1>2. {f[x] : x \in S} = 1..n
  OBVIOUS
<1>. HIDE DEF n
<1>3. \A x \in S \cup {o} : g[x] \in 1..(n + 1)
  <2>1. \A x \in S : g[x] \in 1..n
    BY <1>2
  <2>2. g[o] = n + 1
    BY DEF n
  <2>. QED
    BY <1>1, <2>1, <2>2
<1>4. ASSUME NEW i \in 1..(n + 1)
      PROVE  \E x \in S \cup {o} : g[x] = i
  <2>1. CASE i = n + 1
    BY <2>1 DEF n
  <2>2. CASE i # n + 1
    <3>1. i \in 1..n
      BY <1>1, <2>2
    <3>2. PICK x \in S : f[x] = i
      BY <1>2, <3>1
    <3>. QED
      BY <3>2
  <2>. QED
    BY <2>1, <2>2
<1>. QED
  BY <1>1, <1>3, <1>4

\* An order that comes back to its run leaves it dense, as the last of its stops;
\* and if the run is as it was when it was left, in the order it had.
LEMMA RescheduleInPlaceNumbers ==
  ASSUME BoardInv, OwnReading, NEW c \in Clients, CommitReschedule(c),
         NEW o, o = req[c].order, NEW r \in Run, r = req[c].prev, r = req[c].dest,
         NEW S, S = Stops(r) \ {o}
  PROVE  /\ DenseAfter(r)
         /\ \A a, b \in S : SortsBefore(NumberNow(req[c], a), NumberNow(req[c], b))
                              => seq'[a] < seq'[b]
<1>. DEFINE behind == req[c].behind
            last == Cardinality({x \in Orders : behind[x] # 0}) + 1
<1>0. /\ o \in Orders /\ onRun[o] = r /\ onRun' = [onRun EXCEPT ![o] = r] /\ r # NoRun
  <2>1. r # NoRun
    BY DeliveryRunsAssumption DEF DeliveryRunsAssumption
  <2>2. PICK d : d = req[c].dest
    OBVIOUS
  <2>3. o \in Orders
    BY <2>2, RescheduleMoves
  <2>4. onRun[o] = r
    BY DEF BoardInv, OpenReschedulesHoldTheirOrder, OpenTx, CommitReschedule, Unplaced
  <2>5. onRun' = [onRun EXCEPT ![o] = d]
    BY <2>2, RescheduleMoves
  <2>. QED
    BY <2>1, <2>2, <2>3, <2>4, <2>5
<1>1. S \in SUBSET Orders /\ o \notin S /\ \A x \in S : onRun[x] = r
  BY DEF Stops
<1>2. /\ Lists(behind, S)
      /\ \A a, b \in S : SortsBefore(NumberNow(req[c], a), NumberNow(req[c], b))
                           => behind[a] < behind[b]
  <2>1. c \in LockedTx /\ S = Stops(req[c].prev) \ {req[c].order}
    BY DEF LockedTx, CommitReschedule
  <2>. QED
    BY <1>0, <1>1, <2>1 DEF OwnReading
<1>3. {x \in Orders : behind[x] # 0} = S /\ {behind[x] : x \in S} = 1..Cardinality(S)
  BY <1>2 DEF Lists
<1>4. seq'[o] = Cardinality(S) + 1
  BY <1>0, <1>3 DEF CommitReschedule
<1>5. ASSUME NEW x \in S
      PROVE  seq'[x] = behind[x]
  <2>1. x \in Orders /\ x # o /\ x \in ReadOn(r, behind)
    BY <1>0, <1>1, <1>3, <1>5 DEF ReadOn
  <2>. QED
    BY <2>1 DEF CommitReschedule
<1>6. {x \in Orders : onRun'[x] = r} = S \cup {o}
  BY <1>0 DEF BoardInv, TypeOK, Stops
<1>. HIDE DEF behind
<1>7. {seq'[x] : x \in S \cup {o}} = 1..Cardinality(S \cup {o})
  <2>1. PICK g : g = seq'
    OBVIOUS
  <2>2. PICK f : f = behind
    OBVIOUS
  <2>3. {f[x] : x \in S} = 1..Cardinality(S)
    BY <1>3, <2>2
  <2>4. g[o] = Cardinality(S) + 1 /\ \A x \in S : g[x] = f[x]
    BY <1>4, <1>5, <2>1, <2>2
  <2>5. {g[x] : x \in S \cup {o}} = 1..Cardinality(S \cup {o})
    BY <1>0, <1>1, <2>3, <2>4, AppendedNumbersAreDense
  <2>. QED
    BY <2>1, <2>5
<1>8. DenseAfter(r)
  BY <1>6, <1>7 DEF DenseAfter
<1>. QED
  BY <1>2, <1>5, <1>8

\* A step that moves one order, neither from r nor to it, and renumbers none of
\* its stops keeps the run.
LEMMA RunUntouched ==
  ASSUME TypeOK, NEW r, NEW o \in Orders, NEW y, NEW T,
         onRun[o] # r, y # r, onRun' = [onRun EXCEPT ![o] = y],
         OnlyIn(T), \A x \in Stops(r) : x \notin T
  PROVE  KeepsStops(r)
<1>1. \A x \in Orders : onRun'[x] = r <=> onRun[x] = r
  BY DEF TypeOK
<1>2. \A x \in Orders : onRun[x] = r => seq'[x] = seq[x]
  BY DEF OnlyIn, Stops
<1>. QED
  BY <1>1, <1>2 DEF KeepsStops

\* A run that an open reschedule has renumbered is nobody else's to change.
LEMMA LockedRunsStay ==
  ASSUME BoardInv, OneHolder, [Next]_vars,
         NEW c \in Clients, c \in LockedTx, req'[c] = req[c],
         NEW r \in Run, r = req[c].prev
  PROVE  KeepsStops(r)
<1>0. TypeOK /\ r \in LockedRuns /\ r # NoRun
  BY DeliveryRunsAssumption DEF BoardInv, LockedRuns, DeliveryRunsAssumption
<1>1. ASSUME NEW d \in Clients, CommitAssign(d)
      PROVE  KeepsStops(r)
  <2>1. PICK o, s : o = req[d].order /\ s = req[d].run
    OBVIOUS
  <2>2. o \in Orders /\ OnlyIn(Stops(s) \cup {o})
    BY <1>0, <1>1, <2>1, AssignNumbers
  <2>3. /\ s # r /\ onRun[o] # r
        /\ onRun' = [onRun EXCEPT ![o] = s]
    BY <1>0, <1>1, <2>1 DEF CommitAssign, Cas
  <2>4. \A x \in Stops(r) : x \notin Stops(s) \cup {o}
    BY <2>3 DEF Stops
  <2>. QED
    BY <1>0, <2>2, <2>3, <2>4, RunUntouched
<1>2. ASSUME NEW d \in Clients, CommitUnassign(d)
      PROVE  KeepsStops(r)
  <2>1. PICK o, s : o = req[d].order /\ s = req[d].run
    OBVIOUS
  <2>2. o \in Orders /\ OnlyIn(Stops(s))
    BY <1>0, <1>2, <2>1, UnassignNumbers
  <2>3. /\ s # r /\ onRun[o] = s
        /\ onRun' = [onRun EXCEPT ![o] = NoRun]
    BY <1>0, <1>2, <2>1 DEF CommitUnassign, Cas
  <2>4. \A x \in Stops(r) : x \notin Stops(s)
    BY <2>3 DEF Stops
  <2>. QED
    BY <1>0, <2>2, <2>3, <2>4, RunUntouched
<1>3. ASSUME NEW d \in Clients, CommitReorder(d)
      PROVE  KeepsStops(r)
  <2>1. PICK s : s = req[d].run
    OBVIOUS
  <2>2. OnlyIn(Stops(s))
    BY <1>3, <2>1, ReorderNumbers
  <2>3. s # r /\ onRun' = onRun
    BY <1>0, <1>3, <2>1 DEF CommitReorder, Cas
  <2>. QED
    BY <2>2, <2>3 DEF KeepsStops, OnlyIn, Stops
<1>4. ASSUME NEW d \in Clients, CommitReschedule(d)
      PROVE  KeepsStops(r)
  <2>1. PICK o, s, y : o = req[d].order /\ s = req[d].prev /\ y = req[d].dest
    OBVIOUS
  <2>2. d \in LockedTx /\ d # c
    <3>1. req'[d] = Idle
      BY <1>0, <1>4 DEF CommitReschedule, Finish, TypeOK
    <3>2. d \in LockedTx /\ req[d].op = "reschedule" /\ Idle.op = "idle"
      BY <1>4 DEF CommitReschedule, LockedTx, Idle
    <3>. QED
      BY <3>1, <3>2
  <2>3. s # r
    BY <1>0, <2>1, <2>2 DEF OneHolder
  <2>4. y # r
    BY <1>0, <1>4, <2>1, <2>3 DEF CommitReschedule
  <2>5. o \in Orders /\ onRun[o] = s /\ onRun' = [onRun EXCEPT ![o] = y]
    BY <1>4, <2>1, RescheduleMoves
  <2>6. OnlyIn({o} \cup UNION {Stops(x) : x \in Run \cap {s, y}})
    BY <1>4, <2>1, RescheduleNumbers
  <2>7. \A x \in Stops(r) : x \notin {o} \cup UNION {Stops(z) : z \in Run \cap {s, y}}
    BY <2>3, <2>4, <2>5 DEF Stops
  <2>. QED
    BY <1>0, <2>3, <2>4, <2>5, <2>6, <2>7, RunUntouched
<1>5. ASSUME NEW w \in Workers, InsertAllocation(w)
      PROVE  KeepsStops(r)
  <2>1. PICK o, s : o = job[w].order /\ s = job[w].run
    OBVIOUS
  <2>2. /\ s # r /\ onRun[o] = NoRun
        /\ onRun' = [onRun EXCEPT ![o] = s]
        /\ seq' = [seq EXCEPT ![o] = DropPosition[o]]
    BY <1>0, <1>5, <2>1 DEF InsertAllocation, Unplaced
  <2>. QED
    BY <1>0, <2>2 DEF TypeOK, KeepsStops
<1>6. CASE UNCHANGED stopVars
  BY <1>6 DEF stopVars, KeepsStops
<1>7. ASSUME NEW d \in Clients, ClientStep(d)
      PROVE  \/ CommitAssign(d) \/ CommitUnassign(d) \/ CommitReorder(d)
             \/ CommitReschedule(d) \/ UNCHANGED stopVars
  BY <1>7 DEF ClientStep, CreateRun, StartReorder, StartUpdate, StartUnassign,
     StartAssign, StartReschedule, CommitUpdate, RemoveStop, ReadDestination,
     CommitNewDate, RollBack, stopVars
<1>8. ASSUME NEW w \in Workers, WorkerStep(w)
      PROVE  InsertAllocation(w) \/ UNCHANGED stopVars
  BY <1>8 DEF WorkerStep, TakeJob, SetScheduledDate, ResolveRun, CompleteJob,
     FailJob, StallJob
<1>9. CASE UNCHANGED vars \/ \E x \in Orders : LeaveAccepted(x)
  BY <1>6, <1>9 DEF vars, LeaveAccepted, stopVars
<1>. QED
  BY <1>1, <1>2, <1>3, <1>4, <1>5, <1>6, <1>7, <1>8, <1>9 DEF Next, Quiescent

\* A transaction that has locked its run keeps it or has just locked it.
LEMMA LockedOrKept ==
  ASSUME BoardInv, [Next]_vars, NEW c \in Clients, c \in LockedTx'
  PROVE  \/ req'[c] = req[c] /\ c \in LockedTx
         \/ ReadDestination(c) /\ \A d \in Clients \ {c} : req'[d] = req[d]
<1>1. c \in OpenTx' /\ req'[c].phase = "locked" /\ req'[c].op = "reschedule"
  BY DEF OpenTx, LockedTx
<1>2. CASE req'[c] = req[c]
  BY <1>1, <1>2 DEF LockedTx
<1>3. CASE req'[c] # req[c]
  BY <1>1, <1>3, OpenedOrKept, NewTransaction
<1>. QED
  BY <1>2, <1>3

\* No step gives a run a second holder.
LEMMA OneHolderStep ==
  ASSUME BoardInv, OneHolder, [Next]_vars
  PROVE  OneHolder'
<1>. SUFFICES ASSUME NEW c \in Clients, c \in LockedTx', NEW d \in Clients, d \in LockedTx',
                     req'[c].prev = req'[d].prev, req'[c].prev # NoRun, c # d
              PROVE  FALSE
  BY DEF OneHolder, LockedTx
<1>1. ASSUME NEW x \in Clients, NEW y \in Clients, x # y, ReadDestination(x),
             \A z \in Clients \ {x} : req'[z] = req[z], y \in LockedTx',
             req'[x].prev = req'[y].prev, req'[x].prev # NoRun
      PROVE  FALSE
  <2>1. PICK o, r : o = req[x].order /\ r = req[x].dest
    OBVIOUS
  <2>2. req'[x].prev = req[x].prev
    BY <1>1, <2>1, Reading DEF BoardInv
  <2>3. req'[y] = req[y] /\ y \in LockedTx
    BY <1>1 DEF LockedTx
  <2>4. req[x].prev \notin LockedRuns
    BY <1>1, <2>2 DEF ReadDestination
  <2>. QED
    BY <1>1, <2>2, <2>3, <2>4 DEF LockedRuns
<1>2. CASE req'[c] = req[c] /\ c \in LockedTx /\ req'[d] = req[d] /\ d \in LockedTx
  BY <1>2 DEF OneHolder
<1>. QED
  BY <1>1, <1>2, LockedOrKept

\* What a reschedule read of the run it holds stays what that run is.
LEMMA OwnReadingStep ==
  ASSUME BoardInv, OneHolder, OwnReading, [Next]_vars
  PROVE  OwnReading'
<1>1. ASSUME NEW c \in Clients, c \in LockedTx', NEW S \in SUBSET Orders,
             NEW o, o = req'[c].order, NEW r, r = req'[c].prev,
             r # NoRun, req'[c].dest = r, S = {x \in Orders : onRun'[x] = r} \ {o},
             NEW q, q = req'[c]
      PROVE  /\ Lists(q.behind, S)
             /\ \A a, b \in S :
                  SortsBefore(IF q.leaving[a] # 0 THEN q.leaving[a] ELSE seq'[a],
                              IF q.leaving[b] # 0 THEN q.leaving[b] ELSE seq'[b])
                    => q.behind[a] < q.behind[b]
  <2>1. CASE req'[c] = req[c] /\ c \in LockedTx
    <3>1. r \in Run
      BY <1>1, <2>1, ReqType DEF BoardInv, LockedTx, ReschedReq
    <3>2. KeepsStops(r)
      BY <1>1, <2>1, <3>1, LockedRunsStay
    <3>3. S = Stops(r) \ {o} /\ \A x \in S : seq'[x] = seq[x]
      BY <1>1, <3>2 DEF KeepsStops, Stops
    <3>4. /\ Lists(q.behind, S)
          /\ \A a, b \in S : SortsBefore(NumberNow(q, a), NumberNow(q, b))
                               => q.behind[a] < q.behind[b]
      BY <1>1, <2>1, <3>3 DEF OwnReading
    <3>. QED
      BY <3>3, <3>4 DEF NumberNow
  <2>2. CASE ReadDestination(c)
    <3>1. PICK p, d : p = req[c].order /\ d = req[c].dest
      OBVIOUS
    <3>2. /\ d = r /\ p = o /\ req[c].prev = r /\ UNCHANGED <<onRun, seq>>
          /\ q.leaving = req[c].leaving
      BY <1>1, <2>2, <3>1, Reading DEF BoardInv, ReadDestination, stopVars
    <3>3. S = Stops(r) \ {o}
      BY <1>1, <3>2 DEF Stops
    <3>4. PICK f \in NumberingsBy(Renumbered(req[c]), Stops(d) \ {p}) :
            req'[c].behind = NumbersOf(f)
      BY <1>1, <2>2, <3>1, <3>2, Reading DEF BoardInv
    <3>5. PICK n : n = Renumbered(req[c])
      OBVIOUS
    <3>6. f \in NumberingsBy(n, S)
      BY <3>2, <3>3, <3>4, <3>5
    <3>7. /\ Lists(q.behind, S)
          /\ \A a, b \in S : SortsBefore(n[a], n[b]) => q.behind[a] < q.behind[b]
      BY <1>1, <3>4, <3>6, NumberingsList
    <3>8. ASSUME NEW x \in S
          PROVE  n[x] = IF q.leaving[x] # 0 THEN q.leaving[x] ELSE seq'[x]
      BY <1>1, <3>2, <3>3, <3>5, <3>8 DEF Renumbered, ReadOn, Stops
    <3>. QED
      BY <3>7, <3>8
  <2>. QED
    BY <1>1, <2>1, <2>2, LockedOrKept
<1>2. ASSUME NEW c \in LockedTx', NEW S \in SUBSET Orders, req'[c].prev # NoRun,
             req'[c].dest = req'[c].prev,
             S = {x \in Orders : onRun'[x] = req'[c].prev} \ {req'[c].order}
      PROVE  /\ Lists(req'[c].behind, S)
             /\ \A a, b \in S :
                  SortsBefore(IF req'[c].leaving[a] # 0 THEN req'[c].leaving[a] ELSE seq'[a],
                              IF req'[c].leaving[b] # 0 THEN req'[c].leaving[b] ELSE seq'[b])
                    => req'[c].behind[a] < req'[c].behind[b]
  <2>1. PICK o, r, q : o = req'[c].order /\ r = req'[c].prev /\ q = req'[c]
    OBVIOUS
  <2>2. c \in Clients
    BY DEF LockedTx
  <2>. QED
    BY <1>1, <1>2, <2>1, <2>2
<1>. QED
  BY <1>2 DEF OwnReading, Stops, NumberNow, Lists, SortsBefore

\* What it read of the run it leaves is that run until the run changes.
LEMMA FreshReadingStep ==
  ASSUME BoardInv, FreshReading, [Next]_vars
  PROVE  FreshReading'
<1>0. TypeOK /\ TypeOK' /\ Tracks
  BY TypeStep, NextTracks DEF BoardInv
<1>1. ASSUME NEW c \in Clients, c \in OpenTx', NEW S \in SUBSET Orders,
             NEW o, o = req'[c].order, NEW r, r = req'[c].prev,
             r # NoRun, S = {x \in Orders : onRun'[x] = r} \ {o}, NEW q, q = req'[c]
      PROVE  /\ q.ver <= version'[r]
             /\ q.ver = version'[r]
                  => /\ Lists(q.leaving, S)
                     /\ \A a, b \in S : SortsBefore(seq'[a], seq'[b])
                                          => q.leaving[a] < q.leaving[b]
  <2>1. q \in ReschedReq /\ r \in Run
    BY <1>0, <1>1 DEF OpenTx, TypeOK, ReschedReq, EditReq, EditOps, Idle
  <2>2. version[r] \in Nat /\ version'[r] \in Nat /\ q.ver \in Nat /\ TracksRun(r)
    BY <1>0, <2>1 DEF TypeOK, Tracks, ReschedReq
  <2>3. ASSUME c \in OpenTx, req[c].order = o, req[c].prev = r, req[c].ver = q.ver,
               req[c].leaving = q.leaving
        PROVE  /\ q.ver <= version'[r]
               /\ q.ver = version'[r]
                    => /\ Lists(q.leaving, S)
                       /\ \A a, b \in S : SortsBefore(seq'[a], seq'[b])
                                            => q.leaving[a] < q.leaving[b]
    <3>1. PICK T \in SUBSET Orders : T = Stops(r) \ {o}
      BY DEF Stops
    <3>2. /\ q.ver <= version[r]
          /\ q.ver = version[r]
               => /\ Lists(q.leaving, T)
                  /\ \A a, b \in T : SortsBefore(seq[a], seq[b])
                                       => q.leaving[a] < q.leaving[b]
      BY <1>1, <2>3, <3>1 DEF FreshReading
    <3>3. version'[r] >= version[r]
      BY <2>2 DEF TracksRun
    <3>4. ASSUME q.ver = version'[r]
          PROVE  q.ver = version[r] /\ KeepsStops(r)
      BY <2>2, <3>2, <3>3, <3>4 DEF TracksRun
    <3>5. ASSUME KeepsStops(r)
          PROVE  S = T /\ \A x \in S : seq'[x] = seq[x]
      BY <1>1, <3>1, <3>5 DEF KeepsStops, Stops
    <3>. QED
      BY <2>2, <3>2, <3>3, <3>4, <3>5
  <2>4. CASE req'[c] = req[c] /\ c \in OpenTx
    BY <1>1, <2>3, <2>4
  <2>5. CASE ReadDestination(c)
    <3>1. PICK d : d = req[c].dest
      OBVIOUS
    <3>2. PICK p : p = req[c].order
      OBVIOUS
    <3>3. /\ req[c].order = o /\ req[c].prev = r /\ req[c].ver = q.ver
          /\ req[c].leaving = q.leaving
      BY <1>0, <1>1, <2>5, <3>1, <3>2, Reading
    <3>4. c \in OpenTx
      BY <1>1, <2>5, <3>3 DEF ReadDestination, OpenTx
    <3>. QED
      BY <2>3, <3>3, <3>4
  <2>6. CASE RemoveStop(c)
    <3>1. PICK p, s : p = req[c].order /\ s = req[c].prev
      OBVIOUS
    <3>2. /\ p = o /\ s = r /\ UNCHANGED <<onRun, seq, version>> /\ q.ver = version[r]
      BY <1>0, <1>1, <2>6, <3>1, Removal DEF RemoveStop, stopVars, runVars
    <3>3. S = Stops(r) \ {o}
      BY <1>1, <3>2 DEF Stops
    <3>4. PICK f \in Numberings(Stops(s) \ {p}) : req'[c].leaving = NumbersOf(f)
      BY <1>0, <2>6, <3>1, Removal
    <3>5. f \in NumberingsBy(seq, S)
      BY <3>2, <3>3, <3>4 DEF Numberings
    <3>6. /\ Lists(q.leaving, S)
          /\ \A a, b \in S : SortsBefore(seq[a], seq[b]) => q.leaving[a] < q.leaving[b]
      BY <1>1, <3>4, <3>5, NumberingsList
    <3>. QED
      BY <2>2, <3>2, <3>6
  <2>. QED
    BY <1>1, <2>4, <2>5, <2>6, OpenedOrKept
<1>2. ASSUME NEW c \in OpenTx', NEW S \in SUBSET Orders, req'[c].prev # NoRun,
             S = {x \in Orders : onRun'[x] = req'[c].prev} \ {req'[c].order}
      PROVE  /\ req'[c].ver <= version'[req'[c].prev]
             /\ req'[c].ver = version'[req'[c].prev]
                  => /\ Lists(req'[c].leaving, S)
                     /\ \A a, b \in S : SortsBefore(seq'[a], seq'[b])
                                          => req'[c].leaving[a] < req'[c].leaving[b]
  <2>1. PICK o, r, q : o = req'[c].order /\ r = req'[c].prev /\ q = req'[c]
    OBVIOUS
  <2>2. c \in Clients
    BY DEF OpenTx
  <2>. QED
    BY <1>1, <1>2, <2>1, <2>2
<1>. QED
  BY <1>2 DEF FreshReading, Stops, Lists, SortsBefore

\* The date of an order whose reschedule is open is nobody else's to set.
LEMMA NewDatesStep ==
  ASSUME BoardInv, NewDates, [Next]_vars
  PROVE  NewDates'
<1>0. TypeOK
  BY DEF BoardInv
<1>1. ASSUME NEW c \in Clients, req'[c].op = "reschedule"
      PROVE  req'[c].date # req'[c].expected
  <2>1. CASE req'[c] = req[c]
    BY <1>1, <2>1 DEF NewDates
  <2>2. CASE req'[c] # req[c]
    <3>1. ClientStep(c)
      BY <1>0, <2>2, OwnSteps
    <3>2. CASE RemoveStop(c) \/ ReadDestination(c)
      <4>1. PICK o, r, d : o = req[c].order /\ r = req[c].prev /\ d = req[c].dest
        OBVIOUS
      <4>2. req'[c].date = req[c].date /\ req'[c].expected = req[c].expected
        BY <1>0, <3>2, <4>1, Removal, Reading
      <4>3. req[c].op = "reschedule"
        BY <3>2 DEF RemoveStop, ReadDestination
      <4>. QED
        BY <4>2, <4>3 DEF NewDates
    <3>3. ASSUME NEW o \in Orders, NEW d \in Dates, StartReschedule(c, o, d),
                 req'[c].date = d, req'[c].expected = sched[o]
          PROVE  req'[c].date # req'[c].expected
      BY <3>3 DEF StartReschedule
    <3>. QED
      BY <1>1, <2>2, <3>1, <3>2, <3>3, RescheduleSteps
  <2>. QED
    BY <2>1, <2>2
<1>2. ASSUME NEW c \in Clients, c \in OpenTx, req'[c] = req[c],
             NEW o, o = req[c].order
      PROVE  sched'[o] = sched[o]
  <2>0. o \in Orders /\ o \in LockedOrders /\ req[c].op = "reschedule"
    BY <1>0, <1>2, ReqType DEF OpenTx, ReschedReq, LockedOrders
  <2>1. ASSUME NEW d \in Clients, CommitReschedule(d) \/ CommitNewDate(d)
        PROVE  sched'[o] = sched[o]
    <3>1. req'[d] = Idle /\ Idle.op = "idle"
      BY <1>0, <2>1 DEF CommitReschedule, CommitNewDate, Finish, TypeOK, Idle
    <3>2. d \in OpenTx /\ d # c
      BY <1>2, <2>0, <2>1, <3>1 DEF OpenTx, CommitReschedule, CommitNewDate
    <3>3. req[d].order # o
      BY <1>2, <3>2 DEF BoardInv, OpenReschedulesHoldTheirOrder
    <3>4. sched' = [sched EXCEPT ![req[d].order] = req[d].date]
      BY <2>1 DEF CommitReschedule, CommitNewDate
    <3>. QED
      BY <1>0, <2>0, <3>3, <3>4 DEF TypeOK
  <2>2. ASSUME NEW d \in Clients, ClientStep(d),
               ~(CommitReschedule(d) \/ CommitNewDate(d))
        PROVE  sched' = sched
    BY <2>2 DEF ClientStep, CreateRun, StartReorder, StartUpdate, StartUnassign,
       StartAssign, StartReschedule, CommitAssign, CommitUnassign, CommitReorder,
       CommitUpdate, RemoveStop, ReadDestination, RollBack, orderVars
  <2>3. ASSUME NEW w \in Workers, SetScheduledDate(w)
        PROVE  sched'[o] = sched[o]
    BY <1>0, <2>0, <2>3 DEF SetScheduledDate, TypeOK
  <2>4. ASSUME NEW w \in Workers, WorkerStep(w), ~SetScheduledDate(w)
        PROVE  sched' = sched
    BY <2>4 DEF WorkerStep, TakeJob, ResolveRun, InsertAllocation, CompleteJob,
       FailJob, StallJob, orderVars
  <2>5. CASE UNCHANGED vars \/ \E x \in Orders : LeaveAccepted(x)
    BY <2>5 DEF vars, LeaveAccepted
  <2>. QED
    BY <2>1, <2>2, <2>3, <2>4, <2>5 DEF Next, Quiescent
<1>3. ASSUME NEW c \in Clients, c \in OpenTx'
      PROVE  sched'[req'[c].order] = req'[c].expected
  <2>1. CASE req'[c] = req[c] /\ c \in OpenTx
    <3>1. PICK o : o = req[c].order
      OBVIOUS
    <3>2. sched'[o] = sched[o] /\ sched[o] = req[c].expected
      BY <1>2, <2>1, <3>1 DEF NewDates
    <3>. QED
      BY <2>1, <3>1, <3>2
  <2>2. CASE RemoveStop(c) \/ ReadDestination(c)
    <3>1. PICK o, r, d : o = req[c].order /\ r = req[c].prev /\ d = req[c].dest
      OBVIOUS
    <3>2. req'[c].order = o /\ req'[c].expected = req[c].expected
      <4>1. CASE RemoveStop(c)
        BY <1>0, <3>1, <4>1, Removal
      <4>2. CASE ReadDestination(c)
        BY <1>0, <3>1, <4>2, Reading
      <4>. QED
        BY <2>2, <4>1, <4>2
    <3>3. sched' = sched
      BY <2>2 DEF RemoveStop, ReadDestination, orderVars
    <3>4. DateUnchanged(req[c]) \/ c \in OpenTx
      BY <2>2 DEF RemoveStop, ReadDestination, OpenTx
    <3>5. sched[o] = req[c].expected
      BY <3>1, <3>4 DEF DateUnchanged, NewDates
    <3>. QED
      BY <3>2, <3>3, <3>5
  <2>. QED
    BY <1>3, <2>1, <2>2, OpenedOrKept
<1>. QED
  BY <1>1, <1>3 DEF NewDates, OpenTx

\* The accepted orders start with no transaction open.
LEMMA MoveInit == Init => MoveInv
<1>. SUFFICES ASSUME Init
              PROVE  MoveInv
  OBVIOUS
<1>1. \A c \in Clients : req[c].op = "idle"
  BY DEF Init, Idle
<1>. QED
  BY <1>1, BoardInit DEF MoveInv, OneHolder, OwnReading, FreshReading, NewDates,
     OpenTx, LockedTx

\* MoveInv is inductive.
LEMMA MoveStep == MoveInv /\ [Next]_vars => MoveInv'
  BY BoardStep, OneHolderStep, OwnReadingStep, FreshReadingStep, NewDatesStep
     DEF MoveInv

\* MoveInv is an invariant.
LEMMA MoveInvariant == Spec => []MoveInv
  BY MoveInit, MoveStep, PTL DEF Spec

-----------------------------------------------------------------------------
(* The run a reschedule leaves *)

\* A run left for another, or for none, is 1..n in the order it had, unless it has
\* changed since it was read.
LEMMA LeftRunCloses ==
  ASSUME BoardInv, FreshReading, NEW c \in Clients, CommitReschedule(c),
         NEW o, o = req[c].order, NEW r \in Run, r = req[c].prev, r # req[c].dest,
         req[c].ver = version[r]
  PROVE  DenseAfter(r) /\ OrderKept(Stops(r) \ {o})
<1>. DEFINE S == Stops(r) \ {o}
            leaving == req[c].leaving
<1>0. o \in Orders /\ onRun[o] = r /\ r # NoRun
      /\ onRun' = [onRun EXCEPT ![o] = req[c].dest]
  <2>1. PICK d : d = req[c].dest
    OBVIOUS
  <2>. QED
    BY <2>1, RescheduleMoves, DeliveryRunsAssumption DEF DeliveryRunsAssumption
<1>1. S \in SUBSET Orders /\ o \notin S /\ \A x \in S : onRun[x] = r
  BY DEF Stops
<1>2. {x \in Orders : onRun'[x] = r} = S
  BY <1>0 DEF BoardInv, TypeOK, Stops
<1>3. /\ Lists(leaving, S)
      /\ \A a, b \in S : SortsBefore(seq[a], seq[b]) => leaving[a] < leaving[b]
  <2>1. c \in OpenTx /\ S = Stops(req[c].prev) \ {req[c].order}
    BY DEF OpenTx, CommitReschedule
  <2>. HIDE DEF S
  <2>. QED
    BY <1>0, <1>1, <2>1 DEF FreshReading
<1>. HIDE DEF S
<1>4. ASSUME NEW x \in S
      PROVE  seq'[x] = leaving[x]
  <2>1. x \in Orders /\ x # o /\ x \notin ReadOn(req[c].dest, req[c].behind)
    BY <1>1 DEF ReadOn
  <2>2. x \in ReadOn(r, leaving)
    BY <1>0, <1>1, <1>3 DEF ReadOn, Lists
  <2>3. seq'[x] = Renumbered(req[c])[x]
    BY <2>1 DEF CommitReschedule
  <2>. QED
    BY <2>1, <2>2, <2>3 DEF Renumbered
<1>5. {seq'[x] : x \in S} = {leaving[x] : x \in S}
  BY <1>4
<1>6. DenseAfter(r)
  BY <1>2, <1>3, <1>5 DEF DenseAfter, Lists
<1>7. OrderKept(S)
  BY <1>3, <1>4 DEF OrderKept
<1>. QED
  BY <1>6, <1>7 DEF S

\* The same when the order comes back to it.
LEMMA OwnRunCloses ==
  ASSUME BoardInv, OwnReading, FreshReading, NEW c \in Clients, CommitReschedule(c),
         NEW o, o = req[c].order, NEW r \in Run, r = req[c].prev, r = req[c].dest,
         req[c].ver = version[r]
  PROVE  DenseAfter(r) /\ OrderKept(Stops(r) \ {o})
<1>0. r # NoRun /\ req[c] \in ReschedReq
  BY ReqType, DeliveryRunsAssumption
     DEF DeliveryRunsAssumption, BoardInv, CommitReschedule
<1>1. PICK S \in SUBSET Orders : S = Stops(r) \ {o}
  BY DEF Stops
<1>2. /\ Lists(req[c].leaving, S)
      /\ \A a, b \in S : SortsBefore(seq[a], seq[b])
                           => req[c].leaving[a] < req[c].leaving[b]
  <2>1. c \in OpenTx
    BY DEF OpenTx, CommitReschedule
  <2>. QED
    BY <1>0, <1>1, <2>1 DEF FreshReading
<1>3. /\ DenseAfter(r)
      /\ \A a, b \in S : SortsBefore(NumberNow(req[c], a), NumberNow(req[c], b))
                           => seq'[a] < seq'[b]
  BY <1>1, RescheduleInPlaceNumbers
<1>4. ASSUME NEW a \in S, NEW b \in S, SortsBefore(seq[a], seq[b])
      PROVE  seq'[a] < seq'[b]
  <2>1. req[c].leaving[a] < req[c].leaving[b]
    BY <1>2, <1>4
  <2>2. req[c].leaving[a] # 0 /\ req[c].leaving[b] # 0
    BY <1>2 DEF Lists
  <2>. QED
    BY <1>3, <2>1, <2>2 DEF NumberNow, SortsBefore
<1>. QED
  BY <1>1, <1>3, <1>4 DEF OrderKept

\* A reschedule that takes an order off a run commits in its transaction.
LEMMA RescheduleCommitsByItsTransaction ==
  ASSUME BoardInv, [Next]_vars, NEW c \in Clients, RescheduleCommits(c)
  PROVE  CommitReschedule(c)
<1>1. /\ TypeOK /\ req[c].op = "reschedule" /\ req'[c] = Idle /\ Idle.op = "idle"
      /\ req[c].prev # NoRun
  BY DEF BoardInv, RescheduleCommits, LockedTx, Idle
<1>2. ClientStep(c) /\ req[c] \in ReschedReq
  BY <1>1, OwnSteps, ReqType
<1>3. version' # version
  BY DEF RescheduleCommits
<1>. QED
  BY <1>1, <1>2, <1>3
     DEF ClientStep, CreateRun, StartReorder, StartUpdate, StartUnassign,
         StartAssign, StartReschedule, CommitAssign, CommitUnassign, CommitReorder,
         CommitUpdate, RemoveStop, ReadDestination, CommitNewDate, RollBack, runVars

\* The run a rescheduled order leaves is 1..n in the order it had, unless it
\* changed between the reading of its stops and the lock on its row.
THEOREM LeftRunsCloseUp == Spec => ReschedulesCloseUp
<1>1. MoveInv /\ [Next]_vars
        => \A c \in Clients :
             RescheduleCommits(c) /\ req[c].ver = version[req[c].prev]
             => LET stops == {o \in Orders : onRun'[o] = req[c].prev}
                IN /\ {seq'[o] : o \in stops} = 1..Cardinality(stops)
                   /\ \A a, b \in stops \ {req[c].order} :
                        SortsBefore(seq[a], seq[b]) => seq'[a] < seq'[b]
  <2>. SUFFICES ASSUME MoveInv, [Next]_vars, NEW c \in Clients, RescheduleCommits(c),
                       req[c].ver = version[req[c].prev]
                PROVE  LET stops == {o \in Orders : onRun'[o] = req[c].prev}
                       IN /\ {seq'[o] : o \in stops} = 1..Cardinality(stops)
                          /\ \A a, b \in stops \ {req[c].order} :
                               SortsBefore(seq[a], seq[b]) => seq'[a] < seq'[b]
    OBVIOUS
  <2>0. BoardInv /\ OwnReading /\ FreshReading /\ CommitReschedule(c)
    BY RescheduleCommitsByItsTransaction DEF MoveInv
  <2>1. PICK o, r, d : o = req[c].order /\ r = req[c].prev /\ d = req[c].dest
    OBVIOUS
  <2>2. r \in Run
    BY <2>0, <2>1, RescheduleMoves DEF RescheduleCommits
  <2>3. DenseAfter(r) /\ OrderKept(Stops(r) \ {o})
    BY <2>0, <2>1, <2>2, LeftRunCloses, OwnRunCloses
  <2>4. /\ o \in Orders /\ onRun[o] = r /\ onRun' = [onRun EXCEPT ![o] = d]
    BY <2>0, <2>1, RescheduleMoves
  <2>5. {x \in Orders : onRun'[x] = r} \ {o} \subseteq Stops(r) \ {o}
    BY <2>0, <2>4 DEF BoardInv, TypeOK, Stops
  <2>6. {seq'[x] : x \in {y \in Orders : onRun'[y] = r}}
          = 1..Cardinality({y \in Orders : onRun'[y] = r})
    BY <2>3 DEF DenseAfter
  <2>7. \A a, b \in {x \in Orders : onRun'[x] = r} \ {o} :
          SortsBefore(seq[a], seq[b]) => seq'[a] < seq'[b]
    BY <2>3, <2>5 DEF OrderKept
  <2>. QED
    BY <2>1, <2>6, <2>7
<1>. QED
  BY MoveInvariant, <1>1, PTL DEF Spec, ReschedulesCloseUp

-----------------------------------------------------------------------------
(* The board's changes, one at a time *)

\* What was said of the numbers above, the abstract board says in its own words.
LEMMA SameNumbers ==
  ASSUME TypeOK', NEW r \in Run
  PROVE  /\ DenseAfter(r) => Board!Dense(r)
         /\ \A S : OrderKept(S) => Board!KeepsOrder(S)
         /\ \A S : OnlyIn(S) => Board!RenumbersOnly(S)
         /\ \A x : Board!Stops(x) = Stops(x)
<1>1. DenseAfter(r) => Board!Dense(r)
  <2>1. {x \in Orders : onRun'[x] = r} = Board!Stops(r)'
    BY DEF Board!Stops
  <2>2. \A S : Board!Cardinality(S) = Cardinality(S)
    BY DEF Cardinality, Board!Cardinality
  <2>. QED
    BY <2>1, <2>2 DEF DenseAfter, Board!Dense
<1>2. \A S : OrderKept(S) => Board!KeepsOrder(S)
  BY DEF OrderKept, SortsBefore, Board!KeepsOrder
<1>3. \A S : OnlyIn(S) => Board!RenumbersOnly(S)
  BY DEF TypeOK, OnlyIn, Board!RenumbersOnly
<1>4. \A x : Board!Stops(x) = Stops(x)
  BY DEF Board!Stops, Stops
<1>. QED
  BY <1>1, <1>2, <1>3, <1>4

\* An edit commits as that edit of the abstract board.
LEMMA EditImplements ==
  ASSUME BoardInv, TypeOK', NEW c \in Clients,
         CommitAssign(c) \/ CommitUnassign(c) \/ CommitReorder(c) \/ CommitUpdate(c),
         NEW o, o = req[c].order, NEW r, r = req[c].run
  PROVE  \/ Board!Assign(o, r) /\ o \in Orders
         \/ Board!Unassign(o, r) /\ o \in Orders
         \/ Board!Reorder(r) \/ Board!Lock(r) \/ Board!Reopen(r)
         \/ UNCHANGED Board!board
<1>0. r \in Run
  BY ReqType DEF BoardInv, TypeOK, CommitAssign, CommitUnassign, CommitReorder,
     CommitUpdate, EditOps, EditReq
<1>1. CASE CommitAssign(c)
  <2>1. /\ o \in Orders
        /\ DenseAfter(r) /\ OrderKept(Stops(r) \ {o}) /\ OnlyIn(Stops(r) \cup {o})
    BY <1>1, AssignNumbers DEF BoardInv
  <2>2. /\ status[r] = "OPEN" /\ UNCHANGED <<status, sched>>
        /\ onRun' = [onRun EXCEPT ![o] = r]
    BY <1>1 DEF CommitAssign, Cas, ExpectedStatus, orderVars
  <2>3. /\ Board!Dense(r) /\ Board!KeepsOrder(Board!Stops(r) \ {o})
        /\ Board!RenumbersOnly(Board!Stops(r) \cup {o})
    BY <1>0, <2>1, SameNumbers
  <2>. QED
    BY <2>1, <2>2, <2>3 DEF Board!Assign
<1>2. CASE CommitUnassign(c)
  <2>1. /\ o \in Orders /\ seq'[o] = 0
        /\ DenseAfter(r) /\ OrderKept(Stops(r) \ {o}) /\ OnlyIn(Stops(r))
    BY <1>2, UnassignNumbers DEF BoardInv
  <2>2. /\ status[r] = "OPEN" /\ UNCHANGED <<status, sched>> /\ onRun[o] = r
        /\ onRun' = [onRun EXCEPT ![o] = NoRun]
    BY <1>2 DEF CommitUnassign, Cas, ExpectedStatus, orderVars
  <2>3. /\ Board!Dense(r) /\ Board!KeepsOrder(Board!Stops(r) \ {o})
        /\ Board!RenumbersOnly(Board!Stops(r))
    BY <1>0, <2>1, SameNumbers
  <2>. QED
    BY <2>1, <2>2, <2>3 DEF Board!Unassign
<1>3. CASE CommitReorder(c)
  <2>1. DenseAfter(r) /\ OnlyIn(Stops(r))
    BY <1>3, ReorderNumbers
  <2>2. status[r] = "OPEN" /\ UNCHANGED <<status, onRun, sched>>
    BY <1>3 DEF CommitReorder, Cas, ExpectedStatus, orderVars
  <2>3. Board!Dense(r) /\ Board!RenumbersOnly(Board!Stops(r))
    BY <1>0, <2>1, SameNumbers
  <2>. QED
    BY <2>2, <2>3 DEF Board!Reorder
<1>4. CASE CommitUpdate(c)
  <2>1. /\ status[r] = ExpectedStatus(req[c].op) /\ UNCHANGED <<onRun, seq, sched>>
        /\ req[c].op \in {"ready", "reopen", "driver"}
        /\ status' = [status EXCEPT ![r] = IF req[c].op = "ready" THEN "READY" ELSE "OPEN"]
    BY <1>4 DEF CommitUpdate, Cas, stopVars, orderVars
  <2>2. CASE req[c].op = "ready"
    BY <2>1, <2>2 DEF ExpectedStatus, Board!Lock
  <2>3. CASE req[c].op = "reopen"
    BY <2>1, <2>3 DEF ExpectedStatus, Board!Reopen
  <2>4. CASE req[c].op = "driver"
    BY <2>1, <2>4 DEF ExpectedStatus, Board!board, BoardInv, TypeOK
  <2>. QED
    BY <2>1, <2>2, <2>3, <2>4
<1>. QED
  BY <1>1, <1>2, <1>3, <1>4

\* A reschedule commits as that reschedule of the abstract board.
LEMMA RescheduleImplements ==
  ASSUME MoveInv, TypeOK', NEW c \in Clients, CommitReschedule(c),
         NEW o, o = req[c].order, NEW d, d = req[c].date,
         NEW r, r = req[c].prev, NEW dest, dest = req[c].dest
  PROVE  /\ o \in Orders /\ d \in Dates
         /\ r \in Run \cup {NoRun} /\ dest \in Run \cup {NoRun}
         /\ Board!Reschedule(o, d, r, dest)
<1>1. /\ o \in Orders /\ r \in Run \cup {NoRun} /\ dest \in Run \cup {NoRun}
      /\ onRun[o] = r /\ onRun' = [onRun EXCEPT ![o] = dest]
  BY RescheduleMoves DEF MoveInv
<1>2. /\ dest = NoRun => seq'[o] = 0
      /\ OnlyIn({o} \cup UNION {Stops(x) : x \in Run \cap {r, dest}})
  BY RescheduleNumbers DEF MoveInv
<1>3. ASSUME r \in Run, dest = r
      PROVE  Board!Dense(r)
  <2>1. PICK S : S = Stops(r) \ {o}
    OBVIOUS
  <2>2. DenseAfter(r)
    BY <1>3, <2>1, RescheduleInPlaceNumbers DEF MoveInv
  <2>. QED
    BY <1>3, <2>2, SameNumbers
<1>4. /\ status' = status /\ seq' \in [Orders -> Nat]
      /\ sched' = [sched EXCEPT ![o] = d]
  BY DEF CommitReschedule, TypeOK
<1>5. d \in Dates /\ d # sched[o]
  <2>1. req[c] \in ReschedReq /\ c \in OpenTx
    BY ReqType DEF MoveInv, BoardInv, CommitReschedule, OpenTx
  <2>. QED
    BY <2>1 DEF MoveInv, NewDates, ReschedReq, CommitReschedule
<1>6. Board!RenumbersOnly({o} \cup UNION {Board!Stops(x) : x \in Run \cap {r, dest}})
  BY <1>2, <1>4 DEF OnlyIn, Stops, Board!RenumbersOnly, Board!Stops
<1>. QED
  BY <1>1, <1>2, <1>3, <1>4, <1>5, <1>6 DEF Board!Reschedule

\* The worker's transaction is an allocation; it may also create a run, and sets
\* the date of an order.
LEMMA WorkerImplements ==
  ASSUME TypeOK, TypeOK', JobsPlanned, NEW w \in Workers, WorkerStep(w)
  PROVE  \/ \E o \in Orders, r \in Run : Board!Allocate(o, r)
         \/ \E r \in Run : Board!Create(r)
         \/ \E o \in Orders, d \in Dates : Board!SetDate(o, d)
         \/ UNCHANGED Board!board
<1>1. CASE InsertAllocation(w)
  <2>1. PICK o, r : o = job[w].order /\ r = job[w].run
    OBVIOUS
  <2>2. /\ onRun[o] = NoRun /\ onRun' = [onRun EXCEPT ![o] = r]
        /\ seq' = [seq EXCEPT ![o] = DropPosition[o]] /\ UNCHANGED <<status, sched>>
    BY <1>1, <2>1 DEF InsertAllocation, Unplaced, orderVars
  <2>3. o \in Orders /\ r \in Run
    <3>1. job[w] \in Job
      BY <1>1 DEF InsertAllocation, TypeOK, NoJob
    <3>. QED
      BY <1>1, <2>1, <3>1 DEF InsertAllocation, JobsPlanned, Job
  <2>4. seq' \in [Orders -> Nat] /\ \A x \in Orders \ {o} : seq'[x] = seq[x]
    BY <2>2 DEF TypeOK
  <2>5. Board!Allocate(o, r)
    BY <2>2, <2>4 DEF Board!Allocate, Board!RenumbersOnly
  <2>. QED
    BY <2>3, <2>5
<1>2. CASE ResolveRun(w)
  <2>1. UNCHANGED <<onRun, seq, sched>>
    BY <1>2 DEF ResolveRun, stopVars, orderVars
  <2>2. CASE UNCHANGED status
    BY <2>1, <2>2 DEF Board!board
  <2>3. CASE status' # status
    <3>1. PICK r : r = <<RouteOf[job[w].order], job[w].date>>
      OBVIOUS
    <3>2. status[r] = "none" /\ status' = [status EXCEPT ![r] = "OPEN"]
      BY <1>2, <2>3, <3>1 DEF ResolveRun, FoundOrCreated
    <3>3. r \in Run
      BY <2>3, <3>2 DEF TypeOK
    <3>. QED
      BY <2>1, <3>2, <3>3 DEF Board!Create
  <2>. QED
    BY <2>2, <2>3
<1>3. CASE SetScheduledDate(w)
  <2>1. PICK o, d : o = job[w].order /\ d = job[w].date
    OBVIOUS
  <2>2. o \in Orders /\ d \in Dates
    <3>1. job[w] \in Job
      BY <1>3 DEF SetScheduledDate, TypeOK, NoJob
    <3>. QED
      BY <1>3, <2>1, <3>1 DEF SetScheduledDate, JobsPlanned, Job
  <2>3. Board!SetDate(o, d)
    BY <1>3, <2>1 DEF SetScheduledDate, Board!SetDate, runVars, stopVars
  <2>. QED
    BY <2>2, <2>3
<1>4. CASE ~InsertAllocation(w) /\ ~ResolveRun(w) /\ ~SetScheduledDate(w)
  BY <1>4 DEF WorkerStep, TakeJob, CompleteJob, FailJob, StallJob,
     runVars, stopVars, orderVars, Board!board
<1>. QED
  BY <1>1, <1>2, <1>3, <1>4

\* The steps before a transaction create a run or nothing that the board shows.
LEMMA StartImplements ==
  ASSUME TypeOK, NEW c \in Clients, ClientStep(c),
         ~(\/ CommitAssign(c) \/ CommitUnassign(c) \/ CommitReorder(c)
           \/ CommitUpdate(c) \/ CommitReschedule(c) \/ CommitNewDate(c))
  PROVE  (\E r \in Run : Board!Create(r)) \/ UNCHANGED Board!board
<1>1. ASSUME NEW r \in Run, CreateRun(c, r)
      PROVE  Board!Create(r)
  BY <1>1 DEF CreateRun, stopVars, orderVars, Board!Create
<1>2. ASSUME NEW o \in Orders, NEW d \in Dates, StartReschedule(c, o, d)
      PROVE  (\E r \in Run : Board!Create(r)) \/ UNCHANGED Board!board
  <2>1. PICK dest : dest = IF RouteOf[o] = NoRoute THEN NoRun ELSE <<RouteOf[o], d>>
    OBVIOUS
  <2>2. /\ UNCHANGED <<onRun, seq, sched>>
        /\ status' = IF dest = NoRun THEN status ELSE FoundOrCreated(dest)
    BY <1>2, <2>1 DEF StartReschedule, stopVars, orderVars
  <2>3. dest # NoRun => dest \in Run
    BY <2>1, DeliveryRunsAssumption DEF DeliveryRunsAssumption, Run
  <2>4. CASE dest # NoRun /\ status[dest] = "none"
    BY <2>2, <2>3, <2>4 DEF FoundOrCreated, Board!Create
  <2>5. CASE ~(dest # NoRun /\ status[dest] = "none")
    BY <2>2, <2>5 DEF FoundOrCreated, Board!board
  <2>. QED
    BY <2>4, <2>5
<1>3. ASSUME ~\E r \in Run : CreateRun(c, r),
             ~\E o \in Orders, d \in Dates : StartReschedule(c, o, d)
      PROVE  UNCHANGED <<runVars, stopVars, orderVars>>
  BY <1>3 DEF ClientStep, StartReorder, StartUpdate, StartUnassign, StartAssign,
     RemoveStop, ReadDestination, RollBack
<1>. QED
  BY <1>1, <1>2, <1>3 DEF runVars, stopVars, orderVars, Board!board

\* A reschedule that places no order is a date set.
LEMMA NewDateImplements ==
  ASSUME TypeOK, NEW c \in Clients, CommitNewDate(c)
  PROVE  \E o \in Orders, d \in Dates : Board!SetDate(o, d)
<1>1. req[c] \in ReschedReq
  BY ReqType DEF CommitNewDate
<1>2. PICK o, d : o = req[c].order /\ d = req[c].date
  OBVIOUS
<1>3. o \in Orders /\ d \in Dates
  BY <1>1, <1>2 DEF ReschedReq
<1>4. Board!SetDate(o, d)
  BY <1>2 DEF CommitNewDate, Board!SetDate, runVars, stopVars
<1>. QED
  BY <1>3, <1>4

\* Every step of a request, a worker or the world is one change or none.
LEMMA BoardSteps == MoveInv /\ [Next]_vars => [Board!Next]_(Board!board)
<1>. SUFFICES ASSUME MoveInv, [Next]_vars
              PROVE  Board!Next \/ UNCHANGED Board!board
  OBVIOUS
<1>0. BoardInv /\ TypeOK /\ TypeOK' /\ JobsPlanned
  BY TypeStep DEF MoveInv, BoardInv
<1>1. ASSUME NEW c \in Clients, ClientStep(c)
      PROVE  Board!Next \/ UNCHANGED Board!board
  <2>1. CASE CommitAssign(c) \/ CommitUnassign(c) \/ CommitReorder(c) \/ CommitUpdate(c)
    <3>1. PICK o, r : o = req[c].order /\ r = req[c].run
      OBVIOUS
    <3>2. r \in Run
      BY <1>0, <2>1, <3>1, ReqType
         DEF CommitAssign, CommitUnassign, CommitReorder, CommitUpdate, EditOps, EditReq
    <3>3. \/ Board!Assign(o, r) /\ o \in Orders
          \/ Board!Unassign(o, r) /\ o \in Orders
          \/ Board!Reorder(r) \/ Board!Lock(r) \/ Board!Reopen(r)
          \/ UNCHANGED Board!board
      BY <1>0, <2>1, <3>1, EditImplements
    <3>. QED
      BY <3>2, <3>3 DEF Board!Next
  <2>2. CASE CommitReschedule(c)
    <3>1. PICK o, d, r, dest : /\ o = req[c].order /\ d = req[c].date
                               /\ r = req[c].prev /\ dest = req[c].dest
      OBVIOUS
    <3>2. /\ o \in Orders /\ d \in Dates
          /\ r \in Run \cup {NoRun} /\ dest \in Run \cup {NoRun}
          /\ Board!Reschedule(o, d, r, dest)
      BY <1>0, <2>2, <3>1, RescheduleImplements
    <3>. QED
      BY <3>2 DEF Board!Next
  <2>3. CASE CommitNewDate(c)
    BY <1>0, <2>3, NewDateImplements DEF Board!Next
  <2>4. CASE ~(\/ CommitAssign(c) \/ CommitUnassign(c) \/ CommitReorder(c)
               \/ CommitUpdate(c) \/ CommitReschedule(c) \/ CommitNewDate(c))
    BY <1>0, <1>1, <2>4, StartImplements DEF Board!Next
  <2>. QED
    BY <2>1, <2>2, <2>3, <2>4
<1>2. ASSUME NEW w \in Workers, WorkerStep(w)
      PROVE  Board!Next \/ UNCHANGED Board!board
  BY <1>0, <1>2, WorkerImplements DEF Board!Next
<1>3. CASE UNCHANGED vars \/ \E o \in Orders : LeaveAccepted(o)
  BY <1>3 DEF vars, LeaveAccepted, runVars, stopVars, Board!board
<1>. QED
  BY <1>1, <1>2, <1>3 DEF Next, Quiescent

\* Requests with their versions, reschedules with their three-step transactions and
\* jobs delivered any number of times come to one change of the board at a time.
THEOREM BoardChangesOneAtATime == Spec => ChangesOneAtATime
<1>1. Init => Board!Init
  BY DEF Init, Board!Init
<1>. QED
  BY MoveInvariant, BoardSteps, <1>1, PTL DEF Spec, ChangesOneAtATime, Board!Safety

=============================================================================
