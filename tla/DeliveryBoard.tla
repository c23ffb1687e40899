--------------------------- MODULE DeliveryBoard ---------------------------
(***************************************************************************)
(* What the delivery board comes to once versions, transactions, locks,    *)
(* jobs and views are taken away: runs with their stops in order, and the  *)
(* dates of the orders, changed by one person or one allocation at a time, *)
(* every change made to the board as it is. (docs/adrs/ADR-057)            *)
(*                                                                         *)
(* Of two steps less is promised.  A reschedule numbers the run an order   *)
(* leaves and the run it comes to from readings that may be out of date,   *)
(* and neither it nor the allocation heeds a run's lock.                   *)
(***************************************************************************)
EXTENDS Naturals, FiniteSets

CONSTANTS Orders, Runs, Dates, NoRun, NoDate

VARIABLES
  status, \* status[r]: "none" until the run exists, then OPEN or READY
  onRun,  \* onRun[o]: the run the order is a stop of, or NoRun
  seq,    \* seq[o]: its number there, 0 for none
  sched   \* sched[o]: the date it is scheduled for, or NoDate

board == <<status, onRun, seq, sched>>

Stops(r) == {o \in Orders : onRun[o] = r}

Init ==
  /\ status = [r \in Runs |-> "none"]
  /\ onRun = [o \in Orders |-> NoRun]
  /\ seq = [o \in Orders |-> 0]
  /\ sched = [o \in Orders |-> NoDate]

\* After the step the stops of r are numbered 1..n.
Dense(r) == {seq'[o] : o \in Stops(r)'} = 1..Cardinality(Stops(r)')

\* Stops of S that were in some order are in that order still; one without a
\* number comes after those that have one.
KeepsOrder(S) ==
  \A a, b \in S : seq[a] # 0 /\ (seq[b] = 0 \/ seq[a] < seq[b]) => seq'[a] < seq'[b]

RenumbersOnly(S) ==
  /\ seq' \in [Orders -> Nat]
  /\ \A o \in Orders \ S : seq'[o] = seq[o]

Create(r) ==
  /\ status[r] = "none"
  /\ status' = [status EXCEPT ![r] = "OPEN"]
  /\ UNCHANGED <<onRun, seq, sched>>

Lock(r) ==
  /\ status[r] = "OPEN"
  /\ status' = [status EXCEPT ![r] = "READY"]
  /\ UNCHANGED <<onRun, seq, sched>>

Reopen(r) ==
  /\ status[r] = "READY"
  /\ status' = [status EXCEPT ![r] = "OPEN"]
  /\ UNCHANGED <<onRun, seq, sched>>

\* Onto a run, from another or none, between two of its stops or at an end.
Assign(o, r) ==
  /\ status[r] = "OPEN"
  /\ onRun' = [onRun EXCEPT ![o] = r]
  /\ Dense(r) /\ KeepsOrder(Stops(r) \ {o}) /\ RenumbersOnly(Stops(r) \cup {o})
  /\ UNCHANGED <<status, sched>>

Unassign(o, r) ==
  /\ status[r] = "OPEN" /\ onRun[o] = r
  /\ onRun' = [onRun EXCEPT ![o] = NoRun]
  /\ Dense(r) /\ KeepsOrder(Stops(r) \ {o}) /\ RenumbersOnly(Stops(r))
  /\ seq'[o] = 0
  /\ UNCHANGED <<status, sched>>

Reorder(r) ==
  /\ status[r] = "OPEN"
  /\ Dense(r) /\ RenumbersOnly(Stops(r))
  /\ UNCHANGED <<status, onRun, sched>>

\* The order gets another date, and goes from the run it is on, if any, to another,
\* to none, or to the end of its own.
Reschedule(o, d, r, dest) ==
  /\ d # sched[o]
  /\ sched' = [sched EXCEPT ![o] = d]
  /\ onRun[o] = r
  /\ onRun' = [onRun EXCEPT ![o] = dest]
  /\ RenumbersOnly({o} \cup UNION {Stops(x) : x \in Runs \cap {r, dest}})
  /\ r \in Runs /\ dest = r => Dense(r)
  /\ dest = NoRun => seq'[o] = 0
  /\ UNCHANGED status

\* A date is set and the board left alone.
SetDate(o, d) ==
  /\ sched' = [sched EXCEPT ![o] = d]
  /\ UNCHANGED <<status, onRun, seq>>

\* By the worker, of an order that is on no run; nobody else's number changes.
Allocate(o, r) ==
  /\ onRun[o] = NoRun
  /\ onRun' = [onRun EXCEPT ![o] = r]
  /\ RenumbersOnly({o})
  /\ UNCHANGED <<status, sched>>

Next ==
  \/ \E r \in Runs : Create(r) \/ Lock(r) \/ Reopen(r) \/ Reorder(r)
  \/ \E o \in Orders, r \in Runs : Assign(o, r) \/ Unassign(o, r) \/ Allocate(o, r)
  \/ \E o \in Orders, d \in Dates :
       \/ SetDate(o, d)
       \/ \E r, dest \in Runs \cup {NoRun} : Reschedule(o, d, r, dest)

Safety == Init /\ [][Next]_board

=============================================================================
