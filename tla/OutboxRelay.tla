---------------------------- MODULE OutboxRelay ----------------------------
(***************************************************************************)
(* The transactional outbox and the relay that fans its events out to the  *)
(* job queues.                                                             *)
(*                                                                         *)
(* apps/api/src/outbox/*.ts, apps/api/src/queues/queue.constants.ts        *)
(*                                                                         *)
(* One worker process runs the relay (one replica, replaced by Recreate).  *)
(* A pass reads the oldest eligible rows once and handles them one by one. *)
(* Each call to Redis or Postgres is a step, which may fail before or      *)
(* after it took effect (a lost reply), and the process may die between    *)
(* any two.                                                                *)
(*                                                                         *)
(* Abstractions.  Events are numbered by createdAt.  Rows become visible   *)
(* in any order, as transactions commit.  A queue keeps the jobs it has    *)
(* been given, whatever has become of them: it forgets a completed one     *)
(* only after 1000 later completions, and the rows a relay can publish     *)
(* between two attempts at an event are at most 99 a pass.                 *)
(***************************************************************************)
EXTENDS Naturals, FiniteSets, Sequences

CONSTANTS
  NumEvents,         \* bound: outbox rows
  Queues,            \* BullMQ queues
  Routes,            \* EVENT_ROUTES of each event's type
  BatchSize,         \* rows a pass takes (100)
  MaxPublishRetries, \* failed passes an event survives (5)
  MaxFaults,         \* bound: failed calls and crashes
  NoEvent

Events == 1..NumEvents

Distinct(s) == \A i, j \in DOMAIN s : s[i] = s[j] => i = j

ASSUME OutboxRelayAssumption ==
  /\ NumEvents \in Nat /\ MaxFaults \in Nat
  /\ BatchSize \in Nat \ {0} /\ MaxPublishRetries \in Nat \ {0}
  /\ NoEvent \notin Events
  /\ Routes \in [Events -> Seq(Queues)]
  /\ \A e \in Events : Distinct(Routes[e])

VARIABLES
  status,  \* status[e]: "absent" until the row is committed, then its status
  retries, \* retries[e]: retryCount
  jobs,    \* jobs[e][q]: jobs queue q has been given for event e
  batch,   \* the rows the running pass has not handled, {} between passes
  current, \* the row it is handling, or NoEvent
  added,   \* how many of the current event's routes have been added
  caught,  \* the pass is in the catch clause for the current event
  faults   \* faults so far

rowVars  == <<status, retries>>
passVars == <<batch, current, added, caught>>
vars == <<status, retries, jobs, batch, current, added, caught, faults>>

Statuses == {"absent", "PENDING", "PUBLISHED", "FAILED"}

TypeOK ==
  /\ status \in [Events -> Statuses]
  /\ retries \in [Events -> Nat]
  /\ jobs \in [Events -> [Queues -> Nat]]
  /\ batch \in SUBSET {e \in Events : status[e] # "absent"}
  /\ current \in {e \in Events : status[e] # "absent"} \cup {NoEvent}
  /\ added \in 0..(IF current = NoEvent THEN 0 ELSE Len(Routes[current]))
  /\ caught \in BOOLEAN /\ (caught => current # NoEvent)
  /\ faults \in 0..MaxFaults

Init ==
  /\ status = [e \in Events |-> "absent"]
  /\ retries = [e \in Events |-> 0]
  /\ jobs = [e \in Events |-> [q \in Queues |-> 0]]
  /\ batch = {} /\ current = NoEvent /\ added = 0 /\ caught = FALSE
  /\ faults = 0

-----------------------------------------------------------------------------

\* writeEvent, in the transaction of the change the event tells of.
Write(e) ==
  /\ status[e] = "absent"
  /\ status' = [status EXCEPT ![e] = "PENDING"]
  /\ UNCHANGED <<retries, jobs, passVars, faults>>

EligibleOnce == {e \in Events : status[e] = "PENDING"} \* mutant: no second pass

\* The rows a pass may read.
Eligible ==
  {e \in Events : \/ status[e] = "PENDING"
                  \/ status[e] = "FAILED" /\ retries[e] < MaxPublishRetries}

\* The n oldest rows of S.
Oldest(S, n) == {e \in S : Cardinality({x \in S : x < e}) < n}

\* tick: a pass starts only when none is running, and reads its rows once.
StartPass ==
  /\ batch = {} /\ current = NoEvent
  /\ batch' = Oldest(Eligible, BatchSize)
  /\ UNCHANGED <<rowVars, jobs, current, added, caught, faults>>

\* The next row of the pass, oldest first.
TakeEvent ==
  /\ current = NoEvent
  /\ \E e \in batch :
       /\ \A x \in batch : e <= x
       /\ current' = e /\ batch' = batch \ {e}
  /\ UNCHANGED <<rowVars, jobs, added, caught, faults>>

\* queue.add under the event's own job id: a queue that has the job ignores it.
Add(e, q) == [jobs EXCEPT ![e][q] = IF @ = 0 THEN 1 ELSE @]

\* The current event has a queue left to be added to.
Adding == current # NoEvent /\ ~caught /\ added < Len(Routes[current])

AddJob ==
  /\ Adding
  /\ jobs' = Add(current, Routes[current][added + 1])
  /\ added' = added + 1
  /\ UNCHANGED <<rowVars, batch, current, caught, faults>>

\* Mutant: the next event goes on from where this one stopped.
ForgetEventOnly == current' = NoEvent /\ UNCHANGED added /\ caught' = FALSE

\* The loop leaves the current event.
Forget == current' = NoEvent /\ added' = 0 /\ caught' = FALSE

\* All routes are added: only now is the row marked.
MarkPublished ==
  /\ current # NoEvent /\ ~caught /\ added = Len(Routes[current])
  /\ status' = [status EXCEPT ![current] = "PUBLISHED"]
  /\ Forget
  /\ UNCHANGED <<retries, jobs, batch, faults>>

\* The catch clause.
MarkFailed ==
  /\ caught
  /\ status' = [status EXCEPT ![current] = "FAILED"]
  /\ retries' = [retries EXCEPT ![current] = @ + 1]
  /\ Forget
  /\ UNCHANGED <<jobs, batch, faults>>

-----------------------------------------------------------------------------
(* Faults *)

Fault == faults < MaxFaults /\ faults' = faults + 1

\* Mutant: a failed add does not keep the event from the queues after it.
AddFailsSilently ==
  /\ Adding /\ Fault
  /\ added' = added + 1
  /\ UNCHANGED <<rowVars, jobs, batch, current, caught>>

\* The add throws; the job may have been created all the same.
AddFails ==
  /\ Adding /\ Fault
  /\ jobs' \in {jobs, Add(current, Routes[current][added + 1])}
  /\ caught' = TRUE
  /\ UNCHANGED <<rowVars, batch, current, added>>

\* The update to PUBLISHED throws, committed or not.
MarkPublishedFails ==
  /\ current # NoEvent /\ ~caught /\ added = Len(Routes[current])
  /\ Fault
  /\ status' \in {status, [status EXCEPT ![current] = "PUBLISHED"]}
  /\ caught' = TRUE
  /\ UNCHANGED <<retries, jobs, batch, current, added>>

\* The update in the catch clause throws, and with it the whole pass.
MarkFailedThrows ==
  /\ caught /\ Fault
  /\ \/ UNCHANGED rowVars
     \/ /\ status' = [status EXCEPT ![current] = "FAILED"]
        /\ retries' = [retries EXCEPT ![current] = @ + 1]
  /\ batch' = {} /\ Forget
  /\ UNCHANGED jobs

\* The worker process dies and is restarted.
Crash ==
  /\ current # NoEvent \/ batch # {}
  /\ Fault
  /\ batch' = {} /\ Forget
  /\ UNCHANGED <<rowVars, jobs>>

-----------------------------------------------------------------------------

\* What the relay does when nothing fails.
Relay == StartPass \/ TakeEvent \/ AddJob \/ MarkPublished \/ MarkFailed

\* All that happens while the process lives.
RelayLives ==
  \/ \E e \in Events : Write(e)
  \/ Relay
  \/ AddFails \/ MarkPublishedFails \/ MarkFailedThrows

Next == RelayLives \/ Crash

\* The timer fires again and again, and calls return or throw.
Spec == Init /\ [][Next]_vars /\ WF_vars(Relay)

-----------------------------------------------------------------------------
(* Properties *)

Targets == [e \in Events |-> {Routes[e][i] : i \in DOMAIN Routes[e]}]

Written == {e \in Events : status[e] # "absent"}

\* A row is PUBLISHED only when every queue it is routed to has been given its
\* job, whichever adds and updates failed or lost their reply before.
PublishedIsQueuedEverywhere ==
  \A e \in Events : status[e] = "PUBLISHED"
    => \A q \in Targets[e] : jobs[e][q] > 0

\* The outbox fans out as promised: each queue gets one job per event routed to
\* it, through partial fan-outs, lost replies, crashes and repeated passes.
FanOut == INSTANCE EventFanOut WITH written <- Written, copies <- jobs
FanOutSafety == FanOut!Safety

\* ... and gets it in the end, while the faults are fewer than an event's passes.
FanOutSpec == FanOut!Spec

=============================================================================
