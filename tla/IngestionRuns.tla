--------------------------- MODULE IngestionRuns ---------------------------
(***************************************************************************)
(* One record type of one accounting connection, pulled into Wholo: the    *)
(* run row, the scheduler and the Sync button that request it, the queue's *)
(* jobs that claim it, and the pull that copies records into the cache.    *)
(*                                                                         *)
(* apps/api/src/ingestion/ingestion-run.service.ts                         *)
(* apps/api/src/accounting/sync, accounting-sync.scheduler.ts              *)
(*                                                                         *)
(* Time passes in windows of PROCESSING_STALE_MS (15 minutes).  The row's  *)
(* heartbeat is updatedAt, which EVERY write to the row sets, the          *)
(* scheduler's included: quiet counts the windows since the last one.  An  *)
(* attempt is silent while it fetches, so it can be taken for dead and     *)
(* overtaken while it lives; overlapped remembers that this happened.      *)
(*                                                                         *)
(* Abstractions.  A record is the instant of its last change, 0 if it does *)
(* not exist (in the cache: is absent or inactive); a fetch is a snapshot; *)
(* the five minutes a cursor goes back become "not earlier than".  The     *)
(* event of a request is its job (see OutboxRelay).  A type with nothing   *)
(* to pull (skipDue) and jobs without a runId (ensureRun) are left out.    *)
(***************************************************************************)
EXTENDS Integers

CONSTANTS
  Records,      \* records of the accounting system
  Jobs,         \* bound: jobs the queue holds at once
  Interval,     \* windows between two slots of the schedule
  MaxAttempts,  \* attempts of a job
  MaxChanges,   \* bound: changes in the accounting system
  MaxFaults     \* bound: failures and crashes

ASSUME IngestionRunsAssumption ==
  /\ Interval \in Nat \ {0}
  /\ MaxAttempts \in Nat \ {0}
  /\ MaxChanges \in Nat /\ MaxFaults \in Nat

VARIABLES
  run,        \* the row: status, trigger, cursor (0 is null), fullDue
  slot,       \* windows until nextRunAt, Unscheduled if it is null
  quiet,      \* windows since updatedAt, at most 2, while PROCESSING (else 0)
  queuedOld,  \* queuedAt is older than QUEUED_STALE_MS, while QUEUED
  job,        \* the queue's jobs, and what the attempt at each has in hand
  provider,   \* the records in the accounting system
  cache,      \* the records in Wholo
  clock,      \* changes made so far
  connected,  \* the connection's status is CONNECTED
  faults,     \* failures and crashes so far
  overlapped  \* history: a run was claimed while an attempt was working on it

vars == <<run, slot, quiet, queuedOld, job, provider, cache, clock, connected, faults, overlapped>>
rowVars == <<run, slot, quiet, queuedOld>>
worldVars == <<provider, clock, connected>>

Unscheduled == -1
Terminal == {"COMPLETED", "FAILED"}
Steps == {"none", "waiting", "pulling", "writing", "sweeping", "finishing"}
Snapshots == [Records -> 0..MaxChanges]

TypeOK ==
  /\ run \in [status : {"none", "QUEUED", "PROCESSING"} \cup Terminal,
              trigger : {"MANUAL", "SCHEDULED"}, cursor : 0..MaxChanges, fullDue : BOOLEAN]
  /\ slot \in Unscheduled..Interval
  /\ quiet \in 0..2 /\ queuedOld \in BOOLEAN
  /\ job \in [Jobs -> [step : Steps, attempt : 1..MaxAttempts, full : BOOLEAN,
                       cursor : 0..MaxChanges, got : Snapshots, left : SUBSET Records]]
  /\ provider \in Snapshots /\ cache \in Snapshots
  /\ clock \in 0..MaxChanges /\ faults \in 0..MaxFaults
  /\ connected \in BOOLEAN /\ overlapped \in BOOLEAN

Nothing == [r \in Records |-> 0]
NoJob == [step |-> "none", attempt |-> 1, full |-> FALSE, cursor |-> 0, got |-> Nothing, left |-> {}]

Init ==
  /\ run = [status |-> "none", trigger |-> "SCHEDULED", cursor |-> 0, fullDue |-> TRUE]
  /\ slot = Unscheduled /\ quiet = 0 /\ queuedOld = FALSE
  /\ job = [j \in Jobs |-> NoJob]
  /\ provider = Nothing /\ cache = Nothing /\ clock = 0
  /\ connected = TRUE /\ faults = 0 /\ overlapped = FALSE

Working == {j \in Jobs : job[j].step \in {"pulling", "writing", "sweeping", "finishing"}}
InFlight == run.status \in {"QUEUED", "PROCESSING"}

-----------------------------------------------------------------------------
\* Requests

\* Older than the window, or just as old: then it is a matter of milliseconds.
Stale(late) == quiet = 2 \/ (quiet = 1 /\ late)

\* mutant: a PROCESSING run is never given up.
ResettableIfEnded(late) ==
  \/ run.status \in {"none"} \cup Terminal
  \/ run.status = "QUEUED" /\ queuedOld

Resettable(late) ==
  \/ run.status \in {"none"} \cup Terminal
  \/ run.status = "PROCESSING" /\ Stale(late)
  \/ run.status = "QUEUED" /\ queuedOld

\* requestRun, with the event its caller writes if a run was queued.
RequestRun(trigger, late) ==
  IF Resettable(late)
  THEN /\ run' = [run EXCEPT !.status = "QUEUED", !.trigger = trigger]
       /\ queuedOld' = FALSE
       /\ \E j \in Jobs : job[j] = NoJob /\ job' = [job EXCEPT ![j].step = "waiting"]
  ELSE /\ run' = IF trigger = "MANUAL" THEN [run EXCEPT !.trigger = "MANUAL"] ELSE run
       /\ UNCHANGED <<queuedOld, job>>

\* A slot has come up, or the type was never pulled: the slot moves on in any case.
EnqueueDue(late) ==
  /\ connected
  /\ slot = 0 \/ run.status = "none"
  /\ RequestRun("SCHEDULED", late)
  /\ slot' = Interval
  /\ quiet' = 0
  /\ UNCHANGED <<worldVars, cache, faults, overlapped>>

\* fillMissingSchedules: the row was created by the button.
Seed ==
  /\ connected
  /\ slot = Unscheduled /\ run.status # "none"
  /\ slot' \in 0..Interval
  /\ quiet' = 0
  /\ UNCHANGED <<run, queuedOld, job, worldVars, cache, faults, overlapped>>

\* The button.  A run in flight is left alone, and its trigger made MANUAL.
RequestSync(late) ==
  /\ connected
  /\ RequestRun("MANUAL", late)
  /\ quiet' = IF run' # run THEN 0 ELSE quiet
  /\ UNCHANGED <<slot, worldVars, cache, faults, overlapped>>

-----------------------------------------------------------------------------
\* Attempts

Becomes(j, next) == job' = [job EXCEPT ![j] = next]
Goes(j, step) == Becomes(j, [job[j] EXCEPT !.step = step])

\* finalizeFailure and requeueForRetry: by id, whatever the run is doing.
WriteStatus(status) ==
  /\ run' = [run EXCEPT !.status = status]
  /\ quiet' = 0 /\ queuedOld' = FALSE

Claimable(late) == run.status = "QUEUED" \/ (run.status = "PROCESSING" /\ Stale(late))

\* mutant: incremental once there is a cursor.
FullOnlyAtFirst == run.trigger = "MANUAL" \/ run.cursor = 0

ShouldRunFull == run.trigger = "MANUAL" \/ run.cursor = 0 \/ run.fullDue

\* Reads the connection and claims the run.  Without a connection the run is
\* failed, without the claim it is left alone: either way the job is done.
Claim(j, late) ==
  /\ job[j].step = "waiting"
  /\ IF ~connected
     THEN Becomes(j, NoJob) /\ WriteStatus("FAILED") /\ UNCHANGED overlapped
     ELSE IF Claimable(late)
     THEN /\ WriteStatus("PROCESSING")
          /\ Becomes(j, [job[j] EXCEPT !.step = "pulling", !.full = ShouldRunFull,
                           !.cursor = IF ShouldRunFull THEN 0 ELSE run.cursor])
          /\ overlapped' = (overlapped \/ Working # {})
     ELSE Becomes(j, NoJob) /\ UNCHANGED <<run, quiet, queuedOld, overlapped>>
  /\ UNCHANGED <<slot, worldVars, cache, faults>>

\* mutant: a full pull sweeps nothing.
ThenUnswept(full, left) == IF left # {} THEN "writing" ELSE "finishing"

\* After the last record: the sweep if the pull is full.
Then(full, left) ==
  IF left # {} THEN "writing" ELSE IF full THEN "sweeping" ELSE "finishing"

\* The fetch, and the total written after it.
Fetch(j) ==
  LET got  == [r \in Records |-> IF provider[r] >= job[j].cursor THEN provider[r] ELSE 0]
      left == {r \in Records : got[r] # 0}
  IN /\ job[j].step = "pulling"
     /\ Becomes(j, [job[j] EXCEPT !.step = Then(job[j].full, left), !.got = got, !.left = left])
     /\ quiet' = 0
     /\ UNCHANGED <<run, slot, queuedOld, worldVars, cache, faults, overlapped>>

Upsert(j, r) ==
  LET left == job[j].left \ {r}
  IN /\ job[j].step = "writing" /\ r \in job[j].left
     /\ cache' = [cache EXCEPT ![r] = job[j].got[r]]
     /\ Becomes(j, [job[j] EXCEPT !.step = Then(job[j].full, left), !.left = left])
     /\ quiet' = 0
     /\ UNCHANGED <<run, slot, queuedOld, worldVars, faults, overlapped>>

\* What a full pull has not seen is gone.
HandleStaleRecords(j) ==
  /\ job[j].step = "sweeping"
  /\ cache' = [r \in Records |-> IF job[j].got[r] = 0 THEN 0 ELSE cache[r]]
  /\ Goes(j, "finishing")
  /\ UNCHANGED <<rowVars, worldVars, faults, overlapped>>

\* mutant: the cursor is the time of the run.
CursorIsNow(j, next) == next = clock

\* The newest change fetched, never before the cursor the pull started from.
NextCursor(j, next) ==
  /\ next \in {job[j].cursor} \cup {job[j].got[r] : r \in Records}
  /\ next >= job[j].cursor /\ \A r \in Records : next >= job[j].got[r]

\* By id: whichever attempt the run is at.
FinalizeSuccess(j) ==
  /\ job[j].step = "finishing"
  /\ \E next \in 0..MaxChanges :
       /\ NextCursor(j, next)
       /\ run' = [run EXCEPT !.status = "COMPLETED", !.cursor = next,
                             !.fullDue = IF job[j].full THEN FALSE ELSE @]
  /\ quiet' = 0 /\ queuedOld' = FALSE
  /\ Becomes(j, NoJob)
  /\ UNCHANGED <<slot, worldVars, cache, faults, overlapped>>

\* mutant: one attempt too many.
AttemptsExceeded(j) == job[j].attempt > MaxAttempts

LastAttempt(j) == job[j].attempt = MaxAttempts

\* handleFailure: for good, or once more.  Its own write may fail as well, and
\* a pull finds no token once the connection is gone: that error is retried.
Fail(j, permanent, written) ==
  /\ j \in Working
  /\ IF ~connected /\ job[j].step = "pulling" /\ ~permanent /\ written
     THEN UNCHANGED faults
     ELSE faults < MaxFaults /\ faults' = faults + 1
  /\ LET over == permanent \/ LastAttempt(j)
     IN /\ IF over THEN Becomes(j, NoJob)
           ELSE Becomes(j, [NoJob EXCEPT !.step = "waiting", !.attempt = job[j].attempt + 1])
        /\ IF written
           THEN /\ WriteStatus(IF over THEN "FAILED" ELSE "QUEUED")
                /\ queuedOld' = IF over THEN queuedOld ELSE FALSE
           ELSE UNCHANGED <<run, quiet, queuedOld>>
  /\ UNCHANGED <<slot, worldVars, cache, overlapped>>

\* The worker dies with every attempt in it.  The queue runs a stalled job
\* again, but not any number of times.
Crash(again) ==
  /\ faults < MaxFaults /\ faults' = faults + 1
  /\ job' = [j \in Jobs |->
               IF job[j].step \in {"none", "waiting"} THEN job[j]
               ELSE IF j \in again THEN [NoJob EXCEPT !.step = "waiting", !.attempt = job[j].attempt]
               ELSE NoJob]
  /\ UNCHANGED <<rowVars, worldVars, cache, overlapped>>

-----------------------------------------------------------------------------
\* Time, and the accounting system

\* Slots are dealt with before another window passes: the scheduler looks every
\* minute.  An attempt past its fetch writes a heartbeat.  Nothing looks at the
\* time once the connection is gone.
PassWindow ==
  /\ connected /\ slot # 0
  /\ slot' = IF slot > 0 THEN slot - 1 ELSE slot
  /\ quiet' = CASE run.status # "PROCESSING" -> quiet
                [] \E j \in Working : job[j].step # "pulling" -> 0
                [] OTHER -> IF quiet < 2 THEN quiet + 1 ELSE 2
  /\ UNCHANGED <<run, queuedOld, job, worldVars, cache, faults, overlapped>>

\* An hour in the queue.
AgeQueued ==
  /\ connected
  /\ run.status = "QUEUED" /\ ~queuedOld
  /\ queuedOld' = TRUE
  /\ UNCHANGED <<run, slot, quiet, job, worldVars, cache, faults, overlapped>>

\* A day since the last full pull (without a cursor every pull is full).
PassDay ==
  /\ connected /\ ~run.fullDue /\ run.cursor # 0
  /\ run' = [run EXCEPT !.fullDue = TRUE]
  /\ UNCHANGED <<slot, quiet, queuedOld, job, worldVars, cache, faults, overlapped>>

Change(r) ==
  /\ clock < MaxChanges /\ clock' = clock + 1
  /\ provider' = [provider EXCEPT ![r] = clock']
  /\ UNCHANGED <<rowVars, job, connected, cache, faults, overlapped>>

Delete(r) ==
  /\ provider[r] # 0
  /\ clock < MaxChanges /\ clock' = clock + 1
  /\ provider' = [provider EXCEPT ![r] = 0]
  /\ UNCHANGED <<rowVars, job, connected, cache, faults, overlapped>>

Disconnect ==
  /\ connected
  /\ connected' = FALSE
  /\ UNCHANGED <<rowVars, job, provider, clock, cache, faults, overlapped>>

Disconnected == ~connected /\ UNCHANGED vars

-----------------------------------------------------------------------------

Step(j) ==
  \/ \E late \in BOOLEAN : Claim(j, late)
  \/ Fetch(j)
  \/ \E r \in Records : Upsert(j, r)
  \/ HandleStaleRecords(j)
  \/ FinalizeSuccess(j)

Tick == Seed \/ \E late \in BOOLEAN : EnqueueDue(late)

Next ==
  \/ Tick
  \/ \E late \in BOOLEAN : RequestSync(late)
  \/ \E j \in Jobs : Step(j) \/ \E permanent, written \in BOOLEAN : Fail(j, permanent, written)
  \/ \E again \in SUBSET Jobs : Crash(again)
  \/ PassWindow \/ AgeQueued \/ PassDay
  \/ \E r \in Records : Change(r) \/ Delete(r)
  \/ Disconnect \/ Disconnected

\* The queue runs its jobs, the scheduler its ticks, and time passes.
Fairness ==
  /\ \A j \in Jobs : WF_vars(Step(j))
  /\ WF_vars(Tick)
  /\ WF_vars(PassWindow) /\ WF_vars(AgeQueued) /\ WF_vars(PassDay)

Spec == Init /\ [][Next]_vars /\ Fairness

-----------------------------------------------------------------------------

\* The promise of the cursor: unless an attempt was overtaken while it lived,
\* a change not later than the cursor is in the cache, so that no pull from
\* the cursor on can miss one (accounting-pull-processor.base.ts, process).
CursorPromise ==
  overlapped \/ \A r \in Records : provider[r] \in 1..run.cursor => cache[r] = provider[r]

\* A full pull about to be recorded as the last full one has made the cache
\* what it fetched, deletions included (accounting-sync-processor.base.ts, pull).
FullPullIsTheCache ==
  overlapped \/ \A j \in Jobs : job[j].step = "finishing" /\ job[j].full => cache = job[j].got

\* A run in flight ends, whoever died on it: the attempt, its job, or the
\* write that should have said so (requestRun and claim, the stale windows).
RunsEnd == InFlight ~> (~InFlight \/ ~connected)

\* Whatever was missed, overtaken or undone in between, the cache settles on
\* what the accounting system holds (the daily full pull).
Converges == <>[](~connected \/ cache = provider)

=============================================================================
