------------------------ MODULE IngestionRunsProofs ------------------------
(***************************************************************************)
(* The proofs of the safety properties of IngestionRuns, for any records,  *)
(* jobs and bounds.                                                        *)
(***************************************************************************)
EXTENDS IngestionRuns, TLAPS

Fetched(j) == job[j].step \in {"writing", "sweeping", "finishing"}

\* Every version in sight was made at an instant that has passed.
Bounded ==
  /\ run.cursor <= clock
  /\ \A r \in Records : provider[r] <= clock
  /\ \A j \in Jobs : job[j].cursor <= clock /\ \A r \in Records : job[j].got[r] <= clock

OneAtWork == \A i, j \in Working : i = j

\* Only the attempt at work moves the cursor: it still is the one it read.
FromTheCursor ==
  \A j \in Working :
    /\ job[j].cursor \in {0, run.cursor}
    /\ job[j].full => job[j].cursor = 0

\* A record that was fetched has not become older than the cursor.
FetchedIsNotOlder ==
  \A j \in Working, r \in Records :
    Fetched(j) /\ job[j].got[r] # 0 /\ provider[r] # 0 => provider[r] >= job[j].cursor

\* What a fetch has not got, or no longer has, is newer than all it has got.
MissedIsNewer ==
  \A j \in Working, r \in Records :
    Fetched(j) /\ provider[r] # job[j].got[r] /\ provider[r] # 0 /\ provider[r] >= job[j].cursor =>
      /\ provider[r] > run.cursor /\ provider[r] > job[j].cursor
      /\ \A q \in Records : provider[r] > job[j].got[q]

\* What an attempt has dealt with is in the cache as it was fetched.
DealtWith ==
  \A j \in Working : Fetched(j) =>
    /\ job[j].step # "writing" => job[j].left = {}
    /\ job[j].step = "sweeping" => job[j].full
    /\ \A r \in Records :
         /\ r \in job[j].left => job[j].got[r] # 0
         /\ r \notin job[j].left /\ job[j].got[r] # 0 => cache[r] = job[j].got[r]
         /\ job[j].step = "finishing" /\ job[j].full /\ job[j].got[r] = 0 => cache[r] = 0

Alone == OneAtWork /\ FromTheCursor /\ FetchedIsNotOlder /\ MissedIsNewer /\ DealtWith /\ CursorPromise

IInv == TypeOK /\ Bounded /\ (overlapped \/ Alone)

-----------------------------------------------------------------------------
\* Types

JobRecords ==
  [step : Steps, attempt : 1..MaxAttempts, full : BOOLEAN,
   cursor : 0..MaxChanges, got : Snapshots, left : SUBSET Records]

LEMMA NoJobTyped == NoJob \in JobRecords /\ NoJob.step = "none"
  <1>1. 0 \in 0..MaxChanges /\ 1 \in 1..MaxAttempts
    BY IngestionRunsAssumption
  <1> QED
    BY <1>1 DEF NoJob, JobRecords, Nothing, Snapshots, Steps

LEMMA InitTypeOK == Init => TypeOK
  <1>1. 0 \in 0..MaxChanges /\ 0 \in 0..MaxFaults /\ 1 \in 1..MaxAttempts
    BY IngestionRunsAssumption
  <1>2. Nothing \in Snapshots
    BY <1>1 DEF Nothing, Snapshots
  <1>3. Unscheduled \in Unscheduled..Interval
    BY IngestionRunsAssumption DEF Unscheduled
  <1>4. Init => /\ job \in [Jobs -> JobRecords]
                /\ provider \in Snapshots /\ cache \in Snapshots
    BY <1>2, NoJobTyped DEF Init
  <1>5. Init => run \in [status : {"none", "QUEUED", "PROCESSING"} \cup Terminal,
                        trigger : {"MANUAL", "SCHEDULED"}, cursor : 0..MaxChanges, fullDue : BOOLEAN]
    BY <1>1 DEF Init
  <1>6. Init => /\ slot \in Unscheduled..Interval /\ quiet \in 0..2
                /\ clock \in 0..MaxChanges /\ faults \in 0..MaxFaults
    BY <1>1, <1>3 DEF Init
  <1>7. Init => queuedOld \in BOOLEAN /\ connected \in BOOLEAN /\ overlapped \in BOOLEAN
    BY DEF Init
  <1> QED
    BY <1>4, <1>5, <1>6, <1>7 DEF TypeOK, JobRecords

\* A job that takes a new record still has the type of one.
LEMMA BecomesTyped ==
  ASSUME TypeOK, NEW j \in Jobs, NEW next \in JobRecords, Becomes(j, next)
  PROVE  job' \in [Jobs -> JobRecords]
  BY DEF TypeOK, Becomes, JobRecords

LEMMA RequestRunTyped ==
  ASSUME TypeOK, NEW trigger \in {"MANUAL", "SCHEDULED"}, NEW late \in BOOLEAN, RequestRun(trigger, late)
  PROVE  /\ run' \in [status : {"none", "QUEUED", "PROCESSING"} \cup Terminal,
                       trigger : {"MANUAL", "SCHEDULED"}, cursor : 0..MaxChanges, fullDue : BOOLEAN]
         /\ queuedOld' \in BOOLEAN
         /\ job' \in [Jobs -> JobRecords]
  <1>1. job \in [Jobs -> JobRecords]
    BY DEF TypeOK, JobRecords
  <1>2. "waiting" \in Steps
    BY DEF Steps
  <1>3. CASE Resettable(late)
    <2>1. PICK j \in Jobs : job' = [job EXCEPT ![j].step = "waiting"]
      BY <1>3 DEF RequestRun
    <2>2. job' \in [Jobs -> JobRecords]
      BY <1>1, <1>2, <2>1 DEF JobRecords
    <2> QED
      BY <1>3, <2>2 DEF TypeOK, RequestRun
  <1>4. CASE ~Resettable(late)
    BY <1>1, <1>4 DEF TypeOK, RequestRun
  <1> QED
    BY <1>3, <1>4

LEMMA FetchedTyped ==
  ASSUME TypeOK, NEW j \in Jobs
  PROVE  [r \in Records |-> IF provider[r] >= job[j].cursor THEN provider[r] ELSE 0] \in Snapshots
  <1>1. 0 \in 0..MaxChanges
    BY IngestionRunsAssumption
  <1> QED
    BY <1>1 DEF TypeOK, Snapshots

LEMMA StepTyped ==
  ASSUME TypeOK, NEW j \in Jobs, Step(j)
  PROVE  TypeOK'
  <1> USE IngestionRunsAssumption
  <1>0. job \in [Jobs -> JobRecords] /\ job[j] \in JobRecords
    BY DEF TypeOK, JobRecords
  <1>a. 0 \in 0..MaxChanges /\ 0 \in 0..2
    BY IngestionRunsAssumption
  <1>1. ASSUME NEW late \in BOOLEAN, Claim(j, late)
        PROVE  TypeOK'
    <2>1. CASE connected /\ Claimable(late)
      <3>1. ShouldRunFull \in BOOLEAN
        BY DEF ShouldRunFull, TypeOK
      <3> DEFINE next == [job[j] EXCEPT !.step = "pulling", !.full = ShouldRunFull,
                            !.cursor = IF ShouldRunFull THEN 0 ELSE run.cursor]
      <3>2. next \in JobRecords
        BY <1>0, <1>a, <3>1 DEF TypeOK, JobRecords, Steps
      <3>3. job' \in [Jobs -> JobRecords]
        BY <1>1, <2>1, <3>2, BecomesTyped DEF Claim
      <3> QED
        BY <1>1, <1>a, <2>1, <3>3 DEF TypeOK, Claim, WriteStatus, worldVars, JobRecords
    <2>2. CASE ~(connected /\ Claimable(late))
      <3>1. job' \in [Jobs -> JobRecords]
        BY <1>1, <2>2, NoJobTyped, BecomesTyped DEF Claim
      <3> QED
        BY <1>1, <1>a, <2>2, <3>1 DEF TypeOK, Claim, WriteStatus, worldVars, JobRecords, Terminal
    <2> QED
      BY <2>1, <2>2
  <1>2. ASSUME Fetch(j)
        PROVE  TypeOK'
    <2> DEFINE got  == [r \in Records |-> IF provider[r] >= job[j].cursor THEN provider[r] ELSE 0]
               left == {r \in Records : got[r] # 0}
               next == [job[j] EXCEPT !.step = Then(job[j].full, left), !.got = got, !.left = left]
    <2>1. got \in Snapshots
      BY FetchedTyped
    <2>2. left \in SUBSET Records /\ Then(job[j].full, left) \in Steps
      BY DEF Then, Steps
    <2>3. Becomes(j, next)
      BY <1>2 DEF Fetch
    <2> HIDE DEF got, left
    <2>4. next \in JobRecords
      BY <1>0, <2>1, <2>2 DEF JobRecords
    <2>5. job' \in [Jobs -> JobRecords]
      BY <2>3, <2>4, BecomesTyped
    <2> QED
      BY <1>2, <1>a, <2>5 DEF TypeOK, Fetch, worldVars, JobRecords
  <1>3. ASSUME NEW r \in Records, Upsert(j, r)
        PROVE  TypeOK'
    <2> DEFINE left == job[j].left \ {r}
               next == [job[j] EXCEPT !.step = Then(job[j].full, left), !.left = left]
    <2>1. left \in SUBSET Records /\ Then(job[j].full, left) \in Steps
      BY <1>0 DEF Then, Steps, JobRecords
    <2>2. Becomes(j, next)
      BY <1>3 DEF Upsert
    <2> HIDE DEF left
    <2>3. next \in JobRecords
      BY <1>0, <2>1 DEF JobRecords
    <2>4. job' \in [Jobs -> JobRecords]
      BY <2>2, <2>3, BecomesTyped
    <2>5. cache' \in Snapshots
      BY <1>0, <1>3 DEF TypeOK, Upsert, Snapshots, JobRecords
    <2> QED
      BY <1>3, <1>a, <2>4, <2>5 DEF TypeOK, Upsert, worldVars, JobRecords
  <1>4. ASSUME HandleStaleRecords(j)
        PROVE  TypeOK'
    <2>1. [job[j] EXCEPT !.step = "finishing"] \in JobRecords
      BY <1>0 DEF JobRecords, Steps
    <2>2. job' \in [Jobs -> JobRecords]
      BY <1>4, <2>1, BecomesTyped DEF HandleStaleRecords, Goes
    <2>3. cache' \in Snapshots
      BY <1>a, <1>4 DEF TypeOK, HandleStaleRecords, Snapshots
    <2> QED
      BY <1>4, <2>2, <2>3 DEF TypeOK, HandleStaleRecords, worldVars, rowVars, JobRecords
  <1>5. ASSUME FinalizeSuccess(j)
        PROVE  TypeOK'
    <2>1. job' \in [Jobs -> JobRecords]
      BY <1>5, NoJobTyped, BecomesTyped DEF FinalizeSuccess
    <2> QED
      BY <1>5, <1>a, <2>1 DEF TypeOK, FinalizeSuccess, worldVars, JobRecords, Terminal
  <1> QED
    BY <1>1, <1>2, <1>3, <1>4, <1>5 DEF Step

LEMMA FailTyped ==
  ASSUME TypeOK, NEW j \in Jobs, NEW permanent \in BOOLEAN, NEW written \in BOOLEAN, Fail(j, permanent, written)
  PROVE  TypeOK'
  <1>0. job[j] \in JobRecords /\ 0 \in 0..2
    BY DEF TypeOK, JobRecords
  <1>1. faults' \in 0..MaxFaults
    BY IngestionRunsAssumption DEF TypeOK, Fail
  <1>2. job' \in [Jobs -> JobRecords]
    <2>1. CASE permanent \/ LastAttempt(j)
      BY <2>1, NoJobTyped, BecomesTyped DEF Fail
    <2>2. CASE ~(permanent \/ LastAttempt(j))
      <3>1. job[j].attempt + 1 \in 1..MaxAttempts
        BY <1>0, <2>2, IngestionRunsAssumption DEF LastAttempt, JobRecords
      <3>2. [NoJob EXCEPT !.step = "waiting", !.attempt = job[j].attempt + 1] \in JobRecords
        BY <3>1, NoJobTyped DEF JobRecords, Steps
      <3> QED
        BY <2>2, <3>2, BecomesTyped DEF Fail
    <2> QED
      BY <2>1, <2>2
  <1>3. /\ run' \in [status : {"none", "QUEUED", "PROCESSING"} \cup Terminal,
                     trigger : {"MANUAL", "SCHEDULED"}, cursor : 0..MaxChanges, fullDue : BOOLEAN]
        /\ quiet' \in 0..2 /\ queuedOld' \in BOOLEAN
    BY <1>0 DEF TypeOK, Fail, WriteStatus, Terminal
  <1> QED
    BY <1>1, <1>2, <1>3 DEF TypeOK, Fail, worldVars, JobRecords

LEMMA TypeOKStep ==
  ASSUME TypeOK, [Next]_vars
  PROVE  TypeOK'
  <1> USE IngestionRunsAssumption
  <1>0. 0 \in 0..2 /\ Interval \in Unscheduled..Interval
    BY DEF Unscheduled
  <1>1. ASSUME NEW late \in BOOLEAN, EnqueueDue(late)
        PROVE  TypeOK'
    BY <1>0, <1>1, RequestRunTyped DEF EnqueueDue, TypeOK, worldVars, JobRecords
  <1>2. ASSUME Seed
        PROVE  TypeOK'
    <2>1. slot' \in Unscheduled..Interval
      BY <1>2 DEF Seed, Unscheduled
    <2> QED
      BY <1>0, <1>2, <2>1 DEF Seed, TypeOK, worldVars
  <1>3. ASSUME NEW late \in BOOLEAN, RequestSync(late)
        PROVE  TypeOK'
    <2>1. quiet' \in 0..2
      BY <1>0, <1>3 DEF RequestSync, TypeOK
    <2> QED
      BY <1>3, <2>1, RequestRunTyped DEF RequestSync, TypeOK, worldVars, JobRecords
  <1>4. ASSUME NEW again \in SUBSET Jobs, Crash(again)
        PROVE  TypeOK'
    <2>1. \A j \in Jobs : job[j] \in JobRecords
      BY DEF TypeOK, JobRecords
    <2>2. \A j \in Jobs : [NoJob EXCEPT !.step = "waiting", !.attempt = job[j].attempt] \in JobRecords
      BY <2>1, NoJobTyped DEF JobRecords, Steps
    <2>3. job' \in [Jobs -> JobRecords]
      BY <1>4, <2>1, <2>2, NoJobTyped DEF Crash
    <2>5. faults < MaxFaults /\ faults' = faults + 1
      BY <1>4 DEF Crash
    <2>4. faults' \in 0..MaxFaults
      BY <2>5 DEF TypeOK
    <2> QED
      BY <1>4, <2>3, <2>4 DEF Crash, TypeOK, rowVars, worldVars, JobRecords
  <1>5. ASSUME PassWindow
        PROVE  TypeOK'
    <2>1. slot' \in Unscheduled..Interval
      BY <1>5 DEF PassWindow, TypeOK, Unscheduled
    <2>2. quiet' \in 0..2
      BY <1>5 DEF PassWindow, TypeOK
    <2> QED
      BY <1>5, <2>1, <2>2 DEF PassWindow, TypeOK, worldVars
  <1>6. ASSUME AgeQueued \/ PassDay \/ Disconnect \/ Disconnected \/ UNCHANGED vars
        PROVE  TypeOK'
    BY <1>6 DEF AgeQueued, PassDay, Disconnect, Disconnected, vars, TypeOK, rowVars, worldVars
  <1>7. ASSUME NEW r \in Records, Change(r) \/ Delete(r)
        PROVE  TypeOK'
    <2>1. clock' \in 0..MaxChanges /\ 0 \in 0..MaxChanges
      BY <1>7 DEF Change, Delete, TypeOK
    <2>2. provider' \in Snapshots
      BY <1>7, <2>1 DEF Change, Delete, TypeOK, Snapshots
    <2> QED
      BY <1>7, <2>1, <2>2 DEF Change, Delete, TypeOK, rowVars
  <1> QED
    BY <1>1, <1>2, <1>3, <1>4, <1>5, <1>6, <1>7, StepTyped, FailTyped DEF Next, Tick

\* IngestionRunsTypeCorrect: every variable keeps its type, whatever the
\* numbers of records, jobs, attempts and faults.
THEOREM IngestionRunsTypeCorrect == Spec => []TypeOK
  BY InitTypeOK, TypeOKStep, PTL DEF Spec

-----------------------------------------------------------------------------
\* Nothing is newer than the clock

\* A step after which the clock is no earlier, and nothing newer than before.
LEMMA BoundedFrame ==
  ASSUME TypeOK, TypeOK', Bounded, clock' = clock, provider' = provider,
         run'.cursor <= clock,
         \A j \in Jobs : job'[j].cursor <= clock /\ \A r \in Records : job'[j].got[r] <= clock
  PROVE  Bounded'
  BY DEF Bounded

LEMMA JobsBounded ==
  ASSUME TypeOK, Bounded
  PROVE  /\ \A j \in Jobs : job[j].cursor <= clock /\ \A r \in Records : job[j].got[r] <= clock
         /\ NoJob.cursor <= clock /\ \A r \in Records : NoJob.got[r] <= clock
         /\ clock \in Nat /\ run.cursor <= clock
  BY IngestionRunsAssumption DEF Bounded, TypeOK, NoJob, Nothing

LEMMA StepBounded ==
  ASSUME TypeOK, TypeOK', Bounded, NEW j \in Jobs, Step(j)
  PROVE  Bounded'
  <1> USE JobsBounded
  <1>0. job \in [Jobs -> JobRecords] /\ job[j] \in JobRecords
    BY DEF TypeOK, JobRecords
  <1>1. ASSUME NEW late \in BOOLEAN, Claim(j, late)
        PROVE  Bounded'
    <2>1. run'.cursor = run.cursor
      BY <1>1 DEF Claim, WriteStatus, TypeOK
    <2>3. \A i \in Jobs : i # j => job'[i] = job[i]
      BY <1>0, <1>1 DEF Claim, Becomes
    <2>4. job'[j] = NoJob \/ (job'[j].cursor \in {0, run.cursor} /\ job'[j].got = job[j].got)
      <3>1. CASE connected /\ Claimable(late)
        <4> DEFINE start == IF ShouldRunFull THEN 0 ELSE run.cursor
        <4>1. job'[j] = [job[j] EXCEPT !.step = "pulling", !.full = ShouldRunFull, !.cursor = start]
          BY <1>0, <1>1, <3>1 DEF Claim, Becomes
        <4>2. start \in {0, run.cursor}
          OBVIOUS
        <4> HIDE DEF start
        <4> QED
          BY <1>0, <4>1, <4>2 DEF JobRecords
      <3>2. CASE ~(connected /\ Claimable(late))
        BY <1>0, <1>1, <3>2 DEF Claim, Becomes
      <3> QED
        BY <3>1, <3>2
    <2>2. \A i \in Jobs : job'[i].cursor <= clock /\ \A r \in Records : job'[i].got[r] <= clock
      BY <2>3, <2>4
    <2> QED
      BY <1>1, <2>1, <2>2, BoundedFrame DEF Claim, worldVars
  <1>2. ASSUME Fetch(j)
        PROVE  Bounded'
    <2> DEFINE got  == [r \in Records |-> IF provider[r] >= job[j].cursor THEN provider[r] ELSE 0]
               left == {r \in Records : got[r] # 0}
    <2>1. \A r \in Records : got[r] <= clock
      BY DEF Bounded
    <2>2. Becomes(j, [job[j] EXCEPT !.step = Then(job[j].full, left), !.got = got, !.left = left])
      BY <1>2 DEF Fetch
    <2> HIDE DEF got, left
    <2>3. \A i \in Jobs : job'[i].cursor <= clock /\ \A r \in Records : job'[i].got[r] <= clock
      BY <1>0, <2>1, <2>2 DEF Becomes, JobRecords
    <2> QED
      BY <1>2, <2>3, BoundedFrame DEF Fetch, worldVars
  <1>3. ASSUME NEW r \in Records, Upsert(j, r)
        PROVE  Bounded'
    <2>1. \A i \in Jobs : job'[i].cursor = job[i].cursor /\ job'[i].got = job[i].got
      BY <1>0, <1>3 DEF Upsert, Becomes, JobRecords
    <2> QED
      BY <1>3, <2>1, BoundedFrame DEF Upsert, worldVars
  <1>4. ASSUME HandleStaleRecords(j)
        PROVE  Bounded'
    <2>1. \A i \in Jobs : job'[i].cursor = job[i].cursor /\ job'[i].got = job[i].got
      BY <1>0, <1>4 DEF HandleStaleRecords, Goes, Becomes, JobRecords
    <2> QED
      BY <1>4, <2>1, BoundedFrame DEF HandleStaleRecords, worldVars, rowVars
  <1>5. ASSUME FinalizeSuccess(j)
        PROVE  Bounded'
    <2>1. run'.cursor <= clock
      BY <1>5 DEF FinalizeSuccess, NextCursor, TypeOK
    <2>2. \A i \in Jobs : job'[i].cursor <= clock /\ \A r \in Records : job'[i].got[r] <= clock
      BY <1>0, <1>5 DEF FinalizeSuccess, Becomes
    <2> QED
      BY <1>5, <2>1, <2>2, BoundedFrame DEF FinalizeSuccess, worldVars
  <1> QED
    BY <1>1, <1>2, <1>3, <1>4, <1>5 DEF Step

\* The actions that work on no record: what they do to the row and the jobs.
Around ==
  \/ Tick \/ \E late \in BOOLEAN : RequestSync(late)
  \/ \E j \in Jobs : \E permanent, written \in BOOLEAN : Fail(j, permanent, written)
  \/ \E again \in SUBSET Jobs : Crash(again)
  \/ PassWindow \/ AgeQueued \/ PassDay \/ Disconnect \/ Disconnected
  \/ UNCHANGED vars

\* A job that is to be run again has nothing in hand.
LEMMA AgainHoldsNothing ==
  ASSUME NEW attempt
  PROVE  LET again == [NoJob EXCEPT !.step = "waiting", !.attempt = attempt]
         IN /\ again.step = "waiting" /\ NoJob.step = "none"
            /\ again.cursor = NoJob.cursor /\ again.got = NoJob.got
  BY DEF NoJob

KeptOrDropped(j) ==
  \/ job'[j].cursor = job[j].cursor /\ job'[j].got = job[j].got
  \/ job'[j].cursor = NoJob.cursor /\ job'[j].got = NoJob.got

\* They keep every version, and the attempts that still work are as they were;
\* every other job has fetched nothing or keeps what it had.
LEMMA AroundKeeps ==
  ASSUME TypeOK, Around
  PROVE  /\ run'.cursor = run.cursor /\ provider' = provider /\ cache' = cache
         /\ clock' = clock /\ overlapped' = overlapped
         /\ Working' \subseteq Working
         /\ \A j \in Working' : job'[j] = job[j]
         /\ \A j \in Jobs : KeptOrDropped(j)
  <1> USE DEF Working, KeptOrDropped
  <1>0. job \in [Jobs -> JobRecords] /\ \A j \in Jobs : job[j] \in JobRecords
    BY DEF TypeOK, JobRecords
  <1>1. ASSUME NEW trigger \in {"MANUAL", "SCHEDULED"}, NEW late \in BOOLEAN, RequestRun(trigger, late)
        PROVE  /\ run'.cursor = run.cursor
               /\ Working' \subseteq Working
               /\ \A j \in Working' : job'[j] = job[j]
               /\ \A j \in Jobs : KeptOrDropped(j)
    <2>1. run'.cursor = run.cursor
      BY <1>1 DEF RequestRun, TypeOK
    <2>2. CASE Resettable(late)
      <3>1. PICK i \in Jobs : job' = [job EXCEPT ![i].step = "waiting"]
        BY <1>1, <2>2 DEF RequestRun
      <3>2. \A j \in Jobs : j # i => job'[j] = job[j]
        BY <1>0, <3>1
      <3>3. job'[i].step = "waiting" /\ job'[i].cursor = job[i].cursor /\ job'[i].got = job[i].got
        BY <1>0, <3>1 DEF JobRecords
      <3>4. i \notin Working'
        BY <3>3
      <3>5. \A j \in Working' : j \in Working /\ job'[j] = job[j]
        BY <3>2, <3>4
      <3>6. \A j \in Jobs : KeptOrDropped(j)
        BY <3>2, <3>3
      <3> QED
        BY <2>1, <3>5, <3>6
    <2>3. CASE ~Resettable(late)
      <3>1. job' = job
        BY <1>1, <2>3 DEF RequestRun
      <3> QED
        BY <2>1, <3>1
    <2> QED
      BY <2>2, <2>3
  <1>2. ASSUME NEW j \in Jobs, NEW permanent \in BOOLEAN, NEW written \in BOOLEAN, Fail(j, permanent, written)
        PROVE  /\ run'.cursor = run.cursor
               /\ \A i \in Jobs : i # j => job'[i] = job[i]
               /\ job'[j].step \in {"none", "waiting"}
               /\ job'[j].cursor = NoJob.cursor /\ job'[j].got = NoJob.got
    <2>1. run'.cursor = run.cursor
      BY <1>2 DEF Fail, WriteStatus, TypeOK
    <2>2. \A i \in Jobs : i # j => job'[i] = job[i]
      BY <1>0, <1>2 DEF Fail, Becomes
    <2>3. job'[j] = NoJob \/ job'[j] = [NoJob EXCEPT !.step = "waiting", !.attempt = job[j].attempt + 1]
      BY <1>0, <1>2 DEF Fail, Becomes
    <2>4. /\ job'[j].step \in {"none", "waiting"}
          /\ job'[j].cursor = NoJob.cursor /\ job'[j].got = NoJob.got
      BY <2>3, AgainHoldsNothing
    <2> QED
      BY <2>1, <2>2, <2>4
  <1>3. ASSUME NEW again \in SUBSET Jobs, Crash(again)
        PROVE  /\ Working' = {}
               /\ \A j \in Jobs : KeptOrDropped(j)
    <2>1. \A j \in Jobs : \/ job[j].step \in {"none", "waiting"} /\ job'[j] = job[j]
                          \/ job'[j] = [NoJob EXCEPT !.step = "waiting", !.attempt = job[j].attempt]
                          \/ job'[j] = NoJob
      <3> SUFFICES ASSUME NEW j \in Jobs
                   PROVE  \/ job[j].step \in {"none", "waiting"} /\ job'[j] = job[j]
                          \/ job'[j] = [NoJob EXCEPT !.step = "waiting", !.attempt = job[j].attempt]
                          \/ job'[j] = NoJob
        OBVIOUS
      <3>1. job'[j] = IF job[j].step \in {"none", "waiting"} THEN job[j]
                      ELSE IF j \in again THEN [NoJob EXCEPT !.step = "waiting", !.attempt = job[j].attempt]
                      ELSE NoJob
        BY <1>3 DEF Crash
      <3> QED
        BY <3>1
    <2>2. \A j \in Jobs : job'[j].step \in {"none", "waiting"} /\ KeptOrDropped(j)
      BY <2>1, AgainHoldsNothing
    <2> QED
      BY <2>2
  <1>4. CASE Tick
    <2>1. CASE Seed
      BY <2>1 DEF Seed, worldVars
    <2>2. CASE \E late \in BOOLEAN : EnqueueDue(late)
      <3>1. PICK late \in BOOLEAN : EnqueueDue(late)
        BY <2>2
      <3>2. RequestRun("SCHEDULED", late) /\ UNCHANGED <<worldVars, cache, overlapped>>
        BY <3>1 DEF EnqueueDue
      <3> QED
        BY <1>1, <3>2 DEF worldVars
    <2> QED
      BY <1>4, <2>1, <2>2 DEF Tick
  <1>5. CASE \E late \in BOOLEAN : RequestSync(late)
    <2>1. PICK late \in BOOLEAN : RequestSync(late)
      BY <1>5
    <2>2. RequestRun("MANUAL", late) /\ UNCHANGED <<worldVars, cache, overlapped>>
      BY <2>1 DEF RequestSync
    <2> QED
      BY <1>1, <2>2 DEF worldVars
  <1>6. CASE \E j \in Jobs : \E permanent, written \in BOOLEAN : Fail(j, permanent, written)
    <2>1. PICK j \in Jobs : \E permanent, written \in BOOLEAN : Fail(j, permanent, written)
      BY <1>6
    <2>2. /\ run'.cursor = run.cursor
          /\ \A i \in Jobs : i # j => job'[i] = job[i]
          /\ job'[j].step \in {"none", "waiting"}
          /\ job'[j].cursor = NoJob.cursor /\ job'[j].got = NoJob.got
      BY <1>2, <2>1
    <2>3. UNCHANGED <<worldVars, cache, overlapped>>
      BY <2>1 DEF Fail
    <2>4. \A i \in Working' : i # j /\ i \in Working
      BY <2>2
    <2> QED
      BY <2>2, <2>3, <2>4 DEF worldVars
  <1>7. CASE \E again \in SUBSET Jobs : Crash(again)
    <2>1. PICK again \in SUBSET Jobs : Crash(again)
      BY <1>7
    <2>2. Working' = {} /\ \A j \in Jobs : KeptOrDropped(j)
      BY <1>3, <2>1
    <2>3. UNCHANGED <<rowVars, worldVars, cache, overlapped>>
      BY <2>1 DEF Crash
    <2> QED
      BY <2>2, <2>3 DEF rowVars, worldVars
  <1>8. CASE PassWindow \/ AgeQueued \/ PassDay \/ Disconnect \/ Disconnected \/ UNCHANGED vars
    <2>1. UNCHANGED <<job, provider, cache, clock, overlapped>>
      BY <1>8 DEF PassWindow, AgeQueued, PassDay, Disconnect, Disconnected, vars, worldVars, rowVars
    <2>2. run'.cursor = run.cursor
      BY <1>8 DEF PassWindow, AgeQueued, PassDay, Disconnect, Disconnected, vars, rowVars, TypeOK
    <2> QED
      BY <2>1, <2>2
  <1> QED
    BY <1>4, <1>5, <1>6, <1>7, <1>8 DEF Around

LEMMA BoundedStep ==
  ASSUME TypeOK, TypeOK', Bounded, [Next]_vars
  PROVE  Bounded'
  <1>1. CASE Around
    <2>1. \A j \in Jobs : job'[j].cursor <= clock /\ \A r \in Records : job'[j].got[r] <= clock
      <3>1. \A j \in Jobs : KeptOrDropped(j)
        BY <1>1, AroundKeeps
      <3> QED
        BY <3>1, JobsBounded DEF KeptOrDropped
    <2> QED
      BY <1>1, <2>1, AroundKeeps, JobsBounded, BoundedFrame
  <1>2. ASSUME NEW r \in Records, Change(r) \/ Delete(r)
        PROVE  Bounded'
    <2>1. clock' = clock + 1 /\ job' = job /\ run' = run
      BY <1>2 DEF Change, Delete, rowVars
    <2>2. \A q \in Records : provider'[q] \in {provider[q], 0, clock'}
      BY <1>2 DEF Change, Delete, TypeOK, Snapshots
    <2>3. clock \in Nat /\ run.cursor \in Nat /\ \A q \in Records : provider[q] \in Nat
      BY DEF TypeOK, Snapshots
    <2>4. \A j \in Jobs : job[j].cursor \in Nat /\ \A q \in Records : job[j].got[q] \in Nat
      BY DEF TypeOK, Snapshots
    <2> QED
      BY <2>1, <2>2, <2>3, <2>4 DEF Bounded
  <1> QED
    BY <1>1, <1>2, StepBounded DEF Next, Around

-----------------------------------------------------------------------------
\* Alone

LEMMA InitIInv == Init => IInv
  <1>1. ASSUME Init
        PROVE  Working = {}
    BY <1>1, NoJobTyped DEF Init, Working
  <1>2. ASSUME Init
        PROVE  Bounded
    <2>1. \A j \in Jobs : job[j].cursor = 0 /\ job[j].got = Nothing
      BY <1>2 DEF Init, NoJob
    <2> QED
      BY <1>2, <2>1 DEF Init, Bounded, Nothing
  <1>3. ASSUME Init
        PROVE  CursorPromise
    BY <1>3 DEF Init, CursorPromise, Nothing
  <1> QED
    BY <1>1, <1>2, <1>3, InitTypeOK
    DEF IInv, Alone, OneAtWork, FromTheCursor, FetchedIsNotOlder, MissedIsNewer, DealtWith

LEMMA AroundAlone ==
  ASSUME TypeOK, Alone, Around
  PROVE  Alone'
  <1>1. /\ run'.cursor = run.cursor /\ provider' = provider /\ cache' = cache
        /\ overlapped' = overlapped
        /\ Working' \subseteq Working
        /\ \A j \in Working' : job'[j] = job[j]
    BY AroundKeeps
  <1>2. OneAtWork'
    BY <1>1 DEF Alone, OneAtWork
  <1>3. FromTheCursor'
    BY <1>1 DEF Alone, FromTheCursor
  <1>4. FetchedIsNotOlder' /\ MissedIsNewer'
    BY <1>1 DEF Alone, FetchedIsNotOlder, MissedIsNewer, Fetched
  <1>5. DealtWith'
    BY <1>1 DEF Alone, DealtWith, Fetched
  <1>6. CursorPromise'
    BY <1>1 DEF Alone, CursorPromise
  <1> QED
    BY <1>2, <1>3, <1>4, <1>5, <1>6 DEF Alone

LEMMA ChangeAlone ==
  ASSUME TypeOK, Bounded, Alone, NEW c \in Records, Change(c) \/ Delete(c)
  PROVE  Alone'
  <1>1. /\ clock' = clock + 1 /\ job' = job /\ run' = run /\ cache' = cache /\ overlapped' = overlapped
    BY DEF Change, Delete, rowVars
  <1>2. \A r \in Records : provider'[r] = provider[r] \/ provider'[r] = 0 \/ provider'[r] = clock + 1
    BY <1>1 DEF Change, Delete, TypeOK, Snapshots
  <1>3. clock \in Nat /\ run.cursor \in Nat /\ \A r \in Records : provider[r] \in Nat
    BY DEF TypeOK, Snapshots
  <1>4. \A j \in Jobs : job[j].cursor \in Nat /\ \A r \in Records : job[j].got[r] \in Nat
    BY DEF TypeOK, Snapshots
  <1>5. Working' = Working /\ \A j \in Jobs : Fetched(j)' = Fetched(j)
    BY <1>1 DEF Working, Fetched
  <1>6. OneAtWork' /\ FromTheCursor' /\ DealtWith'
    BY <1>1, <1>5 DEF Alone, OneAtWork, FromTheCursor, DealtWith, Fetched
  <1>7. FetchedIsNotOlder'
    <2> SUFFICES ASSUME NEW j \in Working, NEW r \in Records,
                        Fetched(j), job[j].got[r] # 0, provider'[r] # 0
                 PROVE  provider'[r] >= job[j].cursor
      BY <1>1, <1>5 DEF FetchedIsNotOlder, Fetched
    <2>1. j \in Jobs
      BY DEF Working
    <2> QED
      BY <1>2, <1>3, <1>4, <2>1 DEF Alone, FetchedIsNotOlder, Bounded
  <1>8. MissedIsNewer'
    <2> SUFFICES ASSUME NEW j \in Working, NEW r \in Records,
                        Fetched(j), provider'[r] # job[j].got[r], provider'[r] # 0,
                        provider'[r] >= job[j].cursor
                 PROVE  /\ provider'[r] > run.cursor /\ provider'[r] > job[j].cursor
                        /\ \A q \in Records : provider'[r] > job[j].got[q]
      BY <1>1, <1>5 DEF MissedIsNewer, Fetched
    <2>1. j \in Jobs
      BY DEF Working
    <2>2. CASE provider'[r] = provider[r]
      BY <2>2 DEF Alone, MissedIsNewer
    <2>3. CASE provider'[r] = clock + 1
      BY <1>3, <1>4, <2>1, <2>3 DEF Bounded
    <2> QED
      BY <1>2, <2>2, <2>3
  <1>9. CursorPromise'
    <2> SUFFICES ASSUME ~overlapped, NEW r \in Records, provider'[r] \in 1..run.cursor
                 PROVE  cache[r] = provider'[r]
      BY <1>1 DEF CursorPromise
    <2>1. provider'[r] = provider[r]
      BY <1>2, <1>3 DEF Bounded
    <2> QED
      BY <2>1 DEF Alone, CursorPromise
  <1> QED
    BY <1>6, <1>7, <1>8, <1>9 DEF Alone

LEMMA ClaimAlone ==
  ASSUME TypeOK, Alone, NEW j \in Jobs, NEW late \in BOOLEAN, Claim(j, late), ~overlapped'
  PROVE  Alone'
  <1>0. job \in [Jobs -> JobRecords] /\ job[j] \in JobRecords
    BY DEF TypeOK, JobRecords
  <1>1. /\ run'.cursor = run.cursor /\ provider' = provider /\ cache' = cache
    BY DEF Claim, WriteStatus, worldVars, TypeOK
  <1>2. \A i \in Jobs : i # j => job'[i] = job[i]
    BY <1>0 DEF Claim, Becomes
  <1>3. ~overlapped
    BY DEF Claim
  <1>4. CursorPromise'
    BY <1>1, <1>3 DEF Alone, CursorPromise
  <1>5. CASE connected /\ Claimable(late)
    <2> DEFINE start == IF ShouldRunFull THEN 0 ELSE run.cursor
    <2>1. Working = {}
      BY <1>5 DEF Claim
    <2>2. job'[j] = [job[j] EXCEPT !.step = "pulling", !.full = ShouldRunFull, !.cursor = start]
      BY <1>0, <1>5 DEF Claim, Becomes
    <2>3. start \in {0, run.cursor} /\ (ShouldRunFull => start = 0)
      OBVIOUS
    <2> HIDE DEF start
    <2>4. job'[j].step = "pulling" /\ job'[j].full = ShouldRunFull /\ job'[j].cursor = start
      BY <1>0, <2>2 DEF JobRecords
    <2>5. Working' \subseteq {j}
      BY <1>2, <2>1 DEF Working
    <2>6. OneAtWork' /\ FromTheCursor'
      BY <1>1, <2>3, <2>4, <2>5 DEF OneAtWork, FromTheCursor
    <2>7. \A i \in Working' : ~Fetched(i)'
      BY <2>4, <2>5 DEF Fetched
    <2> QED
      BY <1>4, <2>6, <2>7 DEF Alone, FetchedIsNotOlder, MissedIsNewer, DealtWith
  <1>6. CASE ~(connected /\ Claimable(late))
    <2>1. job'[j] = NoJob
      BY <1>0, <1>6 DEF Claim, Becomes
    <2>2. \A i \in Working' : i \in Working /\ job'[i] = job[i]
      BY <1>2, <2>1, NoJobTyped DEF Working
    <2>3. OneAtWork' /\ FromTheCursor'
      BY <1>1, <2>2 DEF Alone, OneAtWork, FromTheCursor
    <2>4. FetchedIsNotOlder' /\ MissedIsNewer'
      BY <1>1, <2>2 DEF Alone, FetchedIsNotOlder, MissedIsNewer, Fetched
    <2>5. DealtWith'
      BY <1>1, <2>2 DEF Alone, DealtWith, Fetched
    <2> QED
      BY <1>4, <2>3, <2>4, <2>5 DEF Alone
  <1> QED
    BY <1>5, <1>6

\* Whoever works is alone at it.
LEMMA WorksAlone ==
  ASSUME Alone, NEW j \in Working, NEW next, job \in [Jobs -> JobRecords], Becomes(j, next)
  PROVE  /\ job'[j] = next
         /\ Working' \subseteq {j}
         /\ next.step \in {"none", "waiting"} => Working' = {}
  BY DEF Alone, OneAtWork, Working, Becomes

LEMMA FetchAlone ==
  ASSUME TypeOK, Alone, NEW j \in Jobs, Fetch(j), ~overlapped'
  PROVE  Alone'
  <1> DEFINE got  == [r \in Records |-> IF provider[r] >= job[j].cursor THEN provider[r] ELSE 0]
             left == {r \in Records : got[r] # 0}
             next == [job[j] EXCEPT !.step = Then(job[j].full, left), !.got = got, !.left = left]
  <1>0. job \in [Jobs -> JobRecords] /\ job[j] \in JobRecords
    BY DEF TypeOK, JobRecords
  <1>1. j \in Working /\ Becomes(j, next)
    BY DEF Fetch, Working
  <1>2. UNCHANGED <<run, provider, cache, overlapped>>
    BY DEF Fetch, worldVars
  <1>3. \A r \in Records : got[r] = IF provider[r] >= job[j].cursor THEN provider[r] ELSE 0
    OBVIOUS
  <1>4. \A r \in Records : r \in left <=> got[r] # 0
    OBVIOUS
  <1>5. /\ next.step = Then(job[j].full, left) /\ next.got = got /\ next.left = left
        /\ next.full = job[j].full /\ next.cursor = job[j].cursor
    BY <1>0 DEF JobRecords
  <1> HIDE DEF got, left, next
  <1>6. job'[j] = next /\ Working' \subseteq {j}
    BY <1>0, <1>1, WorksAlone
  <1>7. OneAtWork' /\ FromTheCursor'
    BY <1>1, <1>2, <1>5, <1>6 DEF Alone, OneAtWork, FromTheCursor
  <1>8. FetchedIsNotOlder' /\ MissedIsNewer'
    BY <1>2, <1>3, <1>5, <1>6 DEF FetchedIsNotOlder, MissedIsNewer
  <1>9. DealtWith'
    BY <1>4, <1>5, <1>6 DEF DealtWith, Then, Working
  <1>10. CursorPromise'
    BY <1>2 DEF Alone, CursorPromise
  <1> QED
    BY <1>7, <1>8, <1>9, <1>10 DEF Alone

LEMMA UpsertAlone ==
  ASSUME TypeOK, Alone, NEW j \in Jobs, NEW q \in Records, Upsert(j, q), ~overlapped'
  PROVE  Alone'
  <1> DEFINE left == job[j].left \ {q}
             next == [job[j] EXCEPT !.step = Then(job[j].full, left), !.left = left]
  <1>0. job \in [Jobs -> JobRecords] /\ job[j] \in JobRecords
    BY DEF TypeOK, JobRecords
  <1>1. j \in Working /\ Fetched(j) /\ q \in job[j].left /\ Becomes(j, next)
    BY DEF Upsert, Working, Fetched
  <1>2. UNCHANGED <<run, provider, overlapped>>
    BY DEF Upsert, worldVars
  <1>3. /\ cache'[q] = job[j].got[q]
        /\ \A r \in Records : r # q => cache'[r] = cache[r]
    BY DEF Upsert, TypeOK, Snapshots
  <1>4. \A r \in Records : r \in left <=> r \in job[j].left /\ r # q
    OBVIOUS
  <1>5. /\ next.step = Then(job[j].full, left) /\ next.got = job[j].got /\ next.left = left
        /\ next.full = job[j].full /\ next.cursor = job[j].cursor
    BY <1>0 DEF JobRecords
  <1>a. left \subseteq Records
    BY <1>0 DEF JobRecords
  <1> HIDE DEF left, next
  <1>6. job'[j] = next /\ Working' \subseteq {j}
    BY <1>0, <1>1, WorksAlone
  <1>7. OneAtWork' /\ FromTheCursor'
    BY <1>1, <1>2, <1>5, <1>6 DEF Alone, OneAtWork, FromTheCursor
  <1>8. FetchedIsNotOlder' /\ MissedIsNewer'
    BY <1>1, <1>2, <1>5, <1>6 DEF Alone, FetchedIsNotOlder, MissedIsNewer, Fetched
  <1>9. DealtWith'
    <2>1. \A r \in Records : /\ r \in job[j].left => job[j].got[r] # 0
                             /\ r \notin job[j].left /\ job[j].got[r] # 0 => cache[r] = job[j].got[r]
      BY <1>1 DEF Alone, DealtWith
    <2>2. next.step \in {"writing", "sweeping", "finishing"} /\ (next.step # "writing" => left = {})
      BY <1>5 DEF Then
    <2>3. (next.step = "sweeping" => job[j].full) /\ ~(next.step = "finishing" /\ job[j].full)
      BY <1>5 DEF Then
    <2>4. \A r \in Records : /\ r \in left => job[j].got[r] # 0
                             /\ r \notin left /\ job[j].got[r] # 0 => cache'[r] = job[j].got[r]
      BY <1>3, <1>4, <2>1
    <2>5. /\ job'[j].step = next.step /\ job'[j].left = left
          /\ job'[j].got = job[j].got /\ job'[j].full = job[j].full
      BY <1>5, <1>6
    <2>6. /\ job'[j].step # "writing" => job'[j].left = {}
          /\ job'[j].step = "sweeping" => job'[j].full
          /\ \A r \in Records :
               /\ r \in job'[j].left => job'[j].got[r] # 0
               /\ r \notin job'[j].left /\ job'[j].got[r] # 0 => cache'[r] = job'[j].got[r]
               /\ job'[j].step = "finishing" /\ job'[j].full /\ job'[j].got[r] = 0 => cache'[r] = 0
      <3>1. /\ job'[j].step # "writing" => job'[j].left = {}
            /\ job'[j].step = "sweeping" => job'[j].full
        BY <2>2, <2>3, <2>4, <2>5
      <3>2. ASSUME NEW r \in Records
            PROVE  /\ r \in job'[j].left => job'[j].got[r] # 0
                   /\ r \notin job'[j].left /\ job'[j].got[r] # 0 => cache'[r] = job'[j].got[r]
                   /\ job'[j].step = "finishing" /\ job'[j].full /\ job'[j].got[r] = 0 => cache'[r] = 0
        <4>1. job'[j].got[r] = job[j].got[r] /\ job'[j].left = left
              /\ ~(job'[j].step = "finishing" /\ job'[j].full)
          BY <2>3, <2>5
        <4>2. r \in left => job[j].got[r] # 0
          BY <2>4
        <4>3. r \notin left /\ job[j].got[r] # 0 => cache'[r] = job[j].got[r]
          BY <2>4
        <4> QED
          BY <4>1, <4>2, <4>3
      <3> QED
        BY <3>1, <3>2
    <2> QED
      BY <1>6, <2>6 DEF DealtWith
  <1>10. CursorPromise'
    <2> SUFFICES ASSUME NEW r \in Records, provider[r] \in 1..run.cursor
                 PROVE  cache'[r] = provider[r]
      BY <1>2 DEF CursorPromise
    <2>1. CASE r # q
      BY <1>2, <1>3, <2>1 DEF Alone, CursorPromise
    <2>2. CASE r = q
      <3>1. provider[q] >= job[j].cursor
        BY <1>1, <2>2 DEF Alone, DealtWith, FetchedIsNotOlder
      <3>2. provider[q] = job[j].got[q]
        BY <1>1, <2>2, <3>1 DEF Alone, MissedIsNewer, TypeOK
      <3> QED
        BY <1>3, <2>2, <3>2
    <2> QED
      BY <2>1, <2>2
  <1> QED
    BY <1>7, <1>8, <1>9, <1>10 DEF Alone

LEMMA SweepAlone ==
  ASSUME TypeOK, Alone, NEW j \in Jobs, HandleStaleRecords(j), ~overlapped'
  PROVE  Alone'
  <1> DEFINE next == [job[j] EXCEPT !.step = "finishing"]
  <1>0. job \in [Jobs -> JobRecords] /\ job[j] \in JobRecords
    BY DEF TypeOK, JobRecords
  <1>1. j \in Working /\ Fetched(j) /\ job[j].step = "sweeping" /\ Becomes(j, next)
    BY DEF HandleStaleRecords, Working, Fetched, Goes
  <1>2. UNCHANGED <<run, provider, overlapped>>
    BY DEF HandleStaleRecords, worldVars, rowVars
  <1>3. \A r \in Records : cache'[r] = IF job[j].got[r] = 0 THEN 0 ELSE cache[r]
    BY DEF HandleStaleRecords
  <1>5. /\ next.step = "finishing" /\ next.got = job[j].got /\ next.left = job[j].left
        /\ next.full = job[j].full /\ next.cursor = job[j].cursor
    BY <1>0 DEF JobRecords
  <1> HIDE DEF next
  <1>6. job'[j] = next /\ Working' \subseteq {j}
    BY <1>0, <1>1, WorksAlone
  <1>7. OneAtWork' /\ FromTheCursor'
    BY <1>1, <1>2, <1>5, <1>6 DEF Alone, OneAtWork, FromTheCursor
  <1>8. FetchedIsNotOlder' /\ MissedIsNewer'
    BY <1>1, <1>2, <1>5, <1>6 DEF Alone, FetchedIsNotOlder, MissedIsNewer, Fetched
  <1>9. DealtWith'
    <2>1. /\ job[j].left = {} /\ job[j].full
          /\ \A r \in Records : job[j].got[r] # 0 => cache[r] = job[j].got[r]
      BY <1>1 DEF Alone, DealtWith
    <2>2. \A r \in Records : /\ job[j].got[r] # 0 => cache'[r] = job[j].got[r]
                             /\ job[j].got[r] = 0 => cache'[r] = 0
      BY <1>3, <2>1
    <2>3. /\ job'[j].step = "finishing" /\ job'[j].left = {}
          /\ job'[j].got = job[j].got /\ job'[j].full = job[j].full
      BY <1>5, <1>6, <2>1
    <2>4. /\ job'[j].step # "writing" => job'[j].left = {}
          /\ job'[j].step = "sweeping" => job'[j].full
          /\ \A r \in Records :
               /\ r \in job'[j].left => job'[j].got[r] # 0
               /\ r \notin job'[j].left /\ job'[j].got[r] # 0 => cache'[r] = job'[j].got[r]
               /\ job'[j].step = "finishing" /\ job'[j].full /\ job'[j].got[r] = 0 => cache'[r] = 0
      <3>1. /\ job'[j].step # "writing" => job'[j].left = {}
            /\ job'[j].step = "sweeping" => job'[j].full
        BY <2>1, <2>2, <2>3
      <3>2. ASSUME NEW r \in Records
            PROVE  /\ r \in job'[j].left => job'[j].got[r] # 0
                   /\ r \notin job'[j].left /\ job'[j].got[r] # 0 => cache'[r] = job'[j].got[r]
                   /\ job'[j].step = "finishing" /\ job'[j].full /\ job'[j].got[r] = 0 => cache'[r] = 0
        <4>1. job'[j].got[r] = job[j].got[r] /\ r \notin job'[j].left
          BY <2>3
        <4>2. job[j].got[r] # 0 => cache'[r] = job[j].got[r]
          BY <2>2
        <4>3. job[j].got[r] = 0 => cache'[r] = 0
          BY <2>2
        <4> QED
          BY <4>1, <4>2, <4>3
      <3> QED
        BY <3>1, <3>2
    <2> QED
      BY <1>6, <2>4 DEF DealtWith
  <1>10. CursorPromise'
    <2> SUFFICES ASSUME NEW r \in Records, provider[r] \in 1..run.cursor
                 PROVE  cache'[r] = provider[r]
      BY <1>2 DEF CursorPromise
    <2>1. cache[r] = provider[r]
      BY <1>2 DEF Alone, CursorPromise
    <2>2. job[j].cursor = 0
      BY <1>1 DEF Alone, DealtWith, FromTheCursor
    <2>3. job[j].got[r] # 0
      BY <1>1, <2>2 DEF Alone, MissedIsNewer, TypeOK
    <2> QED
      BY <1>3, <2>1, <2>3
  <1> QED
    BY <1>7, <1>8, <1>9, <1>10 DEF Alone

LEMMA FinalizeAlone ==
  ASSUME TypeOK, Alone, NEW j \in Jobs, FinalizeSuccess(j), ~overlapped'
  PROVE  Alone'
  <1>0. job \in [Jobs -> JobRecords] /\ job[j] \in JobRecords
    BY DEF TypeOK, JobRecords
  <1>1. j \in Working /\ Fetched(j) /\ job[j].step = "finishing" /\ Becomes(j, NoJob)
    BY DEF FinalizeSuccess, Working, Fetched
  <1>2. UNCHANGED <<provider, cache, overlapped>>
    BY DEF FinalizeSuccess, worldVars
  <1>3. Working' = {}
    BY <1>0, <1>1, WorksAlone, NoJobTyped
  <1>4. PICK next \in 0..MaxChanges : NextCursor(j, next) /\ run'.cursor = next
    BY DEF FinalizeSuccess, TypeOK
  <1>5. CursorPromise'
    <2> SUFFICES ASSUME NEW r \in Records, provider[r] \in 1..next
                 PROVE  cache[r] = provider[r]
      BY <1>2, <1>4 DEF CursorPromise
    <2>1. job[j].cursor \in Nat /\ provider[r] \in Nat /\ \A q \in Records : job[j].got[q] \in Nat
      BY <1>0 DEF JobRecords, Snapshots, TypeOK
    <2>2. CASE provider[r] >= job[j].cursor
      <3>1. provider[r] = job[j].got[r]
        <4> SUFFICES ASSUME provider[r] # job[j].got[r]
                     PROVE  FALSE
          OBVIOUS
        <4>1. provider[r] > job[j].cursor /\ \A q \in Records : provider[r] > job[j].got[q]
          BY <1>1, <2>2 DEF Alone, MissedIsNewer
        <4> QED
          BY <1>4, <2>1, <4>1 DEF NextCursor
      <3>2. job[j].left = {}
        BY <1>1 DEF Alone, DealtWith
      <3> QED
        BY <1>1, <3>1, <3>2 DEF Alone, DealtWith
    <2>3. CASE provider[r] < job[j].cursor
      <3>1. job[j].cursor = run.cursor
        BY <1>1, <2>1, <2>3 DEF Alone, FromTheCursor
      <3>2. provider[r] \in 1..run.cursor
        BY <2>1, <2>3, <3>1
      <3> QED
        BY <1>2, <3>2 DEF Alone, CursorPromise
    <2> QED
      BY <2>1, <2>2, <2>3
  <1> QED
    BY <1>3, <1>5 DEF Alone, OneAtWork, FromTheCursor, FetchedIsNotOlder, MissedIsNewer, DealtWith

LEMMA IInvStep ==
  ASSUME IInv, [Next]_vars
  PROVE  IInv'
  <1>1. TypeOK' /\ Bounded'
    BY TypeOKStep, BoundedStep DEF IInv
  <1>2. overlapped => overlapped'
    <2>1. CASE Around
      BY <2>1, AroundKeeps DEF IInv
    <2>2. CASE ~Around
      BY <2>2 DEF Next, Around, Step, Claim, Fetch, Upsert, HandleStaleRecords, FinalizeSuccess, Change, Delete
    <2> QED
      BY <2>1, <2>2
  <1>3. ASSUME Alone, ~overlapped'
        PROVE  Alone'
    <2>1. CASE Around
      BY <1>3, <2>1, AroundAlone DEF IInv
    <2>2. ASSUME NEW r \in Records, Change(r) \/ Delete(r)
          PROVE  Alone'
      BY <1>3, <2>2, ChangeAlone DEF IInv
    <2>3. ASSUME NEW j \in Jobs, Step(j)
          PROVE  Alone'
      BY <1>3, <2>3, ClaimAlone, FetchAlone, UpsertAlone, SweepAlone, FinalizeAlone DEF IInv, Step
    <2> QED
      BY <2>1, <2>2, <2>3 DEF Next, Around
  <1> QED
    BY <1>1, <1>2, <1>3 DEF IInv

LEMMA IInvHolds == Spec => []IInv
  BY InitIInv, IInvStep, PTL DEF Spec

\* CursorKeepsItsPromise: unless an attempt was overtaken while it lived, no
\* pull from the stored cursor can miss a change, for any number of records,
\* attempts, failures and crashes (accounting-pull-processor.base.ts, process).
THEOREM CursorKeepsItsPromise == Spec => []CursorPromise
  <1>1. IInv => CursorPromise
    BY DEF IInv, Alone, CursorPromise
  <1> QED
    BY <1>1, IInvHolds, PTL

\* FullPullLeavesWhatItFetched: under the same condition, a full pull that is
\* about to be recorded has left in the cache what it fetched and nothing else
\* (accounting-sync-processor.base.ts, pull).
THEOREM FullPullLeavesWhatItFetched == Spec => []FullPullIsTheCache
  <1>1. ASSUME IInv
        PROVE  FullPullIsTheCache
    <2> SUFFICES ASSUME ~overlapped, NEW j \in Jobs, job[j].step = "finishing", job[j].full
                 PROVE  cache = job[j].got
      BY DEF FullPullIsTheCache
    <2>1. cache \in Snapshots /\ job[j].got \in Snapshots
      BY <1>1 DEF IInv, TypeOK
    <2>2. j \in Working /\ Fetched(j)
      BY DEF Working, Fetched
    <2>3. DealtWith
      BY <1>1 DEF IInv, Alone
    <2>4. \A r \in Records : cache[r] = job[j].got[r]
      BY <2>2, <2>3 DEF DealtWith
    <2> QED
      BY <2>1, <2>4 DEF Snapshots
  <1> QED
    BY <1>1, IInvHolds, PTL

=============================================================================
