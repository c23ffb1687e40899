------------------------- MODULE OrderNoticesProofs -------------------------
(***************************************************************************)
(* Theorems about the outbox relay, the notices of a placed order and the  *)
(* two composed, for any events, queues, routes, batch size, recipients,   *)
(* attempts and number of faults.                                          *)
(*                                                                         *)
(* What makes PUBLISHED trustworthy is that the relay's position in an     *)
(* event's routes never runs ahead of the jobs it has created, whichever   *)
(* call failed or lost its reply; RelayInv adds that fact.                 *)
(*                                                                         *)
(* What keeps a second e-mail from going out is an account: as many mails  *)
(* as losses of their record, and one more just while the row says SENT or *)
(* the attempt is about to say so (MailIsSteady).  What keeps a row from   *)
(* being left behind is that a delivery's job is done only with its row    *)
(* SENT, so that a queue that knows the job and ignores it does no harm.   *)
(***************************************************************************)
EXTENDS OrderNotices, TLAPS

-----------------------------------------------------------------------------
(* The relay: the inductive invariant *)

\* The routes the relay counts as added have their job.
AddedAreQueued ==
  current # NoEvent => \A i \in 1..added : jobs[current][Routes[current][i]] > 0

\* No queue has been given a second job for an event.
AtMostOneJob == \A e \in Events, q \in Queues : jobs[e][q] \in {0, 1}

RelayInv ==
  /\ TypeOK
  /\ PublishedIsQueuedEverywhere
  /\ AddedAreQueued
  /\ AtMostOneJob

\* The routes of an event are queues.
LEMMA RoutesType ==
  ASSUME NEW e \in Events
  PROVE  /\ Len(Routes[e]) \in Nat
         /\ \A i \in 1..Len(Routes[e]) : Routes[e][i] \in Queues
         /\ DOMAIN Routes[e] = 1..Len(Routes[e])
<1>1. Routes[e] \in Seq(Queues)
  BY OutboxRelayAssumption DEF OutboxRelayAssumption
<1>. QED
  BY <1>1

\* The queue the relay is about to add to.
LEMMA AddingTo ==
  ASSUME TypeOK, Adding
  PROVE  /\ current \in Events /\ status[current] # "absent"
         /\ added + 1 \in 1..Len(Routes[current])
         /\ Routes[current][added + 1] \in Queues
<1>1. current \in Events /\ status[current] # "absent"
  BY DEF TypeOK, Adding
<1>2. added \in Nat /\ added < Len(Routes[current])
  BY <1>1, RoutesType DEF TypeOK, Adding
<1>. QED
  BY <1>1, <1>2, RoutesType

\* Adding a job touches that event's count in that queue only, and never lowers
\* a count or raises one above 1.
LEMMA AddEffect ==
  ASSUME TypeOK, AtMostOneJob, NEW e \in Events, NEW q \in Queues
  PROVE  /\ Add(e, q) \in [Events -> [Queues -> Nat]]
         /\ Add(e, q)[e][q] = 1
         /\ \A f \in Events, p \in Queues :
              /\ f # e \/ p # q => Add(e, q)[f][p] = jobs[f][p]
              /\ Add(e, q)[f][p] \in {0, 1}
              /\ jobs[f][p] > 0 => Add(e, q)[f][p] > 0
  BY DEF TypeOK, AtMostOneJob, Add

-----------------------------------------------------------------------------
(* The relay: invariance *)

\* Nothing is written, published or running at the start.
LEMMA RelayInit == Init => RelayInv
<1>. SUFFICES ASSUME Init
              PROVE  RelayInv
  OBVIOUS
<1>1. TypeOK
  <2>1. added \in 0..(IF current = NoEvent THEN 0 ELSE Len(Routes[current]))
    BY DEF Init
  <2>2. faults \in 0..MaxFaults
    BY OutboxRelayAssumption DEF OutboxRelayAssumption, Init
  <2>. QED
    BY <2>1, <2>2 DEF Init, TypeOK, Statuses
<1>2. PublishedIsQueuedEverywhere
  BY DEF Init, PublishedIsQueuedEverywhere
<1>3. AddedAreQueued /\ AtMostOneJob
  BY DEF Init, AddedAreQueued, AtMostOneJob
<1>. QED
  BY <1>1, <1>2, <1>3 DEF RelayInv

\* Creating a job, or not, and moving on or into the catch clause.
LEMMA AddKeepsInv ==
  ASSUME RelayInv, Adding,
         jobs' \in {jobs, Add(current, Routes[current][added + 1])},
         \/ /\ jobs' = Add(current, Routes[current][added + 1])
            /\ added' = added + 1 /\ caught' = caught
         \/ added' = added /\ caught' = TRUE,
         UNCHANGED <<rowVars, batch, current>>,
         faults' \in 0..MaxFaults
  PROVE  RelayInv'
<1>. DEFINE q == Routes[current][added + 1]
<1>1. /\ current \in Events /\ current # NoEvent /\ q \in Queues
      /\ added + 1 \in 1..Len(Routes[current]) /\ added \in Nat
  BY AddingTo, RoutesType DEF RelayInv, TypeOK, Adding
<1>2. /\ jobs' \in [Events -> [Queues -> Nat]]
      /\ \A e \in Events, p \in Queues :
           /\ jobs'[e][p] \in {0, 1}
           /\ jobs[e][p] > 0 => jobs'[e][p] > 0
  <2>1. CASE jobs' = jobs
    BY <2>1 DEF RelayInv, TypeOK, AtMostOneJob
  <2>2. CASE jobs' = Add(current, q)
    BY <1>1, <2>2, AddEffect DEF RelayInv
  <2>. QED
    BY <2>1, <2>2
<1>3. TypeOK'
  <2>1. added' \in 0..Len(Routes[current])
    BY <1>1, RoutesType DEF RelayInv, TypeOK
  <2>2. caught' \in BOOLEAN
    BY DEF RelayInv, TypeOK
  <2>3. /\ status' = status /\ retries' = retries /\ batch' = batch
        /\ current' = current
    BY DEF rowVars
  <2>. QED
    BY <1>1, <1>2, <2>1, <2>2, <2>3 DEF RelayInv, TypeOK
<1>4. PublishedIsQueuedEverywhere'
  <2>1. \A e \in Events : Targets[e] \subseteq Queues
    BY RoutesType DEF Targets
  <2>. QED
    BY <1>2, <2>1 DEF RelayInv, PublishedIsQueuedEverywhere, Targets, rowVars
<1>5. AddedAreQueued'
  <2>1. ASSUME NEW i \in 1..added'
        PROVE  jobs'[current][Routes[current][i]] > 0
    <3>1. i \in 1..added \/ (i = added + 1 /\ jobs' = Add(current, q))
      BY <1>1, <2>1
    <3>2. Routes[current][i] \in Queues
      BY <1>1, <3>1, RoutesType
    <3>3. CASE i \in 1..added
      BY <1>1, <1>2, <3>2, <3>3 DEF RelayInv, AddedAreQueued
    <3>4. CASE i = added + 1 /\ jobs' = Add(current, q)
      BY <1>1, <3>4, AddEffect DEF RelayInv
    <3>. QED
      BY <3>1, <3>3, <3>4
  <2>. QED
    BY <2>1 DEF AddedAreQueued
<1>6. AtMostOneJob'
  BY <1>2 DEF AtMostOneJob
<1>. QED
  BY <1>3, <1>4, <1>5, <1>6 DEF RelayInv

\* A step that creates no job and either stays at the current event or leaves
\* it keeps the invariant, if it publishes only a fully added event.
LEMMA RowStepKeepsInv ==
  ASSUME RelayInv, UNCHANGED jobs,
         status' \in [Events -> Statuses],
         retries' \in [Events -> Nat],
         \A e \in Events : status[e] # "absent" => status'[e] # "absent",
         \A e \in Events : status'[e] = "PUBLISHED" =>
           \/ status[e] = "PUBLISHED"
           \/ e = current /\ added = Len(Routes[e]),
         batch' \in SUBSET {e \in Events : status'[e] # "absent"},
         \/ Forget
         \/ current' = current /\ added' = added /\ caught' \in BOOLEAN /\ current # NoEvent
         \/ UNCHANGED <<current, added, caught>>
         \/ /\ current = NoEvent /\ added' = added /\ caught' = caught
            /\ current' \in {e \in Events : status'[e] # "absent"},
         faults' \in 0..MaxFaults
  PROVE  RelayInv'
<1>1. ASSUME current = NoEvent
      PROVE  added = 0 /\ caught = FALSE
  BY <1>1 DEF RelayInv, TypeOK
<1>2. TypeOK'
  <2>1. CASE Forget
    <3>1. /\ current' = NoEvent /\ added' = 0 /\ caught' = FALSE
      BY <2>1 DEF Forget
    <3>2. added' \in 0..(IF current' = NoEvent THEN 0 ELSE Len(Routes[current']))
      BY <3>1
    <3>. QED
      BY <3>1, <3>2 DEF RelayInv, TypeOK
  <2>2. CASE current' = current /\ added' = added /\ caught' \in BOOLEAN /\ current # NoEvent
    BY <2>2 DEF RelayInv, TypeOK
  <2>3. CASE UNCHANGED <<current, added, caught>>
    BY <2>3 DEF RelayInv, TypeOK
  <2>4. CASE /\ current = NoEvent /\ added' = added /\ caught' = caught
             /\ current' \in {e \in Events : status'[e] # "absent"}
    <3>1. current' # NoEvent /\ current' \in Events
      BY <2>4, OutboxRelayAssumption DEF OutboxRelayAssumption
    <3>2. 0 \in 0..Len(Routes[current'])
      BY <3>1, RoutesType
    <3>. QED
      BY <1>1, <2>4, <3>1, <3>2 DEF RelayInv, TypeOK
  <2>. QED
    BY <2>1, <2>2, <2>3, <2>4
<1>3. PublishedIsQueuedEverywhere'
  <2>1. ASSUME NEW e \in Events, status'[e] = "PUBLISHED", NEW q \in Targets[e]
        PROVE  jobs[e][q] > 0
    <3>1. CASE status[e] = "PUBLISHED"
      BY <2>1, <3>1 DEF RelayInv, PublishedIsQueuedEverywhere
    <3>2. CASE e = current /\ added = Len(Routes[e])
      <4>1. PICK i \in 1..Len(Routes[e]) : q = Routes[e][i]
        BY <2>1, RoutesType DEF Targets
      <4>2. current # NoEvent
        BY <2>1, <3>2, OutboxRelayAssumption DEF OutboxRelayAssumption
      <4>. QED
        BY <3>2, <4>1, <4>2 DEF RelayInv, AddedAreQueued
    <3>. QED
      BY <2>1, <3>1, <3>2
  <2>. QED
    BY <2>1 DEF PublishedIsQueuedEverywhere, Targets
<1>4. AddedAreQueued'
  <2>1. current' = NoEvent \/ added' = 0 \/ (current' = current /\ added' = added)
    BY <1>1 DEF Forget
  <2>2. CASE added' = 0
    BY <2>2 DEF AddedAreQueued
  <2>3. CASE current' = current /\ added' = added
    BY <2>3 DEF RelayInv, AddedAreQueued
  <2>. QED
    BY <2>1, <2>2, <2>3 DEF AddedAreQueued
<1>5. AtMostOneJob'
  BY DEF RelayInv, AtMostOneJob
<1>. QED
  BY <1>2, <1>3, <1>4, <1>5 DEF RelayInv

\* RelayInv is inductive.
LEMMA RelayStep == RelayInv /\ [Next]_vars => RelayInv'
<1>. SUFFICES ASSUME RelayInv, [Next]_vars
              PROVE  RelayInv'
  OBVIOUS
<1>. USE DEF rowVars, passVars
<1>1. /\ status \in [Events -> Statuses] /\ retries \in [Events -> Nat]
      /\ batch \in SUBSET {e \in Events : status[e] # "absent"}
      /\ faults \in 0..MaxFaults
  BY DEF RelayInv, TypeOK
<1>2. Fault => faults' \in 0..MaxFaults
  BY <1>1, OutboxRelayAssumption DEF OutboxRelayAssumption, Fault
<1>3. current # NoEvent => current \in Events /\ status[current] # "absent"
  BY DEF RelayInv, TypeOK
<1>4. ASSUME NEW e \in Events, Write(e)
      PROVE  RelayInv'
  BY <1>1, <1>4, RowStepKeepsInv DEF Write, Statuses
<1>5. CASE StartPass
  <2>1. Eligible \subseteq {e \in Events : status[e] # "absent"}
    BY DEF Eligible
  <2>2. batch' \in SUBSET {e \in Events : status[e] # "absent"}
    BY <1>5, <2>1 DEF StartPass, Oldest
  <2>. QED
    BY <1>1, <1>5, <2>2, RowStepKeepsInv DEF StartPass
<1>6. CASE TakeEvent
  <2>1. /\ current = NoEvent /\ current' \in batch /\ batch' \subseteq batch
        /\ UNCHANGED <<rowVars, jobs, added, caught, faults>>
    BY <1>6 DEF TakeEvent
  <2>. QED
    BY <1>1, <2>1, RowStepKeepsInv
<1>7. CASE AddJob
  BY <1>1, <1>7, AddKeepsInv DEF AddJob
<1>8. CASE MarkPublished
  BY <1>1, <1>3, <1>8, RowStepKeepsInv DEF MarkPublished, Statuses
<1>9. CASE MarkFailed
  BY <1>1, <1>3, <1>9, RowStepKeepsInv DEF MarkFailed, Statuses, RelayInv, TypeOK
<1>10. CASE AddFails
  BY <1>1, <1>2, <1>10, AddKeepsInv DEF AddFails
<1>11. CASE MarkPublishedFails
  BY <1>1, <1>2, <1>3, <1>11, RowStepKeepsInv DEF MarkPublishedFails, Statuses
<1>12. CASE MarkFailedThrows
  <2>1. current \in Events /\ faults' \in 0..MaxFaults /\ batch' = {}
        /\ Forget /\ UNCHANGED jobs
    BY <1>2, <1>3, <1>12 DEF MarkFailedThrows, RelayInv, TypeOK
  <2>2. /\ status' \in [Events -> Statuses] /\ retries' \in [Events -> Nat]
        /\ \A e \in Events : status[e] # "absent" => status'[e] # "absent"
        /\ \A e \in Events : status'[e] = "PUBLISHED" => status[e] = "PUBLISHED"
    <3>1. CASE UNCHANGED rowVars
      BY <1>1, <3>1
    <3>2. CASE /\ status' = [status EXCEPT ![current] = "FAILED"]
               /\ retries' = [retries EXCEPT ![current] = @ + 1]
      BY <1>1, <2>1, <3>2 DEF Statuses
    <3>. QED
      BY <1>12, <3>1, <3>2 DEF MarkFailedThrows
  <2>. QED
    BY <2>1, <2>2, RowStepKeepsInv
<1>13. CASE Crash
  BY <1>1, <1>2, <1>13, RowStepKeepsInv DEF Crash
<1>14. CASE UNCHANGED vars
  BY <1>1, <1>14, RowStepKeepsInv DEF vars
<1>. QED
  BY <1>4, <1>5, <1>6, <1>7, <1>8, <1>9, <1>10, <1>11, <1>12, <1>13, <1>14
     DEF Next, RelayLives, Relay

\* RelayInv is an invariant.
LEMMA RelayInvariant == Spec => []RelayInv
  BY RelayInit, RelayStep, PTL DEF Spec

\* The variables of the relay keep their types; in particular its position in
\* an event's routes never passes their end or survives the event.
THEOREM RelayTypeCorrect == Spec => []TypeOK
  BY RelayInvariant, PTL DEF RelayInv

\* A PUBLISHED row has a job in every queue its event is routed to, after any
\* sequence of failed calls, lost replies and crashes.
THEOREM PublishedIsTrustworthy == Spec => []PublishedIsQueuedEverywhere
  BY RelayInvariant, PTL DEF RelayInv

-----------------------------------------------------------------------------
(* The relay implements the fan-out it promises *)

\* Every step of the relay is a step of the fan-out or leaves it alone.
LEMMA FanOutStep ==
  RelayInv /\ [Next]_vars => [FanOut!Next]_<<Written, jobs>>
<1>. SUFFICES ASSUME RelayInv, [Next]_vars
              PROVE  [FanOut!Next]_<<Written, jobs>>
  OBVIOUS
<1>. USE DEF rowVars, passVars
<1>1. current # NoEvent => current \in Events /\ status[current] # "absent"
  BY DEF RelayInv, TypeOK
<1>2. status \in [Events -> Statuses]
  BY DEF RelayInv, TypeOK
<1>3. ASSUME NEW e \in Events, Write(e)
      PROVE  FanOut!Write(e)
  BY <1>2, <1>3 DEF Write, FanOut!Write, Written
<1>4. ASSUME Adding, jobs' = Add(current, Routes[current][added + 1]), UNCHANGED status
      PROVE  \/ \E e \in Events, q \in Queues : FanOut!Enqueue(e, q)
             \/ UNCHANGED <<Written, jobs>>
  <2>. DEFINE q == Routes[current][added + 1]
  <2>1. current \in Written /\ current \in Events /\ q \in Queues
    BY <1>4, AddingTo DEF RelayInv, Written
  <2>2. q \in Targets[current]
    BY <1>4, <2>1, AddingTo, RoutesType DEF RelayInv, Targets
  <2>3. Written' = Written
    BY <1>4 DEF Written
  <2>4. CASE jobs[current][q] = 0
    <3>1. jobs' = [jobs EXCEPT ![current][q] = 1]
      BY <1>4, <2>1, <2>4 DEF Add, RelayInv, TypeOK
    <3>. QED
      BY <2>1, <2>2, <2>3, <2>4, <3>1 DEF FanOut!Enqueue
  <2>5. CASE jobs[current][q] # 0
    <3>1. jobs' = jobs
      BY <1>4, <2>1, <2>5 DEF Add, RelayInv, TypeOK
    <3>. QED
      BY <2>3, <3>1
  <2>. QED
    BY <2>4, <2>5
<1>5. ASSUME UNCHANGED jobs,
             \/ UNCHANGED status
             \/ /\ current # NoEvent
                /\ \E s \in {"PUBLISHED", "FAILED"} :
                     status' = [status EXCEPT ![current] = s]
      PROVE  UNCHANGED <<Written, jobs>>
  BY <1>1, <1>2, <1>5 DEF Written
<1>6. caught => current # NoEvent
  BY DEF RelayInv, TypeOK
<1>7. CASE StartPass \/ TakeEvent \/ Crash \/ UNCHANGED vars
  BY <1>5, <1>7 DEF StartPass, TakeEvent, Crash, vars
<1>8. CASE MarkPublished \/ MarkFailed \/ MarkPublishedFails \/ MarkFailedThrows
  BY <1>5, <1>6, <1>8
     DEF MarkPublished, MarkFailed, MarkPublishedFails, MarkFailedThrows
<1>9. CASE AddJob
  BY <1>4, <1>9 DEF AddJob, FanOut!Next
<1>10. CASE AddFails
  BY <1>4, <1>5, <1>10 DEF AddFails, FanOut!Next
<1>. QED
  BY <1>3, <1>7, <1>8, <1>9, <1>10 DEF Next, RelayLives, Relay, FanOut!Next

\* The relay and its outbox implement the fan-out: one job per event and queue,
\* for committed events and their routes only.
THEOREM RelayImplementsFanOut == Spec => FanOutSafety
<1>1. Init => FanOut!Init
  BY DEF Init, FanOut!Init, Written
<1>. QED
  BY <1>1, RelayInvariant, FanOutStep, PTL DEF Spec, FanOutSafety, FanOut!Safety

-----------------------------------------------------------------------------
(* The notices: the inductive invariant *)

\* The job's attempts, and how often the administrators were told: once more
\* than attempts that had told them were lost, from then until the job is over.
NoticeIsSteady ==
  /\ job = "active" <=> at # "idle"
  /\ job \in {"waiting", "active"} => stalls <= 1
  /\ IF at = "told" THEN told = retold + 1
     ELSE told = retold \/ (job = "done" /\ told = retold + 1)
  /\ retold <= failures

\* 1 while the row, or the attempt about to write it, vouches for an e-mail.
Accounted(a) == IF delivery[a] = "SENT" \/ mailAt[a] = "mark" THEN 1 ELSE 0

\* A delivery's job, its row and the e-mails sent agree.
MailIsSteady(a) ==
  /\ mailJob[a] = "active" <=> mailAt[a] # "idle"
  /\ mailJob[a] \in {"waiting", "active"} =>
       mailStalls[a] <= 1 /\ tries[a] < DeliveryAttempts
  /\ mailJob[a] = "none" => mailStalls[a] = 0 /\ tries[a] = 0
  /\ mailAt[a] \in {"send", "mark"} => delivery[a] # "SENT"
  /\ mailAt[a] = "end" \/ mailJob[a] = "done" => delivery[a] = "SENT"
  /\ mails[a] = unsure[a] + Accounted(a)
  /\ unsure[a] <= failures
  /\ mailAt[a] = "catch" /\ delivery[a] = "SENT" => unsure[a] < failures

\* A pending row has a job that will mail it, or that failed trying.
InHand(a) ==
  delivery[a] = "PENDING" => mailJob[a] \in {"waiting", "active", "failed"}

\* What an attempt has listed and not queued yet is all that is not in hand.
PendingIsTracked ==
  /\ at = "queue" => \A a \in Recipients \ left : InHand(a)
  /\ at = "told" \/ (job = "done" /\ to # {}) => \A a \in Recipients : InHand(a)

\* The inductive invariant of the notices.
NoticesInv ==
  /\ NoticesTypeOK
  /\ NoticeIsSteady
  /\ \A a \in Recipients : MailIsSteady(a)
  /\ PendingIsTracked

-----------------------------------------------------------------------------

\* Nothing is written or sent at the start.
LEMMA NoticesStart == NoticesInit => NoticesInv
<1>. SUFFICES ASSUME NoticesInit
              PROVE  NoticesInv
  OBVIOUS
<1>. USE NoticesAssumption DEF NoticesAssumption, NoticesInit
<1>1. NoticesTypeOK
  <2>1. 0 \in 0..MaxFailures /\ 0 \in 0..(MaxFailures + 1) /\ 0 \in 0..DeliveryAttempts
    OBVIOUS
  <2>2. /\ tries \in [Recipients -> 0..DeliveryAttempts]
        /\ mailStalls \in [Recipients -> 0..2]
        /\ mails \in [Recipients -> 0..(MaxFailures + 1)]
        /\ unsure \in [Recipients -> 0..MaxFailures]
    BY <2>1
  <2>3. /\ delivery \in [Recipients -> {"none", "PENDING", "FAILED", "SENT"}]
        /\ mailJob \in [Recipients -> JobStates]
        /\ mailAt \in [Recipients -> {"idle", "read", "send", "mark", "catch", "end"}]
    BY DEF JobStates
  <2>4. job \in JobStates \ {"none"} /\ at = "idle"
    BY DEF JobStates
  <2>6. rowExists \in BOOLEAN
    OBVIOUS
  <2>7. stalls \in 0..2
    OBVIOUS
  <2>8. to \subseteq Recipients /\ left \subseteq Recipients
    OBVIOUS
  <2>5. /\ told \in 0..(MaxFailures + 1) /\ retold \in 0..MaxFailures
        /\ failures \in 0..MaxFailures
    BY <2>1
  <2>. QED
    BY <2>2, <2>3, <2>4, <2>5, <2>6, <2>7, <2>8 DEF NoticesTypeOK
<1>2. NoticeIsSteady /\ PendingIsTracked
  BY DEF NoticeIsSteady, PendingIsTracked
<1>3. ASSUME NEW a \in Recipients
      PROVE  MailIsSteady(a)
  BY DEF MailIsSteady, Accounted
<1>. QED
  BY <1>1, <1>2, <1>3 DEF NoticesInv

-----------------------------------------------------------------------------
(* The notification job *)

\* A job taken starts from the first step of its handler.
LEMMA TakeKeeps ==
  ASSUME NoticesInv, Take
  PROVE  NoticesInv'
<1>1. NoticesTypeOK'
  BY DEF NoticesInv, Take, mailVars, NoticesTypeOK, JobStates
<1>2. NoticeIsSteady'
  BY DEF NoticesInv, Take, NoticeIsSteady
<1>3. ASSUME NEW a \in Recipients
      PROVE  MailIsSteady(a)'
  BY DEF NoticesInv, Take, mailVars, MailIsSteady, Accounted
<1>4. PendingIsTracked'
  BY DEF Take, PendingIsTracked
<1>. QED
  BY <1>1, <1>2, <1>3, <1>4 DEF NoticesInv

\* Nobody to tell ends the job with no recipients; otherwise the attempt goes on.
LEMMA ResolveKeeps ==
  ASSUME NoticesInv, Resolve
  PROVE  NoticesInv'
<1>1. NoticesTypeOK'
  BY DEF NoticesInv, Resolve, mailVars, NoticesTypeOK, JobStates
<1>2. NoticeIsSteady'
  BY DEF NoticesInv, Resolve, At, NoticeIsSteady
<1>3. ASSUME NEW a \in Recipients
      PROVE  MailIsSteady(a)'
  BY DEF NoticesInv, Resolve, mailVars, MailIsSteady, Accounted
<1>4. PendingIsTracked'
  BY DEF Resolve, At, PendingIsTracked
<1>. QED
  BY <1>1, <1>2, <1>3, <1>4 DEF NoticesInv

\* The notification row plays no part in the invariant.
LEMMA UpsertKeeps ==
  ASSUME NoticesInv, Upsert
  PROVE  NoticesInv'
<1>1. NoticesTypeOK'
  BY DEF NoticesInv, Upsert, mailVars, NoticesTypeOK
<1>2. NoticeIsSteady'
  BY DEF NoticesInv, Upsert, At, NoticeIsSteady
<1>3. ASSUME NEW a \in Recipients
      PROVE  MailIsSteady(a)'
  BY DEF NoticesInv, Upsert, mailVars, MailIsSteady, Accounted
<1>4. PendingIsTracked'
  BY DEF Upsert, At, PendingIsTracked
<1>. QED
  BY <1>1, <1>2, <1>3, <1>4 DEF NoticesInv

\* New rows are PENDING before anything claims that they are in hand.
LEMMA CreateDeliveriesKeeps ==
  ASSUME NoticesInv, CreateDeliveries
  PROVE  NoticesInv'
<1>1. NoticesTypeOK'
  BY DEF NoticesInv, CreateDeliveries, NoticesTypeOK
<1>2. NoticeIsSteady'
  BY DEF NoticesInv, CreateDeliveries, At, NoticeIsSteady
<1>3. ASSUME NEW a \in Recipients
      PROVE  MailIsSteady(a)'
  BY DEF NoticesInv, CreateDeliveries, MailIsSteady, Accounted
<1>4. PendingIsTracked'
  BY DEF CreateDeliveries, At, PendingIsTracked
<1>. QED
  BY <1>1, <1>2, <1>3, <1>4 DEF NoticesInv

\* All that is pending is listed, so all that is not listed is in hand.
LEMMA ListPendingKeeps ==
  ASSUME NoticesInv, ListPending
  PROVE  NoticesInv'
<1>1. NoticesTypeOK'
  BY DEF NoticesInv, ListPending, mailVars, NoticesTypeOK
<1>2. NoticeIsSteady'
  BY DEF NoticesInv, ListPending, At, NoticeIsSteady
<1>3. ASSUME NEW a \in Recipients
      PROVE  MailIsSteady(a)'
  BY DEF NoticesInv, ListPending, mailVars, MailIsSteady, Accounted
<1>4. PendingIsTracked'
  BY DEF ListPending, At, mailVars, PendingIsTracked, InHand
<1>. QED
  BY <1>1, <1>2, <1>3, <1>4 DEF NoticesInv

\* With nothing listed any more, every row is in hand.
LEMMA TellAdminsKeeps ==
  ASSUME NoticesInv, TellAdmins
  PROVE  NoticesInv'
<1>1. NoticesTypeOK'
  BY NoticesAssumption DEF NoticesInv, TellAdmins, At, mailVars, NoticesTypeOK,
     NoticeIsSteady
<1>2. NoticeIsSteady'
  BY DEF NoticesInv, TellAdmins, At, NoticeIsSteady
<1>3. ASSUME NEW a \in Recipients
      PROVE  MailIsSteady(a)'
  BY DEF NoticesInv, TellAdmins, mailVars, MailIsSteady, Accounted
<1>4. PendingIsTracked'
  BY DEF NoticesInv, TellAdmins, At, mailVars, PendingIsTracked, InHand
<1>. QED
  BY <1>1, <1>2, <1>3, <1>4 DEF NoticesInv

\* The job is over as the attempt left it.
LEMMA CompleteKeeps ==
  ASSUME NoticesInv, Complete
  PROVE  NoticesInv'
<1>1. NoticesTypeOK'
  BY DEF NoticesInv, Complete, mailVars, NoticesTypeOK, JobStates
<1>2. NoticeIsSteady'
  BY DEF NoticesInv, Complete, NoticeIsSteady
<1>3. ASSUME NEW a \in Recipients
      PROVE  MailIsSteady(a)'
  BY DEF NoticesInv, Complete, mailVars, MailIsSteady, Accounted
<1>4. PendingIsTracked'
  BY DEF NoticesInv, Complete, At, mailVars, PendingIsTracked, InHand
<1>. QED
  BY <1>1, <1>2, <1>3, <1>4 DEF NoticesInv

\* An attempt that told the administrators does not throw any more.
LEMMA ThrowKeeps ==
  ASSUME NoticesInv, Throw
  PROVE  NoticesInv'
<1>1. NoticesTypeOK'
  BY NoticesAssumption DEF NoticesInv, Throw, Failure, mailVars, NoticesTypeOK, JobStates
<1>2. NoticeIsSteady'
  BY DEF NoticesInv, Throw, Failure, NoticesTypeOK, NoticeIsSteady
<1>3. ASSUME NEW a \in Recipients
      PROVE  MailIsSteady(a)'
  BY DEF NoticesInv, Throw, Failure, mailVars, NoticesTypeOK, MailIsSteady, Accounted
<1>4. PendingIsTracked'
  BY DEF Throw, PendingIsTracked
<1>. QED
  BY <1>1, <1>2, <1>3, <1>4 DEF NoticesInv

\* The worker's death ends every attempt; e-mails not marked become unsure.
LEMMA DieKeeps ==
  ASSUME NoticesInv, Die
  PROVE  NoticesInv'
<1>1. NoticesTypeOK'
  BY NoticesAssumption DEF NoticesInv, Die, Failure, Rerun, Count, NoticesTypeOK,
     NoticeIsSteady, MailIsSteady, JobStates
<1>2. NoticeIsSteady'
  BY DEF NoticesInv, Die, Failure, Rerun, Count, At, NoticesTypeOK, NoticeIsSteady
<1>3. ASSUME NEW a \in Recipients
      PROVE  MailIsSteady(a)'
  BY DEF NoticesInv, Die, Failure, Rerun, Count, MailAt, NoticesTypeOK, MailIsSteady,
     Accounted
<1>4. PendingIsTracked'
  BY DEF NoticesInv, Die, Rerun, PendingIsTracked, InHand
<1>. QED
  BY <1>1, <1>2, <1>3, <1>4 DEF NoticesInv

\* A listed row is in hand once it is queued: a job that was done left it SENT.
LEMMA QueueDeliveryKeeps ==
  ASSUME NoticesInv, NEW r \in Recipients, QueueDelivery(r)
  PROVE  NoticesInv'
<1>1. NoticesTypeOK'
  BY DEF NoticesInv, QueueDelivery, NoticesTypeOK, JobStates
<1>2. NoticeIsSteady'
  BY DEF NoticesInv, QueueDelivery, NoticeIsSteady
<1>3. ASSUME NEW a \in Recipients
      PROVE  MailIsSteady(a)'
  BY NoticesAssumption DEF NoticesInv, QueueDelivery, MailIsSteady, Accounted
<1>4. PendingIsTracked'
  BY DEF NoticesInv, QueueDelivery, NoticesTypeOK, MailIsSteady,
     PendingIsTracked, InHand, JobStates
<1>. QED
  BY <1>1, <1>2, <1>3, <1>4 DEF NoticesInv

-----------------------------------------------------------------------------
(* A delivery's job *)

\* A delivery's job is taken with attempts left.
LEMMA TakeMailKeeps ==
  ASSUME NoticesInv, NEW r \in Recipients, TakeMail(r)
  PROVE  NoticesInv'
<1>1. NoticesTypeOK'
  BY DEF NoticesInv, TakeMail, MailGoes, jobVars, NoticesTypeOK, JobStates
<1>2. NoticeIsSteady'
  BY DEF NoticesInv, TakeMail, jobVars, NoticeIsSteady
<1>3. ASSUME NEW a \in Recipients
      PROVE  MailIsSteady(a)'
  BY DEF NoticesInv, TakeMail, MailGoes, NoticesTypeOK, MailIsSteady, Accounted
<1>4. PendingIsTracked'
  BY DEF NoticesInv, TakeMail, jobVars, PendingIsTracked, InHand
<1>. QED
  BY <1>1, <1>2, <1>3, <1>4 DEF NoticesInv

\* Only a row that is not SENT goes on to be mailed.
LEMMA ReadDeliveryKeeps ==
  ASSUME NoticesInv, NEW r \in Recipients, ReadDelivery(r)
  PROVE  NoticesInv'
<1>1. NoticesTypeOK'
  BY DEF NoticesInv, ReadDelivery, MailGoes, jobVars, NoticesTypeOK
<1>2. NoticeIsSteady'
  BY DEF NoticesInv, ReadDelivery, jobVars, NoticeIsSteady
<1>3. ASSUME NEW a \in Recipients
      PROVE  MailIsSteady(a)'
  BY DEF NoticesInv, ReadDelivery, MailAt, MailGoes, MailIsSteady, Accounted
<1>4. PendingIsTracked'
  BY DEF NoticesInv, ReadDelivery, jobVars, PendingIsTracked, InHand
<1>. QED
  BY <1>1, <1>2, <1>3, <1>4 DEF NoticesInv

\* One more e-mail, accounted for while the attempt can still mark it.
LEMMA SendKeeps ==
  ASSUME NoticesInv, NEW r \in Recipients, Send(r)
  PROVE  NoticesInv'
<1>1. NoticesTypeOK'
  BY NoticesAssumption DEF NoticesInv, Send, MailAt, MailGoes, jobVars,
     NoticesTypeOK, MailIsSteady, Accounted
<1>2. NoticeIsSteady'
  BY DEF NoticesInv, Send, jobVars, NoticeIsSteady
<1>3. ASSUME NEW a \in Recipients
      PROVE  MailIsSteady(a)'
  BY DEF NoticesInv, Send, MailAt, MailGoes, NoticesTypeOK, MailIsSteady,
     Accounted
<1>4. PendingIsTracked'
  BY DEF NoticesInv, Send, jobVars, PendingIsTracked, InHand
<1>. QED
  BY <1>1, <1>2, <1>3, <1>4 DEF NoticesInv

\* The row accounts for the e-mail from here on.
LEMMA MarkSentKeeps ==
  ASSUME NoticesInv, NEW r \in Recipients, MarkSent(r)
  PROVE  NoticesInv'
<1>1. NoticesTypeOK'
  BY DEF NoticesInv, MarkSent, MailGoes, jobVars, NoticesTypeOK
<1>2. NoticeIsSteady'
  BY DEF NoticesInv, MarkSent, jobVars, NoticeIsSteady
<1>3. ASSUME NEW a \in Recipients
      PROVE  MailIsSteady(a)'
  BY DEF NoticesInv, MarkSent, MailAt, MailGoes, NoticesTypeOK, MailIsSteady,
     Accounted
<1>4. PendingIsTracked'
  BY DEF NoticesInv, MarkSent, jobVars, PendingIsTracked, InHand
<1>. QED
  BY <1>1, <1>2, <1>3, <1>4 DEF NoticesInv

\* A job is done only with its row SENT.
LEMMA EndMailKeeps ==
  ASSUME NoticesInv, NEW r \in Recipients, EndMail(r)
  PROVE  NoticesInv'
<1>1. NoticesTypeOK'
  BY DEF NoticesInv, EndMail, MailGoes, jobVars, NoticesTypeOK, JobStates
<1>2. NoticeIsSteady'
  BY DEF NoticesInv, EndMail, jobVars, NoticeIsSteady
<1>3. ASSUME NEW a \in Recipients
      PROVE  MailIsSteady(a)'
  BY DEF NoticesInv, EndMail, MailAt, MailGoes, NoticesTypeOK, MailIsSteady,
     Accounted
<1>4. PendingIsTracked'
  BY DEF NoticesInv, EndMail, MailAt, jobVars, MailIsSteady, PendingIsTracked,
     InHand
<1>. QED
  BY <1>1, <1>2, <1>3, <1>4 DEF NoticesInv

\* Nothing was sent; the attempt counts.
LEMMA FailBeforeSendKeeps ==
  ASSUME NoticesInv, NEW r \in Recipients, FailBeforeSend(r)
  PROVE  NoticesInv'
<1>1. NoticesTypeOK'
  BY NoticesAssumption DEF NoticesInv, FailBeforeSend, Failure, MailAt, MailGoes,
     AttemptFails, jobVars, NoticesTypeOK, MailIsSteady, JobStates
<1>2. NoticeIsSteady'
  BY DEF NoticesInv, FailBeforeSend, Failure, AttemptFails, jobVars, NoticesTypeOK,
     NoticeIsSteady
<1>3. ASSUME NEW a \in Recipients
      PROVE  MailIsSteady(a)'
  BY DEF NoticesInv, FailBeforeSend, Failure, MailAt, MailGoes, AttemptFails,
     NoticesTypeOK, MailIsSteady, Accounted
<1>4. PendingIsTracked'
  BY DEF NoticesInv, FailBeforeSend, Failure, AttemptFails, jobVars, PendingIsTracked,
     InHand
<1>. QED
  BY <1>1, <1>2, <1>3, <1>4 DEF NoticesInv

\* What may have been sent is unsure, and the row is not SENT.
LEMMA FailToSendKeeps ==
  ASSUME NoticesInv, NEW r \in Recipients, FailToSend(r)
  PROVE  NoticesInv'
<1>1. NoticesTypeOK'
  BY NoticesAssumption DEF NoticesInv, FailToSend, MailAt, MailGoes,
     Failure, jobVars, NoticesTypeOK, MailIsSteady, Accounted, JobStates
<1>2. NoticeIsSteady'
  BY DEF NoticesInv, FailToSend, Failure, jobVars, NoticesTypeOK,
     NoticeIsSteady
<1>3. ASSUME NEW a \in Recipients
      PROVE  MailIsSteady(a)'
  BY DEF NoticesInv, FailToSend, MailAt, MailGoes, Failure, NoticesTypeOK,
     MailIsSteady, Accounted
<1>4. PendingIsTracked'
  BY DEF NoticesInv, FailToSend, Failure, jobVars, NoticesTypeOK,
     PendingIsTracked, InHand
<1>. QED
  BY <1>1, <1>2, <1>3, <1>4 DEF NoticesInv

\* Either the row says SENT, or the e-mail has become unsure.
LEMMA FailToMarkKeeps ==
  ASSUME NoticesInv, NEW r \in Recipients, FailToMark(r)
  PROVE  NoticesInv'
<1>1. NoticesTypeOK'
  BY NoticesAssumption DEF NoticesInv, FailToMark, MailAt, MailGoes,
     Failure, jobVars, NoticesTypeOK, MailIsSteady, Accounted, JobStates
<1>2. NoticeIsSteady'
  BY DEF NoticesInv, FailToMark, Failure, jobVars, NoticesTypeOK,
     NoticeIsSteady
<1>3. ASSUME NEW a \in Recipients
      PROVE  MailIsSteady(a)'
  BY DEF NoticesInv, FailToMark, MailAt, MailGoes, Failure, NoticesTypeOK,
     MailIsSteady, Accounted
<1>4. PendingIsTracked'
  BY DEF NoticesInv, FailToMark, Failure, jobVars, NoticesTypeOK,
     PendingIsTracked, InHand
<1>. QED
  BY <1>1, <1>2, <1>3, <1>4 DEF NoticesInv

\* A SENT that FAILED is written over leaves its e-mail unsure.
LEMMA CatchKeeps ==
  ASSUME NoticesInv, NEW r \in Recipients, Catch(r)
  PROVE  NoticesInv'
<1>1. NoticesTypeOK'
  BY NoticesAssumption DEF NoticesInv, Catch, MailAt, MailGoes,
     AttemptFails, jobVars, NoticesTypeOK, MailIsSteady, Accounted, JobStates
<1>2. NoticeIsSteady'
  BY DEF NoticesInv, Catch, AttemptFails, jobVars, NoticesTypeOK,
     NoticeIsSteady
<1>3. ASSUME NEW a \in Recipients
      PROVE  MailIsSteady(a)'
  BY DEF NoticesInv, Catch, MailAt, MailGoes, AttemptFails, NoticesTypeOK,
     MailIsSteady, Accounted
<1>4. PendingIsTracked'
  BY DEF NoticesInv, Catch, AttemptFails, jobVars, NoticesTypeOK,
     PendingIsTracked, InHand
<1>. QED
  BY <1>1, <1>2, <1>3, <1>4 DEF NoticesInv

\* A forgotten job leaves a SENT row: its id may be taken again.
LEMMA ForgetMailKeeps ==
  ASSUME NoticesInv, NEW r \in Recipients, ForgetMail(r)
  PROVE  NoticesInv'
<1>1. NoticesTypeOK'
  BY NoticesAssumption DEF NoticesInv, ForgetMail, jobVars, NoticesTypeOK,
     JobStates
<1>2. NoticeIsSteady'
  BY DEF NoticesInv, ForgetMail, jobVars, NoticeIsSteady
<1>3. ASSUME NEW a \in Recipients
      PROVE  MailIsSteady(a)'
  BY DEF NoticesInv, ForgetMail, NoticesTypeOK, MailIsSteady, Accounted
<1>4. PendingIsTracked'
  BY DEF NoticesInv, ForgetMail, jobVars, PendingIsTracked, InHand
<1>. QED
  BY <1>1, <1>2, <1>3, <1>4 DEF NoticesInv

-----------------------------------------------------------------------------
(* The notices: invariance *)

\* NoticesInv is inductive.
LEMMA NoticesStep == NoticesInv /\ [NoticesNext]_noticesVars => NoticesInv'
<1>. SUFFICES ASSUME NoticesInv, [NoticesNext]_noticesVars
              PROVE  NoticesInv'
  OBVIOUS
<1>1. CASE NoticeStep
  <2>1. CASE Take \/ Resolve \/ Upsert
    BY <2>1, TakeKeeps, ResolveKeeps, UpsertKeeps
  <2>2. CASE CreateDeliveries \/ ListPending \/ TellAdmins \/ Complete
    BY <2>2, CreateDeliveriesKeeps, ListPendingKeeps, TellAdminsKeeps, CompleteKeeps
  <2>3. CASE \E a \in Recipients : QueueDelivery(a)
    BY <2>3, QueueDeliveryKeeps
  <2>. QED
    BY <1>1, <2>1, <2>2, <2>3 DEF NoticeStep
<1>2. CASE Throw \/ Die
  BY <1>2, ThrowKeeps, DieKeeps
<1>3. ASSUME NEW a \in Recipients, MailStep(a)
      PROVE  NoticesInv'
  BY <1>3, TakeMailKeeps, ReadDeliveryKeeps, SendKeeps, MarkSentKeeps, CatchKeeps,
     EndMailKeeps DEF MailStep
<1>4. ASSUME NEW a \in Recipients, MailFault(a) \/ ForgetMail(a)
      PROVE  NoticesInv'
  BY <1>4, FailBeforeSendKeeps, FailToSendKeeps, FailToMarkKeeps, ForgetMailKeeps
     DEF MailFault
<1>5. CASE UNCHANGED noticesVars
  BY <1>5 DEF noticesVars, jobVars, mailVars, NoticesInv, NoticesTypeOK,
     NoticeIsSteady, MailIsSteady, Accounted, PendingIsTracked, InHand
<1>. QED
  BY <1>1, <1>2, <1>3, <1>4, <1>5 DEF NoticesNext, NoticesLive, Rest

\* What NoticesInv says of the e-mails sent.
LEMMA NoticesInvMailedOnce == NoticesInv => MailedOnce
  BY DEF NoticesInv, NoticesTypeOK, NoticeIsSteady, MailIsSteady, Accounted, MailedOnce

\* ... and of the rows left behind.
LEMMA NoticesInvPending == NoticesInv => PendingIsInHand
  BY DEF NoticesInv, PendingIsTracked, InHand, PendingIsInHand

\* NoticesInv is an invariant.
LEMMA NoticesInvariant == NoticesSpec => []NoticesInv
  BY NoticesStart, NoticesStep, PTL DEF NoticesSpec

\* The variables of the notices keep their types; in particular no delivery is
\* tried more often than its attempts, and no job outlives two deaths.
THEOREM NoticesTypeCorrect == NoticesSpec => []NoticesTypeOK
  BY NoticesInvariant, PTL DEF NoticesInv

\* No recipient is mailed twice but for an e-mail whose sending went unrecorded,
\* through repeated attempts, lost answers, deaths of the worker and ids that
\* the queue has forgotten.
THEOREM NobodyMailedTwice == NoticesSpec => []MailedOnce
  BY NoticesInvariant, NoticesInvMailedOnce, PTL

\* A notification's job that ends well leaves every pending row to a job,
\* also the rows of an attempt that died before it.
THEOREM NoRowLeftBehind == NoticesSpec => []PendingIsInHand
  BY NoticesInvariant, NoticesInvPending, PTL

\* A row that says SENT stays so, and its recipient is not mailed again, but for
\* the attempt that wrote the SENT, lost the answer, and is about to write FAILED.
SentIsFinal ==
  \A a \in Recipients : delivery[a] = "SENT" /\ mailAt[a] # "catch" =>
    delivery'[a] = "SENT" /\ mails'[a] = mails[a]

\* No other attempt, repetition or re-run takes SENT from a row, or sends its
\* e-mail again.
THEOREM SentStaysSent == NoticesSpec => [][SentIsFinal]_noticesVars
<1>1. NoticesInv /\ [NoticesNext]_noticesVars => [SentIsFinal]_noticesVars
  <2>. SUFFICES ASSUME NoticesInv, NoticesNext, NEW a \in Recipients,
                       delivery[a] = "SENT", mailAt[a] # "catch"
                PROVE  delivery'[a] = "SENT" /\ mails'[a] = mails[a]
    BY DEF SentIsFinal
  <2>. USE DEF jobVars, mailVars, NoticesInv, NoticesTypeOK
  <2>1. CASE NoticeStep \/ Throw \/ Die
    BY <2>1 DEF NoticeStep, Take, Resolve, Upsert, CreateDeliveries, ListPending,
       QueueDelivery, TellAdmins, Complete, Throw, Die
  <2>2. ASSUME NEW r \in Recipients, MailStep(r) \/ ForgetMail(r)
        PROVE  delivery'[a] = "SENT" /\ mails'[a] = mails[a]
    BY <2>2 DEF MailStep, TakeMail, ReadDelivery, Send, MarkSent, Catch, EndMail, ForgetMail,
       MailAt, MailIsSteady
  <2>3. ASSUME NEW r \in Recipients, MailFault(r)
        PROVE  delivery'[a] = "SENT" /\ mails'[a] = mails[a]
    BY <2>3 DEF MailFault, FailBeforeSend, FailToSend, FailToMark, MailAt, MailIsSteady
  <2>4. CASE Rest
    BY <2>4 DEF Rest, noticesVars
  <2>. QED
    BY <2>1, <2>2, <2>3, <2>4 DEF NoticesNext, NoticesLive
<1>. QED
  BY <1>1, NoticesInvariant, PTL DEF NoticesSpec

-----------------------------------------------------------------------------
(* The relay and the notices, composed *)

\* Jobs exist only of committed events, in the queues of their routes.
JobsHaveCause ==
  \A e \in Events, q \in Queues :
    jobs[e][q] > 0 => e \in Written /\ q \in Targets[e]

\* What holds between the parts.
SystemInv ==
  /\ RelayInv
  /\ JobsHaveCause
  /\ NoticesInv
  /\ ~JobAdded => NoticesInit

\* A step of the composition is a step of each part, or leaves that part alone.
LEMMA SystemStepParts ==
  SystemNext => [Next]_vars /\ [NoticesNext]_noticesVars
  BY DEF SystemNext, RelayMoves, NoticesMove, WorkerDies, Next, NoticesNext

\* The fan-out gives jobs to committed events and their routes only, and takes
\* none back.
LEMMA FanOutKeepsCause ==
  ASSUME RelayInv, JobsHaveCause, [FanOut!Next]_<<Written, jobs>>
  PROVE  /\ JobsHaveCause'
         /\ \A e \in Events, q \in Queues : jobs[e][q] > 0 => jobs'[e][q] > 0
<1>1. CASE UNCHANGED <<Written, jobs>>
  BY <1>1 DEF JobsHaveCause, Targets
<1>2. ASSUME NEW e \in Events, FanOut!Write(e)
      PROVE  Written \subseteq Written' /\ UNCHANGED jobs
  BY <1>2 DEF FanOut!Write
<1>3. ASSUME NEW e \in Events, NEW q \in Queues, FanOut!Enqueue(e, q)
      PROVE  /\ JobsHaveCause'
             /\ \A f \in Events, p \in Queues : jobs[f][p] > 0 => jobs'[f][p] > 0
  BY <1>3 DEF FanOut!Enqueue, JobsHaveCause, Targets, RelayInv, TypeOK
<1>. QED
  BY <1>1, <1>2, <1>3 DEF FanOut!Next, JobsHaveCause, Targets

\* At the start nothing is committed, added or told.
LEMMA SystemStart ==
  ASSUME PlacedIsServed
  PROVE  SystemInit => SystemInv
<1>1. Init => JobsHaveCause
  BY DEF Init, JobsHaveCause
<1>. QED
  BY <1>1, RelayInit, NoticesStart DEF SystemInit, SystemInv

\* SystemInv is inductive: each part keeps its own invariant, and the notices
\* do not begin before the relay has added their job, which it never takes back.
LEMMA SystemStep ==
  ASSUME PlacedIsServed
  PROVE  SystemInv /\ [SystemNext]_systemVars => SystemInv'
<1>. SUFFICES ASSUME SystemInv, [SystemNext]_systemVars
              PROVE  SystemInv'
  OBVIOUS
<1>1. [Next]_vars /\ [NoticesNext]_noticesVars
  BY SystemStepParts DEF systemVars
<1>2. RelayInv' /\ NoticesInv'
  BY <1>1, RelayStep, NoticesStep DEF SystemInv
<1>3. /\ JobsHaveCause'
      /\ JobAdded => JobAdded'
  BY <1>1, FanOutStep, FanOutKeepsCause DEF SystemInv, JobAdded, PlacedIsServed
<1>4. ASSUME ~JobAdded
      PROVE  UNCHANGED noticesVars
  <2>1. ~Busy
    BY <1>4 DEF SystemInv, NoticesInit, Busy
  <2>2. ~Die
    BY <2>1 DEF Die, Busy
  <2>. QED
    BY <1>4, <2>1, <2>2 DEF SystemNext, systemVars, RelayMoves, NoticesMove, WorkerDies
<1>5. ~JobAdded' => NoticesInit'
  BY <1>3, <1>4 DEF SystemInv, NoticesInit, noticesVars, jobVars, mailVars
<1>. QED
  BY <1>2, <1>3, <1>5 DEF SystemInv

\* SystemInv is an invariant of the composition.
LEMMA SystemInvariant ==
  ASSUME PlacedIsServed
  PROVE  SystemSpec => []SystemInv
  BY SystemStart, SystemStep, PTL DEF SystemSpec

\* Composing them takes nothing from either: the relay in the composition is the
\* relay, the notices are the notices.
THEOREM SystemIsBoth ==
  SystemSpec => /\ Init /\ [][Next]_vars
                /\ NoticesInit /\ [][NoticesNext]_noticesVars
<1>1. SystemInit => Init /\ NoticesInit
  BY DEF SystemInit
<1>2. [SystemNext]_systemVars => [Next]_vars /\ [NoticesNext]_noticesVars
  BY SystemStepParts DEF systemVars
<1>. QED
  BY <1>1, <1>2, PTL DEF SystemSpec

\* Nobody is written to or told of an order whose transaction did not commit.
THEOREM ToldOnlyIfCommitted ==
  ASSUME PlacedIsServed
  PROVE  SystemSpec => []OnlyPlacedOrdersAreTold
<1>1. SystemInv => OnlyPlacedOrdersAreTold
  <2>1. NoticesInit => /\ rowExists = FALSE /\ told = 0
                       /\ \A a \in Recipients : mails[a] = 0
    BY DEF NoticesInit
  <2>. QED
    BY <2>1 DEF SystemInv, OnlyPlacedOrdersAreTold, JobsHaveCause, JobAdded,
       Written, PlacedIsServed
<1>. QED
  BY <1>1, SystemInvariant, PTL

\* However often the relay repeats the fan-out of an order's event, there is one
\* notification job for it, and nobody is mailed twice for nothing.
THEOREM OrderIsNoticedOnce ==
  ASSUME PlacedIsServed
  PROVE  SystemSpec => []OneNoticePerOrder
<1>1. SystemInv => OneNoticePerOrder
  BY NoticesInvMailedOnce
     DEF SystemInv, RelayInv, AtMostOneJob, OneNoticePerOrder, PlacedIsServed
<1>. QED
  BY <1>1, SystemInvariant, PTL

=============================================================================
