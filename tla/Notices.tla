------------------------------ MODULE Notices ------------------------------
(***************************************************************************)
(* The notices of one placed order.  A job of the queue `notifications`    *)
(* writes the notification, a delivery row per recipient and a job per     *)
(* pending row, and last the administrators' notices; a job of the queue   *)
(* `notification-delivery` mails one row and marks it.                     *)
(*                                                                         *)
(* apps/api/src/notifications/order-placed-notification.service.ts,        *)
(* notifications.processor.ts, notification-delivery.processor.ts          *)
(*                                                                         *)
(* Every call to the database, the queue or the mail server is a step of   *)
(* its own: it may fail, and the worker may die before it.  Both queues    *)
(* are BullMQ's: a job id is taken once, a failed attempt is repeated      *)
(* while the queue's attempts last, a job whose worker died is run again   *)
(* once.                                                                   *)
(*                                                                         *)
(* Abstractions.  Notices of different events share nothing, so there is   *)
(* one.  The texts, and the counter of attempts in the row, are left out.  *)
(* The job's own copies are not: there is one (OutboxRelay), and its queue *)
(* never forgets an id.                                                    *)
(*                                                                         *)
(* OrderNotices puts this module beside OutboxRelay, so the names of their *)
(* variables and of their specifications differ.                           *)
(***************************************************************************)
EXTENDS Naturals, FiniteSets

CONSTANTS
  Recipients,       \* e-mail addresses the settings may name
  DeliveryAttempts, \* attempts of a delivery job
  MaxFailures       \* bound: calls that fail and workers that die

ASSUME NoticesAssumption ==
  /\ IsFiniteSet(Recipients)
  /\ DeliveryAttempts \in Nat \ {0}
  /\ MaxFailures \in Nat

VARIABLES
  job,      \* the notification job
  at,       \* where its attempt is
  stalls,   \* how often its worker died
  rowExists, \* the Notification row, unique by its dedupeKey
  to,       \* the recipients this attempt resolved
  left,     \* pending deliveries it has yet to queue
  told,     \* how often the administrators were given their notices
  retold,   \* how often an attempt that had told them was lost
  delivery, \* delivery[a]: NotificationDelivery.status, or "none"
  mailJob,  \* mailJob[a]: the delivery's job
  mailAt,   \* mailAt[a]: where its attempt is
  tries,    \* tries[a]: its attempts that failed
  mailStalls, \* mailStalls[a]: how often its worker died
  mails,    \* mails[a]: e-mails sent
  unsure,   \* unsure[a]: of these, sent by an attempt that could not say so, or that unsaid it
  failures

jobVars  == <<job, at, stalls, rowExists, to, left, told, retold>>
mailVars == <<delivery, mailJob, mailAt, tries, mailStalls, mails, unsure>>
noticesVars == <<jobVars, mailVars, failures>>

JobStates == {"none", "waiting", "active", "done", "failed"}

NoticesTypeOK ==
  /\ job \in JobStates \ {"none"}
  /\ at \in {"idle", "resolve", "upsert", "create", "list", "queue", "told"}
  /\ stalls \in 0..2 /\ rowExists \in BOOLEAN
  /\ to \subseteq Recipients /\ left \subseteq Recipients
  /\ told \in 0..(MaxFailures + 1) /\ retold \in 0..MaxFailures
  /\ delivery \in [Recipients -> {"none", "PENDING", "FAILED", "SENT"}]
  /\ mailJob \in [Recipients -> JobStates]
  /\ mailAt \in [Recipients -> {"idle", "read", "send", "mark", "catch", "end"}]
  /\ tries \in [Recipients -> 0..DeliveryAttempts]
  /\ mailStalls \in [Recipients -> 0..2]
  /\ mails \in [Recipients -> 0..(MaxFailures + 1)]
  /\ unsure \in [Recipients -> 0..MaxFailures]
  /\ failures \in 0..MaxFailures

\* The relay has queued the job of the order's OrderSubmitted.
NoticesInit ==
  /\ job = "waiting" /\ at = "idle" /\ stalls = 0
  /\ rowExists = FALSE /\ to = {} /\ left = {} /\ told = 0 /\ retold = 0
  /\ delivery = [a \in Recipients |-> "none"]
  /\ mailJob = [a \in Recipients |-> "none"]
  /\ mailAt = [a \in Recipients |-> "idle"]
  /\ tries = [a \in Recipients |-> 0]
  /\ mailStalls = [a \in Recipients |-> 0]
  /\ mails = [a \in Recipients |-> 0]
  /\ unsure = [a \in Recipients |-> 0]
  /\ failures = 0

\* A call that fails, or a death of the worker.
Failure == failures < MaxFailures /\ failures' = failures + 1

-----------------------------------------------------------------------------
(* The notification job: handleOrderSubmitted.                             *)

At(s) == job = "active" /\ at = s

Take ==
  /\ job = "waiting"
  /\ job' = "active" /\ at' = "resolve"
  /\ UNCHANGED <<stalls, rowExists, to, left, told, retold, mailVars, failures>>

\* The addresses are read anew by each attempt: settings may have changed.
\* An attempt that finds nobody, or no organisation, is done.
Resolve ==
  /\ At("resolve")
  /\ \E R \in SUBSET Recipients :
       /\ to' = R
       /\ IF R = {} THEN job' = "done" /\ at' = "idle"
                    ELSE at' = "upsert" /\ UNCHANGED job
  /\ UNCHANGED <<stalls, rowExists, left, told, retold, mailVars, failures>>

UpsertOrLeave == \* mutant: a notification that exists ends the job
  /\ At("upsert")
  /\ rowExists' = TRUE
  /\ at' = IF rowExists THEN "told" ELSE "create"
  /\ UNCHANGED <<job, stalls, to, left, told, retold, mailVars, failures>>

Upsert ==
  /\ At("upsert")
  /\ rowExists' = TRUE /\ at' = "create"
  /\ UNCHANGED <<job, stalls, to, left, told, retold, mailVars, failures>>

\* createMany with skipDuplicates: rows of an earlier attempt stay as they are.
CreateDeliveries ==
  /\ At("create")
  /\ delivery' = [a \in Recipients |->
       IF a \in to /\ delivery[a] = "none" THEN "PENDING" ELSE delivery[a]]
  /\ at' = "list"
  /\ UNCHANGED <<job, stalls, rowExists, to, left, told, retold>>
  /\ UNCHANGED <<mailJob, mailAt, tries, mailStalls, mails, unsure, failures>>

ListPending ==
  /\ At("list")
  /\ left' = {a \in Recipients : delivery[a] = "PENDING"}
  /\ at' = "queue"
  /\ UNCHANGED <<job, stalls, rowExists, to, told, retold, mailVars, failures>>

\* queue.add under the delivery's id: an id that is known is not added again.
QueueDelivery(a) ==
  /\ At("queue") /\ a \in left
  /\ left' = left \ {a}
  /\ mailJob' = [mailJob EXCEPT ![a] = IF @ = "none" THEN "waiting" ELSE @]
  /\ UNCHANGED <<job, at, stalls, rowExists, to, told, retold>>
  /\ UNCHANGED <<delivery, mailAt, tries, mailStalls, mails, unsure, failures>>

\* The administrators' notices have no key: told again is told twice.
TellAdmins ==
  /\ At("queue") /\ left = {}
  /\ told' = told + 1 /\ at' = "told"
  /\ UNCHANGED <<job, stalls, rowExists, to, left, retold, mailVars, failures>>

Complete ==
  /\ At("told")
  /\ job' = "done" /\ at' = "idle"
  /\ UNCHANGED <<stalls, rowExists, to, left, told, retold, mailVars, failures>>

\* The queue is registered without options: one attempt.
NoticeAttempts == 1

\* A call of the attempt fails and the handler throws.
Throw ==
  /\ job = "active" /\ at # "told"
  /\ Failure
  /\ job' = IF NoticeAttempts > 1 THEN "waiting" ELSE "failed"
  /\ at' = "idle" /\ left' = {}
  /\ UNCHANGED <<stalls, rowExists, to, told, retold, mailVars>>

-----------------------------------------------------------------------------
(* A delivery's job: NotificationDeliveryProcessor.process.                *)

MailAt(a, s) == mailJob[a] = "active" /\ mailAt[a] = s

MailGoes(a, s) == mailAt' = [mailAt EXCEPT ![a] = s]

TakeMail(a) ==
  /\ mailJob[a] = "waiting"
  /\ mailJob' = [mailJob EXCEPT ![a] = "active"] /\ MailGoes(a, "read")
  /\ UNCHANGED <<jobVars, delivery, tries, mailStalls, mails, unsure, failures>>

ReadAlwaysOn(a) == \* mutant: the row is mailed whatever its status
  /\ MailAt(a, "read")
  /\ MailGoes(a, "send")
  /\ UNCHANGED <<jobVars, delivery, mailJob, tries, mailStalls, mails, unsure, failures>>

ReadDelivery(a) ==
  /\ MailAt(a, "read")
  /\ MailGoes(a, IF delivery[a] = "SENT" THEN "end" ELSE "send")
  /\ UNCHANGED <<jobVars, delivery, mailJob, tries, mailStalls, mails, unsure, failures>>

Send(a) ==
  /\ MailAt(a, "send")
  /\ mails' = [mails EXCEPT ![a] = @ + 1] /\ MailGoes(a, "mark")
  /\ UNCHANGED <<jobVars, delivery, mailJob, tries, mailStalls, unsure, failures>>

MarkSent(a) ==
  /\ MailAt(a, "mark")
  /\ delivery' = [delivery EXCEPT ![a] = "SENT"] /\ MailGoes(a, "end")
  /\ UNCHANGED <<jobVars, mailJob, tries, mailStalls, mails, unsure, failures>>

EndMail(a) ==
  /\ MailAt(a, "end")
  /\ mailJob' = [mailJob EXCEPT ![a] = "done"] /\ MailGoes(a, "idle")
  /\ UNCHANGED <<jobVars, delivery, tries, mailStalls, mails, unsure, failures>>

AttemptRepeated(a) == \* mutant: attempts are not counted
  /\ tries' = [tries EXCEPT ![a] = @ + 1]
  /\ mailJob' = [mailJob EXCEPT ![a] = "waiting"]
  /\ MailGoes(a, "idle")

\* The attempt throws; it is repeated unless it was the last.
AttemptFails(a) ==
  /\ tries' = [tries EXCEPT ![a] = @ + 1]
  /\ mailJob' = [mailJob EXCEPT
       ![a] = IF tries[a] + 1 < DeliveryAttempts THEN "waiting" ELSE "failed"]
  /\ MailGoes(a, "idle")

\* Reading the row, or counting the attempt, fails.
FailBeforeSend(a) ==
  /\ MailAt(a, "read")
  /\ Failure /\ AttemptFails(a)
  /\ UNCHANGED <<jobVars, delivery, mailStalls, mails, unsure>>

\* The mail server's call fails, the e-mail being sent or not.
FailToSend(a) ==
  /\ MailAt(a, "send")
  /\ Failure /\ MailGoes(a, "catch")
  /\ \E sent \in 0..1 :
       /\ mails' = [mails EXCEPT ![a] = @ + sent]
       /\ unsure' = [unsure EXCEPT ![a] = @ + sent]
  /\ UNCHANGED <<jobVars, delivery, mailJob, tries, mailStalls>>

\* The write of SENT fails, or only its answer does.
FailToMark(a) ==
  /\ MailAt(a, "mark")
  /\ Failure /\ MailGoes(a, "catch")
  /\ \/ unsure' = [unsure EXCEPT ![a] = @ + 1] /\ UNCHANGED delivery
     \/ delivery' = [delivery EXCEPT ![a] = "SENT"] /\ UNCHANGED unsure
  /\ UNCHANGED <<jobVars, mailJob, tries, mailStalls, mails>>

SwallowFailure(a) == \* mutant: the catch block does not rethrow
  /\ MailAt(a, "catch")
  /\ delivery' = [delivery EXCEPT ![a] = "FAILED"]
  /\ mailJob' = [mailJob EXCEPT ![a] = "done"] /\ MailGoes(a, "idle")
  /\ UNCHANGED <<jobVars, tries, mailStalls, mails, unsure, failures>>

\* FAILED is written, over a SENT too that the attempt was not told of, unless
\* that write fails as well; and the attempt throws.
Catch(a) ==
  /\ MailAt(a, "catch")
  /\ \/ /\ delivery' = [delivery EXCEPT ![a] = "FAILED"]
        /\ unsure' = [unsure EXCEPT ![a] = IF delivery[a] = "SENT" THEN @ + 1 ELSE @]
     \/ UNCHANGED <<delivery, unsure>>
  /\ AttemptFails(a)
  /\ UNCHANGED <<jobVars, mailStalls, mails, failures>>

-----------------------------------------------------------------------------
(* The worker.                                                             *)

Rerun(state, died) ==
  IF state # "active" THEN state ELSE IF died = 0 THEN "waiting" ELSE "failed"

Count(state) == IF state = "active" THEN 1 ELSE 0

\* The one worker dies: what it was doing is run again once (maxStalledCount).
Die ==
  /\ job = "active" \/ \E a \in Recipients : mailJob[a] = "active"
  /\ Failure
  /\ job' = Rerun(job, stalls) /\ stalls' = stalls + Count(job)
  /\ at' = "idle" /\ left' = {}
  /\ retold' = retold + (IF At("told") THEN 1 ELSE 0)
  /\ mailJob' = [a \in Recipients |-> Rerun(mailJob[a], mailStalls[a])]
  /\ mailStalls' = [a \in Recipients |-> mailStalls[a] + Count(mailJob[a])]
  /\ mailAt' = [a \in Recipients |-> "idle"]
  /\ unsure' = [a \in Recipients |-> unsure[a] + (IF MailAt(a, "mark") THEN 1 ELSE 0)]
  /\ UNCHANGED <<rowExists, to, told, delivery, tries, mails>>

\* A completed delivery job is forgotten, with its counters, when 1000 later ones
\* have completed: its id may be added again.
ForgetMail(a) ==
  /\ mailJob[a] = "done"
  /\ mailJob' = [mailJob EXCEPT ![a] = "none"]
  /\ tries' = [tries EXCEPT ![a] = 0] /\ mailStalls' = [mailStalls EXCEPT ![a] = 0]
  /\ UNCHANGED <<jobVars, delivery, mailAt, mails, unsure, failures>>

NoticeStep ==
  \/ Take \/ Resolve \/ Upsert \/ CreateDeliveries \/ ListPending
  \/ (\E a \in Recipients : QueueDelivery(a))
  \/ TellAdmins \/ Complete

MailStep(a) ==
  TakeMail(a) \/ ReadDelivery(a) \/ Send(a) \/ MarkSent(a) \/ Catch(a) \/ EndMail(a)

MailFault(a) == FailBeforeSend(a) \/ FailToSend(a) \/ FailToMark(a)

Over(state) == state \in {"none", "done", "failed"}

Rest == \* all jobs are over
  /\ Over(job) /\ \A a \in Recipients : Over(mailJob[a])
  /\ UNCHANGED noticesVars

\* All that happens while the worker lives.
NoticesLive ==
  \/ NoticeStep \/ Throw
  \/ \E a \in Recipients : MailStep(a) \/ MailFault(a) \/ ForgetMail(a)
  \/ Rest

NoticesNext == NoticesLive \/ Die

NoticesSpec ==
  /\ NoticesInit /\ [][NoticesNext]_noticesVars
  /\ WF_noticesVars(NoticeStep)
  /\ \A a \in Recipients : WF_noticesVars(MailStep(a))

-----------------------------------------------------------------------------
(* Properties.                                                             *)

\* A recipient is mailed once, and once more only for each e-mail whose sending
\* an attempt could not record, or recorded unawares and wrote FAILED over; a
\* row says SENT only of an e-mail that went out;
\* the administrators are told again only when the worker died having told them.
MailedOnce ==
  /\ \A a \in Recipients :
       /\ mails[a] <= unsure[a] + 1
       /\ delivery[a] = "SENT" => mails[a] > unsure[a]
  /\ told <= retold + 1

\* A notification's job that ends well leaves no pending delivery without a job,
\* not even one an earlier attempt created and did not queue.  (An attempt that
\* finds nobody to tell any more leaves the rows alone.)
PendingIsInHand ==
  job = "done" /\ to # {} =>
    \A a \in Recipients :
      delivery[a] = "PENDING" => mailJob[a] \in {"waiting", "active", "failed"}

\* In the end every delivery is sent or has used up its attempts, unless the
\* notification's job failed or found nobody to tell any more.
EveryoneIsTold ==
  <>[](job = "failed" \/ to = {} \/ \A a \in Recipients :
         delivery[a] \in {"none", "SENT"} \/ mailJob[a] = "failed")

\* What the handler counts on: an attempt that fails is followed by another, so
\* that one failure alone does not cost the notice.
RetryCompletesNotice == <>(job = "done")

=============================================================================
