---------------------------- MODULE OrderNotices ----------------------------
(***************************************************************************)
(* The way of a placed order's notices, from the commit of the order to    *)
(* the marked e-mail: the relay (OutboxRelay) and the handlers of the      *)
(* queues it feeds (Notices), composed.                                    *)
(*                                                                         *)
(* apps/api/src/worker.module.ts, apps/api/src/queues/queue.constants.ts   *)
(*                                                                         *)
(* They share two things: the queue, for a notification job exists once    *)
(* the relay has added it, and the process: the worker that relays is the  *)
(* one that runs the jobs, so its death ends a pass and an attempt in one  *)
(* step.  Otherwise their steps interleave.                                *)
(***************************************************************************)
EXTENDS OutboxRelay, Notices

CONSTANTS
  Placed,       \* the event OrderSubmitted of the order
  NoticesQueue  \* the queue `notifications`

\* Both are among what the relay serves.
PlacedIsServed == Placed \in Events /\ NoticesQueue \in Queues

systemVars == <<vars, noticesVars>>

\* The relay has added the order's job to the queue.
JobAdded == jobs[Placed][NoticesQueue] > 0

SystemInit == Init /\ NoticesInit

\* A step of the relay, or of a transaction that writes an event.
RelayMoves == RelayLives /\ UNCHANGED noticesVars

\* A step of a job's handler or of the queues.
NoticesMove == JobAdded /\ NoticesLive /\ UNCHANGED vars

Busy == job = "active" \/ \E a \in Recipients : mailJob[a] = "active"

Relaying == current # NoEvent \/ batch # {}

\* The worker process dies in whatever it was doing.
WorkerDies ==
  \/ Crash /\ Die
  \/ Crash /\ ~Busy /\ UNCHANGED noticesVars
  \/ Die /\ ~Relaying /\ UNCHANGED vars

SystemNext == RelayMoves \/ NoticesMove \/ WorkerDies

SystemSpec == SystemInit /\ [][SystemNext]_systemVars

-----------------------------------------------------------------------------
(* Properties.                                                             *)

\* Nobody is written to or told of an order whose transaction did not commit,
\* and while the job is not added nothing at all has happened to its notices.
OnlyPlacedOrdersAreTold ==
  /\ rowExists \/ told > 0 \/ (\E a \in Recipients : mails[a] > 0)
       => status[Placed] # "absent" /\ NoticesQueue \in Targets[Placed]
  /\ ~JobAdded => NoticesInit

\* The relay's failures do not reach the customers: however often it repeats a
\* fan-out, there is one notification job, and so one e-mail each but for those
\* whose sending went unrecorded.
OneNoticePerOrder == jobs[Placed][NoticesQueue] \in {0, 1} /\ MailedOnce

=============================================================================
