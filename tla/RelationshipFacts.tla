------------------------- MODULE RelationshipFacts -------------------------
(***************************************************************************)
(* The history of a relationship as the analytics see it: the consumer of  *)
(* its events records each as a fact and folds it into one row.  Events    *)
(* reach it in any order and more than once (see OutboxRelay).             *)
(*                                                                         *)
(* apps/api/src/analytics-facts/relationship-facts.service.ts              *)
(*                                                                         *)
(* A job's transaction is one step: it inserts the fact and upserts the    *)
(* row, whose lock serialises jobs that overlap.                           *)
(***************************************************************************)
EXTENDS TradeRelationships

VARIABLES
  facts,  \* relationship_facts
  row     \* relationship_analytics_state

vars == <<liveVars, facts, row>>

\* 0 is the null of a time.
NoRow == [origin |-> "none", openedAt |-> 0, activatedAt |-> 0, activatedVia |-> "none",
          status |-> "none", removedAt |-> 0, lastEventAt |-> 0]
Origins == {"MANUAL", "ACCOUNTING_IMPORT", "ACCESS_REQUEST", "UNKNOWN"}

Recorded == {log[i] : i \in 1..Len(log)}

TypeOK ==
  /\ LiveTypeOK
  /\ facts \subseteq Recorded
  /\ row \in [origin : Origins \cup {"none"}, openedAt : 0..MaxTime, activatedAt : 0..MaxTime,
              activatedVia : Kinds \cup {"none"}, status : Statuses \cup {"none"},
              removedAt : 0..MaxTime, lastEventAt : 0..MaxTime]

-----------------------------------------------------------------------------
\* relationshipEventEffect

Opens(e) == e.kind \in {"CreatedManual", "CreatedByImport"}
            \/ (e.kind = "AccessRequested" /\ e.from = "none")
OriginOf(e) == CASE e.kind = "CreatedManual" -> "MANUAL"
                 [] e.kind = "CreatedByImport" -> "ACCOUNTING_IMPORT"
                 [] OTHER -> "ACCESS_REQUEST"
Activates(e) == e.to = "ACTIVE" /\ e.from \notin {"ACTIVE", "SUSPENDED"}
Removes(e) == e.kind = "Removed"

-----------------------------------------------------------------------------
\* The upsert

Inserted(e) ==
  [origin |-> IF Opens(e) THEN OriginOf(e) ELSE "UNKNOWN",
   openedAt |-> IF Opens(e) THEN e.at ELSE 0,
   activatedAt |-> IF Activates(e) THEN e.at ELSE 0,
   activatedVia |-> IF Activates(e) THEN e.kind ELSE "none",
   status |-> e.to,
   removedAt |-> IF Removes(e) THEN e.at ELSE 0,
   lastEventAt |-> e.at]

FirstSeen(new, old) == new # 0 /\ old = 0 \* mutant
Earlier(new, old) == new # 0 /\ (old = 0 \/ new < old)
ArrivesLater(old, new) == TRUE \* mutant
IsLater(old, new) == old.lastEventAt < new.lastEventAt

Updated(old, new) ==
  LET opensEarlier == Earlier(new.openedAt, old.openedAt)
      activatesEarlier == Earlier(new.activatedAt, old.activatedAt)
  IN [origin |-> IF opensEarlier THEN new.origin ELSE old.origin,
      openedAt |-> IF opensEarlier THEN new.openedAt ELSE old.openedAt,
      activatedAt |-> IF activatesEarlier THEN new.activatedAt ELSE old.activatedAt,
      activatedVia |-> IF activatesEarlier THEN new.activatedVia ELSE old.activatedVia,
      status |-> IF IsLater(old, new) THEN new.status ELSE old.status,
      removedAt |-> IF old.removedAt # 0 THEN old.removedAt ELSE new.removedAt,
      lastEventAt |-> IF IsLater(old, new) THEN new.lastEventAt ELSE old.lastEventAt]

\* A job for an event that is a fact already ends at the primary key.
HandleRelationshipEvent(e) ==
  /\ IF e \in facts
     THEN UNCHANGED <<facts, row>>
     ELSE /\ facts' = facts \cup {e}
          /\ row' = IF row = NoRow THEN Inserted(e) ELSE Updated(row, Inserted(e))
  /\ UNCHANGED liveVars

\* Nobody has anything left to do.
Rest ==
  /\ now > MaxTime
  /\ \A r \in Requests : req[r] = Idle
  /\ facts = Recorded
  /\ UNCHANGED vars

Init == LiveInit /\ facts = {} /\ row = NoRow
Next ==
  \/ LiveNext /\ UNCHANGED <<facts, row>>
  \/ \E e \in Recorded : HandleRelationshipEvent(e)
  \/ Rest
Spec == Init /\ [][Next]_vars

-----------------------------------------------------------------------------

\* The row is a function of the set of facts, whatever the order they came
\* in and however often: it opens with the first opening, is activated by the
\* first activation, and has the status of the latest event
\* (relationship-facts.service.ts, the upsert; ADR-070).
FirstOf(candidates, e) == e \in candidates /\ \A f \in candidates : e.at <= f.at
ProjectionOfFacts ==
  LET openings == {e \in facts : Opens(e)}
      activations == {e \in facts : Activates(e)}
      removals == {e \in facts : Removes(e)}
  IN /\ IF facts = {} THEN row = NoRow
        ELSE \E e \in facts : /\ \A f \in facts : f.at <= e.at
                              /\ row.status = e.to /\ row.lastEventAt = e.at
     /\ IF openings = {} THEN row.openedAt = 0 /\ row.origin \in {"UNKNOWN", "none"}
        ELSE \E e \in openings : /\ FirstOf(openings, e)
                                 /\ row.openedAt = e.at /\ row.origin = OriginOf(e)
     /\ IF activations = {} THEN row.activatedAt = 0 /\ row.activatedVia = "none"
        ELSE \E e \in activations : /\ FirstOf(activations, e)
                                    /\ row.activatedAt = e.at /\ row.activatedVia = e.kind
     /\ IF removals = {} THEN row.removedAt = 0
        ELSE \E e \in removals : row.removedAt = e.at

\* A relationship is opened once and removed once, however requests overlap.
OpenedAndRemovedOnce ==
  \A i, j \in 1..Len(log) :
    (Opens(log[i]) /\ Opens(log[j])) \/ (Removes(log[i]) /\ Removes(log[j])) => i = j

\* A suspension ends by lifting it or by a link, never by an action that was
\* decided on before the customer was suspended (the compare-and-set in
\* transitionStatus and requestAccess).
SuspensionHolds ==
  [][status = "SUSPENDED" /\ status' # "SUSPENDED" =>
       \E e \in {"Unsuspended", "InviteAccepted"} : log'[Len(log')].kind = e]_vars

\* Each event leaves the status the one before it led to, at a later time.
Chained ==
  \A i \in 2..Len(log) : log[i].from = log[i-1].to /\ log[i-1].at < log[i].at

\* Once every event has arrived, the row agrees with the relationship on the
\* removal, and on the status if the events are a chain
\* (analytics-reconciliation.service.ts, reconcileRelationships).
AgreesOnceConsumed ==
  facts = Recorded =>
    /\ removed <=> row.removedAt # 0
    /\ Chained => row.status = status

=============================================================================
