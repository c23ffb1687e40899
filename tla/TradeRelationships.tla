------------------------ MODULE TradeRelationships ------------------------
(***************************************************************************)
(* The relationship between one distributor and one customer: created by   *)
(* staff or asked for by the customer, activated, suspended, removed, and  *)
(* entered through the links the distributor mails.  Every change writes   *)
(* an outbox event that says which status it left and when.                *)
(*                                                                         *)
(* apps/api/src/admin-customers, customers, portal-invitations             *)
(*                                                                         *)
(* Transactions run under READ COMMITTED.  A request is a step per read    *)
(* whose result it uses later; the statements after its last wait are one  *)
(* step, for the rows they touch are locked.                               *)
(*                                                                         *)
(* Abstractions.  The unique index on the pair makes one relationship the  *)
(* general case.  The clocks of the API's replicas agree and no two events *)
(* share a millisecond.  A link that expired is one nobody accepts.        *)
(***************************************************************************)
EXTENDS Naturals, Sequences

CONSTANTS
  Requests,     \* requests of staff and of the customer's users
  Links,        \* CustomerInvitation rows that may come to exist
  EmailOf,      \* EmailOf[l]: whom link l is mailed to
  MaxTime       \* bound: times taken

ASSUME TradeRelationshipsAssumption == MaxTime \in Nat

VARIABLES
  status,   \* TradeRelationship.status, "none" before the row exists
  removed,  \* deletedAt is set
  link,     \* link[l]: "none", "PENDING", "REVOKED" or "ACCEPTED"
  req,      \* req[r]: what request r does, and what it has read
  log,      \* the events, in the order of their commits
  now       \* the clock

liveVars == <<status, removed, link, req, log, now>>

Statuses == {"PENDING_INVITE", "PENDING_REQUEST", "ACTIVE", "SUSPENDED", "INACTIVE"}

\* The transitions staff may make, by the event each writes.
Transitions == {
  [kind |-> "RequestAccepted", from |-> "PENDING_REQUEST", to |-> "ACTIVE"],
  [kind |-> "RequestDeclined", from |-> "PENDING_REQUEST", to |-> "INACTIVE"],
  [kind |-> "Suspended", from |-> "ACTIVE", to |-> "SUSPENDED"],
  [kind |-> "Unsuspended", from |-> "SUSPENDED", to |-> "ACTIVE"],
  [kind |-> "Activated", from |-> "PENDING_INVITE", to |-> "ACTIVE"]}

TransitionKinds == {m.kind : m \in Transitions}
Kinds == TransitionKinds \cup
  {"CreatedManual", "CreatedByImport", "AccessRequested", "InviteSent", "InviteAccepted", "Removed"}
Ops == TransitionKinds \cup
  {"idle", "remove", "removing", "invite", "inviting", "accept", "accepting", "activating"}

\* from = "none" where the event opens the relationship.
Events == [kind : Kinds, from : Statuses \cup {"none"}, to : Statuses, at : 1..MaxTime]

LiveTypeOK ==
  /\ status \in Statuses \cup {"none"}
  /\ removed \in BOOLEAN
  /\ link \in [Links -> {"none", "PENDING", "REVOKED", "ACCEPTED"}]
  /\ req \in [Requests -> [op : Ops, from : Statuses \cup {"none"},
                           at : 0..MaxTime, links : SUBSET Links]]
  /\ log \in Seq(Events)
  /\ now \in 1..(MaxTime + 1)

Idle == [op |-> "idle", from |-> "none", at |-> 0, links |-> {}]

LiveInit ==
  /\ status = "none" /\ removed = FALSE
  /\ link = [l \in Links |-> "none"]
  /\ req = [r \in Requests |-> Idle]
  /\ log = <<>>
  /\ now = 1

-----------------------------------------------------------------------------

Goes(r, next) == req' = [req EXCEPT ![r] = next]
TakeTime == now <= MaxTime /\ now' = now + 1
Event(kind, from, to, at) == [kind |-> kind, from |-> from, to |-> to, at |-> at]
Writes(event) == log' = Append(log, event)

\* What the list of customers and every action on it can see.
Listed == status # "none" /\ ~removed

\* Staff enter the customer, or import it from the accounting system.
Create(kind) ==
  /\ status = "none"
  /\ TakeTime
  /\ status' = "PENDING_INVITE"
  /\ Writes(Event(kind, "none", "PENDING_INVITE", now))
  /\ UNCHANGED <<removed, link, req>>

\* The customer asks for access, for the first time or after a decline.  Both
\* writes are guarded, so that the read before them decides nothing.
RequestAccess ==
  /\ status \in {"none", "INACTIVE"}
  /\ TakeTime
  /\ status' = "PENDING_REQUEST"
  /\ Writes(Event("AccessRequested", status, "PENDING_REQUEST", now))
  /\ UNCHANGED <<removed, link, req>>

StartTransition(r, m) ==
  /\ req[r] = Idle
  /\ Listed
  /\ Goes(r, [Idle EXCEPT !.op = m.kind])
  /\ UNCHANGED <<status, removed, link, log, now>>

TransitionUnguarded(r, m) == \* mutant
  /\ req[r].op = m.kind
  /\ TakeTime
  /\ status' = m.to
  /\ Writes(Event(m.kind, m.from, m.to, now))
  /\ Goes(r, Idle)
  /\ UNCHANGED <<removed, link>>

\* The compare-and-set on the status; its loser answers 422.
TransitionStatus(r, m) ==
  /\ req[r].op = m.kind
  /\ IF status = m.from
     THEN /\ TakeTime
          /\ status' = m.to
          /\ Writes(Event(m.kind, m.from, m.to, now))
     ELSE UNCHANGED <<status, log, now>>
  /\ Goes(r, Idle)
  /\ UNCHANGED <<removed, link>>

StartRemove(r) ==
  /\ req[r] = Idle
  /\ Listed
  /\ Goes(r, [Idle EXCEPT !.op = "remove", !.from = status])
  /\ UNCHANGED <<status, removed, link, log, now>>

\* removedAt, before the row it may have to wait for.
StampRemoval(r) ==
  /\ req[r].op = "remove"
  /\ TakeTime
  /\ Goes(r, [req[r] EXCEPT !.op = "removing", !.at = now])
  /\ UNCHANGED <<status, removed, link, log>>

RemoveTwice(r) == \* mutant
  /\ req[r].op = "removing"
  /\ removed' = TRUE
  /\ Writes(Event("Removed", req[r].from, req[r].from, req[r].at))
  /\ Goes(r, Idle)
  /\ UNCHANGED <<status, link, now>>

Remove(r) ==
  /\ req[r].op = "removing"
  /\ IF removed
     THEN UNCHANGED <<removed, log>>
     ELSE /\ removed' = TRUE
          /\ Writes(Event("Removed", req[r].from, req[r].from, req[r].at))
  /\ Goes(r, Idle)
  /\ UNCHANGED <<status, link, now>>

-----------------------------------------------------------------------------
\* Links

\* The rows locked by transactions that have updated or inserted them.
HeldLinks == UNION {req[r].links : r \in {q \in Requests : req[q].op \in {"inviting", "activating"}}}

StartInviteUnread(r) == \* mutant
  /\ req[r] = Idle
  /\ Listed
  /\ Goes(r, [Idle EXCEPT !.op = "invite"])
  /\ UNCHANGED <<status, removed, link, log, now>>

StartInvite(r) ==
  /\ req[r] = Idle
  /\ Listed
  /\ Goes(r, [Idle EXCEPT !.op = "invite", !.from = status])
  /\ UNCHANGED <<status, removed, link, log, now>>

\* Revokes the pending links to that address it can see, and makes a new one.
ReplaceLinks(r) ==
  /\ req[r].op = "invite"
  /\ TakeTime
  /\ \E new \in Links :
       LET earlier == {l \in Links : link[l] = "PENDING" /\ EmailOf[l] = EmailOf[new]}
       IN /\ link[new] = "none"
          /\ ({new} \cup earlier) \cap HeldLinks = {}
          /\ Goes(r, [req[r] EXCEPT !.op = "inviting", !.at = now, !.links = {new} \cup earlier])
  /\ UNCHANGED <<status, removed, link, log>>

CommitInvite(r) ==
  /\ req[r].op = "inviting"
  /\ link' = [l \in Links |-> IF l \notin req[r].links THEN link[l]
                              ELSE IF link[l] = "none" THEN "PENDING" ELSE "REVOKED"]
  /\ Writes(Event("InviteSent", req[r].from, req[r].from, req[r].at))
  /\ Goes(r, Idle)
  /\ UNCHANGED <<status, removed, now>>

\* Whoever the link was mailed to opens it.
StartAccept(r, l) ==
  /\ req[r] = Idle
  /\ link[l] = "PENDING"
  /\ Goes(r, [Idle EXCEPT !.op = "accept", !.links = {l}])
  /\ UNCHANGED <<status, removed, link, log, now>>

\* acceptedAt, before the first row it may have to wait for.
StampAccept(r) ==
  /\ req[r].op = "accept"
  /\ TakeTime
  /\ Goes(r, [req[r] EXCEPT !.op = "accepting", !.at = now])
  /\ UNCHANGED <<status, removed, link, log>>

\* Updates the link, whatever has become of it, and reads the status.
LockLink(r) ==
  /\ req[r].op = "accepting"
  /\ req[r].links \cap HeldLinks = {}
  /\ Goes(r, [req[r] EXCEPT !.op = "activating", !.from = status])
  /\ UNCHANGED <<status, removed, link, log, now>>

CommitAccept(r) ==
  /\ req[r].op = "activating"
  /\ link' = [l \in Links |-> IF l \in req[r].links THEN "ACCEPTED" ELSE link[l]]
  /\ status' = "ACTIVE"
  /\ Writes(Event("InviteAccepted", req[r].from, "ACTIVE", req[r].at))
  /\ Goes(r, Idle)
  /\ UNCHANGED <<removed, now>>

\* A failed statement, or the end of the process: the transaction is rolled back.
RollBack(r) ==
  /\ req[r] # Idle
  /\ Goes(r, Idle)
  /\ UNCHANGED <<status, removed, link, log, now>>

LiveNext ==
  \/ \E kind \in {"CreatedManual", "CreatedByImport"} : Create(kind)
  \/ RequestAccess
  \/ \E r \in Requests :
       \/ \E m \in Transitions : StartTransition(r, m) \/ TransitionStatus(r, m)
       \/ StartRemove(r) \/ StampRemoval(r) \/ Remove(r)
       \/ StartInvite(r) \/ ReplaceLinks(r) \/ CommitInvite(r)
       \/ \E l \in Links : StartAccept(r, l)
       \/ StampAccept(r) \/ LockLink(r) \/ CommitAccept(r)
       \/ RollBack(r)

=============================================================================
