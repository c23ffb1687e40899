---------------------- MODULE RelationshipFactsProofs ----------------------
(***************************************************************************)
(* Theorems about a relationship and the facts recorded of it, for any     *)
(* requests, links and number of instants.                                 *)
(*                                                                         *)
(* The live side keeps the log in shape (LogInv): one opening, which comes *)
(* first, one removal, no instant twice, and a chain of events ends where  *)
(* the relationship is.  For that the times that requests have taken and   *)
(* not yet written must stay apart from each other and from the log        *)
(* (ReqInv).  The row then needs no more than the facts: ProjectionOfFacts *)
(* is inductive over any log of that shape.                                *)
(***************************************************************************)
EXTENDS RelationshipFacts, TLAPS

-----------------------------------------------------------------------------
(* The inductive invariant *)

Stamped(r) == req[r].op \in {"removing", "inviting", "accepting", "activating"}

\* What a request has read came from a relationship that exists, its time from the past.
ReqsInOrder ==
  \A r \in Requests :
    /\ req[r].op # "idle" => status # "none"
    /\ req[r].op \in {"remove", "removing", "invite", "inviting", "activating"} => req[r].from # "none"
    /\ Stamped(r) => req[r].at \in 1..(now - 1)

StampsApart ==
  \A q \in Requests : \A r \in Requests :
    q # r /\ Stamped(q) /\ Stamped(r) => req[q].at # req[r].at

StampsFresh == \A r \in Requests : Stamped(r) => \A i \in 1..Len(log) : log[i].at # req[r].at

LinksOfCustomers == \A l \in Links : link[l] # "none" => status # "none"

ReqInv == ReqsInOrder /\ StampsApart /\ StampsFresh /\ LinksOfCustomers

InstantsApart ==
  /\ \A i \in 1..Len(log) : log[i].at < now
  /\ \A i \in 1..Len(log) : \A j \in 1..Len(log) : log[i].at = log[j].at => i = j

Begun == log = <<>> <=> status = "none"
OpensFirst == \A i \in 1..Len(log) : Opens(log[i]) => i = 1
RemovedWhenLogged == removed <=> \E i \in 1..Len(log) : Removes(log[i])
RemovedOnce == \A i \in 1..Len(log) : \A j \in 1..Len(log) : Removes(log[i]) /\ Removes(log[j]) => i = j

\* A chain of events ends where the relationship is, with the latest of them.
ChainEnds ==
  Chained /\ log # <<>> =>
    /\ log[Len(log)].to = status
    /\ \A i \in 1..Len(log) : log[i].at <= log[Len(log)].at

LogInv == InstantsApart /\ Begun /\ OpensFirst /\ RemovedWhenLogged /\ RemovedOnce /\ ChainEnds

LiveInv == LiveTypeOK /\ ReqInv /\ LogInv
FactsInv == TypeOK /\ ReqInv /\ LogInv /\ ProjectionOfFacts

-----------------------------------------------------------------------------
(* The log *)

\* The log holds events and their times are numbers.
LEMMA LogOfEvents ==
  ASSUME LiveTypeOK
  PROVE  /\ now \in Nat \ {0} /\ MaxTime \in Nat /\ Len(log) \in Nat
         /\ \A i \in 1..Len(log) : log[i] \in Events /\ log[i].at \in 1..MaxTime
<1>1. MaxTime \in Nat /\ now \in 1..(MaxTime + 1) /\ log \in Seq(Events)
  BY TradeRelationshipsAssumption DEF TradeRelationshipsAssumption, LiveTypeOK
<1>2. \A i \in 1..Len(log) : log[i] \in Events
  BY <1>1
<1>3. \A e \in Events : e.at \in 1..MaxTime
  BY DEF Events
<1>. QED
  BY <1>1, <1>2, <1>3

\* Nothing is written: time may pass.
LEMMA QuietKeepsLog ==
  ASSUME LiveTypeOK, LogInv, UNCHANGED <<status, removed, log>>, now' \in Nat, now <= now'
  PROVE  LogInv'
<1>1. InstantsApart'
  <2>1. now \in Nat /\ \A i \in 1..Len(log) : log[i].at \in Nat
    BY LogOfEvents
  <2>. QED
    BY <2>1 DEF LogInv, InstantsApart
<1>2. Begun' /\ OpensFirst' /\ RemovedWhenLogged' /\ RemovedOnce' /\ ChainEnds'
  BY DEF LogInv, Begun, OpensFirst, RemovedWhenLogged, RemovedOnce, ChainEnds, Chained
<1>. QED
  BY <1>1, <1>2 DEF LogInv

\* An event is written: at an instant of its own, an opening only as the first,
\* a removal only once, and leading to the status the relationship then has if
\* it leaves the one it had.
LEMMA WritingKeepsLog ==
  ASSUME LiveTypeOK, LogInv, NEW e \in Events, Writes(e),
         now' \in Nat, now <= now', e.at < now',
         \A i \in 1..Len(log) : log[i].at # e.at,
         Opens(e) => log = <<>>,
         Removes(e) => ~removed /\ removed',
         ~Removes(e) => removed' = removed,
         status' # "none",
         log = <<>> \/ e.from = status => e.to = status'
  PROVE  LogInv'
<1>. DEFINE n == Len(log)
<1>1. /\ log \in Seq(Events) /\ n \in Nat /\ log' = Append(log, e)
      /\ Len(log') = n + 1 /\ log'[n + 1] = e
      /\ \A i \in 1..n : log'[i] = log[i] /\ log[i] \in Events
  BY DEF LiveTypeOK, Writes
<1>. HIDE DEF n
<1>2. InstantsApart'
  BY <1>1 DEF LogInv, InstantsApart, LiveTypeOK, Events, n
<1>3. Begun'
  <2>1. log' # <<>>
    BY <1>1
  <2>. QED
    BY <2>1 DEF Begun
<1>4. OpensFirst'
  <2>1. Opens(e) => n = 0
    BY <1>1 DEF n
  <2>. QED
    BY <1>1, <2>1 DEF LogInv, OpensFirst, Opens, n
<1>5. RemovedWhenLogged' /\ RemovedOnce'
  BY <1>1 DEF LogInv, RemovedWhenLogged, RemovedOnce, Removes, n
<1>6. ChainEnds'
  <2>1. SUFFICES ASSUME Chained'
                 PROVE  e.to = status' /\ \A i \in 1..(n + 1) : log'[i].at <= e.at
    BY <1>1 DEF ChainEnds
  <2>2. \A i \in 2..(n + 1) : log'[i].from = log'[i - 1].to /\ log'[i - 1].at < log'[i].at
    BY <1>1, <2>1 DEF Chained
  <2>3. CASE n = 0
    BY <1>1, <2>3 DEF n, Events
  <2>4. CASE n # 0
    <3>1. \A i \in 2..n : log[i].from = log[i - 1].to /\ log[i - 1].at < log[i].at
      BY <1>1, <2>2
    <3>2. log[n].to = status /\ \A i \in 1..n : log[i].at <= log[n].at
      BY <1>1, <2>4, <3>1 DEF LogInv, ChainEnds, Chained, n
    <3>3. e.from = log[n].to /\ log[n].at < e.at
      <4>. n + 1 \in 2..(n + 1) /\ n \in 1..n /\ (n + 1) - 1 = n
        BY <1>1, <2>4
      <4>. QED
        BY <1>1, <2>2
    <3>4. \A i \in 1..n : log[i].at \in Nat
      BY <1>1 DEF Events
    <3>. QED
      BY <1>1, <2>4, <3>2, <3>3, <3>4 DEF Events
  <2>. QED
    BY <1>1, <2>3, <2>4
<1>. QED
  BY <1>2, <1>3, <1>4, <1>5, <1>6 DEF LogInv

-----------------------------------------------------------------------------
(* Requests *)

\* A request takes its next step and writes nothing; a time it takes is the clock's.
LEMMA AdvanceKeepsReqs ==
  ASSUME LiveTypeOK, ReqInv, LogInv, NEW r \in Requests,
         NEW next \in [op : Ops, from : Statuses \cup {"none"}, at : 0..MaxTime, links : SUBSET Links],
         Goes(r, next), UNCHANGED <<status, link, log>>,
         now' \in Nat, now <= now',
         next.op # "idle" => status # "none",
         next.op \in {"remove", "removing", "invite", "inviting", "activating"} => next.from # "none",
         next.op \in {"removing", "inviting", "accepting", "activating"} =>
           \/ next.at = now /\ now < now'
           \/ next.at = req[r].at /\ Stamped(r)
  PROVE  ReqInv'
<1>1. /\ req \in [Requests -> [op : Ops, from : Statuses \cup {"none"}, at : 0..MaxTime, links : SUBSET Links]]
      /\ now \in Nat \ {0} /\ MaxTime \in Nat
  BY TradeRelationshipsAssumption DEF TradeRelationshipsAssumption, LiveTypeOK
<1>2. /\ req'[r] = next
      /\ \A q \in Requests : q # r => req'[q] = req[q]
  BY <1>1 DEF Goes
<1>3. ReqsInOrder'
  BY <1>1, <1>2 DEF ReqInv, ReqsInOrder, Stamped
<1>4. StampsApart'
  <2>1. \A q \in Requests : q # r /\ Stamped(q) /\ Stamped(r)' => req[q].at # next.at
    BY <1>1, <1>2 DEF ReqInv, ReqsInOrder, StampsApart, Stamped
  <2>. QED
    BY <1>1, <1>2, <2>1 DEF ReqInv, StampsApart, Stamped
<1>5. StampsFresh'
  <2>1. \A i \in 1..Len(log) : log[i].at < now /\ log[i].at \in Nat
    BY LogOfEvents DEF LogInv, InstantsApart
  <2>2. Stamped(r)' => \A i \in 1..Len(log) : log[i].at # next.at
    BY <1>1, <1>2, <2>1 DEF ReqInv, StampsFresh, Stamped
  <2>. QED
    BY <1>1, <1>2, <2>2 DEF ReqInv, StampsFresh, Stamped
<1>6. LinksOfCustomers'
  BY DEF ReqInv, LinksOfCustomers
<1>. QED
  BY <1>3, <1>4, <1>5, <1>6 DEF ReqInv

\* An event is written, at the clock's time or at the time its request had taken.
LEMMA WritingKeepsReqs ==
  ASSUME LiveTypeOK, ReqInv, LogInv, NEW e \in Events, Writes(e),
         req' = req \/ \E r \in Requests : Goes(r, Idle),
         now' \in Nat, now <= now',
         \/ e.at = now
         \/ \E r \in Requests : Stamped(r) /\ e.at = req[r].at /\ Goes(r, Idle),
         status' # "none"
  PROVE  ReqInv'
<1>1. /\ req \in [Requests -> [op : Ops, from : Statuses \cup {"none"}, at : 0..MaxTime, links : SUBSET Links]]
      /\ now \in Nat \ {0} /\ MaxTime \in Nat
  BY TradeRelationshipsAssumption DEF TradeRelationshipsAssumption, LiveTypeOK
<1>2. \A q \in Requests : req'[q] = req[q] \/ req'[q] = Idle
  BY <1>1 DEF Goes
<1>3. /\ Len(log') = Len(log) + 1 /\ Len(log) \in Nat /\ log'[Len(log) + 1] = e
      /\ \A i \in 1..Len(log) : log'[i] = log[i]
  BY DEF LiveTypeOK, Writes
<1>4. \A q \in Requests : Stamped(q)' => Stamped(q) /\ req'[q] = req[q] /\ req[q].at # e.at
  <2>1. \A q \in Requests : Stamped(q)' => Stamped(q) /\ req'[q] = req[q]
    BY <1>2 DEF Stamped, Idle
  <2>2. CASE e.at = now
    BY <1>1, <2>1, <2>2 DEF ReqInv, ReqsInOrder
  <2>3. CASE \E r \in Requests : Stamped(r) /\ e.at = req[r].at /\ Goes(r, Idle)
    <3>1. PICK r \in Requests : Stamped(r) /\ e.at = req[r].at /\ Goes(r, Idle)
      BY <2>3
    <3>2. ~Stamped(r)'
      BY <1>1, <3>1 DEF Goes, Stamped, Idle
    <3>. QED
      BY <2>1, <3>1, <3>2 DEF ReqInv, StampsApart
  <2>. QED
    BY <2>2, <2>3
<1>5. ReqsInOrder'
  BY <1>1, <1>2, <1>4 DEF ReqInv, ReqsInOrder, Idle
<1>6. StampsApart'
  BY <1>4 DEF ReqInv, StampsApart
<1>7. StampsFresh'
  BY <1>3, <1>4 DEF ReqInv, StampsFresh
<1>8. LinksOfCustomers'
  BY DEF LinksOfCustomers
<1>. QED
  BY <1>5, <1>6, <1>7, <1>8 DEF ReqInv

-----------------------------------------------------------------------------
(* The steps of the live side: the invariant is kept, and the log only grows *)

LiveKept == LiveInv' /\ Recorded \subseteq Recorded'

\* What a step that writes nothing keeps.
LEMMA AdvanceKeepsLive ==
  ASSUME LiveInv, NEW r \in Requests,
         NEW next \in [op : Ops, from : Statuses \cup {"none"}, at : 0..MaxTime, links : SUBSET Links],
         Goes(r, next), UNCHANGED <<status, removed, link, log>>,
         UNCHANGED now \/ TakeTime,
         next.op # "idle" => status # "none",
         next.op \in {"remove", "removing", "invite", "inviting", "activating"} => next.from # "none",
         next.op \in {"removing", "inviting", "accepting", "activating"} =>
           \/ next.at = now /\ TakeTime
           \/ next.at = req[r].at /\ Stamped(r)
  PROVE  LiveKept
<1>1. now \in Nat \ {0} /\ MaxTime \in Nat
  BY LogOfEvents DEF LiveInv
<1>2. now' \in 1..(MaxTime + 1) /\ now <= now' /\ (TakeTime => now < now')
  BY <1>1 DEF LiveInv, LiveTypeOK, TakeTime
<1>3. LiveTypeOK'
  BY <1>2 DEF LiveInv, LiveTypeOK, Goes
<1>4. ReqInv'
  BY <1>1, <1>2, AdvanceKeepsReqs DEF LiveInv
<1>5. LogInv'
  BY <1>1, <1>2, QuietKeepsLog DEF LiveInv
<1>6. Recorded' = Recorded
  BY DEF Recorded
<1>. QED
  BY <1>3, <1>4, <1>5, <1>6 DEF LiveInv, LiveKept

\* What a step that writes an event keeps.
LEMMA WritingKeepsLive ==
  ASSUME LiveInv, NEW e \in Events, Writes(e),
         req' = req \/ \E r \in Requests : Goes(r, Idle),
         \/ e.at = now /\ TakeTime
         \/ UNCHANGED now /\ \E r \in Requests : Stamped(r) /\ e.at = req[r].at /\ Goes(r, Idle),
         status' \in Statuses, removed' \in BOOLEAN,
         link' \in [Links -> {"none", "PENDING", "REVOKED", "ACCEPTED"}],
         Opens(e) => status = "none",
         Removes(e) => ~removed /\ removed',
         ~Removes(e) => removed' = removed,
         status = "none" \/ e.from = status => e.to = status'
  PROVE  LiveKept
<1>1. now \in Nat \ {0} /\ MaxTime \in Nat
  BY LogOfEvents DEF LiveInv
<1>2. now' \in 1..(MaxTime + 1) /\ now <= now' /\ (TakeTime => now < now')
  BY <1>1 DEF LiveInv, LiveTypeOK, TakeTime
<1>3. status' # "none"
  BY DEF Statuses
<1>4. LiveTypeOK'
  <2>1. Idle \in [op : Ops, from : Statuses \cup {"none"}, at : 0..MaxTime, links : SUBSET Links]
    BY <1>1 DEF Idle, Ops
  <2>2. req' \in [Requests -> [op : Ops, from : Statuses \cup {"none"}, at : 0..MaxTime, links : SUBSET Links]]
    BY <2>1 DEF LiveInv, LiveTypeOK, Goes
  <2>3. log' \in Seq(Events)
    BY DEF LiveInv, LiveTypeOK, Writes
  <2>. QED
    BY <1>2, <2>2, <2>3 DEF LiveTypeOK
<1>5. ReqInv'
  BY <1>1, <1>2, <1>3, WritingKeepsReqs DEF LiveInv
<1>6. LogInv'
  <2>1. e.at < now'
    BY <1>1, <1>2 DEF LiveInv, ReqInv, ReqsInOrder
  <2>2. \A i \in 1..Len(log) : log[i].at # e.at
    <3>1. CASE e.at = now
      BY <1>1, <3>1, LogOfEvents DEF LiveInv, LogInv, InstantsApart
    <3>2. CASE e.at # now
      BY <3>2 DEF LiveInv, ReqInv, StampsFresh
    <3>. QED
      BY <3>1, <3>2
  <2>3. log = <<>> <=> status = "none"
    BY DEF LiveInv, LogInv, Begun
  <2>. QED
    BY <1>1, <1>2, <1>3, <2>1, <2>2, <2>3, WritingKeepsLog DEF LiveInv
<1>7. Recorded \subseteq Recorded'
  <2>1. /\ Len(log) \in Nat /\ Len(log') = Len(log) + 1
        /\ \A i \in 1..Len(log) : log'[i] = log[i]
    BY DEF LiveInv, LiveTypeOK, Writes
  <2>. QED
    BY <2>1 DEF Recorded
<1>. QED
  BY <1>4, <1>5, <1>6, <1>7 DEF LiveInv, LiveKept

\* The relationship comes to exist, or is asked for again.
LEMMA OpeningKeepsLive ==
  ASSUME LiveInv, RequestAccess \/ \E kind \in {"CreatedManual", "CreatedByImport"} : Create(kind)
  PROVE  LiveKept
<1>1. now \in Nat \ {0} /\ MaxTime \in Nat /\ removed \in BOOLEAN
      /\ link \in [Links -> {"none", "PENDING", "REVOKED", "ACCEPTED"}]
  BY LogOfEvents DEF LiveInv, LiveTypeOK
<1>2. CASE RequestAccess
  <2>. DEFINE e == Event("AccessRequested", status, "PENDING_REQUEST", now)
  <2>1. /\ Writes(e) /\ TakeTime /\ status' = "PENDING_REQUEST" /\ status \in {"none", "INACTIVE"}
        /\ UNCHANGED <<removed, link, req>>
    BY <1>2 DEF RequestAccess
  <2>2. e \in Events /\ e.at = now /\ e.from = status /\ e.to = "PENDING_REQUEST"
        /\ ~Removes(e) /\ (Opens(e) => status = "none")
    BY <1>1, <2>1 DEF Event, Events, Kinds, Statuses, TakeTime, Removes, Opens
  <2>. HIDE DEF e
  <2>. QED
    BY <1>1, <2>1, <2>2, WritingKeepsLive DEF Statuses
<1>3. CASE \E kind \in {"CreatedManual", "CreatedByImport"} : Create(kind)
  <2>1. PICK kind \in {"CreatedManual", "CreatedByImport"} : Create(kind)
    BY <1>3
  <2>. DEFINE e == Event(kind, "none", "PENDING_INVITE", now)
  <2>2. /\ Writes(e) /\ TakeTime /\ status' = "PENDING_INVITE" /\ status = "none"
        /\ UNCHANGED <<removed, link, req>>
    BY <2>1 DEF Create
  <2>3. e \in Events /\ e.at = now /\ e.to = "PENDING_INVITE" /\ ~Removes(e)
    BY <1>1, <2>2 DEF Event, Events, Kinds, Statuses, TakeTime, Removes
  <2>. HIDE DEF e
  <2>. QED
    BY <1>1, <2>2, <2>3, WritingKeepsLive DEF Statuses
<1>. QED
  BY <1>2, <1>3

\* Staff change the status: with the row as it is, or not at all.
LEMMA TransitionKeepsLive ==
  ASSUME LiveInv, NEW r \in Requests, NEW m \in Transitions,
         StartTransition(r, m) \/ TransitionStatus(r, m)
  PROVE  LiveKept
<1>1. now \in Nat \ {0} /\ MaxTime \in Nat /\ removed \in BOOLEAN
      /\ link \in [Links -> {"none", "PENDING", "REVOKED", "ACCEPTED"}]
  BY LogOfEvents DEF LiveInv, LiveTypeOK
<1>2. m.from \in Statuses /\ m.to \in Statuses /\ m.kind \in TransitionKinds /\ m.kind \in Kinds
      /\ m.kind \in Ops
      /\ m.kind \in {"RequestAccepted", "RequestDeclined", "Suspended", "Unsuspended", "Activated"}
  BY DEF Transitions, TransitionKinds, Kinds, Ops, Statuses
<1>3. Idle \in [op : Ops, from : Statuses \cup {"none"}, at : 0..MaxTime, links : SUBSET Links]
  BY <1>1 DEF Idle, Ops
<1>4. CASE StartTransition(r, m)
  <2>. DEFINE next == [Idle EXCEPT !.op = m.kind]
  <2>1. next \in [op : Ops, from : Statuses \cup {"none"}, at : 0..MaxTime, links : SUBSET Links]
        /\ next.op = m.kind
    BY <1>2, <1>3 DEF Idle
  <2>2. Goes(r, next) /\ UNCHANGED <<status, removed, link, log, now>> /\ status # "none"
    BY <1>4 DEF StartTransition, Listed
  <2>. HIDE DEF next
  <2>. QED
    BY <1>2, <2>1, <2>2, AdvanceKeepsLive
<1>5. CASE TransitionStatus(r, m) /\ status = m.from
  <2>. DEFINE e == Event(m.kind, m.from, m.to, now)
  <2>1. /\ Writes(e) /\ TakeTime /\ status' = m.to /\ Goes(r, Idle) /\ UNCHANGED <<removed, link>>
    BY <1>5 DEF TransitionStatus
  <2>2. e \in Events /\ e.at = now /\ e.from = m.from /\ e.to = m.to /\ ~Removes(e) /\ ~Opens(e)
    BY <1>1, <1>2, <2>1 DEF Event, Events, TakeTime, Removes, Opens
  <2>3. status # "none"
    BY <1>2, <1>5 DEF Statuses
  <2>. HIDE DEF e
  <2>. QED
    BY <1>1, <1>2, <2>1, <2>2, <2>3, WritingKeepsLive
<1>6. CASE TransitionStatus(r, m) /\ status # m.from
  <2>1. Goes(r, Idle) /\ UNCHANGED <<status, removed, link, log, now>>
    BY <1>6 DEF TransitionStatus
  <2>. QED
    BY <1>3, <2>1, AdvanceKeepsLive DEF Idle
<1>. QED
  BY <1>4, <1>5, <1>6

\* Staff remove the customer: the second of two removals finds it removed.
LEMMA RemovalKeepsLive ==
  ASSUME LiveInv, NEW r \in Requests, StartRemove(r) \/ StampRemoval(r) \/ Remove(r)
  PROVE  LiveKept
<1>. DEFINE Reqs == [op : Ops, from : Statuses \cup {"none"}, at : 0..MaxTime, links : SUBSET Links]
<1>1. now \in Nat \ {0} /\ MaxTime \in Nat /\ removed \in BOOLEAN /\ req[r] \in Reqs
      /\ status \in Statuses \cup {"none"}
      /\ link \in [Links -> {"none", "PENDING", "REVOKED", "ACCEPTED"}]
  BY LogOfEvents DEF LiveInv, LiveTypeOK
<1>2. Idle \in Reqs
  BY <1>1 DEF Idle, Ops
<1>3. CASE StartRemove(r)
  <2>. DEFINE next == [Idle EXCEPT !.op = "remove", !.from = status]
  <2>1. next \in Reqs /\ next.op = "remove" /\ next.from = status
    BY <1>1, <1>2 DEF Idle, Ops
  <2>2. Goes(r, next) /\ UNCHANGED <<status, removed, link, log, now>> /\ status # "none"
    BY <1>3 DEF StartRemove, Listed
  <2>. HIDE DEF next
  <2>. QED
    BY <2>1, <2>2, AdvanceKeepsLive
<1>4. CASE StampRemoval(r)
  <2>. DEFINE next == [req[r] EXCEPT !.op = "removing", !.at = now]
  <2>1. Goes(r, next) /\ UNCHANGED <<status, removed, link, log>> /\ TakeTime /\ req[r].op = "remove"
    BY <1>4 DEF StampRemoval
  <2>2. next \in Reqs /\ next.op = "removing" /\ next.from = req[r].from /\ next.at = now
    <3>1. now \in 0..MaxTime /\ "removing" \in Ops
      BY <1>1, <2>1 DEF TakeTime, Ops
    <3>. QED
      BY <1>1, <3>1
  <2>3. status # "none" /\ req[r].from # "none"
    BY <2>1 DEF LiveInv, ReqInv, ReqsInOrder
  <2>. HIDE DEF next
  <2>. QED
    BY <2>1, <2>2, <2>3, AdvanceKeepsLive
<1>5. CASE Remove(r) /\ removed
  <2>1. Goes(r, Idle) /\ UNCHANGED <<status, removed, link, log, now>>
    BY <1>5 DEF Remove
  <2>. QED
    BY <1>2, <2>1, AdvanceKeepsLive DEF Idle
<1>6. CASE Remove(r) /\ ~removed
  <2>. DEFINE e == Event("Removed", req[r].from, req[r].from, req[r].at)
  <2>1. /\ Writes(e) /\ removed' = TRUE /\ Goes(r, Idle) /\ UNCHANGED <<status, link, now>>
        /\ req[r].op = "removing"
    BY <1>6 DEF Remove
  <2>2. status # "none" /\ req[r].from # "none" /\ req[r].at \in 1..(now - 1)
    BY <2>1 DEF LiveInv, ReqInv, ReqsInOrder, Stamped
  <2>3. e \in Events /\ e.at = req[r].at /\ e.from = e.to /\ ~Opens(e) /\ Removes(e)
    BY <1>1, <2>2 DEF Event, Events, Kinds, Opens, Removes
  <2>4. Stamped(r) /\ status' \in Statuses /\ removed' \in BOOLEAN
    BY <1>1, <2>1, <2>2 DEF Stamped
  <2>. HIDE DEF e
  <2>. QED
    BY <1>1, <1>6, <2>1, <2>2, <2>3, <2>4, WritingKeepsLive
<1>. QED
  BY <1>3, <1>4, <1>5, <1>6

\* Staff mail a link: it is written with the status read before.
LEMMA InviteKeepsLive ==
  ASSUME LiveInv, NEW r \in Requests, StartInvite(r) \/ ReplaceLinks(r) \/ CommitInvite(r)
  PROVE  LiveKept
<1>. DEFINE Reqs == [op : Ops, from : Statuses \cup {"none"}, at : 0..MaxTime, links : SUBSET Links]
<1>1. now \in Nat \ {0} /\ MaxTime \in Nat /\ removed \in BOOLEAN /\ req[r] \in Reqs
      /\ status \in Statuses \cup {"none"}
      /\ link \in [Links -> {"none", "PENDING", "REVOKED", "ACCEPTED"}]
  BY LogOfEvents DEF LiveInv, LiveTypeOK
<1>2. Idle \in Reqs
  BY <1>1 DEF Idle, Ops
<1>3. CASE StartInvite(r)
  <2>. DEFINE next == [Idle EXCEPT !.op = "invite", !.from = status]
  <2>1. next \in Reqs /\ next.op = "invite" /\ next.from = status
    BY <1>1, <1>2 DEF Idle, Ops
  <2>2. Goes(r, next) /\ UNCHANGED <<status, removed, link, log, now>> /\ status # "none"
    BY <1>3 DEF StartInvite, Listed
  <2>. HIDE DEF next
  <2>. QED
    BY <2>1, <2>2, AdvanceKeepsLive
<1>4. CASE ReplaceLinks(r)
  <2>1. PICK held \in SUBSET Links :
          /\ Goes(r, [req[r] EXCEPT !.op = "inviting", !.at = now, !.links = held])
          /\ UNCHANGED <<status, removed, link, log>> /\ TakeTime /\ req[r].op = "invite"
    <3>1. PICK new \in Links :
            Goes(r, [req[r] EXCEPT !.op = "inviting", !.at = now,
                       !.links = {new} \cup {l \in Links : link[l] = "PENDING" /\ EmailOf[l] = EmailOf[new]}])
      BY <1>4 DEF ReplaceLinks
    <3>. QED
      BY <1>4, <3>1 DEF ReplaceLinks
  <2>. DEFINE next == [req[r] EXCEPT !.op = "inviting", !.at = now, !.links = held]
  <2>2. next \in Reqs /\ next.op = "inviting" /\ next.from = req[r].from /\ next.at = now
    <3>1. now \in 0..MaxTime /\ "inviting" \in Ops
      BY <1>1, <2>1 DEF TakeTime, Ops
    <3>. QED
      BY <1>1, <3>1
  <2>3. status # "none" /\ req[r].from # "none"
    BY <2>1 DEF LiveInv, ReqInv, ReqsInOrder
  <2>4. Goes(r, next)
    BY <2>1
  <2>. HIDE DEF next
  <2>. QED
    BY <2>1, <2>2, <2>3, <2>4, AdvanceKeepsLive
<1>5. CASE CommitInvite(r)
  <2>. DEFINE e == Event("InviteSent", req[r].from, req[r].from, req[r].at)
  <2>1. /\ Writes(e) /\ Goes(r, Idle) /\ UNCHANGED <<status, removed, now>> /\ req[r].op = "inviting"
        /\ link' = [l \in Links |-> IF l \notin req[r].links THEN link[l]
                                    ELSE IF link[l] = "none" THEN "PENDING" ELSE "REVOKED"]
    BY <1>5 DEF CommitInvite
  <2>2. status # "none" /\ req[r].from # "none" /\ req[r].at \in 1..(now - 1)
    BY <2>1 DEF LiveInv, ReqInv, ReqsInOrder, Stamped
  <2>3. e \in Events /\ e.at = req[r].at /\ e.from = e.to /\ ~Opens(e) /\ ~Removes(e)
    BY <1>1, <2>2 DEF Event, Events, Kinds, Opens, Removes
  <2>4. Stamped(r) /\ status' \in Statuses
        /\ link' \in [Links -> {"none", "PENDING", "REVOKED", "ACCEPTED"}]
    BY <1>1, <2>1, <2>2 DEF Stamped
  <2>. HIDE DEF e
  <2>. QED
    BY <1>1, <2>1, <2>2, <2>3, <2>4, WritingKeepsLive
<1>. QED
  BY <1>3, <1>4, <1>5

\* A link is opened and accepted: the relationship is active, whatever it was.
LEMMA AcceptanceKeepsLive ==
  ASSUME LiveInv, NEW r \in Requests,
         (\E l \in Links : StartAccept(r, l)) \/ StampAccept(r) \/ LockLink(r) \/ CommitAccept(r)
  PROVE  LiveKept
<1>. DEFINE Reqs == [op : Ops, from : Statuses \cup {"none"}, at : 0..MaxTime, links : SUBSET Links]
<1>1. now \in Nat \ {0} /\ MaxTime \in Nat /\ removed \in BOOLEAN /\ req[r] \in Reqs
      /\ status \in Statuses \cup {"none"}
      /\ link \in [Links -> {"none", "PENDING", "REVOKED", "ACCEPTED"}]
  BY LogOfEvents DEF LiveInv, LiveTypeOK
<1>2. Idle \in Reqs
  BY <1>1 DEF Idle, Ops
<1>3. CASE \E l \in Links : StartAccept(r, l)
  <2>1. PICK l \in Links : StartAccept(r, l)
    BY <1>3
  <2>. DEFINE next == [Idle EXCEPT !.op = "accept", !.links = {l}]
  <2>2. next \in Reqs /\ next.op = "accept"
    BY <1>2 DEF Idle, Ops
  <2>3. Goes(r, next) /\ UNCHANGED <<status, removed, link, log, now>>
    BY <2>1 DEF StartAccept
  <2>4. status # "none"
    BY <2>1 DEF StartAccept, LiveInv, ReqInv, LinksOfCustomers
  <2>. HIDE DEF next
  <2>. QED
    BY <2>2, <2>3, <2>4, AdvanceKeepsLive
<1>4. CASE StampAccept(r)
  <2>. DEFINE next == [req[r] EXCEPT !.op = "accepting", !.at = now]
  <2>1. Goes(r, next) /\ UNCHANGED <<status, removed, link, log>> /\ TakeTime /\ req[r].op = "accept"
    BY <1>4 DEF StampAccept
  <2>2. next \in Reqs /\ next.op = "accepting" /\ next.at = now
    <3>1. now \in 0..MaxTime /\ "accepting" \in Ops
      BY <1>1, <2>1 DEF TakeTime, Ops
    <3>. QED
      BY <1>1, <3>1
  <2>3. status # "none"
    BY <2>1 DEF LiveInv, ReqInv, ReqsInOrder
  <2>. HIDE DEF next
  <2>. QED
    BY <2>1, <2>2, <2>3, AdvanceKeepsLive
<1>5. CASE LockLink(r)
  <2>. DEFINE next == [req[r] EXCEPT !.op = "activating", !.from = status]
  <2>1. Goes(r, next) /\ UNCHANGED <<status, removed, link, log, now>> /\ req[r].op = "accepting"
    BY <1>5 DEF LockLink
  <2>2. next \in Reqs /\ next.op = "activating" /\ next.from = status /\ next.at = req[r].at
    BY <1>1 DEF Ops
  <2>3. status # "none" /\ Stamped(r)
    BY <2>1 DEF LiveInv, ReqInv, ReqsInOrder, Stamped
  <2>. HIDE DEF next
  <2>. QED
    BY <2>1, <2>2, <2>3, AdvanceKeepsLive
<1>6. CASE CommitAccept(r)
  <2>. DEFINE e == Event("InviteAccepted", req[r].from, "ACTIVE", req[r].at)
  <2>1. /\ Writes(e) /\ Goes(r, Idle) /\ status' = "ACTIVE" /\ UNCHANGED <<removed, now>>
        /\ req[r].op = "activating"
        /\ link' = [l \in Links |-> IF l \in req[r].links THEN "ACCEPTED" ELSE link[l]]
    BY <1>6 DEF CommitAccept
  <2>2. status # "none" /\ req[r].from # "none" /\ req[r].at \in 1..(now - 1)
    BY <2>1 DEF LiveInv, ReqInv, ReqsInOrder, Stamped
  <2>3. e \in Events /\ e.at = req[r].at /\ e.to = "ACTIVE" /\ ~Opens(e) /\ ~Removes(e)
    BY <1>1, <2>2 DEF Event, Events, Kinds, Statuses, Opens, Removes
  <2>4. Stamped(r) /\ status' \in Statuses
        /\ link' \in [Links -> {"none", "PENDING", "REVOKED", "ACCEPTED"}]
    BY <1>1, <2>1 DEF Stamped, Statuses
  <2>. HIDE DEF e
  <2>. QED
    BY <1>1, <2>1, <2>3, <2>4, WritingKeepsLive
<1>. QED
  BY <1>3, <1>4, <1>5, <1>6

LEMMA RollBackKeepsLive ==
  ASSUME LiveInv, NEW r \in Requests, RollBack(r)
  PROVE  LiveKept
<1>1. Goes(r, Idle) /\ UNCHANGED <<status, removed, link, log, now>>
  BY DEF RollBack
<1>2. Idle \in [op : Ops, from : Statuses \cup {"none"}, at : 0..MaxTime, links : SUBSET Links]
  BY LogOfEvents DEF LiveInv, Idle, Ops
<1>. QED
  BY <1>1, <1>2, AdvanceKeepsLive DEF Idle

LEMMA LiveStep ==
  ASSUME LiveInv, LiveNext
  PROVE  LiveKept
BY OpeningKeepsLive, TransitionKeepsLive, RemovalKeepsLive, InviteKeepsLive, AcceptanceKeepsLive,
   RollBackKeepsLive DEF LiveNext

-----------------------------------------------------------------------------
(* The consumer *)

\* Facts are events of the log, and no two have one time.
LEMMA FactsApart ==
  ASSUME TypeOK, LogInv
  PROVE  /\ \A e \in Recorded : e \in Events /\ e.at \in 1..MaxTime /\ e.at # 0
         /\ \A e \in Recorded : \A f \in Recorded : e.at = f.at => e = f
BY LogOfEvents DEF TypeOK, LogInv, InstantsApart, Recorded

\* The row opens with the first opening there is.
LEMMA OpeningProjected ==
  ASSUME TypeOK, LogInv, ProjectionOfFacts, facts # {}, NEW e \in Recorded \ facts,
         facts' = facts \cup {e}, row' = Updated(row, Inserted(e))
  PROVE  LET openings == {f \in facts' : Opens(f)}
         IN IF openings = {} THEN row'.openedAt = 0 /\ row'.origin \in {"UNKNOWN", "none"}
            ELSE \E f \in openings : /\ FirstOf(openings, f)
                                     /\ row'.openedAt = f.at /\ row'.origin = OriginOf(f)
<1>. DEFINE old == {f \in facts : Opens(f)}
            new == {f \in facts' : Opens(f)}
<1>1. /\ e.at \in Nat \ {0} /\ \A f \in facts : f.at \in Nat \ {0}
  BY FactsApart DEF TypeOK
<1>2. /\ row'.openedAt = IF Earlier(Inserted(e).openedAt, row.openedAt) THEN Inserted(e).openedAt ELSE row.openedAt
      /\ row'.origin = IF Earlier(Inserted(e).openedAt, row.openedAt) THEN Inserted(e).origin ELSE row.origin
  BY DEF Updated
<1>3. /\ Inserted(e).openedAt = IF Opens(e) THEN e.at ELSE 0
      /\ Opens(e) => Inserted(e).origin = OriginOf(e)
  BY DEF Inserted
<1>4. IF old = {} THEN row.openedAt = 0 /\ row.origin \in {"UNKNOWN", "none"}
      ELSE \E f \in old : FirstOf(old, f) /\ row.openedAt = f.at /\ row.origin = OriginOf(f)
  BY DEF ProjectionOfFacts
<1>5. new = IF Opens(e) THEN old \cup {e} ELSE old
  OBVIOUS
<1>6. CASE ~Opens(e)
  BY <1>2, <1>3, <1>4, <1>5, <1>6 DEF Earlier
<1>7. CASE Opens(e) /\ old = {}
  <2>1. row'.openedAt = e.at /\ row'.origin = OriginOf(e)
    BY <1>1, <1>2, <1>3, <1>4, <1>7 DEF Earlier
  <2>2. e \in new /\ FirstOf(new, e)
    BY <1>1, <1>5, <1>7 DEF FirstOf
  <2>. QED
    BY <2>1, <2>2
<1>8. CASE Opens(e) /\ old # {}
  <2>1. PICK f \in old : FirstOf(old, f) /\ row.openedAt = f.at /\ row.origin = OriginOf(f)
    BY <1>4, <1>8
  <2>2. CASE e.at < f.at
    <3>1. row'.openedAt = e.at /\ row'.origin = OriginOf(e)
      BY <1>1, <1>2, <1>3, <1>8, <2>1, <2>2 DEF Earlier
    <3>2. e \in new /\ FirstOf(new, e)
      BY <1>1, <1>5, <1>8, <2>1, <2>2 DEF FirstOf
    <3>. QED
      BY <3>1, <3>2
  <2>3. CASE ~(e.at < f.at)
    <3>1. row'.openedAt = f.at /\ row'.origin = OriginOf(f)
      BY <1>1, <1>2, <1>3, <1>8, <2>1, <2>3 DEF Earlier
    <3>2. f \in new /\ FirstOf(new, f)
      BY <1>1, <1>5, <1>8, <2>1, <2>3 DEF FirstOf
    <3>. QED
      BY <3>1, <3>2
  <2>. QED
    BY <2>2, <2>3
<1>. QED
  BY <1>6, <1>7, <1>8

\* It is activated by the first activation there is.
LEMMA ActivationProjected ==
  ASSUME TypeOK, LogInv, ProjectionOfFacts, facts # {}, NEW e \in Recorded \ facts,
         facts' = facts \cup {e}, row' = Updated(row, Inserted(e))
  PROVE  LET activations == {f \in facts' : Activates(f)}
         IN IF activations = {} THEN row'.activatedAt = 0 /\ row'.activatedVia = "none"
            ELSE \E f \in activations : /\ FirstOf(activations, f)
                                        /\ row'.activatedAt = f.at /\ row'.activatedVia = f.kind
<1>. DEFINE old == {f \in facts : Activates(f)}
            new == {f \in facts' : Activates(f)}
<1>1. /\ e.at \in Nat \ {0} /\ \A f \in facts : f.at \in Nat \ {0}
  BY FactsApart DEF TypeOK
<1>2. LET earlier == Earlier(Inserted(e).activatedAt, row.activatedAt)
      IN /\ row'.activatedAt = IF earlier THEN Inserted(e).activatedAt ELSE row.activatedAt
         /\ row'.activatedVia = IF earlier THEN Inserted(e).activatedVia ELSE row.activatedVia
  BY DEF Updated
<1>3. /\ Inserted(e).activatedAt = IF Activates(e) THEN e.at ELSE 0
      /\ Activates(e) => Inserted(e).activatedVia = e.kind
  BY DEF Inserted
<1>4. IF old = {} THEN row.activatedAt = 0 /\ row.activatedVia = "none"
      ELSE \E f \in old : FirstOf(old, f) /\ row.activatedAt = f.at /\ row.activatedVia = f.kind
  BY DEF ProjectionOfFacts
<1>5. new = IF Activates(e) THEN old \cup {e} ELSE old
  OBVIOUS
<1>6. CASE ~Activates(e)
  BY <1>2, <1>3, <1>4, <1>5, <1>6 DEF Earlier
<1>7. CASE Activates(e) /\ old = {}
  <2>1. row'.activatedAt = e.at /\ row'.activatedVia = e.kind
    BY <1>1, <1>2, <1>3, <1>4, <1>7 DEF Earlier
  <2>2. e \in new /\ FirstOf(new, e)
    BY <1>1, <1>5, <1>7 DEF FirstOf
  <2>. QED
    BY <2>1, <2>2
<1>8. CASE Activates(e) /\ old # {}
  <2>1. PICK f \in old : FirstOf(old, f) /\ row.activatedAt = f.at /\ row.activatedVia = f.kind
    BY <1>4, <1>8
  <2>2. CASE e.at < f.at
    <3>1. row'.activatedAt = e.at /\ row'.activatedVia = e.kind
      BY <1>1, <1>2, <1>3, <1>8, <2>1, <2>2 DEF Earlier
    <3>2. e \in new /\ FirstOf(new, e)
      BY <1>1, <1>5, <1>8, <2>1, <2>2 DEF FirstOf
    <3>. QED
      BY <3>1, <3>2
  <2>3. CASE ~(e.at < f.at)
    <3>1. row'.activatedAt = f.at /\ row'.activatedVia = f.kind
      BY <1>1, <1>2, <1>3, <1>8, <2>1, <2>3 DEF Earlier
    <3>2. f \in new /\ FirstOf(new, f)
      BY <1>1, <1>5, <1>8, <2>1, <2>3 DEF FirstOf
    <3>. QED
      BY <3>1, <3>2
  <2>. QED
    BY <2>2, <2>3
<1>. QED
  BY <1>6, <1>7, <1>8

\* It has the status of the latest event, and is removed by a removal.
LEMMA LatestProjected ==
  ASSUME TypeOK, LogInv, ProjectionOfFacts, facts # {}, NEW e \in Recorded \ facts,
         facts' = facts \cup {e}, row' = Updated(row, Inserted(e))
  PROVE  /\ \E f \in facts' : /\ \A g \in facts' : g.at <= f.at
                              /\ row'.status = f.to /\ row'.lastEventAt = f.at
         /\ LET removals == {f \in facts' : Removes(f)}
            IN IF removals = {} THEN row'.removedAt = 0
               ELSE \E f \in removals : row'.removedAt = f.at
<1>1. /\ e.at \in Nat \ {0} /\ \A f \in facts : f.at \in Nat \ {0}
  BY FactsApart DEF TypeOK
<1>2. PICK f \in facts : (\A g \in facts : g.at <= f.at) /\ row.status = f.to /\ row.lastEventAt = f.at
  BY DEF ProjectionOfFacts
<1>3. /\ row'.status = IF f.at < e.at THEN e.to ELSE f.to
      /\ row'.lastEventAt = IF f.at < e.at THEN e.at ELSE f.at
      /\ row'.removedAt = IF row.removedAt # 0 THEN row.removedAt ELSE IF Removes(e) THEN e.at ELSE 0
  BY <1>2 DEF Updated, Inserted, IsLater
<1>4. IF f.at < e.at THEN \A g \in facts' : g.at <= e.at ELSE \A g \in facts' : g.at <= f.at
  BY <1>1, <1>2
<1>5. IF {g \in facts : Removes(g)} = {} THEN row.removedAt = 0
      ELSE \E g \in {h \in facts : Removes(h)} : row.removedAt = g.at
  BY DEF ProjectionOfFacts
<1>6. LET removals == {g \in facts' : Removes(g)}
      IN IF removals = {} THEN row'.removedAt = 0 ELSE \E g \in removals : row'.removedAt = g.at
  BY <1>1, <1>3, <1>5
<1>. QED
  BY <1>2, <1>3, <1>4, <1>6

LEMMA ConsumerStep ==
  ASSUME FactsInv, NEW e \in Recorded, HandleRelationshipEvent(e)
  PROVE  FactsInv'
<1>1. LiveTypeOK' /\ ReqInv' /\ LogInv' /\ Recorded' = Recorded
  BY DEF HandleRelationshipEvent, liveVars, FactsInv, TypeOK, LiveTypeOK, ReqInv, ReqsInOrder, StampsApart,
         StampsFresh, LinksOfCustomers, Stamped, LogInv, InstantsApart, Begun, OpensFirst,
         RemovedWhenLogged, RemovedOnce, ChainEnds, Chained, Recorded
<1>2. CASE e \in facts
  BY <1>1, <1>2 DEF HandleRelationshipEvent, FactsInv, TypeOK, ProjectionOfFacts
<1>3. CASE e \notin facts
  <2>1. /\ facts' = facts \cup {e}
        /\ row' = IF row = NoRow THEN Inserted(e) ELSE Updated(row, Inserted(e))
    BY <1>3 DEF HandleRelationshipEvent
  <2>2. /\ e.at \in 1..MaxTime /\ MaxTime \in Nat /\ e.kind \in Kinds /\ e.to \in Statuses
    <3>1. e \in Events
      BY FactsApart DEF FactsInv
    <3>. QED
      BY <3>1, TradeRelationshipsAssumption DEF TradeRelationshipsAssumption, Events
  <2>. DEFINE Rows == [origin : Origins \cup {"none"}, openedAt : 0..MaxTime, activatedAt : 0..MaxTime,
                       activatedVia : Kinds \cup {"none"}, status : Statuses \cup {"none"},
                       removedAt : 0..MaxTime, lastEventAt : 0..MaxTime]
  <2>3. Inserted(e) \in Rows /\ row \in Rows
    <3>1. (IF Opens(e) THEN OriginOf(e) ELSE "UNKNOWN") \in Origins \cup {"none"}
      BY DEF OriginOf, Origins
    <3>2. (IF Activates(e) THEN e.kind ELSE "none") \in Kinds \cup {"none"}
      BY <2>2
    <3>. QED
      BY <2>2, <3>1, <3>2 DEF Inserted, FactsInv, TypeOK
  <2>4. Updated(row, Inserted(e)) \in Rows
    BY <2>3 DEF Updated
  <2>5. TypeOK'
    BY <1>1, <2>1, <2>3, <2>4 DEF FactsInv, TypeOK
  <2>6. facts = {} <=> row = NoRow
    <3>1. \A f \in facts : f.to \in Statuses
      BY FactsApart DEF FactsInv, TypeOK, Events
    <3>2. facts # {} => row.status \in Statuses
      BY <3>1 DEF FactsInv, ProjectionOfFacts
    <3>3. facts = {} => row = NoRow
      BY DEF FactsInv, ProjectionOfFacts
    <3>. QED
      BY <3>2, <3>3 DEF NoRow, Statuses
  <2>7. CASE facts = {}
    <3>1. facts' = {e} /\ row' = Inserted(e)
      BY <2>1, <2>6, <2>7
    <3>2. ProjectionOfFacts'
      BY <2>2, <3>1 DEF ProjectionOfFacts, FirstOf, Inserted
    <3>. QED
      BY <1>1, <2>5, <3>2 DEF FactsInv
  <2>8. CASE facts # {}
    <3>1. row' = Updated(row, Inserted(e)) /\ facts' # {}
      BY <2>1, <2>6, <2>8
    <3>2. ProjectionOfFacts'
      BY <1>3, <2>1, <2>8, <3>1, OpeningProjected, ActivationProjected, LatestProjected
      DEF ProjectionOfFacts, FactsInv, FirstOf
    <3>. QED
      BY <1>1, <2>5, <3>2 DEF FactsInv
  <2>. QED
    BY <2>7, <2>8
<1>. QED
  BY <1>2, <1>3

-----------------------------------------------------------------------------
(* The invariant holds *)

LEMMA FactsInvInit == Init => FactsInv
<1>. SUFFICES ASSUME Init
              PROVE  FactsInv
  OBVIOUS
<1>1. MaxTime \in Nat
  BY TradeRelationshipsAssumption DEF TradeRelationshipsAssumption
<1>2. Idle \in [op : Ops, from : Statuses \cup {"none"}, at : 0..MaxTime, links : SUBSET Links]
  BY <1>1 DEF Idle, Ops
<1>3. LiveTypeOK
  <2>1. log \in Seq(Events)
    BY DEF Init, LiveInit
  <2>2. req \in [Requests -> [op : Ops, from : Statuses \cup {"none"}, at : 0..MaxTime, links : SUBSET Links]]
    BY <1>2 DEF Init, LiveInit
  <2>3. link \in [Links -> {"none", "PENDING", "REVOKED", "ACCEPTED"}]
    BY DEF Init, LiveInit
  <2>4. status \in Statuses \cup {"none"} /\ removed \in BOOLEAN
    BY DEF Init, LiveInit
  <2>5. now \in 1..(MaxTime + 1)
    BY <1>1 DEF Init, LiveInit
  <2>. QED
    BY <2>1, <2>2, <2>3, <2>4, <2>5 DEF LiveTypeOK
<1>4. NoRow \in [origin : Origins \cup {"none"}, openedAt : 0..MaxTime, activatedAt : 0..MaxTime,
                 activatedVia : Kinds \cup {"none"}, status : Statuses \cup {"none"},
                 removedAt : 0..MaxTime, lastEventAt : 0..MaxTime]
  BY <1>1 DEF NoRow
<1>5. TypeOK
  BY <1>3, <1>4 DEF Init, TypeOK
<1>6. ReqInv
  BY DEF Init, LiveInit, Idle, ReqInv, ReqsInOrder, StampsApart, StampsFresh, Stamped, LinksOfCustomers
<1>7. LogInv
  BY DEF Init, LiveInit, LogInv, InstantsApart, Begun, OpensFirst, RemovedWhenLogged, RemovedOnce, ChainEnds
<1>8. ProjectionOfFacts
  BY DEF Init, ProjectionOfFacts, NoRow
<1>. QED
  BY <1>5, <1>6, <1>7, <1>8 DEF FactsInv

LEMMA FactsInvStep == FactsInv /\ [Next]_vars => FactsInv'
<1>. SUFFICES ASSUME FactsInv, [Next]_vars
              PROVE  FactsInv'
  OBVIOUS
<1>1. CASE LiveNext /\ UNCHANGED <<facts, row>>
  <2>1. LiveKept
    BY <1>1, LiveStep DEF FactsInv, TypeOK, LiveInv
  <2>2. TypeOK'
    BY <1>1, <2>1 DEF FactsInv, TypeOK, LiveInv, LiveKept
  <2>3. ProjectionOfFacts'
    BY <1>1 DEF FactsInv, ProjectionOfFacts
  <2>. QED
    BY <2>1, <2>2, <2>3 DEF FactsInv, LiveInv, LiveKept
<1>2. CASE \E e \in Recorded : HandleRelationshipEvent(e)
  BY <1>2, ConsumerStep
<1>3. CASE UNCHANGED vars
  <2>1. UNCHANGED <<status, removed, link, req, log, now, facts, row>>
    BY <1>3 DEF vars, liveVars
  <2>2. TypeOK' /\ ProjectionOfFacts'
    <3>1. LiveTypeOK'
      BY <2>1 DEF FactsInv, TypeOK, LiveTypeOK
    <3>2. TypeOK'
      BY <2>1, <3>1 DEF FactsInv, TypeOK, Recorded
    <3>3. ProjectionOfFacts'
      BY <2>1 DEF FactsInv, ProjectionOfFacts
    <3>. QED
      BY <3>2, <3>3
  <2>3. ReqInv'
    BY <2>1 DEF FactsInv, ReqInv, ReqsInOrder, StampsApart, StampsFresh, LinksOfCustomers, Stamped
  <2>4. LogInv'
    BY <2>1 DEF FactsInv, LogInv, InstantsApart, Begun, OpensFirst, RemovedWhenLogged, RemovedOnce,
                ChainEnds, Chained
  <2>. QED
    BY <2>2, <2>3, <2>4 DEF FactsInv
<1>. QED
  BY <1>1, <1>2, <1>3 DEF Next, Rest

LEMMA FactsInvariant == Spec => []FactsInv
<1>1. Init => FactsInv
  BY FactsInvInit
<1>2. FactsInv /\ [Next]_vars => FactsInv'
  BY FactsInvStep
<1>. QED
  BY <1>1, <1>2, PTL DEF Spec

-----------------------------------------------------------------------------
(* The theorems *)

\* Relationship, requests, links, events, facts and row keep their types, and
\* every fact is an event that was committed.
THEOREM RelationshipTypeCorrect == Spec => []TypeOK
<1>1. FactsInv => TypeOK
  BY DEF FactsInv
<1>. QED
  BY <1>1, FactsInvariant, PTL

\* The row is the projection of the facts, in whatever order and however often
\* the events arrived (relationship-facts.service.ts, the upsert).
THEOREM RowProjectsFacts == Spec => []ProjectionOfFacts
<1>1. FactsInv => ProjectionOfFacts
  BY DEF FactsInv
<1>. QED
  BY <1>1, FactsInvariant, PTL

\* One event opens the relationship and at most one removes it
\* (admin-customers.service.ts, remove; the unique index on the pair).
THEOREM OpenedOnceRemovedOnce == Spec => []OpenedAndRemovedOnce
<1>1. FactsInv => OpenedAndRemovedOnce
  BY DEF FactsInv, LogInv, OpensFirst, RemovedOnce, OpenedAndRemovedOnce
<1>. QED
  BY <1>1, FactsInvariant, PTL

\* When every event has arrived, the row agrees with the relationship on the
\* removal, and on the status if each event left the status the one before it
\* led to, at a later time (analytics-reconciliation.service.ts).
THEOREM RowAgreesWithRelationship == Spec => []AgreesOnceConsumed
<1>1. FactsInv => AgreesOnceConsumed
  <2>. SUFFICES ASSUME FactsInv, facts = Recorded
                PROVE  (removed <=> row.removedAt # 0) /\ (Chained => row.status = status)
    BY DEF AgreesOnceConsumed
  <2>1. \A e \in facts : e.at # 0 /\ \A f \in facts : e.at = f.at => e = f
    BY FactsApart DEF FactsInv
  <2>2. removed <=> \E e \in facts : Removes(e)
    BY DEF FactsInv, LogInv, RemovedWhenLogged, Recorded
  <2>3. removed <=> row.removedAt # 0
    BY <2>1, <2>2 DEF FactsInv, ProjectionOfFacts
  <2>4. ASSUME Chained PROVE row.status = status
    <3>1. CASE log = <<>>
      <4>1. facts = {} /\ status = "none"
        BY <3>1 DEF Recorded, FactsInv, LogInv, Begun
      <4>. QED
        BY <4>1 DEF FactsInv, ProjectionOfFacts, NoRow
    <3>2. CASE log # <<>>
      <4>1. Len(log) \in 1..Len(log) /\ \A i \in 1..Len(log) : log[i].at \in Nat
        BY <3>2, LogOfEvents DEF FactsInv, TypeOK, LiveTypeOK
      <4>2. /\ log[Len(log)].to = status
            /\ \A i \in 1..Len(log) : log[i].at <= log[Len(log)].at
        BY <2>4, <3>2 DEF FactsInv, LogInv, ChainEnds
      <4>3. log[Len(log)] \in facts
        BY <4>1 DEF Recorded
      <4>4. PICK e \in facts : (\A f \in facts : f.at <= e.at) /\ row.status = e.to
        BY <4>3 DEF FactsInv, ProjectionOfFacts
      <4>5. e.at = log[Len(log)].at
        BY <4>1, <4>2, <4>3, <4>4 DEF Recorded
      <4>. QED
        BY <2>1, <4>2, <4>3, <4>4, <4>5
    <3>. QED
      BY <3>1, <3>2
  <2>. QED
    BY <2>3, <2>4
<1>. QED
  BY <1>1, FactsInvariant, PTL

\* Only lifting the suspension, or a link accepted meanwhile, ends a suspension
\* (admin-customers.service.ts, transitionStatus; customers.service.ts, requestAccess).
THEOREM SuspensionIsKept == Spec => SuspensionHolds
<1>. DEFINE Held ==
       status = "SUSPENDED" /\ status' # "SUSPENDED" =>
         \E e \in {"Unsuspended", "InviteAccepted"} : log'[Len(log')].kind = e
<1>1. ASSUME FactsInv, LiveNext
      PROVE  Held
  <2>1. log \in Seq(Events)
    BY <1>1 DEF FactsInv, TypeOK, LiveTypeOK
  <2>2. \A e \in Events : Writes(e) => log'[Len(log')] = e
    BY <2>1 DEF Writes
  <2>3. ASSUME NEW r \in Requests, NEW m \in Transitions, TransitionStatus(r, m), status = "SUSPENDED",
               status' # "SUSPENDED"
        PROVE  log'[Len(log')].kind = "Unsuspended"
    <3>1. m = [kind |-> "Unsuspended", from |-> "SUSPENDED", to |-> "ACTIVE"]
      BY <2>3 DEF TransitionStatus, Transitions
    <3>2. Writes(Event("Unsuspended", "SUSPENDED", "ACTIVE", now)) /\ TakeTime
      BY <2>3, <3>1 DEF TransitionStatus
    <3>3. Event("Unsuspended", "SUSPENDED", "ACTIVE", now) \in Events
      BY <1>1, <3>2, LogOfEvents
      DEF FactsInv, TypeOK, Event, Events, Kinds, TransitionKinds, Transitions, Statuses, TakeTime
    <3>. QED
      BY <2>2, <3>2, <3>3 DEF Event
  <2>4. ASSUME NEW r \in Requests, CommitAccept(r)
        PROVE  log'[Len(log')].kind = "InviteAccepted"
    <3>1. Writes(Event("InviteAccepted", req[r].from, "ACTIVE", req[r].at)) /\ req[r].op = "activating"
      BY <2>4 DEF CommitAccept
    <3>2. req[r].from \in Statuses \cup {"none"} /\ req[r].at \in 1..(now - 1) /\ now \in 1..(MaxTime + 1)
      BY <1>1, <3>1 DEF FactsInv, TypeOK, LiveTypeOK, ReqInv, ReqsInOrder, Stamped
    <3>3. Event("InviteAccepted", req[r].from, "ACTIVE", req[r].at) \in Events
      BY <1>1, <3>2, LogOfEvents DEF FactsInv, TypeOK, Event, Events, Kinds, Statuses
    <3>. QED
      BY <2>2, <3>1, <3>3 DEF Event
  <2>. QED
    BY <1>1, <2>3, <2>4
    DEF LiveNext, Create, RequestAccess, StartTransition, StartRemove, StampRemoval, Remove, StartInvite,
        ReplaceLinks, CommitInvite, StartAccept, StampAccept, LockLink, RollBack
<1>2. FactsInv /\ [Next]_vars => [Held]_vars
  BY <1>1 DEF Next, Rest, HandleRelationshipEvent, vars, liveVars
<1>. QED
  BY <1>2, FactsInvariant, PTL DEF Spec, SuspensionHolds

=============================================================================
