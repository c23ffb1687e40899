------------------------- MODULE TokenRefreshProofs -------------------------
(***************************************************************************)
(* Proofs about TokenRefresh, for any callers, connections and faults.     *)
(*                                                                         *)
(* The lease keeps callers apart on a connection as long as it does not    *)
(* lapse (Alone), so the credential a caller presents is the stored one    *)
(* (Earned) and, unless a fault spoiled the connection, the accepted one   *)
(* (Lasting); and only the first to be refused for good finds the          *)
(* connection live.  That each credential is taken once, and the one in    *)
(* hand is the next after the stored one, needs no lease (Rotation).       *)
(***************************************************************************)
EXTENDS TokenRefresh, TLAPS

\* Callers past the look have a connection, and one presents an expired credential.
Placed ==
  \A p \in Callers :
    /\ call[p].step \in {"idle", "looking"} => call[p].conn = 0 /\ call[p].cred = 0
    /\ call[p].step \notin {"idle", "looking"} => call[p].conn \in Connections
    /\ call[p].step \notin {"idle", "looking"} => status[call[p].conn] # "none"
    /\ call[p].step \in {"refreshing", "storing"} => call[p].cred \in 1..expired[call[p].conn]

Expirable == \A c \in Connections : expired[c] < MaxVersion

\* One caller at a time, on a connection whose lease has not lapsed.
Alone == \A p \in Callers, c \in Connections : c \notin lapsed /\ Holding(p, c) => lease[c] = p

\* The accounting system accepts the stored credential or the one after it, and
\* the one after it can only be in one caller's hand.
Ahead == \A c \in Connections : accepts[c] # Nothing => accepts[c] >= cred[c]
Accepted == \A c \in Connections \ spoiled : accepts[c] # Nothing
Untouched == \A c \in Connections : status[c] = "none" => accepts[c] = cred[c]
Behind == \A p \in Callers : call[p].step = "refreshing" => call[p].cred <= cred[call[p].conn]
InHand ==
  \A p \in Callers : call[p].step = "storing" =>
    /\ call[p].cred = cred[call[p].conn]
    /\ accepts[call[p].conn] \in {Nothing, call[p].cred + 1}
OneHand ==
  \A p, q \in Callers :
    call[p].step = "storing" /\ call[q].step = "storing" /\ call[p].conn = call[q].conn => p = q

Rotation == Ahead /\ Accepted /\ Untouched /\ Behind /\ InHand /\ OneHand

\* What a caller alone on a connection presents is what is stored, and what it
\* was refused is still stored when it writes the ERROR.
Earned ==
  /\ ErrorIsEarned
  /\ \A p \in Callers : call[p].conn \notin lapsed =>
       /\ call[p].step = "refreshing" => call[p].cred = cred[call[p].conn]
       /\ call[p].step = "condemning" => refused[call[p].conn] = cred[call[p].conn]

\* While no fault spoils a connection, what a caller alone on it presents is accepted.
Lasting ==
  /\ \A c \in Connections \ (spoiled \cup lapsed) : status[c] # "ERROR"
  /\ \A p \in Callers : call[p].conn \notin spoiled \cup lapsed =>
       /\ call[p].step = "refreshing" => accepts[call[p].conn] = call[p].cred
       /\ call[p].step # "condemning"

Telling(p, c) == call[p].conn = c /\ call[p].step \in {"condemned", "notifying"}
Silent(c) == told[c] = 0 /\ \A p \in Callers : ~Telling(p, c)

\* No one is told of a connection that lives or is being refreshed.
ToldOnce ==
  /\ \A c \in Connections \ lapsed : status[c] \in {"none", "CONNECTED"} => Silent(c)
  /\ \A p \in Callers : call[p].conn \in Connections \ lapsed
                        /\ call[p].step \in {"refreshing", "storing", "condemning"} => Silent(call[p].conn)
  /\ \A p \in Callers, c \in Connections \ lapsed : Telling(p, c) => told[c] = 0
  /\ \A p, q \in Callers, c \in Connections \ lapsed : Telling(p, c) /\ Telling(q, c) => p = q
  /\ NotifiedOnce

IInv ==
  TypeOK /\ Placed /\ Expirable /\ Alone /\ Rotation /\ UsableCredential /\ Earned /\ ToldOnce /\ Lasting

\* A step moves one caller.
LEMMA MovesOne ==
  ASSUME TypeOK, NEW p \in Callers, NEW next, Becomes(p, next)
  PROVE  /\ call'[p] = next
         /\ \A r \in Callers : r # p => call'[r] = call[r]
  BY DEF TypeOK, Becomes

CallRecords == [step : Steps, conn : 0..MaxConnections, cred : 0..MaxVersion]

\* Where a caller moves to is a record of the right type.
LEMMA CallTyped ==
  ASSUME TypeOK, NEW p \in Callers, NEW next \in CallRecords, Becomes(p, next)
  PROVE  call' \in [Callers -> CallRecords]
  BY DEF TypeOK, Becomes, CallRecords

\* A caller that only takes its next step stays a record.
LEMMA StepTyped ==
  ASSUME NEW x \in CallRecords, NEW s \in Steps
  PROVE  [x EXCEPT !.step = s] \in CallRecords
  BY SMT DEF CallRecords

LEMMA IdleTyped == Idle \in CallRecords /\ [Idle EXCEPT !.step = "looking"] \in CallRecords
  BY TokenRefreshAssumption, SMT DEF Idle, CallRecords, Steps, Held

\* A step of p keeps callers apart if it takes no lease from another, and
\* holds one afterwards only if the lease is its own.
LEMMA AloneKept ==
  ASSUME TypeOK, Alone, NEW p \in Callers,
         \A r \in Callers : r # p => call'[r] = call[r],
         lapsed \subseteq lapsed',
         \A c \in Connections : lease[c] \in Callers /\ lease[c] # p => lease'[c] = lease[c],
         \A c \in Connections : c \notin lapsed' /\ Holding(p, c)' => lease'[c] = p
  PROVE  Alone'
<1> SUFFICES ASSUME NEW r \in Callers, NEW c \in Connections, c \notin lapsed', Holding(r, c)', r # p
             PROVE  lease'[c] = r
  BY DEF Alone
<1>1. Holding(r, c)
  BY DEF Holding
<1>2. lease[c] = r
  BY <1>1 DEF Alone
<1> QED BY <1>2

-----------------------------------------------------------------------------
(* Each action keeps the invariant, conjunct by conjunct. *)

LEMMA CallKeeps ==
  ASSUME IInv, NEW p \in Callers, Call(p)
  PROVE  IInv'
<1> USE TokenRefreshAssumption DEF IInv
<1>0. call[p] \in CallRecords
  BY DEF TypeOK, CallRecords
<1>1. PICK next : Becomes(p, next) /\ (next = [call[p] EXCEPT !.step = "looking"])
  BY SMT DEF Call, Goes
<1>2. next \in CallRecords
  <2>1. {"looking"} \subseteq Steps
    BY DEF Steps, Held
  <2> QED BY <1>0, <1>1, <2>1, StepTyped
<1>3. call' \in [Callers -> CallRecords]
  BY <1>1, <1>2, CallTyped
<1>4. call'[p] = next /\ \A r \in Callers : r # p => call'[r] = call[r]
  BY <1>1, MovesOne
<1>5. TypeOK'
  BY <1>3, SMT DEF TypeOK, CallRecords, rowVars, historyVars, Call
<1>6. Placed'
  BY <1>0, <1>1, <1>4, SMT DEF Idle, rowVars, Call, Placed
<1>7. Expirable'
  BY <1>0, <1>1, <1>4, SMT DEF rowVars, Call, Expirable
<1>8. Alone'
  <2>1. lapsed' = lapsed
    BY DEF Call, historyVars
  <2>2. \A c \in Connections : lease[c] \in Callers /\ lease[c] # p => lease'[c] = lease[c]
    BY <1>0, SMT DEF Call, TypeOK
  <2>3. ASSUME NEW c \in Connections, c \notin lapsed', Holding(p, c)'
        PROVE  lease'[c] = p
    BY <1>0, <1>1, <1>4, <2>1, <2>3, SMT DEF Holding, Held
  <2> QED BY <1>4, <2>1, <2>2, <2>3, AloneKept
<1>9. Rotation'
  BY <1>0, <1>1, <1>4, SMT DEF Becomes, rowVars, historyVars, Call, Rotation, Ahead, Accepted,
       Untouched, Behind, InHand, OneHand
<1>10. UsableCredential'
  BY <1>0, <1>1, <1>4, SMT DEF Idle, rowVars, historyVars, Call, UsableCredential
<1>11. Earned'
  BY <1>0, <1>1, <1>4, SMT DEF Becomes, rowVars, historyVars, Call, Earned, ErrorIsEarned
<1>12. ToldOnce'
  BY <1>0, <1>1, <1>4, SMT DEF Becomes, rowVars, historyVars, Call, ToldOnce, Silent, Telling,
       NotifiedOnce
<1>13. Lasting'
  BY <1>0, <1>1, <1>4, SMT DEF Becomes, rowVars, historyVars, Call, Lasting
<1> QED BY <1>5, <1>6, <1>7, <1>8, <1>9, <1>10, <1>11, <1>12, <1>13

LEMMA LookKeeps ==
  ASSUME IInv, NEW p \in Callers, Look(p)
  PROVE  IInv'
<1> USE TokenRefreshAssumption DEF IInv
<1>0. call[p] \in CallRecords
  BY DEF TypeOK, CallRecords
<1>1. PICK next : Becomes(p, next) /\ (next = Idle \/ \E c \in Connections : IsLatest(c) /\ NeedsRefresh(c) /\ next = [step |-> "acquiring", conn |-> c, cred |-> 0])
  BY SMT DEF Look
<1>2. next \in CallRecords
  BY <1>1, IdleTyped, SMT DEF CallRecords, Connections, Steps
<1>3. call' \in [Callers -> CallRecords]
  BY <1>1, <1>2, CallTyped
<1>4. call'[p] = next /\ \A r \in Callers : r # p => call'[r] = call[r]
  BY <1>1, MovesOne
<1>5. TypeOK'
  BY <1>3, SMT DEF TypeOK, CallRecords, rowVars, historyVars, Look
<1>6. Placed'
  BY <1>0, <1>1, <1>4, SMT DEF Idle, rowVars, IsLatest, Look, Placed
<1>7. Expirable'
  BY <1>0, <1>1, <1>4, SMT DEF rowVars, Look, Expirable
<1>8. Alone'
  <2>1. lapsed' = lapsed
    BY DEF Look, historyVars
  <2>2. \A c \in Connections : lease[c] \in Callers /\ lease[c] # p => lease'[c] = lease[c]
    BY <1>0, SMT DEF Look, TypeOK
  <2>3. ASSUME NEW c \in Connections, c \notin lapsed', Holding(p, c)'
        PROVE  lease'[c] = p
    BY <1>0, <1>1, <1>4, <2>1, <2>3, SMT DEF Holding, Held, Idle
  <2> QED BY <1>4, <2>1, <2>2, <2>3, AloneKept
<1>9. Rotation'
  BY <1>0, <1>1, <1>4, SMT DEF Idle, rowVars, historyVars, Look, Rotation, Ahead, Accepted,
       Untouched, Behind, InHand, OneHand
<1>10. UsableCredential'
  BY <1>0, <1>1, <1>4, SMT DEF rowVars, historyVars, Look, UsableCredential
<1>11. Earned'
  BY <1>0, <1>1, <1>4, SMT DEF Idle, rowVars, historyVars, Look, Earned, ErrorIsEarned
<1>12. ToldOnce'
  BY <1>0, <1>1, <1>4, SMT DEF Idle, rowVars, historyVars, Look, ToldOnce, Silent, Telling,
       NotifiedOnce
<1>13. Lasting'
  BY <1>0, <1>1, <1>4, SMT DEF Idle, rowVars, historyVars, Look, Lasting
<1> QED BY <1>5, <1>6, <1>7, <1>8, <1>9, <1>10, <1>11, <1>12, <1>13

LEMMA TryAcquireKeeps ==
  ASSUME IInv, NEW p \in Callers, TryAcquire(p)
  PROVE  IInv'
<1> USE TokenRefreshAssumption DEF IInv
<1>0. call[p] \in CallRecords /\ call[p].conn \in Connections
  BY SMT DEF TypeOK, CallRecords, Placed, TryAcquire
<1>1. PICK next : Becomes(p, next) /\ (next = [call[p] EXCEPT !.step = "locked"])
  BY SMT DEF TryAcquire, Goes
<1>2. next \in CallRecords
  <2>1. {"locked"} \subseteq Steps
    BY DEF Steps, Held
  <2> QED BY <1>0, <1>1, <2>1, StepTyped
<1>3. call' \in [Callers -> CallRecords]
  BY <1>1, <1>2, CallTyped
<1>4. call'[p] = next /\ \A r \in Callers : r # p => call'[r] = call[r]
  BY <1>1, MovesOne
<1>5. TypeOK'
  <2>1. lease' \in [Connections -> Callers \cup {NoCaller}]
    BY <1>0, SMT DEF TypeOK, TryAcquire
  <2> QED BY <1>3, <2>1, SMT DEF TypeOK, CallRecords, rowVars, historyVars, TryAcquire
<1>6. Placed'
  BY <1>0, <1>1, <1>4, SMT DEF Becomes, rowVars, TryAcquire, Placed
<1>7. Expirable'
  BY <1>0, <1>1, <1>4, SMT DEF rowVars, TryAcquire, Expirable
<1>8. Alone'
  <2>1. lapsed' = lapsed
    BY DEF TryAcquire, historyVars
  <2>2. \A c \in Connections : lease[c] \in Callers /\ lease[c] # p => lease'[c] = lease[c]
    BY <1>0, SMT DEF TryAcquire, TypeOK
  <2>3. ASSUME NEW c \in Connections, c \notin lapsed', Holding(p, c)'
        PROVE  lease'[c] = p
    BY <1>0, <1>1, <1>4, <2>1, <2>3, SMT DEF TryAcquire, TypeOK, Holding
  <2> QED BY <1>4, <2>1, <2>2, <2>3, AloneKept
<1>9. Rotation'
  BY <1>0, <1>1, <1>4, SMT DEF Becomes, rowVars, historyVars, TryAcquire, Rotation, Ahead,
       Accepted, Untouched, Behind, InHand, OneHand
<1>10. UsableCredential'
  BY <1>0, <1>1, <1>4, SMT DEF rowVars, historyVars, TryAcquire, UsableCredential
<1>11. Earned'
  BY <1>0, <1>1, <1>4, SMT DEF Becomes, rowVars, historyVars, TryAcquire, Earned, ErrorIsEarned
<1>12. ToldOnce'
  BY <1>0, <1>1, <1>4, SMT DEF Becomes, rowVars, historyVars, TryAcquire, ToldOnce, Silent,
       Telling, NotifiedOnce
<1>13. Lasting'
  BY <1>0, <1>1, <1>4, SMT DEF Becomes, rowVars, historyVars, TryAcquire, Lasting
<1> QED BY <1>5, <1>6, <1>7, <1>8, <1>9, <1>10, <1>11, <1>12, <1>13

LEMMA RefusedKeeps ==
  ASSUME IInv, NEW p \in Callers, Refused(p)
  PROVE  IInv'
<1> USE TokenRefreshAssumption DEF IInv
<1>0. call[p] \in CallRecords /\ call[p].conn \in Connections
  BY SMT DEF TypeOK, CallRecords, Placed, Refused
<1>1. PICK next : Becomes(p, next) /\ (next \in {Idle, [Idle EXCEPT !.step = "looking"]})
  BY SMT DEF Refused
<1>2. next \in CallRecords
  BY <1>1, IdleTyped
<1>3. call' \in [Callers -> CallRecords]
  BY <1>1, <1>2, CallTyped
<1>4. call'[p] = next /\ \A r \in Callers : r # p => call'[r] = call[r]
  BY <1>1, MovesOne
<1>5. TypeOK'
  <2>1. lease' \in [Connections -> Callers \cup {NoCaller}]
    BY <1>0, SMT DEF TypeOK, Refused
  <2>2. faults' \in 0..MaxFaults
    BY SMT DEF TypeOK, Refused, Fault
  <2> QED BY <1>3, <2>1, <2>2, SMT DEF TypeOK, CallRecords, rowVars, historyVars, Refused
<1>6. Placed'
  BY <1>0, <1>1, <1>4, SMT DEF Idle, rowVars, Refused, Placed
<1>7. Expirable'
  BY <1>0, <1>1, <1>4, SMT DEF rowVars, Refused, Expirable
<1>8. Alone'
  <2>1. lapsed' = lapsed
    BY DEF Refused, historyVars
  <2>2. \A c \in Connections : lease[c] \in Callers /\ lease[c] # p => lease'[c] = lease[c]
    BY <1>0, SMT DEF Refused, TypeOK
  <2>3. ASSUME NEW c \in Connections, c \notin lapsed', Holding(p, c)'
        PROVE  lease'[c] = p
    BY <1>0, <1>1, <1>4, <2>1, <2>3, SMT DEF Holding, Held, Idle
  <2> QED BY <1>4, <2>1, <2>2, <2>3, AloneKept
<1>9. Rotation'
  BY <1>0, <1>1, <1>4, SMT DEF Idle, rowVars, historyVars, Refused, Rotation, Ahead, Accepted,
       Untouched, Behind, InHand, OneHand
<1>10. UsableCredential'
  BY <1>0, <1>1, <1>4, SMT DEF rowVars, historyVars, Refused, UsableCredential
<1>11. Earned'
  BY <1>0, <1>1, <1>4, SMT DEF Idle, rowVars, historyVars, Refused, Earned, ErrorIsEarned
<1>12. ToldOnce'
  BY <1>0, <1>1, <1>4, SMT DEF Idle, rowVars, historyVars, Refused, ToldOnce, Silent, Telling,
       NotifiedOnce
<1>13. Lasting'
  BY <1>0, <1>1, <1>4, SMT DEF Idle, rowVars, historyVars, Refused, Lasting
<1> QED BY <1>5, <1>6, <1>7, <1>8, <1>9, <1>10, <1>11, <1>12, <1>13

LEMMA RereadKeeps ==
  ASSUME IInv, NEW p \in Callers, Reread(p)
  PROVE  IInv'
<1> USE TokenRefreshAssumption DEF IInv
<1>0. call[p] \in CallRecords /\ call[p].conn \in Connections
  BY SMT DEF TypeOK, CallRecords, Placed, Reread
<1>1. PICK next : Becomes(p, next) /\ (\/ NeedsRefresh(call[p].conn) /\ next = [step |-> "refreshing", conn |-> call[p].conn, cred |-> cred[call[p].conn]]
            \/ \E s \in {"releasing", "retrying"} : next = [call[p] EXCEPT !.step = s])
  BY SMT DEF Reread
<1>2. next \in CallRecords
  <2>1. {"releasing", "retrying"} \subseteq Steps
    BY DEF Steps, Held
  <2>2. [step |-> "refreshing", conn |-> call[p].conn, cred |-> cred[call[p].conn]] \in CallRecords
    BY <1>0, SMT DEF CallRecords, Connections, Steps, Held, TypeOK
  <2> QED BY <1>0, <1>1, <2>1, <2>2, StepTyped
<1>3. call' \in [Callers -> CallRecords]
  BY <1>1, <1>2, CallTyped
<1>4. call'[p] = next /\ \A r \in Callers : r # p => call'[r] = call[r]
  BY <1>1, MovesOne
<1>5. TypeOK'
  BY <1>3, SMT DEF TypeOK, CallRecords, rowVars, historyVars, Reread
<1>6. Placed'
  BY <1>0, <1>1, <1>4, SMT DEF TypeOK, rowVars, NeedsRefresh, Reread, Placed
<1>7. Expirable'
  BY <1>0, <1>1, <1>4, SMT DEF rowVars, Reread, Expirable
<1>8. Alone'
  <2>1. lapsed' = lapsed
    BY DEF Reread, historyVars
  <2>2. \A c \in Connections : lease[c] \in Callers /\ lease[c] # p => lease'[c] = lease[c]
    BY <1>0, SMT DEF Reread, TypeOK
  <2>3. ASSUME NEW c \in Connections, c \notin lapsed', Holding(p, c)'
        PROVE  lease'[c] = p
    BY <1>0, <1>1, <1>4, <2>1, <2>3, SMT DEF Reread, TypeOK, Alone, Holding, Held
  <2> QED BY <1>4, <2>1, <2>2, <2>3, AloneKept
<1>9. Rotation'
  BY <1>0, <1>1, <1>4, SMTT(30) DEF TypeOK, rowVars, historyVars, Reread, Rotation, Ahead, Accepted,
       Untouched, Behind, InHand, OneHand
<1>10. UsableCredential'
  BY <1>0, <1>1, <1>4, SMT DEF rowVars, historyVars, Reread, UsableCredential
<1>11. Earned'
  BY <1>0, <1>1, <1>4, SMT DEF Becomes, rowVars, historyVars, Reread, Earned, ErrorIsEarned
<1>12. ToldOnce'
  BY <1>0, <1>1, <1>4, SMTT(20) DEF Becomes, rowVars, historyVars, NeedsRefresh, Reread,
       ToldOnce, Silent, Telling, NotifiedOnce
<1>13. Lasting'
  <2>1. call[p].step = "locked" /\ UNCHANGED <<status, cred, accepts, lapsed, spoiled>>
    BY SMT DEF Reread, rowVars, historyVars
  <2>2. ASSUME call'[p].step = "refreshing", call[p].conn \notin spoiled \cup lapsed
        PROVE  accepts[call[p].conn] = call'[p].cred
    <3>1. status[call[p].conn] = "CONNECTED" /\ call'[p].cred = cred[call[p].conn]
      BY <1>0, <1>1, <1>4, <2>2, SMT DEF NeedsRefresh, CallRecords
    <3>2. \A r \in Callers : call[r].conn = call[p].conn => call[r].step # "storing"
      BY <1>0, <2>1, <2>2, SMT DEF Alone, Holding, Held
    <3>3. ASSUME NEW r \in Callers,
                 call[r] = [step |-> "storing", conn |-> call[p].conn, cred |-> cred[call[p].conn]]
          PROVE  FALSE
      <4>1. call[r].step = "storing" /\ call[r].conn = call[p].conn
        BY <3>3, SMT
      <4> QED BY <3>2, <4>1
    <3> QED BY <1>0, <2>2, <3>1, <3>3, SMT DEF UsableCredential
  <2>3. call'[p].conn = call[p].conn /\ call'[p].step # "condemning"
    BY <1>0, <1>1, <1>4, SMT DEF CallRecords
  <2> QED BY <1>4, <2>1, <2>2, <2>3, SMT DEF Lasting
<1> QED BY <1>5, <1>6, <1>7, <1>8, <1>9, <1>10, <1>11, <1>12, <1>13

LEMMA RefreshKeeps ==
  ASSUME IInv, NEW p \in Callers, Refresh(p)
  PROVE  IInv'
<1> USE TokenRefreshAssumption DEF IInv
<1>0. call[p] \in CallRecords /\ call[p].conn \in Connections
  BY SMT DEF TypeOK, CallRecords, Placed, Refresh
<1>1. PICK next : Becomes(p, next) /\ (\E s \in {"storing", "condemning"} : next = [call[p] EXCEPT !.step = s])
  BY SMT DEF Refresh, Goes
<1>2. next \in CallRecords
  <2>1. {"storing", "condemning"} \subseteq Steps
    BY DEF Steps, Held
  <2> QED BY <1>0, <1>1, <2>1, StepTyped
<1>3. call' \in [Callers -> CallRecords]
  BY <1>1, <1>2, CallTyped
<1>4. call'[p] = next /\ \A r \in Callers : r # p => call'[r] = call[r]
  BY <1>1, MovesOne
<1>5. TypeOK'
  <2>1. accepts' \in [Connections -> 0..MaxVersion]
    <3>1. call[p].cred + 1 \in 0..MaxVersion
      <4>1. call[p].cred \in 1..expired[call[p].conn]
        BY SMT DEF Placed, Refresh
      <4>2. expired[call[p].conn] \in 0..MaxVersion /\ expired[call[p].conn] < MaxVersion
        BY <1>0, SMT DEF TypeOK, Expirable
      <4> QED BY <4>1, <4>2
    <3> QED BY <1>0, <3>1, SMT DEF TypeOK, Refresh
  <2>2. refused' \in [Connections -> 0..MaxVersion]
    BY <1>0, SMT DEF TypeOK, Refresh, CallRecords
  <2> QED BY <1>3, <2>1, <2>2, SMT DEF TypeOK, CallRecords, rowVars, Refresh
<1>6. Placed'
  <2>b. call[p].step = "refreshing"
    BY DEF Refresh
  <2>c. status[call[p].conn] # "none" /\ call[p].cred \in 1..expired[call[p].conn]
    BY <2>b, SMT DEF Placed
  <2>d. call[p].cred <= cred[call[p].conn]
    BY <2>b DEF Rotation, Behind
  <2>0. /\ call[p].step = "refreshing" /\ status[call[p].conn] # "none"
        /\ call[p].cred \in 1..expired[call[p].conn] /\ call[p].cred <= cred[call[p].conn]
    BY <2>b, <2>c, <2>d
  <2>a. /\ UNCHANGED <<status, cred, expired, spoiled, lapsed, told>>
        /\ call'[p].conn = call[p].conn /\ call'[p].cred = call[p].cred
    BY <1>0, <1>1, <1>4, SMT DEF Refresh, CallRecords, rowVars, historyVars
  <2>1. CASE accepts[call[p].conn] = call[p].cred
    <3>1. /\ accepts' = [accepts EXCEPT ![call[p].conn] = call[p].cred + 1]
          /\ call'[p].step = "storing"
      BY <1>0, <1>4, <2>1, SMT DEF Refresh, Goes, Becomes, TypeOK, CallRecords
    <3>a. accepts[call[p].conn] \in Nat \ {Nothing} /\ cred[call[p].conn] \in Nat
      BY <1>0, <2>0, <2>1, SMT DEF TypeOK, Nothing
    <3>b. call[p].cred = cred[call[p].conn]
      BY <1>0, <2>0, <2>1, <3>a, SMT DEF Rotation, Ahead
    <3>2. /\ call[p].cred = cred[call[p].conn]
          /\ \A r \in Callers : call[r].step = "storing" => call[r].conn # call[p].conn
      BY <1>0, <2>0, <2>1, <3>a, <3>b, SMT DEF Rotation, InHand, Nothing
    <3> QED BY <1>0, <1>4, <2>0, <2>a, <2>1, <3>1, <3>2, SMTT(30) DEF Placed, TypeOK
  <2>2. CASE accepts[call[p].conn] # call[p].cred
    <3>1. accepts' = accepts /\ call'[p].step = "condemning"
      BY <1>0, <1>4, <2>2, SMT DEF Refresh, Goes, Becomes, TypeOK, CallRecords
    <3> QED BY <1>0, <1>4, <2>0, <2>a, <2>2, <3>1, SMTT(30) DEF Placed, TypeOK
  <2> QED BY <2>1, <2>2
<1>7. Expirable'
  BY <1>0, <1>1, <1>4, SMT DEF rowVars, Refresh, Expirable
<1>8. Alone'
  <2>1. lapsed' = lapsed
    BY DEF Refresh, historyVars
  <2>2. \A c \in Connections : lease[c] \in Callers /\ lease[c] # p => lease'[c] = lease[c]
    BY <1>0, SMT DEF Refresh, TypeOK
  <2>3. ASSUME NEW c \in Connections, c \notin lapsed', Holding(p, c)'
        PROVE  lease'[c] = p
    BY <1>0, <1>1, <1>4, <2>1, <2>3, SMT DEF Refresh, Alone, Holding, Held
  <2> QED BY <1>4, <2>1, <2>2, <2>3, AloneKept
<1>9. Rotation'
  <2>b. call[p].step = "refreshing"
    BY DEF Refresh
  <2>c. status[call[p].conn] # "none" /\ call[p].cred \in 1..expired[call[p].conn]
    BY <2>b, SMT DEF Placed
  <2>d. call[p].cred <= cred[call[p].conn]
    BY <2>b DEF Rotation, Behind
  <2>0. /\ call[p].step = "refreshing" /\ status[call[p].conn] # "none"
        /\ call[p].cred \in 1..expired[call[p].conn] /\ call[p].cred <= cred[call[p].conn]
    BY <2>b, <2>c, <2>d
  <2>a. /\ UNCHANGED <<status, cred, expired, spoiled, lapsed, told>>
        /\ call'[p].conn = call[p].conn /\ call'[p].cred = call[p].cred
    BY <1>0, <1>1, <1>4, SMT DEF Refresh, CallRecords, rowVars, historyVars
  <2>1. CASE accepts[call[p].conn] = call[p].cred
    <3>1. /\ accepts' = [accepts EXCEPT ![call[p].conn] = call[p].cred + 1]
          /\ call'[p].step = "storing"
      BY <1>0, <1>4, <2>1, SMT DEF Refresh, Goes, Becomes, TypeOK, CallRecords
    <3>a. accepts[call[p].conn] \in Nat \ {Nothing} /\ cred[call[p].conn] \in Nat
      BY <1>0, <2>0, <2>1, SMT DEF TypeOK, Nothing
    <3>b. call[p].cred = cred[call[p].conn]
      BY <1>0, <2>0, <2>1, <3>a, SMT DEF Rotation, Ahead
    <3>2. /\ call[p].cred = cred[call[p].conn]
          /\ \A r \in Callers : call[r].step = "storing" => call[r].conn # call[p].conn
      BY <1>0, <2>0, <2>1, <3>a, <3>b, SMT DEF Rotation, InHand, Nothing
    <3>4. /\ accepts'[call[p].conn] = call[p].cred + 1
          /\ \A d \in Connections : d # call[p].conn => accepts'[d] = accepts[d]
          /\ \A r \in Callers : call[r].step = "storing" => call[r].conn \in Connections
      BY <1>0, <3>1, SMT DEF TypeOK, Placed
    <3>3. Rotation'
      <4>1. Ahead'
      BY <1>0, <1>4, <2>0, <2>a, <2>1, <3>1, <3>2, SMT DEF Rotation, Ahead
      <4>2. Accepted'
      BY <1>0, <1>4, <2>0, <2>a, <2>1, <3>1, <3>2, SMT DEF Rotation, Accepted, Nothing
      <4>3. Untouched'
      BY <1>0, <1>4, <2>0, <2>a, <2>1, <3>1, <3>2, SMT DEF Rotation, Untouched
      <4>4. Behind'
      BY <1>0, <1>4, <2>0, <2>a, <2>1, <3>1, <3>2, <3>4, SMT DEF Rotation, Behind
      <4>5. InHand'
      BY <1>0, <1>4, <2>0, <2>a, <2>1, <3>1, <3>2, <3>4, SMT DEF Rotation, InHand
      <4>6. OneHand'
      BY <1>0, <1>4, <2>0, <2>a, <2>1, <3>1, <3>2, <3>4, SMT DEF Rotation, OneHand
      <4> QED BY <4>1, <4>2, <4>3, <4>4, <4>5, <4>6 DEF Rotation
    <3> QED BY <3>3
  <2>2. CASE accepts[call[p].conn] # call[p].cred
    <3>1. accepts' = accepts /\ call'[p].step = "condemning"
      BY <1>0, <1>4, <2>2, SMT DEF Refresh, Goes, Becomes, TypeOK, CallRecords
    <3>4. /\ accepts'[call[p].conn] = accepts[call[p].conn]
          /\ \A d \in Connections : d # call[p].conn => accepts'[d] = accepts[d]
          /\ \A r \in Callers : call[r].step = "storing" => call[r].conn \in Connections
      BY <1>0, <3>1, SMT DEF TypeOK, Placed
    <3>3. Rotation'
      <4>1. Ahead'
      BY <1>0, <1>4, <2>0, <2>a, <2>2, <3>1, SMT DEF Rotation, Ahead
      <4>2. Accepted'
      BY <1>0, <1>4, <2>0, <2>a, <2>2, <3>1, SMT DEF Rotation, Accepted
      <4>3. Untouched'
      BY <1>0, <1>4, <2>0, <2>a, <2>2, <3>1, SMT DEF Rotation, Untouched
      <4>4. Behind'
      BY <1>0, <1>4, <2>0, <2>a, <2>2, <3>1, <3>4, SMT DEF Rotation, Behind
      <4>5. InHand'
      BY <1>0, <1>4, <2>0, <2>a, <2>2, <3>1, <3>4, SMT DEF Rotation, InHand
      <4>6. OneHand'
      BY <1>0, <1>4, <2>0, <2>a, <2>2, <3>1, <3>4, SMT DEF Rotation, OneHand
      <4> QED BY <4>1, <4>2, <4>3, <4>4, <4>5, <4>6 DEF Rotation
    <3> QED BY <3>3
  <2> QED BY <2>1, <2>2
<1>10. UsableCredential'
  <2>b. call[p].step = "refreshing"
    BY DEF Refresh
  <2>c. status[call[p].conn] # "none" /\ call[p].cred \in 1..expired[call[p].conn]
    BY <2>b, SMT DEF Placed
  <2>d. call[p].cred <= cred[call[p].conn]
    BY <2>b DEF Rotation, Behind
  <2>0. /\ call[p].step = "refreshing" /\ status[call[p].conn] # "none"
        /\ call[p].cred \in 1..expired[call[p].conn] /\ call[p].cred <= cred[call[p].conn]
    BY <2>b, <2>c, <2>d
  <2>a. /\ UNCHANGED <<status, cred, expired, spoiled, lapsed, told>>
        /\ call'[p].conn = call[p].conn /\ call'[p].cred = call[p].cred
    BY <1>0, <1>1, <1>4, SMT DEF Refresh, CallRecords, rowVars, historyVars
  <2>1. CASE accepts[call[p].conn] = call[p].cred
    <3>1. /\ accepts' = [accepts EXCEPT ![call[p].conn] = call[p].cred + 1]
          /\ call'[p].step = "storing"
      BY <1>0, <1>4, <2>1, SMT DEF Refresh, Goes, Becomes, TypeOK, CallRecords
    <3>a. accepts[call[p].conn] \in Nat \ {Nothing} /\ cred[call[p].conn] \in Nat
      BY <1>0, <2>0, <2>1, SMT DEF TypeOK, Nothing
    <3>b. call[p].cred = cred[call[p].conn]
      BY <1>0, <2>0, <2>1, <3>a, SMT DEF Rotation, Ahead
    <3>2. /\ call[p].cred = cred[call[p].conn]
          /\ \A r \in Callers : call[r].step = "storing" => call[r].conn # call[p].conn
      BY <1>0, <2>0, <2>1, <3>a, <3>b, SMT DEF Rotation, InHand, Nothing
    <3>4. /\ accepts'[call[p].conn] = call[p].cred + 1
          /\ \A d \in Connections : d # call[p].conn => accepts'[d] = accepts[d]
          /\ \A r \in Callers : call[r].step = "storing" => call[r].conn \in Connections
      BY <1>0, <3>1, SMT DEF TypeOK, Placed
    <3>5. ASSUME NEW c \in Connections \ spoiled', status'[c] = "CONNECTED"
          PROVE  \/ cred'[c] = accepts'[c]
                 \/ \E r \in Callers : /\ call'[r] = [step |-> "storing", conn |-> c, cred |-> cred'[c]]
                                       /\ accepts'[c] = cred'[c] + 1
      <4>1. CASE c = call[p].conn
        <5>1. call'[p] = [step |-> "storing", conn |-> c, cred |-> cred'[c]]
          BY <1>0, <1>1, <1>4, <2>0, <2>a, <3>1, <3>2, <4>1, SMT DEF CallRecords
        <5> QED BY <2>a, <3>2, <3>4, <4>1, <5>1
      <4>2. CASE c # call[p].conn
        <5>1. accepts'[c] = accepts[c] /\ cred'[c] = cred[c] /\ status[c] = "CONNECTED" /\ c \notin spoiled
          BY <2>a, <3>4, <3>5, <4>2
        <5>2. CASE cred[c] = accepts[c]
          BY <5>1, <5>2
        <5>3. ASSUME NEW r \in Callers, call[r] = [step |-> "storing", conn |-> c, cred |-> cred[c]],
                     accepts[c] = cred[c] + 1
              PROVE  call'[r] = [step |-> "storing", conn |-> c, cred |-> cred'[c]] /\ accepts'[c] = cred'[c] + 1
          BY <1>4, <2>0, <5>1, <5>3
        <5> QED BY <5>1, <5>2, <5>3 DEF UsableCredential
      <4> QED BY <4>1, <4>2
    <3> QED BY <3>5 DEF UsableCredential
  <2>2. CASE accepts[call[p].conn] # call[p].cred
    <3>1. accepts' = accepts /\ call'[p].step = "condemning"
      BY <1>0, <1>4, <2>2, SMT DEF Refresh, Goes, Becomes, TypeOK, CallRecords
    <3>4. /\ accepts'[call[p].conn] = accepts[call[p].conn]
          /\ \A d \in Connections : d # call[p].conn => accepts'[d] = accepts[d]
          /\ \A r \in Callers : call[r].step = "storing" => call[r].conn \in Connections
      BY <1>0, <3>1, SMT DEF TypeOK, Placed
    <3>5. ASSUME NEW c \in Connections \ spoiled', status'[c] = "CONNECTED"
          PROVE  \/ cred'[c] = accepts'[c]
                 \/ \E r \in Callers : /\ call'[r] = [step |-> "storing", conn |-> c, cred |-> cred'[c]]
                                       /\ accepts'[c] = cred'[c] + 1
      <4>1. accepts'[c] = accepts[c] /\ cred'[c] = cred[c] /\ status[c] = "CONNECTED" /\ c \notin spoiled
        BY <2>a, <3>1, <3>5
      <4>2. CASE cred[c] = accepts[c]
        BY <4>1, <4>2
      <4>3. ASSUME NEW r \in Callers, call[r] = [step |-> "storing", conn |-> c, cred |-> cred[c]],
                   accepts[c] = cred[c] + 1
            PROVE  call'[r] = [step |-> "storing", conn |-> c, cred |-> cred'[c]] /\ accepts'[c] = cred'[c] + 1
        BY <1>4, <2>0, <4>1, <4>3
      <4> QED BY <4>1, <4>2, <4>3 DEF UsableCredential
    <3> QED BY <3>5 DEF UsableCredential
  <2> QED BY <2>1, <2>2
<1>11. Earned'
  <2>1. /\ call[p].step = "refreshing" /\ UNCHANGED <<status, cred, lapsed>>
        /\ call'[p].conn = call[p].conn /\ call'[p].step \in {"storing", "condemning"}
    BY <1>0, <1>1, <1>4, SMT DEF Refresh, rowVars, CallRecords
  <2>2. \A d \in Connections : refused'[d] = refused[d] \/ (d = call[p].conn /\ refused'[d] = call[p].cred)
    BY <1>0, SMT DEF Refresh, TypeOK
  <2>3. call'[p].step = "condemning" => refused'[call[p].conn] = call[p].cred
    BY <1>0, <1>4, SMT DEF Refresh, Goes, Becomes, TypeOK, CallRecords
  <2>4. ErrorIsEarned'
    BY <2>1, <2>2, SMT DEF Earned, ErrorIsEarned
  <2>5. ASSUME NEW r \in Callers, call'[r].conn \notin lapsed'
        PROVE  /\ call'[r].step = "refreshing" => call'[r].cred = cred'[call'[r].conn]
               /\ call'[r].step = "condemning" => refused'[call'[r].conn] = cred'[call'[r].conn]
    <3>1. CASE r = p
      BY <2>1, <2>3, <2>5, <3>1 DEF Earned
    <3>2. CASE r # p /\ call[r].step \in {"refreshing", "condemning"}
      <4>1. call'[r] = call[r] /\ call[r].conn \in Connections
        BY <1>4, <3>2, SMT DEF Placed
      <4> QED BY <2>1, <2>2, <2>5, <4>1, SMT DEF Earned
    <3>3. CASE r # p /\ call[r].step \notin {"refreshing", "condemning"}
      BY <1>4, <3>3
    <3> QED BY <3>1, <3>2, <3>3
  <2> QED BY <2>4, <2>5 DEF Earned
<1>12. ToldOnce'
  BY <1>0, <1>1, <1>4, SMT DEF Becomes, rowVars, historyVars, Refresh, ToldOnce, Silent, Telling,
       NotifiedOnce
<1>13. Lasting'
  <2>1. /\ call[p].step = "refreshing" /\ UNCHANGED <<status, lapsed, spoiled>>
        /\ call'[p].conn = call[p].conn
    BY <1>0, <1>1, <1>4, SMT DEF Refresh, rowVars, CallRecords
  <2>2. ASSUME NEW r \in Callers, call'[r].conn \notin spoiled \cup lapsed
        PROVE  /\ call'[r].step = "refreshing" => accepts'[call'[r].conn] = call'[r].cred
               /\ call'[r].step # "condemning"
    <3>1. CASE r = p
      <4>1. accepts[call[p].conn] = call[p].cred
        BY <2>1, <2>2, <3>1 DEF Lasting
      <4>2. call'[p].step = "storing"
        BY <1>0, <1>4, <4>1, SMT DEF Refresh, Goes, Becomes, TypeOK, CallRecords
      <4> QED BY <3>1, <4>2
    <3>2. CASE r # p /\ call[r].step \in {"refreshing", "condemning"}
      <4>1. call'[r] = call[r] /\ call[r].conn \in Connections
        BY <1>4, <3>2, SMT DEF Placed
      <4>2. call[r].conn # call[p].conn
        BY <1>0, <2>1, <2>2, <3>2, <4>1, SMT DEF Alone, Holding, Held
      <4>3. accepts'[call[r].conn] = accepts[call[r].conn]
        BY <1>0, <4>1, <4>2, SMT DEF Refresh, TypeOK
      <4> QED BY <2>2, <4>1, <4>3 DEF Lasting
    <3>3. CASE r # p /\ call[r].step \notin {"refreshing", "condemning"}
      BY <1>4, <3>3
    <3> QED BY <3>1, <3>2, <3>3
  <2>3. \A c \in Connections \ (spoiled' \cup lapsed') : status'[c] # "ERROR"
    BY <2>1 DEF Lasting
  <2> QED BY <2>1, <2>2, <2>3 DEF Lasting
<1> QED BY <1>5, <1>6, <1>7, <1>8, <1>9, <1>10, <1>11, <1>12, <1>13

LEMMA RefuseGoodKeeps ==
  ASSUME IInv, NEW p \in Callers, RefuseGood(p)
  PROVE  IInv'
<1> USE TokenRefreshAssumption DEF IInv
<1>0. call[p] \in CallRecords /\ call[p].conn \in Connections
  BY SMT DEF TypeOK, CallRecords, Placed, RefuseGood
<1>1. PICK next : Becomes(p, next) /\ (next = [call[p] EXCEPT !.step = "condemning"])
  BY SMT DEF RefuseGood, Goes
<1>2. next \in CallRecords
  <2>1. {"condemning"} \subseteq Steps
    BY DEF Steps, Held
  <2> QED BY <1>0, <1>1, <2>1, StepTyped
<1>3. call' \in [Callers -> CallRecords]
  BY <1>1, <1>2, CallTyped
<1>4. call'[p] = next /\ \A r \in Callers : r # p => call'[r] = call[r]
  BY <1>1, MovesOne
<1>5. TypeOK'
  <2>1. refused' \in [Connections -> 0..MaxVersion]
    BY <1>0, SMT DEF TypeOK, RefuseGood, CallRecords
  <2>2. faults' \in 0..MaxFaults
    BY SMT DEF TypeOK, RefuseGood, Fault
  <2>3. spoiled' \subseteq Connections
    BY <1>0, SMT DEF TypeOK, RefuseGood
  <2> QED BY <1>3, <2>1, <2>2, <2>3, SMT DEF TypeOK, CallRecords, rowVars, RefuseGood
<1>a. /\ UNCHANGED <<status, cred, expired, accepts, lease, told, lapsed>>
      /\ call[p].step = "refreshing" /\ call'[p].step = "condemning"
      /\ call'[p].conn = call[p].conn /\ spoiled' = spoiled \cup {call[p].conn}
  BY <1>0, <1>1, <1>4, SMT DEF RefuseGood, rowVars, CallRecords
<1>b. \A d \in Connections : refused'[d] = IF d = call[p].conn THEN call[p].cred ELSE refused[d]
  BY <1>0, SMT DEF RefuseGood, TypeOK
<1>6. Placed'
  BY <1>0, <1>4, <1>a, SMT DEF Placed
<1>7. Expirable'
  BY <1>a DEF Expirable
<1>8. Alone'
  <2>1. ASSUME NEW c \in Connections, c \notin lapsed', Holding(p, c)'
        PROVE  lease'[c] = p
    <3>1. Holding(p, c)
      BY <1>a, <2>1 DEF Holding, Held
    <3> QED BY <1>a, <2>1, <3>1 DEF Alone
  <2>2. \A c \in Connections : lease[c] \in Callers /\ lease[c] # p => lease'[c] = lease[c]
    BY <1>a
  <2> QED BY <1>4, <1>a, <2>1, <2>2, AloneKept
<1>9. Rotation'
  BY <1>4, <1>a, SMT DEF Rotation, Ahead, Accepted, Untouched, Behind, InHand, OneHand
<1>10. UsableCredential'
  BY <1>4, <1>a, SMT DEF UsableCredential
<1>11. Earned'
  <2>1. ErrorIsEarned'
    BY <1>a, <1>b, SMT DEF Earned, ErrorIsEarned
  <2>2. ASSUME NEW r \in Callers, call'[r].conn \notin lapsed'
        PROVE  /\ call'[r].step = "refreshing" => call'[r].cred = cred'[call'[r].conn]
               /\ call'[r].step = "condemning" => refused'[call'[r].conn] = cred'[call'[r].conn]
    <3>1. CASE r = p
      BY <1>0, <1>a, <1>b, <2>2, <3>1 DEF Earned
    <3>2. CASE r # p /\ call[r].step \in {"refreshing", "condemning"}
      <4>1. call'[r] = call[r] /\ call[r].conn \in Connections
        BY <1>4, <3>2, SMT DEF Placed
      <4> QED BY <1>a, <1>b, <2>2, <4>1, SMT DEF Earned
    <3>3. CASE r # p /\ call[r].step \notin {"refreshing", "condemning"}
      BY <1>4, <3>3
    <3> QED BY <3>1, <3>2, <3>3
  <2> QED BY <2>1, <2>2 DEF Earned
<1>12. ToldOnce'
  BY <1>4, <1>a, SMT DEF ToldOnce, Silent, Telling, NotifiedOnce
<1>13. Lasting'
  BY <1>4, <1>a, SMT DEF Lasting
<1> QED BY <1>5, <1>6, <1>7, <1>8, <1>9, <1>10, <1>11, <1>12, <1>13

LEMMA TransientErrorKeeps ==
  ASSUME IInv, NEW p \in Callers, TransientError(p)
  PROVE  IInv'
<1> USE TokenRefreshAssumption DEF IInv
<1>0. call[p] \in CallRecords /\ call[p].conn \in Connections
  BY SMT DEF TypeOK, CallRecords, Placed, TransientError
<1>1. PICK next : Becomes(p, next) /\ (next = [call[p] EXCEPT !.step = "releasing"])
  BY SMT DEF TransientError, Goes
<1>2. next \in CallRecords
  <2>1. {"releasing"} \subseteq Steps
    BY DEF Steps, Held
  <2> QED BY <1>0, <1>1, <2>1, StepTyped
<1>3. call' \in [Callers -> CallRecords]
  BY <1>1, <1>2, CallTyped
<1>4. call'[p] = next /\ \A r \in Callers : r # p => call'[r] = call[r]
  BY <1>1, MovesOne
<1>5. TypeOK'
  <2>1. accepts' \in [Connections -> 0..MaxVersion]
    BY <1>0, SMT DEF TypeOK, TransientError, Nothing
  <2>2. faults' \in 0..MaxFaults
    BY <1>0, SMT DEF TypeOK, TransientError, Fault
  <2>3. spoiled' \subseteq Connections
    BY <1>0, SMT DEF TypeOK, TransientError, Placed
  <2> QED BY <1>3, <2>1, <2>2, <2>3, SMT DEF TypeOK, CallRecords, rowVars, historyVars, TransientError
<1>6. Placed'
  BY <1>0, <1>1, <1>4, SMT DEF Becomes, rowVars, TransientError, Placed
<1>7. Expirable'
  BY <1>0, <1>1, <1>4, SMT DEF rowVars, TransientError, Expirable
<1>8. Alone'
  <2>1. lapsed' = lapsed
    BY DEF TransientError, historyVars
  <2>2. \A c \in Connections : lease[c] \in Callers /\ lease[c] # p => lease'[c] = lease[c]
    BY <1>0, SMT DEF TransientError, TypeOK
  <2>3. ASSUME NEW c \in Connections, c \notin lapsed', Holding(p, c)'
        PROVE  lease'[c] = p
    BY <1>0, <1>1, <1>4, <2>1, <2>3, SMT DEF TransientError, Alone, Holding, Held
  <2> QED BY <1>4, <2>1, <2>2, <2>3, AloneKept
<1>9. Rotation'
  <2>0. /\ UNCHANGED <<status, cred, expired, lapsed, refused>> /\ spoiled \subseteq spoiled'
        /\ call[p].step = "refreshing" /\ call'[p].step = "releasing" /\ call'[p].conn = call[p].conn
        /\ status[call[p].conn] # "none"
    BY <1>0, <1>1, <1>4, SMT DEF TransientError, CallRecords, rowVars, Placed
  <2>1. /\ \A d \in Connections : accepts'[d] = accepts[d] \/ (accepts'[d] = Nothing /\ d = call[p].conn /\ d \in spoiled')
        /\ \A r \in Callers : call[r].step \notin {"idle", "looking"} => call[r].conn \in Connections
        /\ \A d \in Connections : cred[d] # Nothing
    <3>1. CASE UNCHANGED <<accepts, spoiled>>
      BY <1>0, <3>1, SMT DEF Placed, TypeOK, Nothing
    <3>2. CASE accepts' = [accepts EXCEPT ![call[p].conn] = Nothing] /\ spoiled' = spoiled \cup {call[p].conn}
      BY <1>0, <3>2, SMT DEF Placed, TypeOK, Nothing
    <3> QED BY <3>1, <3>2 DEF TransientError
  <2>2. Ahead'
    BY <1>4, <2>0, <2>1, SMT DEF Rotation, Ahead
  <2>3. Accepted'
    BY <1>4, <2>0, <2>1, SMT DEF Rotation, Accepted
  <2>4. Untouched'
    BY <1>4, <2>0, <2>1, SMT DEF Rotation, Untouched
  <2>5. Behind'
    BY <1>4, <2>0, <2>1, SMT DEF Rotation, Behind
  <2>6. InHand'
    BY <1>4, <2>0, <2>1, SMT DEF Rotation, InHand
  <2>7. OneHand'
    BY <1>4, <2>0, <2>1, SMT DEF Rotation, OneHand
  <2> QED BY <2>2, <2>3, <2>4, <2>5, <2>6, <2>7 DEF Rotation
<1>10. UsableCredential'
  BY <1>0, <1>1, <1>4, SMT DEF TypeOK, Goes, rowVars, TransientError, UsableCredential
<1>11. Earned'
  <2>0. /\ UNCHANGED <<status, cred, expired, lapsed, refused>> /\ spoiled \subseteq spoiled'
        /\ call[p].step = "refreshing" /\ call'[p].step = "releasing" /\ call'[p].conn = call[p].conn
        /\ status[call[p].conn] # "none"
    BY <1>0, <1>1, <1>4, SMT DEF TransientError, CallRecords, rowVars, Placed
  <2>1. /\ \A d \in Connections : accepts'[d] = accepts[d] \/ (accepts'[d] = Nothing /\ d = call[p].conn /\ d \in spoiled')
        /\ \A r \in Callers : call[r].step \notin {"idle", "looking"} => call[r].conn \in Connections
        /\ \A d \in Connections : cred[d] # Nothing
    <3>1. CASE UNCHANGED <<accepts, spoiled>>
      BY <1>0, <3>1, SMT DEF Placed, TypeOK, Nothing
    <3>2. CASE accepts' = [accepts EXCEPT ![call[p].conn] = Nothing] /\ spoiled' = spoiled \cup {call[p].conn}
      BY <1>0, <3>2, SMT DEF Placed, TypeOK, Nothing
    <3> QED BY <3>1, <3>2 DEF TransientError
  <2>2. ErrorIsEarned'
    BY <2>0, <2>1, SMT DEF Earned, ErrorIsEarned
  <2>3. ASSUME NEW r \in Callers, call'[r].conn \notin lapsed
        PROVE  /\ call'[r].step = "refreshing" => call'[r].cred = cred'[call'[r].conn]
               /\ call'[r].step = "condemning" => refused'[call'[r].conn] = cred'[call'[r].conn]
    BY <1>4, <2>0, <2>1, <2>3, SMT DEF Earned
  <2> QED BY <2>0, <2>2, <2>3 DEF Earned
<1>12. ToldOnce'
  BY <1>0, <1>1, <1>4, SMT DEF Becomes, rowVars, TransientError, ToldOnce, Silent, Telling,
       NotifiedOnce
<1>13. Lasting'
  <2>1. /\ UNCHANGED <<status, lapsed>> /\ spoiled \subseteq spoiled' /\ call'[p].step = "releasing"
    BY <1>0, <1>1, <1>4, SMT DEF TransientError, CallRecords, rowVars
  <2>2. \A d \in Connections \ spoiled' : accepts'[d] = accepts[d]
    <3>1. CASE UNCHANGED <<accepts, spoiled>>
      BY <3>1
    <3>2. CASE accepts' = [accepts EXCEPT ![call[p].conn] = Nothing] /\ spoiled' = spoiled \cup {call[p].conn}
      BY <1>0, <3>2, SMT DEF TypeOK
    <3> QED BY <3>1, <3>2 DEF TransientError
  <2>3. ASSUME NEW r \in Callers, call'[r].conn \notin spoiled' \cup lapsed',
               call'[r].step \in {"refreshing", "condemning"}
        PROVE  call'[r].step = "refreshing" /\ accepts'[call'[r].conn] = call'[r].cred
    <3>1. call'[r] = call[r] /\ call[r].conn \in Connections
      BY <1>4, <2>1, <2>3, SMT DEF Placed
    <3> QED BY <2>1, <2>2, <2>3, <3>1 DEF Lasting
  <2>4. \A c \in Connections \ (spoiled' \cup lapsed') : status'[c] # "ERROR"
    BY <2>1 DEF Lasting
  <2> QED BY <2>3, <2>4 DEF Lasting
<1> QED BY <1>5, <1>6, <1>7, <1>8, <1>9, <1>10, <1>11, <1>12, <1>13

LEMMA StoreKeeps ==
  ASSUME IInv, NEW p \in Callers, Store(p)
  PROVE  IInv'
<1> USE TokenRefreshAssumption DEF IInv
<1>0. call[p] \in CallRecords /\ call[p].conn \in Connections
  BY SMT DEF TypeOK, CallRecords, Placed, Store
<1>1. PICK next : Becomes(p, next) /\ (next = [call[p] EXCEPT !.step = "releasing"])
  BY SMT DEF Store, Goes
<1>2. next \in CallRecords
  <2>1. {"releasing"} \subseteq Steps
    BY DEF Steps, Held
  <2> QED BY <1>0, <1>1, <2>1, StepTyped
<1>3. call' \in [Callers -> CallRecords]
  BY <1>1, <1>2, CallTyped
<1>4. call'[p] = next /\ \A r \in Callers : r # p => call'[r] = call[r]
  BY <1>1, MovesOne
<1>5. TypeOK'
  <2>1. cred' \in [Connections -> 1..MaxVersion]
    <3>1. call[p].cred \in 1..expired[call[p].conn]
      BY SMT DEF Placed, Store
    <3>2. expired[call[p].conn] \in 0..MaxVersion /\ expired[call[p].conn] < MaxVersion
      BY <1>0, SMT DEF TypeOK, Expirable
    <3>3. call[p].cred + 1 \in 1..MaxVersion
      BY <3>1, <3>2, SMT
    <3> QED BY <1>0, <3>3, SMT DEF TypeOK, Store
  <2> QED BY <1>3, <2>1, SMT DEF TypeOK, CallRecords, rowVars, historyVars, Store
<1>6. Placed'
  BY <1>0, <1>1, <1>4, SMT DEF Becomes, Store, Placed
<1>7. Expirable'
  BY <1>0, <1>1, <1>4, SMT DEF Store, Expirable
<1>8. Alone'
  <2>1. lapsed' = lapsed
    BY DEF Store, historyVars
  <2>2. \A c \in Connections : lease[c] \in Callers /\ lease[c] # p => lease'[c] = lease[c]
    BY <1>0, SMT DEF Store, TypeOK
  <2>3. ASSUME NEW c \in Connections, c \notin lapsed', Holding(p, c)'
        PROVE  lease'[c] = p
    BY <1>0, <1>1, <1>4, <2>1, <2>3, SMT DEF Store, Alone, Holding, Held
  <2> QED BY <1>4, <2>1, <2>2, <2>3, AloneKept
<1>9. Rotation'
  BY <1>0, <1>1, <1>4, SMT DEF TypeOK, Becomes, historyVars, Store, Rotation, Ahead, Accepted,
       Untouched, Behind, InHand, OneHand
<1>10. UsableCredential'
  BY <1>0, <1>1, <1>4, SMT DEF TypeOK, Nothing, historyVars, Store, UsableCredential, Rotation,
       InHand, Placed
<1>11. Earned'
  <2>0. /\ UNCHANGED <<status, accepts, lapsed, refused>>
        /\ call[p].step = "storing" /\ call'[p].step = "releasing" /\ call'[p].conn = call[p].conn
        /\ \A d \in Connections : d # call[p].conn \/ status[d] # "CONNECTED" => cred'[d] = cred[d]
        /\ \A r \in Callers : call[r].step \notin {"idle", "looking"} => call[r].conn \in Connections
    BY <1>0, <1>1, <1>4, SMT DEF Store, CallRecords, historyVars, TypeOK, Placed
  <2>1. ErrorIsEarned'
    BY <2>0, SMT DEF Earned, ErrorIsEarned
  <2>2. ASSUME NEW r \in Callers, r # p, call[r].conn = call[p].conn, call[p].conn \notin lapsed
        PROVE  call[r].step \notin {"refreshing", "condemning"}
    BY <1>0, <2>0, <2>2, SMT DEF Alone, Holding, Held
  <2>3. ASSUME NEW r \in Callers, call'[r].conn \notin lapsed
        PROVE  /\ call'[r].step = "refreshing" => call'[r].cred = cred'[call'[r].conn]
               /\ call'[r].step = "condemning" => refused'[call'[r].conn] = cred'[call'[r].conn]
    BY <1>4, <2>0, <2>2, <2>3, SMT DEF Earned
  <2> QED BY <2>0, <2>1, <2>3 DEF Earned
<1>12. ToldOnce'
  BY <1>0, <1>1, <1>4, SMT DEF Becomes, historyVars, Store, ToldOnce, Silent, Telling, NotifiedOnce
<1>13. Lasting'
  BY <1>0, <1>1, <1>4, SMT DEF TypeOK, CallRecords, rowVars, historyVars, Store, Lasting
<1> QED BY <1>5, <1>6, <1>7, <1>8, <1>9, <1>10, <1>11, <1>12, <1>13

LEMMA CondemnKeeps ==
  ASSUME IInv, NEW p \in Callers, Condemn(p)
  PROVE  IInv'
<1> USE TokenRefreshAssumption DEF IInv
<1>0. call[p] \in CallRecords /\ call[p].conn \in Connections
  BY SMT DEF TypeOK, CallRecords, Placed, Condemn
<1>1. PICK next : Becomes(p, next) /\ (next = [call[p] EXCEPT !.step = "condemned"])
  BY SMT DEF Condemn, Goes
<1>2. next \in CallRecords
  <2>1. {"condemned"} \subseteq Steps
    BY DEF Steps, Held
  <2> QED BY <1>0, <1>1, <2>1, StepTyped
<1>3. call' \in [Callers -> CallRecords]
  BY <1>1, <1>2, CallTyped
<1>4. call'[p] = next /\ \A r \in Callers : r # p => call'[r] = call[r]
  BY <1>1, MovesOne
<1>5. TypeOK'
  <2>1. status' \in [Connections -> {"none", "CONNECTED", "ERROR", "DISCONNECTED"}]
    BY <1>0, SMT DEF TypeOK, Condemn
  <2> QED BY <1>3, <2>1, SMT DEF TypeOK, CallRecords, rowVars, historyVars, Condemn
<1>6. Placed'
  BY <1>0, <1>1, <1>4, SMT DEF Becomes, Condemn, Placed
<1>7. Expirable'
  BY <1>0, <1>1, <1>4, SMT DEF Condemn, Expirable
<1>8. Alone'
  <2>1. lapsed' = lapsed
    BY DEF Condemn, historyVars
  <2>2. \A c \in Connections : lease[c] \in Callers /\ lease[c] # p => lease'[c] = lease[c]
    BY <1>0, SMT DEF Condemn, TypeOK
  <2>3. ASSUME NEW c \in Connections, c \notin lapsed', Holding(p, c)'
        PROVE  lease'[c] = p
    BY <1>0, <1>1, <1>4, <2>1, <2>3, SMT DEF Condemn, Alone, Holding, Held
  <2> QED BY <1>4, <2>1, <2>2, <2>3, AloneKept
<1>9. Rotation'
  BY <1>0, <1>1, <1>4, SMT DEF Becomes, historyVars, Condemn, Rotation, Ahead, Accepted,
       Untouched, Behind, InHand, OneHand
<1>10. UsableCredential'
  BY <1>0, <1>1, <1>4, SMT DEF historyVars, Condemn, UsableCredential
<1>11. Earned'
  BY <1>0, <1>1, <1>4, SMT DEF Becomes, historyVars, Condemn, Earned, ErrorIsEarned
<1>12. ToldOnce'
  BY <1>0, <1>1, <1>4, SMTT(20) DEF TypeOK, Steps, Becomes, historyVars, Holding, Condemn,
       ToldOnce, Silent, Telling, NotifiedOnce, Placed, Alone
<1>13. Lasting'
  BY <1>0, <1>1, <1>4, SMT DEF Becomes, historyVars, Condemn, Lasting
<1> QED BY <1>5, <1>6, <1>7, <1>8, <1>9, <1>10, <1>11, <1>12, <1>13

LEMMA ReleaseKeeps ==
  ASSUME IInv, NEW p \in Callers, NEW ok \in BOOLEAN, Release(p, ok)
  PROVE  IInv'
<1> USE TokenRefreshAssumption DEF IInv
<1>0. call[p] \in CallRecords /\ call[p].conn \in Connections
  BY SMT DEF TypeOK, CallRecords, Placed, Release
<1>1. PICK next : Becomes(p, next) /\ (next = Idle \/ next = [Idle EXCEPT !.step = "looking"]
            \/ (call[p].step = "condemned" /\ next = [call[p] EXCEPT !.step = "notifying"]))
  <2>1. CASE call[p].step = "releasing" /\ Becomes(p, Idle)
    BY <2>1
  <2>2. CASE call[p].step = "retrying" /\ Becomes(p, [Idle EXCEPT !.step = "looking"])
    BY <2>2
  <2>3. CASE call[p].step = "condemned" /\ Goes(p, "notifying")
    BY <2>3 DEF Goes
  <2> QED BY <2>1, <2>2, <2>3 DEF Release
<1>2. next \in CallRecords
  <2>1. {"notifying"} \subseteq Steps
    BY DEF Steps, Held
  <2> QED BY <1>0, <1>1, <2>1, StepTyped, IdleTyped
<1>3. call' \in [Callers -> CallRecords]
  BY <1>1, <1>2, CallTyped
<1>4. call'[p] = next /\ \A r \in Callers : r # p => call'[r] = call[r]
  BY <1>1, MovesOne
<1>5. TypeOK'
  <2>1. lease' \in [Connections -> Callers \cup {NoCaller}]
    BY <1>0, SMT DEF TypeOK, Release
  <2>2. faults' \in 0..MaxFaults
    BY SMT DEF TypeOK, Release, Fault
  <2> QED BY <1>3, <2>1, <2>2, SMT DEF TypeOK, CallRecords, rowVars, historyVars, Release
<1>6. Placed'
  <2>0. /\ UNCHANGED <<status, expired>>
        /\ \/ call'[p].step \in {"idle", "looking"} /\ call'[p].conn = 0 /\ call'[p].cred = 0
           \/ call'[p].step = "notifying" /\ call'[p].conn = call[p].conn
        /\ call[p].step \notin {"idle", "looking"}
    BY <1>0, <1>1, <1>4, SMT DEF Release, CallRecords, rowVars, Idle
  <2> QED BY <1>0, <1>4, <2>0, SMT DEF Placed
<1>7. Expirable'
  BY <1>0, <1>1, <1>4, SMT DEF rowVars, Release, Expirable
<1>8. Alone'
  <2>1. lapsed' = lapsed
    BY DEF Release, historyVars
  <2>2. \A c \in Connections : lease[c] \in Callers /\ lease[c] # p => lease'[c] = lease[c]
    BY <1>0, SMT DEF Release, TypeOK
  <2>3. ASSUME NEW c \in Connections, c \notin lapsed', Holding(p, c)'
        PROVE  lease'[c] = p
    BY <1>0, <1>1, <1>4, <2>1, <2>3, SMT DEF TypeOK, Holding, Held, Idle
  <2> QED BY <1>4, <2>1, <2>2, <2>3, AloneKept
<1>9. Rotation'
  BY <1>0, <1>1, <1>4, SMTT(20) DEF TypeOK, Idle, rowVars, historyVars, Release, Rotation, Ahead,
       Accepted, Untouched, Behind, InHand, OneHand
<1>10. UsableCredential'
  BY <1>0, <1>1, <1>4, SMT DEF rowVars, historyVars, Release, UsableCredential
<1>11. Earned'
  BY <1>0, <1>1, <1>4, SMT DEF TypeOK, Idle, rowVars, historyVars, Release, Earned, ErrorIsEarned
<1>12. ToldOnce'
  <2>0. /\ UNCHANGED <<status, told, lapsed>>
        /\ call'[p].step \in {"idle", "looking"} \/ (call[p].step = "condemned" /\ call'[p].step = "notifying" /\ call'[p].conn = call[p].conn)
    BY <1>0, <1>1, <1>4, SMT DEF Release, CallRecords, rowVars, historyVars, Idle
  <2>1. \A r \in Callers, c \in Connections : Telling(r, c)' => Telling(r, c)
    BY <1>4, <2>0, SMT DEF Telling
  <2> QED BY <1>4, <2>0, <2>1, SMTT(30) DEF ToldOnce, NotifiedOnce, Silent
<1>13. Lasting'
  BY <1>0, <1>1, <1>4, SMT DEF TypeOK, Idle, rowVars, historyVars, Release, Lasting
<1> QED BY <1>5, <1>6, <1>7, <1>8, <1>9, <1>10, <1>11, <1>12, <1>13

LEMMA NotifyKeeps ==
  ASSUME IInv, NEW p \in Callers, NEW ok \in BOOLEAN, Notify(p, ok)
  PROVE  IInv'
<1> USE TokenRefreshAssumption DEF IInv
<1>0. call[p] \in CallRecords /\ call[p].conn \in Connections
  BY SMT DEF TypeOK, CallRecords, Placed, Notify
<1>1. PICK next : Becomes(p, next) /\ (next = Idle)
  BY SMT DEF Notify
<1>2. next \in CallRecords
  BY <1>1, IdleTyped
<1>3. call' \in [Callers -> CallRecords]
  BY <1>1, <1>2, CallTyped
<1>4. call'[p] = next /\ \A r \in Callers : r # p => call'[r] = call[r]
  BY <1>1, MovesOne
<1>5. TypeOK'
  <2>1. told' \in [Connections -> Nat]
    BY <1>0, SMT DEF TypeOK, Notify
  <2>2. faults' \in 0..MaxFaults
    BY <1>0, SMT DEF TypeOK, Notify, Fault
  <2>3. untold' \subseteq Connections
    BY <1>0, SMT DEF TypeOK, Notify, Placed
  <2> QED BY <1>3, <2>1, <2>2, <2>3, SMT DEF TypeOK, CallRecords, rowVars, historyVars, Notify
<1>6. Placed'
  BY <1>0, <1>1, <1>4, SMT DEF Idle, rowVars, Notify, Placed
<1>7. Expirable'
  BY <1>0, <1>1, <1>4, SMT DEF rowVars, Notify, Expirable
<1>8. Alone'
  <2>1. lapsed' = lapsed
    BY DEF Notify, historyVars
  <2>2. \A c \in Connections : lease[c] \in Callers /\ lease[c] # p => lease'[c] = lease[c]
    BY <1>0, SMT DEF Notify, TypeOK
  <2>3. ASSUME NEW c \in Connections, c \notin lapsed', Holding(p, c)'
        PROVE  lease'[c] = p
    BY <1>0, <1>1, <1>4, <2>1, <2>3, SMT DEF Holding, Held, Idle
  <2> QED BY <1>4, <2>1, <2>2, <2>3, AloneKept
<1>9. Rotation'
  BY <1>0, <1>1, <1>4, SMT DEF Idle, rowVars, Notify, Rotation, Ahead, Accepted, Untouched,
       Behind, InHand, OneHand
<1>10. UsableCredential'
  BY <1>0, <1>1, <1>4, SMT DEF rowVars, Notify, UsableCredential
<1>11. Earned'
  BY <1>0, <1>1, <1>4, SMT DEF Idle, rowVars, Notify, Earned, ErrorIsEarned
<1>12. ToldOnce'
  <2>9. call[p].step = "notifying" /\ UNCHANGED <<status, lapsed>> /\ call'[p].step = "idle"
    BY <1>1, <1>4 DEF Notify, rowVars, Idle
  <2>8. \A d \in Connections : told'[d] = told[d] \/ (d = call[p].conn /\ told'[d] = told[d] + 1)
    <3>1. CASE ok
      BY <1>0, <3>1, SMT DEF Notify, TypeOK
    <3>2. CASE ~ok
      BY <3>2 DEF Notify
    <3> QED BY <3>1, <3>2
  <2>0. /\ call[p].step = "notifying" /\ UNCHANGED <<status, lapsed>> /\ call'[p].step = "idle"
        /\ \A d \in Connections : d # call[p].conn => told'[d] = told[d]
        /\ told'[call[p].conn] \in {told[call[p].conn], told[call[p].conn] + 1}
    BY <1>0, <2>8, <2>9
  <2>1. ASSUME NEW c \in Connections, c \notin lapsed, c = call[p].conn
        PROVE  /\ told[c] = 0 /\ told'[c] <= 1 /\ status[c] \notin {"none", "CONNECTED"}
               /\ \A r \in Callers : ~Telling(r, c)'
               /\ \A r \in Callers : call'[r].conn = c => call'[r].step \notin {"refreshing", "storing", "condemning"}
    BY <1>4, <2>0, <2>1, SMT DEF ToldOnce, Telling, Silent
  <2>2. \A r \in Callers, c \in Connections : Telling(r, c)' => Telling(r, c) /\ r # p
    BY <1>4, <2>0, SMT DEF Telling
  <2> QED BY <1>4, <2>0, <2>1, <2>2, SMTT(30) DEF ToldOnce, NotifiedOnce, Silent
<1>13. Lasting'
  BY <1>0, <1>1, <1>4, SMT DEF Idle, rowVars, Notify, Lasting
<1> QED BY <1>5, <1>6, <1>7, <1>8, <1>9, <1>10, <1>11, <1>12, <1>13

LEMMA CrashKeeps ==
  ASSUME IInv, NEW p \in Callers, Crash(p)
  PROVE  IInv'
<1> USE TokenRefreshAssumption DEF IInv
<1>0. call[p] \in CallRecords
  BY DEF TypeOK, CallRecords
<1>1. PICK next : Becomes(p, next) /\ (next = Idle)
  BY SMT DEF Crash
<1>2. next \in CallRecords
  BY <1>1, IdleTyped
<1>3. call' \in [Callers -> CallRecords]
  BY <1>1, <1>2, CallTyped
<1>4. call'[p] = next /\ \A r \in Callers : r # p => call'[r] = call[r]
  BY <1>1, MovesOne
<1>5. TypeOK'
  <2>1. faults' \in 0..MaxFaults
    BY <1>0, SMT DEF TypeOK, Crash, Fault
  <2>2. spoiled' \subseteq Connections
    BY <1>0, SMT DEF TypeOK, Crash, Placed
  <2>3. untold' \subseteq Connections
    BY <1>0, SMT DEF TypeOK, Crash, Placed
  <2> QED BY <1>3, <2>1, <2>2, <2>3, SMT DEF TypeOK, CallRecords, rowVars, historyVars, Crash
<1>6. Placed'
  BY <1>0, <1>1, <1>4, SMT DEF Idle, rowVars, Crash, Placed
<1>7. Expirable'
  BY <1>0, <1>1, <1>4, SMT DEF rowVars, Crash, Expirable
<1>8. Alone'
  <2>1. lapsed' = lapsed
    BY DEF Crash, historyVars
  <2>2. \A c \in Connections : lease[c] \in Callers /\ lease[c] # p => lease'[c] = lease[c]
    BY <1>0, SMT DEF Crash, TypeOK
  <2>3. ASSUME NEW c \in Connections, c \notin lapsed', Holding(p, c)'
        PROVE  lease'[c] = p
    BY <1>0, <1>1, <1>4, <2>1, <2>3, SMT DEF Holding, Held, Idle
  <2> QED BY <1>4, <2>1, <2>2, <2>3, AloneKept
<1>9. Rotation'
  <2>0. /\ UNCHANGED <<status, cred, expired, accepts>> /\ spoiled \subseteq spoiled'
        /\ call'[p].step = "idle"
    BY <1>1, <1>4, SMT DEF Crash, rowVars, Idle
  <2>1. Ahead'
    BY <1>4, <2>0, SMT DEF Rotation, Ahead
  <2>2. Accepted'
    BY <1>4, <2>0, SMT DEF Rotation, Accepted
  <2>3. Untouched'
    BY <1>4, <2>0, SMT DEF Rotation, Untouched
  <2>4. Behind'
    BY <1>4, <2>0, SMT DEF Rotation, Behind
  <2>5. InHand'
    BY <1>4, <2>0, SMT DEF Rotation, InHand
  <2>6. OneHand'
    BY <1>4, <2>0, SMT DEF Rotation, OneHand
  <2> QED BY <2>1, <2>2, <2>3, <2>4, <2>5, <2>6 DEF Rotation
<1>10. UsableCredential'
  BY <1>0, <1>1, <1>4, SMT DEF rowVars, Crash, UsableCredential
<1>11. Earned'
  BY <1>0, <1>1, <1>4, SMT DEF Idle, rowVars, Crash, Earned, ErrorIsEarned
<1>12. ToldOnce'
  BY <1>0, <1>1, <1>4, SMT DEF Idle, rowVars, Crash, ToldOnce, Silent, Telling, NotifiedOnce
<1>13. Lasting'
  BY <1>0, <1>1, <1>4, SMT DEF Idle, rowVars, Crash, Lasting
<1> QED BY <1>5, <1>6, <1>7, <1>8, <1>9, <1>10, <1>11, <1>12, <1>13

LEMMA LeaseEndsKeeps ==
  ASSUME IInv, NEW k \in Connections, LeaseEnds(k)
  PROVE  IInv'
<1> USE TokenRefreshAssumption DEF IInv
<1>1. TypeOK'
  <2>1. lease' \in [Connections -> Callers \cup {NoCaller}]
    BY SMT DEF TypeOK, LeaseEnds
  <2> QED BY <2>1, SMT DEF TypeOK, rowVars, historyVars, LeaseEnds
<1>2. Placed'
  BY SMT DEF rowVars, LeaseEnds, Placed
<1>3. Expirable'
  BY SMT DEF rowVars, LeaseEnds, Expirable
<1>4. Alone'
  BY SMTT(20) DEF historyVars, Holding, LeaseEnds, Alone
<1>5. Rotation'
  BY SMT DEF rowVars, historyVars, LeaseEnds, Rotation, Ahead, Accepted, Untouched, Behind,
       InHand, OneHand
<1>6. UsableCredential'
  BY SMT DEF rowVars, historyVars, LeaseEnds, UsableCredential
<1>7. Earned'
  BY SMT DEF rowVars, historyVars, LeaseEnds, Earned, ErrorIsEarned
<1>8. ToldOnce'
  BY SMT DEF rowVars, historyVars, LeaseEnds, ToldOnce, Silent, Telling, NotifiedOnce
<1>9. Lasting'
  BY SMT DEF rowVars, historyVars, LeaseEnds, Lasting
<1> QED BY <1>1, <1>2, <1>3, <1>4, <1>5, <1>6, <1>7, <1>8, <1>9

LEMMA LapseKeeps ==
  ASSUME IInv, NEW k \in Connections, Lapse(k)
  PROVE  IInv'
<1> USE TokenRefreshAssumption DEF IInv
<1>1. TypeOK'
  <2>1. lease' \in [Connections -> Callers \cup {NoCaller}]
    BY SMT DEF TypeOK, Lapse
  <2>2. faults' \in 0..MaxFaults
    BY SMT DEF TypeOK, Lapse, Fault
  <2>3. lapsed' \subseteq Connections
    BY SMT DEF TypeOK, Lapse
  <2> QED BY <2>1, <2>2, <2>3, SMT DEF TypeOK, rowVars, historyVars, Lapse
<1>2. Placed'
  BY SMT DEF rowVars, Lapse, Placed
<1>3. Expirable'
  BY SMT DEF rowVars, Lapse, Expirable
<1>4. Alone'
  BY SMTT(20) DEF Holding, Lapse, Alone
<1>5. Rotation'
  BY SMT DEF rowVars, Lapse, Rotation, Ahead, Accepted, Untouched, Behind, InHand, OneHand
<1>6. UsableCredential'
  BY SMT DEF rowVars, Lapse, UsableCredential
<1>7. Earned'
  BY SMT DEF rowVars, Lapse, Earned, ErrorIsEarned
<1>8. ToldOnce'
  BY SMT DEF rowVars, Lapse, ToldOnce, Silent, Telling, NotifiedOnce
<1>9. Lasting'
  BY SMT DEF rowVars, Lapse, Lasting
<1> QED BY <1>1, <1>2, <1>3, <1>4, <1>5, <1>6, <1>7, <1>8, <1>9

LEMMA ConnectKeeps ==
  ASSUME IInv, NEW k \in Connections, Connect(k)
  PROVE  IInv'
<1> USE TokenRefreshAssumption DEF IInv
<1>1. TypeOK'
  <2>1. status' \in [Connections -> {"none", "CONNECTED", "ERROR", "DISCONNECTED"}]
    BY SMT DEF TypeOK, Connect
  <2> QED BY <2>1, SMT DEF TypeOK, rowVars, historyVars, Connect
<1>2. Placed'
  BY SMT DEF Connect, Placed
<1>3. Expirable'
  BY SMT DEF Connect, Expirable
<1>4. Alone'
  BY SMTT(20) DEF historyVars, Holding, Connect, Alone
<1>5. Rotation'
  BY SMT DEF historyVars, Connect, Rotation, Ahead, Accepted, Untouched, Behind, InHand, OneHand
<1>6. UsableCredential'
  BY SMT DEF Connect, UsableCredential, Rotation, Untouched
<1>7. Earned'
  BY SMT DEF historyVars, Connect, Earned, ErrorIsEarned
<1>8. ToldOnce'
  BY SMT DEF historyVars, Connect, ToldOnce, Silent, Telling, NotifiedOnce
<1>9. Lasting'
  BY SMT DEF historyVars, Connect, Lasting
<1> QED BY <1>1, <1>2, <1>3, <1>4, <1>5, <1>6, <1>7, <1>8, <1>9

LEMMA DisconnectKeeps ==
  ASSUME IInv, NEW k \in Connections, Disconnect(k)
  PROVE  IInv'
<1> USE TokenRefreshAssumption DEF IInv
<1>1. TypeOK'
  <2>1. status' \in [Connections -> {"none", "CONNECTED", "ERROR", "DISCONNECTED"}]
    BY SMT DEF TypeOK, Disconnect
  <2> QED BY <2>1, SMT DEF TypeOK, rowVars, historyVars, Disconnect
<1>2. Placed'
  BY SMT DEF Disconnect, Placed
<1>3. Expirable'
  BY SMT DEF Disconnect, Expirable
<1>4. Alone'
  BY SMTT(20) DEF historyVars, Holding, Disconnect, Alone
<1>5. Rotation'
  BY SMT DEF historyVars, Disconnect, Rotation, Ahead, Accepted, Untouched, Behind, InHand, OneHand
<1>6. UsableCredential'
  BY SMT DEF historyVars, Disconnect, UsableCredential
<1>7. Earned'
  BY SMT DEF historyVars, Disconnect, Earned, ErrorIsEarned
<1>8. ToldOnce'
  BY SMT DEF historyVars, Disconnect, ToldOnce, Silent, Telling, NotifiedOnce
<1>9. Lasting'
  BY SMT DEF historyVars, Disconnect, Lasting
<1> QED BY <1>1, <1>2, <1>3, <1>4, <1>5, <1>6, <1>7, <1>8, <1>9

LEMMA ExpireKeeps ==
  ASSUME IInv, NEW k \in Connections, Expire(k)
  PROVE  IInv'
<1> USE TokenRefreshAssumption DEF IInv
<1>1. TypeOK'
  <2>1. expired' \in [Connections -> 0..MaxVersion]
    BY SMT DEF TypeOK, Expire
  <2> QED BY <2>1, SMT DEF TypeOK, rowVars, historyVars, Expire
<1>2. Placed'
  BY SMT DEF TypeOK, Expire, Placed
<1>3. Expirable'
  BY SMT DEF Expire, Expirable
<1>4. Alone'
  BY SMT DEF historyVars, Holding, Expire, Alone
<1>5. Rotation'
  BY SMT DEF historyVars, Expire, Rotation, Ahead, Accepted, Untouched, Behind, InHand, OneHand
<1>6. UsableCredential'
  BY SMT DEF historyVars, Expire, UsableCredential
<1>7. Earned'
  BY SMT DEF historyVars, Expire, Earned, ErrorIsEarned
<1>8. ToldOnce'
  BY SMT DEF historyVars, Expire, ToldOnce, Silent, Telling, NotifiedOnce
<1>9. Lasting'
  BY SMT DEF historyVars, Expire, Lasting
<1> QED BY <1>1, <1>2, <1>3, <1>4, <1>5, <1>6, <1>7, <1>8, <1>9

LEMMA RevokeKeeps ==
  ASSUME IInv, NEW k \in Connections, Revoke(k)
  PROVE  IInv'
<1> USE TokenRefreshAssumption DEF IInv
<1>1. TypeOK'
  <2>1. accepts' \in [Connections -> 0..MaxVersion]
    BY SMT DEF TypeOK, Revoke, Nothing
  <2>2. faults' \in 0..MaxFaults
    BY SMT DEF TypeOK, Revoke, Fault
  <2>3. spoiled' \subseteq Connections
    BY SMT DEF TypeOK, Revoke, Placed
  <2> QED BY <2>1, <2>2, <2>3, SMT DEF TypeOK, rowVars, historyVars, Revoke
<1>2. Placed'
  BY SMT DEF rowVars, Revoke, Placed
<1>3. Expirable'
  BY SMT DEF rowVars, Revoke, Expirable
<1>4. Alone'
  BY SMT DEF Holding, Revoke, Alone
<1>5. Rotation'
  BY SMT DEF rowVars, Revoke, Rotation, Ahead, Accepted, Untouched, Behind, InHand, OneHand
<1>6. UsableCredential'
  BY SMT DEF rowVars, Revoke, UsableCredential
<1>7. Earned'
  BY SMTT(20) DEF TypeOK, Nothing, rowVars, Revoke, Earned, ErrorIsEarned
<1>8. ToldOnce'
  BY SMT DEF rowVars, Revoke, ToldOnce, Silent, Telling, NotifiedOnce
<1>9. Lasting'
  BY SMTT(20) DEF TypeOK, Nothing, rowVars, Revoke, Lasting
<1> QED BY <1>1, <1>2, <1>3, <1>4, <1>5, <1>6, <1>7, <1>8, <1>9

-----------------------------------------------------------------------------
(* The theorems *)

LEMMA InvariantInit == Init => IInv
<1> USE TokenRefreshAssumption DEF Init
<1>1. Init => TypeOK
  BY SMT DEF TypeOK, Connections, Steps, Held, Idle, Nothing
<1>2. Init => Placed /\ Expirable /\ Alone
  BY SMT DEF Placed, Expirable, Alone, Holding, Held, Idle, Connections
<1>3. Init => Rotation
  BY SMT DEF Rotation, Ahead, Accepted, Untouched, Behind, InHand, OneHand, Idle, Connections,
       Nothing
<1>4. Init => UsableCredential /\ Earned /\ Lasting
  BY SMT DEF UsableCredential, Earned, ErrorIsEarned, Lasting, Idle
<1>5. Init => ToldOnce
  BY SMT DEF ToldOnce, Silent, Telling, NotifiedOnce, Idle
<1> QED BY <1>1, <1>2, <1>3, <1>4, <1>5 DEF IInv

LEMMA InvariantStep == IInv /\ [Next]_vars => IInv'
<1> SUFFICES ASSUME IInv, [Next]_vars
             PROVE  IInv'
  OBVIOUS
<1>1. ASSUME NEW p \in Callers, Call(p) \/ Step(p) \/ Crash(p)
      PROVE  IInv'
  <2>1. ASSUME NEW ok \in BOOLEAN, Release(p, ok) \/ Notify(p, ok)
        PROVE  IInv'
    BY <2>1, ReleaseKeeps, NotifyKeeps
  <2> QED BY <1>1, <2>1, CallKeeps, LookKeeps, TryAcquireKeeps, RefusedKeeps, RereadKeeps, RefreshKeeps,
             RefuseGoodKeeps, TransientErrorKeeps, StoreKeeps, CondemnKeeps, CrashKeeps DEF Step
<1>2. ASSUME NEW c \in Connections,
             LeaseEnds(c) \/ Lapse(c) \/ Connect(c) \/ Disconnect(c) \/ Expire(c) \/ Revoke(c)
      PROVE  IInv'
  BY <1>2, LeaseEndsKeeps, LapseKeeps, ConnectKeeps, DisconnectKeeps, ExpireKeeps, RevokeKeeps
<1>3. CASE UNCHANGED vars
  <2>1. UNCHANGED <<status, cred, expired, accepts, lease, call, told, faults, lapsed, spoiled, untold, refused>>
    BY <1>3 DEF vars, rowVars
  <2>2. TypeOK' /\ Placed' /\ Expirable' /\ Alone'
    BY <2>1 DEF IInv, TypeOK, Placed, Expirable, Alone, Holding
  <2>3. Rotation' /\ UsableCredential'
    BY <2>1 DEF IInv, Rotation, Ahead, Accepted, Untouched, Behind, InHand, OneHand,
         UsableCredential
  <2>4. Earned' /\ ToldOnce' /\ Lasting'
    BY <2>1 DEF IInv, Earned, ErrorIsEarned, ToldOnce, Silent, Telling, NotifiedOnce, Lasting
  <2> QED BY <2>2, <2>3, <2>4 DEF IInv
<1> QED BY <1>1, <1>2, <1>3 DEF Next, Quiet

\* Every state the system reaches satisfies the inductive invariant.
THEOREM Invariant == Spec => []IInv
BY InvariantInit, InvariantStep, PTL DEF Spec

\* Rows, leases and calls keep their types, for any callers and connections.
THEOREM TokenRefreshTypeCorrect == Spec => []TypeOK
<1>1. IInv => TypeOK
  BY DEF IInv
<1> QED BY <1>1, Invariant, PTL

\* Callers that refresh at once do not cost the connection: unless a fault spoils
\* it, it is not put in ERROR while its leases hold, and while it is CONNECTED
\* its credential is the accepted one, in the row or about to be stored.
THEOREM OverlapDoesNotCostTheConnection == Spec => []RefreshesKeepTheConnection
<1>1. IInv => RefreshesKeepTheConnection
  BY DEF IInv, Lasting, RefreshesKeepTheConnection
<1> QED BY <1>1, Invariant, PTL

\* While leases hold, ERROR stands over the credential that was refused for good,
\* and none that was stored since.
THEOREM ErrorStandsOverWhatWasRefused == Spec => []ErrorIsEarned
<1>1. IInv => ErrorIsEarned
  BY DEF IInv, Earned
<1> QED BY <1>1, Invariant, PTL

\* While leases hold, the administrators are told of a broken connection once.
THEOREM ReconnectIsAskedOnce == Spec => []NotifiedOnce
<1>1. IInv => NotifiedOnce
  BY DEF IInv, ToldOnce
<1> QED BY <1>1, Invariant, PTL

=============================================================================
