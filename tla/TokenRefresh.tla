---------------------------- MODULE TokenRefresh ----------------------------
(***************************************************************************)
(* A distributor's accounting connections and the refresh of their tokens: *)
(* every job and request that talks to the accounting system comes through *)
(* getValidTokenSet, and whoever finds the access token about to expire    *)
(* trades the refresh token for new ones under a lease kept in Redis.      *)
(*                                                                         *)
(* apps/api/src/accounting/accounting-connection.service.ts                *)
(* apps/api/src/accounting/accounting-refresh-lock.service.ts              *)
(* apps/api/src/accounting/adapters/xero-connection.adapter.ts             *)
(*                                                                         *)
(* A refresh token is good for one use: the accounting system answers with *)
(* the next one, and whoever loses that answer has lost the connection.    *)
(* The lease is renewed while its owner lives, and an owner that is cut    *)
(* off from Redis for long enough loses it without noticing.               *)
(*                                                                         *)
(* Abstractions.  A credential is its number, counted from 1; connections  *)
(* are numbered in the order of connectedAt, of which callbacks that race  *)
(* may make something else.  The accounting system refuses for good a      *)
(* credential that it no longer accepts, and may refuse one that it still  *)
(* accepts (the application's own secret is wrong, or another 4xx): the    *)
(* code treats the two alike.  A disconnection reads and writes in one     *)
(* step, and a write that the database refuses is a crash of its caller.   *)
(***************************************************************************)
EXTENDS Integers

CONSTANTS
  Callers,         \* jobs and requests that want a token
  NoCaller,        \* the lease is free
  MaxConnections,  \* bound: times the distributor connects
  MaxVersion,      \* bound: credentials of a connection
  MaxFaults        \* bound: failures and crashes

ASSUME TokenRefreshAssumption ==
  /\ NoCaller \notin Callers
  /\ MaxConnections \in Nat \ {0} /\ MaxVersion \in Nat \ {0} /\ MaxFaults \in Nat

VARIABLES
  status,   \* of each connection, "none" before it is made
  cred,     \* the credential stored in it
  expired,  \* credentials up to this one are about to expire
  accepts,  \* the credential the accounting system accepts, Nothing if none that Wholo has or can get
  lease,    \* who holds the lease on a connection's refresh
  call,     \* where each caller is
  told,     \* times the administrators were told to reconnect
  faults,   \* failures and crashes so far
  lapsed,   \* history: connections whose lease ended under a living owner
  spoiled,  \* history: connections that were revoked, refused though good, or whose new credential was lost
  untold,   \* history: connections that were given up by a caller that failed to tell
  refused   \* history: the credential of each connection that was last refused for good

vars == <<status, cred, expired, accepts, lease, call, told, faults, lapsed, spoiled, untold, refused>>
rowVars == <<status, cred, expired>>
historyVars == <<lapsed, spoiled, untold, refused>>

Connections == 1..MaxConnections
Nothing == 0
Held == {"locked", "refreshing", "storing", "condemning", "releasing", "retrying", "condemned"}
Steps == {"idle", "looking", "acquiring", "notifying"} \cup Held

TypeOK ==
  /\ status \in [Connections -> {"none", "CONNECTED", "ERROR", "DISCONNECTED"}]
  /\ cred \in [Connections -> 1..MaxVersion]
  /\ expired \in [Connections -> 0..MaxVersion]
  /\ accepts \in [Connections -> 0..MaxVersion]
  /\ lease \in [Connections -> Callers \cup {NoCaller}]
  /\ call \in [Callers -> [step : Steps, conn : 0..MaxConnections, cred : 0..MaxVersion]]
  /\ told \in [Connections -> Nat]
  /\ faults \in 0..MaxFaults
  /\ lapsed \subseteq Connections /\ spoiled \subseteq Connections /\ untold \subseteq Connections
  /\ refused \in [Connections -> 0..MaxVersion]

Idle == [step |-> "idle", conn |-> 0, cred |-> 0]

Init ==
  /\ status = [c \in Connections |-> "none"]
  /\ cred = [c \in Connections |-> 1]
  /\ expired = [c \in Connections |-> 0]
  /\ accepts = [c \in Connections |-> 1]
  /\ lease = [c \in Connections |-> NoCaller]
  /\ call = [p \in Callers |-> Idle]
  /\ told = [c \in Connections |-> 0]
  /\ faults = 0
  /\ lapsed = {} /\ spoiled = {} /\ untold = {}
  /\ refused = [c \in Connections |-> Nothing]

\* The row getValidTokenSet finds: the last one connected, whatever became of it.
IsLatest(c) == status[c] # "none" /\ \A d \in Connections : d > c => status[d] = "none"

\* mutant: a connection in ERROR is tried again.
RetryError(c) == status[c] \in {"CONNECTED", "ERROR"} /\ cred[c] <= expired[c]

NeedsRefresh(c) == status[c] = "CONNECTED" /\ cred[c] <= expired[c]

\* Caller p is between tryAcquire and the end of release, on connection c.
Holding(p, c) == call[p].conn = c /\ call[p].step \in Held

Fault == faults < MaxFaults /\ faults' = faults + 1

Becomes(p, next) == call' = [call EXCEPT ![p] = next]
Goes(p, step) == Becomes(p, [call[p] EXCEPT !.step = step])

-----------------------------------------------------------------------------
\* getValidTokenSet

\* Any code that talks to the accounting system, and the daily sweep over
\* connections that were not used for long.
Call(p) ==
  /\ call[p] = Idle
  /\ \E c \in Connections : status[c] # "none"
  /\ Goes(p, "looking")
  /\ UNCHANGED <<rowVars, accepts, lease, told, faults, historyVars>>

\* mutant: the status is not looked at before the lease is taken.
LookAtTokenOnly(p) ==
  /\ call[p].step = "looking"
  /\ \E c \in Connections :
       /\ IsLatest(c)
       /\ Becomes(p, IF cred[c] <= expired[c] THEN [step |-> "acquiring", conn |-> c, cred |-> 0] ELSE Idle)
  /\ UNCHANGED <<rowVars, accepts, lease, told, faults, historyVars>>

\* The connection is gone or broken, its token is good, or it must be refreshed.
Look(p) ==
  /\ call[p].step = "looking"
  /\ \E c \in Connections :
       /\ IsLatest(c)
       /\ Becomes(p, IF NeedsRefresh(c) THEN [step |-> "acquiring", conn |-> c, cred |-> 0] ELSE Idle)
  /\ UNCHANGED <<rowVars, accepts, lease, told, faults, historyVars>>

\* mutant: SET without NX.
Overwrite(p) ==
  /\ call[p].step = "acquiring"
  /\ lease' = [lease EXCEPT ![call[p].conn] = p]
  /\ Goes(p, "locked")
  /\ UNCHANGED <<rowVars, accepts, told, faults, historyVars>>

TryAcquire(p) ==
  /\ call[p].step = "acquiring"
  /\ lease[call[p].conn] = NoCaller
  /\ lease' = [lease EXCEPT ![call[p].conn] = p]
  /\ Goes(p, "locked")
  /\ UNCHANGED <<rowVars, accepts, told, faults, historyVars>>

\* Held by another, or Redis does not answer: then it may have taken the lease
\* for an owner that does not know.  The caller waits and looks again, or has
\* waited for WAITER_DEADLINE_MS.
Refused(p) ==
  /\ call[p].step = "acquiring"
  /\ LET c == call[p].conn
     IN \/ lease[c] # NoCaller /\ UNCHANGED <<lease, faults>>
        \/ lease[c] = NoCaller /\ Fault /\ lease' \in {lease, [lease EXCEPT ![c] = p]}
  /\ \/ Becomes(p, [Idle EXCEPT !.step = "looking"])
     \/ Becomes(p, Idle)
  /\ UNCHANGED <<rowVars, accepts, told, historyVars>>

-----------------------------------------------------------------------------
\* refreshHoldingLock, performRefresh

\* mutant: no second look at the status and the token under the lease.
NoSecondLook(p) ==
  /\ call[p].step = "locked"
  /\ Becomes(p, [call[p] EXCEPT !.step = "refreshing", !.cred = cred[call[p].conn]])
  /\ UNCHANGED <<rowVars, accepts, lease, told, faults, historyVars>>

\* Under the lease, look again.
Reread(p) ==
  /\ call[p].step = "locked"
  /\ LET c == call[p].conn
     IN Becomes(p, IF NeedsRefresh(c) THEN [step |-> "refreshing", conn |-> c, cred |-> cred[c]]
                   ELSE [call[p] EXCEPT !.step = IF status[c] = "CONNECTED" THEN "releasing" ELSE "retrying"])
  /\ UNCHANGED <<rowVars, accepts, lease, told, faults, historyVars>>

\* refreshAccessToken: the accounting system takes the credential and gives the
\* next, or refuses one it does not accept.
Refresh(p) ==
  /\ call[p].step = "refreshing"
  /\ LET c == call[p].conn
     IN IF accepts[c] = call[p].cred
        THEN /\ accepts' = [accepts EXCEPT ![c] = call[p].cred + 1]
             /\ Goes(p, "storing")
             /\ UNCHANGED refused
        ELSE /\ refused' = [refused EXCEPT ![c] = call[p].cred]
             /\ Goes(p, "condemning")
             /\ UNCHANGED accepts
  /\ UNCHANGED <<rowVars, lease, told, faults, lapsed, spoiled, untold>>

\* mutant: the lease is given back before the ERROR is written.
ReleaseFirst(p) ==
  /\ call[p].step = "refreshing"
  /\ accepts[call[p].conn] = call[p].cred
  /\ Fault
  /\ refused' = [refused EXCEPT ![call[p].conn] = call[p].cred]
  /\ spoiled' = spoiled \cup {call[p].conn}
  /\ lease' = [lease EXCEPT ![call[p].conn] = NoCaller]
  /\ Goes(p, "condemning")
  /\ UNCHANGED <<rowVars, accepts, told, lapsed, untold>>

\* toRefreshTokenError: the credential is good, and refused all the same
\* (invalid_client, a 4xx without a reason); that is an error for good too.
RefuseGood(p) ==
  /\ call[p].step = "refreshing"
  /\ accepts[call[p].conn] = call[p].cred
  /\ Fault
  /\ refused' = [refused EXCEPT ![call[p].conn] = call[p].cred]
  /\ spoiled' = spoiled \cup {call[p].conn}
  /\ Goes(p, "condemning")
  /\ UNCHANGED <<rowVars, accepts, lease, told, lapsed, untold>>

\* A timeout, a rate limit, an error on the other side: tried again at some
\* later call.  The answer that was lost may have been the next credential.
TransientError(p) ==
  /\ call[p].step = "refreshing"
  /\ Fault
  /\ Goes(p, "releasing")
  /\ LET c == call[p].conn
     IN \/ UNCHANGED <<accepts, spoiled>>
        \/ /\ accepts[c] = call[p].cred
           /\ accepts' = [accepts EXCEPT ![c] = Nothing]
           /\ spoiled' = spoiled \cup {c}
  /\ UNCHANGED <<rowVars, lease, told, lapsed, untold, refused>>

\* mutant: the refresh token that came with the new access token is dropped.
StoreAccessTokenOnly(p) ==
  /\ call[p].step = "storing"
  /\ Goes(p, "releasing")
  /\ UNCHANGED <<rowVars, accepts, lease, told, faults, historyVars>>

\* The conditional write; if it finds another credential or status, the caller
\* answers with what is stored now or with an error to be retried.
Store(p) ==
  /\ call[p].step = "storing"
  /\ LET c == call[p].conn
     IN cred' = IF status[c] = "CONNECTED" /\ cred[c] = call[p].cred
                THEN [cred EXCEPT ![c] = call[p].cred + 1] ELSE cred
  /\ Goes(p, "releasing")
  /\ UNCHANGED <<status, expired, accepts, lease, told, faults, historyVars>>

\* The accounting system has refused for good: ERROR, by id alone.
Condemn(p) ==
  /\ call[p].step = "condemning"
  /\ status' = [status EXCEPT ![call[p].conn] = "ERROR"]
  /\ Goes(p, "condemned")
  /\ UNCHANGED <<cred, expired, accepts, lease, told, faults, historyVars>>

\* mutant: the error is thrown on without telling anyone.
SilentRelease(p, answered) ==
  /\ call[p].step \in {"releasing", "retrying", "condemned"}
  /\ IF answered
     THEN /\ lease' = IF lease[call[p].conn] = p THEN [lease EXCEPT ![call[p].conn] = NoCaller] ELSE lease
          /\ UNCHANGED faults
     ELSE Fault /\ UNCHANGED lease
  /\ Becomes(p, IF call[p].step = "retrying" THEN [Idle EXCEPT !.step = "looking"] ELSE Idle)
  /\ UNCHANGED <<rowVars, accepts, told, historyVars>>

\* release, if p still owns the lease; Redis may not answer, and it is left to
\* run out.  The administrators are told after the release.
Release(p, answered) ==
  /\ \/ call[p].step = "releasing" /\ Becomes(p, Idle)
     \/ call[p].step = "retrying" /\ Becomes(p, [Idle EXCEPT !.step = "looking"])
     \/ call[p].step = "condemned" /\ Goes(p, "notifying")
  /\ IF answered
     THEN /\ lease' = IF lease[call[p].conn] = p THEN [lease EXCEPT ![call[p].conn] = NoCaller] ELSE lease
          /\ UNCHANGED faults
     ELSE Fault /\ UNCHANGED lease
  /\ UNCHANGED <<rowVars, accepts, told, historyVars>>

\* notifyReconnectNeeded: a failure is logged, and that is all.
Notify(p, sent) ==
  /\ call[p].step = "notifying"
  /\ LET c == call[p].conn
     IN IF sent
        THEN /\ told' = [told EXCEPT ![c] = @ + 1]
             /\ UNCHANGED <<faults, untold>>
        ELSE Fault /\ untold' = untold \cup {c} /\ UNCHANGED told
  /\ Becomes(p, Idle)
  /\ UNCHANGED <<rowVars, accepts, lease, lapsed, spoiled, refused>>

-----------------------------------------------------------------------------
\* Leases, crashes, and the connection's own life

\* The process dies with the call in it, and what it had in hand is lost.
Crash(p) ==
  /\ call[p] # Idle
  /\ Fault
  /\ Becomes(p, Idle)
  /\ spoiled' = IF call[p].step = "storing" THEN spoiled \cup {call[p].conn} ELSE spoiled
  /\ untold' = IF call[p].step \in {"condemned", "notifying"} THEN untold \cup {call[p].conn} ELSE untold
  /\ UNCHANGED <<rowVars, accepts, lease, told, lapsed, refused>>

\* The lease of an owner that no longer renews it runs out.
LeaseEnds(c) ==
  /\ lease[c] # NoCaller /\ ~Holding(lease[c], c)
  /\ lease' = [lease EXCEPT ![c] = NoCaller]
  /\ UNCHANGED <<rowVars, accepts, call, told, faults, historyVars>>

\* The owner cannot reach Redis to renew it, and goes on.
Lapse(c) ==
  /\ lease[c] # NoCaller /\ Holding(lease[c], c)
  /\ Fault
  /\ lease' = [lease EXCEPT ![c] = NoCaller]
  /\ lapsed' = lapsed \cup {c}
  /\ UNCHANGED <<rowVars, accepts, call, told, spoiled, untold, refused>>

\* handleCallback: the new connection takes the place of the one before it.
Connect(c) ==
  /\ status[c] = "none" /\ \A d \in Connections : d < c => status[d] # "none"
  /\ status' = [d \in Connections |-> IF d = c THEN "CONNECTED"
                                      ELSE IF status[d] \in {"CONNECTED", "ERROR"} THEN "DISCONNECTED"
                                      ELSE status[d]]
  /\ UNCHANGED <<cred, expired, accepts, lease, call, told, faults, historyVars>>

Disconnect(c) ==
  /\ status[c] = "CONNECTED"
  /\ status' = [status EXCEPT ![c] = "DISCONNECTED"]
  /\ UNCHANGED <<cred, expired, accepts, lease, call, told, faults, historyVars>>

\* The access token is within REFRESH_BUFFER_MS of its end.
Expire(c) ==
  /\ status[c] = "CONNECTED"
  /\ expired[c] < cred[c] /\ cred[c] < MaxVersion
  /\ expired' = [expired EXCEPT ![c] = cred[c]]
  /\ UNCHANGED <<status, cred, accepts, lease, call, told, faults, historyVars>>

\* The user takes the consent back, or the token is left unused for too long.
Revoke(c) ==
  /\ status[c] = "CONNECTED"
  /\ accepts[c] # Nothing
  /\ Fault
  /\ accepts' = [accepts EXCEPT ![c] = Nothing]
  /\ spoiled' = spoiled \cup {c}
  /\ UNCHANGED <<rowVars, lease, call, told, lapsed, untold, refused>>

-----------------------------------------------------------------------------

Step(p) ==
  \/ Look(p) \/ TryAcquire(p) \/ Refused(p) \/ Reread(p)
  \/ Refresh(p) \/ RefuseGood(p) \/ TransientError(p) \/ Store(p) \/ Condemn(p)
  \/ \E ok \in BOOLEAN : Release(p, ok) \/ Notify(p, ok)

\* No caller is under way and nothing more can happen within the bounds.
Quiet == (\A p \in Callers : call[p] = Idle) /\ UNCHANGED vars

Next ==
  \/ \E p \in Callers : Call(p) \/ Step(p) \/ Crash(p)
  \/ \E c \in Connections : LeaseEnds(c) \/ Lapse(c) \/ Connect(c) \/ Disconnect(c) \/ Expire(c) \/ Revoke(c)
  \/ Quiet

\* A call runs on, and a lease has its end.
Fairness ==
  /\ \A p \in Callers : WF_vars(Step(p))
  /\ \A c \in Connections : WF_vars(LeaseEnds(c))

Spec == Init /\ [][Next]_vars /\ Fairness

-----------------------------------------------------------------------------

\* A live connection that no fault spoiled has the credential the accounting
\* system accepts, in its row or in the hand of the caller that will store it.
UsableCredential ==
  \A c \in Connections \ spoiled :
    status[c] = "CONNECTED" =>
      \/ cred[c] = accepts[c]
      \/ \E p \in Callers : /\ call[p] = [step |-> "storing", conn |-> c, cred |-> cred[c]]
                            /\ accepts[c] = cred[c] + 1

\* Callers that find the token expiring at once do not cost the connection:
\* while its lease holds, no caller presents the credential another has just
\* used up, is refused, and puts it in ERROR over the one that is on its way to
\* the row (getValidTokenSet, refreshHoldingLock).  Once a lease lapses they
\* may: what stays true then is that the connection does not live on with a
\* credential that is used up.
RefreshesKeepTheConnection ==
  /\ UsableCredential
  /\ \A c \in Connections \ (spoiled \cup lapsed) : status[c] # "ERROR"

\* A connection in ERROR holds the very credential that was refused for good,
\* not one that was stored since: the write has no condition but the id, so
\* this is the lease's doing (performRefresh, which writes ERROR for a refusal
\* of any kind, and release, which comes after it).
ErrorIsEarned ==
  \A c \in Connections \ lapsed : status[c] = "ERROR" => cred[c] = refused[c]

\* "Only ever called once per CONNECTED -> ERROR transition": the
\* administrators are told once, however many callers find the connection
\* broken (notifyReconnectNeeded has no deduplication of its own).
NotifiedOnce == \A c \in Connections \ lapsed : told[c] <= 1

\* A call ends, whatever it finds: no caller polls for good for a lease whose
\* owner is dead, or retries a connection that is gone (getValidTokenSet).
CallsEnd == \A p \in Callers : (call[p] # Idle) ~> (call[p] = Idle)

\* A broken connection is one the administrators were told of, unless the
\* caller that broke it died or failed at that (refreshHoldingLock, finally).
ErrorIsTold ==
  \A c \in Connections : (status[c] = "ERROR") ~> (told[c] > 0 \/ c \in untold)
=============================================================================
