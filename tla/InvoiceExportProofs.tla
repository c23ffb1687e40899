------------------------ MODULE InvoiceExportProofs ------------------------
(***************************************************************************)
(* Proofs about InvoiceExport, for any number of organisations, retries,   *)
(* attempts, requests and faults.                                          *)
(***************************************************************************)
EXTENDS InvoiceExport, TLAPS

Step == [Next]_vars

-----------------------------------------------------------------------------
(* Types.                                                                  *)

\* What Leave, Return and Throw do to the queue and the attempt.
QueueTypeOK ==
  /\ jobs \in [Jobs -> JobStates] /\ made \in [Jobs -> 0..MaxAttempts]
  /\ stalled \subseteq Jobs
  /\ job \in Jobs \cup {None} /\ org \in Organisations \cup {None}
  /\ step \in {"idle", "claimed", "sent", "found"} /\ sent \in Keys
  /\ step = "idle" <=> org = None
  /\ step = "idle" <=> job = None
  /\ \A j \in Jobs : jobs[j] = "active" <=> j = job
  /\ \A j \in Jobs : jobs[j] # "done" => made[j] < MaxAttempts

BooksTypeOK ==
  /\ raised \in [Organisations -> Nat]
  /\ memory \in [Organisations -> [Keys -> Nat]]
  /\ underway \in [Organisations -> SUBSET Keys]
  /\ live \in [Organisations -> SUBSET Nat]
  /\ \A o \in Organisations : live[o] \subseteq 1..raised[o]

RecordsTypeOK ==
  /\ rows \in [Organisations -> RowStates] /\ stale \in [Organisations -> BOOLEAN]

UsersTypeOK ==
  /\ cancelled \in BOOLEAN /\ connected \in Organisations \cup {None}
  /\ key \in [Organisations -> Keys]

LEMMA TypeParts ==
  TypeOK <=> QueueTypeOK /\ BooksTypeOK /\ RecordsTypeOK /\ UsersTypeOK /\ faults \in 0..MaxFaults
  BY DEF TypeOK, QueueTypeOK, BooksTypeOK, RecordsTypeOK, UsersTypeOK

\* An attempt in hand has its job and its organisation.
LEMMA InHand ==
  ASSUME QueueTypeOK, step # "idle"
  PROVE  org \in Organisations
  BY DEF QueueTypeOK

LEMMA KeyOne == 1 \in Keys
  BY InvoiceExportAssumption DEF Keys

LEMMA NoneIsNoOne == None \notin Jobs /\ None \notin Organisations
  BY InvoiceExportAssumption

\* An attempt that returns leaves the queue in order.
LEMMA ReturnTyped ==
  ASSUME QueueTypeOK, job # None, Return
  PROVE  QueueTypeOK'
  BY KeyOne, InvoiceExportAssumption DEF QueueTypeOK, Return, Leave, JobStates

\* An attempt that throws does as well: a job that is kept has attempts left.
LEMMA ThrowTyped ==
  ASSUME QueueTypeOK, job # None, NEW kept \in {"backoff", "settling"}, Throw(kept)
  PROVE  QueueTypeOK'
<1>1. job \in Jobs /\ made[job] \in 0..MaxAttempts /\ MaxAttempts \in Nat
  BY InvoiceExportAssumption DEF QueueTypeOK
<1>2. jobs[job] = "active" /\ made[job] < MaxAttempts
  BY <1>1 DEF QueueTypeOK
<1>3. made[job] + 1 \in 0..MaxAttempts
  BY <1>1, <1>2
<1>4. made' \in [Jobs -> 0..MaxAttempts] /\ jobs' \in [Jobs -> JobStates]
  BY <1>3 DEF QueueTypeOK, Throw, JobStates
<1>5. \A j \in Jobs : jobs'[j] = "active" <=> j = job'
  BY <1>1, InvoiceExportAssumption DEF QueueTypeOK, Throw, Leave
<1>6. ASSUME NEW j \in Jobs, jobs'[j] # "done" PROVE made'[j] < MaxAttempts
  <2>1. CASE j = job
    BY <2>1, <1>1, <1>6 DEF QueueTypeOK, Throw, LastAttempt
  <2>2. CASE j # job
    BY <2>2, <1>6 DEF QueueTypeOK, Throw
  <2> QED BY <2>1, <2>2
<1> QED
  BY <1>4, <1>5, <1>6, KeyOne DEF QueueTypeOK, Throw, Leave

\* So does the death of the worker.
LEMMA CrashTyped ==
  ASSUME QueueTypeOK, Crash
  PROVE  QueueTypeOK'
<1>1. job \in Jobs
  BY DEF QueueTypeOK, Crash
<1>2. jobs' \in [Jobs -> JobStates]
  BY <1>1 DEF QueueTypeOK, Crash, JobStates
<1>3. \A j \in Jobs : jobs'[j] = "active" <=> j = job'
  BY <1>1, InvoiceExportAssumption DEF QueueTypeOK, Crash, Leave
<1>4. \A j \in Jobs : jobs'[j] # "done" => made'[j] < MaxAttempts
  BY <1>1 DEF QueueTypeOK, Crash
<1> QED
  BY <1>1, <1>2, <1>3, <1>4, KeyOne DEF QueueTypeOK, Crash, Leave

LEMMA WriteTyped ==
  ASSUME RecordsTypeOK, NEW o, NEW s \in RowStates, Write(o, s)
  PROVE  RecordsTypeOK'
  BY DEF RecordsTypeOK, Write

LEMMA FaultTyped ==
  ASSUME faults \in 0..MaxFaults, Fault
  PROVE  faults' \in 0..MaxFaults
  BY InvoiceExportAssumption DEF Fault

\* Carrying out a request keeps the books in order.
LEMMA CarryOutTyped ==
  ASSUME BooksTypeOK, NEW o \in Organisations, NEW k \in Keys, CarryOut(o, k)
  PROVE  BooksTypeOK'
<1>1. underway' \in [Organisations -> SUBSET Keys]
  BY DEF BooksTypeOK, CarryOut
<1>2. CASE memory[o][k] # 0
  BY <1>1, <1>2 DEF BooksTypeOK, CarryOut
<1>3. CASE memory[o][k] = 0
  <2> DEFINE new == raised[o] + 1
  <2>1. new \in Nat
    BY DEF BooksTypeOK
  <2>2. /\ raised' = [raised EXCEPT ![o] = new]
        /\ live' = [live EXCEPT ![o] = @ \cup {new}]
        /\ memory' = [memory EXCEPT ![o][k] = new]
    BY <1>3 DEF CarryOut
  <2>3. raised' \in [Organisations -> Nat] /\ live' \in [Organisations -> SUBSET Nat]
    BY <2>1, <2>2 DEF BooksTypeOK
  <2>4. memory' \in [Organisations -> [Keys -> Nat]]
    BY <2>1, <2>2 DEF BooksTypeOK
  <2>5. ASSUME NEW p \in Organisations PROVE live'[p] \subseteq 1..raised'[p]
    <3>1. CASE p = o
      <4>1. live[o] \subseteq 1..raised[o] /\ raised[o] \in Nat
        BY DEF BooksTypeOK
      <4>2. live'[o] = live[o] \cup {new} /\ raised'[o] = new
        BY <2>2 DEF BooksTypeOK
      <4> QED BY <3>1, <4>1, <4>2
    <3>2. CASE p # o
      BY <3>2, <2>2 DEF BooksTypeOK
    <3> QED BY <3>1, <3>2
  <2> QED BY <1>1, <2>3, <2>4, <2>5 DEF BooksTypeOK
<1> QED BY <1>2, <1>3

LEMMA TypeInit == Init => TypeOK
<1> SUFFICES ASSUME Init PROVE TypeOK
  OBVIOUS
<1>1. QueueTypeOK
  BY KeyOne, NoneIsNoOne, InvoiceExportAssumption DEF Init, QueueTypeOK, JobStates
<1>2. BooksTypeOK
  BY KeyOne DEF Init, BooksTypeOK
<1>3. RecordsTypeOK /\ UsersTypeOK
  BY KeyOne DEF Init, RecordsTypeOK, UsersTypeOK, RowStates
<1>4. faults \in 0..MaxFaults
  BY InvoiceExportAssumption DEF Init
<1> QED BY <1>1, <1>2, <1>3, <1>4, TypeParts

\* The steps of an attempt leave the parts in order.
LEMMA AttemptTyped ==
  ASSUME QueueTypeOK, RecordsTypeOK, UsersTypeOK, AttemptStep
  PROVE  QueueTypeOK' /\ RecordsTypeOK'
<1>1. step # "idle"
  BY DEF AttemptStep, Adopt, Create, Answer, Record, Refuse, FailTransiently, Defer, NoAnswer
<1>2. job # None /\ org \in Organisations
  BY <1>1, InHand DEF QueueTypeOK
<1>3. UNCHANGED records => RecordsTypeOK'
  BY DEF records, RecordsTypeOK
<1>4. CASE Adopt
  BY <1>3, <1>4 DEF Adopt, QueueTypeOK, queue
<1>5. CASE Create
  <2>1. sent' \in Keys
    BY <1>5, <1>2 DEF Create, UsersTypeOK
  <2> QED BY <2>1, <1>3, <1>5 DEF Create, QueueTypeOK, queue
<1>6. CASE Answer
  BY <1>3, <1>6 DEF Answer, QueueTypeOK, queue
<1>7. CASE Record
  BY <1>2, <1>7, ReturnTyped, WriteTyped DEF Record, RowStates
<1>8. CASE Refuse
  BY <1>2, <1>8, ReturnTyped, WriteTyped DEF Refuse, RowStates
<1>9. CASE FailTransiently
  BY <1>2, <1>9, ThrowTyped, WriteTyped DEF FailTransiently, RowStates
<1>10. CASE Defer
  BY <1>2, <1>10, ThrowTyped, WriteTyped DEF Defer, RowStates
<1>11. CASE NoAnswer
  BY <1>2, <1>11, ThrowTyped, ReturnTyped, WriteTyped DEF NoAnswer, RowStates
<1> QED
  BY <1>4, <1>5, <1>6, <1>7, <1>8, <1>9, <1>10, <1>11 DEF AttemptStep

\* Only three steps of an attempt and of the accounting system touch the books.
LEMMA BooksTyped ==
  ASSUME QueueTypeOK, BooksTypeOK, UsersTypeOK, Step
  PROVE  BooksTypeOK'
<1>1. UNCHANGED books => BooksTypeOK'
  BY DEF books, BooksTypeOK
<1>2. CASE Create
  <2>1. org \in Organisations
    BY <1>2, InHand DEF Create
  <2>2. underway' \in [Organisations -> SUBSET Keys]
    BY <1>2, <2>1 DEF Create, BooksTypeOK, UsersTypeOK
  <2> QED BY <1>2, <2>2 DEF Create, BooksTypeOK
<1>3. ASSUME NEW o \in Organisations, NEW k \in Keys, CarryOut(o, k) PROVE BooksTypeOK'
  BY <1>3, CarryOutTyped
<1>4. ASSUME NEW o \in Organisations, NEW k \in Keys, Lose(o, k) PROVE BooksTypeOK'
  BY <1>4 DEF Lose, BooksTypeOK
<1>5. ASSUME NEW o \in Organisations, ForgetKeys(o) PROVE BooksTypeOK'
  BY <1>5 DEF ForgetKeys, BooksTypeOK
<1>6. ASSUME NEW o \in Organisations, Void(o) PROVE BooksTypeOK'
  BY <1>6 DEF Void, BooksTypeOK
<1> QED
  BY <1>1, <1>2, <1>3, <1>4, <1>5, <1>6
  DEF Step, Next, vars, AttemptStep, ProviderStep, Skip, Claim, RetryExport, Adopt, Answer,
      Record, Refuse, FailTransiently, Defer, NoAnswer, RecordFails, MarkFailedFails, Crash,
      Age, EditMapping, LoseRow, CancelOrder, Connect

LEMMA UsersTyped ==
  ASSUME UsersTypeOK, Step
  PROVE  UsersTypeOK'
<1>1. UNCHANGED users => UsersTypeOK'
  BY DEF users, UsersTypeOK
<1>2. ASSUME NEW o \in Organisations, EditMapping(o) \/ LoseRow(o) PROVE UsersTypeOK'
  <2>1. key[o] + 1 \in Keys
    BY <1>2, InvoiceExportAssumption DEF EditMapping, LoseRow, MayEdit, UsersTypeOK, Keys
  <2> QED BY <1>2, <2>1 DEF EditMapping, LoseRow, UsersTypeOK
<1>3. CancelOrder \/ Connect => UsersTypeOK'
  BY DEF CancelOrder, Connect, UsersTypeOK
<1> QED
  BY <1>1, <1>2, <1>3
  DEF Step, Next, vars, AttemptStep, ProviderStep, Skip, Claim, RetryExport, Adopt, Create,
      Answer, Record, Refuse, FailTransiently, Defer, NoAnswer, RecordFails, MarkFailedFails,
      Crash, Age, ForgetKeys, Void, CarryOut, Lose

LEMMA FaultsTyped ==
  ASSUME faults \in 0..MaxFaults, Step
  PROVE  faults' \in 0..MaxFaults
<1>1. RecordFails \/ MarkFailedFails \/ Crash => Fault
  BY DEF RecordFails, MarkFailedFails, Crash
<1> QED
  BY <1>1, FaultTyped
  DEF Step, Next, vars, AttemptStep, ProviderStep, Skip, Claim, RetryExport, Adopt, Create,
      Answer, Record, Refuse, FailTransiently, Defer, NoAnswer, Age, ForgetKeys, Void,
      CarryOut, Lose, EditMapping, LoseRow, CancelOrder, Connect

\* Claims and the queue: everything that is not a step of an attempt.
LEMMA ClaimTyped ==
  ASSUME QueueTypeOK, RecordsTypeOK, UsersTypeOK, NEW j \in Jobs, Claim(j)
  PROVE  QueueTypeOK' /\ RecordsTypeOK'
<1>1. connected \in Organisations /\ job = None /\ made[j] < MaxAttempts
  BY DEF Claim, Ready, ToExport, QueueTypeOK, UsersTypeOK
<1>2. RecordsTypeOK'
  BY <1>1, WriteTyped DEF Claim, RowStates
<1>3. jobs' \in [Jobs -> JobStates]
  BY DEF Claim, QueueTypeOK, JobStates
<1>4. \A i \in Jobs : jobs'[i] = "active" <=> i = job'
  BY <1>1, NoneIsNoOne DEF Claim, QueueTypeOK
<1>5. \A i \in Jobs : jobs'[i] # "done" => made'[i] < MaxAttempts
  BY <1>1 DEF Claim, QueueTypeOK
<1> QED
  BY <1>1, <1>2, <1>3, <1>4, <1>5, NoneIsNoOne DEF Claim, QueueTypeOK

LEMMA QueueTyped ==
  ASSUME QueueTypeOK, RecordsTypeOK, UsersTypeOK, Step
  PROVE  QueueTypeOK' /\ RecordsTypeOK'
<1>1. /\ UNCHANGED <<queue, attempt>> => QueueTypeOK'
      /\ UNCHANGED records => RecordsTypeOK'
  BY DEF queue, attempt, records, QueueTypeOK, RecordsTypeOK
<1>2. ASSUME NEW j \in Jobs, Skip(j) PROVE QueueTypeOK' /\ RecordsTypeOK'
  BY <1>1, <1>2 DEF Skip, Ready, attempt, QueueTypeOK, JobStates
<1>3. ASSUME NEW j \in Jobs, Claim(j) PROVE QueueTypeOK' /\ RecordsTypeOK'
  BY <1>3, ClaimTyped
<1>4. ASSUME NEW j \in Jobs, RetryExport(j) PROVE QueueTypeOK' /\ RecordsTypeOK'
  BY <1>1, <1>4 DEF RetryExport, attempt, QueueTypeOK, JobStates
<1>5. CASE AttemptStep
  BY <1>5, AttemptTyped
<1>6. CASE RecordFails
  <2>1. job # None /\ org \in Organisations
    BY <1>6, InHand DEF RecordFails, QueueTypeOK
  <2> QED BY <1>1, <1>6, <2>1, ThrowTyped, WriteTyped DEF RecordFails, RowStates
<1>7. CASE MarkFailedFails
  <2>1. job # None /\ org \in Organisations
    BY <1>7, InHand DEF MarkFailedFails, QueueTypeOK
  <2> QED BY <1>1, <1>7, <2>1, ThrowTyped, WriteTyped DEF MarkFailedFails, RowStates
<1>8. CASE Crash
  BY <1>1, <1>8, CrashTyped DEF Crash
<1>9. ASSUME NEW o \in Organisations, Age(o) PROVE QueueTypeOK' /\ RecordsTypeOK'
  BY <1>1, <1>9 DEF Age, queue, attempt, RecordsTypeOK
<1>10. ASSUME NEW o \in Organisations, LoseRow(o) PROVE QueueTypeOK' /\ RecordsTypeOK'
  BY <1>1, <1>10, WriteTyped DEF LoseRow, RowStates
<1> QED
  BY <1>1, <1>2, <1>3, <1>4, <1>5, <1>6, <1>7, <1>8, <1>9, <1>10
  DEF Step, Next, vars, ProviderStep, EditMapping, CancelOrder, Connect, ForgetKeys, Void,
      CarryOut, Lose

LEMMA TypeStep == TypeOK /\ Step => TypeOK'
<1> SUFFICES ASSUME TypeOK, Step PROVE TypeOK'
  OBVIOUS
<1>1. QueueTypeOK /\ BooksTypeOK /\ RecordsTypeOK /\ UsersTypeOK /\ faults \in 0..MaxFaults
  BY TypeParts
<1>2. QueueTypeOK' /\ RecordsTypeOK'
  BY <1>1, QueueTyped
<1>3. BooksTypeOK' /\ UsersTypeOK' /\ (faults \in 0..MaxFaults)'
  BY <1>1, BooksTyped, UsersTyped, FaultsTyped
<1> QED
  BY <1>2, <1>3 DEF TypeOK, QueueTypeOK, BooksTypeOK, RecordsTypeOK, UsersTypeOK

\* Jobs, rows and books keep their types, and a job is kept only while it has
\* attempts left (isLastAttempt).
THEOREM ExportTypeCorrect == Spec => []TypeOK
<1>1. TypeOK /\ [Next]_vars => TypeOK'
  BY TypeStep DEF Step
<1> QED BY TypeInit, <1>1, PTL DEF Spec

-----------------------------------------------------------------------------
(* One live invoice.  Two requests are never under way with different      *)
(* keys, and while one is, the only live invoice there can be is the one   *)
(* remembered under its key: whatever the accounting system has raised     *)
(* since the lookup found nothing.                                         *)

Underway(o) == underway[o] # {} \/ (step = "sent" /\ org = o)

Remembered(o) ==
  /\ underway[o] \subseteq {key[o]}
  /\ step = "sent" /\ org = o => sent = key[o]
  /\ Underway(o) => live[o] \subseteq {memory[o][key[o]]}

OneInvoiceInv == \A o \in Organisations : Remembered(o)

LEMMA OneInvoiceInit == Init => OneInvoiceInv /\ OneLiveInvoice
  BY DEF Init, OneInvoiceInv, Remembered, Underway, OneLiveInvoice

\* Only the books, the keys and the attempt matter.
LEMMA OneInvoiceUnchanged ==
  ASSUME OneInvoiceInv, OneLiveInvoice, UNCHANGED <<books, key>>,
         step' # "sent" \/ UNCHANGED <<step, org, sent>>
  PROVE  OneInvoiceInv' /\ OneLiveInvoice'
  BY DEF OneInvoiceInv, OneLiveInvoice, Remembered, Underway, books

LEMMA OneInvoiceStep ==
  ASSUME EditsWait, TypeOK, OneInvoiceInv, OneLiveInvoice, Step
  PROVE  OneInvoiceInv' /\ OneLiveInvoice'
<1> USE DEF OneInvoiceInv, OneLiveInvoice
<1>1. CASE Create
  <2>1. org \in Organisations /\ key[org] \in Keys
    BY <1>1 DEF Create, TypeOK
  <2>2. live[org] = {} /\ sent' = key[org] /\ org' = org /\ UNCHANGED <<live, memory, key>>
    BY <1>1 DEF Create, users
  <2>3. underway' = [underway EXCEPT ![org] = underway[org] \cup {key[org]}]
    BY <1>1 DEF Create
  <2>4. ASSUME NEW o \in Organisations PROVE Remembered(o)'
    <3>1. CASE o = org
      BY <2>1, <2>2, <2>3, <3>1 DEF Remembered, Underway, TypeOK
    <3>2. CASE o # org
      BY <2>1, <2>2, <2>3, <3>2, <1>1 DEF Remembered, Underway, TypeOK, Create
    <3> QED BY <3>1, <3>2
  <2> QED BY <2>2, <2>4
<1>2. ASSUME NEW o \in Organisations, NEW k \in Keys, CarryOut(o, k)
      PROVE  OneInvoiceInv' /\ OneLiveInvoice'
  <2>1. k = key[o] /\ Underway(o) /\ live[o] \subseteq {memory[o][k]}
    BY <1>2 DEF CarryOut, Remembered, Underway
  <2>2. UNCHANGED <<key, step, org, sent>> /\ underway' = [underway EXCEPT ![o] = underway[o] \ {k}]
    BY <1>2 DEF CarryOut, users, attempt
  <2>3. CASE memory[o][k] # 0
    <3>1. UNCHANGED <<live, memory>>
      BY <1>2, <2>3 DEF CarryOut
    <3> QED BY <2>1, <2>2, <3>1 DEF Remembered, Underway, TypeOK
  <2>4. CASE memory[o][k] = 0
    <3> DEFINE new == raised[o] + 1
    <3>1. /\ live' = [live EXCEPT ![o] = live[o] \cup {new}]
          /\ memory' = [memory EXCEPT ![o][k] = new]
      BY <1>2, <2>4 DEF CarryOut
    <3>2. live[o] = {}
      BY <2>1, <2>4 DEF TypeOK
    <3>3. live'[o] = {new} /\ memory'[o][k] = new
      BY <3>1, <3>2 DEF TypeOK
    <3>4. \A p \in Organisations : p # o =>
            live'[p] = live[p] /\ memory'[p] = memory[p] /\ underway'[p] = underway[p]
      BY <3>1, <2>2 DEF TypeOK
    <3>5. underway'[o] = underway[o] \ {k}
      BY <2>2 DEF TypeOK
    <3>6. ASSUME NEW p \in Organisations PROVE Remembered(p)'
      <4>1. CASE p = o
        BY <4>1, <2>1, <2>2, <3>3, <3>5 DEF Remembered, Underway
      <4>2. CASE p # o
        BY <4>2, <2>2, <3>4 DEF Remembered, Underway
      <4> QED BY <4>1, <4>2
    <3> QED BY <3>3, <3>4, <3>6
  <2> QED BY <2>3, <2>4
<1>3. ASSUME NEW o \in Organisations, NEW k \in Keys, Lose(o, k)
      PROVE  OneInvoiceInv' /\ OneLiveInvoice'
  BY <1>3 DEF Lose, Remembered, Underway, TypeOK, users, attempt
<1>4. ASSUME NEW o \in Organisations, ForgetKeys(o) PROVE OneInvoiceInv' /\ OneLiveInvoice'
  BY <1>4 DEF ForgetKeys, Remembered, Underway, TypeOK, users, attempt
<1>5. ASSUME NEW o \in Organisations, Void(o) PROVE OneInvoiceInv' /\ OneLiveInvoice'
  BY <1>5 DEF Void, Remembered, Underway, TypeOK, users, attempt
<1>6. ASSUME NEW o \in Organisations, EditMapping(o) \/ LoseRow(o)
      PROVE  OneInvoiceInv' /\ OneLiveInvoice'
  <2>1. ~Underway(o)
    BY <1>6 DEF EditMapping, LoseRow, MayEdit, Underway
  <2>2. key' = [key EXCEPT ![o] = key[o] + 1] /\ UNCHANGED <<books, attempt>>
    BY <1>6 DEF EditMapping, LoseRow
  <2> QED BY <2>1, <2>2 DEF books, attempt, Remembered, Underway, TypeOK
<1>7. CASE UNCHANGED <<books, key>> /\ (step' # "sent" \/ UNCHANGED <<step, org, sent>>)
  BY <1>7, OneInvoiceUnchanged
<1>8. CASE Step /\ ~Create /\ \A o \in Organisations :
             /\ \A k \in Keys : ~CarryOut(o, k) /\ ~Lose(o, k)
             /\ ~ForgetKeys(o) /\ ~Void(o) /\ ~EditMapping(o) /\ ~LoseRow(o)
  <2>1. UNCHANGED <<books, key>> /\ (step' # "sent" \/ UNCHANGED <<step, org, sent>>)
    BY <1>8 DEF Step, Next, vars, AttemptStep, ProviderStep, Skip, Claim, RetryExport, Adopt,
                Answer, Record, Refuse, FailTransiently, Defer, NoAnswer, RecordFails,
                MarkFailedFails, Crash, Age, CancelOrder, Connect, Return, Throw, Leave,
                users, attempt
  <2> QED BY <2>1, <1>7
<1> QED BY <1>1, <1>2, <1>3, <1>4, <1>5, <1>6, <1>8

\* The accounting system never holds two live invoices for the order, as long
\* as the request stays as it is while one may still be under way (runExport,
\* ADR-073).
THEOREM NeverInvoicedTwice == EditsWait => (Spec => []OneLiveInvoice)
<1> SUFFICES ASSUME EditsWait PROVE Spec => []OneLiveInvoice
  OBVIOUS
<1> DEFINE Inv == TypeOK /\ OneInvoiceInv /\ OneLiveInvoice
<1>1. Init => Inv
  BY TypeInit, OneInvoiceInit
<1>2. Inv /\ [Next]_vars => Inv'
  BY TypeStep, OneInvoiceStep DEF Step
<1>3. Inv => OneLiveInvoice
  OBVIOUS
<1> QED BY <1>1, <1>2, <1>3, PTL DEF Spec

-----------------------------------------------------------------------------
(* One completed export, and how attempts end.                             *)

\* While an attempt is at work no export of the order is completed.
AttemptIsFirst == step # "idle" => ~Exported

OneExportInv == OneExportCompleted /\ AttemptIsFirst

LEMMA OneExportInit == Init => OneExportInv
  BY DEF Init, OneExportInv, OneExportCompleted, AttemptIsFirst

LEMMA OneExportStep ==
  ASSUME TypeOK, OneExportInv, Step
  PROVE  OneExportInv'
<1> USE DEF OneExportInv, OneExportCompleted, AttemptIsFirst, Exported
<1>1. step # "idle" => org \in Organisations
  BY DEF TypeOK
<1>2. rows \in [Organisations -> RowStates]
  BY DEF TypeOK
<1>3. UNCHANGED rows /\ (step' # "idle" => step # "idle") => OneExportInv'
  OBVIOUS
<1>4. ASSUME NEW j \in Jobs, Claim(j) PROVE OneExportInv'
  BY <1>2, <1>4 DEF Claim, ToExport, Write
<1>5. CASE Record
  BY <1>1, <1>2, <1>5 DEF Record, Write, Return, Leave
<1>6. ASSUME NEW s \in {"FAILED", "PENDING"}, Write(org, s), step # "idle", Leave
      PROVE  OneExportInv'
  BY <1>1, <1>2, <1>6 DEF Write, Leave
<1>7. CASE Refuse \/ FailTransiently \/ Defer \/ NoAnswer
  BY <1>6, <1>7 DEF Refuse, FailTransiently, Defer, NoAnswer, Return, Throw
<1>8. CASE RecordFails \/ MarkFailedFails
  BY <1>3, <1>6, <1>8 DEF RecordFails, MarkFailedFails, records, Throw, Leave
<1>9. ASSUME NEW o \in Organisations, LoseRow(o) PROVE OneExportInv'
  BY <1>2, <1>9 DEF LoseRow, Write, attempt
<1> QED
  BY <1>3, <1>4, <1>5, <1>7, <1>8, <1>9
  DEF Step, Next, vars, AttemptStep, ProviderStep, Skip, RetryExport, Adopt, Create, Answer,
      Crash, Leave, Age, ForgetKeys, Void, CarryOut, Lose, EditMapping, CancelOrder, Connect,
      records, attempt

\* At most one export of the order is ever completed, over all the
\* organisations the distributor connects (process, completedElsewhere).
THEOREM ExportedOnce == Spec => []OneExportCompleted
<1> DEFINE Inv == TypeOK /\ OneExportInv
<1>1. Init => Inv
  BY TypeInit, OneExportInit
<1>2. Inv /\ [Next]_vars => Inv'
  BY TypeStep, OneExportStep DEF Step
<1>3. Inv => OneExportCompleted
  BY DEF OneExportInv
<1> QED BY <1>1, <1>2, <1>3, PTL DEF Spec

EndsOpenly ==
  \A j \in Jobs : jobs[j] = "active" /\ jobs'[j] = "done" /\ faults' = faults
    => rows'[org] \in {"COMPLETED", "FAILED"}

LEMMA EndsOpenlyStep ==
  ASSUME TypeOK, Next
  PROVE  EndsOpenly
<1> SUFFICES ASSUME NEW j \in Jobs, jobs[j] = "active", jobs'[j] = "done", faults' = faults
             PROVE  rows'[org] \in {"COMPLETED", "FAILED"}
  BY DEF EndsOpenly
<1>1. j = job /\ org \in Organisations /\ faults \in Nat
  BY InvoiceExportAssumption, NoneIsNoOne DEF TypeOK
<1>2. rows \in [Organisations -> RowStates] /\ jobs \in [Jobs -> JobStates]
  BY DEF TypeOK
<1>3. ~Fault
  BY <1>1 DEF Fault
<1>4. CASE Refuse \/ FailTransiently \/ NoAnswer \/ Record
  BY <1>1, <1>2, <1>4 DEF Refuse, FailTransiently, NoAnswer, Record, Write
<1>5. ~Defer
  BY <1>1, <1>2 DEF Defer, Throw
<1>6. \A i \in Jobs : ~Skip(i) /\ ~Claim(i)
  BY <1>1, NoneIsNoOne DEF Skip, Claim, Ready
<1>7. \A i \in Jobs : ~RetryExport(i)
  BY <1>2 DEF RetryExport
<1> QED
  BY <1>3, <1>4, <1>5, <1>6, <1>7
  DEF Next, AttemptStep, ProviderStep, RecordFails, MarkFailedFails, Crash, Adopt, Create,
      Answer, Age, ForgetKeys, Void, CarryOut, Lose, EditMapping, LoseRow, CancelOrder,
      Connect, queue

\* An attempt that is its job's last leaves its row COMPLETED or FAILED, unless
\* something of ours failed (runExport, recordCompleted).
THEOREM NothingLeftSilently == Spec => AttemptsEndOpenly
<1>1. TypeOK /\ [Next]_vars => [EndsOpenly]_vars
  BY EndsOpenlyStep
<1> QED BY ExportTypeCorrect, <1>1, PTL DEF Spec, AttemptsEndOpenly, EndsOpenly

-----------------------------------------------------------------------------
(* The export does what it promises                                        *)

\* The organisations whose export is completed.
Done == {o \in Organisations : rows[o] = "COMPLETED"}

\* What is remembered, or was found, has been raised.
RaisedInv ==
  /\ \A o \in Organisations, k \in Keys : memory[o][k] # 0 => raised[o] > 0
  /\ step = "found" => raised[org] > 0

\* A request changes the books in three ways, or not at all.
LEMMA BooksSteps ==
  ASSUME Step
  PROVE  \/ \E o \in Organisations :
              (\E k \in Keys : CarryOut(o, k) \/ Lose(o, k)) \/ ForgetKeys(o) \/ Void(o)
         \/ Create
         \/ UNCHANGED books
  BY DEF Step, Next, vars, AttemptStep, ProviderStep, Skip, Claim, RetryExport, Adopt, Answer,
     Record, Refuse, FailTransiently, Defer, NoAnswer, RecordFails, MarkFailedFails, Crash, Age,
     CancelOrder, Connect, EditMapping, LoseRow

\* An answer or a lookup finds only what was raised before.
LEMMA RaisedStep ==
  ASSUME TypeOK, RaisedInv, Step
  PROVE  RaisedInv'
<1>1. /\ raised \in [Organisations -> Nat] /\ memory \in [Organisations -> [Keys -> Nat]]
      /\ live \in [Organisations -> SUBSET Nat]
      /\ \A o \in Organisations : live[o] \subseteq 1..raised[o]
      /\ step = "found" => org \in Organisations
  BY DEF TypeOK
<1>2. ASSUME NEW o \in Organisations, NEW k \in Keys, CarryOut(o, k)
      PROVE  RaisedInv'
  <2>1. UNCHANGED <<step, org>>
    BY <1>2 DEF CarryOut, attempt
  <2>2. CASE memory[o][k] # 0
    BY <1>2, <2>1, <2>2 DEF CarryOut, RaisedInv
  <2>3. CASE memory[o][k] = 0
    <3>1. /\ raised' = [raised EXCEPT ![o] = raised[o] + 1]
          /\ memory' = [memory EXCEPT ![o][k] = raised[o] + 1]
      BY <1>2, <2>3 DEF CarryOut
    <3>2. \A p \in Organisations : raised[p] > 0 => raised'[p] > 0
      BY <1>1, <3>1
    <3>3. \A p \in Organisations, l \in Keys :
            memory'[p][l] = memory[p][l] \/ (p = o /\ raised'[p] > 0)
      BY <1>1, <3>1
    <3>. QED
      BY <1>1, <2>1, <3>2, <3>3 DEF RaisedInv
  <2>. QED
    BY <2>2, <2>3
<1>3. ASSUME UNCHANGED <<raised, memory>> \/ \E o \in Organisations : ForgetKeys(o),
             step' = "found" => step = "found" /\ org' = org
      PROVE  RaisedInv'
  BY <1>1, <1>3 DEF ForgetKeys, RaisedInv
<1>4. CASE Adopt \/ Answer
  <2>1. /\ org \in Organisations /\ org' = org /\ UNCHANGED books
        /\ sent \in Keys
    BY <1>4 DEF Adopt, Answer, TypeOK
  <2>2. raised[org] > 0
    <3>1. CASE Adopt
      <4>1. PICK i \in live[org] : TRUE
        BY <3>1 DEF Adopt
      <4>. QED
        BY <1>1, <2>1, <4>1
    <3>2. CASE Answer
      BY <2>1, <3>2 DEF Answer, RaisedInv
    <3>. QED
      BY <1>4, <3>1, <3>2
  <2>. QED
    BY <2>1, <2>2 DEF RaisedInv, books
<1>. QED
  BY <1>2, <1>3, <1>4
  DEF Step, Next, vars, books, attempt, AttemptStep, ProviderStep, Skip, Claim, RetryExport,
      Create, Record, Refuse, FailTransiently, Defer, NoAnswer, RecordFails, MarkFailedFails,
      Crash, Age, CancelOrder, Connect, EditMapping, LoseRow, Lose, Void,
      ForgetKeys, Return, Throw, Leave

\* A row is completed by Record, for an organisation that has raised an invoice
\* and while none is completed; it is otherwise only lost.
LEMMA DoneSteps ==
  ASSUME TypeOK, OneExportInv, RaisedInv, Step
  PROVE  \/ \E o \in Organisations : Done = {} /\ raised[o] > 0 /\ Done' = {o} /\ UNCHANGED books
         \/ \E o \in Organisations : o \in Done /\ Done' = Done \ {o} /\ UNCHANGED books
         \/ Done' = Done
<1>1. /\ rows \in [Organisations -> RowStates]
      /\ step # "idle" => org \in Organisations
  BY DEF TypeOK
<1>2. step # "idle" => Done = {}
  BY DEF OneExportInv, AttemptIsFirst, Exported, Done
<1>3. CASE Record
  <2>1. Done = {} /\ raised[org] > 0 /\ org \in Organisations
    BY <1>1, <1>2, <1>3 DEF Record, RaisedInv
  <2>2. Done' = {org} /\ UNCHANGED books
    BY <1>1, <2>1, <1>3 DEF Record, Write, Done
  <2>. QED
    BY <2>1, <2>2
<1>4. ASSUME NEW o \in Organisations, LoseRow(o)
      PROVE  \/ Done' = Done
             \/ o \in Done /\ Done' = Done \ {o} /\ UNCHANGED books
  BY <1>1, <1>4 DEF LoseRow, Write, Done
<1>5. ASSUME NEW s \in {"FAILED", "PENDING"}, Write(org, s), step # "idle"
      PROVE  Done' = Done
  BY <1>1, <1>2, <1>5 DEF Write, Done
<1>6. ASSUME NEW j \in Jobs, Claim(j)
      PROVE  Done' = Done
  BY <1>1, <1>6 DEF Claim, ToExport, Exported, Write, Done
<1>7. UNCHANGED rows => Done' = Done
  BY DEF Done
<1>8. CASE Refuse \/ FailTransiently \/ Defer \/ NoAnswer
  BY <1>5, <1>8 DEF Refuse, FailTransiently, Defer, NoAnswer
<1>9. CASE RecordFails \/ MarkFailedFails
  BY <1>5, <1>7, <1>9 DEF RecordFails, MarkFailedFails, records
<1>. QED
  BY <1>3, <1>4, <1>6, <1>7, <1>8, <1>9
  DEF Step, Next, vars, records, AttemptStep, ProviderStep, Skip, RetryExport, Adopt, Create,
      Answer, Crash, Age, ForgetKeys, Void, CarryOut, Lose, EditMapping, CancelOrder, Connect

\* An invoice is raised only where none is live.
LEMMA RaisedWhereNoneIsLive ==
  ASSUME TypeOK, OneInvoiceInv, NEW o \in Organisations, NEW k \in Keys, CarryOut(o, k)
  PROVE  Invoicing!Raise(o) \/ UNCHANGED <<live, raised>>
<1>1. CASE memory[o][k] # 0
  BY <1>1 DEF CarryOut
<1>2. CASE memory[o][k] = 0
  <2>1. live[o] = {}
    <3>1. k = key[o] /\ live[o] \subseteq {memory[o][k]}
      BY DEF CarryOut, OneInvoiceInv, Remembered, Underway
    <3>. QED
      BY <1>2, <3>1 DEF TypeOK
  <2>2. UNCHANGED Done
    BY DEF CarryOut, records, Done
  <2>3. /\ raised' = [raised EXCEPT ![o] = raised[o] + 1]
        /\ live' = [live EXCEPT ![o] = live[o] \cup {raised[o] + 1}]
    BY <1>2 DEF CarryOut
  <2>4. live' = [live EXCEPT ![o] = {raised[o] + 1}]
    BY <2>1, <2>3
  <2>. QED
    BY <2>1, <2>2, <2>3, <2>4 DEF Invoicing!Raise, Done
<1>. QED
  BY <1>1, <1>2

\* Every step of the export is a step of what it promises, or leaves it alone.
LEMMA InvoicingStep ==
  ASSUME TypeOK, OneInvoiceInv, OneExportInv, RaisedInv, Step
  PROVE  [Invoicing!Next]_(Invoicing!promised)
<1>1. ASSUME UNCHANGED <<live, raised, Done>>
      PROVE  UNCHANGED Invoicing!promised
  BY <1>1 DEF Invoicing!promised, Done
<1>2. CASE UNCHANGED books
  <2>1. ASSUME NEW o \in Organisations, Done = {}, raised[o] > 0, Done' = {o}
        PROVE  Invoicing!Complete(o)
    BY <1>2, <2>1 DEF books, Invoicing!Complete, Done
  <2>2. ASSUME NEW o \in Organisations, o \in Done, Done' = Done \ {o}
        PROVE  Invoicing!Lose(o)
    BY <1>2, <2>2 DEF books, Invoicing!Lose, Done
  <2>. QED
    BY <1>1, <1>2, <2>1, <2>2, DoneSteps DEF books, Invoicing!Next
<1>3. ASSUME NEW o \in Organisations, NEW k \in Keys, CarryOut(o, k) \/ Lose(o, k)
      PROVE  [Invoicing!Next]_(Invoicing!promised)
  <2>1. UNCHANGED Done
    BY <1>3 DEF CarryOut, Lose, records, Done
  <2>. QED
    BY <1>1, <1>3, <2>1, RaisedWhereNoneIsLive DEF Lose, Invoicing!Next
<1>4. ASSUME NEW o \in Organisations, ForgetKeys(o) \/ Void(o)
      PROVE  [Invoicing!Next]_(Invoicing!promised)
  <2>1. UNCHANGED Done
    BY <1>4 DEF ForgetKeys, Void, records, Done
  <2>2. Void(o) => Invoicing!Void(o)
    BY <2>1 DEF Void, Invoicing!Void, Done
  <2>. QED
    BY <1>1, <1>4, <2>1, <2>2 DEF ForgetKeys, Invoicing!Next
<1>5. CASE Create
  BY <1>1, <1>5 DEF Create, records, Done
<1>. QED
  BY <1>2, <1>3, <1>4, <1>5, BooksSteps

\* The export implements its promise, as long as the request stays as it is
\* while one may still be under way.
THEOREM ExportKeepsPromise == EditsWait => (Spec => InvoicedAsPromised)
<1> SUFFICES ASSUME EditsWait PROVE Spec => InvoicedAsPromised
  OBVIOUS
<1> DEFINE Inv == TypeOK /\ OneInvoiceInv /\ OneLiveInvoice /\ OneExportInv /\ RaisedInv
<1>1. Init => Inv /\ Invoicing!Init
  <2>1. Init => RaisedInv
    BY DEF Init, RaisedInv
  <2>2. Init => Invoicing!Init
    BY DEF Init, Invoicing!Init
  <2>. QED
    BY <2>1, <2>2, TypeInit, OneInvoiceInit, OneExportInit
<1>2. Inv /\ [Next]_vars => Inv' /\ [Invoicing!Next]_(Invoicing!promised)
  BY TypeStep, OneInvoiceStep, OneExportStep, RaisedStep, InvoicingStep DEF Step
<1> QED BY <1>1, <1>2, PTL DEF Spec, InvoicedAsPromised, Invoicing!Safety

=============================================================================
