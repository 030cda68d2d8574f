------------------------ MODULE CommandLifecycleProofs ------------------------
(* Proofs that CommandLifecycle keeps its type and its safety invariants for *)
(* every set of commands, tenants and devices and every duplication bound.   *)
EXTENDS CommandLifecycle, TLAPS

-----------------------------------------------------------------------------
(* What the state always satisfies besides its type: an id is sent only     *)
(* after its request passed the insert step, and every copy in the broker,  *)
(* every report and every running handler goes back to a sent id heard on   *)
(* the device's own topic.                                                  *)

SentAreIssued ==
  \A c \in Cmds : c \in sent => pc[c] \in {"desire", "accepted", "failed"}

CopiesAreSent == \A c \in Cmds : dn[c] > 0 => c \in sent

SaidAreSent ==
  \A m \in said : m.id \in sent /\ req[m.id].tid = HomeTid[req[m.id].did]

ReportsAreSaid ==
  \A m \in Report :
    net[m] > 0 \/ updated[m] > 0 \/ stored[m] > 0 \/ m \in told => m \in said

\* Requests that have drawn a route have one.
IssuedHaveRoute == \A c \in Cmds : pc[c] # "idle" => req[c] \in Request

\* Only a request past its insert step, or one whose errors are fatal, differs.
PublishedRecorded ==
  \A c \in Cmds : pc[c] \in {"publish", "desire", "accepted"} /\ ~ IgnoresErrors(c)
                    => c \in recorded

RowsAreIssued ==
  \A c \in Cmds : status[c] # "absent" => pc[c] \notin {"idle", "insert"}

HandledAreWritten ==
  \A m \in Report :
    (updated[m] > 0 \/ stored[m] > 0 \/ m \in told) /\ status[m.id] = "pending"
      => m \in unwritten

IInv ==
  /\ TypeOK
  /\ SentAreIssued
  /\ CopiesAreSent
  /\ SaidAreSent
  /\ ReportsAreSaid
  /\ IssuedHaveRoute
  /\ PublishedRecorded
  /\ RowsAreIssued
  /\ HandledAreWritten
  /\ StatusIsVerdict
  /\ RecordedBeforeSent
-----------------------------------------------------------------------------
(* Type correctness.                                                        *)

\* Every setting bounds the duplicates.
LEMMA DupsBounded == setting \in Settings => setting.dups \in Nat
BY CommandAssumptions DEF Setting

LEMMA TypeInit == Init => TypeOK
<1> SUFFICES ASSUME Init PROVE TypeOK
  OBVIOUS
<1>1. setting.dups \in Nat
  BY DupsBounded DEF Init
<1>2. dups \in 0..setting.dups
  BY <1>1 DEF Init
<1> QED
  BY <1>2, CommandAssumptions DEF Init, TypeOK, Route, Steps, Status

\* Every issuing path is an instance of Resolve.
LEMMA IssueResolves ==
  ASSUME NEW c \in Cmds, Issue(c)
  PROVE  \E path \in Paths, kind \in Kinds, tid \in Tenants, did \in Devices :
           Resolve(c, path, kind, tid, did)
BY CommandAssumptions
   DEF Issue, GroupCommand, RunScene, IssueCommand, Command, SendCommand,
       AdminIssueOTA, ProvisionKey, Paths, Kinds

LEMMA TypeNext == TypeOK /\ [Next]_vars => TypeOK'
<1> SUFFICES ASSUME TypeOK, [Next]_vars PROVE TypeOK'
  OBVIOUS
<1> USE CommandAssumptions
    DEF TypeOK, requestVars, tableVars, brokerVars, handlerVars, historyVars
<1>1. ASSUME NEW d \in Devices, Register(d) \/ Claim(d) PROVE TypeOK'
  BY <1>1 DEF Register, Claim, Route
<1>2. ASSUME NEW d \in Devices, Reset(d) PROVE TypeOK'
  BY <1>2 DEF Reset, Status
<1>3. ASSUME NEW c \in Cmds, Issue(c) PROVE TypeOK'
  <2>1. PICK path \in Paths, kind \in Kinds, tid \in Tenants, did \in Devices :
          Resolve(c, path, kind, tid, did)
    BY <1>3, IssueResolves
  <2>2. [path |-> path, kind |-> kind, tid |-> tid, did |-> did] \in Request
    BY DEF Request
  <2> QED
    BY <2>1, <2>2 DEF Resolve, Steps
<1>4. ASSUME NEW c \in Cmds, Insert(c) PROVE TypeOK'
  BY <1>4 DEF Insert, InsertRow, Outcomes, Steps, Status
<1>5. ASSUME NEW c \in Cmds, PublishOK(c) \/ PublishError(c) PROVE TypeOK'
  BY <1>5 DEF PublishOK, PublishError, Steps
<1>6. ASSUME NEW c \in Cmds, SetDesired(c) PROVE TypeOK'
  BY <1>6 DEF SetDesired, Steps
<1>7. ASSUME NEW c \in Cmds, DuplicateDown(c) \/ LoseDown(c) PROVE TypeOK'
  <2>1. dups' \in 0..setting.dups
    BY <1>7, DupsBounded DEF DuplicateDown, LoseDown
  <2> QED
    BY <1>7, <2>1 DEF DuplicateDown, LoseDown
<1>8. ASSUME NEW c \in Cmds, NEW what \in Answers,
             DeviceAcks(c, what) \/ DeviceEndsOTA(c, what)
      PROVE TypeOK'
  <2>1. [id |-> c, what |-> what] \in Report
    BY DEF Report
  <2> QED
    BY <1>8, <2>1 DEF DeviceAcks, DeviceEndsOTA, Answer, Heard
<1>9. ASSUME NEW m \in Report, DuplicateUp(m) \/ LoseUp(m) PROVE TypeOK'
  <2>1. dups' \in 0..setting.dups
    BY <1>9, DupsBounded DEF DuplicateUp, LoseUp
  <2> QED
    BY <1>9, <2>1 DEF DuplicateUp, LoseUp
<1>10. ASSUME NEW m \in Report, handleAck(m) \/ handleOTA(m) PROVE TypeOK'
  <2>1. m.id \in Cmds
    BY DEF Report
  <2>2. status' \in [Cmds -> Status]
    BY <1>10, <2>1 DEF handleAck, handleOTA, UpdateStatus, UpdateFails, SetStatus, Status
  <2> QED
    BY <1>10, <2>2 DEF handleAck, handleOTA, UpdateStatus, UpdateFails, TakeReport
<1>11. ASSUME NEW m \in Report, storeEvent(m) \/ publishWS(m) PROVE TypeOK'
  BY <1>11 DEF storeEvent, publishWS
<1>12. CASE UNCHANGED vars
  BY <1>12 DEF vars
<1> QED
  BY <1>1, <1>2, <1>3, <1>4, <1>5, <1>6, <1>7, <1>8, <1>9, <1>10, <1>11, <1>12
     DEF Next, Continue, Handle

\* Every variable keeps its type; in particular commands.status respects the
\* CHECK constraint of the table.
THEOREM TypeCorrect == Spec => []TypeOK
BY TypeInit, TypeNext, PTL DEF Spec

-----------------------------------------------------------------------------
(* The inductive invariant.                                                 *)

LEMMA ReportId == \A m \in Report : m.id \in Cmds
BY DEF Report

LEMMA IInvInit == Init => IInv
<1> SUFFICES ASSUME Init PROVE IInv
  OBVIOUS
<1>1. TypeOK
  BY TypeInit
<1>2. /\ SentAreIssued /\ CopiesAreSent /\ SaidAreSent /\ IssuedHaveRoute
      /\ PublishedRecorded /\ RowsAreIssued /\ StatusIsVerdict /\ RecordedBeforeSent
  BY DEF Init, SentAreIssued, CopiesAreSent, SaidAreSent, IssuedHaveRoute,
         PublishedRecorded, RowsAreIssued, StatusIsVerdict, RecordedBeforeSent
<1>3. ReportsAreSaid /\ HandledAreWritten
  <2>1. \A m \in Report : /\ net[m] = 0 /\ updated[m] = 0 /\ stored[m] = 0
                           /\ m \notin told
    BY DEF Init
  <2> QED
    BY <2>1 DEF ReportsAreSaid, HandledAreWritten
<1> QED
  BY <1>1, <1>2, <1>3 DEF IInv

LEMMA IInvNext == IInv /\ [Next]_vars => IInv'
<1> SUFFICES ASSUME IInv, [Next]_vars PROVE IInv'
  OBVIOUS
<1> USE CommandAssumptions
    DEF IInv, TypeOK, requestVars, tableVars, brokerVars, handlerVars, historyVars
<1>0. TypeOK'
  BY TypeNext
<1>1. ASSUME NEW d \in Devices, Register(d) \/ Claim(d) PROVE IInv'
  <2> USE <1>1 DEF Register, Claim
  <2>1. SentAreIssued'
    BY DEF SentAreIssued
  <2>2. CopiesAreSent'
    BY DEF CopiesAreSent
  <2>3. SaidAreSent'
    BY DEF SaidAreSent
  <2>4. ReportsAreSaid'
    BY DEF ReportsAreSaid
  <2>5. IssuedHaveRoute'
    BY DEF IssuedHaveRoute
  <2>6. PublishedRecorded'
    BY DEF PublishedRecorded, IgnoresErrors
  <2>7. RowsAreIssued'
    BY DEF RowsAreIssued
  <2>8. HandledAreWritten'
    BY DEF HandledAreWritten
  <2>9. StatusIsVerdict'
    BY DEF StatusIsVerdict, Verdicts
  <2>10. RecordedBeforeSent'
    BY DEF RecordedBeforeSent, IgnoresErrors
  <2> QED
    BY <1>0, <2>1, <2>2, <2>3, <2>4, <2>5, <2>6, <2>7, <2>8, <2>9, <2>10
<1>2. ASSUME NEW d \in Devices, Reset(d) PROVE IInv'
  <2> USE <1>2 DEF Reset
  <2>1. SentAreIssued'
    BY DEF SentAreIssued
  <2>2. CopiesAreSent'
    BY DEF CopiesAreSent
  <2>3. SaidAreSent'
    BY DEF SaidAreSent
  <2>4. ReportsAreSaid'
    BY DEF ReportsAreSaid
  <2>5. IssuedHaveRoute'
    BY DEF IssuedHaveRoute
  <2>6. PublishedRecorded'
    BY DEF PublishedRecorded, IgnoresErrors
  <2>7. RowsAreIssued'
    BY DEF RowsAreIssued
  <2>8. HandledAreWritten'
    BY ReportId DEF HandledAreWritten
  <2>9. StatusIsVerdict'
    BY DEF StatusIsVerdict, Verdicts
  <2>10. RecordedBeforeSent'
    BY DEF RecordedBeforeSent, IgnoresErrors
  <2> QED
    BY <1>0, <2>1, <2>2, <2>3, <2>4, <2>5, <2>6, <2>7, <2>8, <2>9, <2>10
<1>3. ASSUME NEW c \in Cmds, Issue(c) PROVE IInv'
  <2> USE <1>3 DEF Resolve
  <2>0. PICK path \in Paths, kind \in Kinds, tid \in Tenants, did \in Devices :
          Resolve(c, path, kind, tid, did)
    BY IssueResolves
  <2>a. [path |-> path, kind |-> kind, tid |-> tid, did |-> did] \in Request
    BY DEF Request
  <2>1. SentAreIssued'
    BY <2>0, <2>a DEF SentAreIssued
  <2>2. CopiesAreSent'
    BY <2>0, <2>a DEF CopiesAreSent
  <2>3. SaidAreSent'
    BY <2>0, ReportId DEF SaidAreSent, SentAreIssued
  <2>4. ReportsAreSaid'
    BY <2>0, <2>a DEF ReportsAreSaid
  <2>5. IssuedHaveRoute'
    BY <2>0, <2>a DEF IssuedHaveRoute
  <2>6. PublishedRecorded'
    BY <2>0, <2>a DEF PublishedRecorded, IgnoresErrors
  <2>7. RowsAreIssued'
    BY <2>0, <2>a DEF RowsAreIssued
  <2>8. HandledAreWritten'
    BY <2>0, <2>a DEF HandledAreWritten
  <2>9. StatusIsVerdict'
    BY <2>0, <2>a DEF StatusIsVerdict, Verdicts
  <2>10. RecordedBeforeSent'
    BY <2>0 DEF RecordedBeforeSent, SentAreIssued, IgnoresErrors
  <2> QED
    BY <1>0, <2>1, <2>2, <2>3, <2>4, <2>5, <2>6, <2>7, <2>8, <2>9, <2>10
<1>4. ASSUME NEW c \in Cmds, Insert(c) PROVE IInv'
  <2> USE <1>4 DEF Insert, InsertRow, Outcomes, Status
  <2>1. SentAreIssued'
    BY DEF SentAreIssued
  <2>2. CopiesAreSent'
    BY DEF CopiesAreSent
  <2>3. SaidAreSent'
    BY DEF SaidAreSent
  <2>4. ReportsAreSaid'
    BY DEF ReportsAreSaid
  <2>5. IssuedHaveRoute'
    BY DEF IssuedHaveRoute
  <2>6. PublishedRecorded'
    BY DEF PublishedRecorded, IgnoresErrors
  <2>7. RowsAreIssued'
    BY DEF RowsAreIssued
  <2>8. HandledAreWritten'
    BY ReportId DEF HandledAreWritten, ReportsAreSaid, SaidAreSent, SentAreIssued
  <2>9. StatusIsVerdict'
    <3>1. \A x \in Cmds : status'[x] = status[x] \/ status'[x] = "pending"
      OBVIOUS
    <3>2. \A x \in Cmds : Verdicts(x)' = Verdicts(x)
      BY DEF Verdicts
    <3> QED
      BY <3>1, <3>2 DEF StatusIsVerdict
  <2>10. RecordedBeforeSent'
    BY DEF RecordedBeforeSent, IgnoresErrors
  <2> QED
    BY <1>0, <2>1, <2>2, <2>3, <2>4, <2>5, <2>6, <2>7, <2>8, <2>9, <2>10
<1>5. ASSUME NEW c \in Cmds, PublishOK(c) \/ PublishError(c) PROVE IInv'
  <2> USE <1>5 DEF PublishOK, PublishError
  <2>1. SentAreIssued'
    BY DEF SentAreIssued, WritesDesired, Steps
  <2>2. CopiesAreSent'
    BY DEF CopiesAreSent
  <2>3. SaidAreSent'
    BY DEF SaidAreSent
  <2>4. ReportsAreSaid'
    BY DEF ReportsAreSaid
  <2>5. IssuedHaveRoute'
    BY DEF IssuedHaveRoute
  <2>6. PublishedRecorded'
    BY DEF PublishedRecorded, IgnoresErrors
  <2>7. RowsAreIssued'
    BY DEF RowsAreIssued
  <2>8. HandledAreWritten'
    BY DEF HandledAreWritten
  <2>9. StatusIsVerdict'
    BY DEF StatusIsVerdict, Verdicts
  <2>10. RecordedBeforeSent'
    BY DEF RecordedBeforeSent, PublishedRecorded, IgnoresErrors
  <2> QED
    BY <1>0, <2>1, <2>2, <2>3, <2>4, <2>5, <2>6, <2>7, <2>8, <2>9, <2>10
<1>6. ASSUME NEW c \in Cmds, SetDesired(c) PROVE IInv'
  <2> USE <1>6 DEF SetDesired
  <2>1. SentAreIssued'
    BY DEF SentAreIssued
  <2>2. CopiesAreSent'
    BY DEF CopiesAreSent
  <2>3. SaidAreSent'
    BY DEF SaidAreSent
  <2>4. ReportsAreSaid'
    BY DEF ReportsAreSaid
  <2>5. IssuedHaveRoute'
    BY DEF IssuedHaveRoute
  <2>6. PublishedRecorded'
    BY DEF PublishedRecorded, IgnoresErrors
  <2>7. RowsAreIssued'
    BY DEF RowsAreIssued
  <2>8. HandledAreWritten'
    BY DEF HandledAreWritten
  <2>9. StatusIsVerdict'
    BY DEF StatusIsVerdict, Verdicts
  <2>10. RecordedBeforeSent'
    BY DEF RecordedBeforeSent, IgnoresErrors
  <2> QED
    BY <1>0, <2>1, <2>2, <2>3, <2>4, <2>5, <2>6, <2>7, <2>8, <2>9, <2>10
<1>7. ASSUME NEW c \in Cmds, DuplicateDown(c) \/ LoseDown(c) PROVE IInv'
  <2> USE <1>7 DEF DuplicateDown, LoseDown
  <2>1. SentAreIssued'
    BY DEF SentAreIssued
  <2>2. CopiesAreSent'
    BY DEF CopiesAreSent
  <2>3. SaidAreSent'
    BY DEF SaidAreSent
  <2>4. ReportsAreSaid'
    BY DEF ReportsAreSaid
  <2>5. IssuedHaveRoute'
    BY DEF IssuedHaveRoute
  <2>6. PublishedRecorded'
    BY DEF PublishedRecorded, IgnoresErrors
  <2>7. RowsAreIssued'
    BY DEF RowsAreIssued
  <2>8. HandledAreWritten'
    BY DEF HandledAreWritten
  <2>9. StatusIsVerdict'
    BY DEF StatusIsVerdict, Verdicts
  <2>10. RecordedBeforeSent'
    BY DEF RecordedBeforeSent, IgnoresErrors
  <2> QED
    BY <1>0, <2>1, <2>2, <2>3, <2>4, <2>5, <2>6, <2>7, <2>8, <2>9, <2>10
<1>8. ASSUME NEW c \in Cmds, NEW what \in Answers, DeviceAcks(c, what) \/ DeviceEndsOTA(c, what) PROVE IInv'
  <2> USE <1>8 DEF DeviceAcks, DeviceEndsOTA, Answer, Heard
  <2>0. [id |-> c, what |-> what] \in Report
    BY DEF Report
  <2>1. SentAreIssued'
    BY <2>0 DEF SentAreIssued
  <2>2. CopiesAreSent'
    BY <2>0 DEF CopiesAreSent
  <2>3. SaidAreSent'
    <3>1. said' = said \cup {[id |-> c, what |-> what]}
      OBVIOUS
    <3>2. c \in sent /\ req[c].tid = HomeTid[req[c].did]
      BY DEF CopiesAreSent, SaidAreSent
    <3> QED
      BY <3>1, <3>2 DEF SaidAreSent
  <2>4. ReportsAreSaid'
    BY <2>0 DEF ReportsAreSaid
  <2>5. IssuedHaveRoute'
    BY <2>0 DEF IssuedHaveRoute
  <2>6. PublishedRecorded'
    BY <2>0 DEF PublishedRecorded, IgnoresErrors
  <2>7. RowsAreIssued'
    BY <2>0 DEF RowsAreIssued
  <2>8. HandledAreWritten'
    BY <2>0 DEF HandledAreWritten
  <2>9. StatusIsVerdict'
    <3>1. \A x \in Cmds : Verdicts(x) \subseteq Verdicts(x)'
      BY DEF Verdicts
    <3> QED
      BY <3>1 DEF StatusIsVerdict
  <2>10. RecordedBeforeSent'
    BY <2>0 DEF RecordedBeforeSent, IgnoresErrors
  <2> QED
    BY <1>0, <2>1, <2>2, <2>3, <2>4, <2>5, <2>6, <2>7, <2>8, <2>9, <2>10
<1>9. ASSUME NEW m \in Report, DuplicateUp(m) \/ LoseUp(m) PROVE IInv'
  <2> USE <1>9 DEF DuplicateUp, LoseUp
  <2>1. SentAreIssued'
    BY DEF SentAreIssued
  <2>2. CopiesAreSent'
    BY DEF CopiesAreSent
  <2>3. SaidAreSent'
    BY DEF SaidAreSent
  <2>4. ReportsAreSaid'
    BY DEF ReportsAreSaid
  <2>5. IssuedHaveRoute'
    BY DEF IssuedHaveRoute
  <2>6. PublishedRecorded'
    BY DEF PublishedRecorded, IgnoresErrors
  <2>7. RowsAreIssued'
    BY DEF RowsAreIssued
  <2>8. HandledAreWritten'
    BY DEF HandledAreWritten
  <2>9. StatusIsVerdict'
    BY DEF StatusIsVerdict, Verdicts
  <2>10. RecordedBeforeSent'
    BY DEF RecordedBeforeSent, IgnoresErrors
  <2> QED
    BY <1>0, <2>1, <2>2, <2>3, <2>4, <2>5, <2>6, <2>7, <2>8, <2>9, <2>10
<1>10. ASSUME NEW m \in Report, handleAck(m) \/ handleOTA(m) PROVE IInv'
  <2> USE <1>10 DEF handleAck, handleOTA, UpdateStatus, UpdateFails, SetStatus, TakeReport
  <2>0. m.id \in Cmds
    BY DEF Report
  <2>1. SentAreIssued'
    BY <2>0 DEF SentAreIssued
  <2>2. CopiesAreSent'
    BY <2>0 DEF CopiesAreSent
  <2>3. SaidAreSent'
    BY <2>0 DEF SaidAreSent
  <2>4. ReportsAreSaid'
    BY <2>0 DEF ReportsAreSaid
  <2>5. IssuedHaveRoute'
    BY <2>0 DEF IssuedHaveRoute
  <2>6. PublishedRecorded'
    BY <2>0 DEF PublishedRecorded, IgnoresErrors
  <2>7. RowsAreIssued'
    BY <2>0 DEF RowsAreIssued
  <2>8. HandledAreWritten'
    <3>1. req[m.id].tid = HomeTid[req[m.id].did]
      BY DEF ReportsAreSaid, SaidAreSent
    <3>2. CASE UpdateFails(m)
      BY <3>2, ReportId DEF HandledAreWritten
    <3>3. CASE ~ UpdateFails(m)
      <4>1. status'[m.id] # "pending" /\ unwritten' = unwritten
        BY <2>0, <3>1, <3>3
      <4>2. \A n \in Report : status'[n.id] # "pending" \/ status'[n.id] = status[n.id]
        BY <2>0, <4>1, ReportId
      <4> QED
        BY <4>1, <4>2 DEF HandledAreWritten
    <3> QED
      BY <3>2, <3>3
  <2>9. StatusIsVerdict'
    <3>1. m.what \in Verdicts(m.id)
      BY DEF ReportsAreSaid, Verdicts
    <3>2. \A x \in Cmds : Verdicts(x)' = Verdicts(x)
      BY DEF Verdicts
    <3> QED
      BY <2>0, <3>1, <3>2 DEF StatusIsVerdict
  <2>10. RecordedBeforeSent'
    BY <2>0 DEF RecordedBeforeSent, IgnoresErrors
  <2> QED
    BY <1>0, <2>1, <2>2, <2>3, <2>4, <2>5, <2>6, <2>7, <2>8, <2>9, <2>10
<1>11. ASSUME NEW m \in Report, storeEvent(m) \/ publishWS(m) PROVE IInv'
  <2> USE <1>11 DEF storeEvent, publishWS
  <2>0. m.id \in Cmds
    BY DEF Report
  <2>1. SentAreIssued'
    BY <2>0 DEF SentAreIssued
  <2>2. CopiesAreSent'
    BY <2>0 DEF CopiesAreSent
  <2>3. SaidAreSent'
    BY <2>0 DEF SaidAreSent
  <2>4. ReportsAreSaid'
    BY <2>0 DEF ReportsAreSaid
  <2>5. IssuedHaveRoute'
    BY <2>0 DEF IssuedHaveRoute
  <2>6. PublishedRecorded'
    BY <2>0 DEF PublishedRecorded, IgnoresErrors
  <2>7. RowsAreIssued'
    BY <2>0 DEF RowsAreIssued
  <2>8. HandledAreWritten'
    BY <2>0 DEF HandledAreWritten
  <2>9. StatusIsVerdict'
    BY <2>0 DEF StatusIsVerdict, Verdicts
  <2>10. RecordedBeforeSent'
    BY <2>0 DEF RecordedBeforeSent, IgnoresErrors
  <2> QED
    BY <1>0, <2>1, <2>2, <2>3, <2>4, <2>5, <2>6, <2>7, <2>8, <2>9, <2>10
<1>12. CASE UNCHANGED vars
  BY <1>0, <1>12 DEF vars, SentAreIssued, CopiesAreSent, SaidAreSent, ReportsAreSaid,
     IssuedHaveRoute, PublishedRecorded, RowsAreIssued, HandledAreWritten,
     StatusIsVerdict, RecordedBeforeSent, Verdicts, IgnoresErrors
<1> QED
  BY <1>1, <1>2, <1>3, <1>4, <1>5, <1>6, <1>7, <1>8, <1>9, <1>10, <1>11, <1>12
     DEF Next, Continue, Handle

THEOREM InductiveInvariant == Spec => []IInv
BY IInvInit, IInvNext, PTL DEF Spec

-----------------------------------------------------------------------------
(* The safety properties.                                                   *)

\* A status that says "acked" was read off the device's own report.
THEOREM StatusIsAlwaysVerdict == Spec => []StatusIsVerdict
<1>1. IInv => StatusIsVerdict
  BY DEF IInv
<1> QED
  BY <1>1, InductiveInvariant, PTL

\* The single-device paths publish no id the commands table has not held.
THEOREM SingleRecordedBeforeSent == Spec => []RecordedBeforeSent
<1>1. IInv => RecordedBeforeSent
  BY DEF IInv
<1> QED
  BY <1>1, InductiveInvariant, PTL

\* A client told of an answer never reads the command as pending.
THEOREM ToldAlwaysAfterWritten == Spec => []ToldAfterWritten
<1>1. IInv => ToldAfterWritten
  BY DEF IInv, TypeOK, HandledAreWritten, ToldAfterWritten
<1> QED
  BY <1>1, InductiveInvariant, PTL

\* The handler of a report writes what the device said: whatever it changes,
\* the status it leaves is justified by that report.
LEMMA HandledChange ==
  ASSUME IInv, NEW m \in Report, handleAck(m) \/ handleOTA(m), NEW c \in Cmds,
         status[c] \in {"acked_ok", "acked_fail"}, status'[c] # status[c]
  PROVE  Contradicted(c)
<1> USE DEF IInv, TypeOK
<1>1. m.id = c /\ m.what \in Verdicts(c)
  BY ReportId DEF handleAck, handleOTA, UpdateStatus, UpdateFails, SetStatus, TakeReport, Verdicts, ReportsAreSaid
<1>2. status'[c] \in {"acked_ok", "acked_fail"}
  BY <1>1 DEF handleAck, handleOTA, UpdateStatus, UpdateFails, SetStatus
<1>3. status'[c] = "acked_ok" => m.what \in {"ok", "ota_done"}
  BY <1>1 DEF handleAck, handleOTA, UpdateStatus, UpdateFails, SetStatus
<1>4. status'[c] = "acked_fail" => m.what \in {"fail", "ota_err"}
  BY <1>1 DEF handleAck, handleOTA, UpdateStatus, UpdateFails, SetStatus
<1> QED
  BY <1>1, <1>2, <1>3, <1>4 DEF StatusIsVerdict, Contradicted

\* An answered status changes only by a contradiction of the device or a reset.
THEOREM AnsweredIsStable == Spec => ChangesNeedContradiction
<1>1. IInv /\ [Next]_vars => [AnswerStands]_vars
  <2> SUFFICES ASSUME IInv, Next, NEW c \in Cmds,
                      status[c] \in {"acked_ok", "acked_fail"}, status'[c] # status[c]
               PROVE  status'[c] = "absent" \/ Contradicted(c)
    BY DEF AnswerStands
  <2> USE DEF IInv, TypeOK, requestVars, tableVars, brokerVars, handlerVars, historyVars
  <2>1. ASSUME NEW d \in Devices, Register(d) \/ Claim(d) PROVE FALSE
    BY <2>1 DEF Register, Claim
  <2>2. ASSUME NEW d \in Devices, Reset(d) PROVE status'[c] = "absent"
    BY <2>2 DEF Reset
  <2>3. ASSUME NEW k \in Cmds, Issue(k) PROVE FALSE
    BY <2>3, IssueResolves DEF Resolve
  <2>4. ASSUME NEW k \in Cmds, Insert(k) PROVE FALSE
    BY <2>4 DEF Insert, InsertRow, Outcomes, RowsAreIssued
  <2>5. ASSUME NEW k \in Cmds, PublishOK(k) \/ PublishError(k) PROVE FALSE
    BY <2>5 DEF PublishOK, PublishError
  <2>6. ASSUME NEW k \in Cmds, SetDesired(k) PROVE FALSE
    BY <2>6 DEF SetDesired
  <2>7. ASSUME NEW k \in Cmds, DuplicateDown(k) \/ LoseDown(k) PROVE FALSE
    BY <2>7 DEF DuplicateDown, LoseDown
  <2>8. ASSUME NEW k \in Cmds, NEW what \in Answers,
               DeviceAcks(k, what) \/ DeviceEndsOTA(k, what)
        PROVE FALSE
    BY <2>8 DEF DeviceAcks, DeviceEndsOTA, Answer
  <2>9. ASSUME NEW m \in Report, DuplicateUp(m) \/ LoseUp(m) PROVE FALSE
    BY <2>9 DEF DuplicateUp, LoseUp
  <2>10. ASSUME NEW m \in Report, handleAck(m) \/ handleOTA(m) PROVE Contradicted(c)
    BY <2>10, HandledChange
  <2>11. ASSUME NEW m \in Report, storeEvent(m) \/ publishWS(m) PROVE FALSE
    BY <2>11 DEF storeEvent, publishWS
  <2> QED
    BY <2>1, <2>2, <2>3, <2>4, <2>5, <2>6, <2>7, <2>8, <2>9, <2>10, <2>11
       DEF Next, Continue, Handle
<1> QED
  BY <1>1, InductiveInvariant, PTL DEF Spec, ChangesNeedContradiction

===============================================================================
