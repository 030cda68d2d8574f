--------------------------- MODULE CommandLifecycle ---------------------------
(***************************************************************************)
(* The life of a command: an HTTP handler (or the LAN-key provisioner)     *)
(* resolves the device's route, inserts a row in the commands table with   *)
(* status 'pending', publishes on setu/{tid}/{pid}/{did}/dn and, for a     *)
(* datapoint write, upserts the desired value.  The device answers on      *)
(* .../up; mqtt.Router handles every message in a goroutine of its own,    *)
(* so messages are taken in any order and their steps interleave.          *)
(*                                                                         *)
(* One member of Cmds is one uuid.New() of the issuing code: a request     *)
(* for the single-device paths, one loop iteration for groups and scenes.  *)
(* The broker is a bag per direction: it reorders, and it duplicates at    *)
(* most setting.dups times (QoS 1).  In a faulty setting it also drops     *)
(* messages, as when a persistent session expires, and the database        *)
(* refuses statements for reasons of its own.                              *)
(***************************************************************************)
EXTENDS Naturals, FiniteSets

CONSTANTS
  Cmds,         \* command uuids
  Tenants,      \* tenant ids (tid)
  Devices,      \* device ids (did)
  HomeTid,      \* the tid the firmware of each device subscribes under
  ConsumerTid,  \* cfg.ConsumerTID, the tid of every app user's token
  Owned,        \* devices with an app_devices row of the requesting user
  None,         \* no command
  Settings      \* what goes on, see Setting

Paths == {"tenant", "app", "voice", "group", "scene", "ota", "klk"}

\* cmds: the uuids that are drawn.  paths: the issuing paths that requests take.
\* dups: bound on the duplicates the broker makes.  faulty: whether the broker may
\* drop messages and statements may fail.
Setting == [cmds : SUBSET Cmds, paths : SUBSET Paths, dups : Nat, faulty : BOOLEAN]

ASSUME CommandAssumptions ==
  /\ HomeTid \in [Devices -> Tenants]
  /\ ConsumerTid \in Tenants
  /\ Owned \subseteq Devices
  /\ None \notin Cmds
  /\ Settings \subseteq Setting

VARIABLES
  setting,
  rows,       \* devices table: set of <<tid, did>>
  req,        \* req[c]: route and kind of the request that drew uuid c
  pc,         \* pc[c]: next step of that request
  status,     \* commands table: status[c], "absent" when there is no row
  recorded,   \* uuids whose INSERT has succeeded (history)
  sent,       \* uuids handed to the MQTT client (history)
  desired,    \* shadows.desired_value: command whose value it holds
  dn,         \* broker, cloud to device: copies of each command in flight
  dups,       \* duplications the broker has left
  said,       \* reports the devices have made (history)
  net,        \* broker, device to cloud: copies of each report in flight
  updated,    \* handlers that have run their UPDATE commands
  stored,     \* handlers that have run storeEvent as well
  events,     \* device_events table
  told,       \* reports published on the WebSocket channel (history)
  unwritten   \* reports of which some UPDATE has failed (history)

requestVars == <<req, pc>>
tableVars   == <<rows, status, desired, events>>
brokerVars  == <<dn, dups, net>>
handlerVars == <<updated, stored, told, unwritten>>
historyVars == <<recorded, sent, said>>
vars == <<setting, requestVars, tableVars, brokerVars, handlerVars, historyVars>>

Route   == Tenants \X Devices
Kinds   == {"set", "get", "ota", "klk"}
Request == [path: Paths, kind: Kinds, tid: Tenants, did: Devices]
Answers == {"ok", "fail", "ota_done", "ota_err"}
Report  == [id: Cmds, what: Answers]
Steps   == {"idle", "insert", "publish", "desire", "accepted", "failed"}
\* The CHECK constraint of commands.status, and "absent" for no row.
Status  == {"absent", "pending", "acked_ok", "acked_fail", "timeout"}

\* Group and scene runs ignore the errors of their INSERT and Publish calls.
IgnoresErrors(c) == req[c].path \in {"group", "scene"}
\* The paths that write the desired value after publishing a "set".
WritesDesired(c) == req[c].path \in {"tenant", "app", "voice"} /\ req[c].kind = "set"
RouteOf(c) == <<req[c].tid, req[c].did>>

TypeOK ==
  /\ setting \in Settings
  /\ rows \subseteq Route
  /\ req \in [Cmds -> Request \cup {None}]
  /\ pc \in [Cmds -> Steps]
  /\ status \in [Cmds -> Status]
  /\ recorded \subseteq Cmds
  /\ sent \subseteq Cmds
  /\ desired \in [Route -> Cmds \cup {None}]
  /\ dn \in [Cmds -> Nat]
  /\ dups \in 0..setting.dups
  /\ said \subseteq Report
  /\ net \in [Report -> Nat]
  /\ updated \in [Report -> Nat]
  /\ stored \in [Report -> Nat]
  /\ events \subseteq Report
  /\ told \subseteq Report
  /\ unwritten \subseteq Report

\* Devices may be registered or claimed when the server starts taking requests.
Init ==
  /\ setting \in Settings
  /\ rows \in SUBSET {r \in Route : r[1] \in {HomeTid[r[2]], ConsumerTid}}
  /\ req = [c \in Cmds |-> None]
  /\ pc = [c \in Cmds |-> "idle"]
  /\ status = [c \in Cmds |-> "absent"]
  /\ recorded = {} /\ sent = {} /\ said = {}
  /\ desired = [r \in Route |-> None]
  /\ dn = [c \in Cmds |-> 0]
  /\ dups = setting.dups
  /\ net = [m \in Report |-> 0]
  /\ updated = [m \in Report |-> 0]
  /\ stored = [m \in Report |-> 0]
  /\ events = {} /\ told = {} /\ unwritten = {}

-----------------------------------------------------------------------------
(* The devices table as seen by this module.                               *)

\* registry.Upsert on "reg", claimDevice at the factory.
Register(d) ==
  /\ rows' = rows \cup {<<HomeTid[d], d>>}
  /\ UNCHANGED <<setting, requestVars, status, desired, events, brokerVars, handlerVars,
                 historyVars>>

\* app.ClaimDevice adds a row under the consumer tenant whatever the device's own.
Claim(d) ==
  /\ rows' = rows \cup {<<ConsumerTid, d>>}
  /\ UNCHANGED <<setting, requestVars, status, desired, events, brokerVars, handlerVars,
                 historyVars>>

\* The admin's "back to inventory" deletes every devices row of the did; the
\* foreign keys cascade to commands, shadows and device_events.
Reset(d) ==
  /\ rows' = {r \in rows : r[2] # d}
  /\ status' = [c \in Cmds |-> IF status[c] # "absent" /\ req[c].did = d
                               THEN "absent" ELSE status[c]]
  /\ desired' = [r \in Route |-> IF r[2] = d THEN None ELSE desired[r]]
  /\ events' = {m \in events : req[m.id].did # d}
  /\ UNCHANGED <<setting, requestVars, brokerVars, handlerVars, historyVars>>

-----------------------------------------------------------------------------
(* Issuing a command: resolve the route ...                                *)

Resolve(c, path, kind, tid, did) ==
  /\ c \in setting.cmds /\ path \in setting.paths
  /\ pc[c] = "idle"
  /\ req' = [req EXCEPT ![c] = [path |-> path, kind |-> kind, tid |-> tid, did |-> did]]
  /\ pc' = [pc EXCEPT ![c] = "insert"]
  /\ UNCHANGED <<setting, tableVars, brokerVars, handlerVars, historyVars>>

\* A row of did under any tenant, the consumer tenant when it has none.
OwnerRoute(tid, did) ==
  \/ <<tid, did>> \in rows
  \/ tid = ConsumerTid /\ ~ \E t \in Tenants : <<t, did>> \in rows

IssueCommand(c, tid, did) ==
  /\ <<tid, did>> \in rows
  /\ \E kind \in {"set", "get", "ota"} : Resolve(c, "tenant", kind, tid, did)

Command(c, tid, did) ==
  /\ did \in Owned
  /\ OwnerRoute(tid, did)
  /\ Resolve(c, "app", "set", tid, did)

SendCommand(c, tid, did) ==
  /\ did \in Owned
  /\ OwnerRoute(tid, did)
  /\ Resolve(c, "voice", "set", tid, did)

\* Both take the pid from any row of the did but the tid from the user's token.
GroupCommand(c, did) ==
  /\ \E t \in Tenants : <<t, did>> \in rows
  /\ Resolve(c, "group", "set", ConsumerTid, did)

RunScene(c, did) ==
  /\ \E t \in Tenants : <<t, did>> \in rows
  /\ Resolve(c, "scene", "set", ConsumerTid, did)

AdminIssueOTA(c, tid, did) ==
  /\ <<tid, did>> \in rows
  /\ Resolve(c, "ota", "ota", tid, did)

\* Provision is called with the inventory's or the message's tid, or with
\* the tid of any of the did's rows; no row is looked up here.
ProvisionKey(c, tid, did) ==
  /\ tid = HomeTid[did] \/ OwnerRoute(tid, did)
  /\ Resolve(c, "klk", "klk", tid, did)

(* ... insert the row, which the foreign key refuses when the devices row  *)
(* is missing ...                                                          *)

StatementFails(c) == setting.faulty \/ RouteOf(c) \notin rows

\* A statement that reports an error may have been executed all the same, as
\* when the client went away and the request's context was cancelled.
Outcomes(c) ==
  {o \in [written : BOOLEAN, ok : BOOLEAN] :
     /\ o.written => RouteOf(c) \in rows
     /\ IF o.ok THEN o.written ELSE StatementFails(c)}

InsertRow(c, o) ==
  /\ status' = IF o.written THEN [status EXCEPT ![c] = "pending"] ELSE status
  /\ recorded' = IF o.written THEN recorded \cup {c} ELSE recorded
  /\ UNCHANGED <<setting, req, rows, desired, events, brokerVars, handlerVars, sent, said>>

Insert(c) ==
  /\ pc[c] = "insert"
  /\ \E o \in Outcomes(c) :
       /\ InsertRow(c, o)
       /\ pc' = [pc EXCEPT ![c] = IF o.ok \/ IgnoresErrors(c) THEN "publish" ELSE "failed"]

(* ... publish: an error from the client leaves it open whether the broker *)
(* got the message ...                                                     *)

PublishOK(c) ==
  /\ pc[c] = "publish"
  /\ dn' = [dn EXCEPT ![c] = @ + 1]
  /\ sent' = sent \cup {c}
  /\ pc' = [pc EXCEPT ![c] = IF WritesDesired(c) THEN "desire" ELSE "accepted"]
  /\ UNCHANGED <<setting, req, tableVars, dups, net, handlerVars, recorded, said>>

PublishError(c) ==
  /\ pc[c] = "publish"
  /\ \E k \in {0, 1} : dn' = [dn EXCEPT ![c] = @ + k]
  /\ sent' = sent \cup {c}
  /\ pc' = [pc EXCEPT ![c] = IF IgnoresErrors(c) THEN "accepted" ELSE "failed"]
  /\ UNCHANGED <<setting, req, tableVars, dups, net, handlerVars, recorded, said>>

(* ... and record the desired value; an error of this upsert is ignored.   *)

SetDesired(c) ==
  /\ pc[c] = "desire"
  /\ \/ RouteOf(c) \in rows /\ desired' = [desired EXCEPT ![RouteOf(c)] = c]
     \/ StatementFails(c) /\ UNCHANGED desired
  /\ pc' = [pc EXCEPT ![c] = "accepted"]
  /\ UNCHANGED <<setting, req, rows, status, events, brokerVars, handlerVars, historyVars>>

-----------------------------------------------------------------------------
(* The broker and the device.                                              *)

DuplicateDown(c) ==
  /\ dups > 0 /\ dn[c] > 0
  /\ dn' = [dn EXCEPT ![c] = @ + 1]
  /\ dups' = dups - 1
  /\ UNCHANGED <<setting, requestVars, tableVars, net, handlerVars, historyVars>>

DuplicateUp(m) ==
  /\ dups > 0 /\ net[m] > 0
  /\ net' = [net EXCEPT ![m] = @ + 1]
  /\ dups' = dups - 1
  /\ UNCHANGED <<setting, requestVars, tableVars, dn, handlerVars, historyVars>>

LoseDown(c) ==
  /\ setting.faulty /\ dn[c] > 0
  /\ dn' = [dn EXCEPT ![c] = @ - 1]
  /\ UNCHANGED <<setting, requestVars, tableVars, dups, net, handlerVars, historyVars>>

LoseUp(m) ==
  /\ setting.faulty /\ net[m] > 0
  /\ net' = [net EXCEPT ![m] = @ - 1]
  /\ UNCHANGED <<setting, requestVars, tableVars, dups, dn, handlerVars, historyVars>>

\* A device sees only what is published under its own tid.
Heard(c) == dn[c] > 0 /\ req[c].tid = HomeTid[req[c].did]

Answer(m) ==
  /\ said' = said \cup {m}
  /\ net' = [net EXCEPT ![m] = @ + 1]

\* Every received copy is executed and acknowledged, duplicates included.
DeviceAcks(c, what) ==
  /\ Heard(c)
  /\ what \in {"ok", "fail"}
  /\ dn' = [dn EXCEPT ![c] = @ - 1]
  /\ Answer([id |-> c, what |-> what])
  /\ UNCHANGED <<setting, requestVars, tableVars, dups, handlerVars, recorded, sent>>

\* An accepted update later ends, once.
DeviceEndsOTA(c, what) ==
  /\ req[c] # None /\ req[c].kind = "ota"
  /\ what \in {"ota_done", "ota_err"}
  /\ [id |-> c, what |-> "ok"] \in said
  /\ ~ \E m \in said : m.id = c /\ m.what \in {"ota_done", "ota_err"}
  /\ Answer([id |-> c, what |-> what])
  /\ UNCHANGED <<setting, requestVars, tableVars, dn, dups, handlerVars, recorded, sent>>

-----------------------------------------------------------------------------
(* mqtt.Router: one goroutine per received report.                         *)

\* Fault: the row is looked up under the consumer tenant.
SetStatusAsConsumer(m, new) ==
  LET matches == status[m.id] # "absent" /\ req[m.id].tid = ConsumerTid
  IN  status' = IF matches THEN [status EXCEPT ![m.id] = new] ELSE status

\* UPDATE commands SET status WHERE id AND tid, with the topic's tid.
SetStatus(m, new) ==
  LET matches == status[m.id] # "absent" /\ req[m.id].tid = HomeTid[req[m.id].did]
  IN  status' = IF matches THEN [status EXCEPT ![m.id] = new] ELSE status

\* An error of the UPDATE is logged and the handler goes on.
UpdateFails(m) ==
  /\ setting.faulty
  /\ unwritten' = unwritten \cup {m}
  /\ UNCHANGED status

UpdateStatus(m, new) ==
  \/ SetStatus(m, new) /\ UNCHANGED unwritten
  \/ UpdateFails(m)

TakeReport(m) ==
  /\ net[m] > 0
  /\ net' = [net EXCEPT ![m] = @ - 1]
  /\ updated' = [updated EXCEPT ![m] = @ + 1]
  /\ UNCHANGED <<setting, requestVars, rows, desired, events, dn, dups, stored, told, historyVars>>

\* Fault: the ok field of the ack is not looked at.
handleAckIgnoringOK(m) ==
  /\ m.what \in {"ok", "fail"}
  /\ TakeReport(m)
  /\ UpdateStatus(m, "acked_ok")

\* Fault: a second ack is taken for an error.
handleAckRefusingRepeats(m) ==
  /\ m.what \in {"ok", "fail"}
  /\ TakeReport(m)
  /\ UpdateStatus(m, IF m.what = "ok" /\ status[m.id] = "pending" THEN "acked_ok" ELSE "acked_fail")

handleAck(m) ==
  /\ m.what \in {"ok", "fail"}
  /\ TakeReport(m)
  /\ UpdateStatus(m, IF m.what = "ok" THEN "acked_ok" ELSE "acked_fail")

handleOTA(m) ==
  /\ m.what \in {"ota_done", "ota_err"}
  /\ TakeReport(m)
  /\ UpdateStatus(m, IF m.what = "ota_err" THEN "acked_fail" ELSE "acked_ok")

\* INSERT INTO device_events; refused without a devices row.
storeEvent(m) ==
  /\ updated[m] > 0
  /\ updated' = [updated EXCEPT ![m] = @ - 1]
  /\ stored' = [stored EXCEPT ![m] = @ + 1]
  /\ \/ RouteOf(m.id) \in rows /\ events' = events \cup {m}
     \/ StatementFails(m.id) /\ UNCHANGED events
  /\ UNCHANGED <<setting, requestVars, rows, status, desired, brokerVars, told, unwritten,
                 historyVars>>

publishWS(m) ==
  /\ stored[m] > 0
  /\ stored' = [stored EXCEPT ![m] = @ - 1]
  /\ told' = told \cup {m}
  /\ UNCHANGED <<setting, requestVars, tableVars, brokerVars, updated, unwritten, historyVars>>

-----------------------------------------------------------------------------

Issue(c) ==
  \E did \in Devices :
    \/ GroupCommand(c, did)
    \/ RunScene(c, did)
    \/ \E tid \in Tenants :
         \/ IssueCommand(c, tid, did)
         \/ Command(c, tid, did)
         \/ SendCommand(c, tid, did)
         \/ AdminIssueOTA(c, tid, did)
         \/ ProvisionKey(c, tid, did)

Continue(c) == Insert(c) \/ PublishOK(c) \/ PublishError(c) \/ SetDesired(c)

Handle(m) == handleAck(m) \/ handleOTA(m) \/ storeEvent(m) \/ publishWS(m)

Next ==
  \/ \E d \in Devices : Register(d) \/ Claim(d) \/ Reset(d)
  \/ \E c \in Cmds :
       \/ Issue(c)
       \/ Continue(c)
       \/ DuplicateDown(c) \/ LoseDown(c)
       \/ \E what \in Answers : DeviceAcks(c, what) \/ DeviceEndsOTA(c, what)
  \/ \E m \in Report : DuplicateUp(m) \/ LoseUp(m) \/ Handle(m)

Spec == Init /\ [][Next]_vars

\* Goroutines run to their end; the broker delivers and the device answers,
\* which is a hypothesis about the network, not about this code.
FairSpec ==
  /\ Spec
  /\ \A c \in Cmds : WF_vars(Continue(c))
  /\ \A c \in Cmds : WF_vars(\E what \in Answers : DeviceAcks(c, what))
  /\ \A m \in Report : WF_vars(Handle(m))

-----------------------------------------------------------------------------
(* Safety.                                                                 *)

Verdicts(c) == {m.what : m \in {n \in said : n.id = c}}
Contradicted(c) == /\ Verdicts(c) \cap {"ok", "ota_done"} # {}
                   /\ Verdicts(c) \cap {"fail", "ota_err"} # {}

\* A command's status is one the device gave: 'acked_ok' and 'acked_fail' are
\* only ever read off a report the device made about that very command, in
\* spite of reordered and repeated messages, failed publishes and resets.
StatusIsVerdict ==
  \A c \in Cmds :
    /\ status[c] = "acked_ok" => Verdicts(c) \cap {"ok", "ota_done"} # {}
    /\ status[c] = "acked_fail" => Verdicts(c) \cap {"fail", "ota_err"} # {}
    /\ status[c] # "timeout"

\* The single-device paths never publish an id that the commands table has not
\* held: publisher.go asks for "the UUID from the commands table".
RecordedBeforeSent == \A c \in sent : ~ IgnoresErrors(c) => c \in recorded

\* A WebSocket client that has been told of an answer never reads the command
\* as pending afterwards: the row is written before the event is published,
\* and no insert of the same id can come later.  Only a failed UPDATE, which
\* the handler logs and passes over, leaves such a row.
ToldAfterWritten == \A m \in told : status[m.id] = "pending" => m \in unwritten

\* Once answered, a status changes only because the device contradicted
\* itself about the command (an OTA accepted, then failed) or because the
\* device was reset: repeated deliveries of one answer change nothing.
AnswerStands ==
  \A c \in Cmds :
    status[c] \in {"acked_ok", "acked_fail"} /\ status'[c] # status[c]
      => status'[c] = "absent" \/ Contradicted(c)

\* The same of every step of the system.
ChangesNeedContradiction == [][AnswerStands]_vars

(* What a comment says of the program, refuted by a run of its own.        *)

(* Liveness.                                                               *)

\* A recorded command that reached the broker on the topic of its device
\* does not stay pending, provided nothing is lost on the way.
AnsweredEventually ==
  \A c \in Cmds :
    (/\ ~ setting.faulty
     /\ status[c] = "pending"
     /\ pc[c] \in {"desire", "accepted"}
     /\ req[c].tid = HomeTid[req[c].did]) ~> status[c] # "pending"

=============================================================================
