------------------------------- MODULE Inventory -------------------------------
(***************************************************************************)
(* One physical device, known by its MAC: its device_inventory row, the    *)
(* devices rows and the app_devices rows of the dids it has had.           *)
(*                                                                         *)
(* The factory's claimDevice, the admin's two status switches and delete,  *)
(* the app's adopt, claim, remove and BLE signature, and the device's own  *)
(* "reg" run as requests of workers, statement by statement.  The first    *)
(* three are transactions; each updates the inventory row first, so that   *)
(* row's lock orders them.  What they write shows when they commit; every  *)
(* other statement commits by itself.  All draw on one connection pool.    *)
(***************************************************************************)
EXTENDS Naturals, FiniteSets

CONSTANTS
  Workers,   \* goroutines
  Users,     \* app users, not guests
  Dids,      \* uuids for this device
  None,      \* no did, no user, no worker
  Settings   \* what goes on, see Setting

Transactions == {"factory", "mark", "reset"}
Jobs == Transactions \cup {"delete", "adopt", "sign", "claim", "remove", "reg"}

\* jobs: the requests that occur, at most calls of them.  calm: no reset or delete
\* runs together with another request.  faulty: statements may fail, answers get
\* lost.  pool: connections.
Setting ==
  [jobs : SUBSET Jobs, calls : Nat, calm : BOOLEAN, faulty : BOOLEAN, pool : Nat]

ASSUME InventoryAssumptions ==
  /\ Settings \subseteq Setting
  /\ None \notin Dids /\ None \notin Users /\ None \notin Workers

VARIABLES
  setting,
  calls,     \* requests left
  inv,       \* the inventory row
  invLock,   \* the transaction that has updated it
  devices,   \* dids with a devices row
  devLock,   \* the transaction that has written a did's devices row
  owner,     \* app_devices: the owner of a did
  appLock,   \* the transaction that has deleted a did's app_devices row
  held,      \* the did in the device's memory
  pc,        \* next step of each worker
  job,       \* its request
  user,      \* whose request it is
  did,       \* the did it has read
  given,     \* claims committed since the row was last pending (history)
  owners,    \* <<user, did>> that have been linked (history)
  signed     \* <<user, did>> for which a nonce was signed (history)

tables     == <<inv, devices, owner>>
locks      == <<invLock, devLock, appLock>>
history    == <<given, owners, signed>>
workerVars == <<pc, job, user, did>>
vars == <<setting, calls, tables, locks, held, history, workerVars>>

InTxSteps == {"read", "update", "exists", "devices", "owner", "commit"}
Steps == InTxSteps \cup
  {"idle", "begin", "answer", "look", "delete", "link", "check", "first", "again", "sign",
   "row", "insert", "remove", "reg"}
FirstStep ==
  [what \in Jobs |-> IF what \in Transactions THEN "begin"
                     ELSE IF what = "claim" THEN "row"
                     ELSE IF what \in {"remove", "reg"} THEN what
                     ELSE "look"]

TypeOK ==
  /\ setting \in Settings
  /\ calls \in 0..setting.calls
  /\ inv \in [did : Dids \cup {None}, provisioned : BOOLEAN, status : {"inventory", "provisioned"}]
  /\ invLock \in Workers \cup {None}
  /\ devices \subseteq Dids
  /\ devLock \in [Dids -> Workers \cup {None}]
  /\ owner \in [Dids -> Users \cup {None}]
  /\ appLock \in [Dids -> Workers \cup {None}]
  /\ held \in Dids \cup {None}
  /\ pc \in [Workers -> Steps]
  /\ job \in [Workers -> Jobs \cup {"none"}]
  /\ user \in [Workers -> Users \cup {None}]
  /\ did \in [Workers -> Dids \cup {None}]
  /\ given \in Nat
  /\ owners \subseteq Users \X Dids
  /\ signed \subseteq Users \X Dids

Pending(d) == [did |-> d, provisioned |-> FALSE, status |-> "inventory"]

Init ==
  /\ setting \in Settings
  /\ calls = setting.calls
  /\ \E d \in Dids : inv = Pending(d)
  /\ invLock = None
  /\ devices = {} /\ devLock = [d \in Dids |-> None]
  /\ owner = [d \in Dids |-> None] /\ appLock = [d \in Dids |-> None]
  /\ held = None
  /\ pc = [w \in Workers |-> "idle"]
  /\ job = [w \in Workers |-> "none"]
  /\ user = [w \in Workers |-> None]
  /\ did = [w \in Workers |-> None]
  /\ given = 0 /\ owners = {} /\ signed = {}

Quiet == \A w \in Workers : pc[w] = "idle"

\* A transaction keeps its connection from Begin to Commit or Rollback, any
\* other statement takes one for its own time.
InTransaction(w) == pc[w] \in InTxSteps
ConnectionFree == Cardinality({w \in Workers : InTransaction(w)}) < setting.pool

Goto(w, step) ==
  /\ pc' = [pc EXCEPT ![w] = step]
  /\ UNCHANGED <<job, user>>

\* The request is answered and its goroutine forgotten.
Finish(w) ==
  /\ pc' = [pc EXCEPT ![w] = "idle"]
  /\ job' = [job EXCEPT ![w] = "none"]
  /\ user' = [user EXCEPT ![w] = None]
  /\ did' = [did EXCEPT ![w] = None]

\* End of w's transaction.
Unlock(w) ==
  /\ invLock' = IF invLock = w THEN None ELSE invLock
  /\ devLock' = [d \in Dids |-> IF devLock[d] = w THEN None ELSE devLock[d]]
  /\ appLock' = [d \in Dids |-> IF appLock[d] = w THEN None ELSE appLock[d]]

Cleaning == {"reset", "delete"}

Request(w, what, u) ==
  /\ pc[w] = "idle" /\ calls > 0 /\ what \in setting.jobs
  /\ setting.calm =>
       \A v \in Workers : pc[v] # "idle" => what \notin Cleaning /\ job[v] \notin Cleaning
  /\ calls' = calls - 1
  /\ pc' = [pc EXCEPT ![w] = FirstStep[what]]
  /\ job' = [job EXCEPT ![w] = what]
  /\ user' = [user EXCEPT ![w] = u]
  \* claim names a did, remove and reg have one; the others look it up.
  /\ IF what \in {"claim", "remove"} THEN \E d \in Dids : did' = [did EXCEPT ![w] = d]
     ELSE IF what = "reg" THEN held # None /\ did' = [did EXCEPT ![w] = held]
     ELSE UNCHANGED did
  /\ UNCHANGED <<setting, tables, locks, held, history>>

-----------------------------------------------------------------------------
(* The three transactions: ztp.claimDevice, updateDeviceStatus(true) and   *)
(* updateDeviceStatus(false).                                              *)

BeginTx(w) ==
  /\ pc[w] = "begin" /\ ConnectionFree
  /\ Goto(w, IF job[w] = "reset" THEN "read" ELSE "update")
  /\ UNCHANGED <<setting, calls, tables, locks, held, history, did>>

\* A reset reads the did before it updates.
ReadDid(w) ==
  /\ pc[w] = "read"
  /\ did' = [did EXCEPT ![w] = inv.did]
  /\ Goto(w, "update")
  /\ UNCHANGED <<setting, calls, tables, locks, held, history>>

\* The row the UPDATE is about: pending only, or any for a reset.
Updatable(w) == inv.did # None /\ (job[w] = "reset" \/ ~ inv.provisioned)

\* Fault: the row is looked at first and updated without its condition.
UpdateRowAny(w) ==
  /\ pc[w] = "update" /\ inv.did # None /\ invLock = None
  /\ invLock' = w
  /\ IF job[w] = "reset" THEN UNCHANGED did ELSE did' = [did EXCEPT ![w] = inv.did]
  /\ Goto(w, "devices")
  /\ UNCHANGED <<setting, calls, tables, devLock, appLock, held, history>>

\* Waits while another transaction has the row, then looks at it anew.
UpdateRow(w) ==
  /\ pc[w] = "update" /\ Updatable(w) /\ invLock = None
  /\ invLock' = w
  /\ IF job[w] = "reset" THEN UNCHANGED did ELSE did' = [did EXCEPT ![w] = inv.did]
  /\ Goto(w, "devices")
  /\ UNCHANGED <<setting, calls, tables, devLock, appLock, held, history>>

\* No rows.  The factory asks the pool, not its transaction, why.
UpdateNoRow(w) ==
  /\ pc[w] = "update" /\ ~ Updatable(w)
  /\ IF job[w] = "factory" THEN Goto(w, "exists") /\ UNCHANGED did ELSE Finish(w)
  /\ UNCHANGED <<setting, calls, tables, locks, held, history>>

\* "Already provisioned" or "not in inventory".
Exists(w) ==
  /\ pc[w] = "exists" /\ ConnectionFree
  /\ Finish(w)
  /\ UNCHANGED <<setting, calls, tables, locks, held, history>>

\* The devices row: upserted, inserted if missing, or deleted.
WriteDevices(w) ==
  /\ pc[w] = "devices"
  /\ IF did[w] = None \/ (job[w] = "reset" /\ did[w] \notin devices)
     THEN UNCHANGED devLock
     ELSE devLock[did[w]] = None /\ devLock' = [devLock EXCEPT ![did[w]] = w]
  /\ Goto(w, IF job[w] = "reset" THEN "owner" ELSE "commit")
  /\ UNCHANGED <<setting, calls, tables, invLock, appLock, held, history, did>>

\* Fault: only devices is cleaned.
DeleteOwnerNot(w) ==
  /\ pc[w] = "owner"
  /\ Goto(w, "commit")
  /\ UNCHANGED <<setting, calls, tables, locks, held, history, did>>

\* The reset's DELETE takes the app_devices row it sees.
DeleteOwner(w) ==
  /\ pc[w] = "owner"
  /\ IF did[w] = None \/ owner[did[w]] = None THEN UNCHANGED appLock
     ELSE appLock[did[w]] = None /\ appLock' = [appLock EXCEPT ![did[w]] = w]
  /\ Goto(w, "commit")
  /\ UNCHANGED <<setting, calls, tables, invLock, devLock, held, history, did>>

\* Fault: a transaction that ends keeps its lock on the inventory row.
CommitResetLocked(w) ==
  /\ pc[w] = "commit" /\ job[w] = "reset"
  /\ inv' = Pending(inv.did)
  /\ devices' = {d \in devices : devLock[d] # w}
  /\ owner' = [d \in Dids |-> IF appLock[d] = w THEN None ELSE owner[d]]
  /\ given' = 0
  /\ UNCHANGED locks
  /\ Finish(w)
  /\ UNCHANGED <<setting, calls, held, owners, signed>>

CommitReset(w) ==
  /\ pc[w] = "commit" /\ job[w] = "reset"
  /\ inv' = Pending(inv.did)
  /\ devices' = {d \in devices : devLock[d] # w}
  /\ owner' = [d \in Dids |-> IF appLock[d] = w THEN None ELSE owner[d]]
  /\ given' = 0
  /\ Unlock(w)
  /\ Finish(w)
  /\ UNCHANGED <<setting, calls, held, owners, signed>>

\* Fault: the devices row is left to the device's first message.
CommitClaimNoRow(w) ==
  /\ pc[w] = "commit" /\ job[w] # "reset"
  /\ inv' = [inv EXCEPT !.provisioned = TRUE,
                        !.status = IF job[w] = "factory" THEN "provisioned" ELSE @]
  /\ given' = given + 1
  /\ Unlock(w)
  /\ Goto(w, "answer")
  /\ UNCHANGED <<setting, calls, devices, owner, held, owners, signed, did>>

\* The admin's switch leaves the status as it is.
CommitClaim(w) ==
  /\ pc[w] = "commit" /\ job[w] # "reset"
  /\ inv' = [inv EXCEPT !.provisioned = TRUE,
                        !.status = IF job[w] = "factory" THEN "provisioned" ELSE @]
  /\ devices' = devices \cup {did[w]}
  /\ given' = given + 1
  /\ Unlock(w)
  /\ Goto(w, "answer")
  /\ UNCHANGED <<setting, calls, owner, held, owners, signed, did>>

\* A statement of the transaction fails, a later one or the commit reports it.
Rollback(w) ==
  /\ setting.faulty /\ InTransaction(w)
  /\ Unlock(w)
  /\ Finish(w)
  /\ UNCHANGED <<setting, calls, tables, held, history>>

\* The factory tool writes the credentials into the device, unless the answer
\* is lost; the admin just sees it.
Answer(w) ==
  /\ pc[w] = "answer"
  /\ \/ held' = IF job[w] = "factory" THEN did[w] ELSE held
     \/ setting.faulty /\ UNCHANGED held
  /\ Finish(w)
  /\ UNCHANGED <<setting, calls, tables, locks, history>>

-----------------------------------------------------------------------------
(* deleteDevice, and addDevice or an import of the same MAC.               *)

DeleteLook(w) ==
  /\ pc[w] = "look" /\ job[w] = "delete" /\ ConnectionFree
  /\ IF inv.did # None /\ inv.provisioned THEN Finish(w) ELSE Goto(w, "delete") /\ UNCHANGED did
  /\ UNCHANGED <<setting, calls, tables, locks, held, history>>

DeleteRow(w) ==
  /\ pc[w] = "delete" /\ ConnectionFree
  /\ IF inv.did # None /\ ~ inv.provisioned
     THEN invLock = None /\ inv' = Pending(None) /\ given' = 0
     ELSE UNCHANGED <<inv, given>>
  /\ Finish(w)
  /\ UNCHANGED <<setting, calls, devices, owner, locks, held, owners, signed>>

\* A new did each time.
AddDevice ==
  /\ inv.did = None
  /\ \E d \in Dids :
       /\ d \notin devices /\ owner[d] = None /\ d # held
       /\ \A w \in Workers : did[w] # d
       /\ inv' = Pending(d)
  /\ UNCHANGED <<setting, calls, devices, owner, locks, held, history, workerVars>>

-----------------------------------------------------------------------------
(* Ownership.                                                              *)

SetOwner(w) ==
  /\ owner' = [owner EXCEPT ![did[w]] = user[w]]
  /\ owners' = owners \cup {<<user[w], did[w]>>}

\* AdoptDevice finds the MAC of a provisioned device.
AdoptLook(w) ==
  /\ pc[w] = "look" /\ job[w] = "adopt" /\ ConnectionFree
  /\ IF inv.did # None /\ inv.provisioned
     THEN did' = [did EXCEPT ![w] = inv.did] /\ Goto(w, "link")
     ELSE Finish(w)
  /\ UNCHANGED <<setting, calls, tables, locks, held, history>>

\* ON CONFLICT (did) DO UPDATE: the device changes hands.
AdoptLink(w) ==
  /\ pc[w] = "link" /\ ConnectionFree /\ appLock[did[w]] = None
  /\ SetOwner(w)
  /\ Finish(w)
  /\ UNCHANGED <<setting, calls, inv, devices, locks, held, given, signed>>

\* SignBLENonce: every way to name a device ends at a devices row.
SignLook(w) ==
  /\ pc[w] = "look" /\ job[w] = "sign" /\ ConnectionFree
  /\ \/ \E d \in devices : did' = [did EXCEPT ![w] = d] /\ Goto(w, "check")
     \/ devices = {} /\ Finish(w)
  /\ UNCHANGED <<setting, calls, tables, locks, held, history>>

\* An error of this SELECT passes for "nobody".
SignCheck(w) ==
  /\ pc[w] = "check" /\ ConnectionFree
  /\ \/ owner[did[w]] = user[w] /\ Goto(w, "sign") /\ UNCHANGED did
     \/ (owner[did[w]] = None \/ setting.faulty) /\ Goto(w, "first") /\ UNCHANGED did
     \/ owner[did[w]] \notin {None, user[w]} /\ Finish(w)
  /\ UNCHANGED <<setting, calls, tables, locks, held, history>>

\* First use: ON CONFLICT (did) DO NOTHING, its error ignored.
SignFirst(w) ==
  /\ pc[w] = "first" /\ ConnectionFree /\ appLock[did[w]] = None
  /\ IF owner[did[w]] = None THEN SetOwner(w) \/ (setting.faulty /\ UNCHANGED <<owner, owners>>)
                             ELSE UNCHANGED <<owner, owners>>
  /\ Goto(w, "again")
  /\ UNCHANGED <<setting, calls, inv, devices, locks, held, given, signed, did>>

\* Fault: the insert is believed to have worked.
SignAgainNot(w) ==
  /\ pc[w] = "again" /\ ConnectionFree
  /\ Goto(w, "sign")
  /\ UNCHANGED <<setting, calls, tables, locks, held, history, did>>

\* "Re-read to detect a simultaneous claim race."
SignAgain(w) ==
  /\ pc[w] = "again" /\ ConnectionFree
  /\ IF owner[did[w]] = user[w] THEN Goto(w, "sign") /\ UNCHANGED did ELSE Finish(w)
  /\ UNCHANGED <<setting, calls, tables, locks, held, history>>

Sign(w) ==
  /\ pc[w] = "sign"
  /\ signed' = signed \cup {<<user[w], did[w]>>}
  /\ Finish(w)
  /\ UNCHANGED <<setting, calls, tables, locks, held, given, owners>>

\* ClaimDevice makes the devices row it needs, then fails if the did is taken.
ClaimRow(w) ==
  /\ pc[w] = "row" /\ ConnectionFree /\ devLock[did[w]] = None
  /\ devices' = devices \cup {did[w]}
  /\ Goto(w, "insert")
  /\ UNCHANGED <<setting, calls, inv, owner, locks, held, history, did>>

ClaimInsert(w) ==
  /\ pc[w] = "insert" /\ ConnectionFree /\ appLock[did[w]] = None
  /\ IF owner[did[w]] = None THEN SetOwner(w) ELSE UNCHANGED <<owner, owners>>
  /\ Finish(w)
  /\ UNCHANGED <<setting, calls, inv, devices, locks, held, given, signed>>

\* DeleteDevice of the app: its own row only.
RemoveDevice(w) ==
  /\ pc[w] = "remove" /\ ConnectionFree
  /\ IF owner[did[w]] = user[w]
     THEN appLock[did[w]] = None /\ owner' = [owner EXCEPT ![did[w]] = None]
     ELSE UNCHANGED owner
  /\ Finish(w)
  /\ UNCHANGED <<setting, calls, inv, devices, locks, held, history>>

\* The device says "reg": handleReg upserts its row, whatever the inventory says.
HandleReg(w) ==
  /\ pc[w] = "reg" /\ ConnectionFree /\ devLock[did[w]] = None
  /\ devices' = devices \cup {did[w]}
  /\ Finish(w)
  /\ UNCHANGED <<setting, calls, inv, owner, locks, held, history>>

\* A statement outside a transaction fails and ends its request.
Fail(w) ==
  /\ setting.faulty
  /\ pc[w] \in {"begin", "look", "delete", "link", "again", "row", "insert", "remove", "reg"}
  /\ Finish(w)
  /\ UNCHANGED <<setting, calls, tables, locks, held, history>>

-----------------------------------------------------------------------------

Transact(w) ==
  \/ BeginTx(w) \/ ReadDid(w) \/ UpdateRow(w) \/ UpdateNoRow(w) \/ Exists(w)
  \/ WriteDevices(w) \/ DeleteOwner(w) \/ CommitReset(w) \/ CommitClaim(w)
  \/ Rollback(w) \/ Answer(w)

Own(w) ==
  \/ AdoptLook(w) \/ AdoptLink(w)
  \/ SignLook(w) \/ SignCheck(w) \/ SignFirst(w) \/ SignAgain(w) \/ Sign(w)
  \/ ClaimRow(w) \/ ClaimInsert(w) \/ RemoveDevice(w)

Continue(w) ==
  Transact(w) \/ DeleteLook(w) \/ DeleteRow(w) \/ Own(w) \/ HandleReg(w) \/ Fail(w)

Next ==
  \/ AddDevice
  \/ \E w \in Workers :
       Continue(w) \/ \E what \in Jobs, u \in Users : Request(w, what, u)

Spec == Init /\ [][Next]_vars

\* Goroutines run to their end.
FairSpec == Spec /\ \A w \in Workers : WF_vars(Continue(w))

-----------------------------------------------------------------------------
\* Between two resets the device is handed out once, to the factory or by the
\* admin's switch, however many stations ask at the same time.
HandedOutOnce == given <= 1

\* A provisioned device has its devices row, or its messages and commands would
\* be refused: no reset, delete or failure in between takes one of the two.
ProvisionedHasRow == inv.provisioned => inv.did \in devices

\* deleteDevice looks first and deletes later; it never deletes a device that has
\* been provisioned in the meantime.
DeletedOnlyPending == [][inv.did # None /\ inv'.did = None => ~ inv.provisioned]_vars

Life == INSTANCE Provisioning
          WITH item <- inv.did, provisioned <- inv.provisioned, row <- inv.did \in devices

\* claimDevice: the guarded UPDATE makes every claim, switch, reset and delete one step of
\* the device's life, which hands it out once and removes it only while it is pending.
DeviceLife == Life!Spec

\* A nonce is signed only for somebody to whom the device has been linked: of two
\* first users one gets 403, also when statements fail.
SignedForOwners == signed \subseteq owners

\* updateDeviceStatus: "so the device is completely clean".  A device that is not
\* provisioned has no owner and no devices row, if nothing ran while it was reset
\* (and nobody makes the row by hand).
CleanWhenPending ==
  setting.calm /\ setting.jobs \cap {"claim", "reg"} = {} =>
    \A d \in Dids :
      ~ (inv.provisioned /\ inv.did = d) => d \notin devices /\ owner[d] = None

\* Every request ends if there are more connections than requests at a time.
RequestsEnd ==
  \A w \in Workers :
    pc[w] # "idle" /\ Cardinality(Workers) < setting.pool ~> pc[w] = "idle"
================================================================================
