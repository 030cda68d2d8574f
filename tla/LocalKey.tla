------------------------------- MODULE LocalKey -------------------------------
(***************************************************************************)
(* The LAN key of one device.  localkey.getOrCreateRaw reads the key,      *)
(* draws one when there is none, inserts it unless another caller was      *)
(* faster and reads again; the row is never updated or deleted.  The key   *)
(* is handed to the app (GetLocalKey) and pushed to the device as a "klk"  *)
(* command on the request of the app, on adoption, and whenever an adopted *)
(* device that has never acknowledged a klk says hello.                    *)
(*                                                                         *)
(* The device follows the topics of its own tenant; an app_devices row is  *)
(* always under the consumer tenant, and a claim may add a devices row     *)
(* there.  A caller is one goroutine; it may be used again.                *)
(***************************************************************************)
EXTENDS Naturals, FiniteSets

CONSTANTS
  Callers,      \* goroutines of requests, adoptions and message handlers
  Tenants,      \* tenant ids
  HomeTid,      \* the tid of the device's inventory row and of its firmware
  ConsumerTid,  \* cfg.ConsumerTID
  Keys,         \* 16-byte keys
  None,         \* no key
  Settings      \* what goes on, see Setting

\* drops: bound on the device's disconnections.  faulty: whether statements may
\* fail.  resets: whether the admin resets the device and its NVS gets wiped.
Setting == [drops : Nat, faulty : BOOLEAN, resets : BOOLEAN]

ASSUME LocalKeyAssumptions ==
  /\ HomeTid \in Tenants /\ ConsumerTid \in Tenants
  /\ None \notin Keys
  /\ Settings \subseteq Setting

VARIABLES
  setting,
  table,        \* device_local_keys: the key of (tid, this device)
  provisioned,  \* device_inventory.provisioned_at IS NOT NULL
  rows,         \* tenants under which the device has a devices row
  seen,         \* the home row's last_seen_at IS NOT NULL
  adopted,      \* there is an app_devices row
  acked,        \* there is a klk command with status 'acked_ok'
  pc,           \* next step of each caller
  kind,         \* what the caller wants the key for
  route,        \* the tid it uses
  drawn,        \* the key it has generated
  got,          \* the key getOrCreateRaw returned to it
  row,          \* its klk command row exists
  dn,           \* klk messages in flight
  acks,         \* acknowledgements in flight: whether their row still exists
  hello,        \* boo and reg messages not yet handled
  nvs,          \* the key the device holds
  online,       \* the device is subscribed
  drops,        \* disconnections left
  handed        \* keys handed to the app (history)

adminVars  == <<provisioned, rows, seen, adopted>>
callerVars == <<pc, kind, route, drawn, got, row>>
deviceVars == <<dn, acks, hello, nvs, online, drops>>
vars == <<setting, table, adminVars, acked, callerVars, deviceVars, handed>>

Steps    == {"idle", "link", "adopted?", "acked?", "select", "insert", "reread",
             "have", "publish"}
Message  == [tid : Tenants, key : Keys, row : BOOLEAN]
MaybeKey == Keys \cup {None}

TypeOK ==
  /\ setting \in Settings
  /\ table \in [Tenants -> MaybeKey]
  /\ provisioned \in BOOLEAN /\ seen \in BOOLEAN /\ adopted \in BOOLEAN
  /\ rows \subseteq Tenants
  /\ acked \in BOOLEAN
  /\ pc \in [Callers -> Steps]
  /\ kind \in [Callers -> {"hand", "push"}]
  /\ route \in [Callers -> Tenants]
  /\ drawn \in [Callers -> MaybeKey]
  /\ got \in [Callers -> MaybeKey]
  /\ row \in [Callers -> BOOLEAN]
  /\ dn \subseteq Message
  /\ acks \subseteq BOOLEAN
  /\ hello \subseteq {"boo", "reg"}
  /\ nvs \in MaybeKey
  /\ online \in BOOLEAN
  /\ drops \in 0..setting.drops
  /\ handed \subseteq Keys

Init ==
  /\ setting \in Settings
  /\ table = [t \in Tenants |-> None]
  /\ provisioned = TRUE /\ rows = {HomeTid} /\ seen = FALSE
  /\ adopted = FALSE /\ acked = FALSE
  /\ pc = [c \in Callers |-> "idle"]
  /\ kind = [c \in Callers |-> "hand"]
  /\ route = [c \in Callers |-> HomeTid]
  /\ drawn = [c \in Callers |-> None]
  /\ got = [c \in Callers |-> None]
  /\ row = [c \in Callers |-> FALSE]
  /\ dn = {} /\ acks = {} /\ hello = {} /\ nvs = None
  /\ online = FALSE /\ drops = setting.drops /\ handed = {}

\* The caller starts getOrCreateRaw for tid.
Start(c, tid, why) ==
  /\ pc' = [pc EXCEPT ![c] = "select"]
  /\ kind' = [kind EXCEPT ![c] = why]
  /\ route' = [route EXCEPT ![c] = tid]
  /\ UNCHANGED <<drawn, got, row>>

\* The caller is through, or has met an error; its goroutine forgets all.
Finish(c) ==
  /\ pc' = [pc EXCEPT ![c] = "idle"]
  /\ drawn' = [drawn EXCEPT ![c] = None]
  /\ got' = [got EXCEPT ![c] = None]
  /\ row' = [row EXCEPT ![c] = FALSE]
  /\ kind' = [kind EXCEPT ![c] = "hand"]
  /\ route' = [route EXCEPT ![c] = HomeTid]

Goto(c, step) ==
  /\ pc' = [pc EXCEPT ![c] = step]
  /\ UNCHANGED <<kind, route, drawn, got, row>>

Fails(c) ==
  /\ setting.faulty
  /\ Finish(c)
  /\ UNCHANGED <<setting, adminVars, acked, deviceVars, handed>>

-----------------------------------------------------------------------------
(* Administration and ownership.                                           *)

\* claimDevice at the factory, after an admin reset.
Provision ==
  /\ ~ provisioned
  /\ provisioned' = TRUE
  /\ rows' = rows \cup {HomeTid}
  /\ UNCHANGED <<setting, seen, adopted, table, acked, callerVars, deviceVars, handed>>

\* The admin's "back to inventory": devices, commands and app_devices rows go,
\* the row of device_local_keys stays.
Reset ==
  /\ setting.resets /\ provisioned
  /\ provisioned' = FALSE /\ rows' = {} /\ seen' = FALSE
  /\ adopted' = FALSE /\ acked' = FALSE
  /\ row' = [c \in Callers |-> FALSE]
  /\ dn' = {[m EXCEPT !.row = FALSE] : m \in dn}
  /\ acks' = {FALSE : a \in acks}
  /\ UNCHANGED <<setting, table, pc, kind, route, drawn, got, hello, nvs, online, drops, handed>>

ClaimDevice ==
  /\ rows' = rows \cup {ConsumerTid}
  /\ adopted' = TRUE
  /\ UNCHANGED <<setting, table, provisioned, seen, acked, callerVars, deviceVars, handed>>

\* AdoptDevice reads the inventory, then links, then pushes the key.
AdoptLook(c) ==
  /\ pc[c] = "idle" /\ provisioned
  /\ Goto(c, "link")
  /\ UNCHANGED <<setting, table, adminVars, acked, deviceVars, handed>>

AdoptLink(c) ==
  /\ pc[c] = "link"
  /\ adopted' = TRUE
  /\ Start(c, HomeTid, "push")
  /\ UNCHANGED <<setting, table, provisioned, rows, seen, acked, deviceVars, handed>>

\* The row that was seen last; rows never seen tie; no row, the consumer tid.
OwnedDeviceRoute ==
  IF HomeTid \in rows /\ seen THEN {HomeTid}
  ELSE IF rows # {} THEN rows
  ELSE {ConsumerTid}

GetLocalKey(c, tid) ==
  /\ pc[c] = "idle" /\ adopted /\ tid \in OwnedDeviceRoute
  /\ Start(c, tid, "hand")
  /\ UNCHANGED <<setting, table, adminVars, acked, deviceVars, handed>>

ProvisionLocalKey(c, tid) ==
  /\ pc[c] = "idle" /\ adopted /\ tid \in OwnedDeviceRoute
  /\ Start(c, tid, "push")
  /\ UNCHANGED <<setting, table, adminVars, acked, deviceVars, handed>>

-----------------------------------------------------------------------------
(* localkey.getOrCreateRaw.                                                *)

Fresh(k) ==
  /\ \A t \in Tenants : table[t] # k
  /\ \A c \in Callers : drawn[c] # k

SelectKey(c) ==
  /\ pc[c] = "select"
  /\ UNCHANGED table
  /\ \/ /\ table[route[c]] # None
        /\ got' = [got EXCEPT ![c] = table[route[c]]]
        /\ pc' = [pc EXCEPT ![c] = "have"]
        /\ UNCHANGED <<setting, adminVars, acked, kind, route, drawn, row, deviceVars, handed>>
     \/ /\ table[route[c]] = None
        /\ \E k \in Keys : Fresh(k) /\ drawn' = [drawn EXCEPT ![c] = k]
        /\ pc' = [pc EXCEPT ![c] = "insert"]
        /\ UNCHANGED <<setting, adminVars, acked, kind, route, got, row, deviceVars, handed>>
     \/ Fails(c)

\* Fault: ON CONFLICT DO UPDATE.
InsertKeyOver(c) ==
  /\ pc[c] = "insert"
  /\ table' = [table EXCEPT ![route[c]] = drawn[c]]
  /\ Goto(c, "reread")
  /\ UNCHANGED <<setting, adminVars, acked, deviceVars, handed>>

\* INSERT ... ON CONFLICT DO NOTHING; an error may hide a row that was written.
InsertKey(c) ==
  /\ pc[c] = "insert"
  /\ \/ /\ table' = IF table[route[c]] = None
                    THEN [table EXCEPT ![route[c]] = drawn[c]] ELSE table
        /\ \/ Goto(c, "reread") /\ UNCHANGED <<setting, adminVars, acked, deviceVars, handed>>
           \/ Fails(c)
     \/ UNCHANGED table /\ Fails(c)

\* Fault: the caller returns the key it has drawn.
RereadKeyNot(c) ==
  /\ pc[c] = "reread"
  /\ got' = [got EXCEPT ![c] = drawn[c]]
  /\ pc' = [pc EXCEPT ![c] = "have"]
  /\ UNCHANGED <<setting, table, adminVars, acked, kind, route, drawn, row, deviceVars, handed>>

RereadKey(c) ==
  /\ pc[c] = "reread"
  /\ UNCHANGED table
  /\ \/ /\ table[route[c]] # None
        /\ got' = [got EXCEPT ![c] = table[route[c]]]
        /\ pc' = [pc EXCEPT ![c] = "have"]
        /\ UNCHANGED <<setting, adminVars, acked, kind, route, drawn, row, deviceVars, handed>>
     \/ (setting.faulty \/ table[route[c]] = None) /\ Finish(c)
        /\ UNCHANGED <<setting, adminVars, acked, deviceVars, handed>>

-----------------------------------------------------------------------------
(* What the callers do with the key.                                       *)

HandKey(c) ==
  /\ pc[c] = "have" /\ kind[c] = "hand"
  /\ handed' = handed \cup {got[c]}
  /\ Finish(c)
  /\ UNCHANGED <<setting, table, adminVars, acked, deviceVars>>

\* Provision inserts the klk command, which needs the devices row of the tid.
RecordPush(c) ==
  /\ pc[c] = "have" /\ kind[c] = "push"
  /\ \/ /\ route[c] \in rows
        /\ pc' = [pc EXCEPT ![c] = "publish"]
        /\ row' = [row EXCEPT ![c] = TRUE]
        /\ UNCHANGED <<setting, adminVars, acked, kind, route, drawn, got, deviceVars, handed>>
     \/ /\ setting.faulty \/ route[c] \notin rows
        /\ Finish(c)
        /\ UNCHANGED <<setting, adminVars, acked, deviceVars, handed>>
  /\ UNCHANGED table

Publish(c) ==
  /\ pc[c] = "publish"
  /\ dn' = dn \cup {[tid |-> route[c], key |-> got[c], row |-> row[c]]}
  /\ Finish(c)
  /\ UNCHANGED <<setting, table, adminVars, acked, acks, hello, nvs, online, drops, handed>>

-----------------------------------------------------------------------------
(* mqtt.Router: hello messages and acknowledgements.                       *)

\* handleBoo updates the row if there is one, handleReg inserts it.
HandleHello(c, what) ==
  /\ pc[c] = "idle" /\ what \in hello
  /\ hello' = hello \ {what}
  /\ rows' = IF what = "reg" THEN rows \cup {HomeTid} ELSE rows
  /\ seen' = (HomeTid \in rows')
  /\ Goto(c, "adopted?")
  /\ UNCHANGED <<setting, table, provisioned, adopted, acked, dn, acks, nvs, online,
                 drops, handed>>

EnsureAdopted(c) ==
  /\ pc[c] = "adopted?"
  /\ Goto(c, IF adopted THEN "acked?" ELSE "idle")
  /\ UNCHANGED <<setting, table, adminVars, acked, deviceVars, handed>>

\* Fault: the retry is given up once any klk has been published.
EnsureUnsent(c) ==
  /\ pc[c] = "acked?"
  /\ IF (table[HomeTid] = None) /\ HomeTid \in rows
     THEN Start(c, HomeTid, "push") ELSE Goto(c, "idle")
  /\ UNCHANGED <<setting, table, adminVars, acked, deviceVars, handed>>

EnsureUnacked(c) ==
  /\ pc[c] = "acked?"
  /\ IF ~ acked /\ HomeTid \in rows THEN Start(c, HomeTid, "push") ELSE Goto(c, "idle")
  /\ UNCHANGED <<setting, table, adminVars, acked, deviceVars, handed>>

HandleAck(a) ==
  /\ a \in acks
  /\ acks' = acks \ {a}
  /\ acked' = (acked \/ a)
  /\ UNCHANGED <<setting, table, adminVars, callerVars, dn, hello, nvs, online, drops, handed>>

-----------------------------------------------------------------------------
(* The device.                                                             *)

\* It subscribes, then announces itself.
Connect(what) ==
  /\ ~ online
  /\ online' = TRUE
  /\ hello' = hello \cup {what}
  /\ UNCHANGED <<setting, table, adminVars, acked, callerVars, dn, acks, nvs, drops, handed>>

Disconnect ==
  /\ online /\ drops > 0
  /\ online' = FALSE
  /\ drops' = drops - 1
  /\ UNCHANGED <<setting, table, adminVars, acked, callerVars, dn, acks, hello, nvs, handed>>

\* A klk on the device's own topic is stored and acknowledged, even a repeated one.
StoreKey(m) ==
  /\ online /\ m \in dn /\ m.tid = HomeTid
  /\ nvs' = m.key
  /\ dn' = dn \ {m}
  /\ acks' = acks \cup {m.row}
  /\ UNCHANGED <<setting, table, adminVars, acked, callerVars, hello, online, drops, handed>>

\* What is published while nobody is subscribed is gone.
Lose(m) ==
  /\ m \in dn
  /\ ~ online \/ m.tid # HomeTid
  /\ dn' = dn \ {m}
  /\ UNCHANGED <<setting, table, adminVars, acked, callerVars, acks, hello, nvs,
                 online, drops, handed>>

\* Reflashing wipes the key, and the device starts again.
Wipe ==
  /\ setting.resets /\ nvs # None
  /\ nvs' = None
  /\ UNCHANGED <<setting, table, adminVars, acked, callerVars, dn, acks, hello, online,
                 drops, handed>>

-----------------------------------------------------------------------------

Begin(c) ==
  \/ AdoptLook(c)
  \/ \E tid \in Tenants : GetLocalKey(c, tid) \/ ProvisionLocalKey(c, tid)

Answer(c) == \E what \in {"boo", "reg"} : HandleHello(c, what)

Continue(c) ==
  \/ AdoptLink(c) \/ EnsureAdopted(c) \/ EnsureUnacked(c)
  \/ SelectKey(c) \/ InsertKey(c) \/ RereadKey(c)
  \/ HandKey(c) \/ RecordPush(c) \/ Publish(c)

Next ==
  \/ Provision \/ Reset \/ ClaimDevice \/ Disconnect \/ Wipe
  \/ \E c \in Callers : Begin(c) \/ Answer(c) \/ Continue(c)
  \/ \E a \in BOOLEAN : HandleAck(a)
  \/ \E what \in {"boo", "reg"} : Connect(what)
  \/ \E m \in dn : StoreKey(m) \/ Lose(m)

Spec == Init /\ [][Next]_vars

\* Goroutines run to their end and some goroutine takes each message; a device
\* that is down comes back, and while it is up the broker delivers.
FairSpec ==
  /\ Spec
  /\ \A c \in Callers : WF_vars(Continue(c))
  /\ SF_vars(\E c \in Callers : Answer(c))
  /\ WF_vars(\E what \in {"boo", "reg"} : Connect(what))
  /\ WF_vars(\E m \in dn : StoreKey(m))

-----------------------------------------------------------------------------
(* Safety.                                                                 *)

\* Whoever was first, every caller that has been given a key has been given
\* the one in the table: concurrent first use is settled by the insert.
CallersAgree == \A c \in Callers : got[c] # None => got[c] = table[route[c]]

\* The device holds the key of its own tenant's row or none: no push of a key
\* that lost the race, and no key from a claim under another tenant, gets in.
DeviceHasStoredKey == nvs # None => nvs = table[HomeTid]

\* What a caller holds, as the register sees it.
held == [c \in Callers |-> IF got[c] = None THEN None ELSE <<route[c], got[c]>>]
Register == INSTANCE WriteOnce WITH stored <- table, answer <- held

\* The service implements a register that is written once: the first insert
\* fixes the key for ever, and callers only ever learn that key.
WrittenOnce == Register!Spec

\* localkey.go: the cloud "hands the same key to the owner's app, so both sides
\* derive the identical LAN session".
AppHasDeviceKey == nvs # None => handed \subseteq {nvs}

(* Liveness.                                                               *)

\* A device gets its key once its adoption has begun, or once it is owned and
\* offline, even when the push made on adoption was lost because the device
\* was still connecting.  (A claim alone pushes nothing to a device that is up.)
AdoptedGetsKey ==
  (/\ ~ setting.faulty /\ ~ setting.resets
   /\ \/ \E c \in Callers : pc[c] = "link"
      \/ adopted /\ ~ online) ~> nvs # None

================================================================================
