-------------------------------- MODULE EventFan --------------------------------
(***************************************************************************)
(* What becomes of a device's report after it is in the shadows table: the *)
(* router publishes it on a Redis channel, on which two goroutines of a    *)
(* server listen.  The hub offers every event to the WebSocket clients of  *)
(* the tenant, each with a buffer, a write pump and a read pump; the       *)
(* proactive service starts a goroutine per event that reads the device's  *)
(* state again and pushes it to the platforms its owner has linked.        *)
(*                                                                         *)
(* Reports are numbered in the order of their commits; the number stands   *)
(* for the event and for the state of the device after it.                 *)
(***************************************************************************)
EXTENDS Naturals, Sequences, FiniteSets

CONSTANTS
  Clients,    \* WebSocket connections
  Pushers,    \* goroutines of the proactive service
  Users,      \* who may own the device
  Platforms,  \* voice platforms
  None,       \* nobody
  Capacity,   \* of a client's buffer, 256 in the code
  MaxReports, \* bound on the reports
  MaxMoves,   \* bound on the changes of owner
  FanSettings \* what goes on, see FanSetting

\* clients: those that may connect.  owner: who has the device at first.
\* reports, moves: how many there are, and how often the owner changes, at most.
\* linked: which users have linked which platforms.  supported: the platforms the
\* product is enabled for.  pushable: the links a push is made for: there is a token for it,
\* and for Alexa the static catalogue shows something of the device.  consumer: the device
\* belongs to the consumer tenant.  faulty: SELECTs, the batch, Redis and pushes may fail.
FanSetting ==
  [clients : SUBSET Clients, owner : Users, reports : 0..MaxReports, moves : 0..MaxMoves,
   linked : SUBSET (Users \X Platforms), supported : SUBSET Platforms,
   pushable : SUBSET (Users \X Platforms), consumer : BOOLEAN, faulty : BOOLEAN]

ASSUME FanAssumptions ==
  /\ None \notin Users
  /\ Capacity \in Nat \ {0} /\ MaxReports \in Nat /\ MaxMoves \in Nat
  /\ FanSettings \subseteq FanSetting

Reports == 1..MaxReports

VARIABLES
  scene,
  reports,  \* the number of reports handled
  stored,   \* the last one in the shadows table, 0 for none
  pending,  \* written, and not yet published
  hubq,     \* on its way to the hub
  proq,     \* on its way to the proactive service
  clients,  \* the hub's map
  frame,    \* the frame being broadcast, or 0
  rest,     \* the clients it is still to be offered to; the hub is read-locked meanwhile
  buf,      \* the send channel of each client
  closed,   \* the send channels that are closed
  open,     \* the connections that are open
  wpump,    \* the state of each write pump
  rpump,    \* the state of each read pump
  writing,  \* the frame the write pump has taken
  owner,    \* app_devices.owner_id
  moves,    \* changes of owner
  pc,       \* the next statement of each goroutine
  uid,      \* the owner it has read
  dps,      \* the state it has read, 0 for one read in part
  todo,     \* the platforms it has not been through
  to,       \* the platform it is about to push to
  shown,    \* what each platform shows each user, 0 for nothing
  got,      \* what each client has received (history)
  offered,  \* what was broadcast while it was registered (history)
  missed,   \* what found its buffer full (history)
  heirs,    \* the owners since the state was read (history)
  late,     \* who was shown an older state after a newer one, or part of one, or missed a
            \* push because a statement failed, and was not pushed the newest since (history)
  strays    \* who was pushed a state though since its reading the device was not theirs (history)

queueVars == <<reports, stored, pending, hubq, proq>>
hubVars   == <<clients, frame, rest, buf, closed, open, wpump, rpump, writing, got, offered, missed>>
ownVars   == <<owner, moves>>
pushVars  == <<pc, uid, dps, todo, to, shown, heirs, late, strays>>
fanVars == <<scene, queueVars, hubVars, ownVars, pushVars>>

Steps == {"idle", "owner", "owns", "read", "linked", "check", "push"}

FanTypeOK ==
  /\ scene \in FanSettings
  /\ reports \in 0..MaxReports /\ stored \in 0..reports /\ pending \subseteq 1..reports
  /\ hubq \in Seq(Reports) /\ proq \in Seq(Reports)
  /\ clients \subseteq Clients /\ rest \subseteq Clients
  /\ closed \subseteq Clients /\ open \subseteq Clients
  /\ frame \in 0..MaxReports /\ writing \in [Clients -> 0..MaxReports]
  /\ buf \in [Clients -> Seq(Reports)]
  /\ wpump \in [Clients -> {"none", "wait", "write", "done"}]
  /\ rpump \in [Clients -> {"none", "read", "unregister", "done"}]
  /\ owner \in Users \cup {None} /\ moves \in 0..MaxMoves
  /\ pc \in [Pushers -> Steps]
  /\ uid \in [Pushers -> Users \cup {None}] /\ dps \in [Pushers -> 0..MaxReports]
  /\ todo \in [Pushers -> SUBSET Platforms] /\ to \in [Pushers -> SUBSET Platforms]
  /\ shown \in [Users \X Platforms -> 0..MaxReports]
  /\ got \in [Clients -> Seq(Reports)] /\ offered \in [Clients -> Seq(Reports)]
  /\ missed \in [Clients -> SUBSET Reports]
  /\ heirs \in [Pushers -> SUBSET Users]
  /\ late \subseteq Users \X Platforms /\ strays \subseteq Users

FanInit ==
  /\ scene \in FanSettings
  /\ reports = 0 /\ stored = 0 /\ pending = {} /\ hubq = <<>> /\ proq = <<>>
  /\ clients = {} /\ frame = 0 /\ rest = {} /\ closed = {} /\ open = {}
  /\ buf = [c \in Clients |-> <<>>]
  /\ wpump = [c \in Clients |-> "none"] /\ rpump = [c \in Clients |-> "none"]
  /\ writing = [c \in Clients |-> 0]
  /\ owner = scene.owner /\ moves = 0
  /\ pc = [h \in Pushers |-> "idle"]
  /\ uid = [h \in Pushers |-> None] /\ dps = [h \in Pushers |-> 0]
  /\ todo = [h \in Pushers |-> {}] /\ to = [h \in Pushers |-> {}]
  /\ shown = [x \in Users \X Platforms |-> 0]
  /\ got = [c \in Clients |-> <<>>] /\ offered = [c \in Clients |-> <<>>]
  /\ missed = [c \in Clients |-> {}]
  /\ heirs = [h \in Pushers |-> {}] /\ late = {} /\ strays = {}

-----------------------------------------------------------------------------
(* The router.                                                             *)

\* handleRpt: the batch commits, or fails, which is logged.
HandleRpt ==
  /\ reports < scene.reports
  /\ reports' = reports + 1
  /\ stored' = reports + 1 \/ (scene.faulty /\ stored' = stored)
  /\ pending' = pending \cup {reports + 1}
  /\ UNCHANGED <<scene, hubq, proq, hubVars, ownVars, pushVars>>

\* What these links would have been pushed is not, and nobody will try again.
Miss(links) == late' = late \cup {x \in links : shown[x] # stored}

\* publishWS, for a report: Redis hands the event to both subscriptions.  Two handlers may do so in
\* either order.  The error of the publish is ignored, and a subscription that reconnects does
\* not get the event.  (Nothing is said of events that no user could be pushed.)
PublishReport(e) ==
  /\ e \in pending
  /\ pending' = pending \ {e}
  /\ \/ hubq' = IF scene.clients = {} THEN hubq ELSE Append(hubq, e)
     \/ scene.faulty /\ UNCHANGED hubq
  /\ \/ proq' = (IF scene.linked = {} THEN proq ELSE Append(proq, e)) /\ UNCHANGED late
     \/ scene.faulty /\ UNCHANGED proq /\ Miss(scene.linked)
  /\ UNCHANGED <<scene, reports, stored, hubVars, ownVars, pc, uid, dps, todo, to, shown, heirs,
                 strays>>

-----------------------------------------------------------------------------
(* The hub.                                                                *)

\* HandleWS: upgrade, register under the lock, start the pumps.
HandleWS(c) ==
  /\ c \in scene.clients /\ wpump[c] = "none"
  /\ rest = {}
  /\ clients' = clients \cup {c}
  /\ open' = open \cup {c}
  /\ wpump' = [wpump EXCEPT ![c] = "wait"]
  /\ rpump' = [rpump EXCEPT ![c] = "read"]
  /\ UNCHANGED <<scene, queueVars, frame, rest, buf, closed, writing, got, offered, missed,
                 ownVars, pushVars>>

\* RunRedisSubscriber takes the next message, and Broadcast the read lock.
Broadcast ==
  /\ hubq # <<>> /\ rest = {}
  /\ hubq' = Tail(hubq)
  /\ frame' = Head(hubq)
  /\ rest' = clients
  /\ offered' = [c \in Clients |-> IF c \in clients THEN Append(offered[c], Head(hubq))
                                                    ELSE offered[c]]
  /\ UNCHANGED <<scene, reports, stored, pending, proq, clients, buf, closed, open, wpump, rpump,
                 writing, got, missed, ownVars, pushVars>>

\* Fault: the send waits for a place in the buffer.
OfferWaiting(c) ==
  /\ c \in rest /\ Len(buf[c]) < Capacity
  /\ rest' = rest \ {c}
  /\ buf' = [buf EXCEPT ![c] = Append(@, frame)]
  /\ UNCHANGED <<scene, queueVars, clients, frame, closed, open, wpump, rpump, writing, got,
                 offered, missed, ownVars, pushVars>>

\* The loop of Broadcast over the map, in any order: a full buffer loses the frame.
Offer(c) ==
  /\ c \in rest
  /\ rest' = rest \ {c}
  /\ \/ /\ Len(buf[c]) < Capacity
        /\ buf' = [buf EXCEPT ![c] = Append(@, frame)]
        /\ UNCHANGED missed
     \/ /\ Len(buf[c]) = Capacity
        /\ missed' = [missed EXCEPT ![c] = @ \cup {frame}]
        /\ UNCHANGED buf
  /\ UNCHANGED <<scene, queueVars, clients, frame, closed, open, wpump, rpump, writing, got,
                 offered, ownVars, pushVars>>

\* writePump waits for a frame; it ends when the channel is closed and empty.
WritePump(c) ==
  /\ wpump[c] = "wait"
  /\ \/ /\ buf[c] # <<>>
        /\ writing' = [writing EXCEPT ![c] = Head(buf[c])]
        /\ buf' = [buf EXCEPT ![c] = Tail(@)]
        /\ wpump' = [wpump EXCEPT ![c] = "write"]
        /\ UNCHANGED open
     \/ /\ buf[c] = <<>> /\ c \in closed
        /\ wpump' = [wpump EXCEPT ![c] = "done"]
        /\ open' = open \ {c}
        /\ UNCHANGED <<buf, writing>>
  /\ UNCHANGED <<scene, queueVars, clients, frame, rest, closed, rpump, got, offered, missed,
                 ownVars, pushVars>>

\* Fault: after an error the write pump goes on with the next frame.
WriteGoesOn(c) ==
  /\ wpump[c] = "write"
  /\ \/ c \in open /\ got' = [got EXCEPT ![c] = Append(@, writing[c])]
     \/ UNCHANGED got
  /\ wpump' = [wpump EXCEPT ![c] = "wait"]
  /\ writing' = [writing EXCEPT ![c] = 0]
  /\ UNCHANGED <<scene, queueVars, clients, frame, rest, buf, closed, open, rpump, offered, missed,
                 ownVars, pushVars>>

\* Fault: the write pump ends without closing the connection.
WriteLeaves(c) ==
  /\ wpump[c] = "write"
  /\ \/ /\ c \in open
        /\ got' = [got EXCEPT ![c] = Append(@, writing[c])]
        /\ wpump' = [wpump EXCEPT ![c] = "wait"]
     \/ wpump' = [wpump EXCEPT ![c] = "done"] /\ UNCHANGED got
  /\ writing' = [writing EXCEPT ![c] = 0]
  /\ UNCHANGED <<scene, queueVars, clients, frame, rest, buf, closed, open, rpump, offered, missed,
                 ownVars, pushVars>>

\* WriteMessage delivers the frame, or fails, within ten seconds if the client does
\* not read; the pump then closes the connection and ends.
Write(c) ==
  /\ wpump[c] = "write"
  /\ \/ /\ c \in open
        /\ got' = [got EXCEPT ![c] = Append(@, writing[c])]
        /\ wpump' = [wpump EXCEPT ![c] = "wait"]
        /\ UNCHANGED open
     \/ /\ wpump' = [wpump EXCEPT ![c] = "done"]
        /\ open' = open \ {c}
        /\ UNCHANGED got
  /\ writing' = [writing EXCEPT ![c] = 0]
  /\ UNCHANGED <<scene, queueVars, clients, frame, rest, buf, closed, rpump, offered, missed,
                 ownVars, pushVars>>

\* The client goes away.
HangUp(c) ==
  /\ c \in open
  /\ open' = open \ {c}
  /\ UNCHANGED <<scene, queueVars, clients, frame, rest, buf, closed, wpump, rpump, writing, got,
                 offered, missed, ownVars, pushVars>>

\* readPump: reading a connection that is closed, on either side, is an error.
ReadPump(c) ==
  /\ rpump[c] = "read" /\ c \notin open
  /\ rpump' = [rpump EXCEPT ![c] = "unregister"]
  /\ UNCHANGED <<scene, queueVars, clients, frame, rest, buf, closed, open, wpump, writing, got,
                 offered, missed, ownVars, pushVars>>

\* Fault: unregister does not wait for the broadcast.
UnregisterUnlocked(c) ==
  /\ rpump[c] = "unregister"
  /\ clients' = clients \ {c}
  /\ closed' = closed \cup {c}
  /\ open' = open \ {c}
  /\ rpump' = [rpump EXCEPT ![c] = "done"]
  /\ UNCHANGED <<scene, queueVars, frame, rest, buf, wpump, writing, got, offered, missed,
                 ownVars, pushVars>>

\* unregister: out of the map and the channel closed, under the lock.
Unregister(c) ==
  /\ rpump[c] = "unregister" /\ rest = {}
  /\ clients' = clients \ {c}
  /\ closed' = closed \cup {c}
  /\ open' = open \ {c}
  /\ rpump' = [rpump EXCEPT ![c] = "done"]
  /\ UNCHANGED <<scene, queueVars, frame, rest, buf, wpump, writing, got, offered, missed,
                 ownVars, pushVars>>

-----------------------------------------------------------------------------
(* The proactive service.                                                  *)

Goto(h, step) == pc' = [pc EXCEPT ![h] = step]

Finish(h) ==
  /\ Goto(h, "idle")
  /\ uid' = [uid EXCEPT ![h] = None]
  /\ dps' = [dps EXCEPT ![h] = 0]
  /\ todo' = [todo EXCEPT ![h] = {}]
  /\ to' = [to EXCEPT ![h] = {}]
  /\ heirs' = [heirs EXCEPT ![h] = {}]

\* Run starts a goroutine for the event; of the event it uses the did only.
Run(h) ==
  /\ proq # <<>> /\ pc[h] = "idle"
  /\ proq' = Tail(proq)
  /\ Goto(h, "owner")
  /\ UNCHANGED <<scene, reports, stored, pending, hubq, hubVars, ownVars, uid, dps, todo, to, shown,
                 heirs, late, strays>>

\* A SELECT that fails ends the goroutine, here and in the two steps that follow.
OwnerOfDevice(h) ==
  /\ pc[h] = "owner"
  /\ \/ owner = None /\ Finish(h) /\ UNCHANGED late
     \/ /\ owner # None
        /\ uid' = [uid EXCEPT ![h] = owner]
        /\ Goto(h, "owns")
        /\ UNCHANGED <<dps, todo, to, heirs, late>>
     \/ scene.faulty /\ Finish(h) /\ Miss(scene.linked)
  /\ UNCHANGED <<scene, queueVars, hubVars, ownVars, shown, strays>>

OwnsDevice(h) ==
  /\ pc[h] = "owns"
  /\ \/ owner # uid[h] /\ Finish(h) /\ UNCHANGED late
     \/ owner = uid[h] /\ Goto(h, "read") /\ UNCHANGED <<uid, dps, todo, to, heirs, late>>
     \/ scene.faulty /\ Finish(h) /\ Miss(scene.linked)
  /\ UNCHANGED <<scene, queueVars, hubVars, ownVars, shown, strays>>

\* The shadow is read under the consumer tenant, whichever the device's is.  A SELECT that fails
\* gives no state; one that breaks off gives part of it, and is not told from a whole one.  So does
\* OwnsDevice when its second SELECT fails: the state is then shown as that of the product in
\* app_devices.
GetReportedDPS(h) ==
  /\ pc[h] = "read"
  /\ \/ (stored = 0 \/ ~ scene.consumer) /\ Finish(h) /\ UNCHANGED late
     \/ /\ stored # 0 /\ scene.consumer
        /\ dps' = [dps EXCEPT ![h] = stored] \/ (scene.faulty /\ dps' = [dps EXCEPT ![h] = 0])
        /\ heirs' = [heirs EXCEPT ![h] = {owner} \ {None}]
        /\ Goto(h, "linked")
        /\ UNCHANGED <<uid, todo, to, late>>
     \/ scene.faulty /\ Finish(h) /\ Miss(scene.linked)
  /\ UNCHANGED <<scene, queueVars, hubVars, ownVars, shown, strays>>

\* A SELECT that fails or breaks off leaves out links.
LinkedPlatforms(h) ==
  /\ pc[h] = "linked"
  /\ LET ps == {p \in Platforms : <<uid[h], p>> \in scene.linked}
     IN  \E listed \in SUBSET ps :
           /\ listed = ps \/ scene.faulty
           /\ IF listed = {} THEN Finish(h)
              ELSE /\ todo' = [todo EXCEPT ![h] = listed]
                   /\ Goto(h, "check")
                   /\ UNCHANGED <<uid, dps, to, heirs>>
           /\ Miss({<<uid[h], p>> : p \in ps \ listed})
  /\ UNCHANGED <<scene, queueVars, hubVars, ownVars, shown, strays>>

\* The next platform, or the end.
Proceed(h, ps) ==
  IF ps = {} THEN Finish(h)
  ELSE /\ Goto(h, "check")
       /\ todo' = [todo EXCEPT ![h] = ps]
       /\ to' = [to EXCEPT ![h] = {}]
       /\ UNCHANGED <<uid, dps, heirs>>

\* Fault: the owner is not asked for again.
CheckSupportOnly(h, p) ==
  /\ pc[h] = "check" /\ p \in todo[h]
  /\ IF p \notin scene.supported
     THEN Proceed(h, todo[h] \ {p})
     ELSE Goto(h, "push") /\ to' = [to EXCEPT ![h] = {p}] /\ UNCHANGED <<uid, dps, todo, heirs>>
  /\ UNCHANGED <<scene, queueVars, hubVars, ownVars, shown, late, strays>>

\* Fault: a platform the product is not enabled for ends the goroutine.
CheckOrLeave(h, p) ==
  /\ pc[h] = "check" /\ p \in todo[h]
  /\ IF owner # uid[h] \/ p \notin scene.supported
     THEN Finish(h)
     ELSE Goto(h, "push") /\ to' = [to EXCEPT ![h] = {p}] /\ UNCHANGED <<uid, dps, todo, heirs>>
  /\ UNCHANGED <<scene, queueVars, hubVars, ownVars, shown, late, strays>>

\* OwnsDeviceForAssistant: the owner is asked for again before every push.  A SELECT that
\* fails passes the platform over, or, where it is that of the product's release, makes the
\* static catalogue say whether the product is enabled for it.
OwnsDeviceForAssistant(h, p) ==
  /\ pc[h] = "check" /\ p \in todo[h]
  /\ \/ (owner # uid[h] \/ p \notin scene.supported) /\ Proceed(h, todo[h] \ {p}) /\ UNCHANGED late
     \/ /\ owner = uid[h] /\ (p \in scene.supported \/ scene.faulty)
        /\ Goto(h, "push")
        /\ to' = [to EXCEPT ![h] = {p}]
        /\ UNCHANGED <<uid, dps, todo, heirs, late>>
     \/ scene.faulty /\ Proceed(h, todo[h] \ {p}) /\ Miss({<<uid[h], p>>})
  /\ UNCHANGED <<scene, queueVars, hubVars, ownVars, shown, strays>>

\* A POST that is logged when it fails.  Without a token, or where Alexa has nothing to be
\* told, there is none.
Push(h) ==
  /\ pc[h] = "push"
  /\ \E p \in to[h] : LET x == <<uid[h], p>> IN
       /\ \/ /\ x \in scene.pushable
             /\ shown' = [shown EXCEPT ![x] = dps[h]]
             /\ late' = IF dps[h] = 0 \/ dps[h] < shown[x] THEN late \cup {x}
                        ELSE late \ {y \in {x} : dps[h] = stored}
             /\ strays' = IF uid[h] \in heirs[h] THEN strays ELSE strays \cup {uid[h]}
          \/ x \notin scene.pushable /\ UNCHANGED <<shown, late, strays>>
          \/ scene.faulty /\ Miss({x}) /\ UNCHANGED <<shown, strays>>
       /\ Proceed(h, todo[h] \ {p})
  /\ UNCHANGED <<scene, queueVars, hubVars, ownVars>>

\* The app's users remove and adopt the device.
ChangeOwner(u) ==
  /\ moves < scene.moves
  /\ (owner = None) # (u = None)
  /\ owner' = u
  /\ moves' = moves + 1
  /\ heirs' = [h \in Pushers |->
                 IF pc[h] \in {"linked", "check", "push"} THEN heirs[h] \cup ({u} \ {None})
                                                          ELSE heirs[h]]
  /\ UNCHANGED <<scene, queueVars, hubVars, pc, uid, dps, todo, to, shown, late, strays>>

-----------------------------------------------------------------------------

FanNext ==
  \/ HandleRpt
  \/ \E e \in Reports : PublishReport(e)
  \/ Broadcast
  \/ \E c \in Clients :
       \/ HandleWS(c) \/ Offer(c) \/ WritePump(c) \/ Write(c) \/ HangUp(c)
       \/ ReadPump(c) \/ Unregister(c)
  \/ \E h \in Pushers :
       \/ Run(h) \/ OwnerOfDevice(h) \/ OwnsDevice(h) \/ GetReportedDPS(h) \/ LinkedPlatforms(h)
       \/ \E p \in Platforms : OwnsDeviceForAssistant(h, p)
       \/ Push(h)
  \/ \E u \in Users \cup {None} : ChangeOwner(u)

\* Goroutines that can run do so; writes end within their deadline.
FanFairness ==
  /\ WF_fanVars(Broadcast)
  /\ \A c \in Clients :
       /\ WF_fanVars(Offer(c)) /\ WF_fanVars(WritePump(c)) /\ WF_fanVars(Write(c))
       /\ WF_fanVars(ReadPump(c)) /\ WF_fanVars(Unregister(c))

FanSpec == FanInit /\ [][FanNext]_fanVars /\ FanFairness

-----------------------------------------------------------------------------

\* What c has received, is being sent and has buffered.
Delivered(c) == got[c] \o (IF writing[c] = 0 THEN <<>> ELSE <<writing[c]>>) \o buf[c]

\* The frames offered to c but for those that found its buffer full, and the one it is
\* still to be offered.
Taken(c) ==
  {j \in DOMAIN offered[c] : offered[c][j] \notin missed[c] /\ (c \in rest => offered[c][j] # frame)}

\* What an open connection has received, is being sent and has buffered is what was
\* broadcast since it was registered, in that order and each frame once, without the
\* frames that found its buffer full.
FramesInOrder ==
  \A c \in open : wpump[c] \in {"wait", "write"} =>
    \E place \in [DOMAIN Delivered(c) -> Taken(c)] :
      /\ \A i, j \in DOMAIN place : i < j => place[i] < place[j]
      /\ \A j \in Taken(c) : \E i \in DOMAIN place : place[i] = j
      /\ \A i \in DOMAIN place : Delivered(c)[i] = offered[c][place[i]]

\* The loop of a broadcast has no client whose channel is closed: a send on a closed
\* channel would take the server down.
NoSendOnClosed == rest \cap closed = {}

\* An event reaches every client's buffer, or is lost for it, whatever the other
\* clients do: one that does not read holds up nobody.
NobodyHoldsUp ==
  \A e \in Reports : (\E i \in DOMAIN hubq : hubq[i] = e) ~> ((\A i \in DOMAIN hubq : hubq[i] # e) /\ rest = {})

\* A client whose write pump has ended, because it hung up or did not read, is
\* taken out of the map in the end.
GoneIsForgotten == \A c \in Clients : wpump[c] = "done" ~> c \notin clients

\* A user is pushed the state of a device only if it was theirs at some time since
\* that state was read: the state under the next owner never leaks to the last.
PushedToOwner == strays = {}

\* Once nothing is under way, a linked platform that can be pushed to and the product is
\* enabled for shows the state in the table, unless since its last push of the newest state
\* an event was lost, a SELECT or a push for it failed, or a goroutine was overtaken by a
\* later one.
SettledShown ==
  /\ scene.moves = 0 /\ scene.consumer
  /\ pending = {} /\ proq = <<>> /\ \A h \in Pushers : pc[h] = "idle"
  => \A x \in (scene.linked \cap scene.pushable) \ late :
       x[1] = owner /\ x[2] \in scene.supported => shown[x] = stored

================================================================================
