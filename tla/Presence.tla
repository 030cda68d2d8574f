------------------------------- MODULE Presence -------------------------------
(***************************************************************************)
(* Who believes the device is online.  The broker knows; the server keeps  *)
(* a Redis key (Get, List, IsOnline), a Postgres flag (the admin lists)    *)
(* and tells the apps over the WebSocket channel.  Each is set from five   *)
(* kinds of message: $SYS connected and disconnected, boo and offline on   *)
(* /up, and the retained shadow on /shd.                                   *)
(*                                                                         *)
(* The router handles every message in a goroutine of its own, so a task   *)
(* here is one message at one server and the handlers interleave at their  *)
(* statements.  /up and /shd go to one server of the shared group or, when *)
(* there is no group, to all of them, and the broker keeps them for a      *)
(* server that is down; $SYS is never shared.  Redis does not fail here.   *)
(***************************************************************************)
EXTENDS Naturals

CONSTANTS
  Servers,      \* instances of cmd/server
  Settings,     \* the deployments and devices to look at
  MaxSessions,  \* bound on connections of the device
  MaxCrashes    \* bound on server crashes

\* grouped: MQTT_SHARED_GROUP is set.  kind: whose will it is, cmd/mockdevice's
\* or the firmware's.  prompt: the session changes only when the last change has
\* been handled.  faulty: database statements may fail.  canCrash: the servers
\* that may crash.
Setting ==
  [grouped : BOOLEAN, kind : {"mock", "firmware"}, prompt : BOOLEAN,
   faulty : BOOLEAN, canCrash : SUBSET Servers]

ASSUME PresenceAssumptions ==
  /\ Settings \subseteq Setting
  /\ \A g \in Settings : g.canCrash # Servers
  /\ MaxSessions \in Nat /\ MaxCrashes \in Nat

VARIABLES
  setting,   \* the member of Settings it is about
  up,        \* its MQTT session is open
  sessions,  \* connections left
  retained,  \* the retained /shd message, "none" before there is one
  tasks,     \* messages at servers: the message and the handler's next step
  alive,     \* servers that are running
  crashes,   \* crashes left
  knows,     \* Router.tenantSeen holds the device's tenant
  redis,     \* the key online:{tid}:{did} exists
  pg,        \* devices.is_online
  view       \* what the apps were last told

deviceVars == <<up, sessions, retained>>
serverVars == <<alive, crashes>>
vars == <<setting, deviceVars, tasks, serverVars, knows, redis, pg, view>>

Grouped  == setting.grouped
IsMock   == setting.kind = "mock"
Prompt   == setting.prompt
Faulty   == setting.faulty
CanCrash == setting.canCrash

-----------------------------------------------------------------------------
(* The handlers, as the step that follows each step: "know" looks the      *)
(* tenant up, "flag" is registry.SetOnline or Upsert, "cache" is           *)
(* SetOnlineCached and "tell" is publishWS.                                *)

\* handleBoo, and handleReg with Upsert for SetOnline.
HandleBoo == [start |-> "flag", flag |-> "cache", cache |-> "tell", tell |-> "done"]

HandleOffline == [start |-> "flag", flag |-> "cache", cache |-> "tell", tell |-> "done"]

ProcessShd == [start |-> "cache", cache |-> "done"]

HandleSysConnected == [start |-> "know", know |-> "cache", cache |-> "done"]

\* Fault: like its counterpart it leaves Postgres alone.
HandleSysDisconnectedNoFlag ==
  [start |-> "know", know |-> "cache", cache |-> "tell", tell |-> "done"]

HandleSysDisconnected ==
  [start |-> "know", know |-> "flag", flag |-> "cache", cache |-> "tell", tell |-> "done"]

Messages == {"boo", "offline", "shd on", "shd off", "connected", "disconnected"}

Handler(m) ==
  CASE m = "boo" -> HandleBoo
    [] m = "offline" -> HandleOffline
    [] m = "connected" -> HandleSysConnected
    [] m = "disconnected" -> HandleSysDisconnected
    [] m \in {"shd on", "shd off"} -> ProcessShd

\* What the message says of the device.
SaysOnline(m) == m \in {"boo", "shd on", "connected"}

Task == [srv : Servers, msg : Messages, step : {"know", "flag", "cache", "tell"}]

TypeOK ==
  /\ setting \in Settings
  /\ up \in BOOLEAN /\ retained \in {"none", "shd on", "shd off"}
  /\ sessions \in 0..MaxSessions
  /\ tasks \subseteq Task
  /\ alive \subseteq Servers /\ Servers \ CanCrash \subseteq alive
  /\ crashes \in 0..MaxCrashes
  /\ knows \in [Servers -> BOOLEAN]
  /\ redis \in BOOLEAN /\ pg \in BOOLEAN /\ view \in BOOLEAN

Init ==
  /\ setting \in Settings
  /\ up = FALSE /\ retained = "none"
  /\ sessions = MaxSessions
  /\ tasks = {}
  /\ alive = Servers /\ crashes = MaxCrashes
  /\ knows = [s \in Servers |-> FALSE]
  /\ redis = FALSE /\ pg = FALSE /\ view = FALSE

Arrive(m, at) == {[srv |-> s, msg |-> m, step |-> Handler(m)["start"]] : s \in at}

\* Fault: the $SYS subscriptions carry the group prefix too.
SysGoesToOne == IF Grouped THEN {{s} : s \in alive} ELSE {alive}

\* Who gets a $SYS event.
SysGoesTo == {alive}

\* Who gets a message on /up or /shd.
DeviceGoesTo == IF Grouped THEN {{s} : s \in alive} ELSE {Servers}

\* No running server has a message left to handle.
Quiet == \A t \in tasks : t.srv \notin alive

-----------------------------------------------------------------------------
(* The device and the broker.                                              *)

\* It connects, says boo and publishes its shadow.
Connect ==
  /\ ~ up /\ sessions > 0
  /\ Prompt => Quiet
  /\ up' = TRUE /\ retained' = "shd on"
  /\ sessions' = sessions - 1
  /\ \E at1 \in SysGoesTo, at2, at3 \in DeviceGoesTo :
       tasks' = tasks \cup Arrive("connected", at1) \cup Arrive("boo", at2)
                      \cup Arrive("shd on", at3)
  /\ UNCHANGED <<setting, serverVars, knows, redis, pg, view>>

\* A command was applied: the shadow is published again.
PublishShadow ==
  /\ up
  /\ \E at \in DeviceGoesTo : tasks' = tasks \cup Arrive("shd on", at)
  /\ UNCHANGED <<setting, deviceVars, serverVars, knows, redis, pg, view>>

\* The connection breaks and the broker publishes the will: offline on /up, or
\* the firmware's retained shadow with online:false.
Drop ==
  /\ up
  /\ Prompt => Quiet
  /\ up' = FALSE
  /\ retained' = IF IsMock THEN retained ELSE "shd off"
  /\ \E at1 \in SysGoesTo, at2 \in DeviceGoesTo :
       tasks' = tasks \cup Arrive("disconnected", at1)
                      \cup Arrive(IF IsMock THEN "offline" ELSE "shd off", at2)
  /\ UNCHANGED <<setting, sessions, serverVars, knows, redis, pg, view>>

\* The mock device says offline, then disconnects; its shadow stays retained.
CleanStop ==
  /\ up /\ IsMock
  /\ Prompt => Quiet
  /\ up' = FALSE
  /\ \E at1 \in SysGoesTo, at2 \in DeviceGoesTo :
       tasks' = tasks \cup Arrive("disconnected", at1) \cup Arrive("offline", at2)
  /\ UNCHANGED <<setting, sessions, retained, serverVars, knows, redis, pg, view>>

-----------------------------------------------------------------------------
(* The steps of the handlers.                                              *)

\* The handler moves on from its step; a finished one is gone.
Advance(t) ==
  LET next == Handler(t.msg)[t.step]
  IN  tasks' = (tasks \ {t}) \cup
               (IF next = "done" THEN {} ELSE {[t EXCEPT !.step = next]})

\* A statement of the task is due at a running server.
Due(t, step) == t \in tasks /\ t.srv \in alive /\ t.step = step

\* deviceIdentity; isKnownTenant takes an error for "no" and the event is lost.
IsKnownTenant(t) ==
  /\ Due(t, "know")
  /\ \/ /\ Advance(t)
        /\ knows' = [knows EXCEPT ![t.srv] = TRUE]
     \/ /\ Faulty /\ ~ knows[t.srv]
        /\ tasks' = tasks \ {t}
        /\ UNCHANGED knows
  /\ UNCHANGED <<setting, deviceVars, serverVars, redis, pg, view>>

\* Fault: the handler returns when the statement fails.
SetOnlineOrReturn(t) ==
  /\ Due(t, "flag")
  /\ \/ Advance(t) /\ pg' = SaysOnline(t.msg)
     \/ Faulty /\ tasks' = tasks \ {t} /\ UNCHANGED pg
  /\ UNCHANGED <<setting, deviceVars, serverVars, knows, redis, view>>

\* The error is logged and the handler goes on.
SetOnline(t) ==
  /\ Due(t, "flag")
  /\ Advance(t)
  /\ \/ pg' = SaysOnline(t.msg)
     \/ Faulty /\ UNCHANGED pg
  /\ UNCHANGED <<setting, deviceVars, serverVars, knows, redis, view>>

SetOnlineCached(t) ==
  /\ Due(t, "cache")
  /\ Advance(t)
  /\ redis' = SaysOnline(t.msg)
  /\ UNCHANGED <<setting, deviceVars, serverVars, knows, pg, view>>

PublishWS(t) ==
  /\ Due(t, "tell")
  /\ Advance(t)
  /\ view' = SaysOnline(t.msg)
  /\ UNCHANGED <<setting, deviceVars, serverVars, knows, redis, pg>>

Step(t) == IsKnownTenant(t) \/ SetOnline(t) \/ SetOnlineCached(t) \/ PublishWS(t)

-----------------------------------------------------------------------------
(* The servers.                                                            *)

\* The callbacks have returned, so what is in goroutines is lost.
Crash(s) ==
  /\ s \in alive \cap CanCrash /\ crashes > 0
  /\ alive' = alive \ {s}
  /\ crashes' = crashes - 1
  /\ tasks' = {t \in tasks : t.srv # s}
  /\ knows' = [knows EXCEPT ![s] = FALSE]
  /\ UNCHANGED <<setting, deviceVars, redis, pg, view>>

\* Every (re)connection to the broker subscribes again, and without a group the
\* broker answers with the retained shadow.
Resubscribe(s) ==
  tasks' = tasks \cup
    (IF Grouped \/ retained = "none" THEN {} ELSE Arrive(retained, {s}))

Reconnect(s) ==
  /\ s \in alive
  /\ Resubscribe(s)
  /\ UNCHANGED <<setting, deviceVars, serverVars, knows, redis, pg, view>>

\* What the broker has kept for the server is handled now.
Restart(s) ==
  /\ s \in Servers \ alive
  /\ alive' = alive \cup {s}
  /\ Resubscribe(s)
  /\ UNCHANGED <<setting, deviceVars, crashes, knows, redis, pg, view>>

Next ==
  \/ Connect \/ PublishShadow \/ Drop \/ CleanStop
  \/ \E t \in tasks : Step(t)
  \/ \E s \in Servers : Crash(s) \/ Reconnect(s) \/ Restart(s)

Spec == Init /\ [][Next]_vars

\* A goroutine that can run does.  The semaphore's places are given back.
Fairness == \A s \in Servers, m \in Messages :
  WF_vars(\E t \in tasks : t.srv = s /\ t.msg = m /\ Step(t))

FairSpec == Spec /\ Fairness

-----------------------------------------------------------------------------
\* When a session change has been handled, the Redis key tells the truth:
\* whatever the order of the handlers of registry.SetOnlineCached's callers,
\* and although some of them are lost.
SettledCache == Quiet => redis = up

\* So do the Postgres flag the admin lists are sorted by and what the apps were
\* told last (publishWS), as long as no statement fails and no instance crashes.
Settled == Quiet /\ ~ Faulty /\ CanCrash = {} => pg = up /\ view = up

\* A device that goes away is seen to be away, even by a reader of Redis, or
\* comes back (HandleSysDisconnected at every instance).
DropIsNoticed == ~ up ~> ~ redis \/ up

===========================================================================
