---------------------------- MODULE RouterProofs ------------------------------
(***************************************************************************)
(* Proofs about what the router's handlers leave behind (Presence) and     *)
(* what becomes of the reports they publish (EventFan), for any sets of    *)
(* instances, clients, goroutines, users and platforms and any bounds.     *)
(* The two modules share no state; each part is about the specification of *)
(* its own.                                                                *)
(***************************************************************************)
EXTENDS Presence, EventFan, SequenceTheorems, TLAPS

-----------------------------------------------------------------------------
(* Presence.                                                               *)

-----------------------------------------------------------------------------
(* Typing.                                                                 *)

\* The handler of the task's message has the task's step.
InHandler(t) ==
  /\ t.msg = "boo" => t.step \in {"flag", "cache", "tell"}
  /\ t.msg = "offline" => t.step \in {"flag", "cache", "tell"}
  /\ t.msg = "connected" => t.step \in {"know", "cache"}
  /\ t.msg = "disconnected" => t.step \in {"know", "flag", "cache", "tell"}
  /\ t.msg \in {"shd on", "shd off"} => t.step = "cache"

Typed == TypeOK /\ \A t \in tasks : InHandler(t)

\* What the setting says of the servers.
LEMMA Given ==
  ASSUME TypeOK
  PROVE  CanCrash \subseteq Servers /\ CanCrash # Servers
  <1>1. setting \in Setting /\ setting.canCrash # Servers
    BY PresenceAssumptions DEF PresenceAssumptions, TypeOK
  <1>. QED
    BY <1>1 DEF Setting, CanCrash

\* The setting is given once for all.
LEMMA Fixed ==
  ASSUME [Next]_vars
  PROVE  /\ setting' = setting
         /\ Grouped' = Grouped /\ Faulty' = Faulty /\ CanCrash' = CanCrash
  <1>1. setting' = setting
    BY DEF Next, Connect, PublishShadow, Drop, CleanStop, Step, IsKnownTenant, SetOnline,
           SetOnlineCached, PublishWS, Crash, Reconnect, Restart, vars
  <1>. QED
    BY <1>1 DEF Grouped, Faulty, CanCrash

\* Where each handler starts, and which step follows which.
LEMMA Handlers ==
  /\ Handler("boo")["start"] = "flag"
  /\ Handler("boo")["flag"] = "cache"
  /\ Handler("boo")["cache"] = "tell"
  /\ Handler("boo")["tell"] = "done"
  /\ Handler("offline")["start"] = "flag"
  /\ Handler("offline")["flag"] = "cache"
  /\ Handler("offline")["cache"] = "tell"
  /\ Handler("offline")["tell"] = "done"
  /\ Handler("connected")["start"] = "know"
  /\ Handler("connected")["know"] = "cache"
  /\ Handler("connected")["cache"] = "done"
  /\ Handler("disconnected")["start"] = "know"
  /\ Handler("disconnected")["know"] = "flag"
  /\ Handler("disconnected")["flag"] = "cache"
  /\ Handler("disconnected")["cache"] = "tell"
  /\ Handler("disconnected")["tell"] = "done"
  /\ Handler("shd on")["start"] = "cache"
  /\ Handler("shd on")["cache"] = "done"
  /\ Handler("shd off")["start"] = "cache"
  /\ Handler("shd off")["cache"] = "done"
  BY DEF Handler, HandleBoo, HandleOffline, ProcessShd, HandleSysConnected,
         HandleSysDisconnected

\* What arrives is a task of its message, at its first step.
LEMMA ArriveType ==
  ASSUME NEW m \in Messages, NEW at \in SUBSET Servers
  PROVE  \A t \in Arrive(m, at) : t \in Task /\ InHandler(t) /\ t.srv \in at /\ t.msg = m
  <1>. DEFINE first == Handler(m)["start"]
  <1>1. first \in {"know", "flag", "cache"}
    BY Handlers DEF Messages
  <1>2. /\ m \in {"boo", "offline"} => first = "flag"
        /\ m \in {"connected", "disconnected"} => first = "know"
        /\ m \in {"shd on", "shd off"} => first = "cache"
    BY Handlers
  <1>3. Arrive(m, at) = {[srv |-> s, msg |-> m, step |-> first] : s \in at}
    BY DEF Arrive
  <1>. HIDE DEF first
  <1>4. SUFFICES ASSUME NEW s \in at
                 PROVE  LET t == [srv |-> s, msg |-> m, step |-> first]
                        IN  t \in Task /\ InHandler(t) /\ t.srv \in at /\ t.msg = m
    BY <1>3
  <1>5. [srv |-> s, msg |-> m, step |-> first] \in Task
    BY <1>1 DEF Task
  <1>. QED
    BY <1>1, <1>2, <1>5 DEF Messages, InHandler

\* Its message is the one that was sent.
LEMMA ArriveMsg ==
  ASSUME NEW m, NEW at
  PROVE  \A t \in Arrive(m, at) : t.msg = m
  BY DEF Arrive

\* Every message says the one or the other.
LEMMA Says ==
  ASSUME NEW m PROVE SaysOnline(m) \in BOOLEAN
  BY DEF SaysOnline

\* Three of the messages say that the device is off.
LEMMA SaysOff ==
  ASSUME NEW m \in {"offline", "shd off", "disconnected"}
  PROVE  SaysOnline(m) = FALSE
  <1>1. ~ SaysOnline(m)
    BY DEF SaysOnline
  <1>2. SaysOnline(m) \in BOOLEAN
    BY Says
  <1>. QED
    BY <1>1, <1>2

\* The next step is one of the handler's, and the write to Redis is not skipped.
LEMMA NextStep ==
  ASSUME NEW t \in Task, InHandler(t),
         NEW next, next = Handler(t.msg)[t.step]
  PROVE  /\ next \in {"flag", "cache", "tell", "done"}
         /\ t.step = "know" => next \in {"flag", "cache"}
         /\ t.step = "flag" => next = "cache"
         /\ next # "done" => [t EXCEPT !.step = next] \in Task
                             /\ InHandler([t EXCEPT !.step = next])
  <1>1. t.msg \in Messages /\ t.step \in {"know", "flag", "cache", "tell"}
    BY DEF Task
  <1>2. /\ next \in {"flag", "cache", "tell", "done"}
        /\ t.step = "know" => next \in {"flag", "cache"}
        /\ t.step = "flag" => next = "cache"
        /\ t.msg \in {"shd on", "shd off", "connected"} => next \in {"cache", "done"}
        /\ t.msg \in {"shd on", "shd off"} => next = "done"
    BY <1>1, Handlers DEF Messages, InHandler
  <1>. DEFINE u == [t EXCEPT !.step = next]
  <1>3. next # "done" => u \in Task /\ u.msg = t.msg /\ u.step = next
    BY <1>2 DEF Task
  <1>. QED
    BY <1>1, <1>2, <1>3 DEF InHandler, Messages

\* Moving on keeps the tasks well formed.
LEMMA AdvanceType ==
  ASSUME Typed, NEW t \in tasks, Advance(t)
  PROVE  tasks' \subseteq Task /\ \A u \in tasks' : InHandler(u)
  <1>1. t \in Task /\ InHandler(t)
    BY DEF Typed, TypeOK
  <1>. QED
    BY <1>1, NextStep DEF Advance, Typed, TypeOK

\* Messages go to servers.
LEMMA GoesTo ==
  ASSUME TypeOK
  PROVE  /\ SysGoesTo \subseteq SUBSET Servers
         /\ DeviceGoesTo \subseteq SUBSET Servers
  BY DEF TypeOK, SysGoesTo, DeviceGoesTo

\* Typing holds at the start.
THEOREM TypingInit == Init => Typed
<1>. SUFFICES ASSUME Init PROVE Typed
  OBVIOUS
<1>1. sessions \in 0..MaxSessions /\ crashes \in 0..MaxCrashes
  BY PresenceAssumptions DEF PresenceAssumptions, Init
<1>2. knows \in [Servers -> BOOLEAN]
  BY DEF Init
<1>. QED
  BY <1>1, <1>2 DEF Init, Typed, TypeOK

\* Every step keeps it.
THEOREM TypingStep == Typed /\ [Next]_vars => Typed'
<1>. SUFFICES ASSUME Typed, [Next]_vars PROVE Typed'
  OBVIOUS
<1>. USE PresenceAssumptions DEF PresenceAssumptions
<1>0. Typed /\ TypeOK /\ \A t \in tasks : t \in Task /\ InHandler(t)
  BY DEF Typed, TypeOK
<1>f. setting' = setting /\ CanCrash' = CanCrash
  BY Fixed
<1>. USE <1>f
<1>1. CASE Connect
  <2>1. PICK at1 \in SysGoesTo, at2, at3 \in DeviceGoesTo :
          tasks' = tasks \cup Arrive("connected", at1) \cup Arrive("boo", at2)
                         \cup Arrive("shd on", at3)
    BY <1>1 DEF Connect
  <2>2. \A t \in tasks' : t \in Task /\ InHandler(t)
    BY <1>0, <2>1, ArriveType, GoesTo DEF Messages
  <2>. QED
    <3>0. sessions \in 0..MaxSessions /\ sessions > 0 /\ sessions' = sessions - 1
      BY <1>0, <1>1 DEF Connect, TypeOK
    <3>1. sessions' \in 0..MaxSessions
      BY <3>0
    <3>. QED
      BY <1>0, <1>1, <2>2, <3>1 DEF Connect, Typed, TypeOK, serverVars
<1>2. CASE PublishShadow
  <2>1. \A t \in tasks' : t \in Task /\ InHandler(t)
    BY <1>0, <1>2, ArriveType, GoesTo DEF PublishShadow, Messages
  <2>. QED
    BY <1>0, <1>2, <2>1 DEF PublishShadow, Typed, TypeOK, serverVars, deviceVars
<1>3. CASE Drop
  <2>. DEFINE will == IF IsMock THEN "offline" ELSE "shd off"
  <2>1. PICK at1 \in SysGoesTo, at2 \in DeviceGoesTo :
          tasks' = tasks \cup Arrive("disconnected", at1) \cup Arrive(will, at2)
    BY <1>3 DEF Drop
  <2>2. will \in Messages
    BY DEF Messages
  <2>3. \A t \in tasks' : t \in Task /\ InHandler(t)
    BY <1>0, <2>1, <2>2, ArriveType, GoesTo DEF Messages
  <2>. QED
    BY <1>0, <1>3, <2>3 DEF Drop, Typed, TypeOK, serverVars
<1>4. CASE CleanStop
  <2>1. \A t \in tasks' : t \in Task /\ InHandler(t)
    BY <1>0, <1>4, ArriveType, GoesTo DEF CleanStop, Messages
  <2>. QED
    BY <1>0, <1>4, <2>1 DEF CleanStop, Typed, TypeOK, serverVars
<1>5. ASSUME NEW t \in tasks, Step(t) PROVE Typed'
  <2>1. tasks' \subseteq Task /\ \A u \in tasks' : InHandler(u)
    <3>1. CASE Advance(t)
      BY <1>0, <3>1, AdvanceType
    <3>2. CASE tasks' = tasks \ {t}
      BY <1>0, <3>2
    <3>. QED
      BY <1>5, <3>1, <3>2
         DEF Step, IsKnownTenant, SetOnline, SetOnlineCached, PublishWS
  <2>2. SaysOnline(t.msg) \in BOOLEAN
    BY DEF SaysOnline
  <2>3. t.srv \in Servers
    BY <1>0 DEF Task
  <2>. QED
    BY <1>0, <1>5, <2>1, <2>2, <2>3
       DEF Step, IsKnownTenant, SetOnline, SetOnlineCached, PublishWS,
           Typed, TypeOK, serverVars, deviceVars
<1>6. ASSUME NEW s \in Servers, Crash(s) PROVE Typed'
  <2>0. crashes \in 0..MaxCrashes /\ crashes > 0 /\ crashes' = crashes - 1
    BY <1>0, <1>6 DEF Crash, TypeOK
  <2>1. crashes' \in 0..MaxCrashes
    BY <2>0
  <2>2. knows' \in [Servers -> BOOLEAN]
    BY <1>0, <1>6 DEF Crash, TypeOK
  <2>3. alive' \subseteq Servers /\ Servers \ CanCrash \subseteq alive'
    BY <1>0, <1>6 DEF Crash, TypeOK
  <2>. QED
    BY <1>0, <1>6, <2>1, <2>2, <2>3 DEF Crash, Typed, TypeOK, deviceVars
<1>7. ASSUME NEW s \in Servers, Reconnect(s) \/ Restart(s) PROVE Typed'
  <2>1. \A t \in tasks' : t \in Task /\ InHandler(t)
    <3>1. retained = "none" \/ retained \in Messages
      BY <1>0 DEF TypeOK, Messages
    <3>2. {s} \in SUBSET Servers
      OBVIOUS
    <3>. QED
      BY <1>0, <1>7, <3>1, <3>2, ArriveType DEF Reconnect, Restart, Resubscribe
  <2>. QED
    BY <1>0, <1>7, <2>1
       DEF Reconnect, Restart, Typed, TypeOK, serverVars, deviceVars
<1>8. CASE UNCHANGED vars
  BY <1>0, <1>8 DEF vars, serverVars, deviceVars, Typed, TypeOK
<1>. QED
  BY <1>1, <1>2, <1>3, <1>4, <1>5, <1>6, <1>7, <1>8 DEF Next

\* Every variable keeps its type.
THEOREM TypeCorrect == Spec => []TypeOK
<1>1. Typed => TypeOK
  BY DEF Typed
<1>. QED
  BY <1>1, TypingInit, TypingStep, PTL DEF Spec

-----------------------------------------------------------------------------
(* The Redis key.  It is right when nothing is in flight if session changes *)
(* wait for the last one, if the instances crash or the database fails but  *)
(* not both, and if no stale retained shadow can come in: with a group it   *)
(* is never sent again, and the firmware's will corrects it.                *)

Benign ==
  \A g \in Settings :
    /\ g.prompt
    /\ g.faulty => g.canCrash = {}
    /\ g.grouped \/ (g.canCrash = {} /\ g.kind = "firmware")

\* The setting at hand is such a one.
BenignNow ==
  /\ Prompt
  /\ Faulty => CanCrash = {}
  /\ Grouped \/ (CanCrash = {} /\ ~ IsMock)

\* A benign set of settings has the one at hand.
LEMMA BenignHere ==
  ASSUME Benign, TypeOK PROVE BenignNow
  BY DEF Benign, BenignNow, TypeOK, Prompt, Faulty, CanCrash, Grouped, IsMock

\* What is in flight is about the session as it is.
Current == \A t \in tasks : t.srv \in alive /\ SaysOnline(t.msg) = up

\* So is the retained shadow where it can come again.
RetainedCurrent ==
  ~ Grouped => /\ retained = "none" => ~ up
               /\ retained # "none" => SaysOnline(retained) = up

\* The task will write the key, whatever goes wrong.
Sure(t) ==
  /\ t.srv \notin CanCrash
  /\ t.step \in {"know", "flag", "cache"}
  /\ Faulty => t.step # "know"

\* A wrong key is about to be corrected.
Covered == redis = up \/ \E t \in tasks : Sure(t)

IInv == Typed /\ Current /\ RetainedCurrent /\ Covered

\* At the end of a session change its messages are the only ones.
LEMMA Announced ==
  ASSUME TypeOK, BenignNow, NEW m1 \in {"connected", "disconnected"},
         NEW m2 \in {"boo", "offline", "shd off"},
         NEW at1 \in SysGoesTo, NEW at2 \in DeviceGoesTo
  PROVE  /\ \A t \in Arrive(m1, at1) \cup Arrive(m2, at2) : t.srv \in alive
         /\ \E t \in Arrive(m1, at1) \cup Arrive(m2, at2) : Sure(t)
<1>. USE PresenceAssumptions DEF PresenceAssumptions
<1>1. at1 = alive /\ at2 \subseteq alive
  BY DEF TypeOK, BenignNow, SysGoesTo, DeviceGoesTo
<1>2. at1 \in SUBSET Servers /\ at2 \in SUBSET Servers
  BY GoesTo
<1>3. m1 \in Messages /\ m2 \in Messages
  BY DEF Messages
<1>4. PICK s \in alive : s \notin CanCrash
  BY Given DEF TypeOK
<1>A. \A t \in Arrive(m1, at1) \cup Arrive(m2, at2) : t.srv \in alive
  BY <1>1, <1>2, <1>3, ArriveType
<1>5. CASE ~ Faulty
  <2>. DEFINE t == [srv |-> s, msg |-> m1, step |-> Handler(m1)["start"]]
  <2>1. t \in Arrive(m1, at1)
    BY <1>1 DEF Arrive
  <2>2. t.srv = s /\ t.step = "know"
    BY Handlers
  <2>. HIDE DEF t
  <2>3. Sure(t)
    BY <1>4, <1>5, <2>2 DEF Sure
  <2>. QED
    BY <1>A, <2>1, <2>3
<1>6. CASE Faulty
  <2>1. CanCrash = {}
    BY <1>6 DEF BenignNow
  <2>2. PICK r \in at2 : TRUE
    BY <1>4, <1>1 DEF DeviceGoesTo, TypeOK
  <2>. DEFINE t == [srv |-> r, msg |-> m2, step |-> Handler(m2)["start"]]
  <2>3. t \in Arrive(m2, at2)
    BY <2>2 DEF Arrive
  <2>4. t.step \in {"flag", "cache"}
    BY Handlers
  <2>. HIDE DEF t
  <2>5. Sure(t)
    BY <2>1, <2>4 DEF Sure
  <2>. QED
    BY <1>A, <2>3, <2>5
<1>. QED
  BY <1>5, <1>6

\* A handler that moves on past a step before the write is still sure to write.
LEMMA StaysSure ==
  ASSUME Typed, NEW t \in tasks, Advance(t), Sure(t), t.step # "cache"
  PROVE  \E u \in tasks' : Sure(u)
<1>1. t \in Task /\ InHandler(t)
  BY DEF Typed, TypeOK
<1>. DEFINE next == Handler(t.msg)[t.step]
            u == [t EXCEPT !.step = next]
<1>2. next \in {"flag", "cache"}
  <2>1. /\ t.step = "know" => next \in {"flag", "cache"}
        /\ t.step = "flag" => next = "cache"
    BY <1>1, NextStep
  <2>. QED
    BY <2>1 DEF Sure
<1>3. u \in tasks'
  BY <1>2 DEF Advance
<1>4. u.srv = t.srv /\ u.step = next
  BY <1>1 DEF Task
<1>. HIDE DEF u, next
<1>. QED
  BY <1>2, <1>3, <1>4 DEF Sure

\* A task that moves on says what it said, where it said it.
LEMMA AdvanceCurrent ==
  ASSUME Typed, Current, NEW t \in tasks, Advance(t), UNCHANGED <<up, alive>>
  PROVE  Current'
<1>1. t \in Task
  BY DEF Typed, TypeOK
<1>. DEFINE u == [t EXCEPT !.step = Handler(t.msg)[t.step]]
<1>2. u.srv = t.srv /\ u.msg = t.msg
  BY <1>1 DEF Task
<1>3. tasks' \subseteq tasks \cup {u}
  BY DEF Advance
<1>. HIDE DEF u
<1>. QED
  BY <1>2, <1>3 DEF Current

\* The invariant holds at the start.
LEMMA SettlesInit == Init => IInv
<1>. SUFFICES ASSUME Init PROVE IInv
  OBVIOUS
<1>1. Typed
  BY TypingInit
<1>. QED
  BY <1>1 DEF Init, IInv, Current, RetainedCurrent, Covered

\* Every step keeps it.
LEMMA SettlesStep == Benign /\ IInv /\ [Next]_vars => IInv'
<1>. SUFFICES ASSUME Benign, IInv, [Next]_vars PROVE IInv'
  OBVIOUS
<1>. USE PresenceAssumptions DEF PresenceAssumptions
<1>0. Typed /\ TypeOK /\ Current /\ RetainedCurrent /\ Covered
  BY DEF IInv, Typed
<1>f. Grouped' = Grouped /\ Faulty' = Faulty /\ CanCrash' = CanCrash
  BY Fixed
<1>n. BenignNow
  BY <1>0, BenignHere
<1>. USE <1>f, <1>n
<1>a. Typed'
  BY <1>0, TypingStep
<1>b. \A t \in tasks : t \in Task /\ InHandler(t)
  BY <1>0 DEF Typed, TypeOK
<1>c. ASSUME Quiet PROVE tasks = {}
  BY <1>0, <1>c DEF Quiet, Current
<1>1. CASE Connect
  <2>1. PICK at1 \in SysGoesTo, at2, at3 \in DeviceGoesTo :
          tasks' = tasks \cup Arrive("connected", at1) \cup Arrive("boo", at2)
                         \cup Arrive("shd on", at3)
    BY <1>1 DEF Connect
  <2>2. tasks = {} /\ UNCHANGED alive /\ up' = TRUE /\ retained' = "shd on"
    BY <1>1, <1>c DEF Connect, BenignNow, serverVars
  <2>3. /\ \A t \in Arrive("connected", at1) \cup Arrive("boo", at2) : t.srv \in alive
        /\ \A t \in Arrive("connected", at1) \cup Arrive("shd on", at3) : t.srv \in alive
        /\ \E t \in Arrive("connected", at1) \cup Arrive("boo", at2) : Sure(t)
    <3>1. at3 \in SUBSET Servers /\ at3 \subseteq alive /\ "shd on" \in Messages
      BY <1>0 DEF TypeOK, BenignNow, DeviceGoesTo, Messages
    <3>2. \A t \in Arrive("shd on", at3) : t.srv \in alive
      BY <3>1, ArriveType
    <3>. QED
      BY <1>0, <3>2, Announced
  <2>4. \A t \in tasks' : SaysOnline(t.msg) = TRUE
    BY <2>1, <2>2, ArriveMsg DEF SaysOnline
  <2>. QED
    BY <1>a, <2>1, <2>2, <2>3, <2>4 DEF IInv, Current, RetainedCurrent, Covered, SaysOnline, Sure
<1>2. CASE PublishShadow
  <2>1. PICK at \in DeviceGoesTo : tasks' = tasks \cup Arrive("shd on", at)
    BY <1>2 DEF PublishShadow
  <2>2. up /\ UNCHANGED <<up, alive, retained, redis>>
    BY <1>2 DEF PublishShadow, serverVars, deviceVars
  <2>3. at \in SUBSET Servers /\ at \subseteq alive /\ "shd on" \in Messages
    BY <1>0 DEF TypeOK, BenignNow, DeviceGoesTo, Messages
  <2>4. \A t \in Arrive("shd on", at) : t.srv \in alive /\ SaysOnline(t.msg)
    BY <2>3, ArriveType DEF SaysOnline
  <2>. QED
    BY <1>0, <1>a, <2>1, <2>2, <2>4 DEF IInv, Current, RetainedCurrent, Covered, Sure, TypeOK
<1>3. CASE Drop
  <2>. DEFINE will == IF IsMock THEN "offline" ELSE "shd off"
  <2>1. PICK at1 \in SysGoesTo, at2 \in DeviceGoesTo :
          tasks' = tasks \cup Arrive("disconnected", at1) \cup Arrive(will, at2)
    BY <1>3 DEF Drop
  <2>2. tasks = {} /\ UNCHANGED alive /\ up' = FALSE
    BY <1>3, <1>c DEF Drop, BenignNow, serverVars
  <2>3. will \in {"offline", "shd off"}
    OBVIOUS
  <2>4. ~ Grouped => ~ IsMock /\ retained' = "shd off"
    BY <1>0, <1>3 DEF TypeOK, BenignNow, Drop
  <2>. HIDE DEF will
  <2>5. /\ \A t \in tasks' : t.srv \in alive
        /\ \E t \in tasks' : Sure(t)
    BY <1>0, <2>1, <2>2, <2>3, Announced
  <2>6. \A t \in tasks' : SaysOnline(t.msg) = FALSE
    <3>1. \A t \in tasks' : t.msg = "disconnected" \/ t.msg = will
      BY <2>1, <2>2, ArriveMsg
    <3>. QED
      BY <2>3, <3>1, SaysOff
  <2>7. RetainedCurrent'
    BY <2>2, <2>4, SaysOff DEF RetainedCurrent
  <2>. QED
    BY <1>a, <2>2, <2>5, <2>6, <2>7 DEF IInv, Current, Covered, Sure
<1>4. CASE CleanStop
  <2>1. PICK at1 \in SysGoesTo, at2 \in DeviceGoesTo :
          tasks' = tasks \cup Arrive("disconnected", at1) \cup Arrive("offline", at2)
    BY <1>4 DEF CleanStop
  <2>2. tasks = {} /\ UNCHANGED alive /\ up' = FALSE
    BY <1>4, <1>c DEF CleanStop, BenignNow, serverVars
  <2>3. Grouped
    BY <1>0, <1>4 DEF TypeOK, BenignNow, CleanStop
  <2>4. /\ \A t \in tasks' : t.srv \in alive
        /\ \E t \in tasks' : Sure(t)
    BY <1>0, <2>1, <2>2, Announced
  <2>5. \A t \in tasks' : SaysOnline(t.msg) = FALSE
    <3>1. \A t \in tasks' : t.msg = "disconnected" \/ t.msg = "offline"
      BY <2>1, <2>2, ArriveMsg
    <3>. QED
      BY <3>1, SaysOff
  <2>. QED
    BY <1>a, <2>2, <2>3, <2>4, <2>5
       DEF IInv, Current, RetainedCurrent, Covered, Sure, Typed, TypeOK
<1>5. ASSUME NEW t \in tasks, Step(t) PROVE IInv'
  <2>1. UNCHANGED <<up, retained, alive>> /\ t \in tasks
    BY <1>5 DEF Step, IsKnownTenant, SetOnline, SetOnlineCached, PublishWS,
                deviceVars, serverVars
  <2>2. Current' /\ RetainedCurrent'
    <3>1. CASE Advance(t)
      BY <1>0, <2>1, <3>1, AdvanceCurrent DEF RetainedCurrent
    <3>2. CASE tasks' = tasks \ {t}
      BY <1>0, <2>1, <3>2 DEF Current, RetainedCurrent
    <3>. QED
      BY <1>5, <3>1, <3>2 DEF Step, IsKnownTenant, SetOnline, SetOnlineCached, PublishWS
  <2>3. Covered'
    <3>1. CASE SetOnlineCached(t)
      BY <1>0, <3>1, <2>1 DEF SetOnlineCached, Current, Covered
    <3>2. CASE ~ SetOnlineCached(t)
      <4>1. redis' = redis /\ up' = up
        BY <1>5, <2>1, <3>2 DEF Step, IsKnownTenant, SetOnline, PublishWS
      <4>2. CASE redis = up
        BY <4>1, <4>2 DEF Covered
      <4>3. ASSUME NEW u \in tasks, Sure(u) PROVE Covered'
        <5>1. CASE u = t
          <6>1. Advance(t) /\ t.step # "cache"
            BY <1>5, <3>2, <4>3, <5>1
               DEF Step, IsKnownTenant, SetOnline, PublishWS, Due, Sure
          <6>. QED
            BY <1>0, <4>3, <5>1, <6>1, StaysSure DEF Covered, Sure
        <5>2. CASE u # t
          <6>1. u \in tasks'
            BY <1>5, <3>2, <5>2 DEF Step, IsKnownTenant, SetOnline, PublishWS, Advance
          <6>. QED
            BY <4>3, <6>1 DEF Covered, Sure
        <5>. QED
          BY <5>1, <5>2
      <4>. QED
        BY <1>0, <4>2, <4>3 DEF Covered
    <3>. QED
      BY <3>1, <3>2
  <2>. QED
    BY <1>a, <2>2, <2>3 DEF IInv
<1>6. ASSUME NEW s \in Servers, Crash(s) PROVE IInv'
  <2>1. \A t \in tasks : t.srv # s => t \in tasks'
    BY <1>6 DEF Crash
  <2>2. /\ tasks' \subseteq tasks /\ UNCHANGED <<up, redis, retained>>
        /\ alive' = alive \ {s} /\ s \in CanCrash /\ \A t \in tasks' : t.srv # s
    BY <1>6 DEF Crash, deviceVars
  <2>. QED
    BY <1>0, <1>a, <2>1, <2>2 DEF IInv, Current, RetainedCurrent, Covered, Sure
<1>7. ASSUME NEW s \in Servers, Reconnect(s) \/ Restart(s) PROVE IInv'
  <2>1. /\ UNCHANGED <<up, redis, retained>> /\ alive \subseteq alive' /\ s \in alive'
        /\ Resubscribe(s)
    BY <1>7 DEF Reconnect, Restart, deviceVars, serverVars
  <2>2. /\ tasks \subseteq tasks'
        /\ \A t \in tasks' \ tasks : t.srv = s /\ ~ Grouped /\ t.msg = retained /\ retained # "none"
    BY <2>1 DEF Resubscribe, Arrive
  <2>. QED
    BY <1>0, <1>a, <2>1, <2>2 DEF IInv, Current, RetainedCurrent, Covered, Sure
<1>8. CASE UNCHANGED vars
  BY <1>0, <1>a, <1>8 DEF vars, serverVars, deviceVars, IInv, Current, RetainedCurrent, Covered, Sure
<1>. QED
  BY <1>1, <1>2, <1>3, <1>4, <1>5, <1>6, <1>7, <1>8 DEF Next

\* When no message is being handled the Redis key is right.
THEOREM CacheAlwaysSettles ==
  ASSUME Benign
  PROVE  Spec => []SettledCache
<1>1. TypeOK /\ IInv => SettledCache
  <2>. SUFFICES ASSUME TypeOK, IInv, Quiet PROVE redis = up
    BY DEF SettledCache
  <2>1. tasks = {}
    BY DEF IInv, Current, Quiet
  <2>. QED
    BY <2>1 DEF IInv, Covered
<1>2. IInv => TypeOK
  BY DEF IInv, Typed
<1>3. IInv /\ [Next]_vars => IInv'
  BY SettlesStep
<1>. QED
  BY <1>1, <1>2, <1>3, SettlesInit, PTL DEF Spec

-----------------------------------------------------------------------------
(* The Postgres flag and what the apps were told, where statements do not  *)
(* fail and instances do not crash: of every session change some handler   *)
(* writes both, and every handler writes what is true.                     *)

\* The messages whose handlers set the flag and tell the apps.
Full(t) == t.msg \in {"boo", "offline", "disconnected"}

\* The task will set the flag.
Flags(t) == Full(t) /\ t.step \in {"know", "flag"}

Told ==
  ~ Faulty /\ CanCrash = {} =>
    /\ pg = up \/ \E t \in tasks : Flags(t)
    /\ view = up \/ \E t \in tasks : Full(t)

\* A session change comes with such a message.
LEMMA FullAnnounced ==
  ASSUME TypeOK, CanCrash = {}, NEW at1 \in SysGoesTo, NEW at2 \in DeviceGoesTo
  PROVE  /\ \E t \in Arrive("disconnected", at1) : Flags(t)
         /\ \E t \in Arrive("boo", at2) : Flags(t)
<1>1. alive = Servers /\ alive # {}
  BY Given DEF TypeOK
<1>2. ASSUME NEW m \in {"disconnected", "boo"}, NEW at, NEW s \in at
      PROVE  \E t \in Arrive(m, at) : Flags(t)
  <2>. DEFINE t == [srv |-> s, msg |-> m, step |-> Handler(m)["start"]]
  <2>1. t \in Arrive(m, at)
    BY DEF Arrive
  <2>2. t.msg = m /\ t.step \in {"know", "flag"}
    BY Handlers
  <2>. HIDE DEF t
  <2>. QED
    BY <2>1, <2>2 DEF Flags, Full
<1>3. PICK s1 \in at1 : TRUE
  BY <1>1 DEF SysGoesTo
<1>4. PICK s2 \in at2 : TRUE
  BY <1>1 DEF DeviceGoesTo
<1>. QED
  BY <1>2, <1>3, <1>4

\* Only a handler's last step takes its message out of the tasks.
LEMMA AdvanceFull ==
  ASSUME Typed, NEW t \in tasks, Advance(t)
  PROVE  /\ \A u \in tasks : u # t => u \in tasks'
         /\ Flags(t) /\ t.step = "know" => \E u \in tasks' : Flags(u)
         /\ Full(t) /\ t.step # "tell" => \E u \in tasks' : Full(u)
<1>1. t \in Task /\ InHandler(t)
  BY DEF Typed, TypeOK
<1>. DEFINE next == Handler(t.msg)[t.step]
            u == [t EXCEPT !.step = next]
<1>2. /\ Full(t) /\ t.step # "tell" => next # "done"
      /\ Full(t) /\ t.step = "know" => next = "flag"
  BY <1>1, Handlers DEF Full, InHandler, Task
<1>3. next # "done" => u \in tasks'
  BY DEF Advance
<1>4. u.msg = t.msg /\ u.step = next
  BY <1>1 DEF Task
<1>5. \A v \in tasks : v # t => v \in tasks'
  BY DEF Advance
<1>. HIDE DEF u, next
<1>. QED
  BY <1>2, <1>3, <1>4, <1>5 DEF Flags, Full

\* Every step keeps it.
LEMMA ToldStep ==
  ASSUME Benign, IInv, Told, [Next]_vars
  PROVE  Told'
<1>0. Typed /\ TypeOK /\ Current
  BY DEF IInv, Typed
<1>f. Faulty' = Faulty /\ CanCrash' = CanCrash
  BY Fixed
<1>. SUFFICES ASSUME ~ Faulty, CanCrash = {}
              PROVE  /\ pg' = up' \/ \E t \in tasks' : Flags(t)
                     /\ view' = up' \/ \E t \in tasks' : Full(t)
  BY <1>f DEF Told, Flags, Full
<1>g. /\ pg = up \/ \E t \in tasks : Flags(t)
      /\ view = up \/ \E t \in tasks : Full(t)
  BY DEF Told
<1>h. \A t : Flags(t) => Full(t)
  BY DEF Flags
<1>1. CASE Connect
  <2>1. PICK at2 \in DeviceGoesTo : Arrive("boo", at2) \subseteq tasks'
    BY <1>1 DEF Connect
  <2>2. PICK at1 \in SysGoesTo : TRUE
    BY <1>1 DEF Connect
  <2>. QED
    BY <1>0, <1>h, <2>1, <2>2, FullAnnounced
<1>2. CASE Drop \/ CleanStop
  <2>1. PICK at1 \in SysGoesTo : Arrive("disconnected", at1) \subseteq tasks'
    BY <1>2 DEF Drop, CleanStop
  <2>2. PICK at2 \in DeviceGoesTo : TRUE
    BY <1>2 DEF Drop, CleanStop
  <2>. QED
    BY <1>0, <1>h, <2>1, <2>2, FullAnnounced
<1>3. CASE PublishShadow \/ \E s \in Servers : Reconnect(s) \/ Restart(s)
  <2>1. tasks \subseteq tasks' /\ UNCHANGED <<up, pg, view>>
    BY <1>3 DEF PublishShadow, Reconnect, Restart, Resubscribe, deviceVars
  <2>. QED
    BY <1>g, <2>1
<1>4. ASSUME NEW t \in tasks, Step(t)
      PROVE  /\ pg' = up' \/ \E u \in tasks' : Flags(u)
             /\ view' = up' \/ \E u \in tasks' : Full(u)
  <2>1. Advance(t) /\ UNCHANGED up /\ SaysOnline(t.msg) = up
    BY <1>0, <1>4 DEF Step, IsKnownTenant, SetOnline, SetOnlineCached, PublishWS, deviceVars, Current
  <2>2. pg' = up' \/ \E u \in tasks' : Flags(u)
    <3>1. CASE SetOnline(t)
      BY <2>1, <3>1 DEF SetOnline
    <3>2. CASE ~ SetOnline(t)
      <4>1. pg' = pg /\ t.step # "flag"
        BY <1>4, <3>2 DEF Step, IsKnownTenant, SetOnlineCached, PublishWS, Due
      <4>. QED
        BY <1>0, <1>g, <2>1, <4>1, AdvanceFull DEF Flags
    <3>. QED
      BY <3>1, <3>2
  <2>3. view' = up' \/ \E u \in tasks' : Full(u)
    <3>1. CASE PublishWS(t)
      BY <2>1, <3>1 DEF PublishWS
    <3>2. CASE ~ PublishWS(t)
      <4>1. view' = view /\ t.step # "tell"
        BY <1>4, <3>2 DEF Step, IsKnownTenant, SetOnline, SetOnlineCached, Due
      <4>. QED
        BY <1>0, <1>g, <2>1, <4>1, AdvanceFull
    <3>. QED
      BY <3>1, <3>2
  <2>. QED
    BY <2>2, <2>3
<1>5. CASE \E s \in Servers : Crash(s)
  BY <1>5 DEF Crash
<1>6. CASE UNCHANGED vars
  BY <1>g, <1>6 DEF vars, deviceVars
<1>. QED
  BY <1>1, <1>2, <1>3, <1>4, <1>5, <1>6 DEF Next

\* When no message is being handled, no statement fails and no instance crashes, the admin's flag
\* and the apps are right too.
THEOREM FlagAndViewSettle ==
  ASSUME Benign
  PROVE  Spec => []Settled
<1>1. Init => Told
  BY DEF Init, Told
<1>2. IInv /\ Told /\ [Next]_vars => Told'
  BY ToldStep
<1>3. IInv /\ Told => Settled
  BY DEF IInv, Current, Quiet, Told, Settled
<1>. QED
  BY SettlesInit, SettlesStep, <1>1, <1>2, <1>3, PTL DEF Spec

-----------------------------------------------------------------------------
(* EventFan.                                                               *)

\* What a scene may hold.
LEMMA SceneTyped ==
  ASSUME NEW s \in FanSettings
  PROVE  /\ s.clients \subseteq Clients /\ s.owner \in Users /\ s.reports \in 0..MaxReports
         /\ s.moves \in 0..MaxMoves /\ s.linked \subseteq Users \X Platforms
         /\ s.supported \subseteq Platforms /\ s.pushable \subseteq Users \X Platforms
         /\ s.consumer \in BOOLEAN /\ s.faulty \in BOOLEAN
  BY FanAssumptions DEF FanAssumptions, FanSetting

\* What is broadcast or being written is a frame.
FanTyped ==
  /\ FanTypeOK
  /\ rest # {} => frame \in Reports
  /\ \A c \in Clients : IF wpump[c] = "write" THEN writing[c] \in Reports ELSE writing[c] = 0
  /\ \A h \in Pushers : pc[h] \notin {"idle", "owner"} => uid[h] \in Users

\* The server starts typed.
LEMMA FanTypeInit == FanInit => FanTyped
  <1>. SUFFICES ASSUME FanInit PROVE FanTyped
    OBVIOUS
  <1>1. scene.owner \in Users
    BY SceneTyped DEF FanInit
  <1>2. MaxReports \in Nat /\ MaxMoves \in Nat
    BY FanAssumptions DEF FanAssumptions
  <1>. QED
    BY <1>1, <1>2 DEF FanInit, FanTyped, FanTypeOK, Reports, Steps

\* A goroutine that ends is typed.
LEMMA FinishTyped ==
  ASSUME FanTypeOK, NEW h \in Pushers, Finish(h)
  PROVE  /\ pc' \in [Pushers -> Steps]
         /\ uid' \in [Pushers -> Users \cup {None}] /\ dps' \in [Pushers -> 0..MaxReports]
         /\ todo' \in [Pushers -> SUBSET Platforms] /\ to' \in [Pushers -> SUBSET Platforms]
         /\ heirs' \in [Pushers -> SUBSET Users]
  <1>1. MaxReports \in Nat
    BY FanAssumptions DEF FanAssumptions
  <1>. QED
    BY <1>1 DEF FanTypeOK, Finish, Goto, Steps

\* Only links are missed.
LEMMA MissTyped ==
  ASSUME FanTypeOK, NEW links \in SUBSET (Users \X Platforms), Miss(links)
  PROVE  late' \subseteq Users \X Platforms
  BY DEF FanTypeOK, Miss

\* A link that is missed and not counted as late shows the state in the table.
LEMMA MissSeen ==
  ASSUME NEW links, Miss(links)
  PROVE  /\ \A x \in links : x \notin late' => shown[x] = stored
         /\ late \subseteq late'
  BY DEF Miss

\* So is one that goes on with the platforms that are left.
LEMMA ProceedTyped ==
  ASSUME FanTypeOK, NEW h \in Pushers, NEW ps \in SUBSET Platforms, Proceed(h, ps)
  PROVE  /\ pc' \in [Pushers -> Steps]
         /\ uid' \in [Pushers -> Users \cup {None}] /\ dps' \in [Pushers -> 0..MaxReports]
         /\ todo' \in [Pushers -> SUBSET Platforms] /\ to' \in [Pushers -> SUBSET Platforms]
         /\ heirs' \in [Pushers -> SUBSET Users]
  <1>1. CASE ps = {}
    BY <1>1, FinishTyped DEF Proceed
  <1>2. CASE ps # {}
    BY <1>2 DEF FanTypeOK, Proceed, Goto, Steps
  <1>. QED
    BY <1>1, <1>2

\* Every step keeps the types.
LEMMA FanTypeStep == FanTyped /\ [FanNext]_fanVars => FanTypeOK'
  <1>. SUFFICES ASSUME FanTyped, FanTypeOK, [FanNext]_fanVars PROVE FanTypeOK'
    BY DEF FanTyped
  <1>. USE DEF queueVars, hubVars, ownVars, pushVars
  <1>0. /\ MaxReports \in Nat /\ MaxMoves \in Nat /\ Capacity \in Nat
        /\ scene.reports \in 0..MaxReports /\ scene.moves \in 0..MaxMoves
        /\ scene.clients \subseteq Clients /\ scene.linked \in SUBSET (Users \X Platforms)
    BY SceneTyped, FanAssumptions DEF FanAssumptions, FanTypeOK
  <1>1. CASE HandleRpt
    <2>1. /\ reports \in Nat /\ reports + 1 \in 0..MaxReports
          /\ 0..reports \subseteq 0..(reports + 1) /\ 1..reports \subseteq 1..(reports + 1)
          /\ reports + 1 \in 0..(reports + 1) /\ reports + 1 \in 1..(reports + 1)
      BY <1>1, <1>0 DEF FanTypeOK, HandleRpt
    <2>. QED
      BY <1>1, <2>1 DEF FanTypeOK, HandleRpt
  <1>2. ASSUME NEW e \in Reports, PublishReport(e) PROVE FanTypeOK'
    <2>1. hubq' \in Seq(Reports) /\ proq' \in Seq(Reports)
      <3>1. \A q \in Seq(Reports) : Append(q, e) \in Seq(Reports)
        OBVIOUS
      <3>2. hubq \in Seq(Reports) /\ proq \in Seq(Reports)
        BY DEF FanTypeOK
      <3>3. hubq' \in {hubq, Append(hubq, e)} /\ proq' \in {proq, Append(proq, e)}
        BY <1>2 DEF PublishReport
      <3>. QED
        BY <3>1, <3>2, <3>3
    <2>2. late' \subseteq Users \X Platforms
      BY <1>0, <1>2, MissTyped DEF FanTypeOK, PublishReport
    <2>. QED
      BY <1>2, <2>1, <2>2 DEF FanTypeOK, PublishReport
  <1>3. CASE Broadcast
    <2>1. hubq # <<>> /\ hubq \in Seq(Reports)
      BY <1>3 DEF FanTypeOK, Broadcast
    <2>2. Tail(hubq) \in Seq(Reports) /\ Head(hubq) \in Reports /\ Head(hubq) \in 0..MaxReports
      BY <2>1, <1>0, HeadTailProperties DEF Reports
    <2>3. offered' \in [Clients -> Seq(Reports)]
      <3>1. \A c \in Clients : offered[c] \in Seq(Reports) /\ Append(offered[c], Head(hubq)) \in Seq(Reports)
        BY <2>2 DEF FanTypeOK
      <3>. QED
        BY <1>3, <3>1 DEF Broadcast
    <2>. QED
      BY <1>3, <2>2, <2>3 DEF FanTypeOK, Broadcast
  <1>4. ASSUME NEW c \in Clients, HandleWS(c) PROVE FanTypeOK'
    BY <1>4, <1>0 DEF FanTypeOK, HandleWS
  <1>5. ASSUME NEW c \in Clients, Offer(c) PROVE FanTypeOK'
    <2>1. c \in rest /\ frame \in Reports
      BY <1>5 DEF FanTyped, Offer
    <2>0. /\ buf \in [Clients -> Seq(Reports)] /\ missed \in [Clients -> SUBSET Reports]
          /\ buf' = [buf EXCEPT ![c] = Append(buf[c], frame)] \/ buf' = buf
          /\ missed' = [missed EXCEPT ![c] = missed[c] \cup {frame}] \/ missed' = missed
      BY <1>5 DEF FanTypeOK, Offer
    <2>2. buf' \in [Clients -> Seq(Reports)]
      <3>1. Append(buf[c], frame) \in Seq(Reports)
        BY <2>0, <2>1
      <3>. QED
        BY <2>0, <3>1
    <2>3. missed' \in [Clients -> SUBSET Reports]
      BY <2>0, <2>1
    <2>. QED
      BY <1>5, <2>2, <2>3 DEF FanTypeOK, Offer
  <1>6. ASSUME NEW c \in Clients, WritePump(c) PROVE FanTypeOK'
    <2>1. buf[c] \in Seq(Reports) /\ Reports \subseteq 0..MaxReports
      BY <1>0 DEF FanTypeOK, Reports
    <2>2. buf[c] # <<>> => Head(buf[c]) \in Reports /\ Tail(buf[c]) \in Seq(Reports)
      BY <2>1, HeadTailProperties
    <2>0. /\ buf \in [Clients -> Seq(Reports)] /\ writing \in [Clients -> 0..MaxReports]
          /\ wpump \in [Clients -> {"none", "wait", "write", "done"}]
      BY DEF FanTypeOK
    <2>3. /\ buf' \in [Clients -> Seq(Reports)] /\ writing' \in [Clients -> 0..MaxReports]
          /\ wpump' \in [Clients -> {"none", "wait", "write", "done"}]
      BY <1>6, <2>0, <2>1, <2>2 DEF WritePump
    <2>4. open' \subseteq Clients
      BY <1>6 DEF FanTypeOK, WritePump
    <2>. QED
      BY <1>6, <2>3, <2>4 DEF FanTypeOK, WritePump
  <1>7. ASSUME NEW c \in Clients, Write(c) PROVE FanTypeOK'
    <2>1. writing[c] \in Reports
      BY <1>7 DEF FanTyped, Write
    <2>0. /\ got \in [Clients -> Seq(Reports)] /\ writing \in [Clients -> 0..MaxReports]
          /\ wpump \in [Clients -> {"none", "wait", "write", "done"}]
      BY DEF FanTypeOK
    <2>2. /\ got' \in [Clients -> Seq(Reports)] /\ writing' \in [Clients -> 0..MaxReports]
          /\ wpump' \in [Clients -> {"none", "wait", "write", "done"}]
      <3>1. Append(got[c], writing[c]) \in Seq(Reports)
        BY <2>0, <2>1
      <3>2. /\ got' = [got EXCEPT ![c] = Append(got[c], writing[c])] \/ got' = got
            /\ wpump' = [wpump EXCEPT ![c] = "wait"] \/ wpump' = [wpump EXCEPT ![c] = "done"]
            /\ writing' = [writing EXCEPT ![c] = 0]
        BY <1>7 DEF Write
      <3>3. 0 \in 0..MaxReports
        BY <1>0
      <3>4. writing' \in [Clients -> 0..MaxReports]
        BY <2>0, <3>2, <3>3
      <3>5. got' \in [Clients -> Seq(Reports)]
        BY <2>0, <3>1, <3>2
      <3>6. wpump' \in [Clients -> {"none", "wait", "write", "done"}]
        BY <2>0, <3>2
      <3>. QED
        BY <3>4, <3>5, <3>6
    <2>3. open' \subseteq Clients
      BY <1>7 DEF FanTypeOK, Write
    <2>. QED
      BY <1>7, <2>2, <2>3 DEF FanTypeOK, Write
  <1>8. ASSUME NEW c \in Clients, HangUp(c) PROVE FanTypeOK'
    BY <1>8 DEF FanTypeOK, HangUp
  <1>9. ASSUME NEW c \in Clients, ReadPump(c) PROVE FanTypeOK'
    BY <1>9 DEF FanTypeOK, ReadPump
  <1>10. ASSUME NEW c \in Clients, Unregister(c) PROVE FanTypeOK'
    BY <1>10 DEF FanTypeOK, Unregister
  <1>11. ASSUME NEW h \in Pushers, Run(h) PROVE FanTypeOK'
    <2>1. Tail(proq) \in Seq(Reports)
      BY <1>11, HeadTailProperties DEF FanTypeOK, Run
    <2>2. pc' \in [Pushers -> Steps]
      BY <1>11 DEF FanTypeOK, Run, Goto, Steps
    <2>. QED
      BY <1>11, <2>1, <2>2 DEF FanTypeOK, Run
  <1>12. ASSUME NEW h \in Pushers, OwnerOfDevice(h) PROVE FanTypeOK'
    <2>0. late' \subseteq Users \X Platforms
      BY <1>0, <1>12, MissTyped DEF FanTypeOK, OwnerOfDevice
    <2>1. CASE Finish(h)
      BY <1>12, <2>0, <2>1, FinishTyped DEF FanTypeOK, OwnerOfDevice
    <2>2. CASE ~ Finish(h)
      <3>1. pc' \in [Pushers -> Steps] /\ uid' \in [Pushers -> Users \cup {None}]
        BY <1>12, <2>2 DEF FanTypeOK, OwnerOfDevice, Goto, Steps
      <3>. QED
        BY <1>12, <2>0, <2>2, <3>1 DEF FanTypeOK, OwnerOfDevice
    <2>. QED
      BY <2>1, <2>2
  <1>13. ASSUME NEW h \in Pushers, OwnsDevice(h) PROVE FanTypeOK'
    <2>0. late' \subseteq Users \X Platforms
      BY <1>0, <1>13, MissTyped DEF FanTypeOK, OwnsDevice
    <2>1. CASE Finish(h)
      BY <1>13, <2>0, <2>1, FinishTyped DEF FanTypeOK, OwnsDevice
    <2>2. CASE ~ Finish(h)
      <3>1. pc' \in [Pushers -> Steps]
        BY <1>13, <2>2 DEF FanTypeOK, OwnsDevice, Goto, Steps
      <3>. QED
        BY <1>13, <2>0, <2>2, <3>1 DEF FanTypeOK, OwnsDevice
    <2>. QED
      BY <2>1, <2>2
  <1>14. ASSUME NEW h \in Pushers, GetReportedDPS(h) PROVE FanTypeOK'
    <2>0. late' \subseteq Users \X Platforms
      BY <1>0, <1>14, MissTyped DEF FanTypeOK, GetReportedDPS
    <2>1. CASE Finish(h)
      BY <1>14, <2>0, <2>1, FinishTyped DEF FanTypeOK, GetReportedDPS
    <2>2. CASE ~ Finish(h)
      <3>0. stored \in 0..MaxReports /\ 0 \in 0..MaxReports /\ {owner} \ {None} \subseteq Users
        BY <1>0 DEF FanTypeOK
      <3>1. /\ Goto(h, "linked") /\ heirs' = [heirs EXCEPT ![h] = {owner} \ {None}]
            /\ dps' = [dps EXCEPT ![h] = stored] \/ dps' = [dps EXCEPT ![h] = 0]
        BY <1>14, <2>2 DEF GetReportedDPS
      <3>2. pc' \in [Pushers -> Steps]
        BY <3>1 DEF FanTypeOK, Goto, Steps
      <3>3. dps' \in [Pushers -> 0..MaxReports]
        BY <3>0, <3>1 DEF FanTypeOK
      <3>4. heirs' \in [Pushers -> SUBSET Users]
        BY <3>0, <3>1 DEF FanTypeOK
      <3>. QED
        BY <1>14, <2>0, <2>2, <3>2, <3>3, <3>4 DEF FanTypeOK, GetReportedDPS
    <2>. QED
      BY <2>1, <2>2
  <1>15. ASSUME NEW h \in Pushers, LinkedPlatforms(h) PROVE FanTypeOK'
    <2>0. late' \subseteq Users \X Platforms
      <3>1. uid[h] \in Users
        BY <1>15 DEF FanTyped, LinkedPlatforms
      <3>2. PICK ps \in SUBSET Platforms : Miss({<<uid[h], p>> : p \in ps})
        BY <1>15 DEF LinkedPlatforms
      <3>. QED
        BY <3>1, <3>2, MissTyped
    <2>1. CASE Finish(h)
      BY <1>15, <2>0, <2>1, FinishTyped DEF FanTypeOK, LinkedPlatforms
    <2>2. CASE ~ Finish(h)
      <3>0. PICK ps \in SUBSET Platforms : Goto(h, "check") /\ todo' = [todo EXCEPT ![h] = ps]
        BY <1>15, <2>2 DEF LinkedPlatforms
      <3>1. pc' \in [Pushers -> Steps] /\ todo' \in [Pushers -> SUBSET Platforms]
        BY <3>0 DEF FanTypeOK, Goto, Steps
      <3>. QED
        BY <1>15, <2>0, <2>2, <3>1 DEF FanTypeOK, LinkedPlatforms
    <2>. QED
      BY <2>1, <2>2
  <1>16. ASSUME NEW h \in Pushers, NEW p \in Platforms, OwnsDeviceForAssistant(h, p)
         PROVE  FanTypeOK'
    <2>0. late' \subseteq Users \X Platforms
      <3>1. uid[h] \in Users
        BY <1>16 DEF FanTyped, OwnsDeviceForAssistant
      <3>2. UNCHANGED late \/ Miss({<<uid[h], p>>})
        BY <1>16 DEF OwnsDeviceForAssistant
      <3>. QED
        BY <3>1, <3>2, MissTyped DEF FanTypeOK
    <2>1. todo[h] \ {p} \in SUBSET Platforms
      BY DEF FanTypeOK
    <2>2. CASE Proceed(h, todo[h] \ {p})
      BY <1>16, <2>0, <2>1, <2>2, ProceedTyped DEF FanTypeOK, OwnsDeviceForAssistant
    <2>3. CASE ~ Proceed(h, todo[h] \ {p})
      <3>0. Goto(h, "push") /\ to' = [to EXCEPT ![h] = {p}]
        BY <1>16, <2>3 DEF OwnsDeviceForAssistant
      <3>1. pc' \in [Pushers -> Steps] /\ to' \in [Pushers -> SUBSET Platforms]
        BY <3>0 DEF FanTypeOK, Goto, Steps
      <3>. QED
        BY <1>16, <2>0, <2>3, <3>1 DEF FanTypeOK, OwnsDeviceForAssistant
    <2>. QED
      BY <2>2, <2>3
  <1>17. ASSUME NEW h \in Pushers, Push(h) PROVE FanTypeOK'
    <2>1. to[h] \in SUBSET Platforms /\ todo[h] \in SUBSET Platforms /\ dps[h] \in 0..MaxReports
          /\ uid[h] \in Users \cup {None}
      BY DEF FanTypeOK
    <2>3. uid[h] \in Users
      BY <1>17 DEF FanTyped, Push
    <2>2. PICK p \in Platforms :
            /\ shown' = [shown EXCEPT ![<<uid[h], p>>] = dps[h]] \/ shown' = shown
            /\ \/ late' = late \cup {<<uid[h], p>>} \/ late' \subseteq late \/ Miss({<<uid[h], p>>})
            /\ strays' = strays \/ strays' = strays \cup {uid[h]}
            /\ Proceed(h, todo[h] \ {p})
      <3>1. PICK p \in to[h] : LET x == <<uid[h], p>> IN
              /\ \/ /\ shown' = [shown EXCEPT ![x] = dps[h]]
                    /\ late' = IF dps[h] = 0 \/ dps[h] < shown[x] THEN late \cup {x}
                               ELSE late \ {y \in {x} : dps[h] = stored}
                    /\ strays' = IF uid[h] \in heirs[h] THEN strays ELSE strays \cup {uid[h]}
                 \/ UNCHANGED <<shown, late, strays>>
                 \/ Miss({x}) /\ UNCHANGED <<shown, strays>>
              /\ Proceed(h, todo[h] \ {p})
        BY <1>17 DEF Push
      <3>2. p \in Platforms
        BY <2>1
      <3>. QED
        BY <3>1, <3>2
    <2>4. shown' \in [Users \X Platforms -> 0..MaxReports]
      BY <2>1, <2>2 DEF FanTypeOK
    <2>5. late' \subseteq Users \X Platforms /\ strays' \subseteq Users
      <3>1. {<<uid[h], p>>} \in SUBSET (Users \X Platforms)
        BY <2>3
      <3>. QED
        BY <2>2, <2>3, <3>1, MissTyped DEF FanTypeOK
    <2>6. todo[h] \ {p} \in SUBSET Platforms
      BY <2>1
    <2>. QED
      BY <1>17, <2>2, <2>4, <2>5, <2>6, ProceedTyped DEF FanTypeOK, Push
  <1>18. ASSUME NEW u \in Users \cup {None}, ChangeOwner(u) PROVE FanTypeOK'
    <2>1. moves' \in 0..MaxMoves
      BY <1>18, <1>0 DEF FanTypeOK, ChangeOwner
    <2>2. heirs' \in [Pushers -> SUBSET Users]
      BY <1>18 DEF FanTypeOK, ChangeOwner
    <2>. QED
      BY <1>18, <2>1, <2>2 DEF FanTypeOK, ChangeOwner
  <1>19. CASE UNCHANGED fanVars
    BY <1>19 DEF FanTypeOK, fanVars
  <1>. QED
    BY <1>1, <1>2, <1>3, <1>4, <1>5, <1>6, <1>7, <1>8, <1>9, <1>10, <1>11, <1>12, <1>13, <1>14,
       <1>15, <1>16, <1>17, <1>18, <1>19 DEF FanNext

\* A step is one of a goroutine of the proactive service, or leaves each of them where it was.
LEMMA PusherMoves ==
  ASSUME FanTypeOK, [FanNext]_fanVars, NEW h \in Pushers
  PROVE  \/ /\ pc'[h] = pc[h] /\ uid'[h] = uid[h] /\ dps'[h] = dps[h]
            /\ todo'[h] = todo[h] /\ to'[h] = to[h]
            /\ heirs'[h] = heirs[h] \/ \E u \in Users \cup {None} : ChangeOwner(u)
         \/ Run(h) \/ OwnerOfDevice(h) \/ OwnsDevice(h) \/ GetReportedDPS(h)
         \/ LinkedPlatforms(h) \/ Push(h)
         \/ \E p \in Platforms : OwnsDeviceForAssistant(h, p)
  <1>1. CASE UNCHANGED <<pc, uid, dps, todo, to, heirs>>
    BY <1>1
  <1>2. ASSUME NEW g \in Pushers,
               \/ Run(g) \/ OwnerOfDevice(g) \/ OwnsDevice(g) \/ GetReportedDPS(g)
               \/ LinkedPlatforms(g) \/ Push(g)
               \/ \E p \in Platforms : OwnsDeviceForAssistant(g, p),
               g # h
        PROVE  /\ pc'[h] = pc[h] /\ uid'[h] = uid[h] /\ dps'[h] = dps[h]
               /\ todo'[h] = todo[h] /\ to'[h] = to[h] /\ heirs'[h] = heirs[h]
    BY <1>2 DEF FanTypeOK, Run, OwnerOfDevice, OwnsDevice, GetReportedDPS, LinkedPlatforms, Push,
                OwnsDeviceForAssistant, Proceed, Finish, Goto
  <1>3. \/ UNCHANGED <<pc, uid, dps, todo, to, heirs>>
        \/ \E u \in Users \cup {None} : ChangeOwner(u)
        \/ \E g \in Pushers :
              \/ Run(g) \/ OwnerOfDevice(g) \/ OwnsDevice(g) \/ GetReportedDPS(g)
              \/ LinkedPlatforms(g) \/ Push(g)
              \/ \E p \in Platforms : OwnsDeviceForAssistant(g, p)
    BY DEF FanNext, fanVars, queueVars, hubVars, ownVars, pushVars, HandleRpt, PublishReport,
           Broadcast, HandleWS, Offer, WritePump, Write, HangUp, ReadPump, Unregister
  <1>4. CASE \E u \in Users \cup {None} : ChangeOwner(u)
    BY <1>4 DEF ChangeOwner
  <1>. QED
    BY <1>1, <1>2, <1>3, <1>4

\* A step is one of a client's pumps, its connection or the broadcast to it, or leaves it alone.
LEMMA ClientMoves ==
  ASSUME FanTypeOK, [FanNext]_fanVars, NEW c \in Clients
  PROVE  \/ /\ buf'[c] = buf[c] /\ wpump'[c] = wpump[c] /\ rpump'[c] = rpump[c]
            /\ writing'[c] = writing[c] /\ got'[c] = got[c] /\ missed'[c] = missed[c]
            /\ (c \in clients' <=> c \in clients) /\ (c \in closed' <=> c \in closed)
            /\ (c \in open' <=> c \in open)
            /\ \/ /\ (c \in rest' <=> c \in rest) /\ frame' = frame /\ offered'[c] = offered[c]
               \/ Broadcast
         \/ HandleWS(c) \/ Offer(c) \/ WritePump(c) \/ Write(c) \/ HangUp(c)
         \/ ReadPump(c) \/ Unregister(c)
  <1>1. CASE UNCHANGED hubVars
    BY <1>1 DEF hubVars
  <1>2. ASSUME NEW d \in Clients,
               \/ HandleWS(d) \/ Offer(d) \/ WritePump(d) \/ Write(d) \/ HangUp(d)
               \/ ReadPump(d) \/ Unregister(d),
               d # c
        PROVE  /\ buf'[c] = buf[c] /\ wpump'[c] = wpump[c] /\ rpump'[c] = rpump[c]
               /\ writing'[c] = writing[c] /\ got'[c] = got[c] /\ missed'[c] = missed[c]
               /\ (c \in clients' <=> c \in clients) /\ (c \in closed' <=> c \in closed)
               /\ (c \in open' <=> c \in open)
               /\ (c \in rest' <=> c \in rest) /\ frame' = frame /\ offered'[c] = offered[c]
    <2>1. /\ DOMAIN buf = Clients /\ DOMAIN wpump = Clients /\ DOMAIN rpump = Clients
          /\ DOMAIN writing = Clients /\ DOMAIN got = Clients /\ DOMAIN missed = Clients
      BY DEF FanTypeOK
    <2>2. CASE HandleWS(d)
      BY <1>2, <2>1, <2>2 DEF HandleWS
    <2>3. CASE Offer(d)
      BY <1>2, <2>1, <2>3 DEF Offer
    <2>4. CASE WritePump(d)
      BY <1>2, <2>1, <2>4 DEF WritePump
    <2>5. CASE Write(d)
      BY <1>2, <2>1, <2>5 DEF Write
    <2>6. CASE HangUp(d) \/ ReadPump(d) \/ Unregister(d)
      BY <1>2, <2>1, <2>6 DEF HangUp, ReadPump, Unregister
    <2>. QED
      BY <1>2, <2>2, <2>3, <2>4, <2>5, <2>6
  <1>3. \/ UNCHANGED hubVars \/ Broadcast
        \/ \E d \in Clients :
              \/ HandleWS(d) \/ Offer(d) \/ WritePump(d) \/ Write(d) \/ HangUp(d)
              \/ ReadPump(d) \/ Unregister(d)
    BY DEF FanNext, fanVars, HandleRpt, PublishReport, Run, OwnerOfDevice,
           OwnsDevice, GetReportedDPS, LinkedPlatforms, OwnsDeviceForAssistant, Push, ChangeOwner
  <1>4. CASE Broadcast
    BY <1>4 DEF Broadcast
  <1>. QED
    BY <1>1, <1>2, <1>3, <1>4

\* And what FanTyped adds: nobody is offered or sent frame 0, nobody's state is pushed to None.
LEMMA FanTypedStep == FanTyped /\ [FanNext]_fanVars => FanTyped'
  <1>. SUFFICES ASSUME FanTyped, FanTypeOK, FanTypeOK', [FanNext]_fanVars PROVE FanTyped'
    BY FanTypeStep DEF FanTyped
  <1>1. (rest # {} => frame \in Reports)'
    <2>1. (rest' = rest /\ frame' = frame) \/ Broadcast \/ (rest # {} /\ frame' = frame)
      BY DEF FanNext, fanVars, queueVars, hubVars, ownVars, pushVars, HandleRpt, PublishReport,
             HandleWS, Offer, WritePump, Write, HangUp, ReadPump, Unregister, Run, OwnerOfDevice,
             OwnsDevice, GetReportedDPS, LinkedPlatforms, OwnsDeviceForAssistant, Push, ChangeOwner
    <2>2. CASE Broadcast
      <3>1. hubq # <<>> /\ hubq \in Seq(Reports) /\ frame' = Head(hubq)
        BY <2>2 DEF FanTypeOK, Broadcast
      <3>. QED
        BY <3>1, HeadTailProperties
    <2>. QED
      BY <2>1, <2>2 DEF FanTyped
  <1>2. ASSUME NEW c \in Clients
        PROVE  (IF wpump[c] = "write" THEN writing[c] \in Reports ELSE writing[c] = 0)'
    <2>1. CASE wpump'[c] = wpump[c] /\ writing'[c] = writing[c]
      BY <2>1 DEF FanTyped
    <2>2. CASE HandleWS(c)
      BY <2>2 DEF FanTyped, FanTypeOK, HandleWS
    <2>3. CASE WritePump(c)
      <3>1. buf[c] \in Seq(Reports) /\ (buf[c] # <<>> => Head(buf[c]) \in Reports)
        BY HeadTailProperties DEF FanTypeOK
      <3>2. writing[c] = 0 /\ writing \in [Clients -> 0..MaxReports]
            /\ wpump \in [Clients -> {"none", "wait", "write", "done"}]
        BY <2>3 DEF FanTyped, FanTypeOK, WritePump
      <3>. QED
        BY <2>3, <3>1, <3>2 DEF WritePump
    <2>4. CASE Write(c)
      BY <2>4 DEF FanTypeOK, Write
    <2>5. CASE Offer(c) \/ HangUp(c) \/ ReadPump(c) \/ Unregister(c)
      BY <2>5, <2>1 DEF Offer, HangUp, ReadPump, Unregister
    <2>. QED
      BY <2>1, <2>2, <2>3, <2>4, <2>5, ClientMoves
  <1>3. ASSUME NEW h \in Pushers
        PROVE  (pc[h] \notin {"idle", "owner"} => uid[h] \in Users)'
    <2>1. CASE pc'[h] = pc[h] /\ uid'[h] = uid[h]
      BY <2>1 DEF FanTyped
    <2>2. CASE pc'[h] \in {"idle", "owner"}
      BY <2>2
    <2>3. CASE Run(h) \/ Finish(h)
      BY <2>3 DEF FanTypeOK, Run, Goto, Finish
    <2>4. CASE OwnerOfDevice(h) /\ ~ Finish(h)
      BY <2>4 DEF FanTypeOK, OwnerOfDevice
    <2>5. CASE pc[h] \notin {"idle", "owner"} /\ uid' = uid
      BY <2>5 DEF FanTyped
    <2>6. CASE ~ Finish(h) /\ (OwnsDevice(h) \/ GetReportedDPS(h) \/ LinkedPlatforms(h))
      BY <2>5, <2>6 DEF OwnsDevice, GetReportedDPS, LinkedPlatforms
    <2>7. CASE ~ Finish(h) /\ \E p \in Platforms : OwnsDeviceForAssistant(h, p)
      BY <2>5, <2>7 DEF OwnsDeviceForAssistant, Proceed
    <2>8. CASE ~ Finish(h) /\ Push(h)
      BY <2>5, <2>8 DEF Push, Proceed
    <2>. QED
      BY <2>1, <2>3, <2>4, <2>6, <2>7, <2>8, PusherMoves
  <1>. QED
    BY <1>1, <1>2, <1>3 DEF FanTyped

\* The hub, its clients and the proactive service keep to their types.
THEOREM FanTypeCorrect == FanSpec => []FanTypeOK
  <1>1. FanTyped => FanTypeOK
    BY DEF FanTyped
  <1>. QED
    BY <1>1, FanTypeInit, FanTypedStep, PTL DEF FanSpec

-----------------------------------------------------------------------------
(* The hub.                                                                *)

\* Under its lock the hub keeps these together: a client has both pumps or none; the channel is
\* closed by the read pump, once, when it takes the client out of the map, and the client is
\* in no broadcast then.
Locked ==
  /\ rest \subseteq clients
  /\ \A c \in Clients :
       /\ wpump[c] = "none" <=> rpump[c] = "none"
       /\ c \in clients => rpump[c] \in {"read", "unregister"}
       /\ c \in closed => rpump[c] = "done"

\* The hub's lock keeps them together: nobody is registered or unregistered during a broadcast.
LEMMA LockedStep == FanTyped /\ Locked /\ [FanNext]_fanVars => Locked'
  <1>. SUFFICES ASSUME FanTypeOK, Locked, [FanNext]_fanVars PROVE Locked'
    BY DEF FanTyped
  <1>1. ASSUME NEW c \in Clients
        PROVE  /\ (c \in rest => c \in clients)'
               /\ (wpump[c] = "none" <=> rpump[c] = "none")'
               /\ (c \in clients => rpump[c] \in {"read", "unregister"})'
               /\ (c \in closed => rpump[c] = "done")'
    <2>0. /\ DOMAIN wpump = Clients /\ DOMAIN rpump = Clients
          /\ c \in rest => c \in clients
          /\ wpump[c] = "none" <=> rpump[c] = "none"
          /\ c \in clients => rpump[c] \in {"read", "unregister"}
          /\ c \in closed => rpump[c] = "done"
      BY DEF Locked, FanTypeOK
    <2>1. CASE HandleWS(c)
      BY <2>0, <2>1 DEF HandleWS
    <2>2. CASE Offer(c)
      BY <2>0, <2>2 DEF Offer
    <2>3. CASE WritePump(c)
      BY <2>0, <2>3 DEF WritePump
    <2>4. CASE Write(c)
      BY <2>0, <2>4 DEF Write
    <2>5. CASE HangUp(c) \/ ReadPump(c)
      BY <2>0, <2>5 DEF HangUp, ReadPump
    <2>6. CASE Unregister(c)
      BY <2>0, <2>6 DEF Unregister
    <2>7. CASE Broadcast
      BY <2>0, <2>7 DEF Broadcast
    <2>. QED
      BY <2>0, <2>1, <2>2, <2>3, <2>4, <2>5, <2>6, <2>7, ClientMoves
  <1>2. rest' \subseteq Clients
    BY FanTypeStep DEF FanNext, fanVars, hubVars, FanTypeOK, HandleRpt, PublishReport, Broadcast,
           HandleWS, Offer, WritePump, Write, HangUp, ReadPump, Unregister, Run, OwnerOfDevice,
           OwnsDevice, GetReportedDPS, LinkedPlatforms, OwnsDeviceForAssistant, Push, ChangeOwner
  <1>. QED
    BY <1>1, <1>2 DEF Locked

\* No broadcast ever sends on a closed channel, which would take the server down: unregister
\* waits for it, and whoever is out of the map is in none.
THEOREM NeverSentOnClosed == FanSpec => []NoSendOnClosed
  <1>1. FanInit => Locked
    BY DEF FanInit, Locked
  <1>2. FanTyped /\ Locked => NoSendOnClosed
    BY DEF FanTyped, FanTypeOK, Locked, NoSendOnClosed
  <1>. QED
    BY <1>1, <1>2, FanTypeInit, FanTypedStep, LockedStep, PTL DEF FanSpec

-----------------------------------------------------------------------------
(* The proactive service.                                                  *)

\* From the reading of the state on, the heirs are those who have had the device since: the owner
\* of now is one, and who is about to be pushed was the owner when last asked.
Heirs ==
  \A h \in Pushers :
    /\ pc[h] \in {"linked", "check", "push"} => owner \in heirs[h] \cup {None}
    /\ pc[h] = "push" => uid[h] \in heirs[h]

\* Every step keeps the heirs right, a change of owner between the last question and the push
\* included.
LEMMA HeirsStep == FanTyped /\ Heirs /\ [FanNext]_fanVars => Heirs'
  <1>. SUFFICES ASSUME FanTyped, FanTypeOK, Heirs, [FanNext]_fanVars, NEW h \in Pushers
                PROVE  /\ (pc[h] \in {"linked", "check", "push"} => owner \in heirs[h] \cup {None})'
                       /\ (pc[h] = "push" => uid[h] \in heirs[h])'
    BY DEF FanTyped, Heirs
  <1>0. /\ pc[h] \in {"linked", "check", "push"} => owner \in heirs[h] \cup {None}
        /\ pc[h] = "push" => uid[h] \in heirs[h]
        /\ pc[h] \notin {"idle", "owner"} => uid[h] \in Users
        /\ DOMAIN pc = Pushers /\ DOMAIN uid = Pushers /\ DOMAIN heirs = Pushers
        /\ None \notin Users
    BY FanAssumptions DEF FanAssumptions, FanTyped, FanTypeOK, Heirs
  <1>1. (\E u \in Users \cup {None} : ChangeOwner(u)) \/ owner' = owner
    BY DEF FanNext, fanVars, queueVars, hubVars, ownVars, pushVars, HandleRpt, PublishReport,
           Broadcast, HandleWS, Offer, WritePump, Write, HangUp, ReadPump, Unregister, Run,
           OwnerOfDevice, OwnsDevice, GetReportedDPS, LinkedPlatforms, OwnsDeviceForAssistant, Push
  <1>2. ASSUME NEW u \in Users \cup {None}, ChangeOwner(u)
        PROVE  /\ (pc[h] \in {"linked", "check", "push"} => owner \in heirs[h] \cup {None})'
               /\ (pc[h] = "push" => uid[h] \in heirs[h])'
    BY <1>0, <1>2 DEF ChangeOwner
  <1>3. CASE owner' = owner /\ pc'[h] \notin {"linked", "check", "push"}
    BY <1>3
  <1>4. CASE owner' = owner /\ pc'[h] = pc[h] /\ uid'[h] = uid[h] /\ heirs'[h] = heirs[h]
    BY <1>0, <1>4
  <1>5. CASE Finish(h)
    <2>1. pc'[h] = "idle"
      BY <1>0, <1>5 DEF Finish, Goto
    <2>. QED
      BY <1>1, <1>2, <1>3, <2>1
  <1>6. CASE Run(h)
    BY <1>0, <1>6 DEF Run, Goto, ownVars
  <1>7. CASE ~ Finish(h) /\ OwnerOfDevice(h)
    BY <1>0, <1>7 DEF OwnerOfDevice, Goto, ownVars
  <1>8. CASE ~ Finish(h) /\ OwnsDevice(h)
    BY <1>0, <1>8 DEF OwnsDevice, Goto, ownVars
  <1>9. CASE ~ Finish(h) /\ GetReportedDPS(h)
    BY <1>0, <1>9 DEF GetReportedDPS, Goto, ownVars
  <1>10. CASE ~ Finish(h) /\ LinkedPlatforms(h)
    BY <1>0, <1>10 DEF LinkedPlatforms, Goto, ownVars
  <1>11. ASSUME NEW p \in Platforms, ~ Finish(h), OwnsDeviceForAssistant(h, p)
         PROVE  /\ (pc[h] \in {"linked", "check", "push"} => owner \in heirs[h] \cup {None})'
                /\ (pc[h] = "push" => uid[h] \in heirs[h])'
    <2>1. pc[h] = "check" /\ UNCHANGED <<owner, uid, heirs>>
      BY <1>11 DEF OwnsDeviceForAssistant, Proceed, ownVars
    <2>2. pc'[h] = "check" \/ (owner = uid[h] /\ pc'[h] = "push")
      BY <1>0, <1>11 DEF OwnsDeviceForAssistant, Proceed, Goto
    <2>. QED
      BY <1>0, <2>1, <2>2
  <1>12. CASE ~ Finish(h) /\ Push(h)
    <2>1. pc[h] = "push" /\ UNCHANGED <<owner, uid, heirs>> /\ pc'[h] = "check"
      BY <1>0, <1>12 DEF Push, Proceed, Goto, ownVars
    <2>. QED
      BY <1>0, <2>1
  <1>. QED
    BY <1>1, <1>2, <1>4, <1>5, <1>6, <1>7, <1>8, <1>9, <1>10, <1>11, <1>12, PusherMoves

\* However often the device changes hands, a state is pushed only to who had the device at some
\* time since it was read.
THEOREM PushedOnlyToOwners == FanSpec => []PushedToOwner
  <1>1. FanInit => Heirs /\ PushedToOwner
    BY DEF FanInit, Heirs, PushedToOwner
  <1>2. Heirs /\ PushedToOwner /\ [FanNext]_fanVars => PushedToOwner'
    <2>1. Heirs /\ [FanNext]_fanVars => strays' = strays
      BY DEF FanNext, fanVars, queueVars, hubVars, ownVars, pushVars, HandleRpt, PublishReport,
             Broadcast, HandleWS, Offer, WritePump, Write, HangUp, ReadPump, Unregister, Run,
             OwnerOfDevice, OwnsDevice, GetReportedDPS, LinkedPlatforms, OwnsDeviceForAssistant,
             Push, ChangeOwner, Heirs
    <2>. QED
      BY <2>1 DEF PushedToOwner
  <1>. QED
    BY <1>1, <1>2, FanTypeInit, FanTypedStep, HeirsStep, PTL DEF FanSpec

-----------------------------------------------------------------------------
(* What is shown in the end.                                               *)

\* No state is ahead of the table.
NotAhead ==
  /\ \A h \in Pushers : dps[h] <= stored
  /\ \A x \in Users \X Platforms : shown[x] <= stored

\* Reports only raise what the table holds, and the rest is read from it.
LEMMA NotAheadStep == FanTyped /\ NotAhead /\ [FanNext]_fanVars => NotAhead'
  <1>. SUFFICES ASSUME FanTyped, FanTypeOK, NotAhead, [FanNext]_fanVars PROVE NotAhead'
    BY DEF FanTyped
  <1>0. /\ MaxReports \in Nat /\ reports \in Nat /\ stored \in Nat /\ stored <= reports
        /\ DOMAIN dps = Pushers /\ \A h \in Pushers : dps[h] \in Nat /\ dps[h] <= stored
        /\ \A x \in Users \X Platforms : shown[x] \in Nat /\ shown[x] <= stored
    BY FanAssumptions DEF FanAssumptions, FanTypeOK, NotAhead
  <1>1. stored' \in Nat /\ stored <= stored'
    <2>1. HandleRpt \/ stored' = stored
      BY DEF FanNext, fanVars, queueVars, hubVars, ownVars, pushVars, HandleRpt, PublishReport,
             Broadcast, HandleWS, Offer, WritePump, Write, HangUp, ReadPump, Unregister, Run,
             OwnerOfDevice, OwnsDevice, GetReportedDPS, LinkedPlatforms, OwnsDeviceForAssistant,
             Push, ChangeOwner
    <2>2. HandleRpt => stored' = reports + 1 \/ stored' = stored
      BY DEF HandleRpt
    <2>. QED
      BY <1>0, <2>1, <2>2
  <1>2. ASSUME NEW h \in Pushers PROVE dps'[h] <= stored'
    <2>1. dps'[h] = dps[h] \/ dps'[h] = 0 \/ dps'[h] = stored
      <3>1. CASE Finish(h)
        BY <1>0, <3>1 DEF Finish
      <3>2. CASE ~ Finish(h)
        BY <1>0, <3>2, PusherMoves DEF Run, OwnerOfDevice, OwnsDevice, GetReportedDPS,
           LinkedPlatforms, Push, OwnsDeviceForAssistant, Proceed
      <3>. QED
        BY <3>1, <3>2
    <2>. QED
      BY <1>0, <1>1, <2>1
  <1>3. ASSUME NEW x \in Users \X Platforms PROVE shown'[x] <= stored'
    <2>1. shown'[x] = shown[x] \/ \E h \in Pushers : shown'[x] = dps[h]
      <3>1. (\E h \in Pushers : Push(h)) \/ shown' = shown
        BY DEF FanNext, fanVars, queueVars, hubVars, ownVars, pushVars, HandleRpt, PublishReport,
               Broadcast, HandleWS, Offer, WritePump, Write, HangUp, ReadPump, Unregister, Run,
               OwnerOfDevice, OwnsDevice, GetReportedDPS, LinkedPlatforms, OwnsDeviceForAssistant,
               ChangeOwner
      <3>2. ASSUME NEW h \in Pushers, Push(h) PROVE shown'[x] = shown[x] \/ shown'[x] = dps[h]
        <4>1. shown' = shown \/ \E p \in to[h] : shown' = [shown EXCEPT ![<<uid[h], p>>] = dps[h]]
          BY <3>2 DEF Push
        <4>2. DOMAIN shown = Users \X Platforms
          BY DEF FanTypeOK
        <4>. QED
          BY <4>1, <4>2
      <3>. QED
        BY <3>1, <3>2
    <2>. QED
      BY <1>0, <1>1, <2>1
  <1>. QED
    BY <1>2, <1>3 DEF NotAhead

\* As long as nobody sells the device, its owner is who a goroutine has read.
Kept ==
  scene.moves = 0 =>
    /\ owner \in Users
    /\ \A h \in Pushers : pc[h] \notin {"idle", "owner"} => uid[h] = owner

\* Without a sale, the goroutines and the table agree on the owner.
LEMMA KeptStep == FanTyped /\ Kept /\ [FanNext]_fanVars => Kept'
  <1>. SUFFICES ASSUME FanTyped, FanTypeOK, Kept, [FanNext]_fanVars, scene'.moves = 0
                PROVE  /\ owner' \in Users
                       /\ \A h \in Pushers : pc'[h] \notin {"idle", "owner"} => uid'[h] = owner'
    BY DEF FanTyped, Kept
  <1>1. scene' = scene /\ (owner' = owner \/ moves < scene.moves)
    BY DEF FanNext, fanVars, queueVars, hubVars, ownVars, pushVars, HandleRpt, PublishReport,
           Broadcast, HandleWS, Offer, WritePump, Write, HangUp, ReadPump, Unregister, Run,
           OwnerOfDevice, OwnsDevice, GetReportedDPS, LinkedPlatforms, OwnsDeviceForAssistant,
           Push, ChangeOwner
  <1>2. moves \in Nat
    BY FanAssumptions DEF FanAssumptions, FanTypeOK
  <1>3. scene.moves = 0 /\ owner' = owner
    BY <1>1, <1>2
  <1>4. owner \in Users /\ \A h \in Pushers : pc[h] \notin {"idle", "owner"} => uid[h] = owner
    BY <1>3 DEF Kept
  <1>5. ASSUME NEW h \in Pushers PROVE pc'[h] \notin {"idle", "owner"} => uid'[h] = owner
    <2>0. DOMAIN pc = Pushers /\ DOMAIN uid = Pushers
      BY DEF FanTypeOK
    <2>1. CASE Finish(h)
      BY <2>0, <2>1 DEF Finish, Goto
    <2>2. CASE Run(h) \/ (~ Finish(h) /\ OwnerOfDevice(h))
      BY <2>0, <2>2 DEF Run, OwnerOfDevice, Goto
    <2>3. CASE pc[h] \notin {"idle", "owner"} /\ uid'[h] = uid[h]
      BY <1>4, <2>3
    <2>4. CASE ~ Finish(h) /\ (OwnsDevice(h) \/ GetReportedDPS(h) \/ LinkedPlatforms(h) \/ Push(h))
      BY <2>3, <2>4 DEF OwnsDevice, GetReportedDPS, LinkedPlatforms, Push, Proceed
    <2>5. CASE ~ Finish(h) /\ \E p \in Platforms : OwnsDeviceForAssistant(h, p)
      BY <2>3, <2>5 DEF OwnsDeviceForAssistant, Proceed
    <2>6. CASE pc'[h] = pc[h] /\ uid'[h] = uid[h]
      BY <1>4, <2>6
    <2>. QED
      BY <2>1, <2>2, <2>4, <2>5, <2>6, PusherMoves
  <1>. QED
    BY <1>3, <1>4, <1>5

\* Goroutine h is bound to show x the state in the table, or else to leave it late, as it will when it
\* has read the state in part.
Bound(h, x) ==
  \/ pc[h] \in {"owner", "owns", "read"}
  \/ /\ dps[h] \in {0, stored}
     /\ pc[h] = "linked" \/ (pc[h] \in {"check", "push"} /\ x[2] \in todo[h])

\* What x shows is the state in the table, or an event or a goroutine is on its way to see to it.
SeenTo(x) ==
  shown[x] = stored \/ pending # {} \/ proq # <<>> \/ \E h \in Pushers : Bound(h, x)

OnItsWay ==
  scene.moves = 0 /\ scene.consumer =>
    \A x \in (scene.linked \cap scene.pushable) \ late :
      x[1] = owner /\ x[2] \in scene.supported => SeenTo(x)

\* A goroutine that is bound stays so until it has pushed, finds nothing in the table, or fails, which
\* leaves late what does not show the state in the table.
LEMMA BoundStep ==
  ASSUME FanTyped, FanTypeOK, NotAhead, Kept, scene.moves = 0, scene.consumer,
         NEW x \in scene.linked, x[1] = owner, x[2] \in scene.supported, x \notin late',
         NEW h \in Pushers, Bound(h, x), stored' = stored,
         \/ OwnerOfDevice(h) \/ OwnsDevice(h) \/ GetReportedDPS(h) \/ LinkedPlatforms(h)
         \/ \E p \in Platforms : OwnsDeviceForAssistant(h, p)
  PROVE  Bound(h, x)' \/ shown[x] = stored
  <1>0. /\ owner \in Users /\ owner # None
        /\ pc[h] \notin {"idle", "owner"} => uid[h] = owner
        /\ DOMAIN pc = Pushers /\ DOMAIN todo = Pushers /\ DOMAIN dps = Pushers
    BY FanAssumptions DEF FanAssumptions, FanTypeOK, Kept
  <1>1. x \in Users \X Platforms /\ x = <<owner, x[2]>>
    BY SceneTyped DEF FanTypeOK
  <1>6. CASE Miss(scene.linked)
    BY <1>6, MissSeen
  <1>2. CASE ~ Miss(scene.linked) /\ (OwnerOfDevice(h) \/ OwnsDevice(h))
    BY <1>0, <1>2 DEF OwnerOfDevice, OwnsDevice, Goto, Bound
  <1>3. CASE ~ Miss(scene.linked) /\ GetReportedDPS(h)
    <2>1. CASE stored = 0
      <3>1. shown[x] \in 0..MaxReports /\ shown[x] <= stored /\ MaxReports \in Nat
        BY <1>1, FanAssumptions DEF FanAssumptions, FanTypeOK, NotAhead
      <3>. QED
        BY <2>1, <3>1
    <2>2. CASE stored # 0
      <3>1. pc'[h] = "linked" /\ dps'[h] \in {0, stored}
        BY <1>0, <1>3, <2>2 DEF GetReportedDPS, Goto
      <3>. QED
        BY <3>1 DEF Bound
    <2>. QED
      BY <2>1, <2>2
  <1>4. CASE LinkedPlatforms(h)
    <2>1. x[2] \in {p \in Platforms : <<uid[h], p>> \in scene.linked}
      BY <1>0, <1>1, <1>4 DEF LinkedPlatforms
    <2>2. PICK listed \in SUBSET {p \in Platforms : <<uid[h], p>> \in scene.linked} :
            /\ \/ listed = {}
               \/ todo' = [todo EXCEPT ![h] = listed] /\ Goto(h, "check") /\ UNCHANGED dps
            /\ Miss({<<uid[h], p>> : p \in {q \in Platforms : <<uid[h], q>> \in scene.linked} \ listed})
      BY <1>4 DEF LinkedPlatforms
    <2>3. CASE x[2] \in listed
      <3>1. x[2] \in todo'[h] /\ pc'[h] = "check" /\ dps'[h] = dps[h] /\ dps[h] \in {0, stored}
        BY <1>0, <1>4, <2>2, <2>3 DEF Goto, Bound, LinkedPlatforms
      <3>. QED
        BY <3>1 DEF Bound
    <2>4. CASE x[2] \notin listed
      <3>1. uid[h] = owner
        BY <1>0, <1>4 DEF LinkedPlatforms
      <3>2. x \in {<<uid[h], p>> : p \in {q \in Platforms : <<uid[h], q>> \in scene.linked} \ listed}
        BY <1>1, <2>1, <2>4, <3>1
      <3>. QED
        BY <2>2, <3>2, MissSeen
    <2>. QED
      BY <2>3, <2>4
  <1>5. ASSUME NEW p \in Platforms, OwnsDeviceForAssistant(h, p)
        PROVE  Bound(h, x)' \/ shown[x] = stored
    <2>1. dps[h] \in {0, stored} /\ x[2] \in todo[h] /\ owner = uid[h]
      BY <1>0, <1>5 DEF OwnsDeviceForAssistant, Bound
    <2>2. CASE Proceed(h, todo[h] \ {p}) /\ p # x[2]
      <3>1. x[2] \in todo[h] \ {p}
        BY <2>1, <2>2
      <3>2. x[2] \in todo'[h] /\ pc'[h] = "check" /\ dps'[h] \in {0, stored'}
        BY <1>0, <2>1, <2>2, <3>1 DEF Proceed, Goto
      <3>. QED
        BY <3>2 DEF Bound
    <2>3. CASE Goto(h, "push") /\ UNCHANGED <<dps, todo>>
      <3>1. x[2] \in todo'[h] /\ pc'[h] = "push" /\ dps'[h] \in {0, stored'}
        BY <1>0, <2>1, <2>3 DEF Goto
      <3>. QED
        BY <3>1 DEF Bound
    <2>4. CASE Miss({<<uid[h], p>>}) /\ p = x[2]
      BY <1>1, <2>1, <2>4, MissSeen
    <2>. QED
      BY <1>5, <2>1, <2>2, <2>3, <2>4 DEF OwnsDeviceForAssistant
  <1>. QED
    BY <1>2, <1>3, <1>4, <1>5, <1>6

\* A push shows x the state in the table, leaves x late, or is another's.
LEMMA PushStep ==
  ASSUME FanTyped, FanTypeOK, NotAhead, Kept, scene.moves = 0,
         NEW x \in scene.linked \cap scene.pushable, x[1] = owner, x \notin late',
         x \notin late => SeenTo(x),
         NEW h \in Pushers, Push(h),
         \A g \in Pushers : g # h /\ Bound(g, x) => Bound(g, x)'
  PROVE  SeenTo(x)'
  <1>0. /\ uid[h] = owner /\ DOMAIN pc = Pushers /\ DOMAIN todo = Pushers /\ DOMAIN dps = Pushers
        /\ DOMAIN shown = Users \X Platforms
        /\ to[h] \subseteq Platforms
        /\ x \in Users \X Platforms /\ x = <<owner, x[2]>>
    <2>1. x \in Users \X Platforms
      BY SceneTyped DEF FanTypeOK
    <2>2. x = <<owner, x[2]>>
      BY <2>1
    <2>3. uid[h] = owner
      BY DEF Kept, Push
    <2>. QED
      BY <2>1, <2>2, <2>3 DEF FanTypeOK
  <1>1. UNCHANGED <<stored, pending, proq>> /\ pc[h] = "push"
    BY DEF Push, queueVars
  <1>2. PICK p \in to[h] : LET z == <<uid[h], p>> IN
          /\ \/ /\ shown' = [shown EXCEPT ![z] = dps[h]]
                /\ late' = IF dps[h] = 0 \/ dps[h] < shown[z] THEN late \cup {z}
                           ELSE late \ {y \in {z} : dps[h] = stored}
             \/ z \notin scene.pushable /\ UNCHANGED <<shown, late>>
             \/ Miss({z}) /\ shown' = shown
          /\ Proceed(h, todo[h] \ {p})
    BY DEF Push
  <1>3. CASE p = x[2] /\ Miss({<<uid[h], p>>}) /\ shown' = shown
    <2>1. shown[x] = stored
      BY <1>0, <1>3, MissSeen
    <2>. QED
      BY <1>1, <1>3, <2>1 DEF SeenTo
  <1>4. CASE p = x[2] /\ ~ (Miss({<<uid[h], p>>}) /\ shown' = shown)
    <2>1. /\ shown'[x] = dps[h] /\ ~ (dps[h] < shown[x]) /\ dps[h] # 0
          /\ late' = late \ {y \in {x} : dps[h] = stored}
      BY <1>0, <1>2, <1>4
    <2>2. CASE dps[h] = stored
      BY <1>1, <2>1, <2>2 DEF SeenTo
    <2>3. CASE dps[h] # stored
      <3>1. x \notin late
        BY <2>1, <2>3
      <3>2. dps[h] \in Nat /\ stored \in Nat /\ dps[h] <= stored /\ shown[x] \in Nat
        BY <1>0, FanAssumptions DEF FanAssumptions, FanTypeOK, NotAhead
      <3>3. shown[x] # stored
        BY <2>1, <2>3, <3>2
      <3>4. ~ Bound(h, x)
        BY <1>1, <2>1, <2>3 DEF Bound
      <3>. QED
        BY <1>1, <3>1, <3>3, <3>4 DEF SeenTo
    <2>. QED
      BY <2>2, <2>3
  <1>5. CASE p # x[2]
    <2>0. <<uid[h], p>> # x
      BY <1>0, <1>5
    <2>1. x \notin late /\ shown'[x] = shown[x]
      BY <1>0, <1>2, <2>0, MissSeen
    <2>2. ASSUME Bound(h, x) PROVE Bound(h, x)'
      <3>1. x[2] \in todo[h] \ {p} /\ dps[h] \in {0, stored}
        BY <1>1, <1>5, <2>2 DEF Bound
      <3>2. x[2] \in todo'[h] /\ pc'[h] = "check" /\ dps'[h] \in {0, stored'}
        BY <1>0, <1>1, <1>2, <3>1 DEF Proceed, Goto
      <3>. QED
        BY <3>2 DEF Bound
    <2>. QED
      BY <1>1, <2>1, <2>2 DEF SeenTo
  <1>. QED
    BY <1>3, <1>4, <1>5

\* A step that leaves something stale leaves an event or a goroutine bound to put it right.
LEMMA OnItsWayStep ==
  FanTyped /\ NotAhead /\ Kept /\ OnItsWay /\ [FanNext]_fanVars => OnItsWay'
  <1>. SUFFICES ASSUME FanTyped, FanTypeOK, NotAhead, Kept, OnItsWay, [FanNext]_fanVars,
                        scene'.moves = 0, scene'.consumer,
                        NEW x \in (scene'.linked \cap scene'.pushable) \ late', x[1] = owner',
                        x[2] \in scene'.supported
                 PROVE  SeenTo(x)'
    BY DEF FanTyped, OnItsWay
  <1>2. scene' = scene /\ (owner' = owner \/ moves < scene.moves)
    BY DEF FanNext, fanVars, queueVars, hubVars, ownVars, pushVars, HandleRpt, PublishReport,
           Broadcast, HandleWS, Offer, WritePump, Write, HangUp, ReadPump, Unregister, Run,
           OwnerOfDevice, OwnsDevice, GetReportedDPS, LinkedPlatforms, OwnsDeviceForAssistant,
           Push, ChangeOwner
  <1>3. moves \in Nat
    BY FanAssumptions DEF FanAssumptions, FanTypeOK
  <1>4. /\ scene.moves = 0 /\ scene.consumer /\ owner' = owner
        /\ x \in scene.linked /\ x \in scene.pushable /\ x[1] = owner /\ x[2] \in scene.supported
        /\ x \notin late'
    BY <1>2, <1>3
  <1>5. x \notin late => SeenTo(x)
    BY <1>4 DEF OnItsWay
  <1>6. CASE HandleRpt
    BY <1>6 DEF HandleRpt, SeenTo
  <1>7. ASSUME NEW e \in Reports, PublishReport(e) PROVE SeenTo(x)'
    <2>1. proq \in Seq(Reports) /\ UNCHANGED <<stored, shown>>
      BY <1>7 DEF PublishReport, FanTypeOK
    <2>2. CASE proq' = Append(proq, e)
      BY <2>1, <2>2 DEF SeenTo
    <2>3. CASE Miss(scene.linked)
      BY <1>4, <2>1, <2>3, MissSeen DEF SeenTo
    <2>. QED
      BY <1>4, <1>7, <2>2, <2>3 DEF PublishReport
  <1>8. CASE UNCHANGED <<stored, pending, proq, pushVars>>
    BY <1>5, <1>4, <1>8 DEF pushVars, SeenTo, Bound
  <1>9. ASSUME NEW h \in Pushers, Run(h) PROVE SeenTo(x)'
    <2>1. pc'[h] = "owner"
      BY <1>9 DEF Run, Goto, FanTypeOK
    <2>. QED
      BY <2>1 DEF SeenTo, Bound
  <1>10. ASSUME NEW h \in Pushers, stored' = stored,
                \/ OwnerOfDevice(h) \/ OwnsDevice(h) \/ GetReportedDPS(h) \/ LinkedPlatforms(h)
                \/ Push(h) \/ \E p \in Platforms : OwnsDeviceForAssistant(h, p),
                NEW g \in Pushers, g # h, Bound(g, x)
         PROVE  Bound(g, x)'
    <2>1. pc'[g] = pc[g] /\ dps'[g] = dps[g] /\ todo'[g] = todo[g]
      BY <1>10 DEF FanTypeOK, OwnerOfDevice, OwnsDevice, GetReportedDPS, LinkedPlatforms, Push,
                   OwnsDeviceForAssistant, Proceed, Finish, Goto
    <2>. QED
      BY <1>10, <2>1 DEF Bound
  <1>11. ASSUME NEW h \in Pushers, Push(h) PROVE SeenTo(x)'
    <2>1. stored' = stored
      BY <1>11 DEF Push, queueVars
    <2>2. \A g \in Pushers : g # h /\ Bound(g, x) => Bound(g, x)'
      BY <1>10, <1>11, <2>1
    <2>. QED
      BY <1>4, <1>5, <1>11, <2>2, PushStep
  <1>12. ASSUME NEW h \in Pushers,
                \/ OwnerOfDevice(h) \/ OwnsDevice(h) \/ GetReportedDPS(h) \/ LinkedPlatforms(h)
                \/ \E p \in Platforms : OwnsDeviceForAssistant(h, p)
         PROVE  SeenTo(x)'
    <2>1. UNCHANGED <<stored, pending, proq, shown>> /\ late \subseteq late'
      BY <1>12, MissSeen DEF OwnerOfDevice, OwnsDevice, GetReportedDPS, LinkedPlatforms,
                             OwnsDeviceForAssistant, queueVars
    <2>2. \A g \in Pushers : g # h /\ Bound(g, x) => Bound(g, x)'
      BY <1>10, <1>12, <2>1
    <2>3. Bound(h, x) => Bound(h, x)' \/ shown[x] = stored
      BY <1>4, <1>12, <2>1, BoundStep
    <2>. QED
      BY <1>4, <1>5, <2>1, <2>2, <2>3 DEF SeenTo
  <1>13. ~ \E u \in Users \cup {None} : ChangeOwner(u)
    BY <1>3, <1>4 DEF ChangeOwner
  <1>14. CASE Broadcast \/ UNCHANGED fanVars
    BY <1>8, <1>14 DEF Broadcast, fanVars, queueVars
  <1>15. ASSUME NEW c \in Clients,
                \/ HandleWS(c) \/ Offer(c) \/ WritePump(c) \/ Write(c) \/ HangUp(c)
                \/ ReadPump(c) \/ Unregister(c)
         PROVE  SeenTo(x)'
    BY <1>8, <1>15 DEF HandleWS, Offer, WritePump, Write, HangUp, ReadPump, Unregister, queueVars
  <1>. QED
    BY <1>6, <1>7, <1>9, <1>11, <1>12, <1>13, <1>14, <1>15 DEF FanNext

\* When all is quiet, what a linked platform that can be pushed to shows is what the table holds,
\* unless an event was lost, a SELECT or a push for it failed, or a goroutine was overtaken.
THEOREM ShownSettles == FanSpec => []SettledShown
  <1>1. FanInit => NotAhead /\ Kept /\ OnItsWay
    <2>1. FanInit => Kept
      BY SceneTyped DEF FanInit, Kept
    <2>2. FanInit => NotAhead
      BY DEF FanInit, NotAhead
    <2>3. FanInit => OnItsWay
      <3>. SUFFICES ASSUME FanInit, NEW x \in scene.linked PROVE shown[x] = stored
        BY DEF OnItsWay, SeenTo
      <3>. QED
        BY SceneTyped DEF FanInit
    <2>. QED
      BY <2>1, <2>2, <2>3
  <1>2. OnItsWay => SettledShown
    <2>. SUFFICES ASSUME OnItsWay, scene.moves = 0, scene.consumer, pending = {}, proq = <<>>,
                         \A h \in Pushers : pc[h] = "idle",
                         NEW x \in (scene.linked \cap scene.pushable) \ late, x[1] = owner,
                         x[2] \in scene.supported
                  PROVE  shown[x] = stored
      BY DEF SettledShown
    <2>1. SeenTo(x)
      BY DEF OnItsWay
    <2>2. \A h \in Pushers : ~ Bound(h, x)
      BY DEF Bound
    <2>. QED
      BY <2>1, <2>2 DEF SeenTo
  <1>. QED
    BY <1>1, <1>2, FanTypeInit, FanTypedStep, NotAheadStep, KeptStep, OnItsWayStep, PTL
       DEF FanSpec

-----------------------------------------------------------------------------
(* The order of the frames.                                                *)

\* Moving an element across the joins of a concatenation.
LEMMA JoinAppend ==
  ASSUME NEW S, NEW s \in Seq(S), NEW b \in Seq(S), NEW e \in S
  PROVE  s \o Append(b, e) = Append(s \o b, e)
  <1>1. <<e>> \in Seq(S) /\ s \o b \in Seq(S)
    BY ConcatProperties
  <1>2. Append(b, e) = b \o <<e>> /\ Append(s \o b, e) = (s \o b) \o <<e>>
    BY <1>1, AppendIsConcat
  <1>. QED
    BY <1>1, <1>2, ConcatAssociative

\* The same for an element that leaves the front of the second part.
LEMMA JoinHead ==
  ASSUME NEW S, NEW s \in Seq(S), NEW b \in Seq(S), b # <<>>
  PROVE  (s \o <<>>) \o b = (s \o <<Head(b)>>) \o Tail(b)
  <1>1. Head(b) \in S /\ Tail(b) \in Seq(S) /\ <<Head(b)>> \in Seq(S)
    BY HeadTailProperties
  <1>2. b = <<Head(b)>> \o Tail(b)
    <2>1. Len(<<Head(b)>>) = 1 /\ <<Head(b)>>[1] = Head(b) /\ Head(b) = b[1] /\ Len(b) \in Nat \ {0}
      BY EmptySeq
    <2>2. Len(Tail(b)) = Len(b) - 1 /\ \A i \in 1..Len(Tail(b)) : Tail(b)[i] = b[i + 1]
      BY HeadTailProperties
    <2>3. /\ <<Head(b)>> \o Tail(b) \in Seq(S) /\ Len(<<Head(b)>> \o Tail(b)) = 1 + Len(Tail(b))
          /\ \A i \in 1..(1 + Len(Tail(b))) :
               (<<Head(b)>> \o Tail(b))[i] = IF i <= 1 THEN <<Head(b)>>[i] ELSE Tail(b)[i - 1]
      BY <1>1, <2>1, ConcatProperties
    <2>4. ASSUME NEW i \in 1..Len(b) PROVE b[i] = (<<Head(b)>> \o Tail(b))[i]
      <3>1. CASE i = 1
        BY <2>1, <2>2, <2>3, <3>1
      <3>2. CASE i # 1
        <4>1. i - 1 \in 1..Len(Tail(b)) /\ (i - 1) + 1 = i /\ i \in 1..(1 + Len(Tail(b))) /\ ~ (i <= 1)
          BY <2>1, <2>2, <3>2
        <4>. QED
          BY <2>2, <2>3, <4>1
      <3>. QED
        BY <3>1, <3>2
    <2>. QED
      BY <2>1, <2>2, <2>3, <2>4, SeqEqual
  <1>. QED
    BY <1>1, <1>2, ConcatEmptySeq, ConcatAssociative

\* s holds, in their order, the elements of o at the places T.
InOrder(s, o, T) ==
  \E place \in [DOMAIN s -> T] :
    /\ \A i, j \in DOMAIN place : i < j => place[i] < place[j]
    /\ \A j \in T : \E i \in DOMAIN place : place[i] = j
    /\ \A i \in DOMAIN place : s[i] = o[place[i]]

\* Only the elements at the places count.
LEMMA InOrderSame ==
  ASSUME NEW s, NEW o, NEW p, NEW T, \A j \in T : p[j] = o[j], InOrder(s, o, T)
  PROVE  InOrder(s, p, T)
  <1>1. PICK place \in [DOMAIN s -> T] :
          /\ \A i, j \in DOMAIN place : i < j => place[i] < place[j]
          /\ \A j \in T : \E i \in DOMAIN place : place[i] = j
          /\ \A i \in DOMAIN place : s[i] = o[place[i]]
    BY DEF InOrder
  <1>2. \A i \in DOMAIN place : s[i] = p[place[i]]
    BY <1>1
  <1>. QED
    BY <1>1, <1>2 DEF InOrder

\* An element more, after all the others.
LEMMA InOrderGrows ==
  ASSUME NEW S, NEW s \in Seq(S), NEW e \in S, NEW o, NEW T \in SUBSET Int, NEW n \in Int,
         InOrder(s, o, T), \A j \in T : j < n, o[n] = e
  PROVE  InOrder(Append(s, e), o, T \cup {n})
  <1>1. PICK place \in [DOMAIN s -> T] :
          /\ \A i, j \in DOMAIN place : i < j => place[i] < place[j]
          /\ \A j \in T : \E i \in DOMAIN place : place[i] = j
          /\ \A i \in DOMAIN place : s[i] = o[place[i]]
    BY DEF InOrder
  <1>2. /\ Len(s) \in Nat /\ DOMAIN s = 1..Len(s)
        /\ Append(s, e) \in Seq(S) /\ Len(Append(s, e)) = Len(s) + 1
        /\ \A i \in 1..Len(s) : Append(s, e)[i] = s[i]
        /\ Append(s, e)[Len(s) + 1] = e
    BY LenProperties, AppendProperties
  <1>3. DOMAIN Append(s, e) = 1..(Len(s) + 1)
    BY <1>2, LenProperties
  <1>4. PICK longer \in [1..(Len(s) + 1) -> T \cup {n}] :
          longer = [i \in 1..(Len(s) + 1) |-> IF i = Len(s) + 1 THEN n ELSE place[i]]
    <2>1. \A i \in 1..(Len(s) + 1) : i # Len(s) + 1 => i \in DOMAIN s
      BY <1>2
    <2>2. \A i \in 1..(Len(s) + 1) : (IF i = Len(s) + 1 THEN n ELSE place[i]) \in T \cup {n}
      BY <1>1, <2>1
    <2>. QED
      BY <2>2
  <1>5. \A i \in 1..Len(s) : longer[i] = place[i] /\ place[i] \in T /\ i \in DOMAIN longer
    BY <1>1, <1>2, <1>4
  <1>6. longer[Len(s) + 1] = n /\ Len(s) + 1 \in DOMAIN longer
    BY <1>2, <1>4
  <1>7. \A i \in DOMAIN longer : i \in 1..Len(s) \/ i = Len(s) + 1
    BY <1>2, <1>4
  <1>8. ASSUME NEW i \in DOMAIN longer, NEW j \in DOMAIN longer, i < j
        PROVE  longer[i] < longer[j]
    <2>1. i \in 1..Len(s)
      BY <1>2, <1>7, <1>8
    <2>2. CASE j \in 1..Len(s)
      BY <1>1, <1>2, <1>5, <1>8, <2>1, <2>2
    <2>3. CASE j = Len(s) + 1
      BY <1>5, <1>6, <2>1, <2>3
    <2>. QED
      BY <1>7, <2>2, <2>3
  <1>9. ASSUME NEW j \in T \cup {n} PROVE \E i \in DOMAIN longer : longer[i] = j
    <2>1. CASE j = n
      BY <1>6, <2>1
    <2>2. CASE j \in T
      <3>1. PICK i \in 1..Len(s) : place[i] = j
        BY <1>1, <1>2, <2>2
      <3>. QED
        BY <1>5, <3>1
    <2>. QED
      BY <2>1, <2>2
  <1>10. ASSUME NEW i \in DOMAIN longer PROVE Append(s, e)[i] = o[longer[i]]
    BY <1>1, <1>2, <1>5, <1>6, <1>7
  <1>11. longer \in [DOMAIN Append(s, e) -> T \cup {n}]
    BY <1>3, <1>4
  <1>. QED
    BY <1>8, <1>9, <1>10, <1>11 DEF InOrder

\* A frame is on its way to the hub once, or was broadcast, once, after it was published.
QueueNumbered ==
  /\ \A i \in DOMAIN hubq : hubq[i] \in (1..reports) \ pending
  /\ \A i, j \in DOMAIN hubq : hubq[i] = hubq[j] => i = j

Numbered(c) ==
  /\ \A i \in DOMAIN offered[c] :
       /\ offered[c][i] \in (1..reports) \ pending
       /\ \A j \in DOMAIN hubq : hubq[j] # offered[c][i]
  /\ \A i, j \in DOMAIN offered[c] : offered[c][i] = offered[c][j] => i = j

\* What a client missed was offered to it; the frame it is still to be offered is the last.
Offered(c) ==
  /\ \A m \in missed[c] : \E i \in DOMAIN offered[c] : offered[c][i] = m
  /\ c \in rest => /\ offered[c] # <<>> /\ offered[c][Len(offered[c])] = frame
                   /\ frame \notin missed[c]

Blank(c) ==
  wpump[c] = "none" => got[c] = <<>> /\ buf[c] = <<>> /\ offered[c] = <<>> /\ missed[c] = {}

\* A step publishes, broadcasts, begins a report, or leaves the queue alone.
LEMMA QueueMoves ==
  ASSUME [FanNext]_fanVars
  PROVE  \/ UNCHANGED <<reports, pending, hubq>>
         \/ Broadcast
         \/ HandleRpt
         \/ \E e \in Reports : PublishReport(e)
  BY DEF FanNext, fanVars, queueVars, hubVars, ownVars, pushVars, HandleWS, Offer, WritePump,
         Write, HangUp, ReadPump, Unregister, Run, OwnerOfDevice, OwnsDevice, GetReportedDPS,
         LinkedPlatforms, OwnsDeviceForAssistant, Push, ChangeOwner

\* The queue of the hub holds no frame twice.
LEMMA QueueNumberedStep ==
  ASSUME FanTypeOK, QueueNumbered, [FanNext]_fanVars
  PROVE  QueueNumbered'
  <1>0. /\ reports \in Nat /\ hubq \in Seq(Reports) /\ Len(hubq) \in Nat /\ DOMAIN hubq = 1..Len(hubq)
        /\ pending \subseteq 1..reports
    BY FanAssumptions, LenProperties DEF FanAssumptions, FanTypeOK
  <1>1. CASE UNCHANGED <<reports, pending, hubq>>
    BY <1>1 DEF QueueNumbered
  <1>2. CASE HandleRpt
    <2>1. reports' = reports + 1 /\ pending' = pending \cup {reports + 1} /\ hubq' = hubq
      BY <1>2 DEF HandleRpt
    <2>2. \A k \in (1..reports) \ pending : k \in (1..reports') \ pending'
      BY <1>0, <2>1
    <2>. QED
      BY <2>1, <2>2 DEF QueueNumbered
  <1>3. ASSUME NEW e \in Reports, PublishReport(e) PROVE QueueNumbered'
    <2>1. e \in pending /\ pending' = pending \ {e} /\ reports' = reports
      BY <1>3 DEF PublishReport
    <2>2. CASE hubq' = hubq
      BY <2>1, <2>2 DEF QueueNumbered
    <2>3. CASE hubq' = Append(hubq, e)
      <3>1. /\ Len(hubq') = Len(hubq) + 1 /\ DOMAIN hubq' = 1..(Len(hubq) + 1)
            /\ \A i \in 1..Len(hubq) : hubq'[i] = hubq[i]
            /\ hubq'[Len(hubq) + 1] = e
        BY <1>0, <2>3, AppendProperties, LenProperties
      <3>2. \A i \in DOMAIN hubq' : i \in DOMAIN hubq \/ i = Len(hubq) + 1
        BY <1>0, <3>1
      <3>3. \A i \in DOMAIN hubq' : hubq'[i] \in (1..reports') \ pending'
        BY <1>0, <2>1, <3>1, <3>2 DEF QueueNumbered
      <3>4. ASSUME NEW i \in DOMAIN hubq', NEW j \in DOMAIN hubq', hubq'[i] = hubq'[j] PROVE i = j
        BY <1>0, <2>1, <3>1, <3>2, <3>4 DEF QueueNumbered
      <3>. QED
        BY <3>3, <3>4 DEF QueueNumbered
    <2>. QED
      BY <1>3, <2>2, <2>3 DEF PublishReport
  <1>4. CASE Broadcast
    <2>1. hubq # <<>> /\ hubq' = Tail(hubq) /\ reports' = reports /\ pending' = pending
      BY <1>4 DEF Broadcast
    <2>2. /\ Len(hubq') = Len(hubq) - 1 /\ DOMAIN hubq' = 1..Len(hubq')
          /\ \A i \in 1..Len(hubq') : hubq'[i] = hubq[i + 1]
      BY <1>0, <2>1, HeadTailProperties, LenProperties
    <2>3. \A i \in DOMAIN hubq' : i \in Nat /\ i + 1 \in DOMAIN hubq
      BY <1>0, <2>2
    <2>4. \A i \in DOMAIN hubq' : hubq'[i] \in (1..reports') \ pending'
      BY <2>1, <2>2, <2>3 DEF QueueNumbered
    <2>5. ASSUME NEW i \in DOMAIN hubq', NEW j \in DOMAIN hubq', hubq'[i] = hubq'[j] PROVE i = j
      <3>1. i + 1 = j + 1
        BY <2>2, <2>3, <2>5 DEF QueueNumbered
      <3>. QED
        BY <2>3, <3>1
    <2>. QED
      BY <2>4, <2>5 DEF QueueNumbered
  <1>. QED
    BY <1>1, <1>2, <1>3, <1>4, QueueMoves

\* Nor is a frame broadcast twice.
LEMMA NumberedStep ==
  ASSUME FanTypeOK, QueueNumbered, [FanNext]_fanVars, NEW c \in Clients, Numbered(c)
  PROVE  Numbered(c)'
  <1>0. /\ reports \in Nat /\ hubq \in Seq(Reports) /\ Len(hubq) \in Nat /\ DOMAIN hubq = 1..Len(hubq)
        /\ pending \subseteq 1..reports
        /\ offered[c] \in Seq(Reports) /\ Len(offered[c]) \in Nat
        /\ DOMAIN offered[c] = 1..Len(offered[c])
    BY FanAssumptions, LenProperties DEF FanAssumptions, FanTypeOK
  <1>1. CASE UNCHANGED <<reports, pending, hubq>> /\ offered'[c] = offered[c]
    BY <1>1 DEF Numbered
  <1>2. CASE HandleRpt
    <2>1. /\ reports' = reports + 1 /\ pending' = pending \cup {reports + 1} /\ hubq' = hubq
          /\ offered' = offered
      BY <1>2 DEF HandleRpt, hubVars
    <2>2. \A k \in (1..reports) \ pending : k \in (1..reports') \ pending'
      BY <1>0, <2>1
    <2>. QED
      BY <2>1, <2>2 DEF Numbered
  <1>3. ASSUME NEW e \in Reports, PublishReport(e) PROVE Numbered(c)'
    <2>1. e \in pending /\ pending' = pending \ {e} /\ reports' = reports /\ offered' = offered
      BY <1>3 DEF PublishReport, hubVars
    <2>2. ASSUME NEW j \in DOMAIN hubq' PROVE hubq'[j] = e \/ \E i \in DOMAIN hubq : hubq'[j] = hubq[i]
      <3>1. CASE hubq' = hubq
        BY <3>1
      <3>2. CASE hubq' = Append(hubq, e)
        <4>1. /\ Len(hubq') = Len(hubq) + 1 /\ DOMAIN hubq' = 1..(Len(hubq) + 1)
              /\ \A i \in 1..Len(hubq) : hubq'[i] = hubq[i]
              /\ hubq'[Len(hubq) + 1] = e
          BY <1>0, <3>2, AppendProperties, LenProperties
        <4>. QED
          BY <1>0, <4>1
      <3>. QED
        BY <1>3, <3>1, <3>2 DEF PublishReport
    <2>. QED
      BY <2>1, <2>2 DEF Numbered
  <1>4. CASE Broadcast
    <2>1. /\ hubq # <<>> /\ hubq' = Tail(hubq) /\ reports' = reports /\ pending' = pending
          /\ Head(hubq) = hubq[1]
          /\ offered'[c] = offered[c] \/ offered'[c] = Append(offered[c], hubq[1])
      BY <1>4 DEF Broadcast
    <2>2. /\ Len(hubq') = Len(hubq) - 1 /\ DOMAIN hubq' = 1..Len(hubq')
          /\ \A i \in 1..Len(hubq') : hubq'[i] = hubq[i + 1]
      BY <1>0, <2>1, HeadTailProperties, LenProperties
    <2>3. Len(hubq) # 0 /\ 1 \in DOMAIN hubq /\ hubq[1] \in Reports
      BY <1>0, <2>1, EmptySeq, ElementOfSeq
    <2>4. \A i \in DOMAIN hubq' : i + 1 \in DOMAIN hubq /\ i + 1 # 1
      BY <1>0, <2>2
    <2>5. \A j \in DOMAIN hubq' : hubq'[j] # hubq[1]
      BY <2>2, <2>3, <2>4 DEF QueueNumbered
    <2>6. \A i \in DOMAIN offered[c], j \in DOMAIN hubq' : hubq'[j] # offered[c][i]
      BY <2>2, <2>4 DEF Numbered
    <2>7. CASE offered'[c] = offered[c]
      BY <2>1, <2>6, <2>7 DEF Numbered
    <2>8. CASE offered'[c] = Append(offered[c], hubq[1])
      <3>1. /\ DOMAIN offered'[c] = 1..(Len(offered[c]) + 1)
            /\ \A i \in 1..Len(offered[c]) : offered'[c][i] = offered[c][i]
            /\ offered'[c][Len(offered[c]) + 1] = hubq[1]
        BY <1>0, <2>3, <2>8, AppendProperties, LenProperties
      <3>2. \A i \in DOMAIN offered'[c] : i \in DOMAIN offered[c] \/ i = Len(offered[c]) + 1
        BY <1>0, <3>1
      <3>3. \A i \in DOMAIN offered'[c] :
              /\ offered'[c][i] \in (1..reports') \ pending'
              /\ \A j \in DOMAIN hubq' : hubq'[j] # offered'[c][i]
        BY <1>0, <2>1, <2>3, <2>5, <2>6, <3>1, <3>2 DEF QueueNumbered, Numbered
      <3>4. ASSUME NEW i \in DOMAIN offered'[c], NEW j \in DOMAIN offered'[c],
                   offered'[c][i] = offered'[c][j]
            PROVE  i = j
        BY <1>0, <2>3, <3>1, <3>2, <3>4 DEF Numbered
      <3>. QED
        BY <3>3, <3>4 DEF Numbered
    <2>. QED
      BY <2>1, <2>7, <2>8
  <1>5. offered'[c] = offered[c] \/ Broadcast
    BY ClientMoves DEF HandleWS, Offer, WritePump, Write, HangUp, ReadPump, Unregister
  <1>. QED
    BY <1>1, <1>2, <1>3, <1>4, <1>5, QueueMoves

\* A frame is lost or buffered only after it was broadcast.
LEMMA OfferedStep ==
  ASSUME FanTypeOK, Locked, QueueNumbered, [FanNext]_fanVars,
         NEW c \in Clients, Numbered(c), Offered(c), Blank(c)
  PROVE  Offered(c)' /\ Blank(c)'
  <1>0. /\ hubq \in Seq(Reports) /\ Len(hubq) \in Nat /\ DOMAIN hubq = 1..Len(hubq)
        /\ offered[c] \in Seq(Reports) /\ Len(offered[c]) \in Nat
        /\ DOMAIN offered[c] = 1..Len(offered[c])
    BY LenProperties DEF FanTypeOK
  <1>1. CASE /\ wpump'[c] = wpump[c] /\ offered'[c] = offered[c] /\ missed'[c] = missed[c]
             /\ got'[c] = got[c] /\ buf'[c] = buf[c]
             /\ c \in rest' => c \in rest /\ frame' = frame
    BY <1>1 DEF Offered, Blank
  <1>2. CASE Broadcast
    <2>1. /\ hubq # <<>> /\ Head(hubq) = hubq[1] /\ frame' = hubq[1] /\ rest' = clients
          /\ offered'[c] = IF c \in clients THEN Append(offered[c], hubq[1]) ELSE offered[c]
          /\ UNCHANGED <<wpump, missed, got, buf>>
      BY <1>2 DEF Broadcast
    <2>2. 1 \in DOMAIN hubq /\ hubq[1] \in Reports
      BY <1>0, <2>1, EmptySeq, ElementOfSeq
    <2>3. CASE c \in clients
      <3>1. wpump[c] # "none"
        BY <2>3 DEF Locked
      <3>2. /\ offered'[c] # <<>> /\ Len(offered'[c]) = Len(offered[c]) + 1
            /\ DOMAIN offered'[c] = 1..(Len(offered[c]) + 1)
            /\ \A i \in 1..Len(offered[c]) : offered'[c][i] = offered[c][i]
            /\ offered'[c][Len(offered[c]) + 1] = hubq[1]
        BY <1>0, <2>1, <2>2, <2>3, AppendProperties, LenProperties
      <3>3. \A i \in DOMAIN offered[c] : i \in DOMAIN offered'[c] /\ offered'[c][i] = offered[c][i]
        BY <1>0, <3>2
      <3>4. \A m \in missed'[c] : \E i \in DOMAIN offered'[c] : offered'[c][i] = m
        BY <2>1, <3>3 DEF Offered
      <3>5. frame' \notin missed'[c]
        BY <2>1, <2>2 DEF Offered, Numbered
      <3>. QED
        BY <2>1, <3>1, <3>2, <3>4, <3>5 DEF Offered, Blank
    <2>4. CASE c \notin clients
      BY <1>1, <2>1, <2>4
    <2>. QED
      BY <2>3, <2>4
  <1>3. CASE HandleWS(c)
    <2>1. wpump'[c] = "wait" /\ c \notin rest' /\ UNCHANGED <<offered, missed>>
      BY <1>3 DEF HandleWS, FanTypeOK
    <2>. QED
      BY <2>1 DEF Offered, Blank
  <1>4. CASE Offer(c)
    <2>1. /\ c \in rest /\ c \notin rest' /\ offered' = offered /\ wpump' = wpump
          /\ missed'[c] = missed[c] \/ missed'[c] = missed[c] \cup {frame}
      BY <1>4 DEF Offer, FanTypeOK
    <2>2. wpump[c] # "none"
      BY <2>1 DEF Locked
    <2>3. Len(offered[c]) \in DOMAIN offered[c] /\ offered[c][Len(offered[c])] = frame
      BY <1>0, <2>1, EmptySeq DEF Offered
    <2>. QED
      BY <2>1, <2>2, <2>3 DEF Offered, Blank
  <1>5. CASE WritePump(c) \/ Write(c)
    <2>1. /\ wpump'[c] # "none" /\ UNCHANGED <<rest, frame, offered, missed>>
      BY <1>5 DEF WritePump, Write, FanTypeOK
    <2>. QED
      BY <2>1 DEF Offered, Blank
  <1>6. CASE HangUp(c) \/ ReadPump(c) \/ Unregister(c)
    BY <1>1, <1>6 DEF HangUp, ReadPump, Unregister
  <1>. QED
    BY <1>1, <1>2, <1>3, <1>4, <1>5, <1>6, ClientMoves

\* An open connection whose write pump lives is delivered what it has taken, in that order.
Ordered(c) ==
  c \in open /\ wpump[c] \in {"wait", "write"} => InOrder(Delivered(c), offered[c], Taken(c))

\* What is delivered are frames.
LEMMA DeliveredTyped ==
  ASSUME FanTyped, NEW c \in Clients
  PROVE  /\ got[c] \in Seq(Reports) /\ buf[c] \in Seq(Reports)
         /\ got[c] \o (IF writing[c] = 0 THEN <<>> ELSE <<writing[c]>>) \in Seq(Reports)
         /\ Delivered(c) \in Seq(Reports)
  <1>1. got[c] \in Seq(Reports) /\ buf[c] \in Seq(Reports)
    BY DEF FanTyped, FanTypeOK
  <1>2. writing[c] = 0 \/ writing[c] \in Reports
    BY DEF FanTyped
  <1>3. (IF writing[c] = 0 THEN <<>> ELSE <<writing[c]>>) \in Seq(Reports)
    BY <1>2
  <1>4. got[c] \o (IF writing[c] = 0 THEN <<>> ELSE <<writing[c]>>) \in Seq(Reports)
    BY <1>1, <1>3, ConcatProperties
  <1>. QED
    BY <1>1, <1>4, ConcatProperties DEF Delivered

\* Each hand-over, from the broadcast to the buffer, to the write pump and to the client, keeps
\* the order.
LEMMA OrderedStep ==
  ASSUME FanTyped, FanTypeOK, Locked, QueueNumbered, [FanNext]_fanVars,
         NEW c \in Clients, Numbered(c), Offered(c), Blank(c), Ordered(c),
         c \in open', wpump'[c] \in {"wait", "write"}
  PROVE  InOrder(Delivered(c)', offered'[c], Taken(c)')
  <1>0. /\ hubq \in Seq(Reports) /\ Len(hubq) \in Nat /\ DOMAIN hubq = 1..Len(hubq)
        /\ offered[c] \in Seq(Reports) /\ Len(offered[c]) \in Nat
        /\ DOMAIN offered[c] = 1..Len(offered[c])
    BY LenProperties DEF FanTypeOK
  <1>1. CASE /\ c \in open /\ wpump[c] \in {"wait", "write"}
             /\ Delivered(c)' = Delivered(c) /\ Taken(c)' = Taken(c)
             /\ \A j \in Taken(c) : offered'[c][j] = offered[c][j]
    BY <1>1, InOrderSame DEF Ordered
  <1>2. CASE /\ buf'[c] = buf[c] /\ wpump'[c] = wpump[c] /\ writing'[c] = writing[c]
             /\ got'[c] = got[c] /\ missed'[c] = missed[c] /\ c \in open
             /\ (c \in rest' <=> c \in rest) /\ frame' = frame /\ offered'[c] = offered[c]
    BY <1>1, <1>2 DEF Delivered, Taken
  <1>3. CASE Broadcast
    <2>1. /\ hubq # <<>> /\ Head(hubq) = hubq[1] /\ frame' = hubq[1] /\ rest' = clients
          /\ rest = {}
          /\ offered'[c] = IF c \in clients THEN Append(offered[c], hubq[1]) ELSE offered[c]
          /\ UNCHANGED <<wpump, writing, missed, got, buf, open>>
      BY <1>3 DEF Broadcast
    <2>2. 1 \in DOMAIN hubq /\ hubq[1] \in Reports
      BY <1>0, <2>1, EmptySeq, ElementOfSeq
    <2>3. Delivered(c)' = Delivered(c)
      BY <2>1 DEF Delivered
    <2>4. CASE c \in clients
      <3>1. /\ DOMAIN offered'[c] = 1..(Len(offered[c]) + 1)
            /\ \A i \in 1..Len(offered[c]) : offered'[c][i] = offered[c][i]
            /\ offered'[c][Len(offered[c]) + 1] = hubq[1]
        BY <1>0, <2>1, <2>2, <2>4, AppendProperties, LenProperties
      <3>2. \A i \in DOMAIN offered[c] : offered[c][i] # hubq[1]
        BY <2>2 DEF Numbered
      <3>3. \A j : j \in Taken(c)' <=> j \in Taken(c)
        <4>1. \A j : j \in Taken(c)' <=> /\ j \in 1..(Len(offered[c]) + 1)
                                        /\ offered'[c][j] \notin missed[c]
                                        /\ offered'[c][j] # hubq[1]
          BY <2>1, <2>4, <3>1 DEF Taken
        <4>2. \A j : j \in Taken(c) <=> j \in 1..Len(offered[c]) /\ offered[c][j] \notin missed[c]
          BY <1>0, <2>1 DEF Taken
        <4>. QED
          BY <1>0, <3>1, <3>2, <4>1, <4>2
      <3>4. Taken(c)' = Taken(c)
        BY <3>3
      <3>5. \A j \in Taken(c) : offered'[c][j] = offered[c][j]
        BY <1>0, <3>1 DEF Taken
      <3>. QED
        BY <1>1, <2>1, <2>3, <3>4, <3>5
    <2>5. CASE c \notin clients
      <3>1. Taken(c)' = Taken(c)
        BY <2>1, <2>5 DEF Taken
      <3>. QED
        BY <1>1, <2>1, <2>3, <2>5, <3>1
    <2>. QED
      BY <2>4, <2>5
  <1>4. CASE HandleWS(c)
    <2>1. /\ got'[c] = <<>> /\ buf'[c] = <<>> /\ offered'[c] = <<>> /\ writing'[c] = 0
      BY <1>4 DEF HandleWS, Blank, FanTyped
    <2>2. Delivered(c)' = <<>>
      BY <2>1, ConcatEmptySeq, EmptySeq DEF Delivered
    <2>3. Taken(c)' = {}
      BY <2>1 DEF Taken
    <2>4. DOMAIN <<>> = {}
      OBVIOUS
    <2>5. PICK place \in [DOMAIN <<>> -> {}] : TRUE
      <3>1. [i \in {} |-> i] \in [{} -> {}]
        OBVIOUS
      <3>. QED
        BY <2>4, <3>1
    <2>. QED
      BY <2>2, <2>3, <2>4, <2>5 DEF InOrder
  <1>5. CASE Offer(c)
    <2>0. /\ c \in rest /\ c \notin rest' /\ offered' = offered /\ frame \in Reports
          /\ UNCHANGED <<wpump, writing, got, open>>
      BY <1>5 DEF Offer, FanTyped
    <2>1. /\ Len(offered[c]) \in DOMAIN offered[c] /\ offered[c][Len(offered[c])] = frame
          /\ frame \notin missed[c]
      BY <1>0, <2>0, EmptySeq DEF Offered
    <2>2. \A j : j \in Taken(c) <=> /\ j \in DOMAIN offered[c] /\ offered[c][j] \notin missed[c]
                                   /\ offered[c][j] # frame
      BY <2>0 DEF Taken
    <2>3. \A j : j \in Taken(c)' <=> j \in DOMAIN offered[c] /\ offered[c][j] \notin missed'[c]
      BY <2>0 DEF Taken
    <2>4. CASE buf' = [buf EXCEPT ![c] = Append(@, frame)] /\ missed' = missed
      <3>1. Delivered(c)' = Append(Delivered(c), frame)
        <4>1. buf'[c] = Append(buf[c], frame)
          BY <2>4 DEF FanTypeOK
        <4>2. PICK s \in Seq(Reports) :
                s = got[c] \o (IF writing[c] = 0 THEN <<>> ELSE <<writing[c]>>)
          BY DeliveredTyped
        <4>3. s \o Append(buf[c], frame) = Append(s \o buf[c], frame)
          BY <2>0, DeliveredTyped, JoinAppend
        <4>4. Delivered(c) = s \o buf[c] /\ Delivered(c)' = s \o Append(buf[c], frame)
          BY <2>0, <4>1, <4>2 DEF Delivered
        <4>. QED
          BY <4>3, <4>4
      <3>2. \A j \in DOMAIN offered[c] : offered[c][j] = frame => j = Len(offered[c])
        BY <2>1 DEF Numbered
      <3>3. Taken(c)' = Taken(c) \cup {Len(offered[c])}
        BY <2>1, <2>2, <2>3, <2>4, <3>2
      <3>4. Taken(c) \in SUBSET Int /\ \A j \in Taken(c) : j < Len(offered[c])
        BY <1>0, <2>1, <2>2
      <3>5. InOrder(Delivered(c), offered[c], Taken(c))
        BY <2>0 DEF Ordered
      <3>. QED
        BY <1>0, <2>0, <2>1, <3>1, <3>3, <3>4, <3>5, DeliveredTyped, InOrderGrows
    <2>5. CASE buf' = buf /\ missed' = [missed EXCEPT ![c] = @ \cup {frame}]
      <3>1. missed'[c] = missed[c] \cup {frame}
        BY <2>5 DEF FanTypeOK
      <3>2. Taken(c)' = Taken(c)
        BY <2>2, <2>3, <3>1
      <3>. QED
        BY <1>1, <2>0, <2>5, <3>2 DEF Delivered
    <2>. QED
      BY <1>5, <2>4, <2>5 DEF Offer
  <1>6. CASE WritePump(c)
    <2>1. /\ buf[c] # <<>> /\ writing'[c] = Head(buf[c]) /\ buf'[c] = Tail(buf[c])
          /\ got' = got /\ writing[c] = 0 /\ wpump[c] = "wait"
          /\ UNCHANGED <<open, rest, frame, offered, missed>>
      BY <1>6 DEF WritePump, FanTyped, FanTypeOK
    <2>2. Head(buf[c]) \in Reports /\ Head(buf[c]) # 0
      <3>1. buf[c] \in Seq(Reports)
        BY DeliveredTyped
      <3>2. Head(buf[c]) \in Reports
        BY <2>1, <3>1, HeadTailProperties
      <3>3. \A e \in Reports : e # 0
        BY FanAssumptions DEF Reports, FanAssumptions
      <3>. QED
        BY <3>2, <3>3
    <2>3. Delivered(c)' = Delivered(c)
      BY <2>1, <2>2, DeliveredTyped, JoinHead DEF Delivered
    <2>4. Taken(c)' = Taken(c)
      BY <2>1 DEF Taken
    <2>. QED
      BY <1>1, <2>1, <2>3, <2>4
  <1>7. CASE Write(c)
    <2>1. /\ got'[c] = Append(got[c], writing[c]) /\ writing'[c] = 0 /\ wpump[c] = "write"
          /\ UNCHANGED <<buf, open, rest, frame, offered, missed>>
      BY <1>7 DEF Write, FanTypeOK
    <2>2. writing[c] \in Reports /\ writing[c] # 0
      BY <2>1, FanAssumptions DEF Reports, FanAssumptions, FanTyped
    <2>3. Append(got[c], writing[c]) = got[c] \o <<writing[c]>>
      BY <2>2, DeliveredTyped, AppendIsConcat
    <2>4. Append(got[c], writing[c]) \o <<>> = Append(got[c], writing[c])
      BY <2>2, DeliveredTyped, AppendProperties, ConcatEmptySeq
    <2>5. Delivered(c)' = Delivered(c)
      BY <2>1, <2>2, <2>3, <2>4 DEF Delivered
    <2>6. Taken(c)' = Taken(c)
      BY <2>1 DEF Taken
    <2>. QED
      BY <1>1, <2>1, <2>5, <2>6
  <1>8. CASE HangUp(c) \/ Unregister(c)
    BY <1>8 DEF HangUp, Unregister
  <1>9. CASE ReadPump(c)
    BY <1>2, <1>9 DEF ReadPump
  <1>. QED
    BY <1>2, <1>3, <1>4, <1>5, <1>6, <1>7, <1>8, <1>9, ClientMoves

\* The inductive invariant behind the order of the frames.
FanInv ==
  /\ Locked /\ QueueNumbered
  /\ \A c \in Clients : Numbered(c) /\ Offered(c) /\ Blank(c) /\ Ordered(c)

\* Every open client is delivered the frames broadcast since it was registered, once each and in
\* their order, but for those that found its buffer full.
THEOREM FramesComeInOrder == FanSpec => []FramesInOrder
  <1>1. FanInit => FanInv
    BY DEF FanInit, FanInv, Locked, QueueNumbered, Numbered, Offered, Blank, Ordered
  <1>2. FanTyped /\ FanInv /\ [FanNext]_fanVars => FanInv'
    <2>. SUFFICES ASSUME FanTyped, FanTypeOK, FanInv, [FanNext]_fanVars PROVE FanInv'
      BY DEF FanTyped
    <2>1. Locked' /\ QueueNumbered'
      BY LockedStep, QueueNumberedStep DEF FanInv
    <2>2. ASSUME NEW c \in Clients PROVE Numbered(c)' /\ Offered(c)' /\ Blank(c)'
      BY NumberedStep, OfferedStep DEF FanInv
    <2>3. ASSUME NEW c \in Clients PROVE Ordered(c)'
      <3>1. c \in open' /\ wpump'[c] \in {"wait", "write"}
              => InOrder(Delivered(c)', offered'[c], Taken(c)')
        BY OrderedStep DEF FanInv
      <3>. QED
        BY <3>1 DEF Ordered
    <2>. QED
      BY <2>1, <2>2, <2>3 DEF FanInv
  <1>3. FanTyped /\ FanInv => FramesInOrder
    BY DEF FanTyped, FanTypeOK, FanInv, Ordered, InOrder, FramesInOrder
  <1>. QED
    BY <1>1, <1>2, <1>3, FanTypeInit, FanTypedStep, PTL DEF FanSpec

================================================================================
