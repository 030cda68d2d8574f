---------------------------- MODULE LocalKeyProofs ----------------------------
(* Proofs about LocalKey for any number of callers, tenants and keys: all    *)
(* callers agree on the key, the device holds no other, and the service      *)
(* implements the write-once register of WriteOnce.                          *)
EXTENDS LocalKey, TLAPS

-----------------------------------------------------------------------------
(* The inductive invariant.                                                 *)

\* A caller holds a key exactly when its next step uses one.
StepsHaveKeys ==
  \A c \in Callers :
    /\ pc[c] = "insert" => drawn[c] # None
    /\ got[c] # None <=> pc[c] \in {"have", "publish"}

\* Every klk in flight carries the key of the tenant it is sent under.
MessagesAgree == \A m \in dn : table[m.tid] = m.key

IInv ==
  /\ TypeOK
  /\ StepsHaveKeys
  /\ CallersAgree
  /\ MessagesAgree
  /\ DeviceHasStoredKey

\* A key that is in the table stays.
KeysStay == \A t \in Tenants : table[t] # None => table'[t] = table[t]

\* Every setting bounds the disconnections.
LEMMA DropsBounded == setting \in Settings => setting.drops \in Nat
BY LocalKeyAssumptions DEF Setting

LEMMA IInvInit == Init => IInv
<1> SUFFICES ASSUME Init PROVE IInv
  OBVIOUS
<1> USE LocalKeyAssumptions DEF Init
<1>1. TypeOK
  <2>1. /\ table \in [Tenants -> MaybeKey] /\ drawn \in [Callers -> MaybeKey]
        /\ got \in [Callers -> MaybeKey] /\ nvs \in MaybeKey
    BY DEF MaybeKey
  <2>2. pc \in [Callers -> Steps]
    BY DEF Steps
  <2>3. /\ drops \in 0..setting.drops /\ rows \subseteq Tenants /\ dn \subseteq Message
        /\ acks \subseteq BOOLEAN /\ hello \subseteq {"boo", "reg"} /\ handed \subseteq Keys
    <3>1. setting.drops \in Nat
      BY DropsBounded
    <3>2. drops \in 0..setting.drops
      BY <3>1
    <3> QED
      BY <3>2
  <2>4. /\ kind \in [Callers -> {"hand", "push"}] /\ route \in [Callers -> Tenants]
        /\ row \in [Callers -> BOOLEAN]
    OBVIOUS
  <2> QED
    BY <2>1, <2>2, <2>3, <2>4 DEF TypeOK
<1>2. StepsHaveKeys /\ CallersAgree /\ MessagesAgree /\ DeviceHasStoredKey
  BY DEF StepsHaveKeys, CallersAgree, MessagesAgree, DeviceHasStoredKey
<1> QED
  BY <1>1, <1>2 DEF IInv

\* Ending, moving on or starting leaves the callers well typed and in agreement.
LEMMA FinishKeeps ==
  ASSUME IInv, NEW c \in Callers, Finish(c), KeysStay
  PROVE  /\ pc' \in [Callers -> Steps] /\ kind' \in [Callers -> {"hand", "push"}]
         /\ route' \in [Callers -> Tenants] /\ drawn' \in [Callers -> MaybeKey]
         /\ got' \in [Callers -> MaybeKey] /\ row' \in [Callers -> BOOLEAN]
         /\ StepsHaveKeys' /\ CallersAgree'
<1> USE DEF IInv, TypeOK
<1>1. /\ pc' \in [Callers -> Steps] /\ kind' \in [Callers -> {"hand", "push"}]
      /\ route' \in [Callers -> Tenants] /\ drawn' \in [Callers -> MaybeKey]
      /\ got' \in [Callers -> MaybeKey] /\ row' \in [Callers -> BOOLEAN]
  BY LocalKeyAssumptions DEF Finish, Steps, MaybeKey
<1>2. \A x \in Callers \ {c} : /\ pc'[x] = pc[x] /\ got'[x] = got[x]
                               /\ drawn'[x] = drawn[x] /\ route'[x] = route[x]
  BY DEF Finish
<1>3. pc'[c] = "idle" /\ got'[c] = None
  BY DEF Finish
<1>4. StepsHaveKeys'
  BY <1>2, <1>3 DEF StepsHaveKeys
<1>5. CallersAgree'
  BY <1>2, <1>3 DEF CallersAgree, KeysStay
<1> QED
  BY <1>1, <1>4, <1>5

LEMMA GotoKeeps ==
  ASSUME IInv, NEW c \in Callers, NEW step \in Steps \ {"insert", "have", "publish"},
         Goto(c, step), got[c] = None, KeysStay
  PROVE  pc' \in [Callers -> Steps] /\ StepsHaveKeys' /\ CallersAgree'
BY DEF IInv, TypeOK, Goto, StepsHaveKeys, CallersAgree, KeysStay

LEMMA StartKeeps ==
  ASSUME IInv, NEW c \in Callers, NEW t \in Tenants, NEW why \in {"hand", "push"},
         Start(c, t, why), got[c] = None, UNCHANGED table
  PROVE  /\ pc' \in [Callers -> Steps] /\ kind' \in [Callers -> {"hand", "push"}]
         /\ route' \in [Callers -> Tenants]
         /\ StepsHaveKeys' /\ CallersAgree'
<1> USE DEF IInv, TypeOK, Start
<1>1. /\ pc' \in [Callers -> Steps] /\ kind' \in [Callers -> {"hand", "push"}]
      /\ route' \in [Callers -> Tenants]
  BY DEF Steps
<1>2. StepsHaveKeys' /\ CallersAgree'
  BY DEF StepsHaveKeys, CallersAgree
<1> QED
  BY <1>1, <1>2

LEMMA KeysStayNext == IInv /\ [Next]_vars => KeysStay
<1> SUFFICES ASSUME IInv, [Next]_vars, UNCHANGED table \/ \E c \in Callers : InsertKey(c)
             PROVE  KeysStay
  BY DEF Next, vars, Begin, Answer, Continue, Provision, Reset, ClaimDevice, Disconnect,
     Wipe, AdoptLook, GetLocalKey, ProvisionLocalKey, HandleHello, AdoptLink,
     EnsureAdopted, EnsureUnacked, SelectKey, RereadKey, HandKey, RecordPush, Publish,
     HandleAck, Connect, StoreKey, Lose
<1> QED
  BY DEF KeysStay, InsertKey, IInv, TypeOK

\* Messages whose command row is deleted are still messages.
LEMMA Unrowed ==
  ASSUME NEW D, D \subseteq Message
  PROVE  {[m EXCEPT !.row = FALSE] : m \in D} \subseteq Message
BY DEF Message

LEMMA IInvNext == IInv /\ [Next]_vars => IInv'
<1> SUFFICES ASSUME IInv, [Next]_vars PROVE IInv'
  OBVIOUS
<1>0. KeysStay
  BY KeysStayNext
<1> USE LocalKeyAssumptions DEF IInv, TypeOK, adminVars, callerVars, deviceVars
<1>1. ASSUME Provision \/ ClaimDevice PROVE IInv'
  <2>1. /\ UNCHANGED <<setting, table, acked, callerVars, deviceVars, handed, seen>>
        /\ rows' \subseteq Tenants /\ provisioned' \in BOOLEAN /\ adopted' \in BOOLEAN
    BY <1>1 DEF Provision, ClaimDevice
  <2>2. TypeOK'
    BY <2>1
  <2>3. StepsHaveKeys' /\ CallersAgree' /\ MessagesAgree' /\ DeviceHasStoredKey'
    BY <2>1 DEF StepsHaveKeys, CallersAgree, MessagesAgree, DeviceHasStoredKey
  <2> QED
    BY <2>2, <2>3
<1>2. ASSUME Reset PROVE IInv'
  <2>1. TypeOK'
    <3>1. dn' \subseteq Message
      BY <1>2, Unrowed DEF Reset
    <3>2. acks' \subseteq BOOLEAN
      BY <1>2 DEF Reset
    <3> QED
      BY <1>2, <3>1, <3>2 DEF Reset
  <2>2. MessagesAgree'
    BY <1>2 DEF Reset, MessagesAgree, Message
  <2>3. StepsHaveKeys' /\ CallersAgree' /\ DeviceHasStoredKey'
    BY <1>2 DEF Reset, StepsHaveKeys, CallersAgree, DeviceHasStoredKey
  <2> QED
    BY <2>1, <2>2, <2>3
<1>3. ASSUME Disconnect \/ Wipe PROVE IInv'
  <2>1. CASE Disconnect
    <3>1. drops' \in 0..setting.drops
      BY <2>1, DropsBounded DEF Disconnect
    <3> QED
      BY <2>1, <3>1 DEF Disconnect, StepsHaveKeys, CallersAgree, MessagesAgree, DeviceHasStoredKey
  <2>2. CASE Wipe
    BY <2>2 DEF Wipe, MaybeKey, StepsHaveKeys, CallersAgree, MessagesAgree, DeviceHasStoredKey
  <2> QED
    BY <1>3, <2>1, <2>2
<1>4. ASSUME NEW c \in Callers, AdoptLook(c) PROVE IInv'
  <2>1. got[c] = None /\ "link" \in Steps
    BY <1>4 DEF AdoptLook, StepsHaveKeys, Steps
  <2> QED
    BY <1>0, <1>4, <2>1, GotoKeeps DEF AdoptLook, Goto, MessagesAgree, DeviceHasStoredKey
<1>5. ASSUME NEW c \in Callers, NEW t \in Tenants,
             GetLocalKey(c, t) \/ ProvisionLocalKey(c, t) PROVE IInv'
  <2>1. got[c] = None
    BY <1>5 DEF GetLocalKey, ProvisionLocalKey, StepsHaveKeys
  <2> QED
    BY <1>5, <2>1, StartKeeps
       DEF GetLocalKey, ProvisionLocalKey, Start, MessagesAgree, DeviceHasStoredKey
<1>6. ASSUME NEW c \in Callers, AdoptLink(c) PROVE IInv'
  <2>1. got[c] = None
    BY <1>6 DEF AdoptLink, StepsHaveKeys
  <2> QED
    BY <1>6, <2>1, StartKeeps DEF AdoptLink, Start, MessagesAgree, DeviceHasStoredKey
<1>7. ASSUME NEW c \in Callers, NEW what \in {"boo", "reg"}, HandleHello(c, what) PROVE IInv'
  <2>1. got[c] = None /\ "adopted?" \in Steps
    BY <1>7 DEF HandleHello, StepsHaveKeys, Steps
  <2>2. rows' \subseteq Tenants /\ seen' \in BOOLEAN /\ hello' \subseteq {"boo", "reg"}
    BY <1>7 DEF HandleHello
  <2>3. pc' \in [Callers -> Steps] /\ StepsHaveKeys' /\ CallersAgree'
    BY <1>0, <1>7, <2>1, GotoKeeps DEF HandleHello
  <2> QED
    BY <1>7, <2>2, <2>3 DEF HandleHello, Goto, MessagesAgree, DeviceHasStoredKey
<1>8. ASSUME NEW c \in Callers, EnsureAdopted(c) PROVE IInv'
  <2>1. got[c] = None /\ "acked?" \in Steps /\ "idle" \in Steps
    BY <1>8 DEF EnsureAdopted, StepsHaveKeys, Steps
  <2> QED
    BY <1>0, <1>8, <2>1, GotoKeeps DEF EnsureAdopted, Goto, MessagesAgree, DeviceHasStoredKey
<1>9. ASSUME NEW c \in Callers, EnsureUnacked(c) PROVE IInv'
  <2>1. got[c] = None /\ "idle" \in Steps
    BY <1>9 DEF EnsureUnacked, StepsHaveKeys, Steps
  <2>2. CASE Start(c, HomeTid, "push")
    BY <1>9, <2>1, <2>2, StartKeeps
       DEF EnsureUnacked, Start, MessagesAgree, DeviceHasStoredKey
  <2>3. CASE Goto(c, "idle")
    BY <1>0, <1>9, <2>1, <2>3, GotoKeeps
       DEF EnsureUnacked, Goto, MessagesAgree, DeviceHasStoredKey
  <2> QED
    BY <1>9, <2>2, <2>3 DEF EnsureUnacked
<1>10. ASSUME NEW c \in Callers, SelectKey(c) PROVE IInv'
  <2>1. CASE Fails(c)
    BY <1>0, <1>10, <2>1, FinishKeeps DEF SelectKey, Fails, MessagesAgree, DeviceHasStoredKey
  <2>2. CASE ~ Fails(c)
    <3>1. TypeOK'
      <4>1. pc' \in [Callers -> Steps]
        BY <1>10, <2>2 DEF SelectKey, Steps
      <4>2. drawn' \in [Callers -> MaybeKey] /\ got' \in [Callers -> MaybeKey]
        BY <1>10, <2>2 DEF SelectKey, MaybeKey
      <4> QED
        BY <1>10, <2>2, <4>1, <4>2 DEF SelectKey
    <3>2. StepsHaveKeys' /\ CallersAgree'
      BY <1>10, <2>2 DEF SelectKey, StepsHaveKeys, CallersAgree
    <3>3. MessagesAgree' /\ DeviceHasStoredKey'
      BY <1>10, <2>2 DEF SelectKey, MessagesAgree, DeviceHasStoredKey
    <3> QED
      BY <3>1, <3>2, <3>3
  <2> QED
    BY <2>1, <2>2
<1>11. ASSUME NEW c \in Callers, InsertKey(c) PROVE IInv'
  <2>1. table' \in [Tenants -> MaybeKey] /\ got[c] = None /\ "reread" \in Steps
    BY <1>11 DEF InsertKey, StepsHaveKeys, Steps
  <2>2. MessagesAgree' /\ DeviceHasStoredKey'
    BY <1>0, <1>11 DEF InsertKey, Fails, MessagesAgree, DeviceHasStoredKey, KeysStay, Message
  <2>3. CASE Goto(c, "reread") /\ UNCHANGED <<setting, adminVars, acked, deviceVars, handed>>
    BY <1>0, <2>1, <2>2, <2>3, GotoKeeps DEF Goto
  <2>4. CASE Fails(c)
    BY <1>0, <2>1, <2>2, <2>4, FinishKeeps DEF Fails
  <2> QED
    BY <1>11, <2>3, <2>4 DEF InsertKey
<1>12. ASSUME NEW c \in Callers, RereadKey(c) PROVE IInv'
  <2>1. CASE Finish(c)
    BY <1>0, <1>12, <2>1, FinishKeeps DEF RereadKey, MessagesAgree, DeviceHasStoredKey
  <2>2. CASE ~ Finish(c)
    <3>1. TypeOK'
      BY <1>12, <2>2 DEF RereadKey, Steps, MaybeKey
    <3>2. StepsHaveKeys' /\ CallersAgree'
      BY <1>12, <2>2 DEF RereadKey, StepsHaveKeys, CallersAgree
    <3>3. MessagesAgree' /\ DeviceHasStoredKey'
      BY <1>12, <2>2 DEF RereadKey, MessagesAgree, DeviceHasStoredKey
    <3> QED
      BY <3>1, <3>2, <3>3
  <2> QED
    BY <2>1, <2>2
<1>13. ASSUME NEW c \in Callers, HandKey(c) PROVE IInv'
  <2>1. got[c] \in Keys
    BY <1>13 DEF HandKey, StepsHaveKeys, MaybeKey
  <2> QED
    BY <1>0, <1>13, <2>1, FinishKeeps DEF HandKey, MessagesAgree, DeviceHasStoredKey
<1>14. ASSUME NEW c \in Callers, RecordPush(c) PROVE IInv'
  <2>1. CASE Finish(c)
    BY <1>0, <1>14, <2>1, FinishKeeps DEF RecordPush, MessagesAgree, DeviceHasStoredKey
  <2>2. CASE ~ Finish(c)
    BY <1>14, <2>2 DEF RecordPush, Steps, StepsHaveKeys, CallersAgree, MessagesAgree,
       DeviceHasStoredKey
  <2> QED
    BY <2>1, <2>2
<1>15. ASSUME NEW c \in Callers, Publish(c) PROVE IInv'
  <2>1. got[c] \in Keys /\ got[c] = table[route[c]]
    BY <1>15 DEF Publish, StepsHaveKeys, CallersAgree, MaybeKey
  <2>2. [tid |-> route[c], key |-> got[c], row |-> row[c]] \in Message
    BY <2>1 DEF Message
  <2> QED
    BY <1>0, <1>15, <2>1, <2>2, FinishKeeps DEF Publish, MessagesAgree, DeviceHasStoredKey
<1>16. ASSUME NEW a \in BOOLEAN, HandleAck(a) PROVE IInv'
  BY <1>16 DEF HandleAck, StepsHaveKeys, CallersAgree, MessagesAgree, DeviceHasStoredKey
<1>17. ASSUME NEW what \in {"boo", "reg"}, Connect(what) PROVE IInv'
  BY <1>17 DEF Connect, StepsHaveKeys, CallersAgree, MessagesAgree, DeviceHasStoredKey
<1>18. ASSUME NEW m \in dn, StoreKey(m) \/ Lose(m) PROVE IInv'
  <2>1. m \in Message /\ table[m.tid] = m.key
    BY DEF MessagesAgree
  <2>2. CASE StoreKey(m)
    <3>1. nvs' \in MaybeKey /\ acks' \subseteq BOOLEAN /\ dn' \subseteq Message
      BY <2>1, <2>2 DEF StoreKey, Message, MaybeKey
    <3> QED
      BY <2>1, <2>2, <3>1 DEF StoreKey, StepsHaveKeys, CallersAgree, MessagesAgree, DeviceHasStoredKey
  <2>3. CASE Lose(m)
    BY <2>3 DEF Lose, StepsHaveKeys, CallersAgree, MessagesAgree, DeviceHasStoredKey
  <2> QED
    BY <1>18, <2>2, <2>3
<1>19. CASE UNCHANGED vars
  BY <1>19 DEF vars, StepsHaveKeys, CallersAgree, MessagesAgree, DeviceHasStoredKey
<1> QED
  BY <1>1, <1>2, <1>3, <1>4, <1>5, <1>6, <1>7, <1>8, <1>9, <1>10, <1>11, <1>12, <1>13, <1>14, <1>15, <1>16, <1>17, <1>18, <1>19
     DEF Next, Begin, Answer, Continue

THEOREM InductiveInvariant == Spec => []IInv
BY IInvInit, IInvNext, PTL DEF Spec

\* Every variable keeps its type.
THEOREM TypeCorrect == Spec => []TypeOK
<1>1. IInv => TypeOK
  BY DEF IInv
<1> QED
  BY <1>1, InductiveInvariant, PTL

\* Every caller that was given a key was given the one in the table.
THEOREM CallersAlwaysAgree == Spec => []CallersAgree
<1>1. IInv => CallersAgree
  BY DEF IInv
<1> QED
  BY <1>1, InductiveInvariant, PTL

\* The device never holds a key other than the one stored for its own tenant.
THEOREM DeviceAlwaysHasStoredKey == Spec => []DeviceHasStoredKey
<1>1. IInv => DeviceHasStoredKey
  BY DEF IInv
<1> QED
  BY <1>1, InductiveInvariant, PTL

-----------------------------------------------------------------------------
(* The app's key.  A device that is provisioned under the consumer tenant  *)
(* has rows under no other, so every caller goes by its own tenant.        *)

OneTenant ==
  /\ rows \subseteq {HomeTid}
  /\ \A c \in Callers : route[c] = HomeTid

\* What the app was given is in the table still.
HandedKept == \A k \in handed : k = table[HomeTid]

\* With one tenant, owned devices are looked up under it.
LEMMA RoutedHome ==
  ASSUME ConsumerTid = HomeTid, OneTenant
  PROVE  OwnedDeviceRoute \subseteq {HomeTid}
BY DEF OneTenant, OwnedDeviceRoute

\* Every step stays with the one tenant.
LEMMA OneTenantStep ==
  ASSUME ConsumerTid = HomeTid, TypeOK, OneTenant, [Next]_vars
  PROVE  OneTenant'
<1> USE DEF OneTenant
<1>0. route \in [Callers -> Tenants] /\ HomeTid \in Tenants
  BY LocalKeyAssumptions DEF TypeOK
<1>1. CASE Provision \/ Reset \/ ClaimDevice \/ Disconnect \/ Wipe \/ UNCHANGED vars
  BY <1>1 DEF Provision, Reset, ClaimDevice, Disconnect, Wipe, vars, adminVars, callerVars
<1>2. ASSUME NEW c \in Callers, Begin(c) PROVE OneTenant'
  BY <1>0, <1>2, RoutedHome DEF Begin, AdoptLook, GetLocalKey, ProvisionLocalKey, Start, Goto,
     adminVars
<1>3. ASSUME NEW c \in Callers, Answer(c) PROVE OneTenant'
  BY <1>3 DEF Answer, HandleHello, Goto
<1>4. ASSUME NEW c \in Callers, Continue(c) PROVE OneTenant'
  <2>1. UNCHANGED rows
    BY <1>4 DEF Continue, AdoptLink, EnsureAdopted, EnsureUnacked, SelectKey, InsertKey, RereadKey,
       HandKey, RecordPush, Publish, Fails, adminVars
  <2>2. UNCHANGED route \/ route' = [route EXCEPT ![c] = HomeTid]
    BY <1>4 DEF Continue, AdoptLink, EnsureAdopted, EnsureUnacked, SelectKey, InsertKey, RereadKey,
       HandKey, RecordPush, Publish, Fails, Start, Goto, Finish
  <2> QED
    BY <1>0, <2>1, <2>2
<1>5. CASE \/ \E a \in BOOLEAN : HandleAck(a)
           \/ \E what \in {"boo", "reg"} : Connect(what)
           \/ \E m \in dn : StoreKey(m) \/ Lose(m)
  BY <1>5 DEF HandleAck, Connect, StoreKey, Lose, adminVars, callerVars
<1> QED
  BY <1>1, <1>2, <1>3, <1>4, <1>5 DEF Next

\* Only HandKey gives the app a key.
LEMMA HandedBy ==
  ASSUME [Next]_vars, NEW k \in handed', k \notin handed
  PROVE  \E c \in Callers : HandKey(c) /\ k = got[c]
<1>1. CASE \E c \in Callers : HandKey(c)
  BY <1>1 DEF HandKey
<1>2. CASE ~ \E c \in Callers : HandKey(c)
  <2>1. handed' = handed
    BY <1>2 DEF Next, Provision, Reset, ClaimDevice, Disconnect, Wipe, Begin, AdoptLook, GetLocalKey,
       ProvisionLocalKey, Answer, HandleHello, Continue, AdoptLink, EnsureAdopted, EnsureUnacked,
       SelectKey, InsertKey, RereadKey, RecordPush, Publish, Fails, HandleAck, Connect, StoreKey,
       Lose, vars
  <2> QED
    BY <2>1
<1> QED
  BY <1>1, <1>2

\* Every step keeps what the app was given in the table.
LEMMA HandedStep ==
  ASSUME IInv, OneTenant, HandedKept, [Next]_vars
  PROVE  HandedKept'
<1>1. handed \subseteq Keys /\ None \notin Keys /\ HomeTid \in Tenants
  BY LocalKeyAssumptions DEF IInv, TypeOK
<1>2. ASSUME NEW k \in handed PROVE k = table'[HomeTid]
  BY <1>1, KeysStayNext DEF HandedKept, KeysStay
<1>3. ASSUME NEW c \in Callers, HandKey(c) PROVE got[c] = table'[HomeTid]
  <2>1. got[c] # None /\ got[c] = table[HomeTid]
    BY <1>3 DEF HandKey, IInv, StepsHaveKeys, CallersAgree, OneTenant
  <2> QED
    BY <1>1, <2>1, KeysStayNext DEF KeysStay
<1> QED
  BY <1>2, <1>3, HandedBy DEF HandedKept

\* The app and a device of the consumer tenant hold one key.
THEOREM AppAlwaysHasDeviceKey ==
  ASSUME ConsumerTid = HomeTid
  PROVE  Spec => []AppHasDeviceKey
<1>1. Init => OneTenant /\ HandedKept
  BY DEF Init, OneTenant, HandedKept
<1>2. IInv /\ OneTenant /\ HandedKept /\ [Next]_vars => OneTenant' /\ HandedKept'
  BY OneTenantStep, HandedStep DEF IInv
<1>3. IInv /\ HandedKept => AppHasDeviceKey
  BY DEF IInv, DeviceHasStoredKey, HandedKept, AppHasDeviceKey
<1> QED
  BY <1>1, <1>2, <1>3, InductiveInvariant, PTL DEF Spec

-----------------------------------------------------------------------------
(* LocalKey implements WriteOnce: the insert chooses, the reads learn, and  *)
(* the end of a caller forgets.                                             *)

LEMMA HeldStays ==
  ASSUME \A c \in Callers : got'[c] = got[c] /\ (got[c] # None => route'[c] = route[c])
  PROVE  held' = held
BY DEF held

LEMMA FinishForgets ==
  ASSUME IInv, NEW c \in Callers, Finish(c), UNCHANGED table
  PROVE  Register!Forget(c)
<1>1. held' = [held EXCEPT ![c] = None]
  BY DEF held, Finish, IInv, TypeOK
<1> QED
  BY <1>1 DEF Register!Forget

LEMMA ReadLearns ==
  ASSUME IInv, NEW c \in Callers, table[route[c]] # None, UNCHANGED <<table, route>>,
         got' = [got EXCEPT ![c] = table[route[c]]]
  PROVE  Register!Learn(c, route[c])
<1>1. held' = [held EXCEPT ![c] = <<route[c], table[route[c]]>>]
  BY DEF held, IInv, TypeOK
<1> QED
  BY <1>1 DEF Register!Learn

LEMMA InsertChooses ==
  ASSUME IInv, NEW c \in Callers, InsertKey(c)
  PROVE  \/ Register!Choose(route[c], drawn[c]) /\ drawn[c] \in Keys
         \/ UNCHANGED <<table, held>>
<1>1. got[c] = None /\ drawn[c] \in Keys
  BY DEF InsertKey, IInv, TypeOK, StepsHaveKeys, MaybeKey
<1>2. held' = held
  BY <1>1, HeldStays DEF InsertKey, Goto, Fails, Finish, IInv, TypeOK
<1> QED
  BY <1>1, <1>2 DEF InsertKey, Register!Choose

LEMMA RefinementStep == IInv /\ [Next]_vars => [Register!Next]_(Register!vars)
<1> SUFFICES ASSUME IInv, [Next]_vars
             PROVE  Register!Next \/ UNCHANGED <<table, held>>
  BY DEF Register!vars
<1> USE DEF adminVars, callerVars, deviceVars
<1>1. ASSUME Provision \/ Reset \/ ClaimDevice \/ Disconnect \/ Wipe
      PROVE  UNCHANGED <<table, held>>
  BY <1>1, HeldStays DEF Provision, Reset, ClaimDevice, Disconnect, Wipe
<1>2. ASSUME NEW c \in Callers, Begin(c) PROVE UNCHANGED <<table, held>>
  <2>1. got[c] = None
    BY <1>2 DEF Begin, AdoptLook, GetLocalKey, ProvisionLocalKey, IInv, StepsHaveKeys
  <2> QED
    BY <1>2, <2>1, HeldStays
       DEF Begin, AdoptLook, GetLocalKey, ProvisionLocalKey, Start, Goto, IInv, TypeOK
<1>3. ASSUME NEW c \in Callers, Answer(c) PROVE UNCHANGED <<table, held>>
  BY <1>3, HeldStays DEF Answer, HandleHello, Goto
<1>4. ASSUME NEW c \in Callers, AdoptLink(c) \/ EnsureAdopted(c) \/ EnsureUnacked(c)
      PROVE  UNCHANGED <<table, held>>
  <2>1. got[c] = None
    BY <1>4 DEF AdoptLink, EnsureAdopted, EnsureUnacked, IInv, StepsHaveKeys
  <2> QED
    BY <1>4, <2>1, HeldStays
       DEF AdoptLink, EnsureAdopted, EnsureUnacked, Start, Goto, IInv, TypeOK
<1>5. ASSUME NEW c \in Callers, SelectKey(c)
      PROVE  Register!Next \/ UNCHANGED <<table, held>>
  <2>1. CASE Fails(c)
    <3>1. Register!Forget(c)
      BY <1>5, <2>1, FinishForgets DEF SelectKey, Fails
    <3> QED
      BY <3>1 DEF Register!Next
  <2>2. CASE table[route[c]] = None /\ ~ Fails(c)
    BY <1>5, <2>2, HeldStays DEF SelectKey
  <2>3. CASE table[route[c]] # None /\ ~ Fails(c)
    <3>1. Register!Learn(c, route[c]) /\ route[c] \in Tenants
      BY <1>5, <2>3, ReadLearns DEF SelectKey, IInv, TypeOK
    <3> QED
      BY <3>1 DEF Register!Next
  <2> QED
    BY <2>1, <2>2, <2>3
<1>6. ASSUME NEW c \in Callers, InsertKey(c)
      PROVE  Register!Next \/ UNCHANGED <<table, held>>
  <2>1. route[c] \in Tenants
    BY DEF IInv, TypeOK
  <2> QED
    BY <1>6, <2>1, InsertChooses DEF Register!Next
<1>7. ASSUME NEW c \in Callers, RereadKey(c) PROVE Register!Next
  <2>1. CASE Finish(c)
    <3>1. Register!Forget(c)
      BY <1>7, <2>1, FinishForgets DEF RereadKey
    <3> QED
      BY <3>1 DEF Register!Next
  <2>2. CASE ~ Finish(c)
    <3>1. Register!Learn(c, route[c]) /\ route[c] \in Tenants
      BY <1>7, <2>2, ReadLearns DEF RereadKey, IInv, TypeOK
    <3> QED
      BY <3>1 DEF Register!Next
  <2> QED
    BY <2>1, <2>2
<1>8. ASSUME NEW c \in Callers, HandKey(c) \/ Publish(c) PROVE Register!Next
  <2>1. Register!Forget(c)
    BY <1>8, FinishForgets DEF HandKey, Publish
  <2> QED
    BY <2>1 DEF Register!Next
<1>9. ASSUME NEW c \in Callers, RecordPush(c)
      PROVE  Register!Next \/ UNCHANGED <<table, held>>
  <2>1. CASE Finish(c)
    <3>1. Register!Forget(c)
      BY <1>9, <2>1, FinishForgets DEF RecordPush
    <3> QED
      BY <3>1 DEF Register!Next
  <2>2. CASE ~ Finish(c)
    BY <1>9, <2>2, HeldStays DEF RecordPush
  <2> QED
    BY <2>1, <2>2
<1>10. ASSUME NEW a \in BOOLEAN, HandleAck(a) PROVE UNCHANGED <<table, held>>
  BY <1>10, HeldStays DEF HandleAck
<1>11. ASSUME NEW what \in {"boo", "reg"}, Connect(what) PROVE UNCHANGED <<table, held>>
  BY <1>11, HeldStays DEF Connect
<1>12. ASSUME NEW m \in dn, StoreKey(m) \/ Lose(m) PROVE UNCHANGED <<table, held>>
  BY <1>12, HeldStays DEF StoreKey, Lose
<1>13. CASE UNCHANGED vars
  BY <1>13, HeldStays DEF vars
<1> QED
  BY <1>1, <1>2, <1>3, <1>4, <1>5, <1>6, <1>7, <1>8, <1>9, <1>10, <1>11, <1>12, <1>13
     DEF Next, Continue

\* The LAN key service implements the write-once register.
THEOREM ImplementsWriteOnce == Spec => WrittenOnce
<1>1. Init => Register!Init
  BY DEF Init, Register!Init, held
<1> QED
  BY <1>1, RefinementStep, InductiveInvariant, PTL DEF Spec, WrittenOnce, Register!Spec

================================================================================
